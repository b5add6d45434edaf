------------------------------ MODULE KernEnv ------------------------------
(***************************************************************************)
(* Environments, processors and the scheduler of the JOS kernel            *)
(* (kern/env.c, kern/sched.c, kern/trap.c, the environment and IPC system  *)
(* calls of kern/syscall.c).                                               *)
(*                                                                         *)
(* A processor runs an environment in user mode until it traps.  trap()    *)
(* takes the big kernel lock and the handler keeps it until env_run() or   *)
(* sched_halt() gives it up, so that a whole kernel entry is one step here *)
(* (module Spinlock is about the lock itself).  What happens between the   *)
(* entries of different processors is arbitrary: an environment destroyed  *)
(* by its parent while another processor runs it, a message that wakes an  *)
(* environment another processor is about to put to sleep, and so on.      *)
(*                                                                         *)
(* Environments make the calls lib/fork.c, lib/spawn.c and the programs    *)
(* under user/ make: a parent starts a child that has not been started,    *)
(* and does not destroy one it has already destroyed.                      *)
(***************************************************************************)
EXTENDS Integers, Sequences

CONSTANTS CPUs,      \* cpus[]
          BSP,       \* bootcpu
          NENV,      \* number of slots in envs[]
          MaxGen,    \* generations an env_id has room for (2^19 - 1 in JOS)
          NInitial,  \* environments i386_init creates (the file server and one
                     \* program)
          None       \* a null pointer, and env_parent_id 0

Slots == 0 .. NENV - 1

ASSUME SizeAssumption == /\ NENV \in Nat \ {0}
                         /\ MaxGen \in Nat \ {0}
                         /\ NInitial \in 1 .. NENV
ASSUME CPUAssumption == BSP \in CPUs
ASSUME NoneAssumption == None \notin Slots

VARIABLES status,    \* env_status of each slot
          gen,       \* generation bits of env_id
          parent,    \* env_parent_id
          recving,   \* env_ipc_recving
          pgdir,     \* whether env_pgdir points to a page directory
          freeList,  \* env_free_list, head first
          fresh,     \* history: forked, and not yet started by its parent
          cur,       \* curenv of each processor
          mode,      \* where each processor is, see Modes
          ctx        \* history: env_id of the environment whose registers a
                     \* processor in user mode has loaded

envVars == <<status, gen, parent, recving, pgdir, freeList, fresh>>
slotVars == <<gen, parent, recving, pgdir, freeList, fresh>>   \* all but the status
cpuVars == <<cur, mode, ctx>>
vars == <<envVars, cpuVars>>

Statuses == {"FREE", "DYING", "RUNNABLE", "RUNNING", "NOT_RUNNABLE"}

\* "boot": about to enter the scheduler for the first time; "user", "halted"
\* (hlt in sched_halt); "monitor" and "panic" never give the kernel lock back.
Modes == {"boot", "user", "halted", "monitor", "panic"}

Ids == (0 .. MaxGen) \X Slots
Id(e) == <<gen[e], e>>

TypeOK == /\ status \in [Slots -> Statuses]
          /\ gen \in [Slots -> 0 .. MaxGen]
          /\ parent \in [Slots -> Ids \cup {None}]
          /\ recving \in [Slots -> BOOLEAN]
          /\ pgdir \in [Slots -> BOOLEAN]
          /\ freeList \in Seq(Slots)
          /\ fresh \in [Slots -> BOOLEAN]
          /\ cur \in [CPUs -> Slots \cup {None}]
          /\ mode \in [CPUs -> Modes]
          /\ ctx \in [CPUs -> Ids \cup {None}]

(***************************************************************************)
(* env_init, the two env_create calls of i386_init, and the processors on  *)
(* their way to sched_yield.  env_create takes slots from the front of the *)
(* free list and leaves the environments runnable.                         *)
(***************************************************************************)
Init == /\ status = [e \in Slots |-> IF e < NInitial THEN "RUNNABLE" ELSE "FREE"]
        /\ gen = [e \in Slots |-> IF e < NInitial THEN 1 ELSE 0]
        /\ parent = [e \in Slots |-> None]
        /\ recving = [e \in Slots |-> FALSE]
        /\ pgdir = [e \in Slots |-> e < NInitial]
        /\ freeList = [i \in 1 .. NENV - NInitial |-> NInitial + i - 1]
        /\ fresh = [e \in Slots |-> FALSE]
        /\ cur = [c \in CPUs |-> None]
        /\ mode = [c \in CPUs |-> "boot"]
        /\ ctx = [c \in CPUs |-> None]

------------------------------------------------------------------------------
(* The scheduler.  st is envs[].env_status and cv is curenv at the call.     *)

Panic(c, st) == /\ status' = st
                /\ mode' = [mode EXCEPT ![c] = "panic"]
                /\ UNCHANGED <<cur, ctx>>

\* Mutant: the environment that gives up the processor stays RUNNING.
EnvRunKeepsOld(c, e, st, cv) ==
    IF pgdir'[e]
      THEN /\ status' = [st EXCEPT ![e] = "RUNNING"]
           /\ cur' = [cur EXCEPT ![c] = e]
           /\ ctx' = [ctx EXCEPT ![c] = <<gen'[e], e>>]
           /\ mode' = [mode EXCEPT ![c] = "user"]
      ELSE Panic(c, st)

\* env_run(e): the previous environment is put back to RUNNABLE if it still
\* was RUNNING.  PADDR() of a null page directory is a panic.
EnvRun(c, e, st, cv) ==
    LET put == [s \in Slots |-> IF s = cv /\ st[s] = "RUNNING" THEN "RUNNABLE"
                                                               ELSE st[s]]
    IN  IF pgdir'[e]
          THEN /\ status' = [put EXCEPT ![e] = "RUNNING"]
               /\ cur' = [cur EXCEPT ![c] = e]
               /\ ctx' = [ctx EXCEPT ![c] = <<gen'[e], e>>]
               /\ mode' = [mode EXCEPT ![c] = "user"]
          ELSE Panic(c, put)

\* Mutant: a zombie does not keep the system from looking idle.
SchedHaltNoDying(c, st, cv) ==
    /\ status' = st
    /\ IF \E e \in Slots : st[e] \in {"RUNNABLE", "RUNNING"}
         THEN /\ cur' = [cur EXCEPT ![c] = None]
              /\ mode' = [mode EXCEPT ![c] = "halted"]
         ELSE /\ cur' = [cur EXCEPT ![c] = cv]
              /\ mode' = [mode EXCEPT ![c] = "monitor"]
    /\ ctx' = [ctx EXCEPT ![c] = None]

\* sched_halt(): with nothing left to run anywhere, the kernel monitor.
SchedHalt(c, st, cv) ==
    /\ status' = st
    /\ IF \E e \in Slots : st[e] \in {"RUNNABLE", "RUNNING", "DYING"}
         THEN /\ cur' = [cur EXCEPT ![c] = None]
              /\ mode' = [mode EXCEPT ![c] = "halted"]
         ELSE /\ cur' = [cur EXCEPT ![c] = cv]
              /\ mode' = [mode EXCEPT ![c] = "monitor"]
    /\ ctx' = [ctx EXCEPT ![c] = None]

\* Steps of the scan, which starts just after curenv or at envs[0], to reach e.
ScanDistance(e, cv) == (IF cv = None THEN e ELSE e - cv - 1) % NENV

\* Mutant: a scan that also takes environments some processor is running.
NextRunnableOrRunning(e, st, cv) ==
    /\ st[e] \in {"RUNNABLE", "RUNNING"}
    /\ \A f \in Slots : st[f] \in {"RUNNABLE", "RUNNING"} =>
                            ScanDistance(e, cv) <= ScanDistance(f, cv)

\* The environment the scan of sched_yield() stops at.
NextRunnable(e, st, cv) ==
    /\ st[e] = "RUNNABLE"
    /\ \A f \in Slots : st[f] = "RUNNABLE" =>
                            ScanDistance(e, cv) <= ScanDistance(f, cv)

\* Mutant: a scan that ends with the last slot of envs[].
SchedYieldNoWrap(c, st, cv) ==
    LET ahead == {e \in Slots : st[e] = "RUNNABLE" /\ (cv = None \/ e > cv)}
    IN  IF ahead # {}
          THEN \E e \in ahead : (\A f \in ahead : e <= f) /\ EnvRun(c, e, st, cv)
          ELSE IF cv # None /\ st[cv] = "RUNNING"
                 THEN EnvRun(c, cv, st, cv)
                 ELSE SchedHalt(c, st, cv)

SchedYield(c, st, cv) ==
    IF \E e \in Slots : st[e] = "RUNNABLE"
      THEN \E e \in Slots : NextRunnable(e, st, cv) /\ EnvRun(c, e, st, cv)
      ELSE IF cv # None /\ st[cv] = "RUNNING"
             THEN EnvRun(c, cv, st, cv)
             ELSE SchedHalt(c, st, cv)

\* The end of trap(): back to the same environment if it may still run.
TrapReturn(c, st, cv) ==
    IF cv # None /\ st[cv] = "RUNNING"
      THEN EnvRun(c, cv, st, cv)
      ELSE SchedYield(c, st, cv)

------------------------------------------------------------------------------
(* env_free, env_destroy, env_alloc *)

\* Everything env_free() does to the environment table.
FreeSlot(e) == /\ pgdir' = [pgdir EXCEPT ![e] = FALSE]
               /\ freeList' = <<e>> \o freeList
               /\ UNCHANGED <<gen, parent, recving, fresh>>

\* Mutant: freed at once, whoever is running it.
EnvDestroyAtOnce(c, e) ==
    IF ~pgdir[e]
      THEN Panic(c, status) /\ UNCHANGED slotVars
      ELSE LET st == [status EXCEPT ![e] = "FREE"]
           IN  /\ FreeSlot(e)
               /\ IF cur[c] = e THEN SchedYield(c, st, None)
                                ELSE TrapReturn(c, st, cur[c])

\* env_destroy(e), called by processor c.  Freeing an environment that has no
\* page directory any more dereferences a null pointer in the kernel.
EnvDestroy(c, e) ==
    IF status[e] = "RUNNING" /\ cur[c] # e
      THEN /\ UNCHANGED slotVars
           /\ TrapReturn(c, [status EXCEPT ![e] = "DYING"], cur[c])
      ELSE IF ~pgdir[e]
             THEN /\ Panic(c, status)
                  /\ UNCHANGED slotVars
             ELSE LET st == [status EXCEPT ![e] = "FREE"]
                  IN  /\ FreeSlot(e)
                      /\ IF cur[c] = e THEN SchedYield(c, st, None)
                                       ELSE TrapReturn(c, st, cur[c])

\* Mutant: env_ipc_recving keeps the value of the slot's previous environment.
AllocSlotKeepsRecving(e, p) ==
    /\ gen' = [gen EXCEPT ![e] = IF @ >= MaxGen THEN 1 ELSE @ + 1]
    /\ parent' = [parent EXCEPT ![e] = p]
    /\ pgdir' = [pgdir EXCEPT ![e] = TRUE]
    /\ fresh' = [fresh EXCEPT ![e] = TRUE]
    /\ freeList' = Tail(freeList)
    /\ UNCHANGED recving

\* Mutant: the slot stays on the free list.
AllocSlotStaysFree(e, p) ==
    /\ gen' = [gen EXCEPT ![e] = IF @ >= MaxGen THEN 1 ELSE @ + 1]
    /\ parent' = [parent EXCEPT ![e] = p]
    /\ recving' = [recving EXCEPT ![e] = FALSE]
    /\ pgdir' = [pgdir EXCEPT ![e] = TRUE]
    /\ fresh' = [fresh EXCEPT ![e] = TRUE]
    /\ UNCHANGED freeList

\* What a successful env_alloc() does besides the status.  A generation that
\* would make the id negative starts again at 1 << ENVGENSHIFT.
AllocSlot(e, p) ==
    /\ gen' = [gen EXCEPT ![e] = IF @ >= MaxGen THEN 1 ELSE @ + 1]
    /\ parent' = [parent EXCEPT ![e] = p]
    /\ recving' = [recving EXCEPT ![e] = FALSE]
    /\ pgdir' = [pgdir EXCEPT ![e] = TRUE]
    /\ fresh' = [fresh EXCEPT ![e] = TRUE]
    /\ freeList' = Tail(freeList)

------------------------------------------------------------------------------
(* Kernel entries.  They need the lock, which a processor in the monitor or  *)
(* in a panic keeps for ever.                                                *)

LockComesBack == \A c \in CPUs : mode[c] \notin {"monitor", "panic"}

\* i386_init() calls sched_yield() with the lock it took before starting the
\* other processors; they take it in mp_main().
FirstYield(c) == /\ LockComesBack
                 /\ mode[c] = "boot"
                 /\ c = BSP \/ mode[BSP] # "boot"
                 /\ UNCHANGED slotVars
                 /\ SchedYield(c, status, cur[c])

\* An interrupt ends hlt: trap() takes the lock and ends in sched_yield(),
\* with curenv null.
WakeUp(c) == /\ LockComesBack
             /\ mode[c] = "halted"
             /\ UNCHANGED slotVars
             /\ SchedYield(c, status, cur[c])

\* A trap from user mode finds its environment a zombie and collects it.
Collect(c) == /\ LockComesBack
              /\ mode[c] = "user"
              /\ status[cur[c]] = "DYING"
              /\ IF pgdir[cur[c]]
                   THEN /\ FreeSlot(cur[c])
                        /\ SchedYield(c, [status EXCEPT ![cur[c]] = "FREE"], None)
                   ELSE /\ Panic(c, status)
                        /\ UNCHANGED slotVars

\* Any other trap from user mode gets past the zombie check.
Trapped(c) == /\ LockComesBack
              /\ mode[c] = "user"
              /\ status[cur[c]] # "DYING"

\* The timer interrupt and sys_yield().
Yield(c) == /\ Trapped(c)
            /\ UNCHANGED slotVars
            /\ SchedYield(c, status, cur[c])

\* Every trap that leaves this module's state alone: system calls that fail,
\* output, page mappings, device interrupts.
TrapAndReturn(c) == /\ Trapped(c)
                    /\ UNCHANGED slotVars
                    /\ TrapReturn(c, status, cur[c])

\* A page fault handed to the environment's upcall: env_run(curenv), whatever
\* its status.
PageFaultUpcall(c) == /\ Trapped(c)
                      /\ UNCHANGED slotVars
                      /\ EnvRun(c, cur[c], status, cur[c])

\* A fault nobody handles: env_destroy(curenv).
Fault(c) == Trapped(c) /\ EnvDestroy(c, cur[c])

\* envid2env(id, checkperm = 1) on processor c: the caller itself (also with
\* its own id) or an immediate child of its.
Permitted(c, e) == \/ e = cur[c]
                   \/ /\ status[e] # "FREE"
                      /\ parent[e] = Id(cur[c])

Destroy(c, e) == /\ Trapped(c)
                 /\ Permitted(c, e)
                 /\ EnvDestroy(c, e)

\* sys_exofork() takes the first free slot; it fails, changing nothing, when
\* there is none or no page for a page directory (TrapAndReturn).
Exofork(c) == /\ Trapped(c)
              /\ freeList # << >>
              /\ LET e == Head(freeList)
                 IN  /\ AllocSlot(e, Id(cur[c]))
                     /\ TrapReturn(c, [status EXCEPT ![e] = "NOT_RUNNABLE"], cur[c])

SetStatus(c, e, s) == /\ Trapped(c)
                      /\ Permitted(c, e)
                      /\ s \in {"RUNNABLE", "NOT_RUNNABLE"}
                      /\ fresh' = [fresh EXCEPT ![e] = @ /\ s = "NOT_RUNNABLE"]
                      /\ UNCHANGED <<gen, parent, recving, pgdir, freeList>>
                      /\ TrapReturn(c, [status EXCEPT ![e] = s], cur[c])

\* sys_ipc_recv() records that the caller wants a message, then gives up the CPU.
IpcRecv(c) == /\ Trapped(c)
              /\ recving' = [recving EXCEPT ![cur[c]] = TRUE]
              /\ UNCHANGED <<gen, parent, pgdir, freeList, fresh>>
              /\ SchedYield(c, [status EXCEPT ![cur[c]] = "NOT_RUNNABLE"], cur[c])

\* A sys_ipc_try_send() that succeeds; anybody may send to anybody.
IpcTrySend(c, e) == /\ Trapped(c)
                    /\ e = cur[c] \/ status[e] # "FREE"
                    /\ recving[e]
                    /\ recving' = [recving EXCEPT ![e] = FALSE]
                    /\ UNCHANGED <<gen, parent, pgdir, freeList, fresh>>
                    /\ TrapReturn(c, [status EXCEPT ![e] = "RUNNABLE"], cur[c])

------------------------------------------------------------------------------
(* What callers do. *)

\* sys_env_set_status(child, ENV_RUNNABLE), the last call of fork() and spawn():
\* the child has never run.
Start(c, e) == /\ e # cur[c]
               /\ fresh[e]
               /\ SetStatus(c, e, "RUNNABLE")

\* sys_env_destroy() on oneself (exit()) or on a child not yet being destroyed.
Kill(c, e) == /\ status[e] # "DYING"
              /\ Destroy(c, e)

KernelStep(c) == FirstYield(c) \/ WakeUp(c) \/ Collect(c)

StableStep(c) == \/ KernelStep(c)
                 \/ Yield(c) \/ TrapAndReturn(c) \/ PageFaultUpcall(c)
                 \/ Exofork(c)
                 \/ IpcRecv(c)
                 \/ \E e \in Slots : Start(c, e) \/ IpcTrySend(c, e)

LibNext == \E c \in CPUs : \/ StableStep(c)
                           \/ Fault(c)
                           \/ \E e \in Slots : Kill(c, e)

LibSpec == Init /\ [][LibNext]_vars

(***************************************************************************)
(* The timer of every processor fires again and again, in user mode (FL_IF *)
(* is set in every environment's eflags) and in hlt (sti), and the         *)
(* interrupted processor eventually gets the lock.                         *)
(***************************************************************************)
Fairness == \A c \in CPUs : WF_vars(KernelStep(c)) /\ WF_vars(Yield(c))

LiveSpec == LibSpec /\ Fairness

------------------------------------------------------------------------------
(* Properties *)

OnCpu(c, e) == mode[c] = "user" /\ cur[c] = e

\* sched_yield() never hands an environment to a second processor: its
\* registers and its stack are in use on the first.
OneCpuPerEnv ==
    \A c, d \in CPUs, e \in Slots : OnCpu(c, e) /\ OnCpu(d, e) => c = d

\* env_status and the processors agree: exactly the environments some
\* processor is running are RUNNING, or DYING after an env_destroy() from
\* another processor.  The scheduler, sched_halt() and env_destroy() all decide
\* from env_status alone.
StatusTellsWhoRuns ==
    \A e \in Slots :
        status[e] \in {"RUNNING", "DYING"} <=> \E c \in CPUs : OnCpu(c, e)

\* A processor in user mode runs the environment whose registers it loaded: the
\* slot it calls curenv is never freed and given to another environment
\* behind its back.
RunsWhatItLoaded ==
    \A c \in CPUs : mode[c] = "user" => /\ pgdir[cur[c]]
                                        /\ ctx[c] = Id(cur[c])

\* env_free_list holds every free slot once and no other.
FreeListExact ==
    /\ \A i, j \in DOMAIN freeList : freeList[i] = freeList[j] => i = j
    /\ \A e \in Slots : status[e] = "FREE" <=> \E i \in DOMAIN freeList : freeList[i] = e

\* An environment that waits in sys_ipc_recv() stays blocked until a message
\* comes: it is never runnable with the receiving flag still up (a send would
\* then mark it RUNNABLE while it runs).
RecvBlocks ==
    \A e \in Slots : status[e] # "FREE" /\ recving[e] => status[e] = "NOT_RUNNABLE"

\* A child its parent is still building, by page mappings into its address space,
\* does not run before the parent starts it: not by being allocated, and not
\* because somebody sends it a message.
NotRunBeforeStarted ==
    \A e \in Slots : status[e] # "FREE" /\ fresh[e] => status[e] = "NOT_RUNNABLE"

\* The kernel does not panic: env_free() is never called on a freed
\* environment, nor env_run() on one without a page directory.
NoPanic == \A c \in CPUs : mode[c] # "panic"

\* A processor gives up on the system, keeping the lock for ever in the
\* monitor, only when no other processor is in user mode.
MonitorOnlyWhenIdle ==
    \A c, d \in CPUs : mode[c] = "monitor" => mode[d] # "user"

\* An environment that is ready runs eventually, unless environments keep
\* being freed for ever: env_destroy() and the collection of a zombie leave no
\* curenv, so that the scan after an exit starts at envs[0], and a parent in a
\* low slot that forks short-lived children one after the other keeps two
\* processors from ever reaching a higher slot.
Freed == \E e \in Slots : status[e] # "FREE" /\ status'[e] = "FREE"
ReadyRuns ==
    \/ []<><<Freed>>_vars
    \/ \A e \in Slots : status[e] = "RUNNABLE" ~> status[e] # "RUNNABLE"
=============================================================================
