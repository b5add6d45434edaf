------------------------------ MODULE BootAps -------------------------------
(***************************************************************************)
(* How the processors come to life (kern/init.c, kern/mpentry.S,           *)
(* kern/lapic.c) and then share the kernel (trap() in kern/trap.c,         *)
(* sched_yield() and sched_halt() in kern/sched.c), over the lock of       *)
(* Spinlock.                                                               *)
(*                                                                         *)
(* The boot processor takes the kernel lock, starts the others one after   *)
(* the other - each finds its stack in mpentry_kstack and reports in       *)
(* cpu_status - creates the first environments, and enters the scheduler.  *)
(* The others take the lock and enter the scheduler.  A processor that     *)
(* finds nothing to run marks itself halted, which is what tells trap()    *)
(* to take the lock when an interrupt ends the halt; a trap from user mode *)
(* takes it a few lines further on, whatever was done before.              *)
(***************************************************************************)
EXTENDS Spinlock, FiniteSets

CONSTANTS BSP,      \* the processor the machine starts with
          NEnv      \* how many environments i386_init() creates

ASSUME BSPAssumption == BSP \in CPUs
ASSUME NEnvAssumption == NEnv \in Nat \ {0}

VARIABLES where,    \* where[c]: what c executes, apart from the lock
          boot,     \* where the BSP is in boot_aps(): the AP, and the step
          todo,     \* the APs it has not started
          kstack,   \* mpentry_kstack, as the CPU whose stack it is
          stack,    \* stack[c]: whose stack c runs on
          sipi,     \* sipi[c]: STARTUP interrupts on their way to c
          status,   \* status[c]: cpu_status
          cur,      \* cur[c]: curenv is set
          ready     \* how many environments are ENV_RUNNABLE

bootVars == <<boot, todo, kstack, stack, sipi>>
runVars == <<status, cur, ready>>
allVars == <<vars, where, bootVars, runVars>>

APs == CPUs \ {BSP}

Places == {"off", "reset", "entry", "setup",    \* an AP before it has reported
           "init", "boot",                      \* the BSP before it schedules
           "kernel", "user", "trap", "halted"}

BootTypeOK == /\ where \in [CPUs -> Places]
              /\ boot \in [ap : APs \cup {NoCPU}, step : {"stack", "init", "startup", "again", "wait"}]
              /\ todo \subseteq APs
              /\ kstack \in APs \cup {NoCPU}
              /\ stack \in [CPUs -> CPUs \cup {NoCPU}]
              /\ sipi \in [APs -> 0 .. 2]
              /\ status \in [CPUs -> {"unused", "started", "halted"}]
              /\ cur \in [CPUs -> BOOLEAN]
              /\ ready \in 0 .. NEnv

\* mp_init() has found the processors; the BSP is marked as started.
BootInit == /\ Init
            /\ where = [c \in CPUs |-> IF c = BSP THEN "init" ELSE "off"]
            /\ boot = [ap |-> NoCPU, step |-> "stack"]
            /\ todo = APs
            /\ kstack = NoCPU
            /\ stack = [c \in CPUs |-> IF c = BSP THEN BSP ELSE NoCPU]
            /\ sipi = [c \in APs |-> 0]
            /\ status = [c \in CPUs |-> IF c = BSP THEN "started" ELSE "unused"]
            /\ cur = [c \in CPUs |-> FALSE]
            /\ ready = 0

At(c, place) == where' = [where EXCEPT ![c] = place]

\* Not inside spin_lock() or spin_unlock().
Free(c) == pc[c] \in {"in", "out"}

------------------------------------------------------------------------------
(* The boot processor *)

\* Mutant of LockFirst: the lock is not taken.
NoLockFirst == /\ where[BSP] = "init"
               /\ At(BSP, "boot")
               /\ UNCHANGED <<vars, bootVars, runVars>>

\* i386_init() takes the kernel lock before it wakes the others.
LockFirst == /\ where[BSP] = "init"
             /\ CallLock(BSP)
             /\ At(BSP, "boot")
             /\ UNCHANGED <<bootVars, runVars>>

Booting(step) == where[BSP] = "boot" /\ Free(BSP) /\ boot.step = step
Step(next) == boot' = [boot EXCEPT !.step = next]

SetStack == /\ Booting("stack")
            /\ \E c \in todo : /\ boot' = [ap |-> c, step |-> "init"]
                               /\ kstack' = c
            /\ UNCHANGED <<vars, where, todo, stack, sipi, runVars>>

\* lapic_startap(): an INIT, and the STARTUP interrupt twice.
SendInit == /\ Booting("init")
            /\ Step("startup")
            /\ At(boot.ap, "reset")
            /\ UNCHANGED <<vars, todo, kstack, stack, sipi, runVars>>

SendStartup == /\ Booting("startup") \/ Booting("again")
               /\ Step(IF boot.step = "startup" THEN "again" ELSE "wait")
               /\ sipi' = [sipi EXCEPT ![boot.ap] = @ + 1]
               /\ UNCHANGED <<vars, where, todo, kstack, stack, runVars>>

\* Mutant of AwaitStarted: the next AP is started at once.
AwaitNothing == /\ Booting("wait")
                /\ Step("stack")
                /\ todo' = todo \ {boot.ap}
                /\ UNCHANGED <<vars, where, kstack, stack, sipi, runVars>>

\* while (c->cpu_status != CPU_STARTED);
AwaitStarted == /\ Booting("wait")
                /\ status[boot.ap] = "started"
                /\ Step("stack")
                /\ todo' = todo \ {boot.ap}
                /\ UNCHANGED <<vars, where, kstack, stack, sipi, runVars>>

\* ENV_CREATE, and then sched_yield().
CreateEnvs == /\ Booting("stack")
              /\ todo = {}
              /\ ready' = NEnv
              /\ At(BSP, "kernel")
              /\ UNCHANGED <<vars, bootVars, status, cur>>

------------------------------------------------------------------------------
(* The other processors *)

\* A STARTUP interrupt counts only for a processor that waits for it.
TakeStartup(c) == /\ sipi[c] > 0
                  /\ sipi' = [sipi EXCEPT ![c] = @ - 1]
                  /\ IF where[c] = "reset" THEN At(c, "entry") ELSE UNCHANGED where
                  /\ UNCHANGED <<vars, boot, todo, kstack, stack, runVars>>

\* mpentry.S: movl mpentry_kstack, %esp
LoadStack(c) == /\ where[c] = "entry"
                /\ stack' = [stack EXCEPT ![c] = kstack]
                /\ At(c, "setup")
                /\ UNCHANGED <<vars, boot, todo, kstack, sipi, runVars>>

\* Mutant of Started: the report comes after the lock.
StartedLate(c) == /\ where[c] = "setup"
                  /\ IF pc[c] = "out"
                     THEN CallLock(c) /\ UNCHANGED <<where, status>>
                     ELSE /\ pc[c] = "in"
                          /\ status' = [status EXCEPT ![c] = "started"]
                          /\ At(c, "kernel")
                          /\ UNCHANGED vars
                  /\ UNCHANGED <<bootVars, cur, ready>>

\* mp_main() has set up the processor, reports, and calls lock_kernel() and
\* sched_yield().
Started(c) == /\ where[c] = "setup"
              /\ status' = [status EXCEPT ![c] = "started"]
              /\ CallLock(c)
              /\ At(c, "kernel")
              /\ UNCHANGED <<bootVars, cur, ready>>

------------------------------------------------------------------------------
(* Every processor, from then on *)

\* The way out of the kernel: unlock_kernel().
Leave(c, place) == /\ Goto(c, "unlockTest")
                   /\ At(c, place)
                   /\ UNCHANGED <<locked, cpu, sb, owner, bootVars>>

\* env_run(): the environment it had, or another in its place, or a first one.
RunEnv(c) == /\ where[c] = "kernel" /\ Free(c)
             /\ cur[c] \/ ready > 0
             /\ cur' = [cur EXCEPT ![c] = TRUE]
             /\ ready' = IF cur[c] THEN ready ELSE ready - 1
             /\ Leave(c, "user")
             /\ UNCHANGED status

\* trap_dispatch(): a system call of the environment makes another runnable (no
\* more than NEnv wait: a bound), or it stops, but for the last.  See KernEnv.
Dispatch(c) == /\ where[c] = "kernel" /\ Free(c) /\ cur[c]
               /\ \/ /\ ready < NEnv
                     /\ ready' = ready + 1
                     /\ UNCHANGED cur
                  \/ /\ ready > 0 \/ \E d \in CPUs \ {c} : cur[d]
                     /\ cur' = [cur EXCEPT ![c] = FALSE]
                     /\ UNCHANGED ready
               /\ UNCHANGED <<vars, where, bootVars, status>>

\* sched_halt() when other processors run environments.  (When none does it stays
\* in the kernel monitor with the lock: no step.  See KernEnv.)
SchedHalt(c) == /\ where[c] = "kernel" /\ Free(c)
                /\ ~cur[c] /\ ready = 0 /\ \E d \in CPUs : cur[d]
                /\ status' = [status EXCEPT ![c] = "halted"]
                /\ Leave(c, "halted")
                /\ UNCHANGED <<cur, ready>>

\* lock_kernel() in trap(), whether the processor has the lock or not.
EnterLock(c) == /\ Goto(c, "lockTest")
                /\ UNCHANGED <<locked, cpu, sb, owner>>

TrapFrom(c) == /\ where[c] \in {"user", "halted"} /\ pc[c] = "out"
               /\ At(c, IF where[c] = "user" THEN "trap" ELSE "kernel")
               /\ UNCHANGED <<bootVars, cur, ready>>

\* Mutant of Trap: the lock is not taken again after a halt.
TrapUserLocks(c) == /\ TrapFrom(c)
                    /\ status' = [status EXCEPT ![c] = "started"]
                    /\ UNCHANGED vars

\* Mutant of Trap: cpu_status is read and not set.
TrapReads(c) == /\ TrapFrom(c)
                /\ IF status[c] = "halted" THEN EnterLock(c) ELSE UNCHANGED vars
                /\ UNCHANGED status

\* trap(), first: the lock is taken if cpu_status was CPU_HALTED.
Trap(c) == /\ TrapFrom(c)
           /\ status' = [status EXCEPT ![c] = "started"]
           /\ IF status[c] = "halted" THEN EnterLock(c) ELSE UNCHANGED vars

\* Then it is taken on the way from user mode.
TrapFromUser(c) == /\ where[c] = "trap" /\ Free(c)
                   /\ EnterLock(c)
                   /\ At(c, "kernel")
                   /\ UNCHANGED <<bootVars, runVars>>

------------------------------------------------------------------------------
\* The steps inside spin_lock() and spin_unlock().
LockStep(c) == /\ \/ LockTest(c) \/ LockTestCpu(c) \/ Xchg(c) \/ Record(c)
                  \/ UnlockTest(c) \/ UnlockTestCpu(c) \/ Clear(c) \/ Release(c)
               /\ UNCHANGED <<where, bootVars, runVars>>

Buffer(c) == Drain(c) /\ UNCHANGED <<where, bootVars, runVars>>

BspStep == LockFirst \/ SetStack \/ SendInit \/ SendStartup \/ AwaitStarted \/ CreateEnvs
ApStep(c) == TakeStartup(c) \/ LoadStack(c) \/ Started(c)
Kernel(c) == RunEnv(c) \/ SchedHalt(c) \/ TrapFromUser(c)

BootNext == \/ BspStep
            \/ \E c \in APs : ApStep(c)
            \/ \E c \in CPUs : Trap(c) \/ Dispatch(c) \/ Kernel(c) \/ LockStep(c) \/ Buffer(c)

\* A processor goes on executing instructions, interrupts arrive, store buffers
\* drain.  Nothing makes an environment trap.
BootSpec == /\ BootInit /\ [][BootNext]_allVars
            /\ WF_allVars(BspStep)
            /\ \A c \in APs : WF_allVars(ApStep(c))
            /\ \A c \in CPUs : /\ WF_allVars(LockStep(c))
                               /\ WF_allVars(Kernel(c))
                               /\ WF_allVars(Buffer(c))

------------------------------------------------------------------------------
(* Properties *)

SettingUp(c) == where[c] \in {"entry", "setup"}

\* Every AP starts on a stack of its own although one variable hands them all
\* out; and while it sets itself up without the lock - maps its local APIC, which
\* allocates pages - it is alone: no second AP is being set up and the lock is
\* with the BSP, which only waits.
StartsAlone ==
    \A c \in APs :
        /\ where[c] \notin {"off", "reset", "entry"} => stack[c] = c
        /\ SettingUp(c) => /\ \A d \in CPUs \ {c} : ~SettingUp(d)
                           /\ \A d \in APs : pc[d] \notin Holding
                           /\ where[BSP] = "boot" /\ boot.ap = c /\ boot.step \in {"again", "wait"}

\* No processor that comes up early enters the scheduler before there are
\* environments: it would stay in the kernel monitor with the lock.
NoneTooEarly == \A c \in CPUs : where[c] = "kernel" /\ Free(c) =>
                                   ready > 0 \/ \E d \in CPUs : cur[d]

\* The kernel calls spin_lock() and spin_unlock() only in the way Spinlock allows,
\* for which LockProofs has the theorems: never while it has the lock, never
\* when it does not.
KeepsLockRules == Init /\ [][Next]_vars

\* The BSP is not left waiting for an AP whose CPU_STARTED it has missed: an AP
\* that reports and goes on into sched_halt() overwrites it.
BootEnds == <>(where[BSP] = "user")
=============================================================================
