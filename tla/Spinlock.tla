------------------------------ MODULE Spinlock ------------------------------
(***************************************************************************)
(* The big kernel lock (kern/spinlock.c, kern/spinlock.h), one action per  *)
(* access to the shared words lk->locked and lk->cpu.                      *)
(*                                                                         *)
(* DEBUG_SPINLOCK is defined in spinlock.h, so spin_lock and spin_unlock   *)
(* first ask holding(lk), which reads lk->locked and then lk->cpu with     *)
(* plain loads while other CPUs write them.  What those loads return is    *)
(* decided by the x86 memory model: a plain store waits in the CPU's store *)
(* buffer until it drains, a CPU sees its own buffered stores, and xchg    *)
(* drains the buffer before it runs.  sb[c] is that buffer, restricted to  *)
(* the only word written with plain stores, lk->cpu.                       *)
(*                                                                         *)
(* The callers are those of the kernel: lock_kernel() on the way into it,  *)
(* unlock_kernel() on the way out.                                         *)
(***************************************************************************)
EXTENDS Naturals, Sequences

CONSTANTS CPUs,     \* the processors (struct CpuInfo in cpus[])
          NoCPU     \* the null pointer in lk->cpu

ASSUME NoCPUAssumption == NoCPU \notin CPUs

VARIABLES locked,   \* lk->locked
          cpu,      \* lk->cpu, as it stands in memory
          sb,       \* sb[c]: c's buffered stores to lk->cpu, oldest first
          pc,       \* pc[c]: what c does next
          owner     \* history: the CPU whose xchg took the lock

vars == <<locked, cpu, sb, pc, owner>>

Labels == {"out", "lockTest", "lockTestCpu", "spin", "record", "in",
           "unlockTest", "unlockTestCpu", "clear", "release", "panic"}

TypeOK == /\ locked \in {0, 1}
          /\ cpu \in CPUs \cup {NoCPU}
          /\ sb \in [CPUs -> Seq(CPUs \cup {NoCPU})]
          /\ pc \in [CPUs -> Labels]
          /\ owner \in CPUs \cup {NoCPU}

\* kernel_lock is a static variable with no initializer for these fields.
Init == /\ locked = 0
        /\ cpu = NoCPU
        /\ sb = [c \in CPUs |-> << >>]
        /\ pc = [c \in CPUs |-> "out"]
        /\ owner = NoCPU

Goto(c, l) == pc' = [pc EXCEPT ![c] = l]

\* What a load of lk->cpu by CPU c returns.
LoadCpu(c) == IF sb[c] = << >> THEN cpu ELSE sb[c][Len(sb[c])]

Store(c, v) == sb' = [sb EXCEPT ![c] = Append(@, v)]

\* The oldest buffered store of c reaches memory.
Drain(c) == /\ sb[c] # << >>
            /\ cpu' = Head(sb[c])
            /\ sb' = [sb EXCEPT ![c] = Tail(@)]
            /\ UNCHANGED <<locked, pc, owner>>

------------------------------------------------------------------------------
(* spin_lock *)

CallLock(c) == /\ pc[c] = "out"
               /\ Goto(c, "lockTest")
               /\ UNCHANGED <<locked, cpu, sb, owner>>

\* holding(): lock->locked is read first ...
LockTest(c) == /\ pc[c] = "lockTest"
               /\ Goto(c, IF locked = 1 THEN "lockTestCpu" ELSE "spin")
               /\ UNCHANGED <<locked, cpu, sb, owner>>

\* ... and lock->cpu only if it was set; "already holding" is a panic.
LockTestCpu(c) == /\ pc[c] = "lockTestCpu"
                  /\ Goto(c, IF LoadCpu(c) = c THEN "panic" ELSE "spin")
                  /\ UNCHANGED <<locked, cpu, sb, owner>>

\* One round of while (xchg(&lk->locked, 1) != 0).
Xchg(c) == /\ pc[c] = "spin"
           /\ sb[c] = << >>
           /\ locked' = 1
           /\ IF locked = 0
                THEN Goto(c, "record") /\ owner' = c
                ELSE UNCHANGED <<pc, owner>>
           /\ UNCHANGED <<cpu, sb>>

Record(c) == /\ pc[c] = "record"
             /\ Store(c, c)
             /\ Goto(c, "in")
             /\ UNCHANGED <<locked, cpu, owner>>

------------------------------------------------------------------------------
(* spin_unlock *)

CallUnlock(c) == /\ pc[c] = "in"
                 /\ Goto(c, "unlockTest")
                 /\ UNCHANGED <<locked, cpu, sb, owner>>

UnlockTest(c) == /\ pc[c] = "unlockTest"
                 /\ Goto(c, IF locked = 1 THEN "unlockTestCpu" ELSE "panic")
                 /\ UNCHANGED <<locked, cpu, sb, owner>>

UnlockTestCpu(c) == /\ pc[c] = "unlockTestCpu"
                    /\ Goto(c, IF LoadCpu(c) = c THEN "clear" ELSE "panic")
                    /\ UNCHANGED <<locked, cpu, sb, owner>>

\* Mutants: lk->cpu left as it was; the lock freed before the fields are reset.
ClearForgotten(c) == /\ pc[c] = "clear"
                     /\ Goto(c, "release")
                     /\ UNCHANGED <<locked, cpu, sb, owner>>

ClearLate(c) == /\ pc[c] = "clear"
                /\ locked' = 0
                /\ Store(c, NoCPU)
                /\ Goto(c, "release")
                /\ UNCHANGED <<cpu, owner>>

Clear(c) == /\ pc[c] = "clear"
            /\ Store(c, NoCPU)
            /\ Goto(c, "release")
            /\ UNCHANGED <<locked, cpu, owner>>

\* xchg(&lk->locked, 0)
Release(c) == /\ pc[c] = "release"
              /\ sb[c] = << >>
              /\ locked' = 0
              /\ owner' = NoCPU
              /\ Goto(c, "out")
              /\ UNCHANGED <<cpu, sb>>

------------------------------------------------------------------------------
(* The steps a CPU takes without being asked: all but the call to spin_lock. *)
Inside(c) == \/ LockTest(c) \/ LockTestCpu(c) \/ Xchg(c) \/ Record(c)
             \/ CallUnlock(c) \/ UnlockTest(c) \/ UnlockTestCpu(c)
             \/ Clear(c) \/ Release(c)

Next == \E c \in CPUs : CallLock(c) \/ Inside(c) \/ Drain(c)

Spec == Init /\ [][Next]_vars

------------------------------------------------------------------------------
(* Properties *)

Holding == {"record", "in", "unlockTest", "unlockTestCpu", "clear", "release"}

\* Two CPUs are never both between the xchg that took the lock in spin_lock
\* and the xchg that frees it in spin_unlock.
MutualExclusion ==
    \A c, d \in CPUs : pc[c] \in Holding /\ pc[d] \in Holding => c = d

\* The debugging checks of spin_lock and spin_unlock never fire for callers
\* that keep the rules, although holding() reads two words that other CPUs are
\* writing: a stale lk->cpu is never mistaken for one's own.
NoFalseAlarm == \A c \in CPUs : pc[c] # "panic"

------------------------------------------------------------------------------
(* Refinement: the lock is taken and freed by the two successful xchgs.    *)

PhaseOf(l) == CASE l = "out" -> "out"
                [] l \in Holding -> "in"
                [] OTHER -> "waiting"

Abstract == INSTANCE AbstractLock
                WITH phase <- [c \in CPUs |-> PhaseOf(pc[c])]

\* spinlock.c implements the lock its header promises, progress included.
ImplementsLock == Abstract!FairSpec
=============================================================================
