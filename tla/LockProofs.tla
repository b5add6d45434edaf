----------------------------- MODULE LockProofs -----------------------------
(***************************************************************************)
(* Proofs about Spinlock, for callers that keep its rules, and about       *)
(* BootAps, for the kernel that does; any number of CPUs, with store       *)
(* buffers.                                                                *)
(*                                                                         *)
(* Mutual exclusion needs only lk->locked: IExclusion says that a CPU      *)
(* between its two xchgs is the owner and that the word is set while there *)
(* is an owner.  The silence of holding() also needs to know where a       *)
(* CPU's own name can be: only the owner has stores in its buffer, and     *)
(* memory names the owner, or nobody.                                      *)
(*                                                                         *)
(* The boot and the lock need each other.  That the APs wait for the lock  *)
(* until there are environments follows from the lock excluding (IInv);    *)
(* that the lock excludes follows from the kernel calling it by its rules, *)
(* which takes knowing where every processor is.  BInv says that, and one  *)
(* step lemma carries both over.  No proof about the lock alone uses       *)
(* anything of BootAps.                                                    *)
(***************************************************************************)
EXTENDS BootAps, SequenceTheorems, TLAPS

\* What may be in the store buffer of a CPU at each point of its code.
BufferAt(c) ==
    CASE pc[c] \in {"in", "unlockTest", "unlockTestCpu", "clear"} ->
             \/ sb[c] = <<c>>
             \/ sb[c] = << >> /\ cpu = c
      [] pc[c] = "release" ->
             \/ sb[c] = <<c, NoCPU>>
             \/ sb[c] = <<NoCPU>>
             \/ sb[c] = << >> /\ cpu = NoCPU
      [] OTHER -> sb[c] = << >> /\ cpu # c

IExclusion == /\ \A c \in CPUs : pc[c] \in Holding <=> owner = c
              /\ owner # NoCPU => locked = 1

IBuffer == \A c \in CPUs : BufferAt(c)

ISilent == /\ NoFalseAlarm
           /\ \A c \in CPUs : pc[c] \in {"unlockTestCpu"} => locked = 1

IInv == TypeOK /\ IExclusion /\ IBuffer /\ ISilent
------------------------------------------------------------------------------
(* A store joins an empty buffer, or the one that holds the owner's name. *)
LEMMA AppendTwo ==
    ASSUME NEW a, NEW b
    PROVE  Append(<<a>>, b) = <<a, b>>
<1> DEFINE S == {a, b}
           s == Append(<<a>>, b)
           t == <<a, b>>
<1>1. s \in Seq(S) /\ t \in Seq(S) /\ Len(s) = 2 /\ Len(t) = 2
  BY SMT
<1>2. s[1] = t[1] /\ s[2] = t[2]
  BY SMT
<1>3. \A i \in 1..Len(s) : s[i] = t[i]
  BY <1>1, <1>2
<1> HIDE DEF S, s, t
<1>4. s = t
  BY <1>1, <1>3, SeqEqual
<1> QED
  BY <1>4 DEF s, t

LEMMA BufferFacts ==
    ASSUME NEW a, NEW b
    PROVE  /\ Append(<< >>, a) = <<a>>
           /\ Append(<<a>>, b) = <<a, b>>
           /\ Head(<<a>>) = a /\ Tail(<<a>>) = << >>
           /\ Head(<<a, b>>) = a /\ Tail(<<a, b>>) = <<b>>
           /\ <<a>> # << >> /\ <<a, b>> # << >>
           /\ <<a>>[Len(<<a>>)] = a
<1>1. Append(<< >>, a) = <<a>>
  OBVIOUS
<1>2. /\ Head(<<a>>) = a /\ Tail(<<a>>) = << >>
      /\ Head(<<a, b>>) = a /\ Tail(<<a, b>>) = <<b>>
  OBVIOUS
<1>3. <<a>> # << >> /\ <<a, b>> # << >> /\ <<a>>[Len(<<a>>)] = a
  OBVIOUS
<1> QED
  BY <1>1, <1>2, <1>3, AppendTwo

(* The static initializer of kernel_lock satisfies the invariant. *)
LEMMA InitInv == Init => IInv
BY NoCPUAssumption
   DEF Init, IInv, TypeOK, IExclusion, IBuffer, BufferAt, ISilent, NoFalseAlarm,
       Holding, Labels

(* A plain load by the owner finds its own name until it has cleared it: this *)
(* is why holding() is right in spin_unlock.                                  *)
LEMMA OwnerSeesItself ==
    ASSUME IInv, NEW c \in CPUs, pc[c] = "unlockTestCpu"
    PROVE  LoadCpu(c) = c
BY BufferFacts DEF IInv, IBuffer, BufferAt, LoadCpu

(* ... and nobody else ever does: this is why it is right in spin_lock.       *)
LEMMA OthersDoNot ==
    ASSUME IInv, NEW c \in CPUs, pc[c] = "lockTestCpu"
    PROVE  LoadCpu(c) # c
BY DEF IInv, IBuffer, BufferAt, LoadCpu

(* The invariant is preserved, one case for each access to the lock.          *)
LEMMA NextInv == IInv /\ [Next]_vars => IInv'
<1> SUFFICES ASSUME IInv, [Next]_vars PROVE IInv'
  OBVIOUS
<1> USE NoCPUAssumption DEF IInv, TypeOK, IExclusion, IBuffer, BufferAt, ISilent,
        NoFalseAlarm, Holding, Labels, Goto
<1>1. ASSUME NEW c \in CPUs, CallLock(c) PROVE IInv'
  BY <1>1 DEF CallLock
<1>2. ASSUME NEW c \in CPUs, LockTest(c) PROVE IInv'
  BY <1>2 DEF LockTest
<1>3. ASSUME NEW c \in CPUs, LockTestCpu(c) PROVE IInv'
  BY <1>3, OthersDoNot DEF LockTestCpu
<1>4. ASSUME NEW c \in CPUs, Xchg(c) PROVE IInv'
  BY <1>4 DEF Xchg
<1>5. ASSUME NEW c \in CPUs, Record(c) PROVE IInv'
  <2>1. sb[c] = << >>
    BY <1>5 DEF Record
  <2>2. sb' = [sb EXCEPT ![c] = <<c>>]
    BY <1>5, <2>1, BufferFacts DEF Record, Store
  <2>3. <<c>> \in Seq(CPUs \cup {NoCPU})
    OBVIOUS
  <2> QED
    BY <1>5, <2>2, <2>3 DEF Record
<1>6. ASSUME NEW c \in CPUs, CallUnlock(c) PROVE IInv'
  BY <1>6 DEF CallUnlock
<1>7. ASSUME NEW c \in CPUs, UnlockTest(c) PROVE IInv'
  BY <1>7 DEF UnlockTest
<1>8. ASSUME NEW c \in CPUs, UnlockTestCpu(c) PROVE IInv'
  BY <1>8, OwnerSeesItself DEF UnlockTestCpu
<1>9. ASSUME NEW c \in CPUs, Clear(c) PROVE IInv'
  <2>1. sb[c] = <<c>> \/ (sb[c] = << >> /\ cpu = c)
    BY <1>9 DEF Clear
  <2>2. PICK q \in {<<NoCPU>>, <<c, NoCPU>>} : sb' = [sb EXCEPT ![c] = q]
    <3>1. sb' = [sb EXCEPT ![c] = Append(sb[c], NoCPU)]
      BY <1>9 DEF Clear, Store
    <3>2. Append(sb[c], NoCPU) \in {<<NoCPU>>, <<c, NoCPU>>}
      <4>1. Append(<<c>>, NoCPU) = <<c, NoCPU>>
        BY AppendTwo
      <4>2. Append(<< >>, NoCPU) = <<NoCPU>>
        OBVIOUS
      <4> QED
        BY <2>1, <4>1, <4>2, Zenon
    <3> QED
      BY <3>1, <3>2
  <2>3. q \in Seq(CPUs \cup {NoCPU})
    <3>1. <<NoCPU>> \in Seq(CPUs \cup {NoCPU}) /\ <<c, NoCPU>> \in Seq(CPUs \cup {NoCPU})
      OBVIOUS
    <3> QED
      BY <3>1, <2>2, Zenon
  <2>4. pc' = [pc EXCEPT ![c] = "release"] /\ pc[c] = "clear"
        /\ UNCHANGED <<locked, cpu, owner>>
    BY <1>9 DEF Clear
  <2>5. \A d \in CPUs : BufferAt(d)'
    <3>1. BufferAt(c)'
      <4>1. sb'[c] \in {<<NoCPU>>, <<c, NoCPU>>} /\ pc'[c] = "release"
        BY <2>2, <2>4
      <4> QED
        BY <4>1
    <3>2. ASSUME NEW d \in CPUs, d # c PROVE BufferAt(d)'
      <4>1. sb'[d] = sb[d] /\ pc'[d] = pc[d] /\ cpu' = cpu
        BY <2>2, <2>4, <3>2
      <4> QED
        BY <4>1
    <3> QED
      BY <3>1, <3>2
  <2>6. TypeOK' /\ IExclusion' /\ ISilent'
    BY <2>2, <2>3, <2>4
  <2> QED
    BY <2>5, <2>6
<1>10. ASSUME NEW c \in CPUs, Release(c) PROVE IInv'
  BY SMTT(30), <1>10 DEF Release
<1>11. ASSUME NEW c \in CPUs, Drain(c) PROVE IInv'
  <2>1. /\ sb[c] \in {<<c>>, <<NoCPU>>, <<c, NoCPU>>}
        /\ pc[c] \in Holding
    BY <1>11 DEF Drain
  <2>2. /\ sb[c] = <<c>> => cpu' = c /\ sb' = [sb EXCEPT ![c] = << >>]
        /\ sb[c] = <<NoCPU>> => cpu' = NoCPU /\ sb' = [sb EXCEPT ![c] = << >>]
        /\ sb[c] = <<c, NoCPU>> => cpu' = c /\ sb' = [sb EXCEPT ![c] = <<NoCPU>>]
    <3>1. cpu' = Head(sb[c]) /\ sb' = [sb EXCEPT ![c] = Tail(sb[c])]
      BY <1>11 DEF Drain
    <3>2. /\ Head(<<c>>) = c /\ Tail(<<c>>) = << >>
          /\ Head(<<NoCPU>>) = NoCPU /\ Tail(<<NoCPU>>) = << >>
          /\ Head(<<c, NoCPU>>) = c /\ Tail(<<c, NoCPU>>) = <<NoCPU>>
      BY BufferFacts
    <3> QED
      BY <3>1, <3>2, Zenon
  <2>3. TypeOK'
    <3>1. << >> \in Seq(CPUs \cup {NoCPU}) /\ <<NoCPU>> \in Seq(CPUs \cup {NoCPU})
      OBVIOUS
    <3>2. PICK q \in Seq(CPUs \cup {NoCPU}) : sb' = [sb EXCEPT ![c] = q]
      BY <2>1, <2>2, <3>1
    <3>3. cpu' \in {c, NoCPU} /\ UNCHANGED <<locked, pc, owner>>
      BY <1>11, <2>1, <2>2 DEF Drain
    <3> QED
      BY <3>2, <3>3
  <2>4. IExclusion' /\ ISilent'
    BY <1>11 DEF Drain
  <2>5. ASSUME NEW d \in CPUs PROVE BufferAt(d)'
    <3>1. CASE d = c
      <4>1. pc' = pc /\ BufferAt(c)
        BY <1>11 DEF Drain
      <4>2. <<c>> # <<NoCPU>> /\ <<c, NoCPU>> # <<c>> /\ <<c, NoCPU>> # <<NoCPU>>
        OBVIOUS
      <4>3. CASE sb[c] = <<c>>
        <5>1. sb'[c] = << >> /\ cpu' = c
          BY <2>2, <4>3
        <5> QED
          BY <2>1, <3>1, <4>1, <4>2, <4>3, <5>1, BufferFacts
      <4>4. CASE sb[c] = <<NoCPU>>
        <5>1. sb'[c] = << >> /\ cpu' = NoCPU
          BY <2>2, <4>4
        <5> QED
          BY <2>1, <3>1, <4>1, <4>2, <4>4, <5>1, BufferFacts
      <4>5. CASE sb[c] = <<c, NoCPU>>
        <5>1. sb'[c] = <<NoCPU>> /\ cpu' = c
          BY <2>2, <4>5
        <5> QED
          BY <2>1, <3>1, <4>1, <4>2, <4>5, <5>1, BufferFacts
      <4> QED
        BY <2>1, <4>3, <4>4, <4>5
    <3>2. CASE d # c
      <4>1. pc[d] \notin Holding /\ sb[d] = << >> /\ cpu' # d /\ sb'[d] = << >> /\ pc'[d] = pc[d]
        BY <1>11, <2>1, <2>2, <3>2 DEF Drain
      <4> QED
        BY <4>1
    <3> QED
      BY <3>1, <3>2
  <2> QED
    BY <2>3, <2>4, <2>5
<1>12. CASE UNCHANGED vars
  BY <1>12 DEF vars
<1> QED
  BY <1>1, <1>2, <1>3, <1>4, <1>5, <1>6, <1>7, <1>8, <1>9, <1>10, <1>11, <1>12
     DEF Next, Inside

(* The inductive invariant holds in every reachable state.                    *)
THEOREM Invariance == Spec => []IInv
BY InitInv, NextInv, PTL DEF Spec

(* Type correctness of the lock's words, buffers and code labels.             *)
THEOREM TypeCorrect == Spec => []TypeOK
BY Invariance, PTL DEF IInv

(* The lock excludes: for any number of CPUs, two are never both between the  *)
(* acquiring and the releasing xchg.                                          *)
THEOREM Exclusion == Spec => []MutualExclusion
<1>1. IInv => MutualExclusion
  BY NoCPUAssumption DEF IInv, IExclusion, MutualExclusion
<1> QED
  BY <1>1, Invariance, PTL

(* The checks of DEBUG_SPINLOCK never stop a CPU that keeps the rules.        *)
THEOREM Silence == Spec => []NoFalseAlarm
BY Invariance, PTL DEF IInv, ISilent
------------------------------------------------------------------------------
(* The refinement: the call of spin_lock is Request, the acquiring xchg is    *)
(* Acquire, the releasing one is Release, and every other access to the lock  *)
(* leaves the phase of its CPU as it is.                                      *)
LEMMA Phases ==
    /\ PhaseOf("out") = "out"
    /\ \A l \in Holding : PhaseOf(l) = "in"
    /\ \A l \in {"lockTest", "lockTestCpu", "spin", "panic"} : PhaseOf(l) = "waiting"
    /\ \A l \in Labels : PhaseOf(l) = "in" => l \in Holding
BY DEF PhaseOf, Holding, Labels

LEMMA PhaseMoves ==
    ASSUME TypeOK, NEW c \in CPUs, NEW l, pc' = [pc EXCEPT ![c] = l]
    PROVE  [d \in CPUs |-> PhaseOf(pc'[d])] =
               [[d \in CPUs |-> PhaseOf(pc[d])] EXCEPT ![c] = PhaseOf(l)]
BY DEF TypeOK

LEMMA PhaseStays ==
    ASSUME TypeOK, NEW c \in CPUs, NEW l, pc' = [pc EXCEPT ![c] = l],
           PhaseOf(l) = PhaseOf(pc[c])
    PROVE  [d \in CPUs |-> PhaseOf(pc'[d])] = [d \in CPUs |-> PhaseOf(pc[d])]
BY DEF TypeOK

LEMMA StepImplements ==
    IInv /\ IInv' /\ [Next]_vars => [Abstract!Next]_([c \in CPUs |-> PhaseOf(pc[c])])
<1> SUFFICES ASSUME IInv, IInv', [Next]_vars
             PROVE  [Abstract!Next]_([c \in CPUs |-> PhaseOf(pc[c])])
  OBVIOUS
<1>0. TypeOK /\ TypeOK'
  BY DEF IInv
<1> DEFINE Phase == [c \in CPUs |-> PhaseOf(pc[c])]
           PhaseNext == [c \in CPUs |-> PhaseOf(pc'[c])]
<1>1. ASSUME NEW c \in CPUs, CallLock(c) PROVE Abstract!Request(c)
  <2>1. Phase[c] = "out" /\ PhaseNext = [Phase EXCEPT ![c] = "waiting"]
    <3>1. pc[c] = "out" /\ pc' = [pc EXCEPT ![c] = "lockTest"]
      BY <1>1 DEF CallLock, Goto
    <3>2. PhaseOf(pc[c]) = "out" /\ PhaseOf("lockTest") = "waiting"
      BY <3>1, Phases
    <3>3. PhaseNext = [Phase EXCEPT ![c] = PhaseOf("lockTest")]
      BY <1>0, <3>1, PhaseMoves
    <3> QED
      BY <3>2, <3>3
  <2> QED
    BY <2>1 DEF Abstract!Request
<1>2. ASSUME NEW c \in CPUs, Xchg(c), locked = 0 PROVE Abstract!Acquire(c)
  <2>1. \A d \in CPUs : pc[d] \in Labels \ Holding
    BY <1>0, <1>2, NoCPUAssumption DEF IInv, IExclusion, TypeOK
  <2>2. Phase[c] = "waiting" /\ PhaseNext = [Phase EXCEPT ![c] = "in"]
    <3>1. pc[c] = "spin" /\ pc' = [pc EXCEPT ![c] = "record"]
      BY <1>2 DEF Xchg, Goto
    <3>2. PhaseOf(pc[c]) = "waiting" /\ PhaseOf("record") = "in"
      BY <3>1, Phases DEF Holding
    <3>3. PhaseNext = [Phase EXCEPT ![c] = PhaseOf("record")]
      BY <1>0, <3>1, PhaseMoves
    <3> QED
      BY <3>2, <3>3
  <2> QED
    BY <2>1, <2>2, Phases DEF Abstract!Acquire
<1>3. ASSUME NEW c \in CPUs, Release(c) PROVE Abstract!Release(c)
  <2>1. Phase[c] = "in" /\ PhaseNext = [Phase EXCEPT ![c] = "out"]
    <3>1. pc[c] = "release" /\ pc' = [pc EXCEPT ![c] = "out"]
      BY <1>3 DEF Release, Goto
    <3>2. PhaseOf(pc[c]) = "in" /\ PhaseOf("out") = "out"
      BY <3>1, Phases DEF Holding
    <3>3. PhaseNext = [Phase EXCEPT ![c] = PhaseOf("out")]
      BY <1>0, <3>1, PhaseMoves
    <3> QED
      BY <3>2, <3>3
  <2> QED
    BY <2>1 DEF Abstract!Release
<1>4. ASSUME NEW c \in CPUs,
             \/ LockTest(c) \/ LockTestCpu(c) \/ (Xchg(c) /\ locked # 0) \/ Record(c)
             \/ CallUnlock(c) \/ UnlockTest(c) \/ UnlockTestCpu(c) \/ Clear(c) \/ Drain(c)
      PROVE  PhaseNext = Phase
  <2>1. pc' = [pc EXCEPT ![c] = pc'[c]]
    BY <1>0, <1>4 DEF LockTest, LockTestCpu, Xchg, Record, CallUnlock, UnlockTest,
                      UnlockTestCpu, Clear, Drain, Goto, TypeOK
  <2>2. PhaseOf(pc'[c]) = PhaseOf(pc[c])
    <3>1. pc'[c] # "panic"
      BY DEF IInv, ISilent, NoFalseAlarm
    <3>2. \/ pc[c] \in {"lockTest", "lockTestCpu", "spin"} /\ pc'[c] \in {"lockTestCpu", "spin"}
          \/ pc[c] \in Holding /\ pc'[c] \in Holding
          \/ pc'[c] = pc[c]
      BY <1>0, <1>4, <3>1
         DEF LockTest, LockTestCpu, Xchg, Record, CallUnlock, UnlockTest, UnlockTestCpu,
             Clear, Drain, Goto, TypeOK, Holding
    <3> QED
      BY <3>2, Phases
  <2> QED
    BY <1>0, <2>1, <2>2, PhaseStays
<1>5. CASE UNCHANGED vars
  BY <1>5 DEF vars
<1> QED
  BY <1>1, <1>2, <1>3, <1>4, <1>5 DEF Next, Inside, Abstract!Next

(* spinlock.c is a lock: seen through the phases of the CPUs, every behaviour *)
(* is one of the abstract lock, for any number of CPUs.  (That the lock does  *)
(* not stay free while somebody waits is left to the runs.)                   *)
THEOREM IsALock == Spec => Abstract!Spec
<1>1. Init => Abstract!Init
  BY Phases DEF Init, Abstract!Init
<1>2. IInv /\ IInv' /\ [Next]_vars => [Abstract!Next]_([c \in CPUs |-> PhaseOf(pc[c])])
  BY StepImplements
<1> QED
  BY <1>1, <1>2, Invariance, PTL DEF Spec, Abstract!Spec

------------------------------------------------------------------------------
(* The kernel that uses the lock, from the start of the processors.        *)
\* The BSP has not yet created the environments.
BootingNow == where[BSP] \in {"init", "boot"}

Asking == {"lockTest", "lockTestCpu", "spin"}

\* Where a processor is in the kernel's code and in the lock's go together.
LockPlace(c) ==
    /\ where[c] \in {"off", "reset", "entry", "setup", "init", "trap"} => pc[c] = "out"
    /\ where[c] \in {"boot", "kernel"} => pc[c] \in Asking \cup {"record", "in"}
    /\ where[c] \in {"user", "halted"} =>
            pc[c] \in {"unlockTest", "unlockTestCpu", "clear", "release", "out"}
    /\ where[c] = "halted" => status[c] = "halted"
    /\ where[c] \in {"init", "boot", "kernel", "user", "trap"} => status[c] = "started"

\* The loop of boot_aps(), seen from the BSP ...
BootLoop ==
    /\ where[BSP] \in {"init", "boot", "kernel", "user", "trap", "halted"}
    /\ where[BSP] = "init" => boot.step = "stack" /\ todo = APs
    /\ where[BSP] = "boot" /\ todo # APs => pc[BSP] = "in"
    /\ boot.step # "stack" => /\ where[BSP] = "boot" /\ pc[BSP] = "in"
                              /\ boot.ap \in todo /\ kstack = boot.ap
    /\ ~BootingNow => todo = {} /\ (ready > 0 \/ \E d \in CPUs : cur[d])

Current(c, steps) == c = boot.ap /\ boot.step \in steps

\* ... and from each of the others.
ApPlace(c) ==
    /\ where[c] \notin {"init", "boot"}
    /\ c \in todo /\ ~Current(c, {"startup", "again", "wait"}) => where[c] = "off" /\ sipi[c] = 0
    /\ Current(c, {"startup"}) => where[c] = "reset" /\ sipi[c] = 0
    /\ Current(c, {"again"}) => sipi[c] <= 1
    /\ Current(c, {"again", "wait"}) => where[c] \in {"reset", "entry", "setup", "kernel"}
    /\ c \notin todo => where[c] \in {"kernel", "user", "trap", "halted"}
    /\ status[c] # "unused" => where[c] \in {"kernel", "user", "trap", "halted"}
    /\ BootingNow => where[c] \notin {"user", "trap", "halted"} /\ pc[c] \in Asking \cup {"out"}
    /\ where[c] \notin {"off", "reset", "entry"} => stack[c] = c

BInv == /\ BootTypeOK
        /\ \A c \in CPUs : LockPlace(c)
        /\ BootLoop
        /\ \A c \in APs : ApPlace(c)
------------------------------------------------------------------------------
(* Every step of the kernel is a step the lock allows, or none of the lock's. *)
LEMMA StepKeepsRules == BInv /\ IInv /\ [BootNext]_allVars => [Next]_vars
<1> SUFFICES ASSUME BInv, IInv, [BootNext]_allVars PROVE [Next]_vars
  OBVIOUS
<1> USE BSPAssumption DEF BInv
<1>1. CASE LockFirst
  BY <1>1 DEF LockFirst, Next
<1>2. CASE SetStack \/ SendInit \/ SendStartup \/ AwaitStarted \/ CreateEnvs
  BY <1>2 DEF SetStack, SendInit, SendStartup, AwaitStarted, CreateEnvs
<1>3. ASSUME NEW c \in APs, ApStep(c) PROVE [Next]_vars
  BY <1>3 DEF ApStep, TakeStartup, LoadStack, Started, APs, Next
<1>4. ASSUME NEW c \in CPUs, Trap(c) PROVE [Next]_vars
  BY <1>4 DEF Trap, TrapFrom, EnterLock, CallLock, Next
<1>5. ASSUME NEW c \in CPUs, Kernel(c) PROVE [Next]_vars
  <2>1. CASE RunEnv(c) \/ SchedHalt(c)
    <3>1. pc[c] = "in" /\ (Leave(c, "user") \/ Leave(c, "halted"))
      BY <2>1 DEF RunEnv, SchedHalt, Free, LockPlace, Asking
    <3>2. CallUnlock(c)
      BY <3>1 DEF Leave, CallUnlock
    <3> QED
      BY <3>2 DEF Next, Inside
  <2>2. CASE TrapFromUser(c)
    <3>1. CallLock(c)
      BY <2>2 DEF TrapFromUser, EnterLock, CallLock, LockPlace
    <3> QED
      BY <3>1 DEF Next
  <2> QED
    BY <1>5, <2>1, <2>2 DEF Kernel
<1>6. ASSUME NEW c \in CPUs, LockStep(c) PROVE [Next]_vars
  BY <1>6 DEF LockStep, Next, Inside
<1>7. ASSUME NEW c \in CPUs, Buffer(c) PROVE [Next]_vars
  BY <1>7 DEF Buffer, Next
<1>8. ASSUME NEW c \in CPUs, Dispatch(c) PROVE [Next]_vars
  BY <1>8 DEF Dispatch
<1>9. CASE UNCHANGED allVars
  BY <1>9 DEF allVars
<1> QED
  BY <1>1, <1>2, <1>3, <1>4, <1>5, <1>6, <1>7, <1>8, <1>9 DEF BootNext, BspStep

\* How a processor moves through the lock's code.
LockMoves(c, l) ==
    /\ pc[c] \notin {"in", "out", "panic"}
    /\ pc[c] \in Asking => l \in Asking \/ (l = "record" /\ locked = 0)
    /\ pc[c] = "record" => l = "in"
    /\ pc[c] \in {"unlockTest", "unlockTestCpu", "clear", "release"} =>
            l \in {"unlockTestCpu", "clear", "release", "out"}

(* The machine starts with one processor running, outside the kernel lock.    *)
LEMMA BootInitInv == BootInit => BInv
BY BSPAssumption, NEnvAssumption
   DEF BootInit, Init, BInv, BootTypeOK, LockPlace, BootLoop, ApPlace, BootingNow, Current,
       Places, APs, Asking

(* A processor in the kernel that is Free has the lock.                       *)
LEMMA FreeHoldsLock ==
    ASSUME BInv, NEW c \in CPUs, where[c] \in {"boot", "kernel"}, Free(c)
    PROVE  pc[c] = "in"
BY DEF BInv, LockPlace, Free, Asking

(* A processor goes on to another place.                                     *)
LEMMA PlaceType ==
    ASSUME BootTypeOK, NEW c \in CPUs, NEW place \in Places, At(c, place)
    PROVE  where' \in [CPUs -> Places]
BY DEF BootTypeOK, At

(* The invariant is preserved, one step for each place in the boot and in the *)
(* kernel.  That a lock step does not take a processor where it should not be *)
(* is what the lock's own invariant says of the next state.                   *)
LEMMA BootNextInv == BInv /\ IInv /\ IInv' /\ [BootNext]_allVars => BInv'
<1> SUFFICES ASSUME BInv, IInv, IInv', [BootNext]_allVars PROVE BInv'
  OBVIOUS
<1> USE BSPAssumption, NEnvAssumption
        DEF BInv, BootTypeOK, LockPlace, BootLoop, ApPlace, BootingNow, Current,
            Places, APs, Asking, bootVars, runVars, vars, At, Goto
<1>0. TypeOK
  BY DEF IInv
<1> USE <1>0 DEF TypeOK
<1>1. CASE LockFirst
  BY <1>1 DEF LockFirst, CallLock
<1>2. CASE SetStack
  BY <1>2, FreeHoldsLock DEF SetStack, Booting
<1>3. CASE SendInit
  <2>1. BootTypeOK'
    BY <1>3 DEF SendInit, Booting, Step
  <2>2. \A d \in CPUs : LockPlace(d)'
    BY <1>3 DEF SendInit, Booting, Step
  <2>3. BootLoop'
    BY <1>3 DEF SendInit, Booting, Step
  <2>4. \A d \in APs : ApPlace(d)'
    BY <1>3 DEF SendInit, Booting, Step
  <2> QED
    BY <2>1, <2>2, <2>3, <2>4
<1>4. CASE SendStartup
  <2>1. BootTypeOK'
    <3>1. boot.ap \in APs /\ sipi[boot.ap] + 1 \in 0 .. 2
      <4>1. boot.step \in {"startup", "again"} /\ boot.ap \in todo
        BY <1>4 DEF SendStartup, Booting
      <4>2. boot.ap \in APs /\ sipi[boot.ap] \in 0 .. 2
        BY <4>1
      <4>3. sipi[boot.ap] <= 1
        BY <4>1, <4>2
      <4> QED
        BY <4>2, <4>3
    <3>2. boot' \in [ap : APs \cup {NoCPU}, step : {"stack", "init", "startup", "again", "wait"}]
      BY <1>4 DEF SendStartup, Step
    <3>3. sipi' \in [APs -> 0 .. 2]
      BY <1>4, <3>1 DEF SendStartup
    <3> QED
      BY <1>4, <3>2, <3>3 DEF SendStartup
  <2>2. \A d \in CPUs : LockPlace(d)'
    BY <1>4 DEF SendStartup, Booting, Step
  <2>3. BootLoop'
    BY <1>4 DEF SendStartup, Booting, Step
  <2>4. \A d \in APs : ApPlace(d)'
    BY <1>4 DEF SendStartup, Booting, Step
  <2> QED
    BY <2>1, <2>2, <2>3, <2>4
<1>5. CASE AwaitStarted
  BY <1>5 DEF AwaitStarted, Booting, Step
<1>6. CASE CreateEnvs
  BY <1>6, FreeHoldsLock DEF CreateEnvs, Booting
<1>7. ASSUME NEW c \in APs, TakeStartup(c) PROVE BInv'
  <2>1. BootTypeOK'
    <3>1. sipi[c] - 1 \in 0 .. 2
      BY <1>7 DEF TakeStartup
    <3>2. sipi' \in [APs -> 0 .. 2]
      BY <1>7, <3>1 DEF TakeStartup
    <3>3. where' \in [CPUs -> Places]
      <4>1. CASE At(c, "entry")
        BY <4>1, PlaceType
      <4>2. CASE where' = where
        BY <4>2
      <4> QED
        BY <1>7, <4>1, <4>2 DEF TakeStartup
    <3> QED
      BY <1>7, <3>2, <3>3 DEF TakeStartup
  <2>2. \A d \in CPUs : LockPlace(d)'
    BY <1>7 DEF TakeStartup
  <2>3. BootLoop'
    BY <1>7 DEF TakeStartup
  <2>4. \A d \in APs : ApPlace(d)'
    BY <1>7 DEF TakeStartup
  <2> QED
    BY <2>1, <2>2, <2>3, <2>4
<1>8. ASSUME NEW c \in APs, LoadStack(c) PROVE BInv'
  BY <1>8 DEF LoadStack
<1>9. ASSUME NEW c \in APs, Started(c) PROVE BInv'
  BY <1>9 DEF Started, CallLock
<1>10. ASSUME NEW c \in CPUs, Trap(c) PROVE BInv'
  BY <1>10 DEF Trap, TrapFrom, EnterLock
<1>11. ASSUME NEW c \in CPUs, RunEnv(c) PROVE BInv'
  <2>1. BootTypeOK'
    BY <1>11 DEF RunEnv, Leave
  <2>2. \A d \in CPUs : LockPlace(d)'
    BY <1>11 DEF RunEnv, Leave
  <2>3. BootLoop'
    BY <1>11, FreeHoldsLock DEF RunEnv, Leave
  <2>4. \A d \in APs : ApPlace(d)'
    BY <1>11, FreeHoldsLock DEF RunEnv, Leave
  <2> QED
    BY <2>1, <2>2, <2>3, <2>4
<1>12. ASSUME NEW c \in CPUs, SchedHalt(c) PROVE BInv'
  <2>1. BootTypeOK'
    BY <1>12, FreeHoldsLock DEF SchedHalt, Leave
  <2>2. \A d \in CPUs : LockPlace(d)'
    BY <1>12, FreeHoldsLock DEF SchedHalt, Leave
  <2>3. BootLoop'
    BY <1>12, FreeHoldsLock DEF SchedHalt, Leave
  <2>4. \A d \in APs : ApPlace(d)'
    BY <1>12, FreeHoldsLock DEF SchedHalt, Leave
  <2> QED
    BY <2>1, <2>2, <2>3, <2>4
<1>13. ASSUME NEW c \in CPUs, LockStep(c) PROVE BInv'
  <2>1. UNCHANGED <<where, bootVars, runVars>>
    BY <1>13 DEF LockStep
  <2>2. PICK l \in Labels : pc' = [pc EXCEPT ![c] = l] /\ LockMoves(c, l)
    <3>1. pc' = [pc EXCEPT ![c] = pc'[c]] /\ pc'[c] \in Labels /\ pc'[c] # "panic"
      BY <1>13 DEF LockStep, LockTest, LockTestCpu, Xchg, Record, UnlockTest, UnlockTestCpu,
                   Clear, Release, IInv, ISilent, NoFalseAlarm, Labels
    <3>2. LockMoves(c, pc'[c])
      BY <1>13, <3>1 DEF LockStep, LockTest, LockTestCpu, Xchg, Record, UnlockTest,
                         UnlockTestCpu, Clear, Release, LockMoves
    <3> QED
      BY <3>1, <3>2
  <2>3. BootTypeOK'
    BY <2>1
  <2>4. ASSUME NEW d \in CPUs PROVE LockPlace(d)'
    BY <2>1, <2>2 DEF LockMoves
  <2>5. BootLoop'
    BY <2>1, <2>2 DEF LockMoves
  <2>6. ASSUME NEW d \in APs PROVE ApPlace(d)'
    <3>1. CASE BootingNow /\ d = c
      <4>1. where[BSP] = "boot" /\ pc[BSP] = "in"
        BY <2>2, <3>1 DEF LockMoves
      <4>2. locked = 1
        BY <4>1, NoCPUAssumption DEF IInv, IExclusion, Holding
      <4> QED
        BY <2>1, <2>2, <3>1, <4>2 DEF LockMoves
    <3>2. CASE ~BootingNow \/ d # c
      BY <2>1, <2>2, <3>2
    <3> QED
      BY <3>1, <3>2
  <2> QED
    BY <2>3, <2>4, <2>5, <2>6
<1>14. ASSUME NEW c \in CPUs, Buffer(c) PROVE BInv'
  BY <1>14 DEF Buffer, Drain
<1>15. ASSUME NEW c \in CPUs, TrapFromUser(c) PROVE BInv'
  BY <1>15 DEF TrapFromUser, EnterLock
<1>16. ASSUME NEW c \in CPUs, Dispatch(c) PROVE BInv'
  <2>1. BootTypeOK'
    <3>1. ready' \in 0 .. NEnv
      BY <1>16 DEF Dispatch
    <3>2. cur' \in [CPUs -> BOOLEAN]
      <4>1. CASE cur' = cur
        BY <4>1
      <4>2. CASE cur' = [cur EXCEPT ![c] = FALSE]
        BY <4>2
      <4> QED
        BY <1>16, <4>1, <4>2 DEF Dispatch
    <3>3. UNCHANGED <<where, boot, todo, kstack, stack, sipi, status>>
      BY <1>16 DEF Dispatch
    <3> QED
      BY <3>1, <3>2, <3>3
  <2>2. \A d \in CPUs : LockPlace(d)'
    BY <1>16 DEF Dispatch
  <2>3. BootLoop'
    BY <1>16 DEF Dispatch
  <2>4. \A d \in APs : ApPlace(d)'
    BY <1>16 DEF Dispatch
  <2> QED
    BY <2>1, <2>2, <2>3, <2>4
<1>17. CASE UNCHANGED allVars
  BY <1>17 DEF allVars
<1> QED
  BY <1>1, <1>2, <1>3, <1>4, <1>5, <1>6, <1>7, <1>8, <1>9, <1>10, <1>11, <1>12,
     <1>13, <1>14, <1>15, <1>16, <1>17 DEF BootNext, BspStep, ApStep, Kernel

(* The inductive invariants of the boot and of the lock, together.            *)
THEOREM BootInvariance == BootSpec => [](BInv /\ IInv)
<1>1. BootInit => BInv /\ IInv
  BY BootInitInv, InitInv DEF BootInit
<1>2. BInv /\ IInv /\ [BootNext]_allVars => (BInv /\ IInv)'
  BY StepKeepsRules, NextInv, BootNextInv
<1> QED
  BY <1>1, <1>2, PTL DEF BootSpec

(* Type correctness of the boot's variables.                                  *)
THEOREM BootTypeCorrect == BootSpec => []BootTypeOK
BY BootInvariance, PTL DEF BInv

(* For any number of processors the kernel calls spin_lock() and spin_unlock() *)
(* by the rules of Spinlock: a processor asks for the lock only without it and *)
(* gives it back only when it has it, in the boot, in traps from user mode and *)
(* out of a halt, and on the way out of the kernel.                            *)
THEOREM LockRulesKept == BootSpec => KeepsLockRules
<1>1. BInv /\ IInv /\ [BootNext]_allVars => [Next]_vars
  BY StepKeepsRules
<1>2. BootInit => Init
  BY DEF BootInit
<1> QED
  BY <1>1, <1>2, BootInvariance, PTL DEF BootSpec, KeepsLockRules

(* So what is proved of the lock holds of the kernel that uses it: one         *)
(* processor at a time, and no debugging panic.                                *)
THEOREM KernelExclusion == BootSpec => [](MutualExclusion /\ NoFalseAlarm)
<1>1. KeepsLockRules => Spec
  BY PTL DEF KeepsLockRules, Spec
<1> QED
  BY <1>1, LockRulesKept, Exclusion, Silence, PTL

(* Every AP starts on its own stack, and is alone while it sets itself up.     *)
THEOREM ApsStartAlone == BootSpec => []StartsAlone
<1>1. BInv /\ IInv => StartsAlone
  <2> SUFFICES ASSUME BInv, NEW c \in APs
               PROVE  /\ where[c] \notin {"off", "reset", "entry"} => stack[c] = c
                      /\ SettingUp(c) => /\ \A d \in CPUs \ {c} : ~SettingUp(d)
                                         /\ \A d \in APs : pc[d] \notin Holding
                                         /\ where[BSP] = "boot" /\ boot.ap = c
                                         /\ boot.step \in {"again", "wait"}
    BY DEF StartsAlone
  <2>1. ASSUME NEW d \in CPUs, SettingUp(d) PROVE d \in APs /\ Current(d, {"again", "wait"})
    <3>1. d \in APs
      BY <2>1 DEF BInv, BootLoop, SettingUp, APs
    <3>2. d \in todo /\ where[d] \in {"entry", "setup"}
      BY <2>1, <3>1 DEF BInv, ApPlace, SettingUp
    <3>3. Current(d, {"startup", "again", "wait"}) /\ ~Current(d, {"startup"})
      BY <3>1, <3>2 DEF BInv, ApPlace
    <3> QED
      BY <3>1, <3>3 DEF Current
  <2>2. ASSUME SettingUp(c) PROVE where[BSP] = "boot" /\ \A d \in APs : pc[d] \notin Holding
    <3>1. where[BSP] = "boot"
      BY <2>1, <2>2 DEF BInv, BootLoop, Current, APs
    <3> QED
      BY <3>1 DEF BInv, ApPlace, BootingNow, Asking, Holding
  <2> QED
    BY <2>1, <2>2 DEF BInv, ApPlace, Current, APs
<1> QED
  BY <1>1, BootInvariance, PTL

(* No processor is free to schedule before there are environments: it waits    *)
(* for the lock that the BSP keeps until it has created them.                  *)
THEOREM NobodyTooEarly == BootSpec => []NoneTooEarly
<1>1. BInv /\ IInv => NoneTooEarly
  BY BSPAssumption DEF BInv, BootLoop, LockPlace, ApPlace, NoneTooEarly, BootingNow, APs,
     Asking, Free
<1> QED
  BY <1>1, BootInvariance, PTL
=============================================================================
