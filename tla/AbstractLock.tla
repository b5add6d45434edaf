---------------------------- MODULE AbstractLock ----------------------------
(***************************************************************************)
(* What kern/spinlock.h promises its callers: a lock that one CPU holds at *)
(* a time.  A CPU asks for it, is given it when nobody has it, and gives   *)
(* it back.  Nothing is said about the order in which waiting CPUs get it, *)
(* only that the lock does not stay free while somebody waits.             *)
(***************************************************************************)
CONSTANT CPUs

VARIABLE phase      \* phase[c]: "out", "waiting" or "in"

Init == phase = [c \in CPUs |-> "out"]

Request(c) == /\ phase[c] = "out"
              /\ phase' = [phase EXCEPT ![c] = "waiting"]

Acquire(c) == /\ phase[c] = "waiting"
              /\ \A d \in CPUs : phase[d] # "in"
              /\ phase' = [phase EXCEPT ![c] = "in"]

Release(c) == /\ phase[c] = "in"
              /\ phase' = [phase EXCEPT ![c] = "out"]

Next == \E c \in CPUs : Request(c) \/ Acquire(c) \/ Release(c)

Spec == Init /\ [][Next]_phase

FairSpec == /\ Spec
            /\ WF_phase(\E c \in CPUs : Acquire(c))
            /\ \A c \in CPUs : WF_phase(Release(c))
=============================================================================
