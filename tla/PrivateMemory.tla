--------------------------- MODULE PrivateMemory ---------------------------
(***************************************************************************)
(* What fork() promises a program: every environment has a memory of its   *)
(* own, a child starts with a copy of its parent's, and apart from the     *)
(* pages they share on purpose nothing one of them writes is seen by       *)
(* another.  Only of the stack page, which fork() itself goes on writing,  *)
(* it is not said which moment of the parent's the child starts with.      *)
(***************************************************************************)
CONSTANTS Envs, First, VAs, Stack, Shared, Vals, Zero, None

VARIABLES private,   \* the memory of each environment that runs, or None
          shared     \* the pages marked PTE_SHARE

vars == <<private, shared>>

Private == VAs \ Shared

Init == /\ private = [e \in Envs |-> IF e = First THEN [v \in Private |-> Zero] ELSE None]
        /\ shared = [v \in Shared |-> Zero]

Write(e, v, x) == /\ private[e] # None
                  /\ IF v \in Shared
                       THEN /\ shared' = [shared EXCEPT ![v] = x]
                            /\ UNCHANGED private
                       ELSE /\ private' = [private EXCEPT ![e][v] = x]
                            /\ UNCHANGED shared

Fork(e, c) == /\ private[e] # None /\ private[c] = None
              /\ \E x \in Vals : private' = [private EXCEPT ![c] = [private[e] EXCEPT ![Stack] = x]]
              /\ UNCHANGED shared

Exit(e) == /\ private[e] # None
           /\ private' = [private EXCEPT ![e] = None]
           /\ UNCHANGED shared

Next == \/ \E e \in Envs, v \in VAs, x \in Vals : Write(e, v, x)
        \/ \E e, c \in Envs : Fork(e, c)
        \/ \E e \in Envs : Exit(e)

Spec == Init /\ [][Next]_vars
=============================================================================
