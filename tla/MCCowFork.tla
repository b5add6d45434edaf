----------------------------- MODULE MCCowFork -----------------------------
(* CowFork with one page of data, one of stack and one shared page. *)
EXTENDS CowFork, TLC

CONSTANTS a, b, c

DataStackShared == <<"w", "w", "share">>
OnesOnly == <<{1}, {0}, {1}>>
FirstPages == [v \in VAs |-> v]

Later == Permutations(Envs \ {First})

\* What a state looks like from inside the address spaces: which places map the
\* same page, and what is in it.  The number of a page, and what is in a page
\* nobody maps (page_alloc() will clear it), are never seen.
InOrder == <<a, b, c>>
Owner == [i \in 1 .. 12 |-> InOrder[(i + 3) \div 4]]
Address == [i \in 1 .. 12 |-> i % 4]
PageAt == [i \in 1 .. 12 |-> IF Address[i] = 0 THEN temp[Owner[i]]
                            ELSE IF pte[Owner[i]][Address[i]] = None THEN None
                            ELSE pte[Owner[i]][Address[i]].page]
PermAt == [i \in 1 .. 12 |-> IF Address[i] = 0 \/ pte[Owner[i]][Address[i]] = None THEN None
                            ELSE pte[Owner[i]][Address[i]].perm]
Seen == LET page == PageAt
        IN  <<life, fork, fault, PermAt,
              [i \in 1 .. 12 |-> IF page[i] = None THEN None
                                ELSE <<CHOOSE j \in 1 .. i : page[j] = page[i], content[page[i]]>>]>>
=============================================================================
