------------------------------ MODULE CowFork ------------------------------
(***************************************************************************)
(* User-level copy-on-write fork: fork(), duppage() and pgfault() of       *)
(* lib/fork.c over the page mappings of the kernel.                        *)
(*                                                                         *)
(* fork() copies an address space with one or two system calls per page,   *)
(* and a page fault handler that makes three more runs whenever somebody   *)
(* writes a page marked copy-on-write.  Environments run these sequences   *)
(* side by side, and a forking environment interrupts itself: fork() runs  *)
(* on a stack it is in the middle of copying, so that between any two of   *)
(* its system calls the stack page may be written, and fault.              *)
(*                                                                         *)
(* A page holds one value; a mapping carries what the handler and the      *)
(* processor look at: read-only, writable, copy-on-write, or shared.       *)
(***************************************************************************)
EXTENDS Integers, FiniteSets

CONSTANTS Envs,     \* environments
          First,    \* the one that exists at the start
          LastVA,   \* pages from UTEXT to UTOP - PGSIZE, in order of address
          Kind,     \* how First maps each: "ro", "w" or "share"
          Stack,    \* the page of the stack
          Pages,    \* physical pages
          Home,     \* the page First maps at each address
          Vals, Zero,
          Written,  \* the values programs write at each address
          None

VAs == 1 .. LastVA
Shared == {v \in VAs : Kind[v] = "share"}

ASSUME KindAssumption == /\ LastVA \in Nat \ {0}
                         /\ Kind \in [VAs -> {"ro", "w", "share"}]
                         /\ Stack \in VAs /\ Kind[Stack] = "w"
                         /\ Home \in [VAs -> Pages]
                         /\ \A u, v \in VAs : Home[u] = Home[v] => u = v
                         /\ First \in Envs /\ Zero \in Vals
                         /\ Written \in [VAs -> SUBSET Vals]

VARIABLES life,      \* "none", "forked" (not runnable yet), "runs", "gone"
          pte,       \* what each environment maps at each address, or None
          temp,      \* what it maps at PFTEMP
          content,   \* the value in each physical page
          fork,      \* where each environment is in fork(), or None
          fault      \* where it is in pgfault(), or None

vars == <<life, pte, temp, content, fork, fault>>

Perms == {"ro", "w", "cow", "share"}
Mapping == [page : Pages, perm : Perms]
Writable == {"w", "share"}

ForkPlace == [child : Envs, va : 1 .. LastVA + 1, at : {"look", "child", "self"}, perm : Perms]
FaultPlace == [va : VAs, at : {"alloc", "copy", "map", "unmap"}]

\* None is none of the things it stands for the absence of.
ASSUME NoneAssumption == None \notin Pages \cup Mapping \cup ForkPlace \cup FaultPlace
                                      \cup [VAs \ Shared -> Vals]

\* The types, and: an environment that runs maps every page.
TypeOK ==
    /\ life \in [Envs -> {"none", "forked", "runs", "gone"}]
    /\ pte \in [Envs -> [VAs -> Mapping \cup {None}]]
    /\ temp \in [Envs -> Pages \cup {None}]
    /\ content \in [Pages -> Vals]
    /\ fork \in [Envs -> ForkPlace \cup {None}]
    /\ fault \in [Envs -> FaultPlace \cup {None}]
    /\ \A e \in Envs : life[e] = "runs" => None \notin {pte[e][v] : v \in VAs}

Mapped(p) == \/ \E e \in Envs, v \in VAs : pte[e][v] # None /\ pte[e][v].page = p
             \/ \E e \in Envs : temp[e] = p

Init == /\ life = [e \in Envs |-> IF e = First THEN "runs" ELSE "none"]
        /\ pte = [e \in Envs |-> [v \in VAs |->
                    IF e = First THEN [page |-> Home[v], perm |-> Kind[v]] ELSE None]]
        /\ temp = [e \in Envs |-> None]
        /\ content = [p \in Pages |-> Zero]
        /\ fork = [e \in Envs |-> None]
        /\ fault = [e \in Envs |-> None]

\* e is in user mode and its page fault handler is not active.
Ready(e) == life[e] = "runs" /\ fault[e] = None

------------------------------------------------------------------------------
(* Memory accesses.  In fork() an environment writes nothing but its stack.   *)

MayWrite(e, v) == Ready(e) /\ (fork[e] = None \/ v = Stack)

Write(e, v, x) == /\ MayWrite(e, v)
                  /\ pte[e][v].perm \in Writable
                  /\ content' = [content EXCEPT ![pte[e][v].page] = x]
                  /\ UNCHANGED <<life, pte, temp, fork, fault>>

\* The write faults and pgfault() is called; the write is tried again when it
\* returns.
Fault(e, v) == /\ MayWrite(e, v)
               /\ pte[e][v].perm = "cow"
               /\ fault' = [fault EXCEPT ![e] = [va |-> v, at |-> "alloc"]]
               /\ UNCHANGED <<life, pte, temp, content, fork>>

------------------------------------------------------------------------------
(* pgfault() *)

FaultAt(e, at) == life[e] = "runs" /\ fault[e] # None /\ fault[e].at = at
FaultGoto(e, at) == fault' = [fault EXCEPT ![e].at = at]

\* sys_page_alloc() maps a page nobody uses, cleared, at PFTEMP.
AllocTemp(e) == /\ FaultAt(e, "alloc")
                /\ \E p \in Pages : ~Mapped(p)
                /\ LET p == CHOOSE p \in Pages : ~Mapped(p)
                   IN  /\ temp' = [temp EXCEPT ![e] = p]
                       /\ content' = [content EXCEPT ![p] = Zero]
                /\ FaultGoto(e, "copy")
                /\ UNCHANGED <<life, pte, fork>>

\* Mutant: the page is mapped as sys_page_alloc() left it.
CopyForgotten(e) == /\ FaultAt(e, "copy")
                    /\ FaultGoto(e, "map")
                    /\ UNCHANGED <<life, pte, temp, content, fork>>

Copy(e) == /\ FaultAt(e, "copy")
           /\ content' = [content EXCEPT ![temp[e]] = content[pte[e][fault[e].va].page]]
           /\ FaultGoto(e, "map")
           /\ UNCHANGED <<life, pte, temp, fork>>

MapCopy(e) == /\ FaultAt(e, "map")
              /\ pte' = [pte EXCEPT ![e][fault[e].va] = [page |-> temp[e], perm |-> "w"]]
              /\ FaultGoto(e, "unmap")
              /\ UNCHANGED <<life, temp, content, fork>>

UnmapTemp(e) == /\ FaultAt(e, "unmap")
                /\ temp' = [temp EXCEPT ![e] = None]
                /\ fault' = [fault EXCEPT ![e] = None]
                /\ UNCHANGED <<life, pte, content, fork>>

------------------------------------------------------------------------------
(* fork() *)

\* sys_exofork(): the child has no mappings below UTOP.
Exofork(e, c) == /\ Ready(e) /\ fork[e] = None
                 /\ life[c] = "none"
                 /\ life' = [life EXCEPT ![c] = "forked"]
                 /\ fork' = [fork EXCEPT ![e] =
                       [child |-> c, va |-> 1, at |-> "look", perm |-> "ro"]]
                 /\ UNCHANGED <<pte, temp, content, fault>>

Forking(e, at) == Ready(e) /\ fork[e] # None /\ fork[e].at = at

\* Done with a page.
NextPage(e) == [fork EXCEPT ![e].va = @ + 1, ![e].at = "look"]

\* duppage() looks at the page table entry once ...
Look(e) == /\ Forking(e, "look") /\ fork[e].va <= LastVA
           /\ fork' = [fork EXCEPT ![e].perm = pte[e][fork[e].va].perm, ![e].at = "child"]
           /\ UNCHANGED <<life, pte, temp, content, fault>>

\* Mutants: the parent's mapping is not marked again if it was copy-on-write at
\* the look; a writable page is left writable in the parent.
SelfTooUnlessCow(perm) == perm = "w"
SelfTooNever(perm) == FALSE

\* A page that was writable or copy-on-write is marked in the parent too.
SelfToo(perm) == perm \in {"w", "cow"}

ChildPerm(perm) == IF perm \in {"w", "cow"} THEN "cow" ELSE perm

\* ... maps the page into the child: whatever page is there at the call ...
MapChild(e) == /\ Forking(e, "child")
               /\ LET f == fork[e]
                  IN  /\ pte' = [pte EXCEPT ![f.child][f.va] =
                                   [page |-> pte[e][f.va].page, perm |-> ChildPerm(f.perm)]]
                      /\ fork' = IF SelfToo(f.perm) THEN [fork EXCEPT ![e].at = "self"]
                                                    ELSE NextPage(e)
               /\ UNCHANGED <<life, temp, content, fault>>

\* ... and then marks the parent's mapping.
MapSelf(e) == /\ Forking(e, "self")
              /\ pte' = [pte EXCEPT ![e][fork[e].va].perm = "cow"]
              /\ fork' = NextPage(e)
              /\ UNCHANGED <<life, temp, content, fault>>

\* The exception stack, which nobody else maps, is left out.
Start(e) == /\ Forking(e, "look") /\ fork[e].va = LastVA + 1
            /\ life' = [life EXCEPT ![fork[e].child] = "runs"]
            /\ fork' = [fork EXCEPT ![e] = None]
            /\ UNCHANGED <<pte, temp, content, fault>>

------------------------------------------------------------------------------
\* exit(), or a panic when there is no memory: env_free() drops every mapping.
\* A child that was not started stays as it is.
Exit(e) == /\ life[e] = "runs"
           /\ life' = [life EXCEPT ![e] = "gone"]
           /\ pte' = [pte EXCEPT ![e] = [v \in VAs |-> None]]
           /\ temp' = [temp EXCEPT ![e] = None]
           /\ fork' = [fork EXCEPT ![e] = None]
           /\ fault' = [fault EXCEPT ![e] = None]
           /\ UNCHANGED content

Next == \E e \in Envs :
           \/ \E v \in VAs : Fault(e, v) \/ \E x \in Written[v] : Write(e, v, x)
           \/ AllocTemp(e) \/ Copy(e) \/ MapCopy(e) \/ UnmapTemp(e)
           \/ \E c \in Envs : Exofork(e, c)
           \/ Look(e) \/ MapChild(e) \/ MapSelf(e) \/ Start(e)
           \/ Exit(e)

Spec == Init /\ [][Next]_vars

------------------------------------------------------------------------------
(* Properties *)

\* Where the page at v of environment e is mapped besides.
Aliases(e, v) == {u \in Envs \X VAs : /\ u # <<e, v>>
                                      /\ pte[u[1]][u[2]] # None
                                      /\ pte[u[1]][u[2]].page = pte[e][v].page}

\* The one moment at which fork() has given the child a page it has not yet
\* marked in the parent.
HalfDuplicated(e, v) == fork[e] # None /\ fork[e].at = "self" /\ fork[e].va = v

\* A page that can be written in one address space is mapped in no other,
\* unless it is shared on purpose; within duppage() also in the child that does
\* not run yet.
WritableIsAlone ==
    \A e \in Envs, v \in VAs :
        pte[e][v] # None /\ pte[e][v].perm = "w" =>
            \A u \in Aliases(e, v) : HalfDuplicated(e, v) /\ u = <<fork[e].child, v>>

\* The copy is still a copy when pgfault() maps it: nobody has written the
\* original in the meantime, although other environments map it.
CopyIsCurrent ==
    \A e \in Envs : FaultAt(e, "map") =>
        content[temp[e]] = content[pte[e][fault[e].va].page]

Memory == INSTANCE PrivateMemory
    WITH private <- [e \in Envs |-> IF life[e] = "runs"
                                      THEN [v \in VAs \ Shared |-> content[pte[e][v].page]]
                                      ELSE None],
         shared <- [v \in Shared |-> content[Home[v]]]

\* fork() and pgfault() give every environment a private memory: sharing pages
\* copy-on-write is not visible.
ImplementsPrivateMemory == Memory!Spec
=============================================================================
