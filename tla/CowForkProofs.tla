---------------------------- MODULE CowForkProofs ----------------------------
(***************************************************************************)
(* Proofs about CowFork, for any number of environments, addresses, pages  *)
(* and values: a page that can be written is alone, the copy pgfault() is  *)
(* about to map is current, and together they make fork() implement        *)
(* private memories.                                                       *)
(*                                                                         *)
(* WritableIsAlone is not inductive by itself.  It needs to know that a    *)
(* page is mapped at one address only, that what an address is for (Kind)  *)
(* decides its permissions, that the page at PFTEMP is nobody else's until *)
(* it is mapped, and where each environment is in fork() and pgfault().    *)
(***************************************************************************)
EXTENDS CowFork, TLAPS

\* Only an environment that runs is in fork() or pgfault().
IdleOK(e) ==
    /\ life[e] # "runs" => fork[e] = None /\ fault[e] = None /\ temp[e] = None
    /\ life[e] \in {"none", "gone"} => \A v \in VAs : pte[e][v] = None

\* What may be mapped at an address, by what the address is for.
AllowedPerm(v, perm) == IF Kind[v] = "w" THEN perm \in {"w", "cow"} ELSE perm = Kind[v]

MappingOK(e, v) == pte[e][v] # None => /\ AllowedPerm(v, pte[e][v].perm)
                                       /\ Kind[v] # "w" => pte[e][v].page = Home[v]

SamePage(e, v, d, u) ==
    pte[e][v] # None /\ pte[d][u] # None /\ pte[e][v].page = pte[d][u].page

\* A page is mapped at one address only, whoever maps it.
OneAddress == \A e, d \in Envs : \A v, u \in VAs : SamePage(e, v, d, u) => v = u

\* How far the child is, and that what it has, but for the stack, is its parent's.
ForkOK(e) ==
    fork[e] # None =>
        /\ life[fork[e].child] = "forked"
        /\ fork[e].at # "look" => fork[e].va \in VAs
        /\ fork[e].at = "child" => AllowedPerm(fork[e].va, fork[e].perm)
        /\ fork[e].at = "self" => /\ Kind[fork[e].va] = "w"
                                   /\ pte[fork[e].child][fork[e].va] # None
        /\ \A u \in VAs : u < fork[e].va => pte[fork[e].child][u] # None
        /\ \A u \in VAs \ {Stack} :
                pte[fork[e].child][u] # None => SamePage(fork[e].child, u, e, u)

OneParent == \A e, d \in Envs :
    fork[e] # None /\ fork[d] # None /\ fork[e].child = fork[d].child => e = d

\* pgfault() has found a copy-on-write page, and its copy is at PFTEMP only.
FaultOK(e) ==
    fault[e] # None =>
        /\ fork[e] # None => fault[e].va = Stack
        /\ fault[e].at # "unmap" => pte[e][fault[e].va].perm = "cow"
        /\ fault[e].at \in {"copy", "map"} =>
                /\ temp[e] # None
                /\ \A d \in Envs, v \in VAs : pte[d][v] # None => pte[d][v].page # temp[e]

OwnTemp == \A e, d \in Envs : temp[e] # None /\ temp[e] = temp[d] => e = d

\* WritableIsAlone, with a quantifier for each mapping.
Alone == \A e, d \in Envs : \A v \in VAs :
    SamePage(e, v, d, v) /\ pte[e][v].perm = "w" =>
        d = e \/ (HalfDuplicated(e, v) /\ d = fork[e].child)

IInv == /\ TypeOK
        /\ \A e \in Envs : IdleOK(e) /\ ForkOK(e) /\ FaultOK(e)
        /\ \A e \in Envs, v \in VAs : MappingOK(e, v)
        /\ OneAddress /\ OneParent /\ OwnTemp
        /\ Alone
        /\ CopyIsCurrent
------------------------------------------------------------------------------
(* The start: First has its pages to itself.                                  *)
LEMMA InitInv == Init => IInv
BY KindAssumption, NoneAssumption
   DEF Init, IInv, TypeOK, IdleOK, ForkOK, FaultOK, MappingOK, AllowedPerm, SamePage, OneAddress,
       OneParent, OwnTemp, Alone, CopyIsCurrent, FaultAt, Mapping, Perms, ForkPlace, FaultPlace, VAs

(* A page fault is taken on a mapped copy-on-write page of a private address. *)
LEMMA FaultFacts ==
    ASSUME IInv, NEW e \in Envs, fault[e] # None
    PROVE  /\ life[e] = "runs" /\ fault[e].va \in VAs
           /\ pte[e][fault[e].va] \in Mapping
           /\ fault[e].at # "unmap" => /\ pte[e][fault[e].va].perm = "cow"
                                       /\ Kind[fault[e].va] = "w"
<1>1. life[e] = "runs" /\ fault[e].va \in VAs /\ pte[e][fault[e].va] \in Mapping
  BY NoneAssumption DEF IInv, TypeOK, IdleOK, FaultPlace
<1>2. ASSUME fault[e].at # "unmap" PROVE pte[e][fault[e].va].perm = "cow"
  BY <1>2 DEF IInv, FaultOK
<1> QED
  BY <1>1, <1>2, KindAssumption, NoneAssumption DEF IInv, MappingOK, AllowedPerm

(* fork() works on a child that is not yet running, and has mapped a page.    *)
LEMMA ForkFacts ==
    ASSUME IInv, NEW e \in Envs, fork[e] # None
    PROVE  /\ life[e] = "runs" /\ fork[e] \in ForkPlace
           /\ fork[e].child \in Envs /\ fork[e].child # e /\ life[fork[e].child] = "forked"
           /\ fork[e].at # "look" => fork[e].va \in VAs /\ pte[e][fork[e].va] \in Mapping
<1>1. life[e] = "runs" /\ fork[e] \in ForkPlace /\ life[fork[e].child] = "forked"
  BY DEF IInv, TypeOK, IdleOK, ForkOK
<1>2. ASSUME fork[e].at # "look" PROVE fork[e].va \in VAs
  BY <1>2 DEF IInv, ForkOK
<1> QED
  BY <1>1, <1>2 DEF ForkPlace, IInv, TypeOK

(* What a running environment may write, no other running one maps at a       *)
(* private address.                                                           *)
LEMMA WriterAlone ==
    ASSUME IInv, NEW e \in Envs, NEW d \in Envs, NEW v \in VAs, NEW u \in VAs,
           pte[e][v].perm \in Writable, SamePage(e, v, d, u), life[d] = "runs",
           Kind[u] = "w"
    PROVE  d = e /\ u = v
<1>1. u = v
  BY DEF IInv, OneAddress
<1>2. pte[e][v].perm = "w"
  BY <1>1 DEF IInv, MappingOK, AllowedPerm, SamePage, Writable
<1>3. d = e \/ (HalfDuplicated(e, v) /\ d = fork[e].child)
  BY <1>1, <1>2 DEF IInv, Alone
<1> QED
  BY <1>1, <1>3, ForkFacts DEF HalfDuplicated

LEMMA FaultInv == ASSUME IInv, NEW e \in Envs, NEW v \in VAs, Fault(e, v) PROVE IInv'
<1> USE KindAssumption, NoneAssumption DEF IInv, Fault, MayWrite, Ready
<1>1. TypeOK'
  BY DEF TypeOK, Mapping, Perms, ForkPlace, FaultPlace
<1>2. \A d \in Envs : IdleOK(d)'
  BY DEF IdleOK, TypeOK
<1>3. \A d \in Envs : ForkOK(d)'
  BY DEF IdleOK, ForkOK, FaultOK, TypeOK, SamePage, AllowedPerm, OneParent, ForkPlace, Mapping
<1>4. \A d \in Envs : FaultOK(d)'
  BY DEF IdleOK, FaultOK, TypeOK, FaultPlace, Mapping, Mapped
<1>5. \A d \in Envs, u \in VAs : MappingOK(d, u)'
  BY DEF MappingOK, AllowedPerm, TypeOK, Mapping
<1>6. OneAddress'
  BY DEF OneAddress, SamePage, TypeOK, Mapping
<1>7. OneParent'
  BY DEF OneParent, IdleOK, ForkOK, TypeOK
<1>8. OwnTemp'
  BY DEF OwnTemp, TypeOK, Mapped
<1>9. Alone'
  BY DEF Alone, SamePage, HalfDuplicated, TypeOK, Mapping, OneAddress
<1>10. CopyIsCurrent'
  BY DEF CopyIsCurrent, FaultAt, Mapped, TypeOK, Mapping
<1> QED
  BY <1>1, <1>2, <1>3, <1>4, <1>5, <1>6, <1>7, <1>8, <1>9, <1>10

LEMMA WriteInv == ASSUME IInv, NEW e \in Envs, NEW v \in VAs, NEW x \in Written[v], Write(e, v, x) PROVE IInv'
<1> USE KindAssumption, NoneAssumption DEF IInv, Write, MayWrite, Ready
<1>1. TypeOK'
  BY DEF TypeOK, Mapping, Perms, ForkPlace, FaultPlace
<1>2. \A d \in Envs : IdleOK(d)'
  BY DEF IdleOK, TypeOK
<1>3. \A d \in Envs : ForkOK(d)'
  BY DEF IdleOK, ForkOK, FaultOK, TypeOK, SamePage, AllowedPerm, OneParent, ForkPlace, Mapping
<1>4. \A d \in Envs : FaultOK(d)'
  BY DEF IdleOK, FaultOK, TypeOK, FaultPlace, Mapping, Mapped
<1>5. \A d \in Envs, u \in VAs : MappingOK(d, u)'
  BY DEF MappingOK, AllowedPerm, TypeOK, Mapping
<1>6. OneAddress'
  BY DEF OneAddress, SamePage, TypeOK, Mapping
<1>7. OneParent'
  BY DEF OneParent, IdleOK, ForkOK, TypeOK
<1>8. OwnTemp'
  BY DEF OwnTemp, TypeOK, Mapped
<1>9. Alone'
  BY DEF Alone, SamePage, HalfDuplicated, TypeOK, Mapping, OneAddress
<1>10. CopyIsCurrent'
  <2> SUFFICES ASSUME NEW d \in Envs, FaultAt(d, "map")'
               PROVE  content'[temp[d]] = content'[pte[d][fault[d].va].page]
    BY DEF CopyIsCurrent
  <2>1. FaultAt(d, "map") /\ content[temp[d]] = content[pte[d][fault[d].va].page]
    BY DEF FaultAt, CopyIsCurrent
  <2>2. pte[e][v] # None /\ pte[e][v].page # temp[d]
    BY <2>1, NoneAssumption DEF FaultOK, FaultAt, TypeOK
  <2>3. pte[e][v].page # pte[d][fault[d].va].page
    <3>1. /\ fault[d].va \in VAs /\ pte[d][fault[d].va] # None
          /\ Kind[fault[d].va] = "w" /\ life[d] = "runs" /\ d # e
      BY <2>1, FaultFacts DEF FaultAt
    <3> QED
      BY <2>2, <3>1, WriterAlone DEF SamePage
  <2>4. content' = [content EXCEPT ![pte[e][v].page] = x]
    OBVIOUS
  <2>5. temp[d] \in Pages /\ pte[d][fault[d].va].page \in Pages
    BY <2>1, FaultFacts DEF FaultAt, FaultOK, TypeOK, Mapping
  <2> QED
    BY <2>1, <2>2, <2>3, <2>4, <2>5 DEF TypeOK
<1> QED
  BY <1>1, <1>2, <1>3, <1>4, <1>5, <1>6, <1>7, <1>8, <1>9, <1>10

LEMMA AllocTempInv == ASSUME IInv, NEW e \in Envs, AllocTemp(e) PROVE IInv'
<1> USE KindAssumption, NoneAssumption DEF IInv, AllocTemp, FaultAt, FaultGoto
<1> DEFINE p == CHOOSE q \in Pages : ~Mapped(q)
<1>a. p \in Pages /\ ~Mapped(p)
  OBVIOUS
<1>b. /\ temp' = [temp EXCEPT ![e] = p] /\ content' = [content EXCEPT ![p] = Zero]
      /\ fault' = [fault EXCEPT ![e].at = "copy"] /\ UNCHANGED <<life, pte, fork>>
      /\ fault[e] # None /\ fault[e].at = "alloc"
  OBVIOUS
<1>c. \A d \in Envs : temp[d] # p /\ \A v \in VAs : pte[d][v] # None => pte[d][v].page # p
  BY <1>a DEF Mapped
<1> HIDE DEF p
<1>1. TypeOK'
  BY DEF TypeOK, Mapping, Perms, ForkPlace, FaultPlace
<1>2. \A d \in Envs : IdleOK(d)'
  BY DEF IdleOK, TypeOK
<1>3. \A d \in Envs : ForkOK(d)'
  BY DEF IdleOK, ForkOK, FaultOK, TypeOK, SamePage, AllowedPerm, OneParent, ForkPlace, Mapping
<1>4. \A d \in Envs : FaultOK(d)'
  <2> SUFFICES ASSUME NEW d \in Envs, fault'[d] # None PROVE FaultOK(d)'
    BY DEF FaultOK
  <2>1. CASE d = e
    <3>1. fault'[e].at = "copy" /\ fault'[e].va = fault[e].va /\ temp'[e] = p
      BY <1>b DEF TypeOK, FaultPlace
    <3>2. pte[e][fault[e].va].perm = "cow" /\ (fork[e] # None => fault[e].va = Stack)
      BY <1>b DEF FaultOK
    <3>3. p # None
      BY <1>a
    <3> HIDE DEF IInv, AllocTemp
    <3> QED
      BY <1>b, <1>c, <2>1, <3>1, <3>2, <3>3 DEF FaultOK
  <2>2. CASE d # e
    BY <1>b, <2>2 DEF FaultOK, TypeOK
  <2> QED
    BY <2>1, <2>2
<1>5. \A d \in Envs, u \in VAs : MappingOK(d, u)'
  BY DEF MappingOK, AllowedPerm, TypeOK, Mapping
<1>6. OneAddress'
  BY DEF OneAddress, SamePage, TypeOK, Mapping
<1>7. OneParent'
  BY DEF OneParent, IdleOK, ForkOK, TypeOK
<1>8. OwnTemp'
  BY DEF OwnTemp, TypeOK, Mapped
<1>9. Alone'
  BY DEF Alone, SamePage, HalfDuplicated, TypeOK, Mapping, OneAddress
<1>10. CopyIsCurrent'
  <2> SUFFICES ASSUME NEW d \in Envs, FaultAt(d, "map")'
               PROVE  content'[temp'[d]] = content'[pte[d][fault'[d].va].page]
    BY <1>b DEF CopyIsCurrent
  <2>1. d # e /\ fault'[d] = fault[d] /\ temp'[d] = temp[d] /\ FaultAt(d, "map")
    BY <1>b DEF FaultAt, TypeOK, FaultPlace
  <2>2. content[temp[d]] = content[pte[d][fault[d].va].page]
    BY <2>1 DEF CopyIsCurrent
  <2>3. temp[d] \in Pages \ {p} /\ pte[d][fault[d].va].page \in Pages \ {p}
    BY <2>1, <1>c, FaultFacts DEF FaultAt, FaultOK, TypeOK, Mapping
  <2>4. \A q \in Pages \ {p} : content'[q] = content[q]
    BY <1>b DEF TypeOK
  <2> QED
    BY <2>1, <2>2, <2>3, <2>4
<1> QED
  BY <1>1, <1>2, <1>3, <1>4, <1>5, <1>6, <1>7, <1>8, <1>9, <1>10

LEMMA CopyInv == ASSUME IInv, NEW e \in Envs, Copy(e) PROVE IInv'
<1> USE KindAssumption, NoneAssumption DEF IInv, Copy, FaultAt, FaultGoto
<1>a. pte[e][fault[e].va].page \in Pages /\ temp[e] \in Pages
  BY FaultFacts DEF Mapping, FaultOK, TypeOK
<1>b. \A d \in Envs : fault'[d] # None =>
          /\ fault[d] # None /\ fault'[d].va = fault[d].va
          /\ d # e => fault'[d] = fault[d]
  BY DEF TypeOK, FaultPlace
<1>1. TypeOK'
  <2>1. content' \in [Pages -> Vals]
    BY <1>a DEF TypeOK
  <2>2. fault' \in [Envs -> FaultPlace \cup {None}]
    BY DEF TypeOK, FaultPlace
  <2> QED
    BY <2>1, <2>2 DEF TypeOK
<1>2. \A d \in Envs : IdleOK(d)'
  BY DEF IdleOK, TypeOK
<1>3. \A d \in Envs : ForkOK(d)'
  BY DEF IdleOK, ForkOK, FaultOK, TypeOK, SamePage, AllowedPerm, OneParent, ForkPlace, Mapping
<1>4. \A d \in Envs : FaultOK(d)'
  BY DEF IdleOK, FaultOK, TypeOK, FaultPlace, Mapping, Mapped
<1>5. \A d \in Envs, u \in VAs : MappingOK(d, u)'
  BY DEF MappingOK, AllowedPerm, TypeOK, Mapping
<1>6. OneAddress'
  BY DEF OneAddress, SamePage, TypeOK, Mapping
<1>7. OneParent'
  BY DEF OneParent, IdleOK, ForkOK, TypeOK
<1>8. OwnTemp'
  BY DEF OwnTemp, TypeOK, Mapped
<1>9. Alone'
  BY DEF Alone, SamePage, HalfDuplicated, TypeOK, Mapping, OneAddress
<1>10. CopyIsCurrent'
  <2> SUFFICES ASSUME NEW d \in Envs, FaultAt(d, "map")'
               PROVE  content'[temp[d]] = content'[pte[d][fault'[d].va].page]
    BY DEF CopyIsCurrent
  <2>0. \A c \in Envs, v \in VAs : pte[c][v] # None => pte[c][v].page # temp[e]
    BY DEF FaultOK
  <2>1. fault[d] # None /\ fault'[d].va = fault[d].va /\ life[d] = "runs"
    BY <1>b DEF FaultAt
  <2>2. pte[d][fault[d].va].page # temp[e] /\ pte[d][fault[d].va].page \in Pages
    BY <2>0, <2>1, FaultFacts DEF Mapping
  <2>3. content' = [content EXCEPT ![temp[e]] = content[pte[e][fault[e].va].page]]
    OBVIOUS
  <2>4. CASE d = e
    <3>1. pte[e][fault[e].va].page # temp[e]
      BY <2>2, <2>4
    <3> QED
      BY <1>a, <2>1, <2>3, <2>4, <3>1 DEF TypeOK
  <2>5. CASE d # e
    <3>1. FaultAt(d, "map") /\ fault'[d] = fault[d]
      BY <1>b, <2>1, <2>5 DEF FaultAt
    <3>2. temp[d] \in Pages /\ temp[d] # temp[e]
      BY <2>5, <3>1 DEF FaultAt, FaultOK, TypeOK, OwnTemp
    <3>3. content[temp[d]] = content[pte[d][fault[d].va].page]
      BY <3>1 DEF CopyIsCurrent
    <3> QED
      BY <2>1, <2>2, <2>3, <3>2, <3>3 DEF TypeOK
  <2> QED
    BY <2>4, <2>5
<1> QED
  BY <1>1, <1>2, <1>3, <1>4, <1>5, <1>6, <1>7, <1>8, <1>9, <1>10

LEMMA MapCopyInv == ASSUME IInv, NEW e \in Envs, MapCopy(e) PROVE IInv'
<1> USE KindAssumption, NoneAssumption DEF IInv, MapCopy, FaultAt, FaultGoto
<1> DEFINE va == fault[e].va
           M == [page |-> temp[e], perm |-> "w"]
<1>a. /\ va \in VAs /\ Kind[va] = "w" /\ temp[e] \in Pages
      /\ \A d \in Envs, v \in VAs : pte[d][v] # None => pte[d][v].page # temp[e]
  BY FaultFacts DEF FaultOK, TypeOK
<1>b. M \in Mapping /\ M # None /\ M.page = temp[e] /\ M.perm = "w"
  BY <1>a DEF Mapping, Perms
<1>c. /\ pte' = [pte EXCEPT ![e][va] = M] /\ fault' = [fault EXCEPT ![e].at = "unmap"]
      /\ UNCHANGED <<life, temp, content, fork>>
  OBVIOUS
<1>d. \A d \in Envs, v \in VAs : pte'[d][v] = IF d = e /\ v = va THEN M ELSE pte[d][v]
  BY <1>a, <1>c DEF TypeOK
<1>f. fork[e] # None => va = Stack
  BY DEF FaultOK
<1> HIDE DEF M
<1>1. TypeOK'
  <2>1. pte' \in [Envs -> [VAs -> Mapping \cup {None}]]
    BY <1>a, <1>b, <1>c DEF TypeOK
  <2>2. fault' \in [Envs -> FaultPlace \cup {None}]
    BY <1>c DEF TypeOK, FaultPlace
  <2>3. \A d \in Envs : life'[d] = "runs" => None \notin {pte'[d][v] : v \in VAs}
    BY <1>b, <1>c, <1>d DEF TypeOK
  <2> QED
    BY <1>c, <2>1, <2>2, <2>3 DEF TypeOK
<1>2. \A d \in Envs : IdleOK(d)'
  BY DEF IdleOK, TypeOK
<1>3. \A d \in Envs : ForkOK(d)'
  BY DEF IdleOK, ForkOK, FaultOK, TypeOK, SamePage, AllowedPerm, OneParent, ForkPlace, Mapping
<1>4. \A d \in Envs : FaultOK(d)'
  <2> SUFFICES ASSUME NEW d \in Envs, fault'[d] # None PROVE FaultOK(d)'
    BY DEF FaultOK
  <2>1. CASE d = e
    <3>1. fault'[e].at = "unmap" /\ fault'[e].va = va
      BY <1>c DEF TypeOK, FaultPlace
    <3> QED
      BY <1>c, <1>f, <2>1, <3>1 DEF FaultOK
  <2>2. CASE d # e
    <3>1. fault'[d] = fault[d] /\ fault[d] # None /\ fault[d].va \in VAs
      BY <1>c, <2>2, FaultFacts DEF TypeOK
    <3>2. pte'[d][fault[d].va] = pte[d][fault[d].va]
      BY <1>d, <2>2, <3>1
    <3>3. temp[d] # None => temp[d] # temp[e]
      BY <2>2 DEF OwnTemp
    <3> QED
      BY <1>b, <1>c, <1>d, <3>1, <3>2, <3>3 DEF FaultOK
  <2> QED
    BY <2>1, <2>2
<1>5. \A d \in Envs, u \in VAs : MappingOK(d, u)'
  BY <1>a, <1>b, <1>d DEF MappingOK, AllowedPerm
<1>6. OneAddress'
  BY <1>a, <1>b, <1>d DEF OneAddress, SamePage
<1>7. OneParent'
  BY DEF OneParent, IdleOK, ForkOK, TypeOK
<1>8. OwnTemp'
  BY DEF OwnTemp, TypeOK, Mapped
<1>9. Alone'
  BY <1>a, <1>b, <1>c, <1>d DEF Alone, SamePage, HalfDuplicated
<1>10. CopyIsCurrent'
  <2> SUFFICES ASSUME NEW d \in Envs, FaultAt(d, "map")'
               PROVE  content[temp[d]] = content[pte'[d][fault'[d].va].page]
    BY <1>c DEF CopyIsCurrent
  <2>1. d # e /\ fault'[d] = fault[d] /\ FaultAt(d, "map")
    BY <1>c DEF FaultAt, TypeOK, FaultPlace
  <2>2. pte'[d][fault[d].va] = pte[d][fault[d].va]
    BY <1>d, <2>1, FaultFacts DEF FaultAt
  <2> QED
    BY <2>1, <2>2 DEF CopyIsCurrent
<1> QED
  BY <1>1, <1>2, <1>3, <1>4, <1>5, <1>6, <1>7, <1>8, <1>9, <1>10

LEMMA UnmapTempInv == ASSUME IInv, NEW e \in Envs, UnmapTemp(e) PROVE IInv'
<1> USE KindAssumption, NoneAssumption DEF IInv, UnmapTemp, FaultAt
<1>1. TypeOK'
  BY DEF TypeOK, Mapping, Perms, ForkPlace, FaultPlace
<1>2. \A d \in Envs : IdleOK(d)'
  BY DEF IdleOK, TypeOK
<1>3. \A d \in Envs : ForkOK(d)'
  BY DEF IdleOK, ForkOK, FaultOK, TypeOK, SamePage, AllowedPerm, OneParent, ForkPlace, Mapping
<1>4. \A d \in Envs : FaultOK(d)'
  BY DEF IdleOK, FaultOK, TypeOK, FaultPlace, Mapping, Mapped
<1>5. \A d \in Envs, u \in VAs : MappingOK(d, u)'
  BY DEF MappingOK, AllowedPerm, TypeOK, Mapping
<1>6. OneAddress'
  BY DEF OneAddress, SamePage, TypeOK, Mapping
<1>7. OneParent'
  BY DEF OneParent, IdleOK, ForkOK, TypeOK
<1>8. OwnTemp'
  BY DEF OwnTemp, TypeOK, Mapped
<1>9. Alone'
  BY DEF Alone, SamePage, HalfDuplicated, TypeOK, Mapping, OneAddress
<1>10. CopyIsCurrent'
  BY DEF CopyIsCurrent, FaultAt, Mapped, TypeOK, Mapping
<1> QED
  BY <1>1, <1>2, <1>3, <1>4, <1>5, <1>6, <1>7, <1>8, <1>9, <1>10

LEMMA ExoforkInv == ASSUME IInv, NEW e \in Envs, NEW c \in Envs, Exofork(e, c) PROVE IInv'
<1> USE KindAssumption, NoneAssumption DEF IInv, Exofork, Ready
<1>1. TypeOK'
  BY DEF TypeOK, Mapping, Perms, ForkPlace, FaultPlace
<1>2. \A d \in Envs : IdleOK(d)'
  BY DEF IdleOK, TypeOK
<1>3. \A d \in Envs : ForkOK(d)'
  <2> SUFFICES ASSUME NEW d \in Envs, fork'[d] # None PROVE ForkOK(d)'
    BY DEF ForkOK
  <2>1. \A u \in VAs : pte[c][u] = None
    BY DEF IdleOK
  <2>2. life' = [life EXCEPT ![c] = "forked"] /\ UNCHANGED <<pte, temp, content, fault>>
    OBVIOUS
  <2>3. CASE d = e
    <3>1. fork'[e] = [child |-> c, va |-> 1, at |-> "look", perm |-> "ro"]
      BY DEF TypeOK
    <3>2. life'[c] = "forked"
      BY DEF TypeOK
    <3>3. ~\E u \in VAs : u < 1
      BY DEF VAs
    <3> QED
      BY <2>1, <2>2, <2>3, <3>1, <3>2, <3>3 DEF ForkOK
  <2>4. CASE d # e
    <3>1. fork'[d] = fork[d] /\ fork[d] # None
      BY <2>4 DEF TypeOK
    <3>2. life'[fork[d].child] = "forked"
      BY <3>1, ForkFacts, <2>2 DEF TypeOK
    <3> QED
      BY <2>2, <3>1, <3>2 DEF ForkOK, SamePage
  <2> QED
    BY <2>3, <2>4
<1>4. \A d \in Envs : FaultOK(d)'
  BY DEF IdleOK, FaultOK, TypeOK, FaultPlace, Mapping, Mapped
<1>5. \A d \in Envs, u \in VAs : MappingOK(d, u)'
  BY DEF MappingOK, AllowedPerm, TypeOK, Mapping
<1>6. OneAddress'
  BY DEF OneAddress, SamePage, TypeOK, Mapping
<1>7. OneParent'
  BY DEF OneParent, IdleOK, ForkOK, TypeOK
<1>8. OwnTemp'
  BY DEF OwnTemp, TypeOK, Mapped
<1>9. Alone'
  BY DEF Alone, SamePage, HalfDuplicated, TypeOK, Mapping, OneAddress
<1>10. CopyIsCurrent'
  BY DEF CopyIsCurrent, FaultAt, Mapped, TypeOK, Mapping
<1> QED
  BY <1>1, <1>2, <1>3, <1>4, <1>5, <1>6, <1>7, <1>8, <1>9, <1>10

LEMMA LookInv == ASSUME IInv, NEW e \in Envs, Look(e) PROVE IInv'
<1> USE KindAssumption, NoneAssumption DEF IInv, Look, Forking, Ready
<1>a. fork[e].va \in VAs
  BY DEF TypeOK, ForkPlace, VAs
<1>b. pte[e][fork[e].va] \in Mapping
  BY <1>a DEF TypeOK
<1>c. /\ fork' = [fork EXCEPT ![e].perm = pte[e][fork[e].va].perm, ![e].at = "child"]
      /\ UNCHANGED <<life, pte, temp, content, fault>>
  OBVIOUS
<1>d. /\ fork'[e] \in ForkPlace /\ fork'[e].child = fork[e].child /\ fork'[e].va = fork[e].va
      /\ fork'[e].at = "child" /\ fork'[e].perm = pte[e][fork[e].va].perm
  <2>1. fork[e] \in ForkPlace /\ pte[e][fork[e].va].perm \in Perms
    BY <1>b, ForkFacts DEF Mapping
  <2>2. fork'[e] = [fork[e] EXCEPT !.perm = pte[e][fork[e].va].perm, !.at = "child"]
    BY <1>c DEF TypeOK
  <2> HIDE DEF IInv, Look
  <2> QED
    BY <2>1, <2>2 DEF ForkPlace
<1>f. \A d \in Envs \ {e} : fork'[d] = fork[d]
  BY <1>c DEF TypeOK
<1>1. TypeOK'
  <2>1. fork' \in [Envs -> ForkPlace \cup {None}]
    BY <1>c, <1>d, <1>f DEF TypeOK
  <2> QED
    BY <1>c, <2>1 DEF TypeOK
<1>2. \A d \in Envs : IdleOK(d)'
  BY DEF IdleOK, TypeOK
<1>3. \A d \in Envs : ForkOK(d)'
  <2> SUFFICES ASSUME NEW d \in Envs, fork'[d] # None PROVE ForkOK(d)'
    BY DEF ForkOK
  <2>1. CASE d = e
    <3>1. AllowedPerm(fork[e].va, fork'[e].perm)
      BY <1>a, <1>b, <1>d DEF MappingOK
    <3>2. ForkOK(e)
      OBVIOUS
    <3>3. fork[e] # None
      OBVIOUS
    <3>4. /\ life[fork[e].child] = "forked"
          /\ \A u \in VAs : u < fork[e].va => pte[fork[e].child][u] # None
          /\ \A u \in VAs \ {Stack} :
                  pte[fork[e].child][u] # None => SamePage(fork[e].child, u, e, u)
      BY <3>2, <3>3 DEF ForkOK
    <3>5. \A u \in VAs \ {Stack} :
              pte'[fork'[e].child][u] # None => SamePage(fork[e].child, u, e, u)'
      BY <1>c, <1>d, <3>4 DEF SamePage
    <3> HIDE DEF IInv, Look
    <3>6. ForkOK(e)'
      <4>1. \A u \in VAs : u < fork'[e].va => pte'[fork'[e].child][u] # None
        BY <1>c, <1>d, <3>4
      <4>2. life'[fork'[e].child] = "forked"
        BY <1>c, <1>d, <3>4
      <4> QED
        BY <1>a, <1>d, <3>1, <3>5, <4>1, <4>2 DEF ForkOK, AllowedPerm
    <3> QED
      BY <2>1, <3>6
  <2>2. CASE d # e
    <3>1. ForkOK(d)
      OBVIOUS
    <3> HIDE DEF IInv, Look
    <3> QED
      BY <1>c, <1>f, <2>2, <3>1 DEF ForkOK, SamePage
  <2> QED
    BY <2>1, <2>2
<1>4. \A d \in Envs : FaultOK(d)'
  BY DEF IdleOK, FaultOK, TypeOK, FaultPlace, Mapping, Mapped
<1>5. \A d \in Envs, u \in VAs : MappingOK(d, u)'
  BY DEF MappingOK, AllowedPerm, TypeOK, Mapping
<1>6. OneAddress'
  BY DEF OneAddress, SamePage, TypeOK, Mapping
<1>7. OneParent'
  BY DEF OneParent, IdleOK, ForkOK, TypeOK
<1>8. OwnTemp'
  BY DEF OwnTemp, TypeOK, Mapped
<1>9. Alone'
  BY DEF Alone, SamePage, HalfDuplicated, TypeOK, Mapping, OneAddress
<1>10. CopyIsCurrent'
  BY DEF CopyIsCurrent, FaultAt, Mapped, TypeOK, Mapping
<1> QED
  BY <1>1, <1>2, <1>3, <1>4, <1>5, <1>6, <1>7, <1>8, <1>9, <1>10

LEMMA MapChildInv == ASSUME IInv, NEW e \in Envs, MapChild(e) PROVE IInv'
<1> USE KindAssumption, NoneAssumption DEF IInv, MapChild, Forking, Ready
<1> DEFINE c == fork[e].child
           va == fork[e].va
           P == pte[e][va].page
           M == [page |-> P, perm |-> ChildPerm(fork[e].perm)]
<1>a. /\ va \in VAs /\ c \in Envs /\ c # e /\ life[c] = "forked" /\ life[e] = "runs"
      /\ pte[e][va] \in Mapping /\ P \in Pages /\ fork[e] \in ForkPlace
  BY ForkFacts DEF Mapping
<1>b. AllowedPerm(va, fork[e].perm)
  BY DEF ForkOK
<1>c. M \in Mapping /\ M # None /\ M.page = P /\ AllowedPerm(va, M.perm) /\ M.perm # "w"
  BY <1>a, <1>b DEF Mapping, Perms, ChildPerm, ForkPlace, AllowedPerm
<1>d. /\ pte' = [pte EXCEPT ![c][va] = M]
      /\ UNCHANGED <<life, temp, content, fault>>
      /\ fork' = IF SelfToo(fork[e].perm) THEN [fork EXCEPT ![e].at = "self"] ELSE NextPage(e)
  OBVIOUS
<1>f. \A d \in Envs, u \in VAs : pte'[d][u] = IF d = c /\ u = va THEN M ELSE pte[d][u]
  BY <1>a, <1>d DEF TypeOK
<1>g. /\ fork'[e] \in ForkPlace /\ fork'[e].child = c
      /\ IF Kind[va] = "w" THEN fork'[e].at = "self" /\ fork'[e].va = va
                           ELSE fork'[e].at = "look" /\ fork'[e].va = va + 1
  <2>1. SelfToo(fork[e].perm) <=> Kind[va] = "w"
    BY <1>a, <1>b DEF AllowedPerm, SelfToo
  <2>2. va \in 1 .. LastVA /\ va + 1 \in 1 .. LastVA + 1
    BY <1>a DEF VAs
  <2>3. fork'[e] = IF Kind[va] = "w" THEN [fork[e] EXCEPT !.at = "self"]
                   ELSE [fork[e] EXCEPT !.va = @ + 1, !.at = "look"]
    BY <1>d, <2>1 DEF TypeOK, NextPage
  <2> HIDE DEF IInv, MapChild
  <2> QED
    BY <1>a, <2>2, <2>3 DEF ForkPlace
<1>h. \A d \in Envs \ {e} : fork'[d] = fork[d]
  BY <1>d DEF TypeOK, NextPage
<1>i. \A d \in Envs : fault[d] # None => life[d] = "runs" /\ d # c /\ fault[d].va \in VAs
  BY <1>a, FaultFacts
<1> HIDE DEF M, P
<1>1. TypeOK'
  <2>1. pte' \in [Envs -> [VAs -> Mapping \cup {None}]]
    BY <1>a, <1>c, <1>d DEF TypeOK
  <2>2. fork' \in [Envs -> ForkPlace \cup {None}]
    <3>1. fork' = [fork EXCEPT ![e] = fork'[e]]
      BY <1>d DEF TypeOK, NextPage
    <3> QED
      BY <1>g, <3>1 DEF TypeOK
  <2>3. \A d \in Envs : life[d] = "runs" => None \notin {pte'[d][v] : v \in VAs}
    BY <1>a, <1>f DEF TypeOK
  <2> QED
    BY <1>d, <2>1, <2>2, <2>3 DEF TypeOK
<1>2. \A d \in Envs : IdleOK(d)'
  BY <1>a, <1>d, <1>f, <1>h DEF IdleOK
<1>3. \A d \in Envs : ForkOK(d)'
  <2> SUFFICES ASSUME NEW d \in Envs, fork'[d] # None PROVE ForkOK(d)'
    BY DEF ForkOK
  <2>1. CASE d = e
    <3>1. \A u \in VAs : u < fork'[e].va => pte'[c][u] # None
      <4>1. \A u \in VAs : u < va + 1 => u < va \/ u = va
        BY <1>a DEF VAs
      <4>2. \A u \in VAs : u < va => pte[c][u] # None
        BY DEF ForkOK
      <4>3. fork'[e].va = va + 1 \/ fork'[e].va = va
        BY <1>g
      <4>4. \A u \in VAs : pte[c][u] # None \/ u = va => pte'[c][u] # None
        BY <1>a, <1>c, <1>f
      <4> HIDE DEF IInv, MapChild
      <4> QED
        BY <4>1, <4>2, <4>3, <4>4
    <3>2. \A u \in VAs \ {Stack} : pte'[c][u] # None => SamePage(c, u, e, u)'
      <4>1. \A u \in VAs \ {Stack} : pte[c][u] # None => SamePage(c, u, e, u)
        BY DEF ForkOK
      <4>2. pte[e][va] # None
        BY <1>a
      <4>3. \A u \in VAs : pte'[e][u] = pte[e][u]
        BY <1>a, <1>f
      <4>4. ASSUME NEW u \in VAs \ {Stack}, pte'[c][u] # None PROVE SamePage(c, u, e, u)'
        <5>1. CASE u = va
          <6>1. pte'[c][u] = M /\ pte'[e][u] = pte[e][va]
            BY <1>a, <1>f, <4>3, <5>1
          <6> HIDE DEF IInv, MapChild
          <6> QED
            BY <1>c, <1>g, <4>2, <6>1 DEF SamePage, P
        <5>2. CASE u # va
          <6>1. pte'[c][u] = pte[c][u]
            BY <1>f, <1>a, <5>2
          <6>2. SamePage(c, u, e, u) /\ pte'[e][u] = pte[e][u]
            BY <4>1, <4>3, <4>4, <6>1
          <6> HIDE DEF IInv, MapChild
          <6> QED
            BY <1>g, <6>1, <6>2 DEF SamePage
        <5> QED
          BY <5>1, <5>2
      <4> QED
        BY <4>4
    <3> QED
      BY <1>a, <1>c, <1>d, <1>f, <1>g, <2>1, <3>1, <3>2 DEF ForkOK
  <2>2. CASE d # e
    <3>1. fork'[d] = fork[d] /\ fork[d] # None /\ fork[d].child # c /\ fork[d].child # e
          /\ d # c
      BY <1>a, <1>h, <2>2, ForkFacts DEF OneParent
    <3>2. ForkOK(d)
      OBVIOUS
    <3>3. \A u \in VAs : pte'[fork[d].child][u] = pte[fork[d].child][u] /\ pte'[d][u] = pte[d][u]
      BY <1>f, <3>1, ForkFacts
    <3> HIDE DEF IInv, MapChild
    <3> QED
      BY <1>d, <3>1, <3>2, <3>3 DEF ForkOK, SamePage
  <2> QED
    BY <2>1, <2>2
<1>4. \A d \in Envs : FaultOK(d)'
  <2> SUFFICES ASSUME NEW d \in Envs, fault[d] # None PROVE FaultOK(d)'
    BY <1>d DEF FaultOK
  <2>1. d # e /\ fork'[d] = fork[d] /\ pte'[d][fault[d].va] = pte[d][fault[d].va]
    BY <1>f, <1>h, <1>i
  <2>2. pte[e][va] # None
    BY <1>a
  <2>3. FaultOK(d)
    OBVIOUS
  <2>4. fault[d].at \in {"copy", "map"} => P # temp[d]
    BY <1>a, <2>2, <2>3 DEF FaultOK, P
  <2> HIDE DEF IInv, MapChild
  <2> QED
    BY <1>c, <1>d, <1>f, <2>1, <2>3, <2>4 DEF FaultOK
<1>5. \A d \in Envs, u \in VAs : MappingOK(d, u)'
  <2>1. Kind[va] # "w" => P = Home[va]
    BY <1>a DEF MappingOK, P
  <2> QED
    BY <1>a, <1>c, <1>f, <2>1 DEF MappingOK
<1>6. OneAddress'
  <2>1. pte[e][va] # None
    BY <1>a
  <2> QED
    BY <1>a, <1>c, <1>f, <2>1 DEF OneAddress, SamePage, P
<1>7. OneParent'
  <2>1. \A d \in Envs : /\ (fork'[d] # None) = (fork[d] # None)
                        /\ fork'[d] # None => fork'[d].child = fork[d].child
    BY <1>g, <1>h, NoneAssumption
  <2>2. OneParent
    OBVIOUS
  <2> HIDE DEF IInv, MapChild
  <2> QED
    BY <2>1, <2>2 DEF OneParent
<1>8. OwnTemp'
  BY DEF OwnTemp, TypeOK, Mapped
<1>9. Alone'
  <2> SUFFICES ASSUME NEW d \in Envs, NEW b \in Envs, NEW v \in VAs, d # b,
                      SamePage(d, v, b, v)', pte'[d][v].perm = "w"
               PROVE  HalfDuplicated(d, v)' /\ b = fork'[d].child
    BY DEF Alone
  <2>0. pte[e][va] # None
    BY <1>a
  <2>1. ~(d = c /\ v = va) /\ pte'[d][v] = pte[d][v]
    BY <1>c, <1>f
  <2>2. CASE b = c /\ v = va
    <3>1. SamePage(d, va, e, va) /\ pte[d][va].perm = "w"
      BY <1>a, <1>c, <1>f, <2>0, <2>1, <2>2 DEF SamePage, P
    <3>2. d = e
      BY <1>a, <3>1, ForkFacts DEF Alone, HalfDuplicated
    <3>3. Kind[va] = "w"
      BY <1>a, <2>0, <3>1, <3>2 DEF MappingOK, AllowedPerm
    <3> QED
      BY <1>a, <1>g, <2>2, <3>2, <3>3 DEF HalfDuplicated
  <2>3. CASE ~(b = c /\ v = va)
    <3>1. SamePage(d, v, b, v) /\ pte[d][v].perm = "w"
      BY <1>f, <2>1, <2>3 DEF SamePage
    <3>2. HalfDuplicated(d, v) /\ b = fork[d].child
      BY <3>1 DEF Alone
    <3>3. d # e
      BY <3>2 DEF HalfDuplicated
    <3> QED
      BY <1>h, <3>2, <3>3 DEF HalfDuplicated
  <2> QED
    BY <2>2, <2>3
<1>10. CopyIsCurrent'
  <2> SUFFICES ASSUME NEW d \in Envs, FaultAt(d, "map")
               PROVE  content[temp[d]] = content[pte'[d][fault[d].va].page]
    BY <1>d DEF CopyIsCurrent, FaultAt
  <2>1. pte'[d][fault[d].va] = pte[d][fault[d].va]
    BY <1>f, <1>i DEF FaultAt
  <2> QED
    BY <2>1 DEF CopyIsCurrent
<1> QED
  BY <1>1, <1>2, <1>3, <1>4, <1>5, <1>6, <1>7, <1>8, <1>9, <1>10

LEMMA MapSelfInv == ASSUME IInv, NEW e \in Envs, MapSelf(e) PROVE IInv'
<1> USE KindAssumption, NoneAssumption DEF IInv, MapSelf, Forking, Ready, NextPage
<1> DEFINE c == fork[e].child
           va == fork[e].va
<1>a. /\ va \in VAs /\ c \in Envs /\ c # e /\ life[c] = "forked" /\ life[e] = "runs"
      /\ pte[e][va] \in Mapping /\ fork[e] \in ForkPlace
  BY ForkFacts
<1>b. Kind[va] = "w" /\ pte[c][va] # None
  BY DEF ForkOK
<1>c. /\ pte' = [pte EXCEPT ![e][va].perm = "cow"] /\ fork' = NextPage(e)
      /\ UNCHANGED <<life, temp, content, fault>>
  OBVIOUS
<1>d. \A d \in Envs, u \in VAs :
          /\ d # e \/ u # va => pte'[d][u] = pte[d][u]
          /\ d = e /\ u = va => /\ pte'[d][u] \in Mapping /\ pte'[d][u] # None
                                /\ pte'[d][u].page = pte[d][u].page
                                /\ pte'[d][u].perm = "cow"
  <2>1. pte'[e][va] = [pte[e][va] EXCEPT !.perm = "cow"]
    <3>1. pte \in [Envs -> [VAs -> Mapping \cup {None}]]
      BY DEF TypeOK
    <3>2. pte'[e] = [pte[e] EXCEPT ![va].perm = "cow"]
      BY <1>c, <3>1
    <3> HIDE DEF IInv, MapSelf
    <3> QED
      BY <1>a, <3>1, <3>2
  <2>2. pte'[e][va] \in Mapping /\ pte'[e][va].page = pte[e][va].page /\ pte'[e][va].perm = "cow"
    BY <1>a, <2>1 DEF Mapping, Perms
  <2>3. \A d \in Envs, u \in VAs : d # e \/ u # va => pte'[d][u] = pte[d][u]
    BY <1>a, <1>c DEF TypeOK
  <2> QED
    BY <2>2, <2>3
<1>f. fork'[e] \in ForkPlace /\ fork'[e].child = c /\ fork'[e].at = "look" /\ fork'[e].va = va + 1
  <2>1. va \in 1 .. LastVA /\ va + 1 \in 1 .. LastVA + 1
    BY <1>a DEF VAs
  <2> QED
    BY <1>a, <1>c, <2>1 DEF TypeOK, ForkPlace, NextPage
<1>g. \A d \in Envs \ {e} : fork'[d] = fork[d]
  BY <1>c DEF TypeOK, NextPage
<1>1. TypeOK'
  BY DEF TypeOK, Mapping, Perms, ForkPlace, FaultPlace
<1>2. \A d \in Envs : IdleOK(d)'
  BY DEF IdleOK, TypeOK
<1>3. \A d \in Envs : ForkOK(d)'
  <2> SUFFICES ASSUME NEW d \in Envs, fork'[d] # None PROVE ForkOK(d)'
    BY DEF ForkOK
  <2>0. \A b \in Envs, u \in VAs : pte'[b][u] # None => pte[b][u] # None
    BY <1>a, <1>d
  <2>1. \A b, g \in Envs, u, v \in VAs : SamePage(b, u, g, v) => SamePage(b, u, g, v)'
    BY <1>a, <1>d DEF SamePage
  <2>2. CASE d = e
    <3>1. \A u \in VAs : u < va + 1 => u < va \/ u = va
      BY <1>a DEF VAs
    <3>2. \A u \in VAs : pte'[c][u] = pte[c][u]
      BY <1>a, <1>d
    <3>3. /\ \A u \in VAs : u < va => pte[c][u] # None
          /\ \A u \in VAs \ {Stack} : pte[c][u] # None => SamePage(c, u, e, u)
      BY DEF ForkOK
    <3>4. \A u \in VAs : u < va + 1 => pte'[c][u] # None
      BY <1>b, <3>1, <3>2, <3>3
    <3>5. \A u \in VAs \ {Stack} : pte'[c][u] # None => SamePage(c, u, e, u)'
      <4> HIDE DEF IInv, MapSelf
      <4> QED
        BY <1>a, <1>f, <2>1, <3>2, <3>3
    <3> QED
      BY <1>a, <1>c, <1>f, <2>2, <3>4, <3>5 DEF ForkOK
  <2>3. CASE d # e
    <3>1. fork'[d] = fork[d] /\ fork[d] # None /\ fork[d].child \in Envs /\ fork[d].child # e
      <4>1. fork'[d] = fork[d] /\ fork[d] # None
        BY <1>g, <2>3
      <4>2. fork[d].child \in Envs /\ life[fork[d].child] = "forked"
        BY <4>1, ForkFacts
      <4> QED
        BY <1>a, <4>1, <4>2
    <3>2. \A u \in VAs : pte'[fork[d].child][u] = pte[fork[d].child][u]
      BY <1>d, <3>1
    <3>3. ForkOK(d)
      OBVIOUS
    <3>4. \A u \in VAs \ {Stack} :
              pte'[fork[d].child][u] # None => SamePage(fork[d].child, u, d, u)'
      BY <2>1, <3>1, <3>2, <3>3 DEF ForkOK
    <3> HIDE DEF IInv, MapSelf
    <3> QED
      BY <1>c, <3>1, <3>2, <3>3, <3>4 DEF ForkOK
  <2> QED
    BY <2>2, <2>3
<1>4. \A d \in Envs : FaultOK(d)'
  BY DEF IdleOK, FaultOK, TypeOK, FaultPlace, Mapping, Mapped
<1>5. \A d \in Envs, u \in VAs : MappingOK(d, u)'
  BY <1>a, <1>b, <1>d DEF MappingOK, AllowedPerm
<1>6. OneAddress'
  BY DEF OneAddress, SamePage, TypeOK, Mapping
<1>7. OneParent'
  BY DEF OneParent, IdleOK, ForkOK, TypeOK
<1>8. OwnTemp'
  BY DEF OwnTemp, TypeOK, Mapped
<1>9. Alone'
  BY DEF Alone, SamePage, HalfDuplicated, TypeOK, Mapping, OneAddress
<1>10. CopyIsCurrent'
  BY DEF CopyIsCurrent, FaultAt, Mapped, TypeOK, Mapping
<1> QED
  BY <1>1, <1>2, <1>3, <1>4, <1>5, <1>6, <1>7, <1>8, <1>9, <1>10

LEMMA StartInv == ASSUME IInv, NEW e \in Envs, Start(e) PROVE IInv'
<1> USE KindAssumption, NoneAssumption DEF IInv, Start, Forking, Ready
<1> DEFINE c == fork[e].child
<1>a. c \in Envs /\ c # e /\ life[c] = "forked" /\ \A u \in VAs : pte[c][u] # None
  <2>1. \A u \in VAs : u < LastVA + 1
    BY DEF VAs
  <2> QED
    BY <2>1, ForkFacts DEF ForkOK
<1>b. /\ life' = [life EXCEPT ![c] = "runs"] /\ fork' = [fork EXCEPT ![e] = None]
      /\ UNCHANGED <<pte, temp, content, fault>>
  OBVIOUS
<1>c. fault[c] = None
  BY <1>a DEF IdleOK
<1>1. TypeOK'
  <2>1. \A d \in Envs : life'[d] = "runs" => None \notin {pte[d][v] : v \in VAs}
    BY <1>a, <1>b DEF TypeOK
  <2>2. /\ life' \in [Envs -> {"none", "forked", "runs", "gone"}]
        /\ fork' \in [Envs -> ForkPlace \cup {None}]
    BY <1>b DEF TypeOK
  <2> QED
    BY <1>b, <2>1, <2>2 DEF TypeOK
<1>2. \A d \in Envs : IdleOK(d)'
  BY DEF IdleOK, TypeOK
<1>3. \A d \in Envs : ForkOK(d)'
  BY DEF IdleOK, ForkOK, FaultOK, TypeOK, SamePage, AllowedPerm, OneParent, ForkPlace, Mapping
<1>4. \A d \in Envs : FaultOK(d)'
  BY DEF IdleOK, FaultOK, TypeOK, FaultPlace, Mapping, Mapped
<1>5. \A d \in Envs, u \in VAs : MappingOK(d, u)'
  BY DEF MappingOK, AllowedPerm, TypeOK, Mapping
<1>6. OneAddress'
  BY DEF OneAddress, SamePage, TypeOK, Mapping
<1>7. OneParent'
  BY DEF OneParent, IdleOK, ForkOK, TypeOK
<1>8. OwnTemp'
  BY DEF OwnTemp, TypeOK, Mapped
<1>9. Alone'
  BY DEF Alone, SamePage, HalfDuplicated, TypeOK, Mapping, OneAddress
<1>10. CopyIsCurrent'
  <2> SUFFICES ASSUME NEW d \in Envs, FaultAt(d, "map")'
               PROVE  content[temp[d]] = content[pte[d][fault[d].va].page]
    BY <1>b DEF CopyIsCurrent
  <2>1. FaultAt(d, "map")
    BY <1>b, <1>c DEF FaultAt, TypeOK
  <2> QED
    BY <2>1 DEF CopyIsCurrent
<1> QED
  BY <1>1, <1>2, <1>3, <1>4, <1>5, <1>6, <1>7, <1>8, <1>9, <1>10

LEMMA ExitInv == ASSUME IInv, NEW e \in Envs, Exit(e) PROVE IInv'
<1> USE KindAssumption, NoneAssumption DEF IInv, Exit
<1>1. TypeOK'
  BY DEF TypeOK, Mapping, Perms, ForkPlace, FaultPlace
<1>2. \A d \in Envs : IdleOK(d)'
  BY DEF IdleOK, TypeOK
<1>3. \A d \in Envs : ForkOK(d)'
  BY DEF IdleOK, ForkOK, FaultOK, TypeOK, SamePage, AllowedPerm, OneParent, ForkPlace, Mapping
<1>4. \A d \in Envs : FaultOK(d)'
  BY DEF IdleOK, FaultOK, TypeOK, FaultPlace, Mapping, Mapped
<1>5. \A d \in Envs, u \in VAs : MappingOK(d, u)'
  BY DEF MappingOK, AllowedPerm, TypeOK, Mapping
<1>6. OneAddress'
  BY DEF OneAddress, SamePage, TypeOK, Mapping
<1>7. OneParent'
  BY DEF OneParent, IdleOK, ForkOK, TypeOK
<1>8. OwnTemp'
  BY DEF OwnTemp, TypeOK, Mapped
<1>9. Alone'
  BY DEF Alone, SamePage, HalfDuplicated, TypeOK, Mapping, OneAddress
<1>10. CopyIsCurrent'
  BY DEF CopyIsCurrent, FaultAt, Mapped, TypeOK, Mapping
<1> QED
  BY <1>1, <1>2, <1>3, <1>4, <1>5, <1>6, <1>7, <1>8, <1>9, <1>10

(* The invariant is inductive.                                                *)
LEMMA NextInv == IInv /\ [Next]_vars => IInv'
<1> SUFFICES ASSUME IInv, [Next]_vars PROVE IInv'
  OBVIOUS
<1>1. ASSUME NEW e \in Envs, NEW v \in VAs, Fault(e, v) \/ \E x \in Written[v] : Write(e, v, x)
      PROVE  IInv'
  BY <1>1, FaultInv, WriteInv
<1>2. ASSUME NEW e \in Envs, AllocTemp(e) \/ Copy(e) \/ MapCopy(e) \/ UnmapTemp(e) PROVE IInv'
  BY <1>2, AllocTempInv, CopyInv, MapCopyInv, UnmapTempInv
<1>3. ASSUME NEW e \in Envs, NEW c \in Envs, Exofork(e, c) PROVE IInv'
  BY <1>3, ExoforkInv
<1>4. ASSUME NEW e \in Envs, Look(e) \/ MapChild(e) \/ MapSelf(e) \/ Start(e) \/ Exit(e)
      PROVE  IInv'
  BY <1>4, LookInv, MapChildInv, MapSelfInv, StartInv, ExitInv
<1>5. CASE UNCHANGED vars
  BY <1>5 DEF vars, IInv, TypeOK, IdleOK, ForkOK, FaultOK, MappingOK, AllowedPerm, SamePage,
      OneAddress, OneParent, OwnTemp, Alone, HalfDuplicated, CopyIsCurrent, FaultAt
<1> QED
  BY <1>1, <1>2, <1>3, <1>4, <1>5 DEF Next

(* The inductive invariant holds in every reachable state.                    *)
THEOREM Invariance == Spec => []IInv
BY InitInv, NextInv, PTL DEF Spec

(* Type correctness; and an environment that runs maps every page.            *)
THEOREM TypeCorrect == Spec => []TypeOK
BY Invariance, PTL DEF IInv

(* Whatever the environments do to each other and to themselves in the middle *)
(* of duppage(), a page that can be written in one address space is in no     *)
(* other, but for the child that does not run yet.                            *)
THEOREM WriterIsAlone == Spec => []WritableIsAlone
<1>1. IInv => WritableIsAlone
  <2> SUFFICES ASSUME IInv, NEW e \in Envs, NEW v \in VAs, pte[e][v] # None,
                      pte[e][v].perm = "w", NEW d \in Envs, NEW u \in VAs, <<d, u>> # <<e, v>>,
                      pte[d][u] # None, pte[d][u].page = pte[e][v].page
               PROVE  HalfDuplicated(e, v) /\ <<d, u>> = <<fork[e].child, v>>
    BY DEF WritableIsAlone, Aliases
  <2>1. u = v /\ d # e
    BY DEF IInv, OneAddress, SamePage
  <2> QED
    BY <2>1 DEF IInv, Alone, SamePage
<1> QED
  BY <1>1, Invariance, PTL

(* pgfault() maps a copy of what is there: nobody has written the original.   *)
THEOREM CopyStaysCurrent == Spec => []CopyIsCurrent
BY Invariance, PTL DEF IInv
------------------------------------------------------------------------------
(* The refinement.  Most steps are not seen from inside the address spaces.   *)
LEMMA Unseen ==
    ASSUME \A d \in Envs : life'[d] = "runs" <=> life[d] = "runs",
           \A d \in Envs, v \in VAs :
               life[d] = "runs" => content'[pte'[d][v].page] = content[pte[d][v].page],
           \A v \in Shared : content'[Home[v]] = content[Home[v]]
    PROVE  UNCHANGED Memory!vars
<1>1. UNCHANGED [v \in Shared |-> content[Home[v]]]
  OBVIOUS
<1>2. UNCHANGED [e \in Envs |-> IF life[e] = "runs"
                                THEN [v \in VAs \ Shared |-> content[pte[e][v].page]]
                                ELSE None]
  <2>1. ASSUME NEW e \in Envs, life[e] = "runs"
        PROVE  UNCHANGED [v \in VAs \ Shared |-> content[pte[e][v].page]]
    BY <2>1
  <2> QED
    BY <2>1
<1> QED
  BY <1>1, <1>2 DEF Memory!vars

(* A page that is mapped somewhere is not the one a step allocates or copies  *)
(* into, so these steps are not seen.                                         *)
LEMMA RunningPages ==
    ASSUME IInv, NEW d \in Envs, life[d] = "runs", NEW v \in VAs
    PROVE  /\ pte[d][v] # None /\ pte[d][v] \in Mapping /\ pte[d][v].page \in Pages
           /\ v \in Shared => pte[d][v].page = Home[v] /\ pte[d][v].perm = "share"
           /\ v \notin Shared => pte[d][v].perm # "share"
<1>1. pte[d][v] # None /\ pte[d][v] \in Mapping
  BY DEF IInv, TypeOK
<1> QED
  BY <1>1, KindAssumption DEF IInv, MappingOK, AllowedPerm, Mapping, Shared

(* What a running environment writes is written to its memory and no other.   *)
LEMMA WriteSeen ==
    ASSUME IInv, NEW e \in Envs, NEW v \in VAs, NEW x \in Written[v], Write(e, v, x)
    PROVE  Memory!Write(e, v, x)
<1> DEFINE Image == [d \in Envs |-> IF life[d] = "runs"
                                    THEN [u \in VAs \ Shared |-> content[pte[d][u].page]]
                                    ELSE None]
           SharedImage == [u \in Shared |-> content[Home[u]]]
           P == pte[e][v].page
<1>1. /\ life[e] = "runs" /\ pte[e][v] # None /\ pte[e][v].perm \in Writable /\ P \in Pages
      /\ content' = [content EXCEPT ![P] = x] /\ UNCHANGED <<life, pte>>
  BY RunningPages DEF Write, MayWrite, Ready
<1>2. content \in [Pages -> Vals]
  BY DEF IInv, TypeOK
<1>3. Image[e] # None
  <2>1. [u \in VAs \ Shared |-> content[pte[e][u].page]] \in [VAs \ Shared -> Vals]
    BY <1>1, <1>2, RunningPages
  <2> QED
    BY <1>1, <2>1, NoneAssumption
<1>4. ASSUME v \in Shared
      PROVE  UNCHANGED Image /\ SharedImage' = [SharedImage EXCEPT ![v] = x]
  <2>1. P = Home[v] /\ \A u \in Shared : Home[u] \in Pages /\ (Home[u] = Home[v] => u = v)
    BY <1>1, <1>4, RunningPages, KindAssumption DEF Shared
  <2>2. ASSUME NEW d \in Envs, life[d] = "runs", NEW u \in VAs \ Shared
        PROVE  content'[pte[d][u].page] = content[pte[d][u].page]
    <3>1. pte[d][u] # None /\ pte[d][u].page \in Pages
      BY <2>2, RunningPages
    <3>2. pte[d][u].page # P
      BY <1>1, <1>4, <2>2, <3>1 DEF IInv, OneAddress, SamePage
    <3> QED
      BY <1>1, <1>2, <3>1, <3>2
  <2>3. UNCHANGED Image
    <3>1. ASSUME NEW d \in Envs, life[d] = "runs"
          PROVE  UNCHANGED [u \in VAs \ Shared |-> content[pte[d][u].page]]
      BY <1>1, <2>2, <3>1
    <3> QED
      BY <1>1, <3>1
  <2>4. SharedImage' = [SharedImage EXCEPT ![v] = x]
    BY <1>1, <1>2, <1>4, <2>1
  <2> QED
    BY <2>3, <2>4
<1>5. ASSUME v \notin Shared
      PROVE  Image' = [Image EXCEPT ![e][v] = x] /\ UNCHANGED SharedImage
  <2>1. Kind[v] = "w"
    <3>1. pte[e][v].perm = "w"
      BY <1>1, <1>5, RunningPages DEF Writable
    <3> QED
      BY <1>1, <3>1, KindAssumption DEF IInv, MappingOK, AllowedPerm
  <2>2. ASSUME NEW d \in Envs, life[d] = "runs", NEW u \in VAs
        PROVE  content'[pte[d][u].page] = IF d = e /\ u = v THEN x ELSE content[pte[d][u].page]
    <3>1. pte[d][u] # None /\ pte[d][u].page \in Pages
      BY <2>2, RunningPages
    <3>2. pte[d][u].page = P => d = e /\ u = v
      <4>1. ASSUME pte[d][u].page = P PROVE SamePage(e, v, d, u) /\ u = v
        BY <1>1, <3>1, <4>1 DEF IInv, OneAddress, SamePage
      <4> QED
        BY <1>1, <2>1, <2>2, <4>1, WriterAlone
    <3> QED
      BY <1>1, <1>2, <3>1, <3>2
  <2>3. ASSUME NEW d \in Envs, d # e PROVE Image'[d] = Image[d]
    BY <1>1, <2>2, <2>3
  <2>4. Image'[e] = [Image[e] EXCEPT ![v] = x]
    BY <1>1, <1>5, <2>2
  <2>5. UNCHANGED SharedImage
    <3>1. ASSUME NEW u \in Shared PROVE content'[Home[u]] = content[Home[u]]
      <4>1. u \in VAs /\ pte[e][u].page = Home[u]
        BY <1>1, RunningPages DEF Shared
      <4> QED
        BY <1>1, <1>5, <2>2, <4>1
    <3> QED
      BY <3>1
  <2> QED
    BY <2>3, <2>4, <2>5
<1> QED
  BY <1>3, <1>4, <1>5 DEF Memory!Write

(* When the child starts it has its parent's memory, but for the stack.       *)
LEMMA StartSeen ==
    ASSUME IInv, NEW e \in Envs, Start(e)
    PROVE  \E c \in Envs : Memory!Fork(e, c)
<1> SUFFICES ASSUME NEW c \in Envs, c = fork[e].child PROVE Memory!Fork(e, c)
  BY ForkFacts DEF Start, Forking
<1> DEFINE Mine(d) == [u \in VAs \ Shared |-> content[pte[d][u].page]]
           Image == [d \in Envs |-> IF life[d] = "runs" THEN Mine(d) ELSE None]
           x == content[pte[c][Stack].page]
<1>1. /\ c \in Envs /\ c # e /\ life[e] = "runs" /\ life[c] = "forked"
      /\ life' = [life EXCEPT ![c] = "runs"] /\ UNCHANGED <<pte, content>>
  BY ForkFacts DEF Start, Forking, Ready
<1>2. \A u \in VAs : pte[c][u] # None /\ (u # Stack => pte[c][u].page = pte[e][u].page)
  <2>1. \A u \in VAs : u < fork[e].va
    BY KindAssumption DEF Start, VAs
  <2> QED
    BY <2>1 DEF Start, Forking, IInv, ForkOK, SamePage
<1>3. x \in Vals
  BY <1>1, <1>2, KindAssumption DEF IInv, TypeOK, Mapping
<1>4. Mine(e) \in [VAs \ Shared -> Vals]
  BY <1>1, RunningPages DEF IInv, TypeOK
<1>5. Mine(c) = [Mine(e) EXCEPT ![Stack] = x]
  BY <1>2
<1>6. Image[e] # None /\ Image[c] = None
  BY <1>1, <1>4, NoneAssumption
<1>7. Image' = [Image EXCEPT ![c] = [Image[e] EXCEPT ![Stack] = x]]
  <2>1. \A d \in Envs : Mine(d)' = Mine(d)
    BY <1>1
  <2>2. life' \in [Envs -> {"none", "forked", "runs", "gone"}] /\ life'[c] = "runs"
        /\ \A d \in Envs \ {c} : life'[d] = life[d]
    BY <1>1 DEF IInv, TypeOK
  <2> HIDE DEF Mine
  <2>3. Image' = [d \in Envs |-> IF life'[d] = "runs" THEN Mine(d) ELSE None]
    BY <2>1
  <2> QED
    BY <1>1, <1>5, <2>2, <2>3
<1>8. UNCHANGED [u \in Shared |-> content[Home[u]]]
  BY <1>1
<1> QED
  BY <1>1, <1>3, <1>6, <1>7, <1>8 DEF Memory!Fork

LEMMA ExitSeen == ASSUME IInv, NEW e \in Envs, Exit(e) PROVE Memory!Exit(e)
<1> DEFINE Image == [d \in Envs |-> IF life[d] = "runs"
                                    THEN [u \in VAs \ Shared |-> content[pte[d][u].page]]
                                    ELSE None]
<1>1. /\ life[e] = "runs" /\ life' = [life EXCEPT ![e] = "gone"]
      /\ pte' = [pte EXCEPT ![e] = [v \in VAs |-> None]] /\ UNCHANGED content
  BY DEF Exit
<1>2. Image[e] # None
  <2>1. [u \in VAs \ Shared |-> content[pte[e][u].page]] \in [VAs \ Shared -> Vals]
    BY <1>1, RunningPages DEF IInv, TypeOK
  <2> QED
    BY <1>1, <2>1, NoneAssumption
<1>3. Image' = [Image EXCEPT ![e] = None]
  <2>1. life'[e] = "gone" /\ \A d \in Envs \ {e} : life'[d] = life[d] /\ pte'[d] = pte[d]
    BY <1>1 DEF IInv, TypeOK
  <2>2. Image'[e] = None
    BY <2>1
  <2>3. ASSUME NEW d \in Envs, d # e PROVE Image'[d] = Image[d]
    BY <1>1, <2>1, <2>3
  <2> QED
    BY <2>2, <2>3
<1> QED
  BY <1>1, <1>2, <1>3 DEF Memory!Exit

(* pgfault() and the other steps of fork() are not seen.                      *)
LEMMA FaultUnseen ==
    ASSUME IInv, NEW e \in Envs, AllocTemp(e) \/ Copy(e) \/ MapCopy(e) \/ UnmapTemp(e)
    PROVE  UNCHANGED Memory!vars
<1>0. life[e] = "runs" /\ UNCHANGED life /\ content \in [Pages -> Vals]
  BY DEF AllocTemp, Copy, MapCopy, UnmapTemp, FaultAt, IInv, TypeOK
<1>1. \A v \in Shared : v \in VAs /\ Home[v] \in Pages /\ Home[v] = pte[e][v].page
  BY <1>0, RunningPages, KindAssumption DEF Shared
<1>2. ASSUME NEW p \in Pages, NEW y, content' = [content EXCEPT ![p] = y], UNCHANGED pte,
             \A d \in Envs, v \in VAs : pte[d][v] # None => pte[d][v].page # p
      PROVE  UNCHANGED Memory!vars
  <2>1. \A d \in Envs, v \in VAs :
            life[d] = "runs" => content'[pte[d][v].page] = content[pte[d][v].page]
    BY <1>0, <1>2, RunningPages
  <2>2. \A v \in Shared : content'[Home[v]] = content[Home[v]]
    BY <1>0, <1>1, <2>1
  <2> QED
    BY <1>0, <1>2, <2>1, <2>2, Unseen
<1>3. CASE AllocTemp(e)
  <2> DEFINE p == CHOOSE q \in Pages : ~Mapped(q)
  <2>1. p \in Pages /\ ~Mapped(p)
    BY <1>3 DEF AllocTemp
  <2>2. content' = [content EXCEPT ![p] = Zero] /\ UNCHANGED pte
    BY <1>3 DEF AllocTemp
  <2> HIDE DEF p
  <2> QED
    BY <1>2, <2>1, <2>2 DEF Mapped
<1>4. CASE Copy(e)
  <2>1. /\ temp[e] \in Pages /\ UNCHANGED pte
        /\ \A d \in Envs, v \in VAs : pte[d][v] # None => pte[d][v].page # temp[e]
        /\ content' = [content EXCEPT ![temp[e]] = content[pte[e][fault[e].va].page]]
    BY <1>4 DEF Copy, FaultAt, IInv, FaultOK, TypeOK
  <2> QED
    BY <1>2, <2>1
<1>5. CASE MapCopy(e)
  <2>1. /\ fault[e].va \in VAs /\ content[temp[e]] = content[pte[e][fault[e].va].page]
        /\ pte' = [pte EXCEPT ![e][fault[e].va] = [page |-> temp[e], perm |-> "w"]]
        /\ UNCHANGED content
    BY <1>5, FaultFacts DEF MapCopy, FaultAt, IInv, CopyIsCurrent
  <2>2. \A d \in Envs, v \in VAs :
            pte'[d][v] = IF d = e /\ v = fault[e].va THEN [page |-> temp[e], perm |-> "w"]
                                                     ELSE pte[d][v]
    BY <2>1 DEF IInv, TypeOK
  <2> QED
    BY <1>0, <2>1, <2>2, Unseen
<1>6. CASE UnmapTemp(e)
  BY <1>6, Unseen DEF UnmapTemp
<1> QED
  BY <1>3, <1>4, <1>5, <1>6

LEMMA ForkUnseen ==
    ASSUME IInv, NEW e \in Envs, \/ \E c \in Envs : Exofork(e, c)
                                 \/ Look(e) \/ MapChild(e) \/ MapSelf(e)
    PROVE  UNCHANGED Memory!vars
<1>0. life \in [Envs -> {"none", "forked", "runs", "gone"}]
  BY DEF IInv, TypeOK
<1>1. ASSUME NEW c \in Envs, Exofork(e, c) PROVE UNCHANGED Memory!vars
  BY <1>0, <1>1, Unseen DEF Exofork
<1>2. CASE Look(e)
  BY <1>2, Unseen DEF Look
<1>3. CASE MapChild(e)
  <2>1. fork[e].child \in Envs /\ life[fork[e].child] = "forked" /\ UNCHANGED <<life, content>>
        /\ \A d \in Envs \ {fork[e].child} : pte'[d] = pte[d]
    BY <1>3, ForkFacts DEF MapChild, Forking, Ready, IInv, TypeOK
  <2> QED
    BY <2>1, Unseen
<1>4. CASE MapSelf(e)
  <2>1. /\ fork[e].va \in VAs /\ pte[e][fork[e].va] \in Mapping
        /\ pte' = [pte EXCEPT ![e][fork[e].va].perm = "cow"] /\ UNCHANGED <<life, content>>
    BY <1>4, ForkFacts DEF MapSelf, Forking, Ready
  <2>2. \A d \in Envs, v \in VAs :
            d # e \/ v # fork[e].va => pte'[d][v] = pte[d][v]
    BY <2>1 DEF IInv, TypeOK
  <2>3. pte'[e][fork[e].va].page = pte[e][fork[e].va].page
    <3>1. pte'[e][fork[e].va] = [pte[e][fork[e].va] EXCEPT !.perm = "cow"]
      BY <2>1 DEF IInv, TypeOK
    <3> QED
      BY <2>1, <3>1 DEF Mapping
  <2> QED
    BY <2>1, <2>2, <2>3, Unseen
<1> QED
  BY <1>1, <1>2, <1>3, <1>4

LEMMA StepImplements == IInv /\ [Next]_vars => [Memory!Next]_(Memory!vars)
<1> SUFFICES ASSUME IInv, [Next]_vars PROVE [Memory!Next]_(Memory!vars)
  OBVIOUS
<1>1. ASSUME NEW e \in Envs, NEW v \in VAs, Fault(e, v) PROVE UNCHANGED Memory!vars
  BY <1>1, Unseen DEF Fault
<1>2. ASSUME NEW e \in Envs, NEW v \in VAs, NEW x \in Written[v], Write(e, v, x)
      PROVE  Memory!Next
  BY <1>2, WriteSeen, KindAssumption DEF Memory!Next
<1>3. ASSUME NEW e \in Envs, AllocTemp(e) \/ Copy(e) \/ MapCopy(e) \/ UnmapTemp(e)
      PROVE  UNCHANGED Memory!vars
  BY <1>3, FaultUnseen
<1>4. ASSUME NEW e \in Envs, \/ \E c \in Envs : Exofork(e, c)
                             \/ Look(e) \/ MapChild(e) \/ MapSelf(e)
      PROVE  UNCHANGED Memory!vars
  BY <1>4, ForkUnseen
<1>5. ASSUME NEW e \in Envs, Start(e) PROVE Memory!Next
  <2>1. PICK c \in Envs : Memory!Fork(e, c)
    BY <1>5, StartSeen
  <2> QED
    BY <2>1, Zenon DEF Memory!Next
<1>6. ASSUME NEW e \in Envs, Exit(e) PROVE Memory!Next
  BY <1>6, ExitSeen DEF Memory!Next
<1>7. CASE UNCHANGED vars
  BY <1>7, Unseen DEF vars
<1> QED
  BY <1>1, <1>2, <1>3, <1>4, <1>5, <1>6, <1>7 DEF Next

(* fork() implements private memories: every system call and every write of   *)
(* fork() and pgfault() is a step of PrivateMemory or changes nothing there.  *)
THEOREM ForkCopiesMemory == Spec => ImplementsPrivateMemory
<1>1. Init => Memory!Init
  BY KindAssumption DEF Init, Memory!Init, Memory!Private, Shared
<1>2. IInv /\ [Next]_vars => [Memory!Next]_(Memory!vars)
  BY StepImplements
<1> QED
  BY <1>1, <1>2, Invariance, PTL DEF Spec, ImplementsPrivateMemory, Memory!Spec
=============================================================================
