---------------------------- MODULE ShellProofs ----------------------------
(***************************************************************************)
(* Proofs about Shell: when the shell prompts again nothing of the line is *)
(* left behind, no environment keeps an end of a pipe it has no use for,   *)
(* and a program is started as the line says, for any lines, programs,     *)
(* numbers of environments and commands of a pipeline, and whatever fails; *)
(* an environment that panics keeps its descriptors and the line waiting.  *)
(*                                                                         *)
(* Nobody counts the environments of a line: each is waited for by one     *)
(* other (Waited), and one that ends has waited for its own (EnvOK).  The  *)
(* stages make the chain of those who wait end at the shell that reads the *)
(* lines.  The exception is spawn(), which forgets a child whose stack it  *)
(* could not set up (Abandoned).                                           *)
(*                                                                         *)
(* What a descriptor table holds is given by where its owner is and by the *)
(* calls to close() and dup() it has still to make (TableOK).              *)
(*                                                                         *)
(* What has been read of a command is a part of the line between two       *)
(* places, and the token read ahead begins where that part ends (ReadTo,   *)
(* Scanned): reading on makes a text longer, and what the reference says   *)
(* of a text that grows is what it said before and the last word (Grows).  *)
(***************************************************************************)
EXTENDS Shell, FiniteSetTheorems, SequenceTheorems, WellFoundedInduction, TLAPS

Kids == Ids \ {sh}

(* Where an environment is, calls to close() and dup() left aside.         *)
At(e) == IF pc[e] = "calls" THEN env[e].next ELSE pc[e]

Parsing == {"parse", "fork"}
Choosing == {"run", "spawn", "exofork"}
Making == {"stack", "segments", "share", "start"}     \* spawn() with a child
Ending == {"close all", "wait kid"}
Working == Parsing \cup Choosing \cup Making \cup Ending \cup {"wait right"}
Others == {"free", "unborn", "program", "panic", "destroy"}

Makes(e, c) == At(e) \in Making /\ env[e].kid = c

(* What a shell that runs commands knows of those it has to wait for.      *)
KidOK(e) ==
    /\ At(e) \in Parsing \cup Choosing => env[e].kid = None
    /\ At(e) \in Making => env[e].kid \in Kids /\ pc[env[e].kid] = "unborn"
    /\ At(e) \in Working /\ env[e].kid # None =>
          env[e].kid \in Kids /\ env[env[e].kid].stage = env[e].stage
    /\ At(e) = "wait right" => Gone(env[e].kid)
RightOK(e) ==
    /\ At(e) \in Parsing => env[e].right = None
    /\ At(e) \in Working /\ env[e].right # None =>
          env[e].right \in Kids /\ env[env[e].right].stage = env[e].stage + 1
    /\ At(e) = "fork" \/ (At(e) \in Working /\ env[e].right # None) => env[e].argv # <<>>
EnvOK(e) == /\ At(e) \in Working \cup Others
            /\ At(e) = "unborn" => pc[e] = "unborn"
            /\ pc[e] # "free" => env[e].stage >= 1
            /\ KidOK(e) /\ RightOK(e)

\* p waits, or is going to wait, for e.
WaitsFor(p, e) ==
    \/ p = sh /\ pc[sh] = "wait line" /\ env[sh].kid = e
    \/ p # sh /\ At(p) \in Working /\ env[p].right = e
    \/ p # sh /\ At(p) \in Ending /\ env[p].kid = e /\ At(e) \notin Working
Waited(e) == pc[e] \notin {"free", "unborn"} => \E p \in Ids : WaitsFor(p, e)

ShOK == /\ pc[sh] \in {"prompt", "fork line", "wait line", "panic"}
        /\ pc[sh] = "wait line" => env[sh].kid \in Kids /\ env[env[sh].kid].stage = 1
        /\ fd[sh] = [Empty EXCEPT ![0] = Terminal, ![1] = Terminal]

KidsDiffer == \A p, q \in Kids : At(p) \in Making /\ At(q) \in Making /\ env[p].kid = env[q].kid => p = q

Abandoned == {e \in Kids : pc[e] = "unborn" /\ \A p \in Kids : ~Makes(p, e)}

Fields == {"ahead", "argv", "p", "todo", "next", "kid", "right", "carry", "left", "stage"}
TypeOK == /\ DOMAIN pc = Ids /\ DOMAIN env = Ids /\ DOMAIN fd = Ids
          /\ \A e \in Ids : DOMAIN env[e] = Fields /\ env[e].stage \in Nat
          /\ stackFaults \in Nat

Chain == /\ TypeOK /\ ShOK /\ KidsDiffer
         /\ \A e \in Kids : EnvOK(e) /\ Waited(e)
IInv == Chain /\ Cardinality(Abandoned) = stackFaults

(* A bar follows a word: runcmd() returns from an empty command without    *)
(* waiting for what is right of it.                                        *)
NoEmptyLeft == \A e \in Ids : Parses(e, "|") => env[e].argv # <<>>

------------------------------------------------------------------------------
(* The first unused number.                                                *)
LEMMA NatMin == ASSUME NEW T, T \subseteq Nat, T # {} PROVE \E x \in T : \A y \in T : x <= y
<1> DEFINE R == OpToRel(<, Nat)
<1>1. IsWellFoundedOn(R, Nat)
  BY NatLessThanWellFounded
<1>2. PICK x \in T : \A y \in T : <<y, x>> \notin R
  BY <1>1, WFMin
<1>3. \A y \in T : ~(y < x)
  BY <1>2 DEF OpToRel
<1> QED
  BY <1>3

LEMMA NewIdUnused == ASSUME Chain, Room PROVE NewId \in Kids /\ pc[NewId] = "free" /\ env[NewId].stage = 0
<1>1. Unused \subseteq Nat /\ Unused # {}
  BY IdsAssumption DEF Unused, Ids, Room
<1>2. NewId \in Unused
  BY <1>1, NatMin DEF NewId, Min
<1> QED
  BY <1>2 DEF Unused, Kids, Chain, EnvOK

LEMMA ShIsNoKid == sh \in Ids /\ sh \notin Kids /\ Kids \subseteq Ids /\ None \notin Ids
BY IdsAssumption DEF Kids, Ids, sh

------------------------------------------------------------------------------
(* A step of one environment, to place l with the private state x.         *)
Step(e, l, x) ==
    /\ DOMAIN pc' = Ids /\ DOMAIN env' = Ids /\ DOMAIN env'[e] = Fields
    /\ \A f \in Ids \ {e} : pc'[f] = pc[f] /\ env'[f] = env[f]
    /\ At(e)' = l
    /\ env'[e].kid = x.kid /\ env'[e].right = x.right /\ env'[e].argv = x.argv /\ env'[e].stage = x.stage

LEMMA CallAllSteps ==
    ASSUME TypeOK, NEW e \in Kids, NEW x, DOMAIN x = Fields, NEW calls, NEW l, l # "calls",
           CallAll(e, x, calls, l)
    PROVE  Step(e, l, x)
<1>1. e \in Ids
  BY DEF Kids
<1>2. CASE calls = <<>>
  BY <1>1, <1>2 DEF CallAll, Goto, Keeps, Step, TypeOK, At
<1>3. CASE calls # <<>>
  <2> DEFINE y == [x EXCEPT !.todo = calls, !.next = l]
  <2>1. DOMAIN y = Fields /\ y.next = l /\ y.kid = x.kid /\ y.right = x.right /\ y.argv = x.argv /\ y.stage = x.stage
    BY DEF Fields
  <2>2. pc' = [pc EXCEPT ![e] = "calls"] /\ env' = [env EXCEPT ![e] = y]
    BY <1>3 DEF CallAll, Goto, Keeps
  <2> HIDE DEF y
  <2> QED
    BY <1>1, <2>1, <2>2 DEF Step, TypeOK, At
<1> QED
  BY <1>2, <1>3

LEMMA GotoSteps ==
    ASSUME TypeOK, NEW e \in Kids, NEW l, l # "calls", Goto(e, l), UNCHANGED env
    PROVE  Step(e, l, env[e])
BY DEF Goto, Step, TypeOK, At, Kids

LEMMA KeepsSteps ==
    ASSUME TypeOK, NEW e \in Kids, NEW x, DOMAIN x = Fields, Keeps(e, x), UNCHANGED pc, pc[e] # "calls"
    PROVE  Step(e, pc[e], x)
BY DEF Keeps, Step, TypeOK, At, Kids

\* Whom e waits for still, after a step to place l.
StillWaits(e, l) ==
    /\ At(e) \in Making <=> l \in Making
    /\ At(e) \in Ending => l \in Ending \/ Gone(env[e].kid)
    /\ At(e) \in Working => l \in Working \/ Gone(env[e].right)
    /\ At(e) \notin Working => l \notin Working

ShStays == DOMAIN fd' = Ids /\ fd'[sh] = fd[sh]

LEMMA StepChain ==
    ASSUME Chain, NEW e \in Kids, NEW l, NEW x, Step(e, l, x), UNCHANGED stackFaults, ShStays,
           x.kid = env[e].kid, x.right = env[e].right, x.stage = env[e].stage,
           l \in Working \cup Others, l # "unborn", pc[e] \notin {"free", "unborn"},
           StillWaits(e, l), KidOK(e)', RightOK(e)'
    PROVE  Chain'
<1> USE ShIsNoKid
<1>1. /\ \A f \in Ids \ {e} : pc'[f] = pc[f] /\ env'[f] = env[f] /\ At(f)' = At(f)
      /\ At(e)' = l /\ env'[e].kid = env[e].kid /\ env'[e].right = env[e].right
      /\ env'[e].stage = env[e].stage
  BY DEF Step, At
<1>2. TypeOK'
  BY <1>1 DEF Step, Chain, TypeOK, ShStays
<1>3. \A f \in Ids : env'[f].stage = env[f].stage /\ env'[f].kid = env[f].kid /\ env'[f].right = env[f].right
  BY <1>1
<1>4. e # sh /\ pc'[sh] = pc[sh] /\ env'[sh] = env[sh]
  BY <1>1
<1>5. ShOK'
  <2>1. pc[sh] = "wait line" => env[sh].kid \in Ids
    BY DEF Chain, ShOK
  <2> QED
    BY <1>3, <1>4, <2>1 DEF Chain, ShOK, ShStays
<1>6. \A f \in Kids : At(f)' \in Making <=> At(f) \in Making
  BY <1>1 DEF StillWaits
<1>7. KidsDiffer'
  BY <1>3, <1>6 DEF Chain, KidsDiffer
<1>8. EnvOK(e)'
  BY <1>1 DEF Chain, EnvOK, At
<1>9. ASSUME NEW f \in Kids \ {e} PROVE EnvOK(f)'
  <2>1. EnvOK(f) /\ pc'[f] = pc[f] /\ env'[f] = env[f] /\ At(f)' = At(f)
    BY <1>1 DEF Chain
  <2>2. KidOK(f)'
    <3>1. At(f) \in Making => env[f].kid \in Kids /\ pc'[env[f].kid] = "unborn"
      BY <1>1, <2>1 DEF EnvOK, KidOK
    <3>2. At(f) \in Working /\ env[f].kid # None =>
             env[f].kid \in Kids /\ env'[env[f].kid].stage = env[f].stage
      BY <1>3, <2>1 DEF EnvOK, KidOK
    <3>3. At(f) = "wait right" => Gone(env[f].kid)'
      <4>1. At(f) = "wait right" => Gone(env[f].kid) /\ (env[f].kid # None => env[f].kid \in Kids \ {e})
        BY <2>1 DEF EnvOK, KidOK, Gone, Working
      <4> QED
        BY <1>1, <2>1, <4>1 DEF Gone
    <3> QED
      BY <2>1, <3>1, <3>2, <3>3 DEF EnvOK, KidOK
  <2>3. RightOK(f)'
    BY <1>3, <2>1 DEF EnvOK, RightOK
  <2> QED
    BY <2>1, <2>2, <2>3 DEF EnvOK
<1>10. ASSUME NEW f \in Kids, pc'[f] \notin {"free", "unborn"} PROVE \E p \in Ids : WaitsFor(p, f)'
  <2>1. pc[f] \notin {"free", "unborn"} /\ ~Gone(f)
    BY <1>1, <1>10 DEF Gone
  <2>2. PICK p \in Ids : WaitsFor(p, f)
    BY <2>1 DEF Chain, Waited
  <2>3. At(f) \notin Working => At(f)' \notin Working
    BY <1>1 DEF StillWaits
  <2>4. CASE p # e
    BY <1>1, <1>3, <1>4, <2>2, <2>3, <2>4 DEF WaitsFor
  <2>5. CASE p = e
    <3>1. At(e) \in Working /\ env[e].right = f => At(e)' \in Working
      BY <1>1, <2>1 DEF StillWaits
    <3>2. At(e) \in Ending /\ env[e].kid = f => At(e)' \in Ending
      BY <1>1, <2>1 DEF StillWaits
    <3> QED
      BY <1>3, <1>4, <2>2, <2>3, <2>5, <3>1, <3>2 DEF WaitsFor
  <2> QED
    BY <2>4, <2>5
<1> QED
  BY <1>2, <1>5, <1>7, <1>8, <1>9, <1>10 DEF Chain, Waited

LEMMA StepPreserves ==
    ASSUME IInv, NEW e \in Kids, NEW l, NEW x, Step(e, l, x), UNCHANGED stackFaults, ShStays,
           x.kid = env[e].kid, x.right = env[e].right, x.stage = env[e].stage,
           l \in Working \cup Others, l # "unborn", pc[e] \notin {"free", "unborn"},
           StillWaits(e, l), KidOK(e)', RightOK(e)'
    PROVE  IInv'
<1>1. Chain'
  BY StepChain DEF IInv
<1>2. \A f \in Kids : pc'[f] = "unborn" <=> pc[f] = "unborn"
  BY DEF Step, At, Kids
<1>3. \A f \in Kids : env'[f].kid = env[f].kid
  BY DEF Step, Kids
<1>4. \A f \in Kids : At(f)' \in Making <=> At(f) \in Making
  BY DEF Step, Kids, At, StillWaits
<1>5. Abandoned' = Abandoned
  BY <1>2, <1>3, <1>4 DEF Abandoned, Makes
<1> QED
  BY <1>1, <1>5 DEF IInv

(* What Step needs to know of KidOK and RightOK.                           *)
LEMMA KeepsKin ==
    ASSUME Chain, NEW e \in Kids, NEW l, NEW x, Step(e, l, x),
           x.kid = env[e].kid, x.right = env[e].right, x.stage = env[e].stage, pc[e] # "unborn",
           l \in Parsing \cup Choosing => At(e) \in Parsing \cup Choosing,
           l \in Parsing => At(e) \in Parsing,
           l \in Making => At(e) \in Making,
           l \in Working => At(e) \in Working,
           l = "wait right" => Gone(env[e].kid),
           l = "fork" => x.argv # <<>>,
           l \in Working /\ env[e].right # None => x.argv = env[e].argv
    PROVE  KidOK(e)' /\ RightOK(e)'
<1> USE ShIsNoKid
<1>1. /\ \A f \in Ids \ {e} : pc'[f] = pc[f] /\ env'[f] = env[f]
      /\ At(e)' = l /\ env'[e].kid = env[e].kid /\ env'[e].right = env[e].right
      /\ env'[e].stage = env[e].stage /\ env'[e].argv = x.argv
  BY DEF Step
<1>2. \A f \in Ids : env'[f].stage = env[f].stage
  BY <1>1
<1>3. KidOK(e) /\ RightOK(e)
  BY DEF Chain, EnvOK
<1>4. KidOK(e)'
  <2>1. l \in Making => env[e].kid \in Kids /\ pc'[env[e].kid] = "unborn"
    BY <1>1, <1>3 DEF KidOK
  <2>2. l \in Working /\ env[e].kid # None => env[e].kid \in Kids /\ env'[env[e].kid].stage = env[e].stage
    BY <1>2, <1>3 DEF KidOK
  <2>3. l = "wait right" => Gone(env[e].kid)'
    <3>1. l = "wait right" => At(e) \in Working /\ Gone(env[e].kid)
      BY DEF Working
    <3>2. pc'[e] = "free" \/ pc[e] # "free" \/ l # "wait right"
      BY <3>1 DEF At, Working, Parsing, Choosing, Making, Ending
    <3> QED
      BY <1>1, <1>3, <3>1, <3>2 DEF Gone, KidOK
  <2>4. l \in Parsing \cup Choosing => env[e].kid = None
    BY <1>3 DEF KidOK
  <2> QED
    BY <1>1, <2>1, <2>2, <2>3, <2>4 DEF KidOK
<1>5. RightOK(e)'
  <2>1. l \in Parsing => env[e].right = None
    BY <1>3 DEF RightOK
  <2>2. l \in Working /\ env[e].right # None =>
           env[e].right \in Kids /\ env'[env[e].right].stage = env[e].stage + 1
    BY <1>2, <1>3 DEF RightOK
  <2>3. l = "fork" \/ (l \in Working /\ env[e].right # None) => x.argv # <<>>
    BY <1>3 DEF RightOK
  <2> QED
    BY <1>1, <2>1, <2>2, <2>3 DEF RightOK
<1> QED
  BY <1>4, <1>5

(* A step of e as the actions make it.                                     *)
LEMMA MovePreserves ==
    ASSUME IInv, NEW e \in Kids, NEW l, NEW x, Step(e, l, x), UNCHANGED stackFaults, ShStays,
           x.kid = env[e].kid, x.right = env[e].right, x.stage = env[e].stage,
           l \in (Working \cup Others) \ {"unborn"}, pc[e] \notin {"free", "unborn"},
           StillWaits(e, l),
           l \in Parsing \cup Choosing => At(e) \in Parsing \cup Choosing,
           l \in Parsing => At(e) \in Parsing,
           l = "wait right" => Gone(env[e].kid),
           l = "fork" => x.argv # <<>>,
           l \in Working /\ env[e].right # None => x.argv = env[e].argv
    PROVE  IInv'
<1>1. Chain
  BY DEF IInv
<1>2. l \in Making => At(e) \in Making
  BY DEF StillWaits
<1>3. l \in Working => At(e) \in Working
  BY DEF StillWaits
<1>4. KidOK(e)' /\ RightOK(e)'
  BY <1>1, <1>2, <1>3, KeepsKin
<1> QED
  BY <1>4, StepPreserves

LEMMA FdStays == ASSUME Chain, Next PROVE ShStays
<1> USE ShIsNoKid
<1>1. DOMAIN fd = Ids
  BY DEF Chain, TypeOK
<1>2. CASE ReadLine \/ ForkLine \/ WaitLine
  <2>1. ForkLine => ShStays
    BY <1>1, NewIdUnused DEF ForkLine, ShStays
  <2> QED
    BY <1>1, <1>2, <2>1 DEF ReadLine, WaitLine, ShStays
<1>3. ASSUME NEW e \in Kids, Runnable(e) PROVE ShStays
  <2>1. CASE Call(e) \/ Destroy(e) \/ EchoWrites(e) \/ EchoEnds(e) \/ CatReads(e) \/ CatWrites(e) \/ OtherEnds(e)
    BY <1>1, <2>1 DEF Call, Destroy, EchoWrites, EchoEnds, CatReads, CatWrites, OtherEnds, ShStays
  <2>2. CASE Word(e) \/ EndOfString(e) \/ Run(e) \/ Exofork(e) \/ InitStack(e) \/ CloseForKid(e)
    BY <1>1, <2>2 DEF Word, EndOfString, Run, Exofork, InitStack, CloseForKid, ShStays, history
  <2>3. CASE Start(e) \/ WaitKid(e) \/ WaitRight(e)
    BY <1>1, <2>3 DEF Start, WaitKid, WaitRight, ShStays
  <2>4. CASE Input0(e) \/ Output1(e)
    BY <1>1, <2>4 DEF Input0, Output1, Redirect, ShStays
  <2>5. CASE Pipe(e)
    BY <1>1, <2>5 DEF Pipe, ShStays
  <2>6. CASE Fork(e)
    BY <1>1, <2>6, NewIdUnused DEF Fork, ShStays
  <2>7. CASE SpawnOpen(e) \/ MapSegments(e)
    BY <1>1, <2>7 DEF SpawnOpen, MapSegments, ShStays
  <2>8. CASE CopySharedPages(e)
    <3>1. env[e].kid \in Kids
      BY <2>8 DEF CopySharedPages, Chain, EnvOK, KidOK, At, Making
    <3> QED
      BY <1>1, <2>8, <3>1 DEF CopySharedPages, ShStays
  <2> QED
    BY <1>3, <2>1, <2>2, <2>3, <2>4, <2>5, <2>6, <2>7, <2>8 DEF Runnable, Shells
<1> QED
  BY <1>2, <1>3 DEF Next, Kids

LEMMA ChangeSteps ==
    ASSUME TypeOK, NEW e \in Kids, NEW l, l # "calls", NEW x, DOMAIN x = Fields, Goto(e, l), Keeps(e, x)
    PROVE  Step(e, l, x)
BY DEF Goto, Keeps, Step, TypeOK, At, Kids

LEMMA EnvFields ==
    ASSUME Chain, NEW e \in Ids
    PROVE  /\ DOMAIN env[e] = Fields
           /\ \A v : /\ DOMAIN [env[e] EXCEPT !.p = v] = Fields
                     /\ DOMAIN [env[e] EXCEPT !.left = v] = Fields
                     /\ DOMAIN [env[e] EXCEPT !.carry = v] = Fields
                     /\ DOMAIN [env[e] EXCEPT !.ahead = v] = Fields
                     /\ DOMAIN [env[e] EXCEPT !.kid = v] = Fields
BY DEF Chain, TypeOK

(* Calls to close() and dup().                                             *)
LEMMA CallPreserves == ASSUME IInv, NEW e \in Kids, Call(e), ShStays PROVE IInv'
<1> DEFINE l == env[e].next
<1>1. Chain /\ pc[e] = "calls" /\ At(e) = l /\ UNCHANGED stackFaults
  BY DEF IInv, Call, At, history
<1>2. EnvOK(e)
  BY <1>1 DEF Chain
<1>3. l \in (Working \cup Others) \ {"unborn"} /\ l # "calls"
  BY <1>1, <1>2 DEF EnvOK, Working, Others, Parsing, Choosing, Making, Ending
<1>4. Step(e, l, env[e])
  BY <1>1, <1>3, CallAllSteps, EnvFields DEF Call, Chain, TypeOK, Kids
<1>5. StillWaits(e, l)
  BY <1>1 DEF StillWaits
<1>6. l = "wait right" => Gone(env[e].kid)
  BY <1>1, <1>2 DEF EnvOK, KidOK
<1>7. l = "fork" => env[e].argv # <<>>
  BY <1>1, <1>2 DEF EnvOK, RightOK
<1> HIDE DEF l
<1> QED
  BY <1>1, <1>3, <1>4, <1>5, <1>6, <1>7, MovePreserves

\* A step of a program, or of one that ends.
LEMMA LeafPreserves ==
    ASSUME IInv, NEW e \in Kids, NEW l, NEW x, Step(e, l, x), UNCHANGED stackFaults, ShStays,
           x.kid = env[e].kid, x.right = env[e].right, x.stage = env[e].stage,
           At(e) \notin Working \cup {"free", "unborn"}, l \in Others \ {"unborn"}
    PROVE  IInv'
<1>1. l \notin Working /\ At(e) \notin Making \cup Ending /\ l \notin Making
  BY DEF Others, Working, Parsing, Choosing, Making, Ending
<1>2. pc[e] \notin {"free", "unborn"}
  BY DEF At
<1>3. StillWaits(e, l)
  BY <1>1 DEF StillWaits
<1>4. l \notin Parsing \cup Choosing \cup {"wait right", "fork"}
  BY <1>1 DEF Working, Parsing
<1> QED
  BY <1>1, <1>2, <1>3, <1>4, MovePreserves DEF Working

\* A shell that has nobody to wait for ends.
LEMMA ExitPreserves ==
    ASSUME IInv, NEW e \in Kids, Exit(e), UNCHANGED stackFaults, ShStays,
           pc[e] \notin {"calls", "free", "unborn"} \cup Making,
           At(e) \in Working => Gone(env[e].kid) /\ Gone(env[e].right)
    PROVE  IInv'
<1>1. Chain /\ At(e) = pc[e]
  BY DEF IInv, At
<1>2. Step(e, "destroy", env[e])
  BY <1>1, CallAllSteps, EnvFields DEF Exit, CloseAll, Chain, Kids
<1>3. "destroy" \notin Working /\ "destroy" \in Others
  BY DEF Working, Others, Parsing, Choosing, Making, Ending
<1>4. StillWaits(e, "destroy")
  BY <1>1, <1>3 DEF StillWaits, Working
<1> QED
  BY <1>2, <1>3, <1>4, MovePreserves DEF Working

\* A shell whose fork() finds no environment panics.
LEMMA ForkPanicPreserves == ASSUME IInv, NEW e \in Kids, Fork(e), ~Room, ShStays PROVE IInv'
<1>1. Chain /\ pc[e] = "fork" /\ At(e) = "fork" /\ UNCHANGED stackFaults
  BY DEF IInv, Fork, At, history
<1>2. Step(e, "panic", env[e])
  BY <1>1, GotoSteps DEF Fork, Chain
<1>3. Gone(env[e].right)
  BY <1>1 DEF Chain, EnvOK, RightOK, Parsing, Gone
<1>4. /\ "fork" \in Working \ (Making \cup Ending) /\ "panic" \in Others \ {"unborn"}
      /\ "panic" \notin Working \cup Making \cup Ending \cup Parsing \cup Choosing
  BY DEF Working, Others, Parsing, Choosing, Making, Ending
<1>5. StillWaits(e, "panic")
  BY <1>1, <1>3, <1>4 DEF StillWaits
<1> QED
  BY <1>1, <1>2, <1>4, <1>5, MovePreserves

LEMMA DestroyPreserves == ASSUME IInv, NEW e \in Kids, Destroy(e), ShStays PROVE IInv'
<1>1. Chain /\ At(e) = "destroy"
  BY DEF IInv, Destroy, At
<1>2. Step(e, "free", env[e])
  BY <1>1, GotoSteps DEF Destroy, Chain
<1>3. "destroy" \notin Working \cup {"free", "unborn"} /\ "free" \in Others \ {"unborn"}
  BY DEF Working, Others, Parsing, Choosing, Making, Ending
<1> QED
  BY <1>1, <1>2, <1>3, LeafPreserves DEF Destroy, history

LEMMA ProgramPreserves ==
    ASSUME IInv, NEW e \in Kids, ShStays,
           EchoWrites(e) \/ EchoEnds(e) \/ CatReads(e) \/ CatWrites(e) \/ OtherEnds(e)
    PROVE  IInv'
<1>1. Chain /\ pc[e] = "program" /\ At(e) = "program" /\ UNCHANGED stackFaults
  BY DEF IInv, At, EchoWrites, EchoEnds, CatReads, CatWrites, OtherEnds, Runs, history
<1>2. "program" \notin Working \cup {"free", "unborn"} /\ {"program", "panic"} \subseteq Others \ {"unborn"}
  BY DEF Working, Others, Parsing, Choosing, Making, Ending
<1>3. CASE Exit(e)
  BY <1>1, <1>2, <1>3, ExitPreserves DEF Making
<1>4. CASE Goto(e, "panic") /\ UNCHANGED env
  <2>1. Step(e, "panic", env[e])
    BY <1>1, <1>4, GotoSteps DEF Chain
  <2> QED
    BY <1>1, <1>2, <2>1, LeafPreserves
<1>5. ASSUME NEW x, Keeps(e, x), UNCHANGED pc, DOMAIN x = Fields,
             x.kid = env[e].kid, x.right = env[e].right, x.stage = env[e].stage
      PROVE  IInv'
  <2>1. Step(e, "program", x)
    BY <1>1, <1>5, KeepsSteps DEF Chain
  <2> QED
    BY <1>1, <1>2, <1>5, <2>1, LeafPreserves
<1>6. CASE EchoWrites(e)
  <2>1. UNCHANGED pc /\ \E x : x = [env[e] EXCEPT !.left = @ - 1] /\ Keeps(e, x)
    BY <1>6 DEF EchoWrites, Write, Wrote
  <2> QED
    BY <1>1, <1>5, <2>1, EnvFields DEF Kids, Fields
<1>7. CASE CatReads(e)
  <2>1. \/ Exit(e)
        \/ UNCHANGED pc /\ \E x : x = [env[e] EXCEPT !.carry = 1] /\ Keeps(e, x)
        \/ UNCHANGED pc /\ \E x : x = [env[e] EXCEPT !.carry = 1, !.left = @ - 1] /\ Keeps(e, x)
    BY <1>7 DEF CatReads
  <2> QED
    BY <1>1, <1>3, <1>5, <2>1, EnvFields DEF Kids, Fields
<1>8. CASE CatWrites(e)
  <2>1. \/ UNCHANGED pc /\ \E x : x = [env[e] EXCEPT !.carry = 0] /\ Keeps(e, x)
        \/ Goto(e, "panic") /\ UNCHANGED env
    BY <1>8 DEF CatWrites, Write
  <2> QED
    BY <1>1, <1>4, <1>5, <2>1, EnvFields DEF Kids, Fields
<1>9. CASE EchoEnds(e) \/ OtherEnds(e)
  BY <1>3, <1>9 DEF EchoEnds, OtherEnds
<1> QED
  BY <1>6, <1>7, <1>8, <1>9

(* The steps of a shell that runs commands, one environment at a time.     *)
LEMMA Places ==
    /\ Working \cap (Others \cup {"calls"}) = {} /\ "calls" \notin Others
    /\ Parsing \cap (Choosing \cup Making \cup Ending \cup {"wait right"}) = {}
    /\ Choosing \cap (Making \cup Ending \cup {"wait right"}) = {}
    /\ Making \cap (Ending \cup {"wait right"}) = {} /\ "wait right" \notin Ending
BY DEF Working, Others, Parsing, Choosing, Making, Ending

\* The private fields a step may change without a word to anybody.
Alike(x, y) == /\ DOMAIN x = Fields
               /\ x.kid = y.kid /\ x.right = y.right /\ x.stage = y.stage

LEMMA ParsePreserves ==
    ASSUME IInv, NEW e \in Kids, ShStays,
           Word(e) \/ Input0(e) \/ Output1(e) \/ EndOfString(e)
    PROVE  IInv'
<1>1. Chain /\ pc[e] = "parse" /\ At(e) = "parse" /\ UNCHANGED stackFaults
  BY DEF IInv, At, Word, Input0, Output1, Redirect, EndOfString, Parses, history
<1>2. env[e].kid = None /\ env[e].right = None
  BY <1>1 DEF Chain, EnvOK, KidOK, RightOK, Parsing
<1>3. "parse" \in Parsing /\ "parse" \in Working \ (Making \cup Ending) /\ "run" \in Working \ (Parsing \cup Making \cup Ending)
      /\ "run" \in Choosing
  BY DEF Working, Parsing, Choosing, Making, Ending
<1>4. CASE Exit(e)
  <2>1. Gone(env[e].kid) /\ Gone(env[e].right)
    BY <1>2 DEF Gone
  <2> QED
    BY <1>1, <1>3, <1>4, <2>1, ExitPreserves
<1>5. ASSUME NEW x, Keeps(e, x), UNCHANGED pc, Alike(x, env[e]) PROVE IInv'
  <2>1. Step(e, "parse", x)
    BY <1>1, <1>5, KeepsSteps DEF Chain, Alike
  <2>2. StillWaits(e, "parse")
    BY <1>1 DEF StillWaits
  <2> QED
    BY <1>1, <1>2, <1>3, <1>5, <2>1, <2>2, MovePreserves DEF Alike
<1>6. CASE Goto(e, "run") /\ UNCHANGED env
  <2>1. Step(e, "run", env[e])
    BY <1>1, <1>6, GotoSteps DEF Chain
  <2>2. StillWaits(e, "run")
    BY <1>1, <1>3 DEF StillWaits
  <2> QED
    BY <1>1, <1>2, <1>3, <2>1, <2>2, MovePreserves
<1>7. CASE Word(e)
  <2> DEFINE x == [env[e] EXCEPT !.argv = Append(@, env[e].ahead.word), !.ahead = Following(@)]
  <2>1. Exit(e) \/ (UNCHANGED pc /\ Keeps(e, x))
    BY <1>7 DEF Word
  <2>2. Alike(x, env[e])
    BY <1>1, EnvFields DEF Kids, Fields, Alike
  <2> HIDE DEF x
  <2> QED
    BY <1>4, <1>5, <2>1, <2>2
<1>8. CASE Input0(e) \/ Output1(e)
  <2>1. Exit(e) \/ (UNCHANGED pc /\ \E v : Keeps(e, [env[e] EXCEPT !.ahead = v]))
    <3>1. \A t, n, c : Redirect(e, t, n, c) =>
             Exit(e) \/ (UNCHANGED pc /\ \E v : Keeps(e, [env[e] EXCEPT !.ahead = v]))
      BY DEF Redirect
    <3> QED
      BY <1>8, <3>1 DEF Input0, Output1
  <2>2. ASSUME NEW v, UNCHANGED pc, Keeps(e, [env[e] EXCEPT !.ahead = v]) PROVE IInv'
    <3> DEFINE x == [env[e] EXCEPT !.ahead = v]
    <3>1. Alike(x, env[e]) /\ Keeps(e, x)
      BY <1>1, <2>2, EnvFields DEF Kids, Fields, Alike
    <3> HIDE DEF x
    <3> QED
      BY <1>5, <2>2, <3>1
  <2> QED
    BY <1>4, <2>1, <2>2
<1>9. CASE EndOfString(e)
  BY <1>6, <1>9 DEF EndOfString
<1> QED
  BY <1>7, <1>8, <1>9

LEMMA PipePreserves == ASSUME IInv, NEW e \in Kids, NoEmptyLeft, Pipe(e), ShStays PROVE IInv'
<1>1. Chain /\ pc[e] = "parse" /\ At(e) = "parse" /\ UNCHANGED stackFaults
  BY DEF IInv, At, Pipe, Parses, history
<1>2. env[e].argv # <<>>
  BY DEF NoEmptyLeft, Pipe, Kids
<1>3. PICK x, q : x = [env[e] EXCEPT !.p = q, !.ahead = Following(@)] /\ Keeps(e, x) /\ Goto(e, "fork")
  BY DEF Pipe
<1>4. Alike(x, env[e]) /\ x.argv = env[e].argv
  BY <1>1, <1>3, EnvFields DEF Kids, Fields, Alike
<1>5. Step(e, "fork", x)
  BY <1>1, <1>3, <1>4, ChangeSteps DEF Chain, Alike
<1>6. {"parse", "fork"} \subseteq Working \ (Making \cup Ending) /\ {"parse", "fork"} \subseteq Parsing
  BY DEF Working, Parsing, Making, Ending
<1>7. StillWaits(e, "fork")
  BY <1>1, <1>6 DEF StillWaits
<1> QED
  BY <1>1, <1>2, <1>4, <1>5, <1>6, <1>7, MovePreserves DEF Alike

LEMMA RunPreserves ==
    ASSUME IInv, NEW e \in Kids, ShStays,
           Run(e) \/ SpawnOpen(e) \/ (Exofork(e) /\ ~Room)
    PROVE  IInv'
<1>1. Chain /\ pc[e] \in {"run", "spawn", "exofork"} /\ At(e) = pc[e] /\ UNCHANGED stackFaults
  BY DEF IInv, At, Run, SpawnOpen, Exofork, history
<1>2. env[e].kid = None /\ Gone(env[e].kid)
  BY <1>1 DEF Chain, EnvOK, KidOK, Choosing, Gone
<1>3. /\ {"run", "spawn", "exofork"} \subseteq Working \ (Making \cup Ending)
      /\ {"run", "spawn", "exofork"} \subseteq Choosing /\ "wait kid" \in Working \ (Making \cup Parsing \cup Choosing)
      /\ {"spawn", "exofork"} \cap Parsing = {} /\ "wait kid" \in Ending
  BY DEF Working, Parsing, Choosing, Making, Ending
<1>4. CASE Exit(e) /\ Gone(env[e].right)
  BY <1>1, <1>2, <1>3, <1>4, ExitPreserves
<1>5. ASSUME NEW l \in {"spawn", "exofork", "wait kid"}, NEW x, Step(e, l, x), Alike(x, env[e]),
             x.argv = env[e].argv
      PROVE  IInv'
  <2>1. StillWaits(e, l)
    BY <1>1, <1>2, <1>3, <1>5 DEF StillWaits
  <2> QED
    BY <1>1, <1>2, <1>3, <1>5, <2>1, MovePreserves DEF Alike
<1>6. DOMAIN env[e] = Fields /\ Alike(env[e], env[e])
  BY <1>1, EnvFields DEF Kids, Alike
<1>7. ASSUME GivesUp(e) PROVE IInv'
  <2>1. Step(e, "wait kid", env[e])
    BY <1>1, <1>6, <1>7, CallAllSteps DEF GivesUp, CloseAll, Chain
  <2> QED
    BY <1>5, <1>6, <1>7, <2>1
<1>8. CASE Run(e)
  <2>1. CASE env[e].argv = <<>>
    <3>1. Gone(env[e].right)
      BY <1>1, <1>3, <2>1 DEF Chain, EnvOK, RightOK, Gone
    <3> QED
      BY <1>4, <1>8, <2>1, <3>1 DEF Run
  <2>2. CASE env[e].argv # <<>>
    <3>1. pc[e] = "run" /\ Goto(e, "spawn") /\ UNCHANGED env
      BY <1>8, <2>2 DEF Run
    <3>2. Step(e, "spawn", env[e])
      BY <1>1, <3>1, GotoSteps DEF Chain
    <3> QED
      BY <1>5, <1>6, <3>1, <3>2
  <2> QED
    BY <2>1, <2>2
<1>9. CASE SpawnOpen(e)
  <2>1. pc[e] = "spawn" /\ (GivesUp(e) \/ \E x, q : x = [env[e] EXCEPT !.p = q] /\ Keeps(e, x) /\ Goto(e, "exofork"))
    BY <1>9 DEF SpawnOpen
  <2>2. ASSUME NEW x, NEW q, x = [env[e] EXCEPT !.p = q], Keeps(e, x), Goto(e, "exofork") PROVE IInv'
    <3>1. Alike(x, env[e]) /\ x.argv = env[e].argv
      BY <1>6, <2>2 DEF Fields, Alike
    <3>2. Step(e, "exofork", x)
      BY <1>1, <2>2, <3>1, ChangeSteps DEF Chain, Alike
    <3> QED
      BY <1>5, <2>1, <3>1, <3>2
  <2> QED
    BY <1>7, <2>1, <2>2
<1>10. CASE Exofork(e) /\ ~Room
  BY <1>7, <1>10 DEF Exofork
<1> QED
  BY <1>8, <1>9, <1>10

LEMMA WaitPreserves ==
    ASSUME IInv, NEW e \in Kids, ShStays, CloseForKid(e) \/ WaitKid(e) \/ WaitRight(e)
    PROVE  IInv'
<1>1. Chain /\ pc[e] \in {"close all", "wait kid", "wait right"} /\ At(e) = pc[e] /\ UNCHANGED stackFaults
  BY DEF IInv, At, CloseForKid, WaitKid, WaitRight, history
<1>2. /\ {"close all", "wait kid", "wait right"} \subseteq Working \ (Parsing \cup Choosing \cup Making)
      /\ {"close all", "wait kid"} \subseteq Ending /\ "wait right" \notin Ending
  BY DEF Working, Parsing, Choosing, Making, Ending
<1>3. DOMAIN env[e] = Fields
  BY <1>1, EnvFields DEF Kids
<1>4. CASE CloseForKid(e)
  <2>1. pc[e] = "close all" /\ Step(e, "wait kid", env[e])
    BY <1>1, <1>3, <1>4, CallAllSteps DEF CloseForKid, GivesUp, CloseAll, Chain
  <2>2. StillWaits(e, "wait kid")
    BY <1>1, <1>2, <2>1 DEF StillWaits
  <2> QED
    BY <1>1, <1>2, <2>1, <2>2, MovePreserves
<1>5. CASE WaitKid(e)
  <2>1. pc[e] = "wait kid" /\ Gone(env[e].kid) /\ Step(e, "wait right", env[e])
    BY <1>1, <1>5, GotoSteps DEF WaitKid, Chain
  <2>2. StillWaits(e, "wait right")
    BY <1>1, <1>2, <2>1 DEF StillWaits
  <2> QED
    BY <1>1, <1>2, <2>1, <2>2, MovePreserves
<1>6. CASE WaitRight(e)
  <2>1. pc[e] = "wait right" /\ Gone(env[e].right) /\ Exit(e)
    BY <1>6 DEF WaitRight
  <2>2. Gone(env[e].kid)
    BY <1>1, <2>1 DEF Chain, EnvOK, KidOK
  <2> QED
    BY <1>1, <1>2, <2>1, <2>2, ExitPreserves
<1> QED
  BY <1>4, <1>5, <1>6

LEMMA SpawnPreserves ==
    ASSUME IInv, NEW e \in Kids, NEW l, ShStays, UNCHANGED <<env, stackFaults>>, Goto(e, l),
           \/ pc[e] = "stack" /\ l = "segments"
           \/ pc[e] = "segments" /\ l = "share"
           \/ pc[e] = "share" /\ l = "start"
    PROVE  IInv'
<1>1. Chain /\ At(e) = pc[e] /\ {At(e), l} \subseteq Making /\ l # "calls" /\ pc[e] \notin {"free", "unborn"}
  BY DEF IInv, At, Making
<1>2. Making \subseteq Working \ (Parsing \cup Choosing \cup Ending \cup {"wait right", "fork"}) /\ "unborn" \notin Making
  BY DEF Working, Parsing, Choosing, Making, Ending
<1>3. Step(e, l, env[e])
  BY <1>1, GotoSteps DEF Chain
<1>4. StillWaits(e, l)
  BY <1>1, <1>2 DEF StillWaits
<1> QED
  BY <1>1, <1>2, <1>3, <1>4, MovePreserves

------------------------------------------------------------------------------
(* spawn() and its child: the child is started, destroyed or forgotten.    *)
LEMMA ChildOf ==
    ASSUME Chain, NEW e \in Kids, At(e) \in Making
    PROVE  /\ env[e].kid \in Kids \ {e} /\ pc[env[e].kid] = "unborn" /\ At(env[e].kid) = "unborn"
           /\ \A p \in Kids \ {e} : ~Makes(p, env[e].kid)
<1>1. env[e].kid \in Kids /\ pc[env[e].kid] = "unborn"
  BY DEF Chain, EnvOK, KidOK
<1>2. At(env[e].kid) = "unborn"
  BY <1>1 DEF At
<1> QED
  BY <1>1, <1>2 DEF Chain, KidsDiffer, Makes, Making

\* The step that ends the making of c.
Leaves(e, c, l) ==
    /\ DOMAIN pc' = Ids /\ DOMAIN env' = Ids
    /\ \A f \in Ids \ {e, c} : pc'[f] = pc[f] /\ env'[f] = env[f]
    /\ \A f \in {e, c} : /\ DOMAIN env'[f] = Fields /\ env'[f].right = env[f].right
                          /\ env'[f].stage = env[f].stage /\ env'[f].argv = env[f].argv
    /\ env'[c].kid = env[c].kid /\ env'[e].kid \in {c, None}
    /\ At(e)' = l /\ l \in Ending
    /\ pc'[c] \in {"unborn", "free"} \/ (pc'[c] = "program" /\ env'[e].kid = c)

LEMMA LeavesFacts ==
    ASSUME Chain, NEW e \in Kids, NEW l, NEW c, c = env[e].kid, At(e) \in Making, Leaves(e, c, l)
    PROVE  /\ \A f \in Ids : /\ env'[f].stage = env[f].stage /\ env'[f].right = env[f].right
                             /\ env'[f].argv = env[f].argv /\ DOMAIN env'[f] = Fields
           /\ \A f \in Ids \ {e} : env'[f].kid = env[f].kid
           /\ \A f \in Ids \ {e, c} : pc'[f] = pc[f] /\ At(f)' = At(f)
           /\ At(c)' = pc'[c]
<1> USE ShIsNoKid
<1>1. c \in Kids \ {e}
  BY ChildOf
<1>2. \A f \in Ids \ {e, c} : pc'[f] = pc[f] /\ env'[f] = env[f]
  BY <1>1 DEF Leaves
<1>3. \A f \in Ids : /\ env'[f].stage = env[f].stage /\ env'[f].right = env[f].right
                     /\ env'[f].argv = env[f].argv /\ DOMAIN env'[f] = Fields
  BY <1>1, <1>2, EnvFields DEF Leaves
<1>4. \A f \in Ids \ {e} : env'[f].kid = env[f].kid
  BY <1>1, <1>2 DEF Leaves
<1>5. \A f \in Ids \ {e, c} : At(f)' = At(f)
  BY <1>2 DEF At
<1>6. At(c)' = pc'[c]
  BY <1>1 DEF Leaves, At
<1> QED
  BY <1>1, <1>2, <1>3, <1>4, <1>5, <1>6

LEMMA LeavesChain ==
    ASSUME Chain, ShStays, stackFaults' \in Nat, NEW e \in Kids, NEW l, NEW c, c = env[e].kid,
           At(e) \in Making, Leaves(e, c, l)
    PROVE  Chain'
<1> USE ShIsNoKid
<1>1. c \in Kids \ {e} /\ c = env[e].kid /\ pc[c] = "unborn" /\ At(c) = "unborn" /\ ~Gone(c)
  BY ChildOf DEF Gone
<1>2. /\ \A f \in Ids : env'[f].stage = env[f].stage /\ env'[f].right = env[f].right /\ env'[f].argv = env[f].argv
      /\ \A f \in Ids \ {e} : env'[f].kid = env[f].kid
      /\ \A f \in Ids \ {e, c} : pc'[f] = pc[f] /\ At(f)' = At(f)
      /\ At(c)' = pc'[c] /\ At(e)' = l /\ env'[e].kid \in {c, None}
  BY <1>1, LeavesFacts DEF Leaves
<1>3. l \in Ending /\ l \in Working \ (Parsing \cup Choosing \cup Making \cup {"wait right", "fork"})
      /\ At(e) \in Working \ (Others \cup Ending)
  BY DEF Leaves, Ending, Working, Parsing, Choosing, Making, Others
<1>4. At(c)' \in Others \ Working /\ At(c) \notin Working
  BY <1>1, <1>2 DEF Leaves, Others, Working, Parsing, Choosing, Making, Ending
<1>5. TypeOK'
  BY <1>1, <1>2, LeavesFacts DEF Leaves, Chain, TypeOK, ShStays
<1>6. ShOK'
  <2>1. env'[sh].kid = env[sh].kid /\ pc'[sh] = pc[sh] /\ (pc[sh] = "wait line" => env[sh].kid \in Ids)
    BY <1>1, <1>2 DEF Chain, ShOK
  <2>2. pc[sh] = "wait line" => env[sh].kid \in Kids /\ env'[env[sh].kid].stage = 1
    BY <1>2, <2>1 DEF Chain, ShOK
  <2> QED
    BY <2>1, <2>2 DEF Chain, ShOK, ShStays
<1>7. KidsDiffer'
  <2>1. \A f \in Kids : At(f)' \in Making => f \in Kids \ {e, c} /\ At(f)' = At(f) /\ env'[f].kid = env[f].kid
    BY <1>2, <1>3, <1>4 DEF Working
  <2> QED
    BY <2>1 DEF Chain, KidsDiffer
<1>8. EnvOK(e)'
  <2>1. EnvOK(e)
    BY DEF Chain
  <2>2. KidOK(e)'
    <3>1. env'[c].stage = env'[e].stage
      BY <1>1, <1>2, <1>3, <2>1, ZenonT(60) DEF EnvOK, KidOK
    <3> QED
      BY <1>1, <1>2, <1>3, <3>1 DEF KidOK
  <2>3. RightOK(e)'
    <3>1. env[e].right # None =>
             env[e].right \in Kids /\ env[env[e].right].stage = env[e].stage + 1 /\ env[e].argv # <<>>
      BY <1>3, <2>1 DEF EnvOK, RightOK
    <3> QED
      BY ZenonT(30), <1>2, <1>3, <3>1 DEF RightOK
  <2>4. pc[e] # "free"
    BY <1>3 DEF At, Others
  <2>5. l # "unborn"
    BY DEF Leaves, Ending
  <2> QED
    BY <1>2, <1>3, <2>1, <2>2, <2>3, <2>4, <2>5 DEF EnvOK
<1>9. EnvOK(c)'
  <2>1. EnvOK(c)
    BY <1>1 DEF Chain
  <2> QED
    BY <1>1, <1>2, <1>4, <2>1 DEF EnvOK, KidOK, RightOK, Working, Parsing
<1>10. ASSUME NEW f \in Kids \ {e, c} PROVE EnvOK(f)'
  <2>1. EnvOK(f) /\ pc'[f] = pc[f] /\ At(f)' = At(f) /\ env'[f].kid = env[f].kid
    BY <1>2 DEF Chain
  <2>2. At(f) \in Making => env[f].kid # c
    BY <1>1, ChildOf DEF Makes
  <2>3. At(f) \in Making => env[f].kid \in Kids /\ pc'[env[f].kid] = "unborn"
    <3>1. At(f) \in Making => env[f].kid \in Kids /\ pc[env[f].kid] = "unborn" /\ env[f].kid # e
      BY <1>3, <2>1 DEF EnvOK, KidOK, At, Others
    <3> QED
      BY <1>2, <2>2, <3>1
  <2>4. At(f) = "wait right" => Gone(env[f].kid)'
    <3>1. At(f) = "wait right" => Gone(env[f].kid) /\ (env[f].kid # None => env[f].kid \in Kids)
      BY <2>1 DEF EnvOK, KidOK, Working
    <3>2. ~Gone(e)
      BY <1>3 DEF Gone, At, Others
    <3> QED
      BY <1>1, <1>2, <2>1, <3>1, <3>2 DEF Gone
  <2>5. At(f) \in Working /\ env[f].kid # None => env[f].kid \in Kids /\ env'[env[f].kid].stage = env'[f].stage
    BY <1>2, <2>1 DEF EnvOK, KidOK
  <2>6. KidOK(f)'
    BY <2>1, <2>3, <2>4, <2>5 DEF EnvOK, KidOK
  <2>7. RightOK(f)'
    BY <1>2, <2>1 DEF EnvOK, RightOK
  <2> QED
    BY <1>2, <2>1, <2>6, <2>7 DEF EnvOK
<1>11. ASSUME NEW f \in Kids, pc'[f] \notin {"free", "unborn"} PROVE \E p \in Ids : WaitsFor(p, f)'
  <2>1. CASE f = c
    <3>1. env'[e].kid = c
      BY <1>1, <1>11, <2>1 DEF Leaves
    <3>2. WaitsFor(e, c)'
      BY <1>2, <1>3, <1>4, <3>1 DEF WaitsFor
    <3> QED
      BY <2>1, <3>2
  <2>2. CASE f # c
    <3>1. pc[f] \notin {"free", "unborn"}
      BY <1>2, <1>3, <1>11, <2>2 DEF At, Others
    <3>2. PICK p \in Ids : WaitsFor(p, f)
      BY <3>1 DEF Chain, Waited
    <3>3. At(f)' \in Working <=> At(f) \in Working
      BY <1>2, <1>3, <2>2
    <3>4. p # c
      BY <1>1, <1>4, <3>2 DEF WaitsFor, Working
    <3>5. CASE p = e
      BY <1>2, <1>3, <3>2, <3>5 DEF WaitsFor
    <3>6. CASE p # e
      BY <1>2, <3>2, <3>3, <3>4, <3>6 DEF WaitsFor
    <3> QED
      BY <3>5, <3>6
  <2> QED
    BY <2>1, <2>2
<1> QED
  BY <1>5, <1>6, <1>7, <1>8, <1>9, <1>10, <1>11 DEF Chain, Waited

LEMMA AbandonedFinite == IsFiniteSet(Abandoned)
<1>1. IsFiniteSet(Ids)
  BY IdsAssumption, FS_Interval DEF Ids
<1>2. Abandoned \subseteq Ids
  BY DEF Abandoned, Kids
<1> QED
  BY <1>1, <1>2, FS_Subset

LEMMA LeavesAbandoned ==
    ASSUME Chain, NEW e \in Kids, NEW l, NEW c, c = env[e].kid, At(e) \in Making, Leaves(e, c, l)
    PROVE  Abandoned' = Abandoned \cup {x \in {c} : pc'[c] = "unborn"} /\ c \notin Abandoned
<1> USE ShIsNoKid
<1>1. c \in Kids \ {e} /\ pc[c] = "unborn" /\ At(c) = "unborn" /\ \A p \in Kids \ {e} : ~Makes(p, c)
  BY ChildOf
<1>2. /\ \A f \in Ids \ {e} : env'[f].kid = env[f].kid
      /\ \A f \in Ids \ {e, c} : pc'[f] = pc[f] /\ At(f)' = At(f)
      /\ At(c)' = pc'[c] /\ At(e)' = l
  BY LeavesFacts DEF Leaves
<1>3. l \notin Making /\ pc'[c] \notin Making /\ pc[e] # "unborn" /\ "unborn" \notin Making
  BY DEF Leaves, Making, Ending, At
<1>4. pc'[e] # "unborn"
  BY <1>2 DEF Leaves, Ending, At
<1>5. \A f \in Kids : (\E p \in Kids : Makes(p, f)') <=> (\E p \in Kids \ {e} : Makes(p, f))
  BY <1>1, <1>2, <1>3 DEF Makes
<1>6. \A f \in Kids \ {c} : (\E p \in Kids : Makes(p, f)) <=> (\E p \in Kids \ {e} : Makes(p, f))
  BY DEF Makes
<1>7. \A f \in Kids \ {c} : f \in Abandoned' <=> f \in Abandoned
  BY <1>2, <1>3, <1>4, <1>5, <1>6 DEF Abandoned
<1>8. c \in Abandoned' <=> pc'[c] = "unborn"
  BY <1>1, <1>5 DEF Abandoned
<1>9. c \notin Abandoned
  BY DEF Abandoned, Makes
<1>10. Abandoned \subseteq Kids /\ Abandoned' \subseteq Kids
  BY DEF Abandoned
<1> QED
  BY <1>7, <1>8, <1>9, <1>10

LEMMA InitStackPreserves == ASSUME IInv, NEW e \in Kids, InitStack(e), ShStays PROVE IInv'
<1>1. Chain /\ pc[e] = "stack" /\ At(e) = "stack" /\ At(e) \in Making
  BY DEF IInv, InitStack, At, Making
<1>2. CASE Goto(e, "segments") /\ UNCHANGED <<env, faults, stackFaults>>
  BY <1>1, <1>2, SpawnPreserves
<1>3. CASE stackFaults' = stackFaults + 1 /\ CloseAll(e, [env[e] EXCEPT !.kid = None], "wait kid")
  <2> DEFINE x == [env[e] EXCEPT !.kid = None]
             c == env[e].kid
  <2>1. DOMAIN x = Fields /\ x.kid = None /\ x.right = env[e].right /\ x.stage = env[e].stage /\ x.argv = env[e].argv
    BY <1>1, EnvFields DEF Kids, Fields
  <2>2. CallAll(e, x, [n \in DOMAIN OpenFds(e) |-> Close(OpenFds(e)[n])], "wait kid")
    BY <1>3 DEF CloseAll
  <2>3. Step(e, "wait kid", x)
    <3> HIDE DEF x
    <3> QED
      BY <1>1, <2>1, <2>2, CallAllSteps DEF Chain
  <2>4. c \in Kids \ {e} /\ pc[c] = "unborn"
    BY <1>1, ChildOf
  <2>5. Leaves(e, c, "wait kid") /\ pc'[c] = "unborn"
    <3> HIDE DEF x, c
    <3> QED
      BY <1>1, <2>1, <2>3, <2>4, EnvFields DEF Step, Leaves, Kids, Ending
  <2>6. stackFaults' \in Nat
    <3>1. stackFaults \in Nat
      BY <1>1 DEF Chain, TypeOK
    <3>2. stackFaults' = stackFaults + 1
      BY <1>3
    <3> QED
      BY <3>1, <3>2
  <2>7. Chain'
    BY <1>1, <2>5, <2>6, LeavesChain
  <2>8. Abandoned' = Abandoned \cup {c} /\ c \notin Abandoned
    BY <1>1, <2>5, LeavesAbandoned
  <2>9. Cardinality(Abandoned') = Cardinality(Abandoned) + 1
    BY <2>8, AbandonedFinite, FS_AddElement
  <2> QED
    BY <1>3, <2>7, <2>9 DEF IInv
<1> QED
  BY <1>2, <1>3 DEF InitStack

LEMMA MapSegmentsPreserves == ASSUME IInv, NEW e \in Kids, MapSegments(e), ShStays PROVE IInv'
<1>1. Chain /\ pc[e] = "segments" /\ At(e) = "segments" /\ At(e) \in Making /\ UNCHANGED stackFaults
  BY DEF IInv, MapSegments, At, Making
<1>2. CASE Goto(e, "share") /\ UNCHANGED env
  BY <1>1, <1>2, SpawnPreserves
<1>3. CASE /\ pc' = [pc EXCEPT ![e] = "close all", ![env[e].kid] = "free"]
           /\ Keeps(e, [env[e] EXCEPT !.kid = None])
  <2> DEFINE x == [env[e] EXCEPT !.kid = None]
             c == env[e].kid
  <2>1. DOMAIN x = Fields /\ x.kid = None /\ x.right = env[e].right /\ x.stage = env[e].stage /\ x.argv = env[e].argv
    BY <1>1, EnvFields DEF Kids, Fields
  <2>2. c \in Kids \ {e} /\ c \in Ids /\ e \in Ids
    BY <1>1, ChildOf DEF Kids
  <2>3. DOMAIN pc = Ids /\ DOMAIN env = Ids /\ pc' = [pc EXCEPT ![e] = "close all", ![c] = "free"] /\ env' = [env EXCEPT ![e] = x]
    BY <1>1, <1>3 DEF Keeps, Chain, TypeOK
  <2>4. Leaves(e, c, "close all") /\ pc'[c] = "free"
    <3> HIDE DEF x, c
    <3> QED
      BY <1>1, <2>1, <2>2, <2>3, EnvFields DEF Leaves, Ending, At
  <2>5. Chain'
    BY <1>1, <2>4, LeavesChain DEF Chain, TypeOK
  <2>6. Abandoned' = Abandoned
    BY <1>1, <2>4, LeavesAbandoned
  <2> QED
    BY <1>1, <2>5, <2>6 DEF IInv
<1> QED
  BY <1>2, <1>3 DEF MapSegments

LEMMA StartPreserves == ASSUME IInv, NEW e \in Kids, Start(e), ShStays PROVE IInv'
<1> DEFINE c == env[e].kid
           y == [env[c] EXCEPT !.left = OutLen]
<1>1. Chain /\ pc[e] = "start" /\ At(e) = "start" /\ At(e) \in Making /\ UNCHANGED stackFaults
  BY DEF IInv, Start, At, Making, history
<1>2. c \in Kids \ {e} /\ c \in Ids /\ e \in Ids
  BY <1>1, ChildOf DEF Kids
<1>3. DOMAIN y = Fields /\ y.kid = env[c].kid /\ y.right = env[c].right /\ y.stage = env[c].stage /\ y.argv = env[c].argv
  BY <1>1, <1>2, EnvFields DEF Fields
<1>4. DOMAIN pc = Ids /\ DOMAIN env = Ids /\ pc' = [pc EXCEPT ![e] = "close all", ![c] = "program"] /\ env' = [env EXCEPT ![c] = y]
  BY <1>1 DEF Start, Chain, TypeOK
<1>5. Leaves(e, c, "close all") /\ pc'[c] = "program"
  <2>1. env'[e] = env[e] /\ env'[e].kid = c
    BY <1>2, <1>4
  <2> HIDE DEF y, c
  <2> QED
    BY <1>1, <1>2, <1>3, <1>4, <2>1, EnvFields DEF Leaves, Ending, At
<1>6. Chain'
  BY <1>1, <1>5, LeavesChain DEF Chain, TypeOK
<1>7. Abandoned' = Abandoned
  BY <1>1, <1>5, LeavesAbandoned
<1> QED
  BY <1>1, <1>6, <1>7 DEF IInv

------------------------------------------------------------------------------
(* A new environment c of e, which is the shell that reads the lines or one *)
(* that runs commands: e has not been waiting for anybody yet.              *)
Bears(e, c) ==
    /\ DOMAIN pc' = Ids /\ DOMAIN env' = Ids /\ DOMAIN env'[e] = Fields /\ DOMAIN env'[c] = Fields
    /\ \A f \in Ids \ {e, c} : pc'[f] = pc[f] /\ env'[f] = env[f]
    /\ env'[c].kid = None /\ env'[c].right = None /\ env'[c].stage \in Nat \ {0}
    /\ At(c)' = "parse" \/ pc'[c] = "unborn"
    /\ env'[e].stage = env[e].stage
    /\ IF e = sh THEN pc[e] = "fork line"
       ELSE /\ At(e) \in {"fork", "exofork"} /\ At(e)' \in {"run", "stack"}
            /\ env[e].right # None => env'[e].right = env[e].right

LEMMA WorkingLives == \A e : At(e) \in Working => pc[e] \notin Others /\ At(e) \notin Others
BY DEF At, Working, Parsing, Choosing, Making, Ending, Others

LEMMA BearsOthers ==
    ASSUME Chain, NEW e \in Ids, NEW c \in Kids \ {e}, pc[c] = "free", env[c].stage = 0, Bears(e, c)
    PROVE  /\ \A f \in Kids \ {e, c} : EnvOK(f)' /\ At(f)' = At(f) /\ (At(f) \in Making => env[f].kid # c)
           /\ \A f \in Kids \ {c} : Waited(f)'
           /\ At(c)' \in {"parse", "unborn"} /\ pc'[c] # "free"
           /\ \A f \in Ids \ {c} : env'[f].stage = env[f].stage
<1> USE ShIsNoKid
<1>1. \A f \in Ids \ {e, c} : pc'[f] = pc[f] /\ env'[f] = env[f] /\ At(f)' = At(f)
  BY DEF Bears, At
<1>2. \A f \in Ids \ {c} : env'[f].stage = env[f].stage
  BY <1>1 DEF Bears
<1>3. At(c)' \in {"parse", "unborn"} /\ pc'[c] # "free"
  BY DEF Bears, At
<1>4. e \in Kids => At(e) \in Working \ (Making \cup Ending) /\ At(e)' \in Working \ Ending
  BY DEF Bears, Working, Parsing, Choosing, Making, Ending, Kids
<1>5. pc[e] \notin {"free", "unborn"}
  BY <1>4, Places DEF Bears, Kids, At, Others
<1>6. ASSUME NEW f \in Kids \ {e, c}
      PROVE  EnvOK(f)' /\ (At(f) \in Making => env[f].kid # c)
  <2>1. EnvOK(f) /\ pc'[f] = pc[f] /\ env'[f] = env[f] /\ At(f)' = At(f)
    BY <1>1 DEF Chain
  <2>2. At(f) \in Working => env[f].stage \in Nat \ {0}
    <3>1. env[f].stage \in Nat
      BY DEF Chain, TypeOK
    <3>2. At(f) \in Working => pc[f] # "free"
      BY WorkingLives DEF Others
    <3> QED
      BY <2>1, <3>1, <3>2 DEF EnvOK
  <2>3. At(f) \in Working => env[f].kid # c /\ env[f].right # c
    <3>1. At(f) \in Working => env[f].stage # 0 /\ env[f].stage + 1 # 0
      BY <2>2
    <3> QED
      BY <2>1, <3>1 DEF EnvOK, KidOK, RightOK
  <2>4. At(f) \in Making => env[f].kid \in Kids \ {c} /\ pc'[env[f].kid] = "unborn"
    <3>1. At(f) \in Making => env[f].kid \in Kids \ {e, c} /\ pc[env[f].kid] = "unborn"
      BY <1>5, <2>1, <2>3 DEF EnvOK, KidOK, Working
    <3> QED
      BY <1>1, <3>1
  <2>5. At(f) \in Working /\ env[f].kid # None => env[f].kid \in Kids /\ env'[env[f].kid].stage = env'[f].stage
    BY <1>2, <2>1, <2>3 DEF EnvOK, KidOK
  <2>6. At(f) = "wait right" => Gone(env[f].kid)'
    <3>1. At(f) = "wait right" => Gone(env[f].kid) /\ (env[f].kid # None => env[f].kid \in Kids \ {c})
      BY <2>1, <2>3 DEF EnvOK, KidOK, Working
    <3>2. ~Gone(e)
      BY <1>5 DEF Gone
    <3> QED
      BY <1>1, <2>1, <3>1, <3>2 DEF Gone
  <2>7. KidOK(f)'
    BY <2>1, <2>4, <2>5, <2>6 DEF EnvOK, KidOK
  <2>8. RightOK(f)'
    BY <1>2, <2>1, <2>3 DEF EnvOK, RightOK
  <2> QED
    BY <1>2, <2>1, <2>4, <2>7, <2>8, <2>3 DEF EnvOK, Working
<1>7. ASSUME NEW f \in Kids \ {c}, pc'[f] \notin {"free", "unborn"} PROVE \E p \in Ids : WaitsFor(p, f)'
  <2>1. pc[f] \notin {"free", "unborn"}
    BY <1>1, <1>5, <1>7
  <2>2. PICK p \in Ids : WaitsFor(p, f)
    BY <2>1 DEF Chain, Waited
  <2>3. At(f) \in Working <=> At(f)' \in Working
    BY <1>1, <1>4
  <2>4. p # c
    <3>1. c # sh /\ At(c) \notin Working
      BY WorkingLives DEF Others
    <3> QED
      BY <2>2, <3>1 DEF WaitsFor, Working
  <2>5. CASE p # e
    BY <1>1, <2>2, <2>3, <2>4, <2>5 DEF WaitsFor
  <2>6. CASE p = e
    <3>1. e \in Kids /\ env[e].right = f
      BY <1>4, <2>2, <2>6 DEF WaitsFor, Bears, Kids
    <3> QED
      BY <1>4, <3>1 DEF WaitsFor, Bears
  <2> QED
    BY <2>5, <2>6
<1> QED
  BY <1>1, <1>2, <1>3, <1>6, <1>7 DEF Waited

LEMMA BearsSh ==
    ASSUME Chain, ShStays, NEW e \in Kids, NEW c \in Kids \ {e}, pc[c] = "free", env[c].stage = 0, Bears(e, c)
    PROVE  ShOK'
<1>1. pc'[sh] = pc[sh] /\ env'[sh] = env[sh]
  BY ShIsNoKid DEF Bears
<1>2. \A f \in Ids \ {c} : env'[f].stage = env[f].stage
  BY ShIsNoKid, BearsOthers
<1>3. ASSUME pc[sh] = "wait line" PROVE env[sh].kid \in Kids \ {c} /\ env'[env[sh].kid].stage = 1
  <2>1. env[sh].kid \in Kids /\ env[env[sh].kid].stage = 1
    BY <1>3 DEF Chain, ShOK
  <2>2. env[sh].kid \in Ids \ {c}
    BY <2>1, ShIsNoKid
  <2> QED
    BY <1>2, <2>1, <2>2
<1> QED
  BY <1>1, <1>3 DEF Chain, ShOK, ShStays

\* The other half: what the step says of e and c themselves.
LEMMA BearsChain ==
    ASSUME Chain, ShStays, UNCHANGED stackFaults,
           NEW e \in Ids, NEW c \in Kids \ {e}, pc[c] = "free", env[c].stage = 0, Bears(e, c),
           WaitsFor(e, c)' \/ pc'[c] = "unborn", ShOK', e \in Kids => EnvOK(e)',
           e \in Kids /\ At(e)' \in Making => env'[e].kid = c
    PROVE  Chain'
<1> USE ShIsNoKid
<1>1. /\ \A f \in Kids \ {e, c} : EnvOK(f)' /\ At(f)' = At(f) /\ (At(f) \in Making => env[f].kid # c)
      /\ \A f \in Kids \ {c} : Waited(f)'
      /\ At(c)' \in {"parse", "unborn"} /\ pc'[c] # "free"
      /\ \A f \in Ids \ {c} : env'[f].stage = env[f].stage
  BY BearsOthers
<1>2. \A f \in Ids \ {e, c} : env'[f] = env[f]
  BY DEF Bears
<1>3. TypeOK'
  BY <1>1, <1>2 DEF Bears, Chain, TypeOK, ShStays
<1>4. EnvOK(c)'
  <2>1. env'[c].kid = None /\ env'[c].right = None /\ env'[c].stage \in Nat \ {0}
    BY DEF Bears
  <2>2. At(c)' = "unborn" => pc'[c] = "unborn"
    BY DEF Bears, At
  <2>3. {"parse", "unborn"} \subseteq Working \cup Others
        /\ {"parse", "unborn"} \cap (Making \cup {"wait right", "fork"}) = {}
    BY DEF Working, Others, Parsing, Making
  <2>4. env'[c].stage >= 1
    BY <2>1
  <2> QED
    BY <1>1, <2>1, <2>2, <2>3, <2>4 DEF EnvOK, KidOK, RightOK
<1>5. Waited(c)'
  BY DEF Waited
<1>6. KidsDiffer'
  <2>1. At(c)' \notin Making
    BY <1>1 DEF Making
  <2>2. ASSUME NEW f \in Kids, At(f)' \in Making
        PROVE  \/ f = e /\ env'[f].kid = c
               \/ f # e /\ At(f) \in Making /\ env'[f].kid = env[f].kid /\ env[f].kid # c
    BY <1>1, <1>2, <2>1, <2>2
  <2> QED
    BY <2>2 DEF Chain, KidsDiffer
<1> QED
  BY <1>1, <1>3, <1>4, <1>5, <1>6 DEF Chain

LEMMA BearsAbandoned ==
    ASSUME Chain, NEW e \in Ids, NEW c \in Kids \ {e}, pc[c] = "free", env[c].stage = 0, Bears(e, c),
           pc[e] # "unborn", pc'[e] # "unborn",
           pc'[c] = "unborn" => e \in Kids /\ Makes(e, c)',
           e \in Kids /\ At(e)' \in Making => env'[e].kid = c, e \in Kids => At(e) \notin Making
    PROVE  Abandoned' = Abandoned
<1> USE ShIsNoKid
<1>1. /\ \A f \in Kids \ {e, c} : At(f)' = At(f) /\ (At(f) \in Making => env[f].kid # c)
      /\ At(c)' \in {"parse", "unborn"}
  BY BearsOthers
<1>2. \A f \in Ids \ {e, c} : env'[f] = env[f] /\ pc'[f] = pc[f]
  BY DEF Bears
<1>3. At(c)' \notin Making /\ At(c) \notin Making
  BY <1>1 DEF Making, At
<1>4. \A f \in Kids \ {c} : (\E p \in Kids : Makes(p, f)') <=> (\E p \in Kids : Makes(p, f))
  BY <1>1, <1>2, <1>3 DEF Makes
<1>5. \A f \in Kids \ {c} : f \in Abandoned' <=> f \in Abandoned
  BY <1>2, <1>4 DEF Abandoned
<1>6. c \notin Abandoned /\ c \notin Abandoned'
  BY DEF Abandoned
<1>7. Abandoned \subseteq Kids /\ Abandoned' \subseteq Kids
  BY DEF Abandoned
<1> QED
  BY <1>5, <1>6, <1>7

LEMMA FreshFields ==
    /\ DOMAIN Fresh = Fields /\ Fresh.kid = None /\ Fresh.right = None /\ Fresh.stage = 0
    /\ \A a, s, t, l : \A x \in {[Fresh EXCEPT !.ahead = a, !.stage = s],
                                 [Fresh EXCEPT !.argv = a, !.stage = s],
                                 [Fresh EXCEPT !.ahead = a, !.stage = s, !.todo = t, !.next = l]} :
          DOMAIN x = Fields /\ x.kid = None /\ x.right = None /\ x.stage = s
    /\ \A a, s, t, l : [Fresh EXCEPT !.ahead = a, !.stage = s, !.todo = t, !.next = l].next = l
BY DEF Fresh, Fields

LEMMA ForkPreserves == ASSUME IInv, NEW e \in Kids, Fork(e), Room, ShStays PROVE IInv'
<1> USE ShIsNoKid
<1>1. Chain /\ pc[e] = "fork" /\ At(e) = "fork" /\ UNCHANGED stackFaults
  BY DEF IInv, Fork, At, history
<1>2. PICK c : c = NewId
  OBVIOUS
<1>3. c \in Kids \ {e} /\ pc[c] = "free" /\ env[c].stage = 0
  BY <1>1, <1>2, NewIdUnused
<1> DEFINE x == [env[e] EXCEPT !.right = c, !.todo = LeftCalls(env[e].p), !.next = "run"]
           y == [Fresh EXCEPT !.ahead = env[e].ahead, !.stage = env[e].stage + 1,
                              !.todo = RightCalls(env[e].p), !.next = "parse"]
<1>4. DOMAIN pc = Ids /\ DOMAIN env = Ids /\ DOMAIN env[e] = Fields /\ env[e].stage \in Nat
  BY <1>1 DEF Chain, TypeOK
<1>5. /\ DOMAIN x = Fields /\ x.right = c /\ x.kid = env[e].kid /\ x.stage = env[e].stage
      /\ x.argv = env[e].argv /\ x.next = "run"
  BY <1>4 DEF Fields
<1>6. DOMAIN y = Fields /\ y.kid = None /\ y.right = None /\ y.stage = env[e].stage + 1 /\ y.next = "parse"
  BY FreshFields
<1>7. pc' = [pc EXCEPT ![e] = "calls", ![c] = "calls"]
  BY <1>2 DEF Fork
<1>8. env' = [env EXCEPT ![e].right = c, ![e].todo = LeftCalls(env[e].p), ![e].next = "run", ![c] = y]
  BY <1>2 DEF Fork
<1>9. env'[e] = x /\ env'[c] = y /\ DOMAIN env' = Ids /\ \A f \in Ids \ {e, c} : env'[f] = env[f]
  BY <1>3, <1>4, <1>8
<1> HIDE DEF x, y
<1>10. At(e)' = "run" /\ At(c)' = "parse" /\ pc'[e] = "calls" /\ pc'[c] = "calls"
  BY <1>3, <1>4, <1>5, <1>6, <1>7, <1>9 DEF At
<1>11. EnvOK(e) /\ env[e].kid = None /\ env[e].right = None /\ env[e].argv # <<>> /\ env[e].stage >= 1
  BY <1>1 DEF Chain, EnvOK, KidOK, RightOK, Parsing
<1>12. Bears(e, c)
  BY <1>1, <1>3, <1>4, <1>5, <1>6, <1>7, <1>9, <1>10, <1>11 DEF Bears
<1>13. "run" \in Working \ (Parsing \cup Making \cup {"wait right", "fork", "unborn"})
  BY DEF Working, Parsing, Choosing, Making
<1>14. WaitsFor(e, c)'
  BY <1>3, <1>5, <1>9, <1>10, <1>13 DEF WaitsFor
<1>15. EnvOK(e)'
  BY <1>3, <1>4, <1>5, <1>6, <1>9, <1>10, <1>11, <1>13 DEF EnvOK, KidOK, RightOK
<1>16. ShOK'
  BY <1>1, <1>3, <1>12, BearsSh
<1>17. Chain'
  BY <1>1, <1>3, <1>10, <1>12, <1>13, <1>14, <1>15, <1>16, BearsChain
<1>18. Abandoned' = Abandoned
  BY <1>1, <1>3, <1>10, <1>12, <1>13, BearsAbandoned DEF Making
<1> QED
  BY <1>1, <1>17, <1>18 DEF IInv

LEMMA ExoforkPreserves == ASSUME IInv, NEW e \in Kids, Exofork(e), Room, ShStays PROVE IInv'
<1> USE ShIsNoKid
<1>1. Chain /\ pc[e] = "exofork" /\ At(e) = "exofork" /\ UNCHANGED stackFaults
  BY DEF IInv, Exofork, At, history
<1>2. PICK c : c = NewId
  OBVIOUS
<1>3. c \in Kids \ {e} /\ pc[c] = "free" /\ env[c].stage = 0
  BY <1>1, <1>2, NewIdUnused
<1> DEFINE x == [env[e] EXCEPT !.kid = c]
           y == [Fresh EXCEPT !.argv = env[e].argv, !.stage = env[e].stage]
<1>4. DOMAIN pc = Ids /\ DOMAIN env = Ids /\ DOMAIN env[e] = Fields /\ env[e].stage \in Nat
  BY <1>1 DEF Chain, TypeOK
<1>5. /\ DOMAIN x = Fields /\ x.right = env[e].right /\ x.kid = c /\ x.stage = env[e].stage
      /\ x.argv = env[e].argv
  BY <1>4 DEF Fields
<1>6. DOMAIN y = Fields /\ y.kid = None /\ y.right = None /\ y.stage = env[e].stage
  BY FreshFields
<1>7. pc' = [pc EXCEPT ![e] = "stack", ![c] = "unborn"]
  BY <1>2 DEF Exofork
<1>8. env' = [env EXCEPT ![e].kid = c, ![c] = y]
  BY <1>2 DEF Exofork
<1>9. env'[e] = x /\ env'[c] = y /\ DOMAIN env' = Ids /\ \A f \in Ids \ {e, c} : env'[f] = env[f]
  BY <1>3, <1>4, <1>8
<1> HIDE DEF x, y
<1>10. At(e)' = "stack" /\ pc'[e] = "stack" /\ pc'[c] = "unborn"
  BY <1>3, <1>4, <1>7 DEF At
<1>11. EnvOK(e) /\ env[e].stage >= 1
  BY <1>1 DEF Chain, EnvOK
<1>12. Bears(e, c)
  BY <1>1, <1>3, <1>4, <1>5, <1>6, <1>7, <1>9, <1>10, <1>11 DEF Bears
<1>13. {"stack", "exofork"} \subseteq Working \ (Parsing \cup {"wait right", "fork", "unborn"})
       /\ "stack" \in Making /\ "exofork" \notin Making /\ "stack" \notin Choosing
  BY DEF Working, Parsing, Choosing, Making
<1>14. KidOK(e)'
  BY <1>3, <1>5, <1>6, <1>9, <1>10, <1>13 DEF KidOK
<1>15. RightOK(e)'
  <2>1. env[e].right # None => env[e].right \in Kids /\ env[env[e].right].stage = env[e].stage + 1 /\ env[e].argv # <<>>
    BY <1>1, <1>11, <1>13 DEF EnvOK, RightOK
  <2>2. env[e].right # None => env[e].right \in Kids \ {c, e}
    BY <1>3, <1>4, <2>1
  <2> QED
    BY <1>5, <1>9, <1>10, <1>13, <2>1, <2>2 DEF RightOK
<1>16. EnvOK(e)'
  BY <1>5, <1>9, <1>10, <1>11, <1>13, <1>14, <1>15 DEF EnvOK
<1>17. ShOK'
  BY <1>1, <1>3, <1>12, BearsSh
<1>18. Chain'
  BY <1>1, <1>3, <1>5, <1>9, <1>10, <1>12, <1>16, <1>17, BearsChain
<1>19. Makes(e, c)'
  BY <1>5, <1>9, <1>10, <1>13 DEF Makes
<1>20. Abandoned' = Abandoned
  BY <1>1, <1>3, <1>5, <1>9, <1>10, <1>12, <1>13, <1>19, BearsAbandoned
<1> QED
  BY <1>1, <1>18, <1>20 DEF IInv

------------------------------------------------------------------------------
(* The shell that reads the lines.                                         *)

LEMMA NotNext == \A a, b \in Nat : a <= b => a # b + 1
OBVIOUS

\* The first of those who are waited for is waited for by the shell.
LEMMA NothingAlive ==
    ASSUME Chain, pc[sh] # "wait line", NEW f \in Kids PROVE pc[f] \in {"free", "unborn"}
<1> USE ShIsNoKid
<1> DEFINE Live == {e \in Kids : pc[e] \notin {"free", "unborn"}}
<1>1. SUFFICES ASSUME Live # {} PROVE FALSE
  OBVIOUS
<1> DEFINE T == {env[e].stage : e \in Live}
<1>2. T \subseteq Nat /\ T # {}
  <2>1. \A e \in Live : env[e].stage \in Nat
    BY DEF Chain, TypeOK
  <2> HIDE DEF Live
  <2> QED
    BY <1>1, <2>1
<1>3. PICK m \in T : \A n \in T : m <= n
  BY <1>2, NatMin
<1>4. PICK e \in Live : env[e].stage = m
  BY <1>3
<1>5. ASSUME NEW d \in Live, NEW p \in Ids, WaitsFor(p, d), env[d].stage = m
      PROVE  p \in Live /\ env[p].kid = d /\ At(p) \in Ending /\ At(d) \notin Working /\ env[p].stage = m
  <2>1. p \in Kids /\ At(p) \in Working
    BY <1>5 DEF WaitsFor, Kids, Working
  <2>2. p \in Live
    BY <2>1, WorkingLives DEF Others
  <2>3. env[p].stage \in T /\ m <= env[p].stage /\ env[p].stage \in Nat
    BY <1>2, <1>3, <2>2
  <2>4. env[p].right # d
    <3>1. env[p].right = d => env[d].stage = env[p].stage + 1
      BY <2>1 DEF Chain, EnvOK, RightOK
    <3>2. env[p].stage \in Nat /\ m <= env[p].stage /\ m \in Nat /\ env[d].stage = m
      BY <1>2, <1>5, <2>3
    <3>3. env[d].stage # env[p].stage + 1
      BY <3>2, NotNext
    <3> QED
      BY <3>1, <3>3
  <2>5. env[p].kid = d /\ At(p) \in Ending /\ At(d) \notin Working
    BY <1>5, <2>1, <2>4 DEF WaitsFor
  <2>6. env[p].stage = m
    BY <1>5, <2>1, <2>5 DEF Chain, EnvOK, KidOK
  <2> QED
    BY <2>2, <2>5, <2>6
<1>6. PICK p \in Ids : WaitsFor(p, e)
  BY <1>4 DEF Chain, Waited
<1>7. p \in Live /\ At(p) \in Working /\ env[p].stage = m
  BY <1>4, <1>5, <1>6 DEF Working
<1>8. PICK q \in Ids : WaitsFor(q, p)
  BY <1>7 DEF Chain, Waited
<1> QED
  BY <1>5, <1>7, <1>8

\* A step of the shell alone.
LEMMA ShMoves ==
    ASSUME IInv, ShStays, UNCHANGED <<env, stackFaults>>, NEW l \in {"prompt", "panic"}, Goto(sh, l),
           pc[sh] # "wait line" \/ Gone(env[sh].kid)
    PROVE  IInv'
<1> USE ShIsNoKid
<1>1. Chain /\ pc' = [pc EXCEPT ![sh] = l] /\ DOMAIN pc = Ids
  BY DEF IInv, Goto, Chain, TypeOK
<1>2. \A f \in Kids : pc'[f] = pc[f] /\ At(f)' = At(f)
  BY <1>1 DEF At
<1>3. TypeOK' /\ ShOK'
  BY <1>1 DEF Chain, TypeOK, ShOK, ShStays
<1>4. KidsDiffer'
  BY <1>1, <1>2, ZenonT(60) DEF Chain, KidsDiffer
<1>5. ASSUME NEW f \in Kids PROVE EnvOK(f)'
  <2>1. EnvOK(f)
    BY <1>1 DEF Chain
  <2>2. KidOK(f)'
    <3>1. At(f) = "wait right" => env[f].kid = None \/ env[f].kid \in Kids
      BY <2>1 DEF EnvOK, KidOK, Working
    <3> QED
      BY <1>2, <2>1, <3>1 DEF EnvOK, KidOK, Gone
  <2>3. RightOK(f)'
    BY <1>2, <2>1 DEF EnvOK, RightOK
  <2> QED
    BY <1>2, <2>1, <2>2, <2>3 DEF EnvOK
<1>6. ASSUME NEW f \in Kids, pc'[f] \notin {"free", "unborn"} PROVE \E p \in Ids : WaitsFor(p, f)'
  <2>1. pc[f] \notin {"free", "unborn"} /\ ~Gone(f)
    BY <1>2, <1>6 DEF Gone
  <2>2. PICK p \in Ids : WaitsFor(p, f)
    BY <1>1, <2>1 DEF Chain, Waited
  <2>3. p # sh
    BY <2>1, <2>2 DEF WaitsFor
  <2>4. p \in Kids
    BY <2>3 DEF Kids
  <2> QED
    BY <1>2, <2>2, <2>3, <2>4 DEF WaitsFor
<1>7. Chain'
  BY <1>3, <1>4, <1>5, <1>6 DEF Chain, Waited
<1>8. Abandoned' = Abandoned
  BY <1>2 DEF Abandoned, Makes
<1> QED
  BY <1>7, <1>8 DEF IInv

LEMMA WaitLinePreserves == ASSUME IInv, WaitLine, ShStays PROVE IInv'
BY ShMoves DEF WaitLine, history

LEMMA ForkLinePreserves == ASSUME IInv, ForkLine, ShStays PROVE IInv'
<1> USE ShIsNoKid
<1>1. Chain /\ pc[sh] = "fork line" /\ UNCHANGED stackFaults
  BY DEF IInv, ForkLine, history
<1>2. CASE ~Room
  BY <1>1, <1>2, ShMoves DEF ForkLine
<1>3. CASE Room
  <2>1. PICK c : c = NewId
    OBVIOUS
  <2>2. c \in Kids /\ c # sh /\ pc[c] = "free" /\ env[c].stage = 0
    BY <1>1, <1>3, <2>1, NewIdUnused
  <2> DEFINE x == [env[sh] EXCEPT !.kid = c]
             y == [Fresh EXCEPT !.ahead = GetToken(line), !.stage = 1]
  <2>3. DOMAIN pc = Ids /\ DOMAIN env = Ids /\ DOMAIN env[sh] = Fields
    BY <1>1 DEF Chain, TypeOK
  <2>4. DOMAIN x = Fields /\ x.kid = c /\ x.stage = env[sh].stage
    BY <2>3 DEF Fields
  <2>5. DOMAIN y = Fields /\ y.kid = None /\ y.right = None /\ y.stage = 1
    BY FreshFields
  <2>6. pc' = [pc EXCEPT ![sh] = "wait line", ![c] = "parse"] /\ env' = [env EXCEPT ![sh].kid = c, ![c] = y]
    BY <1>3, <2>1 DEF ForkLine
  <2>7. env'[sh] = x /\ env'[c] = y /\ DOMAIN env' = Ids /\ \A f \in Ids \ {sh, c} : env'[f] = env[f]
    BY <2>2, <2>3, <2>6
  <2> HIDE DEF x, y
  <2>8. pc'[sh] = "wait line" /\ pc'[c] = "parse" /\ At(c)' = "parse"
    BY <2>2, <2>3, <2>6 DEF At
  <2>9. Bears(sh, c)
    <3>1. DOMAIN pc' = Ids
      BY <2>3, <2>6
    <3>2. \A f \in Ids \ {sh, c} : pc'[f] = pc[f]
      BY <2>3, <2>6
    <3>3. env'[c].stage \in Nat \ {0}
      BY <2>5, <2>7
    <3> QED
      BY <1>1, <2>4, <2>5, <2>7, <2>8, <3>1, <3>2, <3>3 DEF Bears
  <2>10. WaitsFor(sh, c)'
    BY <2>4, <2>7, <2>8 DEF WaitsFor
  <2>11. ShOK'
    BY <1>1, <2>2, <2>4, <2>5, <2>7, <2>8 DEF Chain, ShOK, ShStays
  <2>12. Chain'
    BY <1>1, <2>2, <2>9, <2>10, <2>11, BearsChain
  <2>13. Abandoned' = Abandoned
    BY <1>1, <2>2, <2>8, <2>9, BearsAbandoned
  <2> QED
    BY <1>1, <2>12, <2>13 DEF IInv
<1> QED
  BY <1>2, <1>3

LEMMA ReadLinePreserves == ASSUME IInv, ReadLine, ShStays PROVE IInv'
<1> USE ShIsNoKid
<1>1. Chain /\ pc[sh] = "prompt" /\ UNCHANGED stackFaults /\ DOMAIN pc = Ids
  BY DEF IInv, ReadLine, Chain, TypeOK
<1>2. pc' = [pc EXCEPT ![sh] = "fork line"] /\ env' = [e \in Ids |-> IF pc[e] = "free" THEN Fresh ELSE env[e]]
  BY DEF ReadLine, Goto
<1>3. \A f \in Kids : pc[f] \in {"free", "unborn"} /\ pc'[f] = pc[f] /\ At(f) = pc[f] /\ At(f)' = pc[f]
  BY <1>1, <1>2, NothingAlive DEF At
<1>4. TypeOK'
  <2>1. \A f \in Ids : DOMAIN env[f] = Fields /\ env[f].stage \in Nat
    BY <1>1 DEF Chain, TypeOK
  <2>2. \A f \in Ids : env'[f] = Fresh \/ env'[f] = env[f]
    BY <1>2
  <2>3. \A f \in Ids : DOMAIN env'[f] = Fields /\ env'[f].stage \in Nat
    BY <2>1, <2>2, FreshFields
  <2>4. DOMAIN pc' = Ids /\ DOMAIN env' = Ids /\ stackFaults' \in Nat
    BY <1>1, <1>2 DEF Chain, TypeOK
  <2> QED
    BY <2>3, <2>4 DEF TypeOK, ShStays
<1>5. ShOK'
  BY <1>1, <1>2 DEF Chain, ShOK, ShStays
<1>6. {"free", "unborn"} \subseteq Others \ (Working \cup {"fork", "wait right"})
  BY DEF Others, Working, Parsing, Choosing, Making, Ending
<1>7. Making \cup Parsing \cup Choosing \subseteq Working
  BY DEF Working
<1>8. KidsDiffer'
  BY <1>3, <1>6, <1>7 DEF KidsDiffer
<1>9. ASSUME NEW f \in Kids PROVE EnvOK(f)'
  <2>1. EnvOK(f)
    BY <1>1 DEF Chain
  <2>2. KidOK(f)' /\ RightOK(f)'
    BY <1>3, <1>6, <1>7 DEF KidOK, RightOK
  <2>3. pc[f] # "free" => env'[f] = env[f]
    BY <1>2
  <2> QED
    BY <1>3, <1>6, <2>1, <2>2, <2>3 DEF EnvOK
<1>10. \A f \in Kids : Waited(f)'
  BY <1>3 DEF Waited
<1>11. Chain'
  BY <1>4, <1>5, <1>8, <1>9, <1>10 DEF Chain
<1>12. Abandoned' = Abandoned
  BY <1>3, <1>6, <1>7 DEF Abandoned, Makes
<1> QED
  BY <1>1, <1>11, <1>12 DEF IInv

------------------------------------------------------------------------------
LEMMA InitIInv == Init => IInv
<1> SUFFICES ASSUME Init PROVE IInv
  OBVIOUS
<1> USE ShIsNoKid
<1>1. /\ pc = [e \in Ids |-> IF e = sh THEN "prompt" ELSE "free"] /\ env = [e \in Ids |-> Fresh]
      /\ DOMAIN fd = Ids /\ fd[sh] = [Empty EXCEPT ![0] = Terminal, ![1] = Terminal] /\ stackFaults = 0
  BY DEF Init
<1>2. TypeOK /\ ShOK
  BY <1>1, FreshFields DEF TypeOK, ShOK
<1>3. \A f \in Kids : pc[f] = "free" /\ At(f) = "free"
  BY <1>1 DEF At
<1>4. "free" \in Others \ (Working \cup {"fork", "wait right"}) /\ Making \cup Parsing \cup Choosing \subseteq Working
  BY DEF Others, Working, Parsing, Choosing, Making, Ending
<1>5. KidsDiffer /\ \A f \in Kids : EnvOK(f) /\ Waited(f)
  BY <1>3, <1>4 DEF KidsDiffer, EnvOK, KidOK, RightOK, Waited
<1>6. Abandoned = {}
  BY <1>3 DEF Abandoned
<1> QED
  BY <1>1, <1>2, <1>5, <1>6, FS_EmptySet DEF IInv, Chain

LEMMA NextIInv == IInv /\ NoEmptyLeft /\ [Next]_vars => IInv'
<1> SUFFICES ASSUME IInv, NoEmptyLeft, [Next]_vars PROVE IInv'
  OBVIOUS
<1>1. CASE UNCHANGED vars
  <2>1. UNCHANGED <<pc, fd, env, stackFaults>>
    BY <1>1 DEF vars
  <2>2. \A f \in Ids : At(f)' = At(f)
    BY <2>1 DEF At
  <2>3. TypeOK' /\ ShOK' /\ KidsDiffer'
    BY <2>1 DEF IInv, Chain, TypeOK, ShOK, KidsDiffer, At
  <2>4. \A f \in Kids : EnvOK(f)' /\ Waited(f)'
    <3>1. \A f \in Kids : EnvOK(f) /\ Waited(f)
      BY DEF IInv, Chain
    <3>2. \A f \in Kids : KidOK(f)' <=> KidOK(f)
      BY <2>1 DEF KidOK, Gone, At
    <3>3. \A f \in Kids : RightOK(f)' <=> RightOK(f)
      BY <2>1 DEF RightOK, At
    <3>4. \A f \in Kids : EnvOK(f)'
      BY <2>1, <3>1, <3>2, <3>3 DEF EnvOK, At
    <3>5. \A f \in Kids : Waited(f)'
      BY <2>1, <3>1 DEF Waited, WaitsFor, At
    <3> QED
      BY <3>4, <3>5
  <2>5. Abandoned' = Abandoned
    BY <2>1 DEF Abandoned, Makes, At
  <2> QED
    BY <2>1, <2>3, <2>4, <2>5 DEF IInv, Chain
<1>2. CASE Next
  <2>1. ShStays
    BY <1>2, FdStays DEF IInv
  <2>2. CASE ReadLine \/ ForkLine \/ WaitLine
    BY <2>1, <2>2, ReadLinePreserves, ForkLinePreserves, WaitLinePreserves
  <2>3. ASSUME NEW e \in Kids, Runnable(e) PROVE IInv'
    <3>1. CASE Call(e) \/ Destroy(e)
      BY <2>1, <3>1, CallPreserves, DestroyPreserves
    <3>2. CASE EchoWrites(e) \/ EchoEnds(e) \/ CatReads(e) \/ CatWrites(e) \/ OtherEnds(e)
      BY <2>1, <3>2, ProgramPreserves
    <3>3. CASE Word(e) \/ Input0(e) \/ Output1(e) \/ EndOfString(e)
      BY <2>1, <3>3, ParsePreserves
    <3>4. CASE Pipe(e)
      BY <2>1, <3>4, PipePreserves
    <3>5. CASE Run(e) \/ SpawnOpen(e) \/ (Exofork(e) /\ ~Room)
      BY <2>1, <3>5, RunPreserves
    <3>6. CASE Fork(e)
      BY <2>1, <3>6, ForkPreserves, ForkPanicPreserves
    <3>7. CASE Exofork(e) /\ Room
      BY <2>1, <3>7, ExoforkPreserves
    <3>8. CASE InitStack(e) \/ MapSegments(e) \/ Start(e)
      BY <2>1, <3>8, InitStackPreserves, MapSegmentsPreserves, StartPreserves
    <3>9. CASE CopySharedPages(e)
      BY <2>1, <3>9, SpawnPreserves DEF CopySharedPages, history
    <3>10. CASE CloseForKid(e) \/ WaitKid(e) \/ WaitRight(e)
      BY <2>1, <3>10, WaitPreserves
    <3> QED
      BY <2>3, <3>1, <3>2, <3>3, <3>4, <3>5, <3>6, <3>7, <3>8, <3>9, <3>10 DEF Runnable, Shells
  <2> QED
    BY <1>2, <2>2, <2>3 DEF Next, Kids
<1> QED
  BY <1>1, <1>2

(* When the shell prompts again nothing of the line is left but the children *)
(* whose stacks spawn() could not set up, as many as such failures, and its  *)
(* own descriptors are as at the start: for any lines in which a word stands *)
(* before each bar, any number of environments, and whatever call fails.  A  *)
(* shell that panics, because fork() at a bar finds no environment, stays;   *)
(* then the shell that reads the lines never prompts again.                  *)
THEOREM LineLeavesNothing == Spec /\ []NoEmptyLeft => []NothingLeftBehind
<1>1. Init => IInv
  BY InitIInv
<1>2. IInv /\ NoEmptyLeft /\ [Next]_vars => IInv'
  BY NextIInv
<1>3. IInv => NothingLeftBehind
  <2> SUFFICES ASSUME IInv, pc[sh] = "prompt"
               PROVE  /\ \A e \in Leftover : pc[e] = "unborn"
                      /\ Cardinality(Leftover) = stackFaults
                      /\ fd[sh] = [Empty EXCEPT ![0] = Terminal, ![1] = Terminal]
    BY DEF NothingLeftBehind
  <2>1. \A e \in Kids : pc[e] \in {"free", "unborn"} /\ At(e) = pc[e]
    BY NothingAlive DEF IInv, At
  <2>2. \A e, f \in Kids : ~Makes(e, f)
    BY <2>1 DEF Makes, Making
  <2>3. Leftover = Abandoned
    BY <2>1, <2>2 DEF Leftover, Abandoned, Kids
  <2> QED
    BY <2>1, <2>3 DEF IInv, Chain, ShOK, Leftover, Kids
<1> QED
  BY <1>1, <1>2, <1>3, PTL DEF Spec

------------------------------------------------------------------------------
\* Where close_all() leads to, and where nothing is open.
Closes == {"wait kid", "destroy"}
Done == {"wait kid", "wait right", "destroy"}

(* Descriptors.  Each table is described by where the environment is, so   *)
(* that no step need know what other tables hold.                          *)
InFile(d) == d[1] = "file"
\* What a command of stage k may read from, and what it may write to before and after a bar.
Source(k, d) == d \in {Terminal, Reads(k - 1)} \/ InFile(d)
Redirected(d) == d = Terminal \/ InFile(d)
Sink(k, d) == d = Writes(k) \/ Redirected(d)
IsTable(t) == DOMAIN t = Fds /\ t = [n \in Fds |-> t[n]]
\* Descriptors not in S are closed.
Only(t, S) == \A n \in Fds \ S : t[n] = Closed

\* The calls that are left close everything that is open.
ClosesAll(t, todo) ==
    /\ todo \in Seq({todo[i] : i \in DOMAIN todo}) /\ \A i \in DOMAIN todo : todo[i] = Close(todo[i][2])
    /\ \A n \in Fds : t[n] # Closed => \E i \in 1 .. Len(todo) : todo[i] = Close(n)

\* The right side of a bar makes r its input and closes both ends of the pipe.
RightTodo(k, t, todo) ==
    /\ Redirected(t[1])
    /\ \E r, w \in Fds \ {0, 1} :
          \/ /\ todo = <<Dup(r, 0), Close(r), Close(w)>>
             /\ t[r] = Reads(k - 1) /\ Only(t, {0, 1, r, w})
          \/ todo = <<Close(r), Close(w)>> /\ t[0] = Reads(k - 1) /\ Only(t, {0, 1, r, w})
          \/ todo = <<Close(w)>> /\ t[0] = Reads(k - 1) /\ Only(t, {0, 1, w})
\* The left side makes w its output.
LeftTodo(k, t, todo) ==
    /\ Source(k, t[0])
    /\ \E r, w \in Fds \ {0, 1} :
          \/ /\ todo = <<Dup(w, 1), Close(w), Close(r)>>
             /\ t[w] = Writes(k) /\ Only(t, {0, 1, r, w})
          \/ todo = <<Close(w), Close(r)>> /\ t[1] = Writes(k) /\ Only(t, {0, 1, r, w})
          \/ todo = <<Close(r)>> /\ t[1] = Writes(k) /\ Only(t, {0, 1, r})

\* A panic keeps what was open: ends of the pipes beside its command at most.
Stopped(k, t) ==
    \A n \in Fds : t[n] = Closed \/ Source(k, t[n]) \/ Sink(k, t[n]) \/ t[n] = Reads(k)

\* The table t of an environment at l with the private state x.
TableOK(l, x, t) ==
    /\ IsTable(t)
    /\ l = "parse" => Source(x.stage, t[0]) /\ Redirected(t[1]) /\ Only(t, {0, 1})
    /\ l = "fork" => /\ Source(x.stage, t[0]) /\ Redirected(t[1])
                     /\ x.p[1] \in Fds \ {0, 1} /\ x.p[2] \in Fds \ {0, 1} /\ Only(t, {0, 1, x.p[1], x.p[2]})
                     /\ t[x.p[1]] = Reads(x.stage) /\ t[x.p[2]] = Writes(x.stage)
    /\ l = "calls" => /\ x.next \in {"parse", "run"} \cup Closes /\ x.todo # <<>>
                      /\ x.next = "parse" => RightTodo(x.stage, t, x.todo)
                      /\ x.next = "run" => LeftTodo(x.stage, t, x.todo)
                      /\ x.next \in Closes => ClosesAll(t, x.todo)
    /\ l \in {"run", "spawn", "share", "start", "program"} =>
          Source(x.stage, t[0]) /\ Sink(x.stage, t[1]) /\ Only(t, {0, 1})
    /\ l \in {"exofork", "stack", "segments"} =>
          /\ Source(x.stage, t[0]) /\ Sink(x.stage, t[1])
          /\ x.p[1] \in Fds \ {0, 1} /\ Only(t, {0, 1, x.p[1]})
    /\ l \in Done => Only(t, {})
    /\ l = "panic" => Stopped(x.stage, t)

FdsOK(e) == /\ TableOK(pc[e], env[e], fd[e])
            /\ pc[e] = "start" => fd[env[e].kid] = fd[e]
FdInv == \A e \in Kids : FdsOK(e)

NoStrayEnd ==
    \A e \in Kids :
       /\ pc[e] = "program" => /\ Source(env[e].stage, fd[e][0]) /\ Sink(env[e].stage, fd[e][1])
                               /\ Only(fd[e], {0, 1})
       /\ pc[e] \in Done => Only(fd[e], {})
       /\ pc[e] = "panic" => Stopped(env[e].stage, fd[e])
\* Everything but e and what it makes stays: e moves, others do not.
OthersStay(S) == \A f \in Ids \ S : pc'[f] = pc[f] /\ env'[f] = env[f] /\ fd'[f] = fd[f]

\* The places that TableOK tells apart.
LEMMA Apart ==
    /\ Closes \subseteq Done /\ "panic" \notin Done /\ "parse" \notin Done /\ "fork" \notin Done /\ "calls" \notin Done /\ "run" \notin Done
    /\ \A l \in Done : l \notin {"spawn", "share", "start", "program", "exofork", "stack", "segments", "unborn", "free"}
BY DEF Closes, Done

LEMMA ClosingEnds ==
    ASSUME NEW e, NEW x, CloseAll(e, x, "wait kid") \/ CloseAll(e, x, "destroy")
    PROVE  \E l \in Closes : CloseAll(e, x, l)
BY DEF Closes

LEMMA OpenEnds ==
    /\ \A k, d : Source(k, d) => d # Closed
    /\ \A k, d : Sink(k, d) => d # Closed
    /\ \A k, d : Redirected(d) => Sink(k, d)
    /\ \A name : InFile(File(name))
    /\ \A k : Reads(k) # Closed /\ Writes(k) # Closed
BY DEF Source, Sink, Redirected, InFile, Closed, Terminal, Reads, Writes, File

LEMMA FdsAre == {0, 1, 2, 3} \subseteq Fds /\ Fds \subseteq Nat /\ \A n \in Fds : 0 .. n \subseteq Fds
BY FdsAssumption DEF Fds

\* The descriptor that fd_alloc() finds.
LEMMA NextFdClosed ==
    ASSUME NEW t, NEW C, C = {n \in Fds : t[n] = Closed}, C # {}
    PROVE  Min(C) \in Fds /\ t[Min(C)] = Closed
<1>1. C \subseteq Nat
  BY FdsAre
<1>2. \E x \in C : \A y \in C : x <= y
  BY <1>1, NatMin
<1> QED
  BY <1>2 DEF Min

(* close_all() closes every descriptor that is open: each has its rank     *)
(* among those that are.                                                   *)
LEMMA ClosingAll ==
    ASSUME NEW e, IsTable(fd[e])
    PROVE  ClosesAll(fd[e], [n \in DOMAIN OpenFds(e) |-> Close(OpenFds(e)[n])])
<1> DEFINE t == fd[e]
           Open == {m \in Fds : t[m] # Closed}
           UpTo(m) == {i \in 0 .. m : t[i] # Closed}
           c == Cardinality(Open)
           rank(m) == Cardinality(UpTo(m))
           TheFd(n) == CHOOSE m \in Fds : t[m] # Closed /\ rank(m) = n
           calls == [n \in DOMAIN OpenFds(e) |-> Close(OpenFds(e)[n])]
<1>1. OpenFds(e) = [n \in 1 .. c |-> TheFd(n)]
  BY DEF OpenFds
<1>2. IsFiniteSet(Open)
  <2>1. 0 \in Int /\ NFD - 1 \in Int
    BY FdsAssumption
  <2>2. IsFiniteSet(Fds)
    BY <2>1, FS_Interval DEF Fds
  <2> QED
    BY <2>2, FS_Subset
<1>3. c \in Nat
  BY <1>2, FS_CardinalityType
<1>4. \A m \in Open : UpTo(m) \subseteq Open /\ m \in UpTo(m)
  <2> SUFFICES ASSUME NEW m \in Open PROVE UpTo(m) \subseteq Open /\ m \in UpTo(m)
    OBVIOUS
  <2>1. m \in Fds /\ m \in Nat /\ 0 .. m \subseteq Fds
    BY FdsAre
  <2> QED
    BY <2>1
<1>5. \A m, n \in Open : m < n => UpTo(m) \subseteq UpTo(n) /\ n \notin UpTo(m)
  BY FdsAre
<1>6. \A m \in Open : m \in Fds /\ m \in Nat /\ t[m] # Closed
  BY FdsAre
<1>7. \A m \in Open : \E x \in Fds : t[x] # Closed /\ rank(x) = rank(m)
  BY <1>6
<1>8. \A m \in Open : TheFd(rank(m)) \in Open /\ rank(TheFd(rank(m))) = rank(m)
  BY <1>7
<1> HIDE DEF UpTo, TheFd
<1>9. ASSUME NEW m \in Open PROVE rank(m) \in 1 .. c /\ IsFiniteSet(UpTo(m))
  <2>1. IsFiniteSet(UpTo(m)) /\ rank(m) <= c
    BY <1>2, <1>4, FS_Subset
  <2>2. rank(m) \in Nat /\ rank(m) # 0
    BY <1>4, <2>1, FS_CardinalityType, FS_EmptySet
  <2> QED
    BY <1>3, <2>1, <2>2
<1>10. ASSUME NEW m \in Open, NEW n \in Open, m < n PROVE rank(m) < rank(n)
  <2>1. IsFiniteSet(UpTo(n)) /\ UpTo(m) \in SUBSET UpTo(n) /\ UpTo(m) # UpTo(n)
    BY <1>4, <1>5, <1>9, <1>10
  <2>2. rank(m) <= rank(n) /\ rank(m) # rank(n)
    BY <2>1, FS_Subset
  <2>3. rank(m) \in Nat /\ rank(n) \in Nat
    BY <1>3, <1>9
  <2> HIDE DEF rank
  <2> QED
    BY <2>2, <2>3
<1>11. ASSUME NEW m \in Open PROVE TheFd(rank(m)) = m
  <2>1. PICK x : x = TheFd(rank(m))
    OBVIOUS
  <2>2. x \in Open /\ rank(x) = rank(m)
    BY <1>8, <2>1
  <2> HIDE DEF rank, Open
  <2>3. rank(m) \in Nat /\ ~(rank(m) < rank(m))
    BY <1>9, <1>3
  <2>4. ~(x < m) /\ ~(m < x)
    BY <1>10, <2>2, <2>3
  <2> QED
    BY <1>6, <2>1, <2>2, <2>4
<1>12. DOMAIN calls = 1 .. c /\ \A n \in 1 .. c : calls[n] = Close(TheFd(n))
  BY <1>1
<1>13. Len(calls) = c
  BY <1>1, <1>3
<1> HIDE DEF calls, c, rank
<1>14. ASSUME NEW n \in Fds, t[n] # Closed PROVE \E i \in 1 .. c : calls[i] = Close(n)
  <2>1. rank(n) \in 1 .. c /\ TheFd(rank(n)) = n
    BY <1>9, <1>11, <1>14
  <2> QED
    BY <1>12, <2>1
<1>15. \A i \in 1 .. c : calls[i] = Close(calls[i][2])
  BY <1>12 DEF Close
<1> HIDE DEF Open
<1> QED
  BY <1>13, <1>14, <1>15 DEF ClosesAll, calls

(* close_all(), and what follows it: everything will be closed, or is.     *)
LEMMA ChildOfStart ==
    ASSUME Chain, NEW f \in Kids, pc[f] \in Making
    PROVE  env[f].kid \in Kids /\ pc[env[f].kid] = "unborn" /\ env[env[f].kid].stage = env[f].stage
<1>1. At(f) \in Making /\ At(f) \in Working
  BY DEF At, Making, Working
<1>2. KidOK(f)
  BY DEF Chain, EnvOK
<1>3. env[f].kid \in Kids /\ pc[env[f].kid] = "unborn"
  BY <1>1, <1>2 DEF KidOK
<1> QED
  BY <1>1, <1>2, <1>3, ShIsNoKid DEF KidOK

LEMMA CloseAllTable ==
    ASSUME Chain, NEW e \in Kids, IsTable(fd[e]), fd'[e] = fd[e], NEW x, DOMAIN x = Fields,
           NEW l \in Closes, CloseAll(e, x, l)
    PROVE  TableOK(pc[e], env[e], fd[e])' /\ pc'[e] # "start"
<1> DEFINE calls == [n \in DOMAIN OpenFds(e) |-> Close(OpenFds(e)[n])]
<1>1. ClosesAll(fd[e], calls)
  BY ClosingAll
<1> HIDE DEF calls
<1>2. CallAll(e, x, calls, l)
  BY DEF CloseAll, calls
<1>3. DOMAIN pc = Ids /\ DOMAIN env = Ids /\ e \in Ids
  BY DEF Chain, TypeOK, Kids
<1>4. CASE calls = <<>>
  <2>1. pc'[e] = l
    BY <1>2, <1>3, <1>4 DEF CallAll, Goto
  <2>2. Only(fd[e], {})
    BY <1>1, <1>4 DEF ClosesAll, Only
  <2> QED
    BY <2>1, <2>2, Apart DEF TableOK
<1>5. CASE calls # <<>>
  <2>1. pc'[e] = "calls" /\ env'[e] = [x EXCEPT !.todo = calls, !.next = l]
    BY <1>2, <1>3, <1>5 DEF CallAll, Goto, Keeps
  <2>2. env'[e].todo = calls /\ env'[e].next = l
    BY <2>1 DEF Fields
  <2> QED
    BY <1>1, <1>5, <2>1, <2>2, Apart DEF TableOK
<1> QED
  BY <1>4, <1>5

(* A step of e alone leaves the tables of the others as they should be; no *)
(* other shell has made e and is going to start it.                        *)
LEMMA OneTable ==
    ASSUME Chain, FdInv, NEW e \in Kids, OthersStay({e}), pc[e] # "unborn",
           TableOK(pc[e], env[e], fd[e])', pc'[e] # "start"
    PROVE  FdInv'
<1> SUFFICES ASSUME NEW f \in Kids PROVE FdsOK(f)'
  BY DEF FdInv
<1>1. CASE f = e
  BY <1>1 DEF FdsOK
<1>2. CASE f # e
  <2>1. pc'[f] = pc[f] /\ env'[f] = env[f] /\ fd'[f] = fd[f]
    BY <1>2 DEF OthersStay, Kids
  <2>2. pc[f] = "start" => env[f].kid \in Ids \ {e}
    <3>1. pc[f] = "start" => pc[f] \in Making
      BY DEF Making
    <3> QED
      BY <3>1, ChildOfStart, ShIsNoKid
  <2>3. pc[f] = "start" => fd'[env[f].kid] = fd[env[f].kid]
    BY <2>2 DEF OthersStay
  <2> QED
    BY <2>1, <2>3 DEF FdInv, FdsOK
<1> QED
  BY <1>1, <1>2

LEMMA TableFacts ==
    ASSUME FdInv, NEW e \in Kids
    PROVE  TableOK(pc[e], env[e], fd[e]) /\ IsTable(fd[e])
BY DEF FdInv, FdsOK, TableOK

\* A step of e to place l with the private state x, and no change of a table.
Move(e, l, x) == UNCHANGED fd /\ OthersStay({e}) /\ pc'[e] = l /\ env'[e] = x
LEMMA Moves ==
    ASSUME Chain, FdInv, NEW e \in Kids, pc[e] # "unborn", NEW l, NEW x, Move(e, l, x),
           TableOK(l, x, fd[e]), l # "start"
    PROVE  FdInv'
BY OneTable DEF Move

LEMMA MoveCases ==
    ASSUME Chain, NEW e \in Kids, UNCHANGED fd
    PROVE  /\ \A l : Goto(e, l) /\ UNCHANGED env => Move(e, l, env[e])
           /\ \A x : UNCHANGED pc /\ Keeps(e, x) => Move(e, pc[e], x)
           /\ \A l, x : Goto(e, l) /\ Keeps(e, x) => Move(e, l, x)
<1>1. DOMAIN pc = Ids /\ DOMAIN env = Ids /\ e \in Ids
  BY ShIsNoKid DEF Chain, TypeOK
<1> QED
  BY <1>1 DEF Move, OthersStay, Goto, Keeps

LEMMA ExitsTable ==
    ASSUME Chain, FdInv, NEW e \in Kids, UNCHANGED fd, pc[e] # "unborn", NEW x, DOMAIN x = Fields,
           CloseAll(e, x, "wait kid") \/ CloseAll(e, x, "destroy")
    PROVE  FdInv'
<1>1. PICK l \in Closes : CloseAll(e, x, l)
  BY ClosingEnds
<1>2. TableOK(pc[e], env[e], fd[e])' /\ pc'[e] # "start"
  BY <1>1, CloseAllTable, TableFacts
<1>3. DOMAIN pc = Ids /\ DOMAIN env = Ids /\ e \in Ids
  BY ShIsNoKid DEF Chain, TypeOK
<1>4. OthersStay({e})
  BY <1>1, <1>3 DEF CloseAll, CallAll, Goto, Keeps, OthersStay
<1> QED
  BY <1>2, <1>4, OneTable


(* The calls themselves.                                                   *)
LEMMA ClosesNext ==
    ASSUME NEW t, NEW todo, IsTable(t), todo # <<>>, ClosesAll(t, todo)
    PROVE  ClosesAll(Changed(t, Head(todo)), Tail(todo)) /\ IsTable(Changed(t, Head(todo)))
<1> DEFINE S == {todo[i] : i \in DOMAIN todo}
           u == Changed(t, Head(todo))
           rest == Tail(todo)
<1>1. todo \in Seq(S) /\ (\A i \in DOMAIN todo : todo[i] = Close(todo[i][2]))
      /\ \A n \in Fds : t[n] # Closed => \E i \in 1 .. Len(todo) : todo[i] = Close(n)
  BY DEF ClosesAll
<1>2. DOMAIN todo = 1 .. Len(todo) /\ Len(todo) \in Nat
  BY <1>1, LenProperties
<1>3. rest \in Seq(S) /\ Len(rest) = Len(todo) - 1 /\ (\A i \in 1 .. Len(rest) : rest[i] = todo[i + 1])
  BY <1>1, HeadTailProperties
<1>4. DOMAIN rest = 1 .. Len(rest) /\ Len(rest) \in Nat
  BY <1>3, LenProperties
<1>5. Head(todo) = todo[1] /\ 1 \in DOMAIN todo
  BY <1>1, <1>2, EmptySeq
<1> DEFINE n == todo[1][2]
<1>6. todo[1] = Close(n)
  BY <1>1, <1>5
<1>7. u = [t EXCEPT ![n] = Closed]
  BY <1>5, <1>6 DEF Changed, Close
<1>8. IsTable(u)
  BY <1>7 DEF IsTable
<1> HIDE DEF S, u, rest, n
<1>9. \A i \in DOMAIN rest : rest[i] = Close(rest[i][2])
  <2>1. \A i \in DOMAIN rest : i + 1 \in DOMAIN todo /\ rest[i] = todo[i + 1]
    BY <1>2, <1>3, <1>4
  <2> QED
    BY <1>1, <2>1
<1>10. rest \in Seq({rest[i] : i \in DOMAIN rest})
  BY <1>3, <1>4, IsASeq
<1>11. ASSUME NEW m \in Fds, u[m] # Closed PROVE \E i \in 1 .. Len(rest) : rest[i] = Close(m)
  <2>1. m # n /\ t[m] # Closed
    BY <1>7, <1>11 DEF IsTable
  <2>2. PICK i \in 1 .. Len(todo) : todo[i] = Close(m)
    BY <1>1, <2>1
  <2>3. i # 1
    BY <1>6, <2>1, <2>2 DEF Close
  <2>4. i - 1 \in 1 .. Len(rest) /\ rest[i - 1] = todo[i]
    BY <1>2, <1>3, <2>2, <2>3
  <2> QED
    BY <2>2, <2>4
<1> QED
  BY <1>8, <1>9, <1>10, <1>11 DEF ClosesAll, u, rest

\* One descriptor becomes v.
Becomes(t, u, m, v) == IsTable(u) /\ u[m] = v /\ \A i \in Fds \ {m} : u[i] = t[i]
LEMMA SetAt ==
    ASSUME NEW t, IsTable(t), NEW m \in Fds, NEW v PROVE Becomes(t, [t EXCEPT ![m] = v], m, v)
BY DEF IsTable, Becomes

\* What is left of the calls of the two sides of a bar.
LEMMA SidesNext ==
    ASSUME NEW t, NEW todo, IsTable(t), NEW k
    PROVE  /\ RightTodo(k, t, todo) =>
                LET u == Changed(t, Head(todo)) IN
                /\ IsTable(u) /\ u[1] = t[1]
                /\ \/ Tail(todo) # <<>> /\ RightTodo(k, u, Tail(todo))
                   \/ Tail(todo) = <<>> /\ u[0] = Reads(k - 1) /\ Redirected(u[1]) /\ Only(u, {0, 1})
           /\ LeftTodo(k, t, todo) =>
                LET u == Changed(t, Head(todo)) IN
                /\ IsTable(u) /\ u[0] = t[0]
                /\ \/ Tail(todo) # <<>> /\ LeftTodo(k, u, Tail(todo))
                   \/ Tail(todo) = <<>> /\ Source(k, u[0]) /\ u[1] = Writes(k) /\ Only(u, {0, 1})
<1> USE FdsAre
<1> DEFINE u == Changed(t, Head(todo))
<1>1. \A n, m : Changed(t, Dup(n, m)) = [t EXCEPT ![m] = t[n]] /\ Changed(t, Close(n)) = [t EXCEPT ![n] = Closed]
  BY DEF Changed, Dup, Close
<1>2. \A a, b, c : /\ Head(<<a, b, c>>) = a /\ Tail(<<a, b, c>>) = <<b, c>>
                   /\ Head(<<a, b>>) = a /\ Tail(<<a, b>>) = <<b>>
                   /\ Head(<<a>>) = a /\ Tail(<<a>>) = <<>> /\ <<b, c>> # <<>> /\ <<b>> # <<>>
  OBVIOUS
<1>3. ASSUME RightTodo(k, t, todo)
      PROVE  /\ IsTable(u) /\ u[1] = t[1]
             /\ \/ Tail(todo) # <<>> /\ RightTodo(k, u, Tail(todo))
                \/ Tail(todo) = <<>> /\ u[0] = Reads(k - 1) /\ Redirected(u[1]) /\ Only(u, {0, 1})
  <2>1. PICK r \in Fds \ {0, 1}, w \in Fds \ {0, 1} :
          \/ /\ todo = <<Dup(r, 0), Close(r), Close(w)>>
             /\ t[r] = Reads(k - 1) /\ Only(t, {0, 1, r, w})
          \/ todo = <<Close(r), Close(w)>> /\ t[0] = Reads(k - 1) /\ Only(t, {0, 1, r, w})
          \/ todo = <<Close(w)>> /\ t[0] = Reads(k - 1) /\ Only(t, {0, 1, w})
    BY <1>3 DEF RightTodo
  <2>2. Redirected(t[1])
    BY <1>3 DEF RightTodo
  <2>3. CASE todo = <<Dup(r, 0), Close(r), Close(w)>> /\ t[r] = Reads(k - 1) /\ Only(t, {0, 1, r, w})
    <3>1. Becomes(t, u, 0, t[r]) /\ Tail(todo) = <<Close(r), Close(w)>>
      <4>1. Head(todo) = Dup(r, 0) /\ Tail(todo) = <<Close(r), Close(w)>>
        BY <1>2, <2>3
      <4>2. u = [t EXCEPT ![0] = t[r]]
        BY <1>1, <4>1
      <4> QED
        BY <4>1, <4>2, SetAt
    <3>2. IsTable(u) /\ u[0] = Reads(k - 1) /\ u[1] = t[1]
      BY <2>3, <3>1 DEF Becomes
    <3>3. Only(u, {0, 1, r, w})
      BY <2>3, <3>1 DEF Becomes, Only
    <3> HIDE DEF u
    <3> QED
      BY <1>2, <2>2, <3>1, <3>2, <3>3 DEF RightTodo
  <2>4. CASE todo = <<Close(r), Close(w)>> /\ t[0] = Reads(k - 1) /\ Only(t, {0, 1, r, w})
    <3>1. Becomes(t, u, r, Closed) /\ Tail(todo) = <<Close(w)>>
      BY <1>1, <1>2, <2>4, SetAt
    <3>2. IsTable(u) /\ u[0] = t[0] /\ u[1] = t[1]
      BY <2>4, <3>1 DEF Becomes
    <3>3. Only(u, {0, 1, w})
      BY <2>4, <3>1 DEF Becomes, Only
    <3> HIDE DEF u
    <3> QED
      BY <1>2, <2>2, <2>4, <3>1, <3>2, <3>3 DEF RightTodo
  <2>5. CASE todo = <<Close(w)>> /\ t[0] = Reads(k - 1) /\ Only(t, {0, 1, w})
    <3>1. Becomes(t, u, w, Closed) /\ Tail(todo) = <<>>
      BY <1>1, <1>2, <2>5, SetAt
    <3>2. IsTable(u) /\ u[0] = t[0] /\ u[1] = t[1]
      BY <2>5, <3>1 DEF Becomes
    <3>3. Only(u, {0, 1})
      BY <2>5, <3>1 DEF Becomes, Only
    <3> QED
      BY <2>2, <2>5, <3>1, <3>2, <3>3
  <2> QED
    BY <2>1, <2>3, <2>4, <2>5
<1>4. ASSUME LeftTodo(k, t, todo)
      PROVE  /\ IsTable(u) /\ u[0] = t[0]
             /\ \/ Tail(todo) # <<>> /\ LeftTodo(k, u, Tail(todo))
                \/ Tail(todo) = <<>> /\ Source(k, u[0]) /\ u[1] = Writes(k) /\ Only(u, {0, 1})
  <2>1. PICK r \in Fds \ {0, 1}, w \in Fds \ {0, 1} :
          \/ /\ todo = <<Dup(w, 1), Close(w), Close(r)>>
             /\ t[w] = Writes(k) /\ Only(t, {0, 1, r, w})
          \/ todo = <<Close(w), Close(r)>> /\ t[1] = Writes(k) /\ Only(t, {0, 1, r, w})
          \/ todo = <<Close(r)>> /\ t[1] = Writes(k) /\ Only(t, {0, 1, r})
    BY <1>4 DEF LeftTodo
  <2>2. Source(k, t[0])
    BY <1>4 DEF LeftTodo
  <2>3. CASE todo = <<Dup(w, 1), Close(w), Close(r)>> /\ t[w] = Writes(k) /\ Only(t, {0, 1, r, w})
    <3>1. Becomes(t, u, 1, t[w]) /\ Tail(todo) = <<Close(w), Close(r)>>
      BY <1>1, <1>2, <2>3, SetAt
    <3>2. IsTable(u) /\ u[1] = Writes(k) /\ u[0] = t[0]
      BY <2>3, <3>1 DEF Becomes
    <3>3. Only(u, {0, 1, r, w})
      BY <2>3, <3>1 DEF Becomes, Only
    <3> HIDE DEF u
    <3> QED
      BY <1>2, <2>2, <3>1, <3>2, <3>3 DEF LeftTodo
  <2>4. CASE todo = <<Close(w), Close(r)>> /\ t[1] = Writes(k) /\ Only(t, {0, 1, r, w})
    <3>1. Becomes(t, u, w, Closed) /\ Tail(todo) = <<Close(r)>>
      BY <1>1, <1>2, <2>4, SetAt
    <3>2. IsTable(u) /\ u[0] = t[0] /\ u[1] = t[1]
      BY <2>4, <3>1 DEF Becomes
    <3>3. Only(u, {0, 1, r})
      BY <2>4, <3>1 DEF Becomes, Only
    <3> HIDE DEF u
    <3> QED
      BY <1>2, <2>2, <2>4, <3>1, <3>2, <3>3 DEF LeftTodo
  <2>5. CASE todo = <<Close(r)>> /\ t[1] = Writes(k) /\ Only(t, {0, 1, r})
    <3>1. Becomes(t, u, r, Closed) /\ Tail(todo) = <<>>
      BY <1>1, <1>2, <2>5, SetAt
    <3>2. IsTable(u) /\ u[0] = t[0] /\ u[1] = t[1]
      BY <2>5, <3>1 DEF Becomes
    <3>3. Only(u, {0, 1})
      BY <2>5, <3>1 DEF Becomes, Only
    <3> QED
      BY <2>2, <2>5, <3>1, <3>2, <3>3
  <2> QED
    BY <2>1, <2>3, <2>4, <2>5
<1> QED
  BY <1>3, <1>4

LEMMA CallTable == ASSUME Chain, FdInv, NEW e \in Kids, Call(e) PROVE FdInv'
<1> DEFINE t == fd[e]
           todo == env[e].todo
           u == Changed(t, Head(todo))
           l == env[e].next
           k == env[e].stage
<1>1. pc[e] = "calls" /\ fd' = [fd EXCEPT ![e] = u] /\ CallAll(e, env[e], Tail(todo), l)
  BY DEF Call
<1>2. DOMAIN pc = Ids /\ DOMAIN env = Ids /\ DOMAIN fd = Ids /\ e \in Ids /\ DOMAIN env[e] = Fields
  BY ShIsNoKid DEF Chain, TypeOK
<1>3. fd'[e] = u /\ \A f \in Ids \ {e} : fd'[f] = fd[f]
  BY <1>1, <1>2
<1>4. /\ IsTable(t) /\ todo # <<>> /\ l \in {"parse", "run"} \cup Closes
      /\ l = "parse" => RightTodo(k, t, todo)
      /\ l = "run" => LeftTodo(k, t, todo)
      /\ l \in Closes => ClosesAll(t, todo)
  BY <1>1, TableFacts DEF TableOK
<1> HIDE DEF t, todo, u, l, k
<1>5. /\ IsTable(u)
      /\ l = "parse" => \/ Tail(todo) # <<>> /\ RightTodo(k, u, Tail(todo))
                        \/ Tail(todo) = <<>> /\ Source(k, u[0]) /\ Redirected(u[1]) /\ Only(u, {0, 1})
      /\ l = "run" => \/ Tail(todo) # <<>> /\ LeftTodo(k, u, Tail(todo))
                      \/ Tail(todo) = <<>> /\ Source(k, u[0]) /\ Sink(k, u[1]) /\ Only(u, {0, 1})
      /\ l \in Closes => ClosesAll(u, Tail(todo))
  BY <1>4, SidesNext, ClosesNext DEF u, Source, Sink
<1>6. CASE Tail(todo) = <<>>
  <2>1. pc' = [pc EXCEPT ![e] = l] /\ env' = [env EXCEPT ![e] = env[e]]
    BY <1>1, <1>6 DEF CallAll, Goto, Keeps
  <2>2. pc'[e] = l /\ env'[e] = env[e] /\ \A f \in Ids \ {e} : pc'[f] = pc[f] /\ env'[f] = env[f]
    BY <1>2, <2>1
  <2>3. l \in Closes => Only(u, {})
    BY <1>5, <1>6, EmptySeq DEF ClosesAll, Only
  <2>4. TableOK(l, env[e], u)
    BY <1>4, <1>5, <1>6, <2>3, Apart DEF TableOK, k
  <2>5. l # "start"
    BY <1>4, Apart
  <2> QED
    BY <1>1, <1>3, <2>2, <2>4, <2>5, OneTable DEF OthersStay
<1>7. CASE Tail(todo) # <<>>
  <2> DEFINE x == [env[e] EXCEPT !.todo = Tail(todo), !.next = l]
  <2>1. pc' = [pc EXCEPT ![e] = "calls"] /\ env' = [env EXCEPT ![e] = x]
    BY <1>1, <1>7 DEF CallAll, Goto, Keeps
  <2>2. x.todo = Tail(todo) /\ x.next = l /\ x.stage = k
    BY <1>2 DEF Fields, k
  <2> HIDE DEF x
  <2>3. pc'[e] = "calls" /\ env'[e] = x /\ \A f \in Ids \ {e} : pc'[f] = pc[f] /\ env'[f] = env[f]
    BY <1>2, <2>1
  <2>4. TableOK("calls", x, u)
    BY <1>4, <1>5, <1>7, <2>2, Apart DEF TableOK
  <2> QED
    BY <1>1, <1>3, <2>3, <2>4, OneTable DEF OthersStay
<1> QED
  BY <1>6, <1>7

\* The steps that leave all tables as they are.
LEMMA ProgramTable ==
    ASSUME Chain, FdInv, NEW e \in Kids,
           Destroy(e) \/ EchoWrites(e) \/ EchoEnds(e) \/ CatReads(e) \/ CatWrites(e) \/ OtherEnds(e)
    PROVE  FdInv'
<1>1. DOMAIN pc = Ids /\ DOMAIN env = Ids /\ e \in Ids /\ DOMAIN env[e] = Fields
  BY ShIsNoKid DEF Chain, TypeOK
<1>2. UNCHANGED fd
  BY DEF Destroy, EchoWrites, EchoEnds, CatReads, CatWrites, OtherEnds
<1>3. CASE Destroy(e)
  <2>1. pc[e] = "destroy" /\ pc' = [pc EXCEPT ![e] = "free"] /\ UNCHANGED env
    BY <1>3 DEF Destroy, Goto
  <2>2. TableOK("free", env[e], fd[e])
    BY TableFacts, Apart DEF TableOK
  <2>3. Move(e, "free", env[e])
    BY <1>2, <1>3, MoveCases DEF Destroy
  <2> QED
    BY <2>1, <2>2, <2>3, Moves
<1>4. CASE EchoWrites(e) \/ EchoEnds(e) \/ CatReads(e) \/ CatWrites(e) \/ OtherEnds(e)
  <2>1. pc[e] = "program"
    BY <1>4 DEF EchoWrites, EchoEnds, CatReads, CatWrites, OtherEnds, Runs
  <2>2. \/ Exit(e)
        \/ Goto(e, "panic") /\ UNCHANGED env
        \/ UNCHANGED pc /\ \E x : Keeps(e, x) /\ x.stage = env[e].stage
    <3>1. \A v, w : /\ [env[e] EXCEPT !.left = v].stage = env[e].stage /\ [env[e] EXCEPT !.carry = v].stage = env[e].stage
                    /\ [env[e] EXCEPT !.carry = v, !.left = w].stage = env[e].stage
      BY <1>1 DEF Fields
    <3>2. EchoWrites(e) => UNCHANGED pc /\ \E x : Keeps(e, x) /\ x.stage = env[e].stage
      BY <3>1 DEF EchoWrites, Write, Wrote
    <3>3. CatWrites(e) => \/ Goto(e, "panic") /\ UNCHANGED env
                          \/ UNCHANGED pc /\ \E x : Keeps(e, x) /\ x.stage = env[e].stage
      BY <3>1 DEF CatWrites, Write
    <3>4. CatReads(e) => \/ Exit(e)
                         \/ UNCHANGED pc /\ \E x : Keeps(e, x) /\ x.stage = env[e].stage
      <4>1. CatReads(e) => \/ Exit(e)
                           \/ UNCHANGED pc /\ Keeps(e, [env[e] EXCEPT !.carry = 1])
                           \/ UNCHANGED pc /\ Keeps(e, [env[e] EXCEPT !.carry = 1, !.left = @ - 1])
        BY DEF CatReads
      <4>2. \A w : [env[e] EXCEPT !.carry = 1, !.left = w].stage = env[e].stage
        BY <3>1
      <4> QED
        BY <3>1, <4>1, <4>2
    <3> QED
      BY <1>4, <3>2, <3>3, <3>4 DEF EchoEnds, OtherEnds
  <2>3. CASE Exit(e)
    BY <1>1, <1>2, <2>1, <2>3, ExitsTable DEF Exit
  <2>4. CASE Goto(e, "panic") /\ UNCHANGED env
    <3>1. TableOK("panic", env[e], fd[e])
      BY <2>1, TableFacts, Apart DEF TableOK, Stopped, Only
    <3>2. Move(e, "panic", env[e])
      BY <1>2, <2>4, MoveCases
    <3> QED
      BY <2>1, <3>1, <3>2, Moves
  <2>5. CASE UNCHANGED pc /\ \E x : Keeps(e, x) /\ x.stage = env[e].stage
    <3>1. PICK x : Keeps(e, x) /\ x.stage = env[e].stage
      BY <2>5
    <3>2. Move(e, "program", x)
      BY <1>2, <2>1, <2>5, <3>1, MoveCases
    <3>3. TableOK("program", env[e], fd[e])
      BY <2>1, TableFacts
    <3>4. TableOK("program", x, fd[e])
      BY <3>1, <3>3, Apart DEF TableOK
    <3> QED
      BY <2>1, <3>2, <3>4, Moves
  <2> QED
    BY <2>2, <2>3, <2>4, <2>5
<1> QED
  BY <1>3, <1>4

LEMMA ParseTable ==
    ASSUME Chain, FdInv, NEW e \in Kids, Word(e) \/ Input0(e) \/ Output1(e) \/ EndOfString(e)
    PROVE  FdInv'
<1>1. DOMAIN pc = Ids /\ DOMAIN env = Ids /\ DOMAIN fd = Ids /\ e \in Ids /\ DOMAIN env[e] = Fields
  BY ShIsNoKid DEF Chain, TypeOK
<1> DEFINE k == env[e].stage
           t == fd[e]
<1>2. pc[e] = "parse"
  BY DEF Word, Input0, Output1, Redirect, EndOfString, Parses
<1>3. IsTable(t) /\ Source(k, t[0]) /\ Redirected(t[1]) /\ Only(t, {0, 1})
  BY <1>2, TableFacts DEF TableOK
<1> HIDE DEF k, t
<1>4. \A x, u : x.stage = k /\ IsTable(u) /\ Source(k, u[0]) /\ Redirected(u[1]) /\ Only(u, {0, 1})
                 => TableOK("parse", x, u) /\ TableOK("run", x, u)
  BY OpenEnds, Apart DEF TableOK
<1>5. CASE Exit(e) /\ UNCHANGED fd
  BY <1>1, <1>2, <1>5, ExitsTable DEF Exit
<1>6. CASE Word(e) /\ ~Exit(e)
  <2>1. PICK x : x = [env[e] EXCEPT !.argv = Append(@, env[e].ahead.word), !.ahead = Following(@)]
    OBVIOUS
  <2>2. x.stage = k
    BY <1>1, <2>1 DEF Fields, k
  <2>3. UNCHANGED pc /\ Keeps(e, x) /\ UNCHANGED fd
    BY <1>6, <2>1 DEF Word
  <2>4. Move(e, "parse", x)
    BY <1>2, <2>3, MoveCases
  <2> QED
    BY <1>2, <1>3, <1>4, <2>2, <2>4, Moves DEF t
<1>7. CASE EndOfString(e)
  <2>1. Move(e, "run", env[e])
    BY <1>7, MoveCases DEF EndOfString
  <2> QED
    BY <1>2, <1>3, <1>4, <2>1, Moves DEF k, t
<1>8. ASSUME NEW symbol, NEW n \in {0, 1}, NEW creates, Redirect(e, symbol, n, creates), ~(Exit(e) /\ UNCHANGED fd)
      PROVE  FdInv'
  <2>1. PICK target : /\ fd' = [fd EXCEPT ![e][n] = File(target.word)] /\ UNCHANGED pc
                      /\ Keeps(e, [env[e] EXCEPT !.ahead = Following(target)])
    BY <1>8 DEF Redirect
  <2>2. PICK x : x = [env[e] EXCEPT !.ahead = Following(target)]
    OBVIOUS
  <2>3. x.stage = k
    BY <1>1, <2>2 DEF Fields, k
  <2> DEFINE u == [t EXCEPT ![n] = File(target.word)]
  <2>4. fd'[e] = u /\ \A f \in Ids \ {e} : fd'[f] = fd[f]
    BY <1>1, <2>1 DEF t
  <2>5. Becomes(t, u, n, File(target.word))
    BY <1>3, SetAt, FdsAre
  <2> HIDE DEF u
  <2>6. IsTable(u) /\ Source(k, u[0]) /\ Redirected(u[1]) /\ Only(u, {0, 1})
    BY <1>3, <2>5, OpenEnds, FdsAre DEF Becomes, Source, Redirected, Only
  <2>7. TableOK("parse", x, u)
    BY <1>4, <2>3, <2>6
  <2>8. pc'[e] = "parse" /\ env'[e] = x /\ OthersStay({e})
    BY <1>1, <1>2, <2>1, <2>2, <2>4 DEF Keeps, OthersStay
  <2> QED
    BY <1>2, <2>4, <2>7, <2>8, OneTable
<1>9. Word(e) => UNCHANGED fd
  BY DEF Word
<1> QED
  BY <1>5, <1>6, <1>7, <1>8, <1>9 DEF Input0, Output1

LEMMA PipeTable == ASSUME Chain, FdInv, NEW e \in Kids, Pipe(e) PROVE FdInv'
<1>1. DOMAIN pc = Ids /\ DOMAIN env = Ids /\ DOMAIN fd = Ids /\ e \in Ids /\ DOMAIN env[e] = Fields
  BY ShIsNoKid DEF Chain, TypeOK
<1> DEFINE k == env[e].stage
           t == fd[e]
           r == NextFd(e)
           w == Min({n \in Fds : fd[e][n] = Closed /\ n # NextFd(e)})
           x == [env[e] EXCEPT !.p = <<r, w>>, !.ahead = Following(@)]
           u == [t EXCEPT ![r] = Reads(k), ![w] = Writes(k)]
<1>2. pc[e] = "parse"
  BY DEF Pipe, Parses
<1>3. IsTable(t) /\ Source(k, t[0]) /\ Redirected(t[1]) /\ Only(t, {0, 1})
  BY <1>2, TableFacts DEF TableOK
<1>4. t[0] # Closed /\ t[1] # Closed /\ t[2] = Closed /\ t[3] = Closed
  BY <1>3, OpenEnds, FdsAre DEF Only
<1>5. r \in Fds \ {0, 1}
  <2>1. 2 \in {n \in Fds : t[n] = Closed}
    BY <1>4, FdsAre
  <2>2. r \in Fds /\ t[r] = Closed
    BY <2>1, NextFdClosed DEF NextFd
  <2> QED
    BY <1>4, <2>2
<1>6. w \in Fds \ {0, 1} /\ w # r
  <2> DEFINE C == {n \in Fds : t[n] = Closed /\ n # r}
  <2>1. C \subseteq Nat /\ C # {}
    <3>1. 2 \in C \/ 3 \in C
      BY <1>4, FdsAre
    <3> QED
      BY <3>1, FdsAre
  <2>2. \E n \in C : \A m \in C : n <= m
    BY <2>1, NatMin
  <2>3. Min(C) \in C
    BY <2>2 DEF Min
  <2>4. w = Min(C)
    OBVIOUS
  <2> QED
    BY <1>4, <2>3, <2>4
<1>7. fd' = [fd EXCEPT ![e][r] = Reads(k), ![e][w] = Writes(k)] /\ Keeps(e, x) /\ Goto(e, "fork")
  BY DEF Pipe
<1>8. fd'[e] = u /\ \A f \in Ids \ {e} : fd'[f] = fd[f]
  BY <1>1, <1>7
<1>9. x.stage = k /\ x.p[1] = r /\ x.p[2] = w
  BY <1>1 DEF Fields
<1> HIDE DEF r, w, x
<1>10. /\ IsTable(u) /\ u[0] = t[0] /\ u[1] = t[1] /\ u[r] = Reads(k) /\ u[w] = Writes(k) /\ Only(u, {0, 1, r, w})
  BY <1>3, <1>5, <1>6, FdsAre DEF IsTable, Only
<1> HIDE DEF u, t, k
<1>11. TableOK("fork", x, u)
  BY <1>3, <1>5, <1>6, <1>9, <1>10, Apart DEF TableOK
<1>12. pc'[e] = "fork" /\ env'[e] = x /\ OthersStay({e})
  BY <1>1, <1>7, <1>8 DEF Keeps, Goto, OthersStay
<1> QED
  BY <1>2, <1>8, <1>11, <1>12, OneTable

\* A step of e and c: e makes c, or has made it.
LEMMA TwoTables ==
    ASSUME FdInv, NEW e \in Ids, NEW c \in Kids, OthersStay({e, c}),
           e \in Kids => /\ TableOK(pc'[e], env'[e], fd'[e])
                         /\ pc'[e] = "start" => fd'[env'[e].kid] = fd'[e],
           TableOK(pc'[c], env'[c], fd'[c]), pc'[c] # "start",
           \A f \in Kids \ {e, c} : pc[f] = "start" => fd'[env[f].kid] = fd[env[f].kid]
    PROVE  FdInv'
<1> SUFFICES ASSUME NEW f \in Kids \ {e, c} PROVE FdsOK(f)'
  BY DEF FdInv, FdsOK
<1>1. pc'[f] = pc[f] /\ env'[f] = env[f] /\ fd'[f] = fd[f]
  BY DEF OthersStay, Kids
<1> QED
  BY <1>1 DEF FdInv, FdsOK

LEMMA StartsOwn ==
    ASSUME Chain, NEW f \in Kids, pc[f] = "start"
    PROVE  /\ env[f].kid \in Kids /\ pc[env[f].kid] = "unborn"
           /\ \A e \in Kids : e # f /\ pc[e] \in Making => env[f].kid # env[e].kid
<1>1. pc[f] \in Making /\ At(f) \in Making
  BY DEF Making, At
<1>2. \A e \in Kids : pc[e] \in Making => At(e) \in Making
  BY DEF Making, At
<1> QED
  BY <1>1, <1>2, ChildOfStart DEF Chain, KidsDiffer

LEMMA RunTable ==
    ASSUME Chain, FdInv, NEW e \in Kids, Run(e) \/ CloseForKid(e) \/ WaitKid(e) \/ WaitRight(e)
    PROVE  FdInv'
<1>1. DOMAIN env[e] = Fields /\ UNCHANGED fd
  BY ShIsNoKid DEF Chain, TypeOK, Run, CloseForKid, WaitKid, WaitRight
<1>2. pc[e] # "unborn"
  BY DEF Run, CloseForKid, WaitKid, WaitRight
<1>3. CASE CloseAll(e, env[e], "wait kid") \/ CloseAll(e, env[e], "destroy")
  BY <1>1, <1>2, <1>3, ExitsTable
<1>4. CASE pc[e] = "run" /\ Goto(e, "spawn") /\ UNCHANGED env
  <2>1. Move(e, "spawn", env[e])
    BY <1>1, <1>4, MoveCases
  <2>2. TableOK("run", env[e], fd[e])
    BY <1>4, TableFacts
  <2>3. TableOK("spawn", env[e], fd[e])
    BY <2>2, Apart DEF TableOK
  <2> QED
    BY <1>2, <2>1, <2>3, Moves
<1>5. CASE pc[e] = "wait kid" /\ Goto(e, "wait right") /\ UNCHANGED env
  <2>1. Move(e, "wait right", env[e])
    BY <1>1, <1>5, MoveCases
  <2>2. pc[e] \in Done /\ "wait right" \in Done
    BY <1>5 DEF Done
  <2>3. PICK l : l = "wait right"
    OBVIOUS
  <2>4. TableOK(l, env[e], fd[e])
    BY <2>2, <2>3, TableFacts, Apart DEF TableOK
  <2>5. Move(e, l, env[e]) /\ l # "start"
    BY <2>1, <2>3
  <2> QED
    BY <1>2, <2>4, <2>5, Moves
<1> QED
  BY <1>3, <1>4, <1>5 DEF Run, CloseForKid, WaitKid, WaitRight, GivesUp, Exit

LEMMA SpawnOpenTable == ASSUME Chain, FdInv, NEW e \in Kids, SpawnOpen(e) PROVE FdInv'
<1>1. DOMAIN pc = Ids /\ DOMAIN env = Ids /\ DOMAIN fd = Ids /\ e \in Ids /\ DOMAIN env[e] = Fields
  BY ShIsNoKid DEF Chain, TypeOK
<1>2. pc[e] = "spawn"
  BY DEF SpawnOpen
<1>3. CASE GivesUp(e) /\ UNCHANGED fd
  BY <1>1, <1>2, <1>3, ExitsTable DEF GivesUp
<1> DEFINE k == env[e].stage
           t == fd[e]
           r == NextFd(e)
           v == File(Head(env[e].argv))
           x == [env[e] EXCEPT !.p = <<r, 0>>]
           u == [t EXCEPT ![r] = v]
<1>4. CASE fd' = [fd EXCEPT ![e][r] = v] /\ Keeps(e, x) /\ Goto(e, "exofork")
  <2>1. IsTable(t) /\ Source(k, t[0]) /\ Sink(k, t[1]) /\ Only(t, {0, 1})
    BY <1>2, TableFacts DEF TableOK
  <2>2. t[0] # Closed /\ t[1] # Closed /\ t[2] = Closed
    BY <2>1, OpenEnds, FdsAre DEF Only
  <2>3. r \in Fds \ {0, 1}
    <3>1. 2 \in {n \in Fds : t[n] = Closed}
      BY <2>2, FdsAre
    <3>2. r \in Fds /\ t[r] = Closed
      BY <3>1, NextFdClosed DEF NextFd
    <3> QED
      BY <2>2, <3>2
  <2>4. fd'[e] = u /\ \A f \in Ids \ {e} : fd'[f] = fd[f]
    BY <1>1, <1>4
  <2>5. x.stage = k /\ x.p[1] = r
    BY <1>1 DEF Fields
  <2> HIDE DEF r, v, x
  <2>6. Becomes(t, u, r, v)
    BY <2>1, <2>3, SetAt
  <2> HIDE DEF u, t, k
  <2>7. IsTable(u) /\ Source(k, u[0]) /\ Sink(k, u[1]) /\ Only(u, {0, 1, r})
    BY <2>1, <2>3, <2>6, FdsAre DEF Becomes, Only
  <2>8. TableOK("exofork", x, u)
    BY <2>3, <2>5, <2>7, Apart DEF TableOK
  <2>9. pc'[e] = "exofork" /\ env'[e] = x /\ OthersStay({e})
    BY <1>1, <1>4, <2>4 DEF Keeps, Goto, OthersStay
  <2> QED
    BY <1>2, <2>4, <2>8, <2>9, OneTable
<1> QED
  BY <1>3, <1>4 DEF SpawnOpen

LEMMA InitStackTable == ASSUME Chain, FdInv, NEW e \in Kids, InitStack(e) PROVE FdInv'
<1>1. DOMAIN env[e] = Fields /\ pc[e] = "stack" /\ UNCHANGED fd
  BY ShIsNoKid DEF Chain, TypeOK, InitStack
<1>2. CASE Goto(e, "segments") /\ UNCHANGED env
  <2>1. Move(e, "segments", env[e])
    BY <1>1, <1>2, MoveCases
  <2>2. TableOK("stack", env[e], fd[e])
    BY <1>1, TableFacts
  <2>3. TableOK("segments", env[e], fd[e])
    BY <2>2, Apart DEF TableOK
  <2> QED
    BY <1>1, <2>1, <2>3, Moves
<1>3. CASE CloseAll(e, [env[e] EXCEPT !.kid = None], "wait kid")
  <2>1. PICK x : x = [env[e] EXCEPT !.kid = None]
    OBVIOUS
  <2>2. DOMAIN x = Fields
    BY <1>1, <2>1
  <2>3. CloseAll(e, x, "wait kid")
    BY <1>3, <2>1
  <2> QED
    BY <1>1, <2>2, <2>3, ExitsTable
<1> QED
  BY <1>2, <1>3 DEF InitStack

LEMMA MapSegmentsTable == ASSUME Chain, FdInv, NEW e \in Kids, MapSegments(e) PROVE FdInv'
<1>1. DOMAIN pc = Ids /\ DOMAIN env = Ids /\ DOMAIN fd = Ids /\ e \in Ids /\ DOMAIN env[e] = Fields
  BY ShIsNoKid DEF Chain, TypeOK
<1> DEFINE k == env[e].stage
           t == fd[e]
           r == env[e].p[1]
           c == env[e].kid
           u == [t EXCEPT ![r] = Closed]
<1>2. pc[e] = "segments" /\ fd' = [fd EXCEPT ![e][r] = Closed]
  BY DEF MapSegments
<1>3. fd'[e] = u /\ \A f \in Ids \ {e} : fd'[f] = fd[f]
  BY <1>1, <1>2
<1>4. IsTable(t) /\ Source(k, t[0]) /\ Sink(k, t[1]) /\ r \in Fds \ {0, 1} /\ Only(t, {0, 1, r})
  BY <1>2, TableFacts DEF TableOK
<1>5. pc[e] \in Making
  BY <1>2 DEF Making
<1>6. c \in Kids /\ pc[c] = "unborn"
  BY <1>5, ChildOfStart
<1> HIDE DEF r, c
<1>7. Becomes(t, u, r, Closed)
  BY <1>4, SetAt
<1> HIDE DEF u, t, k
<1>8. IsTable(u) /\ Source(k, u[0]) /\ Sink(k, u[1]) /\ Only(u, {0, 1})
  BY <1>4, <1>7, FdsAre DEF Becomes, Only
<1>9. CASE Goto(e, "share") /\ UNCHANGED env
  <2>1. TableOK("share", env[e], u)
    BY <1>8, Apart DEF TableOK, k
  <2>2. pc'[e] = "share" /\ env'[e] = env[e] /\ OthersStay({e})
    BY <1>1, <1>3, <1>9 DEF Goto, OthersStay
  <2> QED
    BY <1>2, <1>3, <2>1, <2>2, OneTable
<1>10. CASE pc' = [pc EXCEPT ![e] = "close all", ![c] = "free"] /\ Keeps(e, [env[e] EXCEPT !.kid = None])
  <2>1. c # e /\ c \in Ids
    BY <1>2, <1>6, ShIsNoKid
  <2>2. PICK l : l = "close all"
    OBVIOUS
  <2>3. /\ l \notin Done
        /\ l \notin {"parse", "fork", "calls", "run", "spawn", "share", "start", "program", "exofork", "stack", "segments", "panic"}
    BY <2>2 DEF Done
  <2>4. pc'[e] = l /\ pc'[c] = "free" /\ env'[c] = env[c] /\ OthersStay({e, c})
    BY <1>1, <1>3, <1>10, <2>1, <2>2 DEF Keeps, OthersStay
  <2>5. TableOK(l, env'[e], u)
    BY <1>8, <2>3 DEF TableOK
  <2>6. TableOK(pc'[e], env'[e], fd'[e]) /\ pc'[e] # "start"
    BY <1>3, <2>3, <2>4, <2>5
  <2>7. TableOK("free", env[c], fd[c])
    BY <1>6, TableFacts, Apart DEF TableOK
  <2>8. TableOK(pc'[c], env'[c], fd'[c]) /\ pc'[c] # "start"
    BY <1>3, <2>1, <2>4, <2>7
  <2>9. \A f \in Kids \ {e, c} : pc[f] = "start" => fd'[env[f].kid] = fd[env[f].kid]
    BY <1>2, <1>3, StartsOwn, ShIsNoKid
  <2> QED
    BY <1>1, <1>6, <2>4, <2>6, <2>8, <2>9, TwoTables
<1> QED
  BY <1>9, <1>10 DEF MapSegments, c

LEMMA CopySharedTable == ASSUME Chain, FdInv, NEW e \in Kids, CopySharedPages(e) PROVE FdInv'
<1>1. DOMAIN pc = Ids /\ DOMAIN env = Ids /\ DOMAIN fd = Ids /\ e \in Ids
  BY ShIsNoKid DEF Chain, TypeOK
<1> DEFINE c == env[e].kid
<1>2. pc[e] = "share" /\ pc' = [pc EXCEPT ![e] = "start"] /\ UNCHANGED env /\ fd' = [fd EXCEPT ![c] = fd[e]]
  BY DEF CopySharedPages, Goto
<1>3. pc[e] \in Making
  BY <1>2 DEF Making
<1>4. c \in Kids /\ pc[c] = "unborn" /\ c # e /\ c \in Ids
  BY <1>2, <1>3, ChildOfStart, ShIsNoKid
<1> HIDE DEF c
<1>5. /\ pc'[e] = "start" /\ pc'[c] = "unborn" /\ fd'[c] = fd[e] /\ fd'[e] = fd[e]
      /\ OthersStay({e, c}) /\ \A f \in Ids \ {c} : fd'[f] = fd[f]
  BY <1>1, <1>2, <1>4 DEF OthersStay
<1>6. TableOK("share", env[e], fd[e])
  BY <1>2, TableFacts
<1>7. TableOK("start", env[e], fd[e]) /\ TableOK("unborn", env[c], fd[e])
  BY <1>6, Apart DEF TableOK
<1>8. TableOK(pc'[e], env'[e], fd'[e]) /\ TableOK(pc'[c], env'[c], fd'[c]) /\ fd'[env'[e].kid] = fd'[e]
  BY <1>2, <1>5, <1>7 DEF c
<1>9. \A f \in Kids \ {e, c} : pc[f] = "start" => fd'[env[f].kid] = fd[env[f].kid]
  <2>1. \A f \in Kids \ {e, c} : pc[f] = "start" => env[f].kid \in Ids \ {c}
    BY <1>3, StartsOwn, ShIsNoKid DEF c
  <2> QED
    BY <1>5, <2>1
<1> QED
  BY <1>1, <1>4, <1>5, <1>8, <1>9, TwoTables

LEMMA StartTable == ASSUME Chain, FdInv, NEW e \in Kids, Start(e) PROVE FdInv'
<1>1. DOMAIN pc = Ids /\ DOMAIN env = Ids /\ DOMAIN fd = Ids /\ e \in Ids
  BY ShIsNoKid DEF Chain, TypeOK
<1> DEFINE c == env[e].kid
           x == [env[c] EXCEPT !.left = OutLen]
<1>2. pc[e] = "start" /\ pc' = [pc EXCEPT ![e] = "close all", ![c] = "program"]
      /\ env' = [env EXCEPT ![c].left = OutLen] /\ UNCHANGED fd
  BY DEF Start
<1>3. pc[e] \in Making
  BY <1>2 DEF Making
<1>4. c \in Kids /\ c # e /\ c \in Ids /\ env[c].stage = env[e].stage
  BY <1>2, <1>3, ChildOfStart, ShIsNoKid
<1>5. DOMAIN env[c] = Fields
  BY <1>4 DEF Chain, TypeOK
<1>6. x.stage = env[c].stage
  BY <1>5 DEF Fields
<1>7. env'[c] = x /\ env'[e] = env[e]
  BY <1>1, <1>2, <1>4
<1> HIDE DEF c, x
<1>8. PICK l : l = "close all"
  OBVIOUS
<1>9. /\ l \notin Done
      /\ l \notin {"parse", "fork", "calls", "run", "spawn", "share", "start", "program", "exofork", "stack", "segments", "panic"}
  BY <1>8 DEF Done
<1>10. pc'[e] = l /\ pc'[c] = "program" /\ OthersStay({e, c})
  BY <1>1, <1>2, <1>4, <1>8 DEF OthersStay
<1>11. TableOK("start", env[e], fd[e]) /\ fd[c] = fd[e]
  BY <1>2 DEF FdInv, FdsOK, c
<1>12. TableOK(l, env[e], fd[e]) /\ TableOK("program", x, fd[c])
  BY <1>4, <1>6, <1>9, <1>11, Apart DEF TableOK
<1>13. /\ TableOK(pc'[e], env'[e], fd'[e]) /\ pc'[e] # "start"
       /\ TableOK(pc'[c], env'[c], fd'[c]) /\ pc'[c] # "start"
  BY <1>2, <1>7, <1>9, <1>10, <1>12
<1>14. \A f \in Kids \ {e, c} : pc[f] = "start" => fd'[env[f].kid] = fd[env[f].kid]
  BY <1>2
<1> QED
  BY <1>1, <1>4, <1>10, <1>13, <1>14, TwoTables

LEMMA SideCalls ==
    ASSUME NEW r \in Fds \ {0, 1}, NEW w \in Fds \ {0, 1}, NEW q, q[1] = r, q[2] = w
    PROVE  /\ RightCalls(q) = <<Dup(r, 0), Close(r), Close(w)>>
           /\ LeftCalls(q) = <<Dup(w, 1), Close(w), Close(r)>>
<1>1. ASSUME NEW a, NEW b, NEW c PROVE <<a, b>> \o <<c>> = <<a, b, c>>
  <2> DEFINE S == {a, b, c}
             s == <<a, b>> \o <<c>>
  <2>1. <<a, b>> \in Seq(S) /\ <<c>> \in Seq(S) /\ <<a, b, c>> \in Seq(S)
        /\ Len(<<a, b>>) = 2 /\ Len(<<c>>) = 1 /\ Len(<<a, b, c>>) = 3
    OBVIOUS
  <2>2. s \in Seq(S) /\ Len(s) = 3 /\ s[1] = a /\ s[2] = b /\ s[3] = c
    BY <2>1, ConcatProperties
  <2> HIDE DEF S, s
  <2>3. \A i \in 1 .. 3 : s[i] = <<a, b, c>>[i]
    BY <2>2
  <2>4. s = <<a, b, c>>
    BY <2>1, <2>2, <2>3, SeqEqual
  <2> QED
    BY <2>4 DEF s
<1> QED
  BY <1>1 DEF RightCalls, LeftCalls

LEMMA ForkTable == ASSUME Chain, FdInv, NEW e \in Kids, Fork(e) PROVE FdInv'
<1>1. DOMAIN pc = Ids /\ DOMAIN env = Ids /\ DOMAIN fd = Ids /\ e \in Ids /\ DOMAIN env[e] = Fields
  BY ShIsNoKid DEF Chain, TypeOK
<1>2. pc[e] = "fork"
  BY DEF Fork
<1>3. CASE ~Room
  <2>1. Move(e, "panic", env[e])
    BY <1>3, MoveCases DEF Fork
  <2>2. TableOK("panic", env[e], fd[e])
    BY <1>2, TableFacts, Apart DEF TableOK, Stopped, Only, Redirected, Sink
  <2> QED
    BY <1>2, <2>1, <2>2, Moves
<1> DEFINE k == env[e].stage
           t == fd[e]
           r == env[e].p[1]
           w == env[e].p[2]
           left == LeftCalls(env[e].p)
           right == RightCalls(env[e].p)
<1>4. ASSUME Room PROVE FdInv'
  <2>1. PICK c : c = NewId
    OBVIOUS
  <2>2. c \in Kids /\ c \in Ids /\ pc[c] = "free" /\ c # e
    BY <1>2, <1>4, <2>1, NewIdUnused, ShIsNoKid
  <2>3. /\ IsTable(t) /\ Source(k, t[0]) /\ Redirected(t[1])
        /\ r \in Fds \ {0, 1} /\ w \in Fds \ {0, 1} /\ Only(t, {0, 1, r, w})
        /\ t[r] = Reads(k) /\ t[w] = Writes(k)
    BY <1>2, TableFacts DEF TableOK
  <2>4. right = <<Dup(r, 0), Close(r), Close(w)>> /\ left = <<Dup(w, 1), Close(w), Close(r)>>
    BY <2>3, SideCalls
  <2> DEFINE x == [env[e] EXCEPT !.right = c, !.todo = left, !.next = "run"]
             y == [Fresh EXCEPT !.ahead = env[e].ahead, !.stage = env[e].stage + 1,
                                !.todo = right, !.next = "parse"]
  <2>5. pc' = [pc EXCEPT ![e] = "calls", ![c] = "calls"] /\ fd' = [fd EXCEPT ![c] = fd[e]]
    BY <1>4, <2>1 DEF Fork
  <2>6. env' = [env EXCEPT ![e].right = c, ![e].todo = left, ![e].next = "run", ![c] = y]
    BY <1>4, <2>1 DEF Fork
  <2>7. env'[e] = x /\ env'[c] = y /\ \A f \in Ids \ {e, c} : env'[f] = env[f]
    BY <1>1, <2>2, <2>6
  <2>8. x.stage = k /\ x.todo = left /\ x.next = "run"
    BY <1>1 DEF Fields
  <2>9. y.stage = k + 1 /\ y.todo = right /\ y.next = "parse"
    BY DEF Fresh
  <2> HIDE DEF x, y, left, right, r, w, t
  <2>10. LeftTodo(k, t, left)
    BY <2>3, <2>4 DEF LeftTodo
  <2>11. RightTodo(k + 1, t, right)
    <3>1. k \in Nat
      BY <1>1 DEF Chain, TypeOK
    <3>2. PICK m : m = k + 1
      OBVIOUS
    <3>3. m - 1 = k
      BY <3>1, <3>2
    <3>4. t[r] = Reads(m - 1)
      BY <2>3, <3>3
    <3>5. RightTodo(m, t, right)
      BY <2>3, <2>4, <3>4 DEF RightTodo
    <3> QED
      BY <3>2, <3>5
  <2>12. \A a, b, d : <<a, b, d>> # <<>>
    OBVIOUS
  <2>13. TableOK("calls", x, t) /\ TableOK("calls", y, t)
    BY <2>3, <2>4, <2>8, <2>9, <2>10, <2>11, <2>12, Apart DEF TableOK
  <2>14. /\ pc'[e] = "calls" /\ pc'[c] = "calls" /\ fd'[e] = t /\ fd'[c] = t /\ OthersStay({e, c})
         /\ \A f \in Ids \ {c} : fd'[f] = fd[f]
    BY <1>1, <2>2, <2>5, <2>7 DEF OthersStay, t
  <2>15. \A f \in Kids \ {e, c} : pc[f] = "start" => fd'[env[f].kid] = fd[env[f].kid]
    BY <2>2, <2>14, StartsOwn, ShIsNoKid
  <2> QED
    BY <1>1, <2>2, <2>7, <2>13, <2>14, <2>15, TwoTables
<1> QED
  BY <1>3, <1>4

LEMMA ExoforkTable == ASSUME Chain, FdInv, NEW e \in Kids, Exofork(e) PROVE FdInv'
<1>1. DOMAIN pc = Ids /\ DOMAIN env = Ids /\ DOMAIN fd = Ids /\ e \in Ids /\ DOMAIN env[e] = Fields
  BY ShIsNoKid DEF Chain, TypeOK
<1>2. pc[e] = "exofork" /\ UNCHANGED fd
  BY DEF Exofork
<1>3. CASE GivesUp(e)
  BY <1>1, <1>2, <1>3, ExitsTable DEF GivesUp
<1>4. ASSUME Room, ~GivesUp(e) PROVE FdInv'
  <2>1. PICK c : c = NewId
    OBVIOUS
  <2>2. c \in Kids /\ c \in Ids /\ pc[c] = "free" /\ c # e
    BY <1>2, <1>4, <2>1, NewIdUnused, ShIsNoKid
  <2> DEFINE x == [env[e] EXCEPT !.kid = c]
             y == [Fresh EXCEPT !.argv = env[e].argv, !.stage = env[e].stage]
  <2>3. pc' = [pc EXCEPT ![e] = "stack", ![c] = "unborn"] /\ env' = [env EXCEPT ![e].kid = c, ![c] = y]
    BY <1>4, <2>1 DEF Exofork
  <2>4. env'[e] = x /\ \A f \in Ids \ {e, c} : env'[f] = env[f]
    BY <1>1, <2>2, <2>3
  <2>5. x.stage = env[e].stage /\ x.p = env[e].p
    BY <1>1 DEF Fields
  <2> HIDE DEF x, y
  <2>6. TableOK("exofork", env[e], fd[e]) /\ IsTable(fd[c])
    BY <1>2, <2>2, TableFacts
  <2>7. TableOK("stack", x, fd[e]) /\ TableOK("unborn", env'[c], fd[c])
    BY <2>5, <2>6, Apart DEF TableOK
  <2>8. /\ pc'[e] = "stack" /\ pc'[c] = "unborn" /\ OthersStay({e, c})
        /\ fd'[e] = fd[e] /\ fd'[c] = fd[c]
    BY <1>1, <1>2, <2>2, <2>3, <2>4 DEF OthersStay
  <2>9. \A f \in Kids \ {e, c} : pc[f] = "start" => fd'[env[f].kid] = fd[env[f].kid]
    BY <1>2
  <2> QED
    BY <1>1, <2>2, <2>4, <2>7, <2>8, <2>9, TwoTables
<1> QED
  BY <1>3, <1>4 DEF Exofork

LEMMA ShTable == ASSUME Chain, FdInv, ReadLine \/ ForkLine \/ WaitLine PROVE FdInv'
<1> USE ShIsNoKid
<1>1. DOMAIN pc = Ids /\ DOMAIN env = Ids /\ DOMAIN fd = Ids
  BY DEF Chain, TypeOK
<1>2. ASSUME UNCHANGED fd, \A f \in Kids : pc'[f] = pc[f] /\ (env'[f] = env[f] \/ pc[f] \in {"free", "unborn"}) PROVE FdInv'
  <2> SUFFICES ASSUME NEW f \in Kids PROVE FdsOK(f)'
    BY DEF FdInv
  <2>1. CASE env'[f] = env[f]
    BY <1>2, <2>1 DEF FdInv, FdsOK
  <2>2. CASE pc[f] \in {"free", "unborn"}
    <3>1. TableOK(pc[f], env'[f], fd[f])
      BY <2>2, TableFacts, Apart DEF TableOK
    <3> QED
      BY <1>2, <2>2, <3>1 DEF FdsOK
  <2> QED
    BY <1>2, <2>1, <2>2
<1>3. CASE WaitLine
  <2>1. UNCHANGED fd /\ \A f \in Kids : pc'[f] = pc[f] /\ env'[f] = env[f]
    BY <1>1, <1>3 DEF WaitLine, Goto
  <2> QED
    BY <1>2, <2>1
<1>4. CASE ReadLine
  <2>1. pc[sh] # "wait line"
    BY <1>4 DEF ReadLine
  <2>2. UNCHANGED fd /\ \A f \in Kids : pc'[f] = pc[f]
    BY <1>1, <1>4 DEF ReadLine, Goto
  <2>3. \A f \in Kids : pc[f] \in {"free", "unborn"}
    BY <2>1, NothingAlive
  <2> QED
    BY <1>2, <2>2, <2>3
<1>5. CASE ForkLine /\ ~Room
  <2>1. UNCHANGED fd /\ \A f \in Kids : pc'[f] = pc[f] /\ env'[f] = env[f]
    BY <1>1, <1>5 DEF ForkLine, Goto
  <2> QED
    BY <1>2, <2>1
<1>6. CASE ForkLine /\ Room
  <2>1. PICK c : c = NewId
    OBVIOUS
  <2>2. c \in Kids /\ c \in Ids /\ pc[c] = "free" /\ c # sh
    BY <1>6, <2>1, NewIdUnused
  <2> DEFINE y == [Fresh EXCEPT !.ahead = GetToken(line), !.stage = 1]
             t == fd[sh]
  <2>3. /\ pc' = [pc EXCEPT ![sh] = "wait line", ![c] = "parse"] /\ fd' = [fd EXCEPT ![c] = fd[sh]]
        /\ env' = [env EXCEPT ![sh].kid = c, ![c] = y]
    BY <1>6, <2>1 DEF ForkLine
  <2>4. y.stage = 1
    BY DEF Fresh
  <2>5. t = [Empty EXCEPT ![0] = Terminal, ![1] = Terminal]
    BY DEF Chain, ShOK
  <2>6. IsTable(t) /\ t[0] = Terminal /\ t[1] = Terminal /\ Only(t, {0, 1})
    BY <2>5, FdsAre DEF Empty, IsTable, Only
  <2> HIDE DEF y, t
  <2>7. TableOK("parse", y, t)
    BY <2>4, <2>6, Apart DEF TableOK, Source, Redirected
  <2>8. /\ pc'[c] = "parse" /\ env'[c] = y /\ fd'[c] = t /\ OthersStay({sh, c})
        /\ \A f \in Ids \ {c} : fd'[f] = fd[f]
    BY <1>1, <2>2, <2>3 DEF OthersStay, t
  <2>9. \A f \in Kids \ {sh, c} : pc[f] = "start" => fd'[env[f].kid] = fd[env[f].kid]
    BY <2>2, <2>8, StartsOwn
  <2> QED
    BY <2>2, <2>7, <2>8, <2>9, TwoTables
<1> QED
  BY <1>3, <1>4, <1>5, <1>6

LEMMA InitFds == Init => FdInv
<1> SUFFICES ASSUME Init, NEW e \in Kids PROVE FdsOK(e)
  BY DEF FdInv
<1>1. pc[e] = "free" /\ fd[e] = Empty
  BY ShIsNoKid DEF Init, Kids
<1>2. IsTable(Empty)
  BY DEF IsTable, Empty
<1>3. TableOK("free", env[e], Empty)
  BY <1>2, Apart DEF TableOK
<1> QED
  BY <1>1, <1>3 DEF FdsOK

LEMMA NextFds == ASSUME Chain, FdInv, [Next]_vars PROVE FdInv'
<1>1. CASE UNCHANGED vars
  <2>1. UNCHANGED <<pc, env, fd>>
    BY <1>1 DEF vars
  <2> QED
    BY <2>1 DEF FdInv, FdsOK
<1>2. ASSUME NEW e \in Kids, Runnable(e) PROVE FdInv'
  <2>1. CASE Call(e)
    BY <2>1, CallTable
  <2>2. CASE Destroy(e) \/ EchoWrites(e) \/ EchoEnds(e) \/ CatReads(e) \/ CatWrites(e) \/ OtherEnds(e)
    BY <2>2, ProgramTable
  <2>3. CASE Word(e) \/ Input0(e) \/ Output1(e) \/ EndOfString(e)
    BY <2>3, ParseTable
  <2>4. CASE Pipe(e) \/ Fork(e)
    BY <2>4, PipeTable, ForkTable
  <2>5. CASE Run(e) \/ CloseForKid(e) \/ WaitKid(e) \/ WaitRight(e)
    BY <2>5, RunTable
  <2>6. CASE SpawnOpen(e) \/ Exofork(e) \/ InitStack(e)
    BY <2>6, SpawnOpenTable, ExoforkTable, InitStackTable
  <2>7. CASE MapSegments(e) \/ CopySharedPages(e) \/ Start(e)
    BY <2>7, MapSegmentsTable, CopySharedTable, StartTable
  <2> QED
    BY <1>2, <2>1, <2>2, <2>3, <2>4, <2>5, <2>6, <2>7 DEF Runnable, Shells
<1> QED
  BY <1>1, <1>2, ShTable DEF Next, Kids

(* A program is started with its input, its output and no other descriptor;  *)
(* of its pipes it has the end it reads from or the end it writes to, and of *)
(* no pipe but those beside its own command.  A shell that waits or is gone  *)
(* has closed everything holds nothing open.  So no end of a pipe stays open *)
(* where nobody means to use it: for any lines in which a word stands before *)
(* each bar, any number of commands and environments, and whatever call      *)
(* fails, with one exception.  An environment that panics, cat or a shell    *)
(* whose fork() finds no environment, keeps what it has for ever: of pipes,  *)
(* ends of those beside its own command only, but the shell has both ends of *)
(* the one it has just made, so that the commands on the left can wait.      *)
THEOREM NoEndLeftOpen == Spec /\ []NoEmptyLeft => []NoStrayEnd
<1>1. Init => IInv /\ FdInv
  BY InitIInv, InitFds
<1>2. IInv /\ FdInv /\ NoEmptyLeft /\ [Next]_vars => (IInv /\ FdInv)'
  BY NextIInv, NextFds DEF IInv
<1>3. FdInv => NoStrayEnd
  <2> SUFFICES ASSUME FdInv, NEW e \in Kids
               PROVE  /\ pc[e] = "program" => /\ Source(env[e].stage, fd[e][0]) /\ Sink(env[e].stage, fd[e][1])
                                              /\ Only(fd[e], {0, 1})
                      /\ pc[e] \in Done => Only(fd[e], {})
                      /\ pc[e] = "panic" => Stopped(env[e].stage, fd[e])
    BY DEF NoStrayEnd
  <2> QED
    BY TableFacts DEF TableOK
<1> QED
  BY <1>1, <1>2, <1>3, PTL DEF Spec

------------------------------------------------------------------------------
(* What the parts of a line y say: the reference of Shell, of any text t.    *)
BarsIn(y) == {n \in 1 .. Len(y) : y[n] = "|"}
Rank(W, w) == Cardinality({v \in W : v <= w})
BarIn(y, n) == IF n = 0 THEN 0 ELSE IF n > Cardinality(BarsIn(y)) THEN Len(y) + 1
               ELSE CHOOSE b \in BarsIn(y) : Rank(BarsIn(y), b) = n
Seen(y, b, s) == SubSeq(y, b + 1, s - 1)         \* from behind b up to s
TextIn(y, n) == Seen(y, BarIn(y, n - 1), BarIn(y, n))

Words(t) == Starts(t) \ (Targets(t, "<") \cup Targets(t, ">"))
ArgsOf(t) == [i \in 1 .. Cardinality(Words(t)) |->
                WordAt(t, CHOOSE w \in Words(t) : Rank(Words(t), w) = i)]
LastTarget(t, symbol) == File(WordAt(t, Max(Targets(t, symbol))))
InOf(k, t) == IF Targets(t, "<") # {} THEN LastTarget(t, "<")
              ELSE IF k > 1 THEN Reads(k - 1) ELSE Terminal
OutOf(y, k) == IF k < Cardinality(BarsIn(y)) + 1 THEN Writes(k)
               ELSE IF Targets(TextIn(y, k), ">") # {} THEN LastTarget(TextIn(y, k), ">") ELSE Terminal

\* The arguments a are the words of t, each at its rank among them.
ArgsAre(t, a) ==
    /\ a \in Seq(Seq(STRING)) /\ Len(a) = Cardinality(Words(t))
    /\ \A w \in Words(t) : Rank(Words(t), w) \in 1 .. Len(a) /\ a[Rank(Words(t), w)] = WordAt(t, w)
    /\ \A i \in 1 .. Len(a) : \E w \in Words(t) : Rank(Words(t), w) = i

LEMMA LineIs ==
    /\ Bars = BarsIn(line) /\ Stages = Cardinality(BarsIn(line)) + 1
    /\ \A k : Text(k) = TextIn(line, k) /\ Arguments(k) = ArgsOf(TextIn(line, k))
    /\ \A k : Input(k) = InOf(k, TextIn(line, k)) /\ Output(k) = OutOf(line, k)
<1>1. Bars = BarsIn(line) /\ Stages = Cardinality(BarsIn(line)) + 1
  BY DEF Bars, Stages, BarsIn
<1>2. \A k : Bar(k) = BarIn(line, k)
  BY <1>1 DEF Bar, BarIn, Rank
<1>3. \A k : Text(k) = TextIn(line, k)
  BY <1>2 DEF Text, TextIn, Seen
<1>4. ASSUME NEW k PROVE Arguments(k) = ArgsOf(Text(k))
  BY DEF Arguments, ArgsOf, Words, Rank
<1>5. ASSUME NEW k PROVE Input(k) = InOf(k, Text(k))
  BY DEF Input, InOf, LastTarget
<1>6. ASSUME NEW k PROVE Output(k) = OutOf(line, k)
  BY <1>1, <1>3 DEF Output, OutOf, LastTarget
<1> QED
  BY <1>1, <1>3, <1>4, <1>5, <1>6

------------------------------------------------------------------------------
(* Texts that grow at their end.                                             *)
LEMMA MaxIn ==
    ASSUME NEW n \in Nat, NEW S \in SUBSET (1 .. n), S # {}
    PROVE  Max(S) \in S /\ \A y \in S : y <= Max(S)
<1> DEFINE Above == {k \in Nat : \A y \in S : y <= k}
<1>1. PICK m \in Above : \A k \in Above : m <= k
  <2>1. n \in Above
    OBVIOUS
  <2> QED
    BY <2>1, NatMin
<1>2. m \in S
  <2>1. SUFFICES ASSUME m \notin S PROVE FALSE
    OBVIOUS
  <2>2. \A y \in S : y <= m - 1 /\ m - 1 \in Nat
    BY <1>1, <2>1
  <2>3. m - 1 \in Above
    BY <1>1, <2>2
  <2> QED
    BY <1>1, <2>3
<1> QED
  BY <1>1, <1>2 DEF Max

LEMMA MaxIs ==
    ASSUME NEW n \in Nat, NEW S \in SUBSET (1 .. n), NEW x \in S, \A y \in S : y <= x PROVE Max(S) = x
<1>1. Max(S) \in S /\ \A y \in S : y <= Max(S)
  BY MaxIn
<1>2. x <= Max(S) /\ Max(S) <= x /\ x \in 1 .. n /\ Max(S) \in 1 .. n
  BY <1>1
<1> QED
  BY <1>2

LEMMA MinIn ==
    ASSUME NEW S \in SUBSET Nat, S # {} PROVE Min(S) \in S /\ \A y \in S : Min(S) <= y
BY NatMin DEF Min

LEMMA SubSeqIs ==
    ASSUME NEW t \in Seq(STRING), NEW n \in 1 .. Len(t) + 1, NEW m \in n - 1 .. Len(t)
    PROVE  /\ SubSeq(t, n, m) \in Seq(STRING) /\ Len(SubSeq(t, n, m)) = m - n + 1
           /\ \A i \in 1 .. m - n + 1 : SubSeq(t, n, m)[i] = t[n + i - 1]
<1>1. n \in Int /\ m \in Int /\ Len(t) \in Nat /\ \A i \in n .. m : t[i] \in STRING
  <2>1. Len(t) \in Nat /\ \A i \in 1 .. Len(t) : t[i] \in STRING
    OBVIOUS
  <2>2. \A i \in n .. m : i \in 1 .. Len(t)
    BY <2>1
  <2> QED
    BY <2>1, <2>2
<1>2. SubSeq(t, n, m) \in Seq(STRING)
  BY <1>1, SubSeqProperties
<1>3. Len(SubSeq(t, n, m)) = IF n <= m THEN m - n + 1 ELSE 0
  BY <1>1, SubSeqProperties
<1>4. \A i \in 1 .. m - n + 1 : SubSeq(t, n, m)[i] = t[n + i - 1]
  BY <1>1, SubSeqProperties
<1>5. IF n <= m THEN m - n + 1 = m - n + 1 ELSE m - n + 1 = 0
  BY <1>1
<1>6. Len(SubSeq(t, n, m)) = m - n + 1
  BY <1>3, <1>5
<1> QED
  BY <1>2, <1>4, <1>6

LEMMA SubSeqSame ==
    ASSUME NEW t \in Seq(STRING), NEW u \in Seq(STRING), NEW n \in 1 .. Len(t), NEW m \in n .. Len(t),
           Len(t) <= Len(u), \A i \in n .. m : u[i] = t[i]
    PROVE  SubSeq(u, n, m) = SubSeq(t, n, m)
<1> DEFINE x == SubSeq(t, n, m)
           y == SubSeq(u, n, m)
<1>1. n \in 1 .. Len(t) + 1 /\ m \in n - 1 .. Len(t) /\ n \in 1 .. Len(u) + 1 /\ m \in n - 1 .. Len(u)
      /\ n \in Nat /\ m \in Nat
  OBVIOUS
<1>2. x \in Seq(STRING) /\ Len(x) = m - n + 1 /\ \A i \in 1 .. m - n + 1 : x[i] = t[n + i - 1]
  BY <1>1, SubSeqIs
<1>3. y \in Seq(STRING) /\ Len(y) = m - n + 1 /\ \A i \in 1 .. m - n + 1 : y[i] = u[n + i - 1]
  BY <1>1, SubSeqIs
<1> HIDE DEF x, y
<1>4. \A i \in 1 .. m - n + 1 : n + i - 1 \in n .. m
  BY <1>1
<1>5. Len(x) = Len(y) /\ \A i \in 1 .. Len(x) : x[i] = y[i]
  BY <1>2, <1>3, <1>4
<1>6. x = y
  BY <1>2, <1>3, <1>5, SeqEqual
<1> QED
  BY <1>6 DEF x, y

\* u goes on from t, and no word of t goes on in u.
Grows(t, u) ==
    /\ t \in Seq(STRING) /\ u \in Seq(STRING) /\ Len(t) <= Len(u)
    /\ \A m \in 1 .. Len(t) : u[m] = t[m]
    /\ Len(t) = 0 \/ Len(u) = Len(t) \/ ~ IsWordChar(t[Len(t)]) \/ ~ IsWordChar(u[Len(t) + 1])

LEMMA WordStays ==
    ASSUME NEW t, NEW u, Grows(t, u), NEW n \in Starts(t) PROVE WordAt(u, n) = WordAt(t, n)
<1> DEFINE T == {m \in n .. Len(t) : \A i \in n .. m : IsWordChar(t[i])}
           U == {m \in n .. Len(u) : \A i \in n .. m : IsWordChar(u[i])}
<1>1. /\ t \in Seq(STRING) /\ u \in Seq(STRING) /\ Len(t) \in Nat /\ Len(u) \in Nat /\ Len(t) <= Len(u)
      /\ \A m \in 1 .. Len(t) : u[m] = t[m]
      /\ Len(t) = 0 \/ Len(u) = Len(t) \/ ~ IsWordChar(t[Len(t)]) \/ ~ IsWordChar(u[Len(t) + 1])
  BY DEF Grows
<1>2. n \in 1 .. Len(t) /\ IsWordChar(t[n])
  BY DEF Starts
<1>3. ASSUME NEW m \in U PROVE m \in T
  <2>1. m <= Len(t)
    <3>1. SUFFICES ASSUME m > Len(t) PROVE FALSE
      BY <1>1, <1>2
    <3>2. Len(t) \in n .. m /\ Len(t) + 1 \in n .. m /\ Len(t) # 0 /\ Len(u) # Len(t) /\ Len(t) \in 1 .. Len(t)
      BY <1>1, <1>2, <3>1
    <3>3. IsWordChar(u[Len(t)]) /\ IsWordChar(u[Len(t) + 1])
      BY <3>2
    <3> QED
      BY <1>1, <3>2, <3>3
  <2>2. \A i \in n .. m : i \in 1 .. Len(t)
    BY <1>1, <1>2, <2>1
  <2> QED
    BY <1>1, <1>2, <2>1, <2>2
<1>4. ASSUME NEW m \in T PROVE m \in U
  <2>1. m \in n .. Len(u) /\ \A i \in n .. m : i \in 1 .. Len(t)
    BY <1>1, <1>2
  <2> QED
    BY <1>1, <2>1
<1>5. T = U
  BY <1>3, <1>4
<1>6. n \in T /\ T \in SUBSET (1 .. Len(t))
  BY <1>1, <1>2
<1>7. T \subseteq n .. Len(t)
  OBVIOUS
<1> HIDE DEF T, U
<1>8. Max(T) \in n .. Len(t) /\ \A i \in n .. Max(T) : i \in 1 .. Len(t)
  <2>1. Max(T) \in n .. Len(t)
    BY <1>1, <1>6, <1>7, MaxIn
  <2> HIDE DEF T
  <2> QED
    BY <1>1, <1>2, <2>1
<1>9. SubSeq(u, n, Max(T)) = SubSeq(t, n, Max(T))
  BY <1>1, <1>2, <1>8, SubSeqSame
<1> QED
  BY <1>5, <1>9 DEF WordAt, T, U

LEMMA BeforeStays ==
    ASSUME NEW t, NEW u, Grows(t, u), NEW n \in 1 .. Len(t) + 1 PROVE Before(u, n) = Before(t, n)
<1> DEFINE T == {m \in 1 .. n - 1 : ~ Blank(t[m])}
           U == {m \in 1 .. n - 1 : ~ Blank(u[m])}
<1>1. Len(t) \in Nat /\ \A m \in 1 .. Len(t) : u[m] = t[m]
  BY DEF Grows
<1>2. \A m \in 1 .. n - 1 : m \in 1 .. Len(t) /\ u[m] = t[m]
  BY <1>1
<1>3. T = U
  BY <1>2
<1>4. T # {} => Max(T) \in 1 .. n - 1
  <2>1. n - 1 \in Nat /\ T \in SUBSET (1 .. n - 1)
    BY <1>1
  <2> HIDE DEF T
  <2> QED
    BY <2>1, MaxIn
<1> HIDE DEF T, U
<1> QED
  BY <1>2, <1>3, <1>4 DEF Before, T, U

LEMMA StartsStay ==
    ASSUME NEW t, NEW u, Grows(t, u), NEW n \in 1 .. Len(t) PROVE n \in Starts(u) <=> n \in Starts(t)
<1>1. Len(t) \in Nat /\ Len(u) \in Nat /\ Len(t) <= Len(u) /\ \A m \in 1 .. Len(t) : u[m] = t[m]
  BY DEF Grows
<1>2. u[n] = t[n] /\ (n # 1 => u[n - 1] = t[n - 1])
  BY <1>1
<1>3. n \in 1 .. Len(u)
  BY <1>1
<1> QED
  BY <1>2, <1>3 DEF Starts

\* The words of u are those of t and those that begin behind it.
Behind(t, u) == {n \in Starts(u) : n > Len(t)}
LEMMA WordsOf ==
    ASSUME NEW t, NEW u, Grows(t, u)
    PROVE  /\ \A n \in Starts(t) : n \in 1 .. Len(t) /\ WordAt(u, n) = WordAt(t, n)
           /\ \A c : Targets(u, c) = Targets(t, c) \cup {n \in Behind(t, u) : Before(u, n) = c}
           /\ Words(u) = Words(t) \cup {n \in Behind(t, u) : Before(u, n) \notin {"<", ">"}}
<1> DEFINE D == Behind(t, u)
<1>1. Len(t) \in Nat /\ Len(u) \in Nat /\ Len(t) <= Len(u)
  BY DEF Grows
<1>2. \A n \in Starts(t) : n \in 1 .. Len(t)
  BY DEF Starts
<1>3. \A n \in Starts(u) : n \in 1 .. Len(u)
  BY DEF Starts
<1>4. Starts(u) = Starts(t) \cup D
  <2>1. \A n \in Starts(u) : n \in D \/ n \in 1 .. Len(t)
    BY <1>1, <1>3 DEF Behind
  <2>2. \A n \in 1 .. Len(t) : n \in Starts(u) <=> n \in Starts(t)
    BY StartsStay
  <2> QED
    BY <1>2, <2>1, <2>2 DEF Behind
<1>5. \A n \in Starts(t) : Before(u, n) = Before(t, n)
  <2>1. \A n \in Starts(t) : n \in 1 .. Len(t) + 1
    BY <1>1, <1>2
  <2> QED
    BY <2>1, BeforeStays
<1>6. \A n \in Starts(t) : n \notin D
  BY <1>1, <1>2 DEF Behind
<1> HIDE DEF D
<1>7. \A c : Targets(u, c) = Targets(t, c) \cup {n \in D : Before(u, n) = c}
  <2> SUFFICES ASSUME NEW c PROVE Targets(u, c) = Targets(t, c) \cup {n \in D : Before(u, n) = c}
    OBVIOUS
  <2> QED
    BY <1>4, <1>5 DEF Targets
<1>8. Words(u) = Words(t) \cup {n \in D : Before(u, n) \notin {"<", ">"}}
  BY <1>4, <1>5, <1>6 DEF Words, Targets
<1> QED
  BY <1>2, <1>7, <1>8, WordStays DEF D

LEMMA TargetsIn ==
    ASSUME NEW t \in Seq(STRING), NEW c
    PROVE  /\ Len(t) \in Nat /\ Targets(t, c) \in SUBSET Starts(t) /\ Targets(t, c) \in SUBSET (1 .. Len(t))
           /\ Words(t) \in SUBSET (1 .. Len(t)) /\ Words(t) \in SUBSET Starts(t)
           /\ Targets(t, c) # {} => Max(Targets(t, c)) \in Targets(t, c)
<1>1. Len(t) \in Nat /\ Starts(t) \subseteq 1 .. Len(t)
  BY DEF Starts
<1>2. Targets(t, c) \in SUBSET Starts(t) /\ Words(t) \in SUBSET Starts(t)
  BY DEF Targets, Words
<1>3. Targets(t, c) \in SUBSET (1 .. Len(t))
  BY <1>1, <1>2
<1> QED
  BY <1>1, <1>2, <1>3, MaxIn

LEMMA SameTargets ==
    ASSUME NEW t, NEW u, Grows(t, u), NEW c, Targets(u, c) = Targets(t, c), Targets(t, c) # {}
    PROVE  LastTarget(u, c) = LastTarget(t, c)
<1>1. t \in Seq(STRING)
  BY DEF Grows
<1>2. Max(Targets(t, c)) \in Starts(t)
  BY <1>1, TargetsIn
<1> QED
  BY <1>2, WordStays DEF LastTarget

\* No word of t is lost or changed by what comes behind it.
LEMMA SameArguments ==
    ASSUME NEW t, NEW u, Grows(t, u), Words(u) = Words(t), NEW a, ArgsAre(t, a) PROVE ArgsAre(u, a)
<1>1. t \in Seq(STRING)
  BY DEF Grows
<1>2. \A w \in Words(t) : WordAt(u, w) = WordAt(t, w)
  BY <1>1, TargetsIn, WordStays
<1> QED
  BY <1>2 DEF ArgsAre

LEMMA RankIn ==
    ASSUME NEW n \in Nat, NEW W \in SUBSET (1 .. n)
    PROVE  /\ IsFiniteSet(W) /\ Cardinality(W) \in Nat
           /\ \A w \in 0 .. n : Rank(W, w) \in Nat /\ Rank(W, w) <= Cardinality(W)
           /\ \A v, w \in 0 .. n : v < w /\ w \in W => Rank(W, v) < Rank(W, w)
<1>1. IsFiniteSet(1 .. n)
  BY FS_Interval
<1>2. IsFiniteSet(W) /\ Cardinality(W) \in Nat
  BY <1>1, FS_Subset, FS_CardinalityType
<1>3. ASSUME NEW w \in 0 .. n
      PROVE  /\ IsFiniteSet({v \in W : v <= w}) /\ Rank(W, w) \in Nat /\ Rank(W, w) <= Cardinality(W)
  <2>1. {v \in W : v <= w} \subseteq W
    OBVIOUS
  <2> QED
    BY <1>2, <2>1, FS_Subset, FS_CardinalityType DEF Rank
<1>4. ASSUME NEW v \in 0 .. n, NEW w \in 0 .. n, v < w, w \in W PROVE Rank(W, v) < Rank(W, w)
  <2> DEFINE V == {x \in W : x <= v}
             X == {x \in W : x <= w}
  <2>1. V \subseteq X /\ w \in X /\ w \notin V
    <3>1. \A x \in W : x \in Nat
      OBVIOUS
    <3>2. v \in Nat /\ w \in Nat
      OBVIOUS
    <3>3. \A x \in W : x <= v => x <= w
      BY <1>4, <3>1, <3>2
    <3>4. w <= w /\ ~(w <= v)
      BY <1>4, <3>2
    <3> QED
      BY <1>4, <3>3, <3>4
  <2>2. IsFiniteSet(X) /\ Cardinality(V) <= Cardinality(X) /\ (Cardinality(V) = Cardinality(X) => V = X)
        /\ Cardinality(V) \in Nat /\ Cardinality(X) \in Nat
    BY <1>3, <2>1, FS_Subset, FS_CardinalityType
  <2> HIDE DEF V, X
  <2>3. Cardinality(V) < Cardinality(X)
    BY <2>1, <2>2
  <2> QED
    BY <2>3 DEF Rank, V, X
<1> QED
  BY <1>2, <1>3, <1>4

LEMMA SameRank ==
    ASSUME NEW n \in Nat, NEW W \in SUBSET (1 .. n), NEW v \in W, NEW w \in W, Rank(W, v) = Rank(W, w) PROVE v = w
<1>1. v \in 0 .. n /\ w \in 0 .. n /\ Rank(W, v) \in Nat
  BY RankIn
<1>2. ~(v < w) /\ ~(w < v)
  BY <1>1, RankIn, SMTT(20)
<1> QED
  BY <1>1, <1>2

\* One more at the end.
LEMMA RankGrows ==
    ASSUME NEW n \in Nat, NEW W \in SUBSET (1 .. n), NEW d \in Nat, d > n
    PROVE  /\ Cardinality(W \cup {d}) = Cardinality(W) + 1
           /\ \A w \in 0 .. n : Rank(W \cup {d}, w) = Rank(W, w)
           /\ Rank(W \cup {d}, d) = Cardinality(W) + 1
<1>1. IsFiniteSet(W) /\ d \notin W
  BY RankIn
<1>2. Cardinality(W \cup {d}) = Cardinality(W) + 1
  BY <1>1, FS_AddElement
<1>3. ASSUME NEW w \in 0 .. n PROVE Rank(W \cup {d}, w) = Rank(W, w)
  <2>1. {v \in W \cup {d} : v <= w} = {v \in W : v <= w}
    OBVIOUS
  <2> QED
    BY <2>1 DEF Rank
<1>4. {v \in W \cup {d} : v <= d} = W \cup {d}
  <2>1. \A v \in W \cup {d} : v <= d
    OBVIOUS
  <2> QED
    BY <2>1
<1> QED
  BY <1>2, <1>3, <1>4 DEF Rank

LEMMA OneArgument ==
    ASSUME NEW t, NEW u, Grows(t, u), NEW d \in Nat, d > Len(t), Words(u) = Words(t) \cup {d},
           NEW a, ArgsAre(t, a), NEW w \in Seq(STRING), WordAt(u, d) = w
    PROVE  ArgsAre(u, Append(a, w))
<1> DEFINE W == Words(t)
           X == Words(u)
           b == Append(a, w)
<1>1. t \in Seq(STRING)
  BY DEF Grows
<1>2. Len(t) \in Nat /\ W \in SUBSET (1 .. Len(t)) /\ \A x \in W : x \in 0 .. Len(t) /\ WordAt(u, x) = WordAt(t, x)
  BY <1>1, TargetsIn, WordStays
<1>3. /\ a \in Seq(Seq(STRING)) /\ Len(a) = Cardinality(W)
      /\ \A x \in W : Rank(W, x) \in 1 .. Len(a) /\ a[Rank(W, x)] = WordAt(t, x)
      /\ \A i \in 1 .. Len(a) : \E x \in W : Rank(W, x) = i
  BY DEF ArgsAre
<1> HIDE DEF W, X
<1>4. X = W \cup {d} /\ Cardinality(X) = Cardinality(W) + 1 /\ Rank(X, d) = Cardinality(W) + 1
      /\ \A x \in W : Rank(X, x) = Rank(W, x)
  <2>1. X = W \cup {d}
    BY DEF W, X
  <2>2. Len(t) \in Nat /\ W \in SUBSET (1 .. Len(t))
    BY <1>2
  <2>3. /\ Cardinality(W \cup {d}) = Cardinality(W) + 1
        /\ \A x \in 0 .. Len(t) : Rank(W \cup {d}, x) = Rank(W, x)
        /\ Rank(W \cup {d}, d) = Cardinality(W) + 1
    BY <2>2, RankGrows
  <2> QED
    BY <1>2, <2>1, <2>3
<1>5. b \in Seq(Seq(STRING)) /\ Len(b) = Len(a) + 1 /\ b[Len(a) + 1] = w /\ \A i \in 1 .. Len(a) : b[i] = a[i]
  BY <1>3, AppendProperties
<1>6. Len(a) \in Nat
  BY <1>3
<1> HIDE DEF b
<1>7. \A x \in X : Rank(X, x) \in 1 .. Len(b) /\ b[Rank(X, x)] = WordAt(u, x)
  <2>1. Rank(X, d) \in 1 .. Len(b) /\ b[Rank(X, d)] = WordAt(u, d)
    BY <1>3, <1>4, <1>5, <1>6
  <2>2. \A x \in W : Rank(X, x) \in 1 .. Len(b) /\ b[Rank(X, x)] = WordAt(u, x)
    <3> SUFFICES ASSUME NEW x \in W PROVE Rank(X, x) \in 1 .. Len(b) /\ b[Rank(X, x)] = WordAt(u, x)
      OBVIOUS
    <3>1. Rank(X, x) \in 1 .. Len(a) /\ a[Rank(X, x)] = WordAt(u, x)
      BY <1>2, <1>3, <1>4
    <3> QED
      BY <1>5, <1>6, <3>1
  <2> QED
    BY <1>4, <2>1, <2>2
<1>8. ASSUME NEW i \in 1 .. Len(b) PROVE \E x \in X : Rank(X, x) = i
  <2>1. CASE i = Len(b)
    BY <1>3, <1>4, <1>5, <2>1
  <2>2. CASE i \in 1 .. Len(a)
    BY <1>3, <1>4, <2>2
  <2> QED
    BY <1>5, <1>6, <2>1, <2>2
<1> QED
  BY <1>3, <1>4, <1>5, <1>7, <1>8 DEF ArgsAre, X, b

\* Each word has its place: these are the arguments.
LEMMA ArgumentsAre ==
    ASSUME NEW t \in Seq(STRING), NEW a, ArgsAre(t, a) PROVE a = ArgsOf(t)
<1> DEFINE W == Words(t)
<1>1. Len(t) \in Nat /\ W \in SUBSET (1 .. Len(t))
  BY TargetsIn
<1>2. /\ a \in Seq(Seq(STRING)) /\ Len(a) = Cardinality(W)
      /\ \A x \in W : Rank(W, x) \in 1 .. Len(a) /\ a[Rank(W, x)] = WordAt(t, x)
      /\ \A i \in 1 .. Len(a) : \E x \in W : Rank(W, x) = i
  BY DEF ArgsAre
<1> HIDE DEF W
<1>3. ASSUME NEW i \in 1 .. Len(a) PROVE a[i] = WordAt(t, CHOOSE w \in W : Rank(W, w) = i)
  <2>1. PICK x : x = CHOOSE w \in W : Rank(W, w) = i
    OBVIOUS
  <2>2. x \in W /\ Rank(W, x) = i
    BY <1>2, <2>1
  <2> QED
    BY <1>2, <2>1, <2>2
<1>4. a = [i \in 1 .. Len(a) |-> a[i]]
  BY <1>2, LenProperties
<1>5. a = [i \in 1 .. Cardinality(W) |-> WordAt(t, CHOOSE w \in W : Rank(W, w) = i)]
  BY <1>2, <1>3, <1>4
<1> QED
  BY <1>5 DEF ArgsOf, W

------------------------------------------------------------------------------
(* Positions of the line, and of the text of a command that begins behind b. *)
LEMMA SeenIs ==
    ASSUME NEW y \in Seq(STRING), NEW b \in 0 .. Len(y), NEW s \in b + 1 .. Len(y) + 1
    PROVE  /\ Seen(y, b, s) \in Seq(STRING) /\ Len(Seen(y, b, s)) = s - 1 - b
           /\ \A m \in b + 1 .. s - 1 : m - b \in 1 .. s - 1 - b /\ Seen(y, b, s)[m - b] = y[m]
           /\ \A i \in 1 .. s - 1 - b : Seen(y, b, s)[i] = y[b + i]
           /\ Len(y) \in Nat
<1>1. Len(y) \in Nat /\ b \in Nat /\ s \in Nat
  OBVIOUS
<1>2. b + 1 \in 1 .. Len(y) + 1 /\ s - 1 \in b + 1 - 1 .. Len(y) /\ s - 1 - (b + 1) + 1 = s - 1 - b
  BY <1>1
<1> DEFINE t == SubSeq(y, b + 1, s - 1)
<1>3. t \in Seq(STRING) /\ Len(t) = s - 1 - (b + 1) + 1 /\ \A i \in 1 .. s - 1 - (b + 1) + 1 : t[i] = y[b + 1 + i - 1]
  BY <1>2, SubSeqIs
<1> HIDE DEF t
<1>4. Len(t) = s - 1 - b /\ \A i \in 1 .. s - 1 - b : t[i] = y[b + i]
  <2>1. \A i \in 1 .. s - 1 - b : b + 1 + i - 1 = b + i
    BY <1>1
  <2> QED
    BY <1>2, <1>3, <2>1
<1>5. \A m \in b + 1 .. s - 1 : m - b \in 1 .. s - 1 - b /\ b + (m - b) = m
  BY <1>1
<1>6. \A m \in b + 1 .. s - 1 : t[m - b] = y[m]
  BY <1>4, <1>5
<1> QED
  BY <1>1, <1>3, <1>4, <1>5, <1>6 DEF Seen, t

\* No word goes on from before s to behind it.
Broken(y, b, s) == s = b + 1 \/ s = Len(y) + 1 \/ ~ IsWordChar(y[s - 1]) \/ ~ IsWordChar(y[s])

LEMMA SeenGrows ==
    ASSUME NEW y \in Seq(STRING), NEW b \in 0 .. Len(y), NEW s \in b + 1 .. Len(y) + 1,
           NEW e \in s .. Len(y) + 1, Broken(y, b, s)
    PROVE  Grows(Seen(y, b, s), Seen(y, b, e))
<1> DEFINE t == Seen(y, b, s)
           u == Seen(y, b, e)
<1>1. Len(y) \in Nat /\ b \in Nat /\ s \in Nat /\ e \in Nat /\ e \in b + 1 .. Len(y) + 1
  OBVIOUS
<1>2. t \in Seq(STRING) /\ Len(t) = s - 1 - b /\ \A i \in 1 .. s - 1 - b : t[i] = y[b + i]
  BY SeenIs
<1>3. u \in Seq(STRING) /\ Len(u) = e - 1 - b /\ \A i \in 1 .. e - 1 - b : u[i] = y[b + i]
  BY <1>1, SeenIs
<1> HIDE DEF t, u
<1>4. Len(t) <= Len(u) /\ \A m \in 1 .. Len(t) : u[m] = t[m]
  <2>1. \A m \in 1 .. Len(t) : m \in 1 .. s - 1 - b /\ m \in 1 .. e - 1 - b
    BY <1>1, <1>2
  <2> QED
    <3>1. Len(t) <= Len(u)
      BY <1>1, <1>2, <1>3
    <3> QED
      BY <1>2, <1>3, <2>1, <3>1
<1>5. Len(t) = 0 \/ Len(u) = Len(t) \/ ~ IsWordChar(t[Len(t)]) \/ ~ IsWordChar(u[Len(t) + 1])
  <2>1. CASE s = b + 1 \/ s = e
    BY <1>1, <1>2, <1>3, <2>1
  <2>2. CASE s # b + 1 /\ s # e
    <3>1. Len(t) \in 1 .. s - 1 - b /\ b + Len(t) = s - 1 /\ Len(t) + 1 \in 1 .. e - 1 - b /\ b + (Len(t) + 1) = s
          /\ s # Len(y) + 1
      BY <1>1, <1>2, <2>2
    <3>2. t[Len(t)] = y[b + Len(t)] /\ u[Len(t) + 1] = y[b + (Len(t) + 1)]
      BY <1>2, <1>3, <3>1
    <3>3. t[Len(t)] = y[s - 1] /\ u[Len(t) + 1] = y[s]
      BY <3>1, <3>2
    <3> QED
      BY <2>2, <3>1, <3>3 DEF Broken
  <2> QED
    BY <2>1, <2>2
<1> QED
  BY <1>2, <1>3, <1>4, <1>5 DEF Grows, t, u

\* Where words begin in the text.
LEMMA StartIs ==
    ASSUME NEW y \in Seq(STRING), NEW b \in 0 .. Len(y), NEW e \in b + 1 .. Len(y) + 1, NEW n \in b + 1 .. e - 1
    PROVE  n - b \in Starts(Seen(y, b, e)) <=> IsWordChar(y[n]) /\ (n = b + 1 \/ ~ IsWordChar(y[n - 1]))
<1> DEFINE u == Seen(y, b, e)
<1>1. Len(y) \in Nat /\ b \in Nat /\ e \in Nat /\ n \in Nat
  OBVIOUS
<1>2. u \in Seq(STRING) /\ Len(u) = e - 1 - b /\ \A m \in b + 1 .. e - 1 : u[m - b] = y[m]
  BY SeenIs
<1> HIDE DEF u
<1>3. n - b \in 1 .. Len(u) /\ u[n - b] = y[n] /\ (n - b = 1 <=> n = b + 1)
  BY <1>1, <1>2
<1>4. n # b + 1 => u[n - b - 1] = y[n - 1]
  <2>1. n # b + 1 => n - 1 \in b + 1 .. e - 1 /\ n - 1 - b = n - b - 1
    BY <1>1
  <2> QED
    BY <1>2, <2>1
<1> QED
  BY <1>3, <1>4 DEF Starts, u

\* A word that begins from s on begins where the line says.
LEMMA NewStarts ==
    ASSUME NEW y \in Seq(STRING), NEW b \in 0 .. Len(y), NEW s \in b + 1 .. Len(y) + 1, NEW e \in s .. Len(y) + 1
    PROVE  /\ \A d \in Starts(Seen(y, b, e)) : d > s - 1 - b =>
                 \E x \in s .. e - 1 : d = x - b /\ IsWordChar(y[x]) /\ (x = b + 1 \/ ~ IsWordChar(y[x - 1]))
           /\ \A n \in s .. e - 1 : n - b \in Starts(Seen(y, b, e))
                                       <=> IsWordChar(y[n]) /\ (n = b + 1 \/ ~ IsWordChar(y[n - 1]))
<1> DEFINE u == Seen(y, b, e)
<1>1. Len(y) \in Nat /\ b \in Nat /\ s \in Nat /\ e \in Nat /\ e \in b + 1 .. Len(y) + 1
  OBVIOUS
<1>2. Len(u) = e - 1 - b
  BY <1>1, SeenIs
<1>3. \A d \in Starts(u) : d \in 1 .. e - 1 - b
  BY <1>2 DEF Starts
<1>4. \A d \in Starts(u) : d > s - 1 - b => \E x \in s .. e - 1 : d = x - b
  <2> SUFFICES ASSUME NEW d \in Starts(u), d > s - 1 - b PROVE \E x \in s .. e - 1 : d = x - b
    OBVIOUS
  <2>1. d \in Nat /\ d <= e - 1 - b
    BY <1>1, <1>3
  <2>2. PICK x : x = b + d
    OBVIOUS
  <2>3. x \in s .. e - 1 /\ d = x - b
    BY <1>1, <2>1, <2>2
  <2> QED
    BY <2>3
<1>5. \A n \in s .. e - 1 : n \in b + 1 .. e - 1
  BY <1>1
<1>6. \A n \in s .. e - 1 : n - b \in Starts(u) <=> IsWordChar(y[n]) /\ (n = b + 1 \/ ~ IsWordChar(y[n - 1]))
  BY <1>1, <1>5, StartIs
<1> HIDE DEF u
<1>7. \A d \in Starts(u) : d > s - 1 - b =>
           \E x \in s .. e - 1 : d = x - b /\ IsWordChar(y[x]) /\ (x = b + 1 \/ ~ IsWordChar(y[x - 1]))
  <2> SUFFICES ASSUME NEW d \in Starts(u), d > s - 1 - b
               PROVE  \E x \in s .. e - 1 : d = x - b /\ IsWordChar(y[x]) /\ (x = b + 1 \/ ~ IsWordChar(y[x - 1]))
    OBVIOUS
  <2>1. PICK x \in s .. e - 1 : d = x - b
    BY <1>4
  <2> QED
    BY <1>6, <2>1
<1> QED
  BY <1>6, <1>7 DEF u

\* From s on only n .. p is a word, the one that begins at place x of the text.
OnlyWord(y, b, s, e, n, p, x) ==
    /\ y \in Seq(STRING) /\ b \in 0 .. Len(y) /\ s \in b + 1 .. Len(y) + 1 /\ e \in s .. Len(y) + 1 /\ Broken(y, b, s)
    /\ n \in s .. e - 1 /\ p \in n .. e - 1 /\ x = n - b
    /\ \A m \in s .. e - 1 : IsWordChar(y[m]) <=> m \in n .. p
    /\ p = e - 1 \/ ~ IsWordChar(y[p + 1])

LEMMA OneStart ==
    ASSUME NEW y, NEW b, NEW s, NEW e, NEW n, NEW p, NEW x, OnlyWord(y, b, s, e, n, p, x)
    PROVE  Behind(Seen(y, b, s), Seen(y, b, e)) = {x}
<1> DEFINE u == Seen(y, b, e)
           t == Seen(y, b, s)
<1>0. /\ y \in Seq(STRING) /\ b \in 0 .. Len(y) /\ s \in b + 1 .. Len(y) + 1 /\ e \in s .. Len(y) + 1 /\ Broken(y, b, s)
      /\ n \in s .. e - 1 /\ p \in n .. e - 1 /\ x = n - b
      /\ (\A m \in n .. p : IsWordChar(y[m])) /\ (\A m \in s .. e - 1 : m \notin n .. p => ~ IsWordChar(y[m]))
  <2>1. \A m \in n .. p : m \in s .. e - 1
    BY DEF OnlyWord
  <2> QED
    BY <2>1 DEF OnlyWord
<1>1. Len(y) \in Nat /\ b \in Nat /\ s \in Nat /\ e \in Nat /\ e \in b + 1 .. Len(y) + 1
  BY <1>0
<1>2. \A m \in s .. e - 1 : m - b \in Starts(u) <=> IsWordChar(y[m]) /\ (m = b + 1 \/ ~ IsWordChar(y[m - 1]))
  BY <1>0, NewStarts
<1>3. \A d \in Starts(u) : d > s - 1 - b =>
           \E m \in s .. e - 1 : d = m - b /\ IsWordChar(y[m]) /\ (m = b + 1 \/ ~ IsWordChar(y[m - 1]))
  BY <1>0, NewStarts
<1> HIDE DEF u
<1>4. n - b > s - 1 - b /\ n \in Nat /\ p \in Nat /\ n \in n .. p
  BY <1>0, <1>1
<1>5. IsWordChar(y[n]) /\ (n = b + 1 \/ ~ IsWordChar(y[n - 1]))
  <2>1. CASE n = s
    BY <1>0, <1>1, <1>4, <2>1 DEF Broken
  <2>2. CASE n # s
    <3>1. n - 1 \in s .. e - 1 /\ n - 1 \notin n .. p
      BY <1>0, <1>1, <2>2
    <3> QED
      BY <1>0, <1>4, <3>1
  <2> QED
    BY <2>1, <2>2
<1>6. n - b \in Starts(u)
  BY <1>0, <1>2, <1>5
<1>7. ASSUME NEW d \in Starts(u), d > s - 1 - b PROVE d = n - b
  <2>1. PICK m \in s .. e - 1 : d = m - b /\ IsWordChar(y[m]) /\ (m = b + 1 \/ ~ IsWordChar(y[m - 1]))
    BY <1>3, <1>7
  <2>2. m \in n .. p
    BY <1>0, <2>1
  <2>3. m # n => m - 1 \in n .. p /\ m # b + 1
    BY <1>0, <1>1, <1>4, <2>2
  <2>4. m = n
    BY <1>0, <2>1, <2>3
  <2> QED
    BY <2>1, <2>4
<1>8. Len(t) = s - 1 - b
  BY <1>0, SeenIs
<1> HIDE DEF t
<1>9. {d \in Starts(u) : d > Len(t)} = {x}
  BY <1>0, <1>4, <1>6, <1>7, <1>8
<1> QED
  BY <1>9 DEF Behind, u, t

Piece(y, n, p) == SubSeq(y, n, p)
LEMMA WordIs ==
    ASSUME NEW y, NEW b, NEW s, NEW e, NEW n, NEW p, NEW x, OnlyWord(y, b, s, e, n, p, x)
    PROVE  WordAt(Seen(y, b, e), x) = Piece(y, n, p) /\ Piece(y, n, p) \in Seq(STRING)
<1> DEFINE u == Seen(y, b, e)
           U == {m \in n - b .. Len(u) : \A i \in n - b .. m : IsWordChar(u[i])}
           v == SubSeq(u, n - b, p - b)
           w == SubSeq(y, n, p)
<1>0. /\ y \in Seq(STRING) /\ b \in 0 .. Len(y) /\ s \in b + 1 .. Len(y) + 1 /\ e \in s .. Len(y) + 1
      /\ n \in s .. e - 1 /\ p \in n .. e - 1 /\ x = n - b
      /\ (\A m \in n .. p : IsWordChar(y[m])) /\ (p = e - 1 \/ ~ IsWordChar(y[p + 1]))
  <2>1. \A m \in n .. p : m \in s .. e - 1
    BY DEF OnlyWord
  <2> QED
    BY <2>1 DEF OnlyWord
<1>1. Len(y) \in Nat /\ b \in Nat /\ e \in Nat /\ n \in Nat /\ p \in Nat /\ e \in b + 1 .. Len(y) + 1
      /\ n >= b + 1 /\ p >= n /\ p <= e - 1 /\ e <= Len(y) + 1
  BY <1>0
<1>2. u \in Seq(STRING) /\ Len(u) = e - 1 - b /\ \A i \in 1 .. e - 1 - b : u[i] = y[b + i]
  BY <1>0, <1>1, SeenIs
<1> HIDE DEF u
<1>3. /\ n - b \in 1 .. Len(u) + 1 /\ p - b \in n - b - 1 .. Len(u) /\ p - b \in n - b .. Len(u)
      /\ n \in 1 .. Len(y) + 1 /\ p \in n - 1 .. Len(y) /\ n - b \in 1 .. Len(u)
  BY <1>1, <1>2
<1>4. p - b \in U
  <2>1. ASSUME NEW i \in n - b .. p - b PROVE IsWordChar(u[i])
    <3>1. b + i \in n .. p /\ i \in 1 .. e - 1 - b
      BY <1>1, <1>3
    <3> QED
      BY <1>0, <1>2, <3>1
  <2> QED
    BY <1>3, <2>1
<1>5. ASSUME NEW m \in U PROVE m <= p - b
  <2>1. SUFFICES ASSUME m > p - b PROVE FALSE
    BY <1>1, <1>2
  <2>2. p - b + 1 \in n - b .. m /\ m \in Int /\ m <= e - 1 - b
    BY <1>1, <1>2, <2>1
  <2>3. p - b + 1 \in 1 .. e - 1 - b /\ b + (p - b + 1) = p + 1 /\ p # e - 1
    BY <1>1, <2>1, <2>2
  <2>4. IsWordChar(u[p - b + 1]) /\ u[p - b + 1] = y[b + (p - b + 1)]
    BY <1>2, <2>2, <2>3
  <2> QED
    BY <1>0, <2>3, <2>4
<1>6. U \in SUBSET (1 .. Len(u)) /\ Len(u) \in Nat
  <2>1. \A m \in n - b .. Len(u) : m \in 1 .. Len(u)
    BY <1>1, <1>2, <1>3
  <2> QED
    BY <1>2, <2>1
<1> HIDE DEF U
<1>7. Max(U) = p - b
  BY <1>4, <1>5, <1>6, MaxIs
<1>8. WordAt(u, n - b) = v
  BY <1>7 DEF WordAt, U
<1>9. v \in Seq(STRING) /\ Len(v) = p - b - (n - b) + 1 /\ \A i \in 1 .. p - b - (n - b) + 1 : v[i] = u[n - b + i - 1]
  BY <1>2, <1>3, SubSeqIs
<1>10. w \in Seq(STRING) /\ Len(w) = p - n + 1 /\ \A i \in 1 .. p - n + 1 : w[i] = y[n + i - 1]
  BY <1>0, <1>1, <1>3, SubSeqIs
<1> HIDE DEF v, w
<1>11. Len(v) = Len(w)
  BY <1>1, <1>9, <1>10
<1>12. ASSUME NEW i \in 1 .. Len(v) PROVE v[i] = w[i]
  <2>1. /\ i \in 1 .. p - b - (n - b) + 1 /\ i \in 1 .. p - n + 1
        /\ n - b + i - 1 \in 1 .. e - 1 - b /\ b + (n - b + i - 1) = n + i - 1
    BY <1>1, <1>9
  <2> QED
    BY <1>2, <1>9, <1>10, <2>1
<1>13. v = w
  BY <1>9, <1>10, <1>11, <1>12, SeqEqual
<1> QED
  BY <1>0, <1>8, <1>10, <1>13 DEF u, v, w, Piece

\* Before place x of the text, which is n of the line, q is the last character but blanks.
LastBefore(y, b, e, n, q, x) ==
    /\ y \in Seq(STRING) /\ b \in 0 .. Len(y) /\ e \in b + 1 .. Len(y) + 1 /\ n \in b + 1 .. e /\ x = n - b
    /\ q \in b + 1 .. n - 1 /\ ~ Blank(y[q]) /\ \A m \in q + 1 .. n - 1 : Blank(y[m])

LEMMA BeforeIs ==
    ASSUME NEW y, NEW b, NEW e, NEW n, NEW q, NEW x, LastBefore(y, b, e, n, q, x)
    PROVE  Before(Seen(y, b, e), x) = y[q]
<1> DEFINE u == Seen(y, b, e)
           U == {m \in 1 .. n - b - 1 : ~ Blank(u[m])}
<1>0. /\ y \in Seq(STRING) /\ b \in 0 .. Len(y) /\ e \in b + 1 .. Len(y) + 1 /\ n \in b + 1 .. e /\ x = n - b
      /\ q \in b + 1 .. n - 1 /\ ~ Blank(y[q]) /\ \A m \in q + 1 .. n - 1 : Blank(y[m])
  BY DEF LastBefore
<1>1. Len(y) \in Nat /\ b \in Nat /\ e \in Nat /\ n \in Nat /\ q \in Nat /\ q >= b + 1 /\ q <= n - 1 /\ n <= e
  BY <1>0
<1>2. Len(u) = e - 1 - b /\ \A i \in 1 .. e - 1 - b : u[i] = y[b + i]
  BY <1>0, SeenIs
<1> HIDE DEF u
<1>3. q - b \in 1 .. n - b - 1 /\ q - b \in 1 .. e - 1 - b /\ b + (q - b) = q
  BY <1>1
<1>4. q - b \in U /\ u[q - b] = y[q]
  BY <1>0, <1>2, <1>3
<1>5. ASSUME NEW m \in U PROVE m <= q - b
  <2>1. SUFFICES ASSUME m > q - b PROVE FALSE
    BY <1>1
  <2>2. b + m \in q + 1 .. n - 1 /\ m \in 1 .. e - 1 - b
    BY <1>1, <2>1
  <2> QED
    BY <1>0, <1>2, <2>2
<1>6. U \in SUBSET (1 .. n - b - 1) /\ n - b - 1 \in Nat
  BY <1>1
<1> HIDE DEF U
<1>7. Max(U) = q - b
  BY <1>4, <1>5, <1>6, MaxIs
<1> QED
  BY <1>0, <1>4, <1>7 DEF Before, U, u

------------------------------------------------------------------------------
(* What runcmd() has read of a command.                                      *)
LEMMA Chars ==
    /\ \A c : IsWordChar(c) => ~ Blank(c) /\ c \notin {"<", ">", "|"}
    /\ \A c : Blank(c) => ~ IsWordChar(c) /\ c \notin {"<", ">", "|"}
    /\ \A c \in {"<", ">", "|"} : ~ Blank(c) /\ ~ IsWordChar(c)
BY Zenon DEF IsWordChar, Blank, Symbol

\* b is where stage k begins: the bar before it, or 0.
Begins(y, k, b) == k \in Nat \ {0} /\ b \in {0} \cup BarsIn(y) /\ Rank(BarsIn(y), b) = k - 1

\* The output of a stage that redirects nothing is the terminal, unless one before did.
Inherits(y, k, o) == (\A m \in 1 .. k - 1 : Targets(TextIn(y, m), ">") = {}) => o = Terminal
OutOK(y, k, t, o) == IF Targets(t, ">") # {} THEN o = LastTarget(t, ">") ELSE Inherits(y, k, o)

Settled(t) == Before(t, Len(t) + 1) \notin {"<", ">"}

\* Of the command of stage k, that begins behind b, what is before s has been read: it
\* gave the arguments a, the input i and the output o.
ReadTo(y, k, b, s, a, i, o) ==
    /\ Begins(y, k, b) /\ \A m \in b + 1 .. s - 1 : y[m] # "|"
    /\ Broken(y, b, s) /\ Settled(Seen(y, b, s))
    /\ ArgsAre(Seen(y, b, s), a) /\ i = InOf(k, Seen(y, b, s)) /\ OutOK(y, k, Seen(y, b, s), o)

LEMMA WordRead ==
    ASSUME NEW y \in Seq(STRING), NEW k, NEW b \in 0 .. Len(y), NEW s \in b + 1 .. Len(y) + 1, NEW a, NEW i, NEW o,
           ReadTo(y, k, b, s, a, i, o), NEW p \in s .. Len(y), \A m \in s .. p : IsWordChar(y[m]),
           p < Len(y) => ~ IsWordChar(y[p + 1]), NEW e \in p + 1 .. Len(y) + 1, \A m \in p + 1 .. e - 1 : Blank(y[m])
    PROVE  ReadTo(y, k, b, e, Append(a, Piece(y, s, p)), i, o)
<1> DEFINE t == Seen(y, b, s)
           u == Seen(y, b, e)
           w == Piece(y, s, p)
           D == Behind(t, u)
<1>0. PICK d : d = s - b
  OBVIOUS
<1>1. /\ Len(y) \in Nat /\ b \in Nat /\ s \in Nat /\ p \in Nat /\ e \in Nat
      /\ e \in b + 1 .. Len(y) + 1 /\ e \in s .. Len(y) + 1 /\ s \in s .. e - 1 /\ p \in s .. e - 1 /\ s \in b + 1 .. e - 1
      /\ s \in b + 1 .. e /\ p \in b + 1 .. e - 1 /\ e \in b + 1 .. e
  OBVIOUS
<1>2. /\ Begins(y, k, b) /\ (\A m \in b + 1 .. s - 1 : y[m] # "|") /\ Broken(y, b, s) /\ Settled(t)
      /\ ArgsAre(t, a) /\ i = InOf(k, t) /\ OutOK(y, k, t, o)
  BY DEF ReadTo
<1>3. t \in Seq(STRING) /\ u \in Seq(STRING) /\ Len(t) = s - 1 - b /\ Len(u) = e - 1 - b /\ Len(t) + 1 = d /\ d \in Nat
  BY <1>0, <1>1, SeenIs
<1>4. Grows(t, u)
  BY <1>1, <1>2, SeenGrows
<1>5. D = {d} /\ WordAt(u, d) = w /\ w \in Seq(STRING)
  <2>1. \A m \in s .. e - 1 : m \notin s .. p => ~ IsWordChar(y[m])
    BY <1>1, Chars
  <2>2. p = e - 1 \/ ~ IsWordChar(y[p + 1])
    BY <1>1
  <2>3. OnlyWord(y, b, s, e, s, p, d)
    BY <1>0, <1>1, <1>2, <2>1, <2>2 DEF OnlyWord
  <2>4. D = {d}
    BY <2>3, OneStart
  <2>5. WordAt(u, d) = w
    BY <2>3, WordIs
  <2>6. w \in Seq(STRING)
    BY <2>3, WordIs
  <2> QED
    BY <2>4, <2>5, <2>6
<1>7. Before(u, d) = Before(t, Len(t) + 1) /\ Before(u, d) \notin {"<", ">"}
  <2>1. d \in 1 .. Len(t) + 1
    BY <1>0, <1>1, <1>3
  <2> QED
    BY <1>2, <1>3, <1>4, <2>1, BeforeStays DEF Settled
<1>8. Settled(u)
  <2>1. ~ Blank(y[p]) /\ y[p] \notin {"<", ">"}
    BY <1>1, Chars
  <2>2. PICK x : x = Len(u) + 1
    OBVIOUS
  <2>3. x = e - b
    BY <1>1, <1>3, <2>2
  <2>4. LastBefore(y, b, e, e, p, x)
    BY <1>1, <2>1, <2>3 DEF LastBefore
  <2>5. Before(u, x) = y[p]
    BY <2>4, BeforeIs
  <2> QED
    BY <2>1, <2>2, <2>5 DEF Settled
<1>9. Broken(y, b, e)
  <2>1. CASE e = p + 1
    BY <1>1, <2>1 DEF Broken
  <2>2. CASE e # p + 1
    <3>1. e - 1 \in p + 1 .. e - 1
      BY <1>1, <2>2
    <3> QED
      BY <3>1, Chars DEF Broken
  <2> QED
    BY <2>1, <2>2
<1>10. \A m \in b + 1 .. e - 1 : y[m] # "|"
  <2>1. \A m \in b + 1 .. e - 1 : m \in b + 1 .. s - 1 \/ m \in s .. p \/ m \in p + 1 .. e - 1
    BY <1>1
  <2> QED
    BY <1>2, <2>1, Chars
<1> HIDE DEF t, u, w, D
<1>11. Words(u) = Words(t) \cup {d} /\ \A c \in {"<", ">"} : Targets(u, c) = Targets(t, c)
  <2>1. /\ Words(u) = Words(t) \cup {n \in D : Before(u, n) \notin {"<", ">"}}
        /\ \A c : Targets(u, c) = Targets(t, c) \cup {n \in D : Before(u, n) = c}
    BY <1>4, WordsOf DEF D
  <2> QED
    BY <1>5, <1>7, <2>1, ZenonT(60)
<1>12. ArgsAre(u, Append(a, w))
  <2>1. d > Len(t)
    BY <1>3
  <2> QED
    BY <1>2, <1>3, <1>4, <1>5, <1>11, <2>1, OneArgument
<1>13. \A c \in {"<", ">"} : Targets(t, c) # {} => LastTarget(u, c) = LastTarget(t, c)
  BY <1>4, <1>11, SameTargets
<1>14. i = InOf(k, u) /\ OutOK(y, k, u, o)
  BY <1>2, <1>11, <1>13 DEF InOf, OutOK
<1> QED
  BY <1>2, <1>8, <1>9, <1>10, <1>12, <1>14 DEF ReadTo, u, w

LEMMA TargetRead ==
    ASSUME NEW y \in Seq(STRING), NEW k, NEW b \in 0 .. Len(y), NEW s \in b + 1 .. Len(y), NEW a, NEW i, NEW o,
           ReadTo(y, k, b, s, a, i, o), y[s] \in {"<", ">"},
           NEW n \in s + 1 .. Len(y), \A m \in s + 1 .. n - 1 : Blank(y[m]),
           NEW p \in n .. Len(y), \A m \in n .. p : IsWordChar(y[m]),
           p < Len(y) => ~ IsWordChar(y[p + 1]), NEW e \in p + 1 .. Len(y) + 1, \A m \in p + 1 .. e - 1 : Blank(y[m])
    PROVE  /\ y[s] = "<" => ReadTo(y, k, b, e, a, File(Piece(y, n, p)), o)
           /\ y[s] = ">" => ReadTo(y, k, b, e, a, i, File(Piece(y, n, p)))
<1> DEFINE t == Seen(y, b, s)
           u == Seen(y, b, e)
           w == Piece(y, n, p)
           D == Behind(t, u)
           v == y[s]
<1>0. PICK d : d = n - b
  OBVIOUS
<1>1. /\ Len(y) \in Nat /\ b \in Nat /\ s \in Nat /\ p \in Nat /\ e \in Nat /\ n \in Nat /\ s \in b + 1 .. Len(y) + 1
      /\ e \in b + 1 .. Len(y) + 1 /\ e \in s .. Len(y) + 1 /\ n \in s .. e - 1 /\ p \in s .. e - 1 /\ n \in b + 1 .. e - 1
      /\ n \in b + 1 .. e /\ p \in b + 1 .. e - 1 /\ e \in b + 1 .. e /\ p \in n .. e - 1 /\ s \in b + 1 .. n - 1
      /\ n <= p /\ n # s
  OBVIOUS
<1>2. /\ Begins(y, k, b) /\ (\A m \in b + 1 .. s - 1 : y[m] # "|") /\ Broken(y, b, s) /\ Settled(t)
      /\ ArgsAre(t, a) /\ i = InOf(k, t) /\ OutOK(y, k, t, o)
  BY DEF ReadTo
<1>3. t \in Seq(STRING) /\ u \in Seq(STRING) /\ Len(t) = s - 1 - b /\ Len(u) = e - 1 - b /\ d \in Nat
  BY <1>0, <1>1, SeenIs
<1>4. Grows(t, u)
  BY <1>1, <1>2, SeenGrows
<1>5. D = {d} /\ WordAt(u, d) = w /\ w \in Seq(STRING)
  <2>1. \A m \in s .. e - 1 : m \notin n .. p => ~ IsWordChar(y[m])
    <3>1. \A m \in s .. e - 1 : m \notin n .. p => m = s \/ m \in s + 1 .. n - 1 \/ m \in p + 1 .. e - 1
      BY <1>1
    <3> QED
      BY <3>1, Chars
  <2>2. p = e - 1 \/ ~ IsWordChar(y[p + 1])
    BY <1>1
  <2>3. \A m \in n .. p : m \in s .. e - 1
    BY <1>1
  <2>4. \A m \in s .. e - 1 : IsWordChar(y[m]) <=> m \in n .. p
    BY <2>1, <2>3
  <2>5. OnlyWord(y, b, s, e, n, p, d)
    BY <1>0, <1>1, <1>2, <2>2, <2>4 DEF OnlyWord
  <2>6. D = {d}
    BY <2>5, OneStart
  <2>7. WordAt(u, d) = w
    BY <2>5, WordIs
  <2>8. w \in Seq(STRING)
    BY <2>5, WordIs
  <2> QED
    BY <2>6, <2>7, <2>8
<1>7. Before(u, d) = v
  <2>1. ~ Blank(y[s])
    BY Chars
  <2>2. LastBefore(y, b, e, n, s, d)
    BY <1>0, <1>1, <2>1 DEF LastBefore
  <2> QED
    BY <2>2, BeforeIs
<1>8. Settled(u)
  <2>1. ~ Blank(y[p]) /\ y[p] \notin {"<", ">"}
    BY <1>1, Chars
  <2>2. PICK x : x = Len(u) + 1
    OBVIOUS
  <2>3. x = e - b
    BY <1>1, <1>3, <2>2
  <2>4. LastBefore(y, b, e, e, p, x)
    BY <1>1, <2>1, <2>3 DEF LastBefore
  <2>5. Before(u, x) = y[p]
    BY <2>4, BeforeIs
  <2> QED
    BY <2>1, <2>2, <2>5 DEF Settled
<1>9. Broken(y, b, e)
  <2>1. CASE e = p + 1
    BY <1>1, <2>1 DEF Broken
  <2>2. CASE e # p + 1
    <3>1. e - 1 \in p + 1 .. e - 1
      BY <1>1, <2>2
    <3> QED
      BY <3>1, Chars DEF Broken
  <2> QED
    BY <2>1, <2>2
<1>10. \A m \in b + 1 .. e - 1 : y[m] # "|"
  <2>1. \A m \in b + 1 .. e - 1 : \/ m \in b + 1 .. s - 1 \/ m = s \/ m \in s + 1 .. n - 1
                                  \/ m \in n .. p \/ m \in p + 1 .. e - 1
    BY <1>1
  <2> QED
    BY <1>2, <2>1, Chars
<1>11. d > Len(t) /\ v \in {"<", ">"}
  BY <1>0, <1>1, <1>3
<1> HIDE DEF t, u, w, D, v
<1>12. /\ Words(u) = Words(t) /\ Targets(u, v) = Targets(t, v) \cup {d}
       /\ \A c \in {"<", ">"} \ {v} : Targets(u, c) = Targets(t, c)
  <2>1. /\ Words(u) = Words(t) \cup {x \in D : Before(u, x) \notin {"<", ">"}}
        /\ \A c : Targets(u, c) = Targets(t, c) \cup {x \in D : Before(u, x) = c}
    BY <1>4, WordsOf DEF D
  <2>2. \A c : c # v => {x \in D : Before(u, x) = c} = {}
    BY <1>5, <1>7
  <2>3. {x \in D : Before(u, x) = v} = {d} /\ {x \in D : Before(u, x) \notin {"<", ">"}} = {}
    BY <1>5, <1>7, <1>11
  <2> QED
    BY <2>1, <2>2, <2>3
<1>13. ArgsAre(u, a)
  BY <1>2, <1>4, <1>12, SameArguments
<1>14. \A c \in {"<", ">"} \ {v} : Targets(t, c) # {} => LastTarget(u, c) = LastTarget(t, c)
  BY <1>4, <1>12, SameTargets
<1>15. LastTarget(u, v) = File(w)
  <2>1. Targets(u, v) \in SUBSET (1 .. Len(u)) /\ Len(u) \in Nat /\ d \in Targets(u, v)
    BY <1>3, <1>12, TargetsIn
  <2>2. \A x \in Targets(u, v) : x <= d
    <3>1. \A x \in Targets(t, v) : x \in 1 .. Len(t)
      BY <1>3, TargetsIn
    <3> QED
      BY <1>3, <1>11, <1>12, <3>1
  <2>3. Max(Targets(u, v)) = d
    BY <2>1, <2>2, MaxIs
  <2> QED
    BY <1>5, <2>3 DEF LastTarget
<1>16. CASE v = "<"
  <2>1. File(w) = InOf(k, u) /\ OutOK(y, k, u, o)
    BY <1>2, <1>12, <1>14, <1>15, <1>16 DEF InOf, OutOK
  <2> QED
    BY <1>2, <1>8, <1>9, <1>10, <1>13, <1>16, <2>1 DEF ReadTo, u, v, w
<1>17. CASE v = ">"
  <2>1. i = InOf(k, u) /\ OutOK(y, k, u, File(w))
    BY <1>2, <1>12, <1>14, <1>15, <1>17 DEF InOf, OutOK
  <2> QED
    BY <1>2, <1>8, <1>9, <1>10, <1>13, <1>17, <2>1 DEF ReadTo, u, v, w
<1> QED
  BY <1>11, <1>16, <1>17 DEF v, w

------------------------------------------------------------------------------
(* gettoken(): the token that begins at s, and nothing but blanks before it. *)
Rest(y, p) == SubSeq(y, p + 1, Len(y))
Scanned(y, s, token) ==
    \/ s = Len(y) + 1 /\ token = NoToken
    \/ s \in 1 .. Len(y) /\ Symbol(y[s]) /\ token = [t |-> y[s], word |-> <<>>, rest |-> Rest(y, s)]
    \/ \E p \in s .. Len(y) :
          /\ \A m \in s .. p : IsWordChar(y[m])
          /\ p < Len(y) => ~ IsWordChar(y[p + 1])
          /\ token = [t |-> "w", word |-> Piece(y, s, p), rest |-> Rest(y, p)]

\* A part of a part.
LEMMA RestOf ==
    ASSUME NEW y \in Seq(STRING), NEW p \in 0 .. Len(y), NEW n \in 1 .. Len(Rest(y, p)) + 1, NEW m \in n - 1 .. Len(Rest(y, p))
    PROVE  SubSeq(Rest(y, p), n, m) = SubSeq(y, p + n, p + m)
<1> DEFINE r == Rest(y, p)
           v == SubSeq(r, n, m)
           w == SubSeq(y, p + n, p + m)
<1>1. Len(y) \in Nat /\ p \in Nat /\ p + 1 \in 1 .. Len(y) + 1 /\ Len(y) \in p + 1 - 1 .. Len(y)
  OBVIOUS
<1>2. r \in Seq(STRING) /\ Len(r) = Len(y) - (p + 1) + 1 /\ \A i \in 1 .. Len(y) - (p + 1) + 1 : r[i] = y[p + 1 + i - 1]
  BY <1>1, SubSeqIs DEF Rest
<1> HIDE DEF r
<1>3. /\ n \in Nat /\ m \in Int /\ p + n \in 1 .. Len(y) + 1 /\ p + m \in p + n - 1 .. Len(y)
      /\ n \in 1 .. Len(r) + 1 /\ m \in n - 1 .. Len(r) /\ Len(r) = Len(y) - p
  BY <1>1, <1>2 DEF r
<1>4. v \in Seq(STRING) /\ Len(v) = m - n + 1 /\ \A i \in 1 .. m - n + 1 : v[i] = r[n + i - 1]
  BY <1>2, <1>3, SubSeqIs
<1>5. w \in Seq(STRING) /\ Len(w) = p + m - (p + n) + 1 /\ \A i \in 1 .. p + m - (p + n) + 1 : w[i] = y[p + n + i - 1]
  BY <1>3, SubSeqIs
<1> HIDE DEF v, w
<1>6. Len(v) = Len(w)
  BY <1>1, <1>3, <1>4, <1>5
<1>7. ASSUME NEW i \in 1 .. Len(v) PROVE v[i] = w[i]
  <2>1. m <= Len(y) - p /\ Len(y) \in Nat /\ n >= 1 /\ n \in Nat /\ m \in Int /\ p \in Nat
    BY <1>1, <1>3
  <2>2. i \in 1 .. m - n + 1
    BY <1>4
  <2>3. PICK j : j = n + i - 1
    OBVIOUS
  <2>4. j \in 1 .. Len(y) - (p + 1) + 1 /\ p + 1 + j - 1 = p + n + i - 1 /\ i \in 1 .. p + m - (p + n) + 1
    BY <2>1, <2>2, <2>3
  <2>5. r[j] = y[p + n + i - 1]
    BY <1>2, <2>4
  <2>6. v[i] = r[j]
    BY <1>4, <2>2, <2>3
  <2>7. w[i] = y[p + n + i - 1]
    BY <1>5, <2>4
  <2> QED
    BY <2>5, <2>6, <2>7
<1>8. v = w
  BY <1>4, <1>5, <1>6, <1>7, SeqEqual
<1> QED
  BY <1>8 DEF v, w, r

LEMMA RestIs ==
    ASSUME NEW y \in Seq(STRING), NEW p \in 0 .. Len(y)
    PROVE  /\ Rest(y, p) \in Seq(STRING) /\ Len(Rest(y, p)) = Len(y) - p /\ Len(y) \in Nat
           /\ \A i \in 1 .. Len(y) - p : Rest(y, p)[i] = y[p + i]
<1>1. Len(y) \in Nat /\ p \in Nat /\ p + 1 \in 1 .. Len(y) + 1 /\ Len(y) \in p + 1 - 1 .. Len(y)
  OBVIOUS
<1>5. Len(y) - (p + 1) + 1 = Len(y) - p /\ \A i \in Nat : p + 1 + i - 1 = p + i
  OBVIOUS
<1> DEFINE r == Rest(y, p)
<1>2. r \in Seq(STRING) /\ Len(r) = Len(y) - (p + 1) + 1 /\ \A i \in 1 .. Len(y) - (p + 1) + 1 : r[i] = y[p + 1 + i - 1]
  BY <1>1, SubSeqIs DEF Rest
<1> HIDE DEF r
<1>3. \A i \in 1 .. Len(y) - p : i \in Nat /\ r[i] = y[p + 1 + i - 1]
  BY <1>5, <1>2
<1>4. \A i \in 1 .. Len(y) - p : r[i] = y[p + i]
  BY <1>5, <1>3
<1> QED
  BY <1>1, <1>2, <1>4, <1>5 DEF r

LEMMA SelectIs ==
    ASSUME NEW q \in Seq(STRING)
    PROVE  /\ LET n == SelectInSeq(q, LAMBDA c : ~ Blank(c)) IN
              \/ n = 0 /\ \A i \in 1 .. Len(q) : Blank(q[i])
              \/ n \in 1 .. Len(q) /\ ~ Blank(q[n]) /\ \A i \in 1 .. n - 1 : Blank(q[i])
           /\ LET z == WordEnd(q) IN
              /\ z \in 0 .. Len(q) /\ (\A i \in 1 .. z : IsWordChar(q[i])) /\ (z < Len(q) => ~ IsWordChar(q[z + 1]))
<1>0. Len(q) \in Nat
  OBVIOUS
<1>1. ASSUME NEW I \in SUBSET (1 .. Len(q)), I # {}
      PROVE  Min(I) \in I /\ Min(I) \in 1 .. Len(q) /\ \A i \in 1 .. Min(I) - 1 : i \notin I /\ i \in 1 .. Len(q)
  <2>1. I \in SUBSET Nat
    OBVIOUS
  <2>2. Min(I) \in I /\ \A i \in I : Min(I) <= i
    BY <1>1, <2>1, MinIn
  <2>3. PICK x : x = Min(I)
    OBVIOUS
  <2>4. x \in 1 .. Len(q) /\ \A i \in I : x <= i /\ i \in Nat
    BY <2>1, <2>2, <2>3
  <2>5. ASSUME NEW i \in 1 .. x - 1 PROVE i \notin I /\ i \in 1 .. Len(q)
    <3>1. i \in 1 .. Len(q) /\ ~ x <= i
      BY <1>0, <2>4
    <3> QED
      BY <2>4, <3>1
  <2> QED
    BY <2>2, <2>3, <2>4, <2>5
<1>2. LET n == SelectInSeq(q, LAMBDA c : ~ Blank(c)) IN
      \/ n = 0 /\ \A i \in 1 .. Len(q) : Blank(q[i])
      \/ n \in 1 .. Len(q) /\ ~ Blank(q[n]) /\ \A i \in 1 .. n - 1 : Blank(q[i])
  <2> DEFINE I == {i \in 1 .. Len(q) : ~ Blank(q[i])}
             n == SelectInSeq(q, LAMBDA c : ~ Blank(c))
  <2>1. n = IF I # {} THEN Min(I) ELSE 0
    BY DEF SelectInSeq
  <2>2. I \in SUBSET (1 .. Len(q)) /\ \A i \in 1 .. Len(q) : i \in I <=> ~ Blank(q[i])
    OBVIOUS
  <2> HIDE DEF I, n
  <2>3. CASE I = {}
    BY <2>1, <2>2, <2>3 DEF n
  <2>4. CASE I # {}
    BY <1>1, <2>1, <2>2, <2>4 DEF n
  <2> QED
    BY <2>3, <2>4
<1>3. LET z == WordEnd(q) IN
      /\ z \in 0 .. Len(q) /\ (\A i \in 1 .. z : IsWordChar(q[i])) /\ (z < Len(q) => ~ IsWordChar(q[z + 1]))
  <2> DEFINE J == {i \in 1 .. Len(q) : Blank(q[i]) \/ Symbol(q[i])}
             z == WordEnd(q)
  <2>1. z = IF J = {} THEN Len(q) ELSE Min(J) - 1
    <3>1. SelectInSeq(q, LAMBDA c : Blank(c) \/ Symbol(c)) = IF J # {} THEN Min(J) ELSE 0
      BY DEF SelectInSeq
    <3>2. J # {} => Min(J) # 0
      <4> HIDE DEF J
      <4>1. J \in SUBSET (1 .. Len(q))
        BY DEF J
      <4> QED
        BY <1>0, <1>1, <4>1
    <3> HIDE DEF J
    <3> QED
      BY <3>1, <3>2 DEF WordEnd
  <2>2. J \in SUBSET (1 .. Len(q)) /\ \A i \in 1 .. Len(q) : i \notin J <=> IsWordChar(q[i])
    BY DEF IsWordChar
  <2> HIDE DEF J, z
  <2>3. CASE J = {}
    BY <1>0, <2>1, <2>2, <2>3 DEF z
  <2>4. CASE J # {}
    <3>1. Min(J) \in J /\ Min(J) \in 1 .. Len(q) /\ \A i \in 1 .. Min(J) - 1 : i \notin J /\ i \in 1 .. Len(q)
      BY <1>1, <2>2, <2>4
    <3>2. z + 1 = Min(J) /\ z = Min(J) - 1 /\ z \in 0 .. Len(q)
      BY <1>0, <2>1, <2>4, <3>1
    <3> QED
      BY <2>2, <3>1, <3>2 DEF z
  <2> QED
    BY <2>3, <2>4
<1> QED
  BY <1>2, <1>3

LEMMA TokenAt ==
    ASSUME NEW y \in Seq(STRING), NEW p \in 0 .. Len(y)
    PROVE  \E s \in p + 1 .. Len(y) + 1 : (\A m \in p + 1 .. s - 1 : Blank(y[m])) /\ Scanned(y, s, GetToken(Rest(y, p)))
<1> DEFINE r == Rest(y, p)
           n == SelectInSeq(r, LAMBDA c : ~ Blank(c))
<1>1. r \in Seq(STRING) /\ Len(r) = Len(y) - p /\ Len(y) \in Nat /\ \A i \in 1 .. Len(y) - p : r[i] = y[p + i]
  BY RestIs
<1>2. \/ n = 0 /\ \A i \in 1 .. Len(r) : Blank(r[i])
      \/ n \in 1 .. Len(r) /\ ~ Blank(r[n]) /\ \A i \in 1 .. n - 1 : Blank(r[i])
  BY <1>1, SelectIs
<1>3. SkipBlanks(r) = IF n = 0 THEN <<>> ELSE SubSeq(r, n, Len(r))
  BY DEF SkipBlanks, From
<1> HIDE DEF n
<1>4. \A m \in p + 1 .. Len(y) : m - p \in 1 .. Len(r) /\ r[m - p] = y[m]
  <2> HIDE DEF r
  <2>1. \A m \in p + 1 .. Len(y) : m - p \in 1 .. Len(y) - p /\ p + (m - p) = m
    BY <1>1
  <2> QED
    BY <1>1, <2>1
<1>5. CASE n = 0 /\ \A i \in 1 .. Len(r) : Blank(r[i])
  <2>1. GetToken(r) = NoToken
    BY <1>3, <1>5 DEF GetToken, Token
  <2>2. \A m \in p + 1 .. Len(y) : Blank(y[m])
    BY <1>4, <1>5
  <2>3. Len(y) + 1 \in p + 1 .. Len(y) + 1 /\ Len(y) + 1 - 1 = Len(y)
    BY <1>1
  <2>4. Scanned(y, Len(y) + 1, GetToken(r))
    BY <2>1 DEF Scanned
  <2> QED
    BY <2>2, <2>3, <2>4
<1>6. CASE n \in 1 .. Len(r) /\ ~ Blank(r[n]) /\ \A i \in 1 .. n - 1 : Blank(r[i])
  <2>1. PICK s : s = p + n
    OBVIOUS
  <2>2. s \in p + 1 .. Len(y) /\ s - 1 \in 0 .. Len(y) /\ n - 1 \in Nat /\ s \in 1 .. Len(y) /\ n # 0 /\ s \in 0 .. Len(y)
    BY <1>1, <1>6, <2>1
  <2>3. \A m \in p + 1 .. s - 1 : Blank(y[m])
    <3>1. \A m \in p + 1 .. s - 1 : m \in p + 1 .. Len(y) /\ m - p \in 1 .. n - 1
      BY <1>1, <1>6, <2>1, <2>2
    <3> QED
      BY <1>4, <1>6, <3>1
  <2> DEFINE q == Rest(y, s - 1)
  <2>4. SubSeq(r, n, Len(r)) = q
    <3>1. n \in 1 .. Len(r) + 1 /\ Len(r) \in n - 1 .. Len(r)
      BY <1>1, <1>6
    <3>2. SubSeq(r, n, Len(r)) = SubSeq(y, p + n, p + Len(r))
      BY <3>1, RestOf
    <3>3. p + n = s - 1 + 1 /\ p + Len(r) = Len(y)
      BY <1>1, <1>6, <2>1
    <3> QED
      BY <3>2, <3>3 DEF Rest
  <2>5. q \in Seq(STRING) /\ Len(q) = Len(y) - (s - 1) /\ \A i \in 1 .. Len(y) - (s - 1) : q[i] = y[s - 1 + i]
    BY <2>2, RestIs
  <2>6. SkipBlanks(r) = q /\ GetToken(r) = Token(q)
    BY <1>3, <2>2, <2>4 DEF GetToken
  <2> HIDE DEF r, q
  <2>7. q # <<>> /\ Head(q) = y[s] /\ Len(q) \in Nat
    <3>1. 1 \in 1 .. Len(y) - (s - 1) /\ s - 1 + 1 = s
      BY <1>1, <2>2
    <3>2. q[1] = y[s] /\ Len(q) # 0
      BY <2>5, <3>1
    <3> QED
      BY <2>5, <3>2
  <2>8. ~ Blank(y[s])
    <3>1. r[n] = y[p + n]
      BY <1>1, <1>6
    <3> QED
      BY <1>6, <2>1, <3>1
  <2>9. CASE Symbol(y[s])
    <3>1. Tail(q) = Rest(y, s)
      <4>1. Tail(q) = SubSeq(q, 2, Len(q))
        BY <2>5, <2>7, HeadTailProperties DEF Tail
      <4>2. 2 \in 1 .. Len(q) + 1 /\ Len(q) \in 2 - 1 .. Len(q)
        BY <1>1, <2>2, <2>5
      <4>3. SubSeq(q, 2, Len(q)) = SubSeq(y, s - 1 + 2, s - 1 + Len(q))
        BY <2>2, <4>2, RestOf DEF q
      <4>4. s - 1 + 2 = s + 1 /\ s - 1 + Len(q) = Len(y)
        BY <1>1, <2>2, <2>5
      <4> QED
        BY <4>1, <4>3, <4>4 DEF Rest
    <3>2. Token(q) = [t |-> y[s], word |-> <<>>, rest |-> Rest(y, s)]
      BY <2>7, <2>9, <3>1 DEF Token
    <3>3. Scanned(y, s, Token(q))
      BY <2>2, <2>9, <3>2 DEF Scanned
    <3>4. s \in p + 1 .. Len(y) + 1
      BY <1>1, <2>2
    <3> QED
      BY <2>3, <2>6, <3>3, <3>4 DEF r
  <2>10. CASE ~ Symbol(y[s])
    <3> DEFINE z == WordEnd(q)
    <3>1. z \in 0 .. Len(q) /\ (\A i \in 1 .. z : IsWordChar(q[i])) /\ (z < Len(q) => ~ IsWordChar(q[z + 1]))
      BY <2>5, SelectIs
    <3>2. Token(q) = [t |-> "w", word |-> SubSeq(q, 1, z), rest |-> SubSeq(q, z + 1, Len(q))]
      BY <2>7, <2>10 DEF Token
    <3> HIDE DEF z
    <3>3. z # 0
      <4>1. q[1] = y[s] /\ 1 \in 1 .. Len(q) /\ 0 < Len(q) /\ 0 + 1 = 1
        <5>1. 1 \in 1 .. Len(y) - (s - 1) /\ s - 1 + 1 = s
          BY <1>1, <2>2
        <5> QED
          BY <2>5, <2>7, <5>1
      <4>2. IsWordChar(q[1])
        BY <2>8, <2>10, <4>1 DEF IsWordChar
      <4> QED
        BY <3>1, <4>1, <4>2
    <3>4. PICK x : x = s - 1 + z
      OBVIOUS
    <3>5. /\ x \in s .. Len(y) /\ z \in 1 - 1 .. Len(q) /\ 1 \in 1 .. Len(q) + 1 /\ z + 1 \in 1 .. Len(q) + 1
          /\ Len(q) \in z + 1 - 1 .. Len(q) /\ s - 1 + 1 = s /\ s - 1 + (z + 1) = x + 1 /\ s - 1 + Len(q) = Len(y)
      BY <1>1, <2>2, <2>5, <2>7, <3>1, <3>3, <3>4
    <3>6. SubSeq(q, 1, z) = Piece(y, s, x)
      <4>1. SubSeq(q, 1, z) = SubSeq(y, s - 1 + 1, s - 1 + z)
        BY <2>2, <3>5, RestOf DEF q
      <4> QED
        BY <3>4, <3>5, <4>1 DEF Piece
    <3>7. SubSeq(q, z + 1, Len(q)) = Rest(y, x)
      <4>1. PICK v : v = z + 1
        OBVIOUS
      <4>2. v \in 1 .. Len(q) + 1 /\ Len(q) \in v - 1 .. Len(q) /\ s - 1 + v = x + 1
        BY <3>5, <4>1
      <4>3. SubSeq(q, v, Len(q)) = SubSeq(y, s - 1 + v, s - 1 + Len(q))
        BY <2>2, <4>2, RestOf DEF q
      <4> QED
        BY <3>5, <4>1, <4>2, <4>3 DEF Rest
    <3>8. \A m \in s .. x : IsWordChar(y[m])
      <4> SUFFICES ASSUME NEW m \in s .. x PROVE IsWordChar(y[m])
        OBVIOUS
      <4>1. PICK i : i = m - (s - 1)
        OBVIOUS
      <4>2. i \in 1 .. z /\ i \in 1 .. Len(y) - (s - 1) /\ s - 1 + i = m
        BY <1>1, <2>2, <3>1, <3>4, <3>5, <4>1
      <4> QED
        BY <2>5, <3>1, <4>2
    <3>9. x < Len(y) => ~ IsWordChar(y[x + 1])
      <4> SUFFICES ASSUME x < Len(y) PROVE ~ IsWordChar(y[x + 1])
        OBVIOUS
      <4>1. z + 1 \in 1 .. Len(y) - (s - 1) /\ z < Len(q)
        BY <1>1, <2>2, <2>5, <3>1, <3>4, <3>5
      <4>2. q[z + 1] = y[s - 1 + (z + 1)]
        BY <2>5, <4>1
      <4> QED
        BY <3>1, <3>5, <4>1, <4>2
    <3>10. Scanned(y, s, Token(q))
      BY <3>2, <3>5, <3>6, <3>7, <3>8, <3>9 DEF Scanned
    <3>11. s \in p + 1 .. Len(y) + 1
      BY <1>1, <2>2
    <3> QED
      BY <2>3, <2>6, <3>10, <3>11 DEF r
  <2> QED
    BY <2>9, <2>10
<1> QED
  BY <1>2, <1>5, <1>6

------------------------------------------------------------------------------
(* From one bar to the next.                                                 *)
\* Where nothing of a command has been read yet.
LEMMA Begun ==
    ASSUME NEW y \in Seq(STRING), NEW k, NEW b \in 0 .. Len(y), NEW s \in b + 1 .. Len(y) + 1, NEW o,
           Begins(y, k, b), \A m \in b + 1 .. s - 1 : Blank(y[m]), Inherits(y, k, o)
    PROVE  ReadTo(y, k, b, s, <<>>, IF k > 1 THEN Reads(k - 1) ELSE Terminal, o)
<1> DEFINE t == Seen(y, b, s)
<1>1. Len(y) \in Nat /\ b \in Nat /\ s \in Nat /\ s - 1 - b \in Nat
  OBVIOUS
<1>2. t \in Seq(STRING) /\ Len(t) = s - 1 - b /\ \A i \in 1 .. s - 1 - b : t[i] = y[b + i]
  BY SeenIs
<1> HIDE DEF t
<1>3. \A i \in 1 .. Len(t) : Blank(t[i])
  <2>1. \A i \in 1 .. Len(t) : b + i \in b + 1 .. s - 1 /\ t[i] = y[b + i]
    BY <1>1, <1>2
  <2> QED
    BY <2>1
<1>4. Starts(t) = {}
  BY <1>3, Chars DEF Starts
<1>5. Words(t) = {} /\ \A c : Targets(t, c) = {}
  BY <1>4 DEF Words, Targets
<1>6. ArgsAre(t, <<>>)
  <2>1. Cardinality(Words(t)) = 0
    BY <1>5, FS_EmptySet
  <2>2. <<>> \in Seq(Seq(STRING)) /\ Len(<<>>) = 0
    OBVIOUS
  <2> QED
    BY <1>5, <2>1, <2>2 DEF ArgsAre
<1>7. Broken(y, b, s)
  <2>1. CASE s = b + 1
    BY <2>1 DEF Broken
  <2>2. CASE s # b + 1
    <3>1. s - 1 \in b + 1 .. s - 1
      BY <1>1, <2>2
    <3> QED
      BY <3>1, Chars DEF Broken
  <2> QED
    BY <2>1, <2>2
<1>8. Settled(t)
  <2>1. \A m \in 1 .. Len(t) + 1 - 1 : m \in 1 .. Len(t)
    BY <1>1, <1>2
  <2>2. PICK n : n = Len(t) + 1
    OBVIOUS
  <2> DEFINE T == {m \in 1 .. n - 1 : ~ Blank(t[m])}
  <2>4. T = {}
    BY <1>3, <2>1, <2>2
  <2>5. Before(t, n) = IF T = {} THEN " " ELSE t[Max(T)]
    BY Zenon DEF Before
  <2> HIDE DEF T
  <2>3. Before(t, Len(t) + 1) = " "
    BY <2>2, <2>4, <2>5, Zenon
  <2> QED
    BY <2>3, Zenon DEF Settled
<1>9. \A m \in b + 1 .. s - 1 : y[m] # "|"
  BY Chars
<1>10. (IF k > 1 THEN Reads(k - 1) ELSE Terminal) = InOf(k, t) /\ OutOK(y, k, t, o)
  BY <1>5 DEF InOf, OutOK
<1> QED
  BY <1>6, <1>7, <1>8, <1>9, <1>10 DEF ReadTo, t

\* The text of a command that has been read up to a bar or the end.
LEMMA TextAt ==
    ASSUME NEW y \in Seq(STRING), NEW k, NEW b \in 0 .. Len(y), NEW s \in b + 1 .. Len(y) + 1,
           Begins(y, k, b), \A m \in b + 1 .. s - 1 : y[m] # "|"
    PROVE  /\ s = Len(y) + 1 => TextIn(y, k) = Seen(y, b, s) /\ k = Cardinality(BarsIn(y)) + 1
           /\ s # Len(y) + 1 /\ y[s] = "|" =>
                 TextIn(y, k) = Seen(y, b, s) /\ k < Cardinality(BarsIn(y)) + 1 /\ Begins(y, k + 1, s)
<1> DEFINE W == BarsIn(y)
           C == Cardinality(W)
<1>1. Len(y) \in Nat /\ b \in Nat /\ s \in Nat /\ k \in Nat \ {0} /\ b \in {0} \cup W /\ Rank(W, b) = k - 1
  BY DEF Begins
<1>2. W \in SUBSET (1 .. Len(y)) /\ \A m \in 1 .. Len(y) : m \in W <=> y[m] = "|"
  BY DEF BarsIn
<1> HIDE DEF W
<1>3. /\ IsFiniteSet(W) /\ C \in Nat /\ \A w \in 0 .. Len(y) : Rank(W, w) \in Nat /\ Rank(W, w) <= C
      /\ \A v, w \in 0 .. Len(y) : v < w /\ w \in W => Rank(W, v) < Rank(W, w)
  BY <1>1, <1>2, RankIn
<1>4. \A v, w \in W : Rank(W, v) = Rank(W, w) => v = w
  BY <1>1, <1>2, SameRank
<1>5. Rank(W, 0) = 0
  <2>1. \A v \in W : ~ v <= 0
    BY <1>2
  <2>2. {v \in W : v <= 0} = {}
    BY <2>1
  <2> QED
    BY <2>2, FS_EmptySet DEF Rank
<1>6. \A n \in Nat \ {0}, w \in W : Rank(W, w) = n => BarIn(y, n) = w
  <2> SUFFICES ASSUME NEW n \in Nat \ {0}, NEW w \in W, Rank(W, w) = n PROVE BarIn(y, n) = w
    OBVIOUS
  <2>1. w \in 0 .. Len(y)
    BY <1>2
  <2>2. n # 0 /\ ~ n > C
    BY <1>3, <2>1
  <2>3. BarIn(y, n) = CHOOSE v \in W : Rank(W, v) = n
    BY <2>2 DEF BarIn, W
  <2>4. \A v \in W : Rank(W, v) = n => v = w
    BY <1>4
  <2> QED
    BY <2>3, <2>4
<1>7. BarIn(y, k - 1) = b
  <2>1. CASE b = 0
    BY <1>1, <1>5, <2>1 DEF BarIn
  <2>2. CASE b \in W
    <3>1. 0 < b /\ 0 \in 0 .. Len(y) /\ b \in 0 .. Len(y)
      BY <1>1, <1>2, <2>2
    <3>2. 0 < k - 1
      BY <1>1, <1>3, <1>5, <2>2, <3>1
    <3>3. k - 1 \in Nat \ {0}
      BY <1>1, <3>2
    <3> QED
      BY <1>1, <1>6, <2>2, <3>3
  <2> QED
    BY <1>1, <2>1, <2>2
<1> DEFINE X == {v \in W : v <= b}
<1>8. IsFiniteSet(X) /\ Cardinality(X) = k - 1
  <2>1. IsFiniteSet(X)
    BY <1>3, FS_Subset
  <2> QED
    BY <1>1, <2>1 DEF Rank
<1>9. \A v \in W : v < s => v <= b
  <2>1. \A v \in W : v < s /\ ~ v <= b => v \in b + 1 .. s - 1 /\ v \in 1 .. Len(y)
    BY <1>1, <1>2
  <2> QED
    BY <1>2, <2>1
<1>10. ASSUME s = Len(y) + 1 PROVE TextIn(y, k) = Seen(y, b, s) /\ k = C + 1
  <2>1. \A v \in W : v < s
    BY <1>1, <1>2, <1>10
  <2>2. X = W
    BY <1>9, <2>1
  <2>3. k = C + 1
    <3>1. C = k - 1
      BY <1>8, <2>2
    <3> QED
      BY <1>1, <3>1
  <2>4. k # 0 /\ k > C
    BY <1>3, <2>3
  <2>5. BarIn(y, k) = s
    BY <1>10, <2>4 DEF BarIn, W
  <2> QED
    BY <1>7, <2>3, <2>5 DEF TextIn
<1>11. ASSUME s # Len(y) + 1, y[s] = "|"
       PROVE  TextIn(y, k) = Seen(y, b, s) /\ k < C + 1 /\ Begins(y, k + 1, s)
  <2>1. s \in 1 .. Len(y) /\ s \in 0 .. Len(y) /\ b < s
    BY <1>1, <1>11
  <2>2. s \in W
    BY <1>2, <1>11, <2>1
  <2>3. {v \in W : v <= s} = X \cup {s} /\ s \notin X
    <3>1. \A v \in W : v <= s <=> v < s \/ v = s
      BY <1>1, <1>2
    <3>2. \A v \in X : v < s
      BY <1>1, <1>2, <2>1
    <3>3. ~ s < s /\ s <= s
      BY <1>1
    <3>4. \A v \in W : v <= s <=> v \in X \/ v = s
      BY <1>9, <3>1, <3>2, <2>1
    <3>5. X \subseteq W
      OBVIOUS
    <3> HIDE DEF X
    <3> QED
      BY <2>2, <3>2, <3>3, <3>4, <3>5
  <2> HIDE DEF X
  <2>4. Cardinality(X \cup {s}) = k - 1 + 1
    BY <1>8, <2>3, FS_AddElement
  <2>5. Rank(W, s) = k
    <3>1. Rank(W, s) = k - 1 + 1
      BY <2>3, <2>4 DEF Rank
    <3> QED
      BY <1>1, <3>1
  <2>6. BarIn(y, k) = s
    BY <1>1, <1>6, <2>2, <2>5
  <2>7. k <= C
    BY <1>3, <2>1, <2>5
  <2>8. k < C + 1 /\ k + 1 - 1 = k /\ k + 1 \in Nat \ {0}
    BY <1>1, <1>3, <2>7
  <2>9. Begins(y, k + 1, s)
    BY <2>2, <2>5, <2>8 DEF Begins, W
  <2> QED
    BY <1>7, <2>6, <2>8, <2>9 DEF TextIn
<1> QED
  BY <1>10, <1>11 DEF W

------------------------------------------------------------------------------
(* What a shell at l knows of its command: x is its private state, i and o   *)
(* what its descriptors 0 and 1 name.                                        *)
Program(a) == a # <<>> /\ Head(a) \in Programs
Command(y, x, i) == x.argv = ArgsOf(TextIn(y, x.stage)) /\ i = InOf(x.stage, TextIn(y, x.stage))
Reading(y, x, i, o) ==
    \E b \in 0 .. Len(y) : \E s \in b + 1 .. Len(y) + 1 :
        ReadTo(y, x.stage, b, s, x.argv, i, o) /\ Scanned(y, s, x.ahead)
\* Nothing of stage k has been read but its first token.
AtStart(y, k, token, o) ==
    \E b \in 0 .. Len(y) : \E s \in b + 1 .. Len(y) + 1 :
        /\ Begins(y, k, b) /\ \A m \in b + 1 .. s - 1 : Blank(y[m])
        /\ Inherits(y, k, o) /\ Scanned(y, s, token)
Ordered(y, x, i, o) == Command(y, x, i) /\ (Program(x.argv) => o = OutOf(y, x.stage))
\* The last command writes where it says, or nothing before it says anything else.
OwnOut(y) ==
    LET last == Cardinality(BarsIn(y)) + 1 IN
    Program(ArgsOf(TextIn(y, last))) =>
       \/ Targets(TextIn(y, last), ">") # {}
       \/ \A m \in 1 .. last - 1 : Targets(TextIn(y, m), ">") = {}

LEMMA BegunReading ==
    ASSUME NEW y \in Seq(STRING), NEW x, NEW o, AtStart(y, x.stage, x.ahead, o), x.argv = <<>>
    PROVE  Reading(y, x, IF x.stage > 1 THEN Reads(x.stage - 1) ELSE Terminal, o)
<1>1. PICK b \in 0 .. Len(y) : \E s \in b + 1 .. Len(y) + 1 :
        /\ Begins(y, x.stage, b) /\ \A m \in b + 1 .. s - 1 : Blank(y[m])
        /\ Inherits(y, x.stage, o) /\ Scanned(y, s, x.ahead)
  BY DEF AtStart
<1>2. PICK s \in b + 1 .. Len(y) + 1 :
        /\ Begins(y, x.stage, b) /\ \A m \in b + 1 .. s - 1 : Blank(y[m])
        /\ Inherits(y, x.stage, o) /\ Scanned(y, s, x.ahead)
  BY <1>1
<1>3. ReadTo(y, x.stage, b, s, <<>>, IF x.stage > 1 THEN Reads(x.stage - 1) ELSE Terminal, o)
  BY <1>2, Begun
<1> QED
  BY <1>2, <1>3 DEF Reading

\* What kind of token begins at s.
LEMMA Kinds ==
    ASSUME NEW y, NEW s, NEW token, Scanned(y, s, token)
    PROVE  /\ token.t = "0" => s = Len(y) + 1
           /\ token.t \in {"<", "|", ">"} => s \in 1 .. Len(y) /\ y[s] = token.t /\ token.rest = Rest(y, s)
           /\ token.t = "w" =>
                \E p \in s .. Len(y) :
                   /\ \A m \in s .. p : IsWordChar(y[m])
                   /\ p < Len(y) => ~ IsWordChar(y[p + 1])
                   /\ token.word = Piece(y, s, p) /\ token.rest = Rest(y, p)
<1>1. CASE s = Len(y) + 1 /\ token = NoToken
  BY <1>1 DEF NoToken
<1>2. CASE s \in 1 .. Len(y) /\ Symbol(y[s]) /\ token = [t |-> y[s], word |-> <<>>, rest |-> Rest(y, s)]
  BY <1>2 DEF Symbol
<1>3. CASE \E p \in s .. Len(y) :
              /\ \A m \in s .. p : IsWordChar(y[m])
              /\ p < Len(y) => ~ IsWordChar(y[p + 1])
              /\ token = [t |-> "w", word |-> Piece(y, s, p), rest |-> Rest(y, p)]
  BY <1>3
<1> QED
  BY <1>1, <1>2, <1>3 DEF Scanned

LEMMA WordStep ==
    ASSUME NEW y \in Seq(STRING), NEW x, NEW i, NEW o, Reading(y, x, i, o), x.ahead.t = "w",
           NEW z, z.stage = x.stage, z.argv = Append(x.argv, x.ahead.word), z.ahead = Following(x.ahead)
    PROVE  Reading(y, z, i, o)
<1>0. Len(y) \in Nat
  OBVIOUS
<1>1. PICK b \in 0 .. Len(y) : \E s \in b + 1 .. Len(y) + 1 :
        ReadTo(y, x.stage, b, s, x.argv, i, o) /\ Scanned(y, s, x.ahead)
  BY DEF Reading
<1>2. PICK s \in b + 1 .. Len(y) + 1 : ReadTo(y, x.stage, b, s, x.argv, i, o) /\ Scanned(y, s, x.ahead)
  BY <1>1
<1>3. PICK p \in s .. Len(y) :
        /\ \A m \in s .. p : IsWordChar(y[m])
        /\ p < Len(y) => ~ IsWordChar(y[p + 1])
        /\ x.ahead.word = Piece(y, s, p) /\ x.ahead.rest = Rest(y, p)
  BY <1>2, Kinds
<1>4. p \in 0 .. Len(y)
  BY <1>0
<1>5. PICK e \in p + 1 .. Len(y) + 1 : (\A m \in p + 1 .. e - 1 : Blank(y[m])) /\ Scanned(y, e, z.ahead)
  BY <1>3, <1>4, TokenAt DEF Following
<1>6. ReadTo(y, x.stage, b, e, Append(x.argv, Piece(y, s, p)), i, o)
  BY <1>2, <1>3, <1>5, WordRead
<1>7. e \in b + 1 .. Len(y) + 1
  BY <1>0
<1> QED
  BY <1>3, <1>5, <1>6, <1>7 DEF Reading

LEMMA TargetStep ==
    ASSUME NEW y \in Seq(STRING), NEW x, NEW i, NEW o, Reading(y, x, i, o), x.ahead.t \in {"<", ">"},
           NEW target, target = Following(x.ahead), target.t = "w",
           NEW z, z.stage = x.stage, z.argv = x.argv, z.ahead = Following(target)
    PROVE  /\ x.ahead.t = "<" => Reading(y, z, File(target.word), o)
           /\ x.ahead.t = ">" => Reading(y, z, i, File(target.word))
<1>0. Len(y) \in Nat
  OBVIOUS
<1>1. PICK b \in 0 .. Len(y) : \E s \in b + 1 .. Len(y) + 1 :
        ReadTo(y, x.stage, b, s, x.argv, i, o) /\ Scanned(y, s, x.ahead)
  BY DEF Reading
<1>2. PICK s \in b + 1 .. Len(y) + 1 : ReadTo(y, x.stage, b, s, x.argv, i, o) /\ Scanned(y, s, x.ahead)
  BY <1>1
<1>3. s \in 1 .. Len(y) /\ y[s] = x.ahead.t /\ x.ahead.rest = Rest(y, s)
  BY <1>2, Kinds
<1>4. s \in 0 .. Len(y) /\ s \in b + 1 .. Len(y)
  BY <1>0, <1>3
<1>5. PICK n \in s + 1 .. Len(y) + 1 : (\A m \in s + 1 .. n - 1 : Blank(y[m])) /\ Scanned(y, n, target)
  BY <1>3, <1>4, TokenAt DEF Following
<1>6. PICK p \in n .. Len(y) :
        /\ \A m \in n .. p : IsWordChar(y[m])
        /\ p < Len(y) => ~ IsWordChar(y[p + 1])
        /\ target.word = Piece(y, n, p) /\ target.rest = Rest(y, p)
  BY <1>5, Kinds
<1>7. p \in 0 .. Len(y) /\ n \in s + 1 .. Len(y)
  BY <1>0
<1>8. PICK e \in p + 1 .. Len(y) + 1 : (\A m \in p + 1 .. e - 1 : Blank(y[m])) /\ Scanned(y, e, z.ahead)
  BY <1>6, <1>7, TokenAt DEF Following
<1>9. /\ y[s] = "<" => ReadTo(y, x.stage, b, e, x.argv, File(Piece(y, n, p)), o)
      /\ y[s] = ">" => ReadTo(y, x.stage, b, e, x.argv, i, File(Piece(y, n, p)))
  BY <1>2, <1>3, <1>4, <1>5, <1>6, <1>7, <1>8, TargetRead
<1>10. e \in b + 1 .. Len(y) + 1
  BY <1>0, <1>4
<1>11. CASE x.ahead.t = "<"
  <2>1. ReadTo(y, z.stage, b, e, z.argv, File(target.word), o)
    BY <1>3, <1>6, <1>9, <1>11
  <2> QED
    BY <1>8, <1>10, <1>11, <2>1 DEF Reading
<1>12. CASE x.ahead.t = ">"
  <2>1. ReadTo(y, z.stage, b, e, z.argv, i, File(target.word))
    BY <1>3, <1>6, <1>9, <1>12
  <2> QED
    BY <1>8, <1>10, <1>12, <2>1 DEF Reading
<1> QED
  BY <1>11, <1>12

LEMMA BarStep ==
    ASSUME NEW y \in Seq(STRING), NEW x, NEW i, NEW o, Reading(y, x, i, o), x.ahead.t = "|"
    PROVE  /\ Command(y, x, i) /\ OutOf(y, x.stage) = Writes(x.stage)
           /\ AtStart(y, x.stage + 1, Following(x.ahead), o)
<1> DEFINE k == x.stage
<1>0. Len(y) \in Nat
  OBVIOUS
<1>1. PICK b \in 0 .. Len(y) : \E s \in b + 1 .. Len(y) + 1 :
        ReadTo(y, k, b, s, x.argv, i, o) /\ Scanned(y, s, x.ahead)
  BY DEF Reading
<1>2. PICK s \in b + 1 .. Len(y) + 1 : ReadTo(y, k, b, s, x.argv, i, o) /\ Scanned(y, s, x.ahead)
  BY <1>1
<1>3. s \in 1 .. Len(y) /\ y[s] = "|" /\ x.ahead.rest = Rest(y, s)
  BY <1>2, Kinds
<1>4. s \in 0 .. Len(y) /\ s # Len(y) + 1
  BY <1>0, <1>3
<1>5. PICK n \in s + 1 .. Len(y) + 1 : (\A m \in s + 1 .. n - 1 : Blank(y[m])) /\ Scanned(y, n, Following(x.ahead))
  BY <1>3, <1>4, TokenAt DEF Following
<1> DEFINE t == Seen(y, b, s)
<1>6. /\ Begins(y, k, b) /\ (\A m \in b + 1 .. s - 1 : y[m] # "|")
      /\ ArgsAre(t, x.argv) /\ i = InOf(k, t) /\ OutOK(y, k, t, o)
  BY <1>2 DEF ReadTo
<1>7. TextIn(y, k) = t /\ k < Cardinality(BarsIn(y)) + 1 /\ Begins(y, k + 1, s)
  BY <1>3, <1>4, <1>6, TextAt
<1>8. t \in Seq(STRING)
  BY SeenIs
<1>9. k \in Nat \ {0}
  BY <1>6 DEF Begins
<1> HIDE DEF t
<1>10. Command(y, x, i)
  BY <1>6, <1>7, <1>8, ArgumentsAre DEF Command
<1>11. OutOf(y, k) = Writes(k)
  BY <1>7 DEF OutOf
<1>12. Inherits(y, k + 1, o)
  <2>1. PICK j : j = k + 1
    OBVIOUS
  <2>2. ASSUME \A m \in 1 .. j - 1 : Targets(TextIn(y, m), ">") = {} PROVE o = Terminal
    <3>1. k \in 1 .. j - 1 /\ \A m \in 1 .. k - 1 : m \in 1 .. j - 1
      BY <1>9, <2>1
    <3>2. Targets(t, ">") = {} /\ \A m \in 1 .. k - 1 : Targets(TextIn(y, m), ">") = {}
      BY <1>7, <2>2, <3>1
    <3> QED
      BY <1>6, <3>2 DEF OutOK, Inherits
  <2>3. Inherits(y, j, o)
    BY <2>2 DEF Inherits
  <2> QED
    BY <2>1, <2>3
<1>13. AtStart(y, k + 1, Following(x.ahead), o)
  BY <1>4, <1>5, <1>7, <1>12 DEF AtStart
<1> QED
  BY <1>10, <1>11, <1>13

LEMMA EndStep ==
    ASSUME NEW y \in Seq(STRING), NEW x, NEW i, NEW o, Reading(y, x, i, o), x.ahead.t = "0", OwnOut(y)
    PROVE  Ordered(y, x, i, o)
<1> DEFINE k == x.stage
<1>1. PICK b \in 0 .. Len(y) : \E s \in b + 1 .. Len(y) + 1 :
        ReadTo(y, k, b, s, x.argv, i, o) /\ Scanned(y, s, x.ahead)
  BY DEF Reading
<1>2. PICK s \in b + 1 .. Len(y) + 1 : ReadTo(y, k, b, s, x.argv, i, o) /\ Scanned(y, s, x.ahead)
  BY <1>1
<1>3. s = Len(y) + 1
  BY <1>2, Kinds
<1> DEFINE t == Seen(y, b, s)
           last == Cardinality(BarsIn(y)) + 1
<1>4. /\ Begins(y, k, b) /\ (\A m \in b + 1 .. s - 1 : y[m] # "|")
      /\ ArgsAre(t, x.argv) /\ i = InOf(k, t) /\ OutOK(y, k, t, o)
  BY <1>2 DEF ReadTo
<1>5. TextIn(y, k) = t /\ k = last
  BY <1>3, <1>4, TextAt
<1>6. t \in Seq(STRING)
  BY SeenIs
<1>7. k \in Nat \ {0}
  BY <1>4 DEF Begins
<1> HIDE DEF t
<1>8. Command(y, x, i)
  BY <1>4, <1>5, <1>6, ArgumentsAre DEF Command
<1>9. ASSUME Program(x.argv) PROVE o = OutOf(y, k)
  <2>1. ~ k < last
    BY <1>5, <1>7
  <2>2. OutOf(y, k) = IF Targets(t, ">") # {} THEN LastTarget(t, ">") ELSE Terminal
    BY <1>5, <2>1 DEF OutOf
  <2>3. Program(ArgsOf(TextIn(y, last)))
    BY <1>5, <1>8, <1>9 DEF Command
  <2>4. Targets(t, ">") # {} \/ \A m \in 1 .. k - 1 : Targets(TextIn(y, m), ">") = {}
    BY <1>5, <2>3 DEF OwnOut
  <2> QED
    BY <1>4, <2>2, <2>4 DEF OutOK, Inherits
<1> QED
  BY <1>8, <1>9 DEF Ordered

------------------------------------------------------------------------------
(* The arguments, the input and the output of a command, from the first      *)
(* token of it that is read to the program.                                  *)
Starting == {"exofork", "start", "program"} \cup {"stack", "segments", "share"}
Speaks == {"parse", "fork", "calls", "run", "spawn"} \cup Starting
\* The private state x and the table t of an environment at l are as the line y says.
LineOK(y, l, x, t) ==
    /\ l = "parse" => Reading(y, x, t[0], t[1])
    /\ l = "fork" => /\ Command(y, x, t[0]) /\ OutOf(y, x.stage) = Writes(x.stage)
                     /\ AtStart(y, x.stage + 1, x.ahead, t[1])
    /\ l = "calls" => /\ x.next = "parse" => x.argv = <<>> /\ x.stage > 1 /\ AtStart(y, x.stage, x.ahead, t[1])
                      /\ x.next = "run" => Command(y, x, t[0]) /\ OutOf(y, x.stage) = Writes(x.stage)
    /\ l \in {"run", "spawn"} \cup Starting => Ordered(y, x, t[0], t[1])
    /\ l = "spawn" => x.argv # <<>>
    /\ l \in Starting => Program(x.argv)

\* The child that spawn() has made is for the same arguments.
KidLike(e) == pc[e] \in Making => env[env[e].kid].argv = env[e].argv
LineInv == line \in Seq(STRING) /\ \A e \in Kids : LineOK(line, pc[e], env[e], fd[e]) /\ KidLike(e)

OwnOutput == OwnOut(line)

LEMMA SameOrder ==
    ASSUME NEW y, NEW x, NEW z, NEW t, NEW u, u[0] = t[0], u[1] = t[1], z.stage = x.stage, z.argv = x.argv,
           Ordered(y, x, t[0], t[1])
    PROVE  Ordered(y, z, u[0], u[1])
BY DEF Ordered, Command

LEMMA Silent ==
    /\ \A y, l, x, t : l \notin Speaks => LineOK(y, l, x, t)
    /\ \A y, x, t : x.next \in Closes => LineOK(y, "calls", x, t)
    /\ \A y, x, t : Ordered(y, x, t[0], t[1]) => LineOK(y, "run", x, t) /\ (x.argv # <<>> => LineOK(y, "spawn", x, t))
    /\ \A y, l, x, t : l \in Starting /\ Ordered(y, x, t[0], t[1]) /\ Program(x.argv) => LineOK(y, l, x, t)
<1>1. /\ Starting \subseteq Speaks /\ {"parse", "fork", "calls", "run", "spawn"} \subseteq Speaks
      /\ \A l \in Starting : l \notin {"parse", "fork", "calls", "run", "spawn"}
  BY DEF Starting, Speaks
<1>2. \A l \in Closes : l # "parse" /\ l # "run"
  BY Apart
<1> QED
  BY <1>1, <1>2 DEF LineOK

LEMMA SilentEnds ==
    \A l : l \in {"free", "unborn", "panic"} \cup Done \/ l = "close all" => l \notin Speaks /\ l \notin Making /\ l # "start"
BY DEF Done, Speaks, Starting, Making

LEMMA LineFacts ==
    ASSUME LineInv, NEW e \in Kids
    PROVE  line \in Seq(STRING) /\ LineOK(line, pc[e], env[e], fd[e]) /\ KidLike(e)
BY DEF LineInv

\* A step of e alone.
LEMMA OneLine ==
    ASSUME Chain, LineInv, UNCHANGED line, NEW e \in Kids, OthersStay({e}), pc[e] # "unborn",
           LineOK(line, pc'[e], env'[e], fd'[e]), pc'[e] \in Making => env'[env'[e].kid].argv = env'[e].argv
    PROVE  LineInv'
<1>1. line' = line /\ line \in Seq(STRING)
  BY DEF LineInv
<1>2. ASSUME NEW f \in Kids PROVE LineOK(line, pc'[f], env'[f], fd'[f]) /\ KidLike(f)'
  <2>1. CASE f = e
    BY <2>1 DEF KidLike
  <2>2. CASE f # e
    <3>1. pc'[f] = pc[f] /\ env'[f] = env[f] /\ fd'[f] = fd[f]
      BY <2>2 DEF OthersStay, Kids
    <3>2. pc[f] \in Making => env[f].kid \in Ids \ {e}
      BY ChildOfStart, ShIsNoKid
    <3>3. pc[f] \in Making => env'[env[f].kid] = env[env[f].kid]
      BY <3>2 DEF OthersStay
    <3> QED
      BY <3>1, <3>3, LineFacts DEF KidLike
  <2> QED
    BY <2>1, <2>2
<1> QED
  BY <1>1, <1>2 DEF LineInv

\* A step of e and of c.
LEMMA TwoLines ==
    ASSUME LineInv, UNCHANGED line, NEW e \in Ids, NEW c \in Kids, OthersStay({e, c}),
           e \in Kids => /\ LineOK(line, pc'[e], env'[e], fd'[e])
                         /\ pc'[e] \in Making => env'[env'[e].kid].argv = env'[e].argv,
           LineOK(line, pc'[c], env'[c], fd'[c]), pc'[c] \notin Making,
           \A f \in Kids \ {e, c} : pc[f] \in Making => env[f].kid \in Ids \ {e, c}
    PROVE  LineInv'
<1>1. line' = line /\ line \in Seq(STRING)
  BY DEF LineInv
<1>2. ASSUME NEW f \in Kids PROVE LineOK(line, pc'[f], env'[f], fd'[f]) /\ KidLike(f)'
  <2>1. CASE f \in {e, c}
    BY <2>1 DEF KidLike
  <2>2. CASE f \notin {e, c}
    <3>1. pc'[f] = pc[f] /\ env'[f] = env[f] /\ fd'[f] = fd[f]
      BY <2>2 DEF OthersStay, Kids
    <3>2. pc[f] \in Making => env'[env[f].kid] = env[env[f].kid]
      BY <2>2 DEF OthersStay
    <3> QED
      BY <3>1, <3>2, LineFacts DEF KidLike
  <2> QED
    BY <2>1, <2>2
<1> QED
  BY <1>1, <1>2 DEF LineInv

\* What other shells have made is neither e nor c.
LEMMA OwnKids ==
    ASSUME Chain, NEW e \in Ids, NEW c \in Kids, pc[e] # "unborn",
           pc[c] # "unborn" \/ (e \in Kids /\ pc[e] \in Making /\ c = env[e].kid)
    PROVE  \A f \in Kids \ {e, c} : pc[f] \in Making => env[f].kid \in Ids \ {e, c}
<1> SUFFICES ASSUME NEW f \in Kids \ {e, c}, pc[f] \in Making PROVE env[f].kid \in Ids \ {e, c}
  OBVIOUS
<1>1. env[f].kid \in Kids /\ pc[env[f].kid] = "unborn"
  BY ChildOfStart
<1>2. \A g \in Kids : pc[g] \in Making => At(g) \in Making
  BY DEF Making, At
<1>3. env[f].kid # c
  BY <1>1, <1>2 DEF Chain, KidsDiffer
<1> QED
  BY <1>1, <1>3, ShIsNoKid

\* e moves to l with the private state x, and no table changes.
LEMMA MovesLine ==
    ASSUME Chain, LineInv, UNCHANGED line, NEW e \in Kids, pc[e] # "unborn", NEW l, NEW x, Move(e, l, x),
           LineOK(line, l, x, fd[e]),
           l \in Making => pc[e] \in Making /\ x.kid = env[e].kid /\ x.argv = env[e].argv
    PROVE  LineInv'
<1>1. /\ pc'[e] = l /\ env'[e] = x /\ fd'[e] = fd[e] /\ OthersStay({e})
  BY DEF Move
<1>2. ASSUME l \in Making PROVE env'[x.kid].argv = x.argv
  <2>1. env[e].kid \in Ids \ {e}
    BY <1>2, ChildOfStart, ShIsNoKid
  <2>2. env'[env[e].kid] = env[env[e].kid]
    BY <1>1, <2>1 DEF OthersStay
  <2> QED
    BY <1>2, <2>2, LineFacts DEF KidLike
<1> QED
  BY <1>1, <1>2, OneLine

LEMMA ExitsLine ==
    ASSUME Chain, LineInv, UNCHANGED <<fd, line>>, NEW e \in Kids, pc[e] # "unborn", NEW x, DOMAIN x = Fields,
           CloseAll(e, x, "wait kid") \/ CloseAll(e, x, "destroy")
    PROVE  LineInv'
<1>1. PICK l \in Closes : CloseAll(e, x, l)
  BY ClosingEnds
<1>2. DOMAIN pc = Ids /\ DOMAIN env = Ids /\ e \in Ids
  BY ShIsNoKid DEF Chain, TypeOK
<1> DEFINE calls == [n \in DOMAIN OpenFds(e) |-> Close(OpenFds(e)[n])]
<1>3. CallAll(e, x, calls, l)
  BY <1>1 DEF CloseAll
<1> HIDE DEF calls
<1>4. OthersStay({e})
  BY <1>2, <1>3 DEF CallAll, Goto, Keeps, OthersStay
<1>5. LineOK(line, pc'[e], env'[e], fd'[e]) /\ pc'[e] \notin Making
  <2>1. CASE calls = <<>>
    <3>1. pc'[e] = l
      BY <1>2, <1>3, <2>1 DEF CallAll, Goto
    <3> QED
      BY <3>1, Apart, SilentEnds, Silent
  <2>2. CASE calls # <<>>
    <3>1. pc'[e] = "calls" /\ env'[e] = [x EXCEPT !.todo = calls, !.next = l]
      BY <1>2, <1>3, <2>2 DEF CallAll, Goto, Keeps
    <3>2. env'[e].next \in Closes
      BY <3>1 DEF Fields
    <3>3. "calls" \notin Making
      BY DEF Making
    <3>4. LineOK(line, "calls", env'[e], fd'[e])
      BY <3>2, Silent
    <3> QED
      BY <3>1, <3>3, <3>4
  <2> QED
    BY <2>1, <2>2
<1> QED
  BY <1>4, <1>5, OneLine

\* The calls of the two sides of a bar, and of close_all().
LEMMA CallLine == ASSUME Chain, FdInv, LineInv, NEW e \in Kids, Call(e) PROVE LineInv'
<1> DEFINE t == fd[e]
           todo == env[e].todo
           u == Changed(t, Head(todo))
           l == env[e].next
           k == env[e].stage
<1>1. pc[e] = "calls" /\ fd' = [fd EXCEPT ![e] = u] /\ CallAll(e, env[e], Tail(todo), l) /\ UNCHANGED line
  BY DEF Call, history
<1>2. DOMAIN pc = Ids /\ DOMAIN env = Ids /\ DOMAIN fd = Ids /\ e \in Ids /\ DOMAIN env[e] = Fields
  BY ShIsNoKid DEF Chain, TypeOK
<1>3. fd'[e] = u /\ \A f \in Ids \ {e} : fd'[f] = fd[f]
  BY <1>1, <1>2
<1>4. /\ IsTable(t) /\ todo # <<>> /\ l \in {"parse", "run"} \cup Closes
      /\ l = "parse" => RightTodo(k, t, todo)
      /\ l = "run" => LeftTodo(k, t, todo)
  BY <1>1, TableFacts DEF TableOK
<1>5. line \in Seq(STRING) /\ LineOK(line, "calls", env[e], t)
  BY <1>1, LineFacts
<1>6. /\ l = "parse" => env[e].argv = <<>> /\ k > 1 /\ AtStart(line, k, env[e].ahead, t[1])
      /\ l = "run" => Command(line, env[e], t[0]) /\ OutOf(line, k) = Writes(k)
  BY <1>5 DEF LineOK
<1> HIDE DEF t, todo, u, l, k
<1>7. /\ l = "parse" => u[1] = t[1] /\ (Tail(todo) = <<>> => u[0] = Reads(k - 1))
      /\ l = "run" => u[0] = t[0] /\ (Tail(todo) = <<>> => u[1] = Writes(k))
  BY <1>4, SidesNext DEF u
<1>8. CASE Tail(todo) = <<>>
  <2>1. pc' = [pc EXCEPT ![e] = l] /\ env' = [env EXCEPT ![e] = env[e]]
    BY <1>1, <1>8 DEF CallAll, Goto, Keeps
  <2>2. pc'[e] = l /\ env'[e] = env[e] /\ \A f \in Ids \ {e} : pc'[f] = pc[f] /\ env'[f] = env[f]
    BY <1>2, <2>1
  <2>3. LineOK(line, l, env[e], u) /\ l \notin Making
    <3>1. CASE l = "parse"
      <4>1. Reading(line, env[e], Reads(k - 1), u[1])
        BY <1>5, <1>6, <1>7, <1>8, <3>1, BegunReading DEF k
      <4> QED
        BY <1>7, <1>8, <3>1, <4>1 DEF LineOK, Starting, Making
    <3>2. CASE l = "run"
      <4>1. Ordered(line, env[e], u[0], u[1])
        BY <1>6, <1>7, <1>8, <3>2 DEF Ordered, k
      <4>2. LineOK(line, "run", env[e], u)
        BY <4>1, Silent
      <4> QED
        BY <3>2, <4>2 DEF Making
    <3>3. CASE l \in Closes
      BY <3>3, Apart, SilentEnds, Silent
    <3> QED
      BY <1>4, <3>1, <3>2, <3>3
  <2> QED
    BY <1>1, <1>3, <2>2, <2>3, OneLine DEF OthersStay
<1>9. CASE Tail(todo) # <<>>
  <2> DEFINE x == [env[e] EXCEPT !.todo = Tail(todo), !.next = l]
  <2>1. pc' = [pc EXCEPT ![e] = "calls"] /\ env' = [env EXCEPT ![e] = x]
    BY <1>1, <1>9 DEF CallAll, Goto, Keeps
  <2>2. x.next = l /\ x.stage = k /\ x.argv = env[e].argv /\ x.ahead = env[e].ahead
    BY <1>2 DEF Fields, k
  <2> HIDE DEF x
  <2>3. pc'[e] = "calls" /\ env'[e] = x /\ \A f \in Ids \ {e} : pc'[f] = pc[f] /\ env'[f] = env[f]
    BY <1>2, <2>1
  <2>4. l = "run" => Command(line, x, u[0])
    BY <1>6, <1>7, <2>2 DEF Command, k
  <2>5. LineOK(line, "calls", x, u)
    BY <1>6, <1>7, <2>2, <2>4 DEF LineOK, Starting
  <2>6. "calls" \notin Making
    BY DEF Making
  <2> QED
    BY <1>1, <1>3, <2>3, <2>5, <2>6, OneLine DEF OthersStay
<1> QED
  BY <1>8, <1>9

\* The programs, and the end.
LEMMA ProgramLine ==
    ASSUME Chain, LineInv, NEW e \in Kids,
           Destroy(e) \/ EchoWrites(e) \/ EchoEnds(e) \/ CatReads(e) \/ CatWrites(e) \/ OtherEnds(e)
    PROVE  LineInv'
<1>1. DOMAIN pc = Ids /\ DOMAIN env = Ids /\ e \in Ids /\ DOMAIN env[e] = Fields
  BY ShIsNoKid DEF Chain, TypeOK
<1>2. UNCHANGED <<fd, line>>
  BY DEF Destroy, EchoWrites, EchoEnds, CatReads, CatWrites, OtherEnds, history
<1>3. CASE Destroy(e)
  <2>1. pc[e] = "destroy"
    BY <1>3 DEF Destroy
  <2>2. Move(e, "free", env[e])
    BY <1>2, <1>3, MoveCases DEF Destroy
  <2> QED
    BY <1>2, <2>1, <2>2, MovesLine, SilentEnds, Silent
<1>4. CASE EchoWrites(e) \/ EchoEnds(e) \/ CatReads(e) \/ CatWrites(e) \/ OtherEnds(e)
  <2>1. pc[e] = "program"
    BY <1>4 DEF EchoWrites, EchoEnds, CatReads, CatWrites, OtherEnds, Runs
  <2>2. \/ Exit(e)
        \/ Goto(e, "panic") /\ UNCHANGED env
        \/ UNCHANGED pc /\ \E x : Keeps(e, x) /\ x.stage = env[e].stage /\ x.argv = env[e].argv
    <3>1. \A v, w : /\ [env[e] EXCEPT !.left = v].stage = env[e].stage /\ [env[e] EXCEPT !.carry = v].stage = env[e].stage
                    /\ [env[e] EXCEPT !.carry = v, !.left = w].stage = env[e].stage
                    /\ [env[e] EXCEPT !.left = v].argv = env[e].argv /\ [env[e] EXCEPT !.carry = v].argv = env[e].argv
                    /\ [env[e] EXCEPT !.carry = v, !.left = w].argv = env[e].argv
      BY <1>1 DEF Fields
    <3>2. EchoWrites(e) => UNCHANGED pc /\ \E x : Keeps(e, x) /\ x.stage = env[e].stage /\ x.argv = env[e].argv
      BY <3>1 DEF EchoWrites, Write, Wrote
    <3>3. CatWrites(e) => \/ Goto(e, "panic") /\ UNCHANGED env
                          \/ UNCHANGED pc /\ \E x : Keeps(e, x) /\ x.stage = env[e].stage /\ x.argv = env[e].argv
      BY <3>1, ZenonT(60) DEF CatWrites, Write
    <3>4. CatReads(e) => \/ Exit(e)
                         \/ UNCHANGED pc /\ \E x : Keeps(e, x) /\ x.stage = env[e].stage /\ x.argv = env[e].argv
      <4>1. CatReads(e) => \/ Exit(e)
                           \/ UNCHANGED pc /\ Keeps(e, [env[e] EXCEPT !.carry = 1])
                           \/ UNCHANGED pc /\ Keeps(e, [env[e] EXCEPT !.carry = 1, !.left = @ - 1])
        BY DEF CatReads
      <4>2. PICK w : w = env[e].left - 1
        OBVIOUS
      <4>3. PICK y, z : y = [env[e] EXCEPT !.carry = 1] /\ z = [env[e] EXCEPT !.carry = 1, !.left = w]
        OBVIOUS
      <4>4. y.stage = env[e].stage /\ y.argv = env[e].argv /\ z.stage = env[e].stage /\ z.argv = env[e].argv
        BY <3>1, <4>3
      <4>5. CatReads(e) => \/ Exit(e)
                           \/ UNCHANGED pc /\ Keeps(e, y)
                           \/ UNCHANGED pc /\ Keeps(e, z)
        BY <4>1, <4>2, <4>3
      <4> QED
        BY <4>4, <4>5
    <3> QED
      BY <1>4, <3>2, <3>3, <3>4 DEF EchoEnds, OtherEnds
  <2>3. CASE Exit(e)
    BY <1>1, <1>2, <2>1, <2>3, ExitsLine DEF Exit
  <2>4. CASE Goto(e, "panic") /\ UNCHANGED env
    <3>1. Move(e, "panic", env[e])
      BY <1>2, <2>4, MoveCases
    <3> QED
      BY <1>2, <2>1, <3>1, MovesLine, SilentEnds, Silent
  <2>5. CASE UNCHANGED pc /\ \E x : Keeps(e, x) /\ x.stage = env[e].stage /\ x.argv = env[e].argv
    <3>1. PICK x : Keeps(e, x) /\ x.stage = env[e].stage /\ x.argv = env[e].argv
      BY <2>5
    <3>2. Move(e, "program", x)
      BY <1>2, <2>1, <2>5, <3>1, MoveCases
    <3>3. LineOK(line, "program", env[e], fd[e])
      BY <2>1, LineFacts
    <3>4. "program" \in Starting /\ "program" \notin Making
      BY DEF Starting, Making
    <3>5. Ordered(line, env[e], fd[e][0], fd[e][1]) /\ Program(env[e].argv)
      BY <3>3, <3>4 DEF LineOK
    <3>6. Ordered(line, x, fd[e][0], fd[e][1]) /\ Program(x.argv)
      BY <3>1, <3>5, SameOrder
    <3>7. LineOK(line, "program", x, fd[e])
      BY <3>4, <3>6, Silent
    <3> QED
      BY <1>2, <2>1, <3>2, <3>4, <3>7, MovesLine
  <2> QED
    BY <2>2, <2>3, <2>4, <2>5
<1> QED
  BY <1>3, <1>4

LEMMA ParseLine ==
    ASSUME Chain, FdInv, LineInv, OwnOutput, NEW e \in Kids, Word(e) \/ Input0(e) \/ Output1(e) \/ EndOfString(e)
    PROVE  LineInv'
<1>1. DOMAIN pc = Ids /\ DOMAIN env = Ids /\ DOMAIN fd = Ids /\ e \in Ids /\ DOMAIN env[e] = Fields /\ DOMAIN fd = Ids
  BY ShIsNoKid DEF Chain, TypeOK
<1> DEFINE t == fd[e]
           v == env[e]
<1>2. pc[e] = "parse" /\ UNCHANGED line
  BY DEF Word, Input0, Output1, Redirect, EndOfString, Parses, history
<1>3. line \in Seq(STRING) /\ Reading(line, v, t[0], t[1])
  BY <1>2, LineFacts DEF LineOK
<1>4. /\ \A x, u : Reading(line, x, u[0], u[1]) => LineOK(line, "parse", x, u)
      /\ "parse" \notin Making /\ "run" \notin Making
  BY DEF LineOK, Starting, Making
<1>5. CASE Exit(e) /\ UNCHANGED fd
  BY <1>1, <1>2, <1>5, ExitsLine DEF Exit
<1>6. CASE Word(e) /\ ~Exit(e)
  <2>1. PICK x : x = [env[e] EXCEPT !.argv = Append(@, env[e].ahead.word), !.ahead = Following(@)]
    OBVIOUS
  <2>2. x.stage = v.stage /\ x.argv = Append(v.argv, v.ahead.word) /\ x.ahead = Following(v.ahead)
    BY <1>1, <2>1 DEF Fields
  <2>3. UNCHANGED pc /\ Keeps(e, x) /\ UNCHANGED fd /\ v.ahead.t = "w"
    BY <1>6, <2>1 DEF Word, Parses
  <2>4. Move(e, "parse", x)
    BY <1>2, <2>3, MoveCases
  <2> HIDE DEF v, t
  <2>5. Reading(line, x, t[0], t[1])
    BY <1>3, <2>2, <2>3, WordStep
  <2>6. LineOK(line, "parse", x, t)
    BY <1>4, <2>5
  <2> QED
    BY <1>2, <1>4, <2>4, <2>6, MovesLine DEF t
<1>7. CASE EndOfString(e)
  <2>1. Move(e, "run", env[e])
    BY <1>7, MoveCases DEF EndOfString
  <2>2. v.ahead.t = "0"
    BY <1>7 DEF EndOfString, Parses
  <2>3. Ordered(line, v, t[0], t[1])
    BY <1>3, <2>2, EndStep DEF OwnOutput
  <2>4. LineOK(line, "run", v, t)
    BY <2>3, Silent
  <2> QED
    BY <1>2, <1>4, <2>1, <2>4, MovesLine
<1>8. ASSUME NEW symbol \in {"<", ">"}, NEW n, NEW creates, Redirect(e, symbol, n, creates), ~(Exit(e) /\ UNCHANGED fd),
             n = IF symbol = "<" THEN 0 ELSE 1
      PROVE  LineInv'
  <2>1. PICK target : /\ fd' = [fd EXCEPT ![e][n] = File(target.word)] /\ UNCHANGED pc
                      /\ target = Following(env[e].ahead) /\ target.t = "w"
                      /\ Keeps(e, [env[e] EXCEPT !.ahead = Following(target)])
    BY <1>8 DEF Redirect
  <2>2. PICK x : x = [env[e] EXCEPT !.ahead = Following(target)]
    OBVIOUS
  <2>3. x.stage = v.stage /\ x.argv = v.argv /\ x.ahead = Following(target)
    BY <1>1, <2>2 DEF Fields
  <2>4. v.ahead.t = symbol
    BY <1>8 DEF Redirect, Parses
  <2>5. fd'[e] = [t EXCEPT ![n] = File(target.word)] /\ \A f \in Ids \ {e} : fd'[f] = fd[f]
    BY <1>1, <2>1
  <2> DEFINE u == fd'[e]
  <2>6. pc'[e] = "parse" /\ env'[e] = x /\ OthersStay({e})
    BY <1>1, <1>2, <2>1, <2>2, <2>5 DEF Keeps, OthersStay
  <2> HIDE DEF v, t
  <2>7. /\ symbol = "<" => Reading(line, x, File(target.word), t[1])
        /\ symbol = ">" => Reading(line, x, t[0], File(target.word))
    BY <1>3, <1>8, <2>1, <2>3, <2>4, TargetStep DEF v
  <2>8. DOMAIN t = Fds
    BY TableFacts DEF IsTable, t
  <2>9. 0 \in Fds /\ 1 \in Fds
    BY FdsAre
  <2>10. /\ n = 0 => u[0] = File(target.word) /\ u[1] = t[1]
         /\ n = 1 => u[0] = t[0] /\ u[1] = File(target.word)
    BY <2>5, <2>8, <2>9
  <2> HIDE DEF u
  <2>11. Reading(line, x, u[0], u[1])
    BY <1>8, <2>7, <2>10
  <2>12. LineOK(line, "parse", x, u)
    BY <1>4, <2>11
  <2> QED
    BY <1>2, <1>4, <2>6, <2>12, OneLine DEF u
<1>9. Word(e) => UNCHANGED fd
  BY DEF Word
<1> QED
  BY <1>5, <1>6, <1>7, <1>8, <1>9 DEF Input0, Output1

LEMMA PipeLine == ASSUME Chain, FdInv, LineInv, NEW e \in Kids, Pipe(e) PROVE LineInv'
<1>1. DOMAIN pc = Ids /\ DOMAIN env = Ids /\ DOMAIN fd = Ids /\ e \in Ids /\ DOMAIN env[e] = Fields
  BY ShIsNoKid DEF Chain, TypeOK
<1> DEFINE k == env[e].stage
           t == fd[e]
           r == NextFd(e)
           w == Min({n \in Fds : fd[e][n] = Closed /\ n # NextFd(e)})
           x == [env[e] EXCEPT !.p = <<r, w>>, !.ahead = Following(@)]
           u == [t EXCEPT ![r] = Reads(k), ![w] = Writes(k)]
<1>2. pc[e] = "parse" /\ env[e].ahead.t = "|" /\ UNCHANGED line
  BY DEF Pipe, Parses, history
<1>3. IsTable(t) /\ t[0] # Closed /\ t[1] # Closed /\ t[2] = Closed /\ t[3] = Closed
  <2>1. IsTable(t) /\ Source(k, t[0]) /\ Redirected(t[1]) /\ Only(t, {0, 1})
    BY <1>2, TableFacts DEF TableOK
  <2> QED
    BY <2>1, OpenEnds, FdsAre DEF Only
<1>4. r \in Fds \ {0, 1}
  <2>1. 2 \in {n \in Fds : t[n] = Closed}
    BY <1>3, FdsAre
  <2>2. r \in Fds /\ t[r] = Closed
    BY <2>1, NextFdClosed DEF NextFd
  <2> QED
    BY <1>3, <2>2
<1>5. w \in Fds \ {0, 1}
  <2> DEFINE C == {n \in Fds : t[n] = Closed /\ n # r}
  <2>1. C \subseteq Nat /\ C # {}
    <3>1. 2 \in C \/ 3 \in C
      BY <1>3, FdsAre
    <3> QED
      BY <3>1, FdsAre
  <2>2. \E n \in C : \A m \in C : n <= m
    BY <2>1, NatMin
  <2>3. Min(C) \in C
    BY <2>2 DEF Min
  <2>4. w = Min(C)
    OBVIOUS
  <2> QED
    BY <1>3, <2>3, <2>4
<1>6. fd' = [fd EXCEPT ![e][r] = Reads(k), ![e][w] = Writes(k)] /\ Keeps(e, x) /\ Goto(e, "fork")
  BY DEF Pipe
<1>7. fd'[e] = u /\ \A f \in Ids \ {e} : fd'[f] = fd[f]
  BY <1>1, <1>6
<1>8. x.stage = k /\ x.argv = env[e].argv /\ x.ahead = Following(env[e].ahead)
  BY <1>1 DEF Fields
<1> HIDE DEF r, w, x
<1>9. u[0] = t[0] /\ u[1] = t[1]
  BY <1>3, <1>4, <1>5, FdsAre DEF IsTable
<1>10. line \in Seq(STRING) /\ Reading(line, env[e], t[0], t[1])
  BY <1>2, LineFacts DEF LineOK
<1> HIDE DEF u, t, k
<1>11. Command(line, env[e], t[0]) /\ OutOf(line, k) = Writes(k) /\ AtStart(line, k + 1, x.ahead, t[1])
  BY <1>2, <1>8, <1>10, BarStep DEF k
<1>12. Command(line, x, u[0])
  BY <1>8, <1>9, <1>11 DEF Command, k
<1>13. LineOK(line, "fork", x, u) /\ "fork" \notin Making
  BY <1>8, <1>9, <1>11, <1>12 DEF LineOK, Starting, Making
<1>14. pc'[e] = "fork" /\ env'[e] = x /\ OthersStay({e})
  BY <1>1, <1>6, <1>7 DEF Keeps, Goto, OthersStay
<1> QED
  BY <1>2, <1>7, <1>13, <1>14, OneLine

LEMMA RunLine ==
    ASSUME Chain, LineInv, NEW e \in Kids, Run(e) \/ CloseForKid(e) \/ WaitKid(e) \/ WaitRight(e)
    PROVE  LineInv'
<1>1. DOMAIN env[e] = Fields /\ UNCHANGED <<fd, line>>
  BY ShIsNoKid DEF Chain, TypeOK, Run, CloseForKid, WaitKid, WaitRight, history
<1>2. pc[e] # "unborn"
  BY DEF Run, CloseForKid, WaitKid, WaitRight
<1>3. CASE CloseAll(e, env[e], "wait kid") \/ CloseAll(e, env[e], "destroy")
  BY <1>1, <1>2, <1>3, ExitsLine
<1>4. CASE pc[e] = "run" /\ Goto(e, "spawn") /\ UNCHANGED env /\ env[e].argv # <<>>
  <2>1. Move(e, "spawn", env[e])
    BY <1>1, <1>4, MoveCases
  <2>2. LineOK(line, "run", env[e], fd[e])
    BY <1>4, LineFacts
  <2>3. Ordered(line, env[e], fd[e][0], fd[e][1])
    BY <2>2 DEF LineOK
  <2>4. LineOK(line, "spawn", env[e], fd[e]) /\ "spawn" \notin Making
    BY <1>4, <2>3, Silent DEF Making
  <2> QED
    BY <1>1, <1>2, <2>1, <2>4, MovesLine
<1>5. CASE pc[e] = "wait kid" /\ Goto(e, "wait right") /\ UNCHANGED env
  <2>1. PICK l : l = "wait right"
    OBVIOUS
  <2>2. l \in Done
    BY <2>1 DEF Done
  <2>3. Move(e, l, env[e])
    BY <1>1, <1>5, <2>1, MoveCases
  <2> QED
    BY <1>1, <1>2, <2>2, <2>3, MovesLine, Silent, SilentEnds
<1> QED
  BY <1>3, <1>4, <1>5 DEF Run, CloseForKid, WaitKid, WaitRight, GivesUp, Exit

\* spawn(): from the words of the command to the program.
LEMMA SpawnOpenLine == ASSUME Chain, FdInv, LineInv, NEW e \in Kids, SpawnOpen(e) PROVE LineInv'
<1>1. DOMAIN pc = Ids /\ DOMAIN env = Ids /\ DOMAIN fd = Ids /\ e \in Ids /\ DOMAIN env[e] = Fields
  BY ShIsNoKid DEF Chain, TypeOK
<1>2. pc[e] = "spawn" /\ UNCHANGED line
  BY DEF SpawnOpen, history
<1>3. CASE GivesUp(e) /\ UNCHANGED fd
  BY <1>1, <1>2, <1>3, ExitsLine DEF GivesUp
<1> DEFINE k == env[e].stage
           t == fd[e]
           r == NextFd(e)
           v == File(Head(env[e].argv))
           x == [env[e] EXCEPT !.p = <<r, 0>>]
           u == [t EXCEPT ![r] = v]
<1>4. CASE fd' = [fd EXCEPT ![e][r] = v] /\ Keeps(e, x) /\ Goto(e, "exofork") /\ Head(env[e].argv) \in Programs
  <2>1. IsTable(t) /\ Source(k, t[0]) /\ Sink(k, t[1]) /\ Only(t, {0, 1})
    BY <1>2, TableFacts DEF TableOK
  <2>2. t[0] # Closed /\ t[1] # Closed /\ t[2] = Closed
    BY <2>1, OpenEnds, FdsAre DEF Only
  <2>3. r \in Fds \ {0, 1}
    <3>1. 2 \in {n \in Fds : t[n] = Closed}
      BY <2>2, FdsAre
    <3>2. r \in Fds /\ t[r] = Closed
      BY <3>1, NextFdClosed DEF NextFd
    <3> QED
      BY <2>2, <3>2
  <2>4. fd'[e] = u /\ \A f \in Ids \ {e} : fd'[f] = fd[f]
    BY <1>1, <1>4
  <2>5. x.stage = k /\ x.argv = env[e].argv
    BY <1>1 DEF Fields
  <2> HIDE DEF r, v, x
  <2>6. u[0] = t[0] /\ u[1] = t[1]
    BY <2>1, <2>3, FdsAre DEF IsTable
  <2>7. Ordered(line, env[e], t[0], t[1]) /\ env[e].argv # <<>>
    BY <1>2, LineFacts DEF LineOK
  <2>8. Program(x.argv)
    BY <1>4, <2>5, <2>7 DEF Program
  <2> HIDE DEF u, t, k
  <2>9. Ordered(line, x, u[0], u[1])
    BY <2>5, <2>6, <2>7, SameOrder DEF k
  <2>10. LineOK(line, "exofork", x, u) /\ "exofork" \notin Making
    BY <2>8, <2>9, Silent DEF Starting, Making
  <2>11. pc'[e] = "exofork" /\ env'[e] = x /\ OthersStay({e})
    BY <1>1, <1>4, <2>4 DEF Keeps, Goto, OthersStay
  <2> QED
    BY <1>2, <2>4, <2>10, <2>11, OneLine
<1> QED
  BY <1>3, <1>4 DEF SpawnOpen

\* In spawn() the command stays as it was read.
LEMMA StartingFacts ==
    ASSUME LineInv, NEW e \in Kids, pc[e] \in Starting
    PROVE  Ordered(line, env[e], fd[e][0], fd[e][1]) /\ Program(env[e].argv) /\ KidLike(e)
BY LineFacts DEF LineOK

LEMMA InitStackLine == ASSUME Chain, LineInv, NEW e \in Kids, InitStack(e) PROVE LineInv'
<1>1. DOMAIN env[e] = Fields /\ pc[e] = "stack" /\ UNCHANGED <<fd, line>>
  BY ShIsNoKid DEF Chain, TypeOK, InitStack
<1>2. CASE Goto(e, "segments") /\ UNCHANGED env
  <2>1. Move(e, "segments", env[e])
    BY <1>1, <1>2, MoveCases
  <2>2. pc[e] \in Starting /\ "segments" \in Starting /\ pc[e] \in Making
    BY <1>1 DEF Starting, Making
  <2>3. LineOK(line, "segments", env[e], fd[e])
    BY <2>2, StartingFacts, Silent
  <2> QED
    BY <1>1, <2>1, <2>2, <2>3, MovesLine
<1>3. CASE CloseAll(e, [env[e] EXCEPT !.kid = None], "wait kid")
  <2>1. PICK x : x = [env[e] EXCEPT !.kid = None]
    OBVIOUS
  <2>2. DOMAIN x = Fields
    BY <1>1, <2>1
  <2>3. CloseAll(e, x, "wait kid")
    BY <1>3, <2>1
  <2> QED
    BY <1>1, <2>2, <2>3, ExitsLine
<1> QED
  BY <1>2, <1>3 DEF InitStack

LEMMA MapSegmentsLine == ASSUME Chain, FdInv, LineInv, NEW e \in Kids, MapSegments(e) PROVE LineInv'
<1>1. DOMAIN pc = Ids /\ DOMAIN env = Ids /\ DOMAIN fd = Ids /\ e \in Ids /\ DOMAIN env[e] = Fields
  BY ShIsNoKid DEF Chain, TypeOK
<1> DEFINE t == fd[e]
           r == env[e].p[1]
           c == env[e].kid
           u == [t EXCEPT ![r] = Closed]
<1>2. pc[e] = "segments" /\ fd' = [fd EXCEPT ![e][r] = Closed] /\ UNCHANGED line
  BY DEF MapSegments
<1>3. fd'[e] = u /\ \A f \in Ids \ {e} : fd'[f] = fd[f]
  BY <1>1, <1>2
<1>4. IsTable(t) /\ r \in Fds \ {0, 1}
  BY <1>2, TableFacts DEF TableOK
<1>5. pc[e] \in Making /\ pc[e] \in Starting /\ "share" \in Starting
  BY <1>2 DEF Making, Starting
<1>6. c \in Kids /\ pc[c] = "unborn"
  BY <1>5, ChildOfStart
<1> HIDE DEF r, c
<1>7. u[0] = t[0] /\ u[1] = t[1]
  BY <1>4, FdsAre DEF IsTable
<1>8. Ordered(line, env[e], t[0], t[1]) /\ Program(env[e].argv) /\ env[c].argv = env[e].argv
  BY <1>5, StartingFacts DEF KidLike, c
<1> HIDE DEF u, t
<1>9. CASE Goto(e, "share") /\ UNCHANGED env
  <2>1. Ordered(line, env[e], u[0], u[1])
    BY <1>7, <1>8, SameOrder
  <2>2. LineOK(line, "share", env[e], u)
    BY <1>5, <1>8, <2>1, Silent
  <2>3. pc'[e] = "share" /\ env'[e] = env[e] /\ env' = env /\ OthersStay({e})
    BY <1>1, <1>3, <1>9 DEF Goto, OthersStay
  <2> QED
    BY <1>2, <1>3, <1>8, <2>2, <2>3, OneLine DEF c
<1>10. CASE pc' = [pc EXCEPT ![e] = "close all", ![c] = "free"] /\ Keeps(e, [env[e] EXCEPT !.kid = None])
  <2>1. c # e /\ c \in Ids
    BY <1>2, <1>6, ShIsNoKid
  <2>2. PICK l : l = "close all"
    OBVIOUS
  <2>3. l \notin Speaks /\ l \notin Making
    BY <2>2, SilentEnds
  <2>4. pc'[e] = l /\ pc'[c] = "free" /\ OthersStay({e, c})
    BY <1>1, <1>3, <1>10, <2>1, <2>2 DEF Keeps, OthersStay
  <2>5. LineOK(line, pc'[e], env'[e], fd'[e]) /\ LineOK(line, pc'[c], env'[c], fd'[c]) /\ pc'[c] \notin Making
    BY <2>3, <2>4, Silent, SilentEnds
  <2>6. \A f \in Kids \ {e, c} : pc[f] \in Making => env[f].kid \in Ids \ {e, c}
    BY <1>1, <1>2, <1>5, <1>6, OwnKids DEF c
  <2> QED
    BY <1>1, <1>2, <1>6, <2>3, <2>4, <2>5, <2>6, TwoLines
<1> QED
  BY <1>9, <1>10 DEF MapSegments, c

LEMMA CopySharedLine == ASSUME Chain, LineInv, NEW e \in Kids, CopySharedPages(e) PROVE LineInv'
<1>1. DOMAIN pc = Ids /\ DOMAIN env = Ids /\ DOMAIN fd = Ids /\ e \in Ids
  BY ShIsNoKid DEF Chain, TypeOK
<1> DEFINE c == env[e].kid
<1>2. pc[e] = "share" /\ pc' = [pc EXCEPT ![e] = "start"] /\ UNCHANGED <<env, line>> /\ fd' = [fd EXCEPT ![c] = fd[e]]
  BY DEF CopySharedPages, Goto, history
<1>3. pc[e] \in Making /\ pc[e] \in Starting /\ "start" \in Starting
  BY <1>2 DEF Making, Starting
<1>4. c \in Kids /\ pc[c] = "unborn" /\ c # e /\ c \in Ids
  BY <1>2, <1>3, ChildOfStart, ShIsNoKid
<1>5. Ordered(line, env[e], fd[e][0], fd[e][1]) /\ Program(env[e].argv) /\ env[c].argv = env[e].argv
  BY <1>3, StartingFacts DEF KidLike
<1>6. \A f \in Kids \ {e, c} : pc[f] \in Making => env[f].kid \in Ids \ {e, c}
  BY <1>1, <1>2, <1>3, <1>4, OwnKids
<1> HIDE DEF c
<1>7. /\ pc'[e] = "start" /\ pc'[c] = "unborn" /\ fd'[e] = fd[e] /\ OthersStay({e, c})
      /\ env'[e] = env[e] /\ env'[c] = env[c] /\ env'[e].kid = c
  BY <1>1, <1>2, <1>4 DEF OthersStay, c
<1>8. LineOK(line, "start", env[e], fd[e])
  BY <1>3, <1>5, Silent
<1>9. LineOK(line, pc'[c], env'[c], fd'[c]) /\ pc'[c] \notin Making
  BY <1>7, Silent, SilentEnds
<1> QED
  BY <1>1, <1>2, <1>4, <1>5, <1>6, <1>7, <1>8, <1>9, TwoLines

LEMMA StartLine == ASSUME Chain, FdInv, LineInv, NEW e \in Kids, Start(e) PROVE LineInv'
<1>1. DOMAIN pc = Ids /\ DOMAIN env = Ids /\ DOMAIN fd = Ids /\ e \in Ids
  BY ShIsNoKid DEF Chain, TypeOK
<1> DEFINE c == env[e].kid
           x == [env[c] EXCEPT !.left = OutLen]
<1>2. pc[e] = "start" /\ pc' = [pc EXCEPT ![e] = "close all", ![c] = "program"]
      /\ env' = [env EXCEPT ![c].left = OutLen] /\ UNCHANGED <<fd, line>>
  BY DEF Start, history
<1>3. pc[e] \in Making /\ pc[e] \in Starting /\ "program" \in Starting /\ "program" \notin Making
  BY <1>2 DEF Making, Starting
<1>4. c \in Kids /\ c # e /\ c \in Ids /\ env[c].stage = env[e].stage
  BY <1>2, <1>3, ChildOfStart, ShIsNoKid
<1>5. DOMAIN env[c] = Fields
  BY <1>4 DEF Chain, TypeOK
<1>6. Ordered(line, env[e], fd[e][0], fd[e][1]) /\ Program(env[e].argv) /\ env[c].argv = env[e].argv
  BY <1>3, StartingFacts DEF KidLike
<1>7. x.stage = env[e].stage /\ x.argv = env[e].argv
  BY <1>4, <1>5, <1>6 DEF Fields
<1>8. env'[c] = x /\ env'[e] = env[e] /\ fd[c] = fd[e]
  BY <1>1, <1>2, <1>4 DEF FdInv, FdsOK
<1>9. \A f \in Kids \ {e, c} : pc[f] \in Making => env[f].kid \in Ids \ {e, c}
  BY <1>1, <1>2, <1>3, <1>4, OwnKids
<1> HIDE DEF c, x
<1>10. PICK l : l = "close all"
  OBVIOUS
<1>11. l \notin Speaks /\ l \notin Making
  BY <1>10, SilentEnds
<1>12. pc'[e] = l /\ pc'[c] = "program" /\ OthersStay({e, c}) /\ fd'[c] = fd[e]
  BY <1>1, <1>2, <1>4, <1>8, <1>10 DEF OthersStay
<1>13. Ordered(line, x, fd[e][0], fd[e][1]) /\ Program(x.argv)
  BY <1>6, <1>7, SameOrder
<1>14. LineOK(line, "program", x, fd[e])
  BY <1>3, <1>13, Silent
<1>15. LineOK(line, pc'[e], env'[e], fd'[e])
  BY <1>11, <1>12, Silent
<1> QED
  BY <1>1, <1>2, <1>3, <1>4, <1>8, <1>9, <1>11, <1>12, <1>14, <1>15, TwoLines

\* fork() at a bar: the right side has the first token behind it, and nothing else.
LEMMA BarLine == ASSUME Chain, FdInv, LineInv, NEW e \in Kids, Fork(e) PROVE LineInv'
<1>1. DOMAIN pc = Ids /\ DOMAIN env = Ids /\ DOMAIN fd = Ids /\ e \in Ids /\ DOMAIN env[e] = Fields
  BY ShIsNoKid DEF Chain, TypeOK
<1>2. pc[e] = "fork" /\ UNCHANGED line
  BY DEF Fork, history
<1>3. CASE ~Room
  <2>1. Move(e, "panic", env[e])
    BY <1>3, MoveCases DEF Fork
  <2> QED
    BY <1>2, <2>1, MovesLine, SilentEnds, Silent
<1> DEFINE k == env[e].stage
           t == fd[e]
           left == LeftCalls(env[e].p)
           right == RightCalls(env[e].p)
<1>4. ASSUME Room PROVE LineInv'
  <2>1. PICK c : c = NewId
    OBVIOUS
  <2>2. c \in Kids /\ c \in Ids /\ pc[c] = "free" /\ c # e
    BY <1>2, <1>4, <2>1, NewIdUnused, ShIsNoKid
  <2>3. Command(line, env[e], t[0]) /\ OutOf(line, k) = Writes(k) /\ AtStart(line, k + 1, env[e].ahead, t[1])
    BY <1>2, LineFacts DEF LineOK
  <2> DEFINE x == [env[e] EXCEPT !.right = c, !.todo = left, !.next = "run"]
             y == [Fresh EXCEPT !.ahead = env[e].ahead, !.stage = env[e].stage + 1,
                                !.todo = right, !.next = "parse"]
  <2>4. pc' = [pc EXCEPT ![e] = "calls", ![c] = "calls"] /\ fd' = [fd EXCEPT ![c] = fd[e]]
    BY <1>4, <2>1 DEF Fork
  <2>5. env' = [env EXCEPT ![e].right = c, ![e].todo = left, ![e].next = "run", ![c] = y]
    BY <1>4, <2>1 DEF Fork
  <2>6. env'[e] = x /\ env'[c] = y /\ \A f \in Ids \ {e, c} : env'[f] = env[f]
    BY <1>1, <2>2, <2>5
  <2>7. x.stage = k /\ x.argv = env[e].argv /\ x.next = "run"
    BY <1>1 DEF Fields
  <2>8. y.stage = k + 1 /\ y.ahead = env[e].ahead /\ y.argv = <<>> /\ y.next = "parse"
    BY DEF Fresh
  <2>9. k + 1 > 1
    <3>1. e \in Ids /\ EnvOK(e) /\ k \in Nat
      BY <1>1 DEF Chain, TypeOK
    <3>2. k >= 1
      BY <1>2, <3>1 DEF EnvOK
    <3> QED
      BY <3>1, <3>2
  <2> HIDE DEF x, y, left, right, t, k
  <2>10. Command(line, x, t[0])
    BY <2>3, <2>7 DEF Command, k
  <2>11. LineOK(line, "calls", x, t)
    BY <2>3, <2>7, <2>10 DEF LineOK, Starting
  <2>12. LineOK(line, "calls", y, t)
    BY <2>3, <2>8, <2>9 DEF LineOK, Starting
  <2>13. pc'[e] = "calls" /\ pc'[c] = "calls" /\ fd'[e] = t /\ fd'[c] = t /\ OthersStay({e, c}) /\ "calls" \notin Making
    BY <1>1, <2>2, <2>4, <2>6 DEF OthersStay, t, Making
  <2>14. \A f \in Kids \ {e, c} : pc[f] \in Making => env[f].kid \in Ids \ {e, c}
    BY <1>1, <1>2, <2>2, OwnKids
  <2> QED
    BY <1>1, <1>2, <2>2, <2>6, <2>11, <2>12, <2>13, <2>14, TwoLines
<1> QED
  BY <1>3, <1>4

LEMMA ExoforkLine == ASSUME Chain, LineInv, NEW e \in Kids, Exofork(e) PROVE LineInv'
<1>1. DOMAIN pc = Ids /\ DOMAIN env = Ids /\ DOMAIN fd = Ids /\ e \in Ids /\ DOMAIN env[e] = Fields
  BY ShIsNoKid DEF Chain, TypeOK
<1>2. pc[e] = "exofork" /\ UNCHANGED <<fd, line>>
  BY DEF Exofork, history
<1>3. CASE GivesUp(e)
  BY <1>1, <1>2, <1>3, ExitsLine DEF GivesUp
<1>4. ASSUME Room, ~GivesUp(e) PROVE LineInv'
  <2>1. PICK c : c = NewId
    OBVIOUS
  <2>2. c \in Kids /\ c \in Ids /\ pc[c] = "free" /\ c # e
    BY <1>2, <1>4, <2>1, NewIdUnused, ShIsNoKid
  <2> DEFINE x == [env[e] EXCEPT !.kid = c]
             y == [Fresh EXCEPT !.argv = env[e].argv, !.stage = env[e].stage]
  <2>3. pc' = [pc EXCEPT ![e] = "stack", ![c] = "unborn"] /\ env' = [env EXCEPT ![e].kid = c, ![c] = y]
    BY <1>4, <2>1 DEF Exofork
  <2>4. env'[e] = x /\ env'[c] = y /\ \A f \in Ids \ {e, c} : env'[f] = env[f]
    BY <1>1, <2>2, <2>3
  <2>5. x.stage = env[e].stage /\ x.argv = env[e].argv /\ x.kid = c
    BY <1>1 DEF Fields
  <2>6. y.argv = env[e].argv
    BY DEF Fresh
  <2> HIDE DEF x, y
  <2>7. pc[e] \in Starting /\ "stack" \in Starting
    BY <1>2 DEF Starting
  <2>8. Ordered(line, env[e], fd[e][0], fd[e][1]) /\ Program(env[e].argv)
    BY <2>7, StartingFacts
  <2>9. Ordered(line, x, fd[e][0], fd[e][1]) /\ Program(x.argv)
    BY <2>5, <2>8, SameOrder
  <2>10. LineOK(line, "stack", x, fd[e])
    BY <2>7, <2>9, Silent
  <2>11. pc'[e] = "stack" /\ pc'[c] = "unborn" /\ OthersStay({e, c}) /\ fd'[e] = fd[e]
    BY <1>1, <1>2, <2>2, <2>3, <2>4 DEF OthersStay
  <2>12. LineOK(line, pc'[c], env'[c], fd'[c]) /\ pc'[c] \notin Making
    BY <2>11, Silent, SilentEnds
  <2>13. \A f \in Kids \ {e, c} : pc[f] \in Making => env[f].kid \in Ids \ {e, c}
    BY <1>1, <1>2, <2>2, OwnKids
  <2> QED
    BY <1>1, <1>2, <2>2, <2>4, <2>5, <2>6, <2>10, <2>11, <2>12, <2>13, TwoLines
<1> QED
  BY <1>3, <1>4 DEF Exofork

\* The first command of the line begins where the line does.
LEMMA LineStarts ==
    ASSUME NEW y \in Seq(STRING) PROVE AtStart(y, 1, GetToken(y), Terminal)
<1>1. Len(y) \in Nat /\ 0 \in 0 .. Len(y) /\ 0 + 1 = 1
  OBVIOUS
<1>2. Rest(y, 0) = y
  <2>1. Rest(y, 0) \in Seq(STRING) /\ Len(Rest(y, 0)) = Len(y) - 0 /\ \A i \in 1 .. Len(y) - 0 : Rest(y, 0)[i] = y[0 + i]
    BY <1>1, RestIs
  <2>2. Len(y) - 0 = Len(y) /\ \A i \in 1 .. Len(y) : 0 + i = i
    BY <1>1
  <2>3. Len(Rest(y, 0)) = Len(y) /\ \A i \in 1 .. Len(y) : Rest(y, 0)[i] = y[i]
    BY <2>1, <2>2
  <2> QED
    BY <2>1, <2>3, SeqEqual
<1>3. PICK s \in 0 + 1 .. Len(y) + 1 : (\A m \in 0 + 1 .. s - 1 : Blank(y[m])) /\ Scanned(y, s, GetToken(y))
  BY <1>1, <1>2, TokenAt
<1>4. Begins(y, 1, 0)
  <2>1. \A v \in BarsIn(y) : ~ v <= 0
    BY DEF BarsIn
  <2>2. {v \in BarsIn(y) : v <= 0} = {}
    BY <2>1
  <2>3. Rank(BarsIn(y), 0) = 0
    BY <2>2, FS_EmptySet DEF Rank
  <2> QED
    BY <2>3 DEF Begins
<1> QED
  BY <1>1, <1>3, <1>4 DEF AtStart, Inherits

LEMMA ShLine == ASSUME Chain, FdInv, LineInv, ReadLine \/ ForkLine \/ WaitLine PROVE LineInv'
<1> USE ShIsNoKid
<1>1. DOMAIN pc = Ids /\ DOMAIN env = Ids /\ DOMAIN fd = Ids
  BY DEF Chain, TypeOK
<1>2. ASSUME UNCHANGED <<fd, line>>, \A f \in Kids : pc'[f] = pc[f] /\ env'[f] = env[f] PROVE LineInv'
  <2>1. line' = line /\ line \in Seq(STRING)
    BY <1>2 DEF LineInv
  <2>2. ASSUME NEW f \in Kids PROVE LineOK(line, pc'[f], env'[f], fd'[f]) /\ KidLike(f)'
    <3>1. pc[f] \in Making => env[f].kid \in Kids
      BY ChildOfStart
    <3> QED
      BY <1>2, <3>1, LineFacts DEF KidLike
  <2> QED
    BY <2>1, <2>2 DEF LineInv
<1>3. CASE WaitLine
  <2>1. UNCHANGED <<fd, line>> /\ \A f \in Kids : pc'[f] = pc[f] /\ env'[f] = env[f]
    BY <1>1, <1>3 DEF WaitLine, Goto, history
  <2> QED
    BY <1>2, <2>1
<1>4. CASE ReadLine
  <2>1. pc[sh] # "wait line"
    BY <1>4 DEF ReadLine
  <2>2. line' \in Seq(STRING) /\ \A f \in Kids : pc'[f] = pc[f]
    BY <1>1, <1>4, LinesAssumption DEF ReadLine, Goto
  <2>3. \A f \in Kids : pc[f] \in {"free", "unborn"}
    BY <2>1, NothingAlive
  <2>4. ASSUME NEW f \in Kids PROVE LineOK(line', pc'[f], env'[f], fd'[f]) /\ KidLike(f)'
    BY <2>2, <2>3, Silent, SilentEnds DEF KidLike
  <2> QED
    BY <2>2, <2>4 DEF LineInv
<1>5. CASE ForkLine /\ ~Room
  <2>1. UNCHANGED <<fd, line>> /\ \A f \in Kids : pc'[f] = pc[f] /\ env'[f] = env[f]
    BY <1>1, <1>5 DEF ForkLine, Goto, history
  <2> QED
    BY <1>2, <2>1
<1>6. CASE ForkLine /\ Room
  <2>1. PICK c : c = NewId
    OBVIOUS
  <2>2. c \in Kids /\ c \in Ids /\ pc[c] = "free" /\ c # sh
    BY <1>6, <2>1, NewIdUnused
  <2> DEFINE y == [Fresh EXCEPT !.ahead = GetToken(line), !.stage = 1]
             t == fd[sh]
  <2>3. /\ pc' = [pc EXCEPT ![sh] = "wait line", ![c] = "parse"] /\ fd' = [fd EXCEPT ![c] = fd[sh]]
        /\ env' = [env EXCEPT ![sh].kid = c, ![c] = y] /\ UNCHANGED line
    BY <1>6, <2>1 DEF ForkLine, history
  <2>4. y.stage = 1 /\ y.argv = <<>> /\ y.ahead = GetToken(line)
    BY DEF Fresh
  <2>5. t = [Empty EXCEPT ![0] = Terminal, ![1] = Terminal]
    BY DEF Chain, ShOK
  <2>6. t[0] = Terminal /\ t[1] = Terminal
    BY <2>5, FdsAre DEF Empty
  <2>7. line \in Seq(STRING)
    BY DEF LineInv
  <2> HIDE DEF y, t
  <2>8. Reading(line, y, Terminal, Terminal)
    <3>1. Reading(line, y, IF y.stage > 1 THEN Reads(y.stage - 1) ELSE Terminal, Terminal)
      BY <2>4, <2>7, LineStarts, BegunReading
    <3>2. ~ y.stage > 1
      BY <2>4
    <3> QED
      BY <3>1, <3>2
  <2>9. LineOK(line, "parse", y, t) /\ "parse" \notin Making
    BY <2>6, <2>8 DEF LineOK, Starting, Making
  <2>10. pc'[c] = "parse" /\ env'[c] = y /\ fd'[c] = t /\ OthersStay({sh, c})
    BY <1>1, <2>2, <2>3 DEF OthersStay, t
  <2>11. pc[sh] # "unborn"
    BY <1>6 DEF ForkLine
  <2>12. \A f \in Kids \ {sh, c} : pc[f] \in Making => env[f].kid \in Ids \ {sh, c}
    BY <2>2, <2>11, OwnKids
  <2> QED
    BY <2>2, <2>3, <2>9, <2>10, <2>12, TwoLines
<1> QED
  BY <1>3, <1>4, <1>5, <1>6

LEMMA InitLine == Init => LineInv
<1> SUFFICES ASSUME Init PROVE line \in Seq(STRING) /\ \A e \in Kids : LineOK(line, pc[e], env[e], fd[e]) /\ KidLike(e)
  BY DEF LineInv
<1>1. line = <<>> /\ <<>> \in Seq(STRING)
  BY DEF Init
<1>2. ASSUME NEW e \in Kids PROVE LineOK(line, pc[e], env[e], fd[e]) /\ KidLike(e)
  <2>1. pc[e] = "free"
    BY ShIsNoKid DEF Init, Kids
  <2> QED
    BY <2>1, Silent, SilentEnds DEF KidLike
<1> QED
  BY <1>1, <1>2

LEMMA NextLine == ASSUME Chain, FdInv, LineInv, OwnOutput, [Next]_vars PROVE LineInv'
<1>1. CASE UNCHANGED vars
  <2>1. UNCHANGED <<pc, env, fd, line>>
    BY <1>1 DEF vars
  <2> QED
    BY <2>1 DEF LineInv, KidLike
<1>2. ASSUME NEW e \in Kids, Runnable(e) PROVE LineInv'
  <2>1. CASE Call(e)
    BY <2>1, CallLine
  <2>2. CASE Destroy(e) \/ EchoWrites(e) \/ EchoEnds(e) \/ CatReads(e) \/ CatWrites(e) \/ OtherEnds(e)
    BY <2>2, ProgramLine
  <2>3. CASE Word(e) \/ Input0(e) \/ Output1(e) \/ EndOfString(e)
    BY <2>3, ParseLine
  <2>4. CASE Pipe(e) \/ Fork(e)
    BY <2>4, PipeLine, BarLine
  <2>5. CASE Run(e) \/ CloseForKid(e) \/ WaitKid(e) \/ WaitRight(e)
    BY <2>5, RunLine
  <2>6. CASE SpawnOpen(e) \/ Exofork(e) \/ InitStack(e)
    BY <2>6, SpawnOpenLine, ExoforkLine, InitStackLine
  <2>7. CASE MapSegments(e) \/ CopySharedPages(e) \/ Start(e)
    BY <2>7, MapSegmentsLine, CopySharedLine, StartLine
  <2> QED
    BY <1>2, <2>1, <2>2, <2>3, <2>4, <2>5, <2>6, <2>7 DEF Runnable, Shells
<1> QED
  BY <1>1, <1>2, ShLine DEF Next, Kids

(* A program is started with the words of its command as its arguments, with *)
(* the input and the output that the line says, and with nothing else open:  *)
(* for any line in which a word stands before each bar and whose last        *)
(* command, if there is such a program, writes where it says or comes behind *)
(* commands that say nothing of their output.  gettoken() reads one token    *)
(* ahead and the right side of a bar inherits what it has read; the          *)
(* reference looks at the line as a whole.                                   *)
THEOREM RunsTheLine == Spec /\ []NoEmptyLeft /\ []OwnOutput => []RunsWhatTheLineSays
<1>1. Init => IInv /\ FdInv /\ LineInv
  BY InitIInv, InitFds, InitLine
<1>2. IInv /\ FdInv /\ LineInv /\ NoEmptyLeft /\ OwnOutput /\ [Next]_vars => (IInv /\ FdInv /\ LineInv)'
  BY NextIInv, NextFds, NextLine DEF IInv
<1>3. IInv /\ FdInv /\ LineInv => RunsWhatTheLineSays
  <2> SUFFICES ASSUME IInv, FdInv, LineInv, NEW e \in Ids, pc[e] = "program"
               PROVE  /\ env[e].argv = Arguments(env[e].stage)
                      /\ fd[e] = [Empty EXCEPT ![0] = Input(env[e].stage), ![1] = Output(env[e].stage)]
    BY DEF RunsWhatTheLineSays
  <2> DEFINE k == env[e].stage
             t == fd[e]
  <2>1. e \in Kids
    BY DEF IInv, Chain, ShOK, Kids
  <2>2. pc[e] \in Starting
    BY DEF Starting
  <2>3. Ordered(line, env[e], t[0], t[1]) /\ Program(env[e].argv)
    BY <2>1, <2>2, StartingFacts
  <2>4. IsTable(t) /\ Only(t, {0, 1})
    BY <2>1, TableFacts DEF TableOK
  <2> HIDE DEF k, t
  <2>5. env[e].argv = Arguments(k) /\ t[0] = Input(k) /\ t[1] = Output(k)
    BY <2>3, LineIs DEF Ordered, Command, k
  <2>6. t = [Empty EXCEPT ![0] = Input(k), ![1] = Output(k)]
    <3> DEFINE u == [Empty EXCEPT ![0] = Input(k), ![1] = Output(k)]
    <3>1. u = [n \in Fds |-> IF n = 1 THEN Output(k) ELSE IF n = 0 THEN Input(k) ELSE Closed]
      BY FdsAre DEF Empty
    <3>2. \A n \in Fds : t[n] = u[n]
      BY <2>4, <2>5, <3>1 DEF Only
    <3>3. DOMAIN u = Fds /\ u = [n \in Fds |-> u[n]]
      BY <3>1
    <3>4. t = [n \in Fds |-> t[n]]
      BY <2>4 DEF IsTable
    <3> HIDE DEF u
    <3> QED
      BY <3>2, <3>3, <3>4 DEF u
  <2> QED
    BY <2>5, <2>6 DEF k, t
<1> QED
  BY <1>1, <1>2, <1>3, PTL DEF Spec
=============================================================================
