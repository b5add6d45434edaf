----------------------------- MODULE PipeProofs -----------------------------
(***************************************************************************)
(* Proofs about Pipe, for any number of environments and descriptors and   *)
(* any sizes of buffer, reads and writes: the types, that the reader gets  *)
(* the bytes written, each once and in order, and that an end is reported  *)
(* closed only if it is (on one processor, and with no check in progress   *)
(* while a child is half copied).                                          *)
(*                                                                         *)
(* The bytes between p_rpos and p_wpos are in the buffer at their          *)
(* positions modulo PIPEBUFSIZ (InBuffer); that a writer's store does not  *)
(* overwrite one of them is the test for a full buffer, made two accesses  *)
(* earlier, and that p_rpos moves only forward (Midway).  A byte is        *)
(* taken before p_rpos says so, and the reader may die in between (Taken). *)
(*                                                                         *)
(* Every descriptor has its data page, except in the middle of a close, a  *)
(* dup or a fork, which have more data pages than struct Fds (MidOK,       *)
(* Holds): equal counts mean that no descriptor of the other end is left.  *)
(* The counts are read one after the other; on one processor whoever runs  *)
(* in between makes env_runs differ (CheckOK).                             *)
(***************************************************************************)
EXTENDS Pipe, FiniteSetTheorems, TLAPS

\* The calls that look at a pipe, and their steps.
UsesPipe(op) == op \in {"test", "read", "write"}
Inside(at) == at \in {"sample", "ref1", "ref2", "decide", "look", "move", "next"}

\* What the steps of the calls are about.
CallOK(e) ==
    /\ call[e].op # "none" => life[e] = "runs"
    /\ UsesPipe(call[e].op) <=> Inside(call[e].at)
    /\ UsesPipe(call[e].op) => fd[e][call[e].n] # None
    /\ call[e].at \in {"look", "move", "next"} => call[e].op # "test"
    /\ call[e].op = "read" => e = Reader
    /\ call[e].op \in {"read", "write"} => call[e].left >= 1
    /\ call[e].op = "write" => wpos + call[e].left <= NBytes

OneWriter == \A e, f \in Envs : call[e].op = "write" /\ call[f].op = "write" => e = f

InBuffer == /\ rpos <= wpos /\ wpos <= rpos + BufSize
            /\ \A i \in rpos .. wpos - 1 : buf[i % BufSize] = i

Doing(e, op, at) == call[e].op = op /\ call[e].at = at

\* Between the test of the buffer and the step of the position.
Midway(e) ==
    /\ Doing(e, "read", "move") \/ Doing(e, "read", "next") => rpos < wpos
    /\ Doing(e, "write", "move") \/ Doing(e, "write", "next") => wpos < rpos + BufSize
    /\ Doing(e, "write", "next") => buf[wpos % BufSize] = wpos

Taken == /\ Len(got) \in {rpos, rpos + 1}
         /\ Len(got) = rpos + 1 => /\ rpos < wpos /\ Reader \in Envs
                                   /\ life[Reader] = "gone" \/ Doing(Reader, "read", "next")
         /\ \A e \in Envs : Doing(e, "read", "next") => Len(got) = rpos + 1

DataInv == /\ \A e \in Envs : CallOK(e) /\ Midway(e)
           /\ OneWriter /\ InBuffer /\ Taken
           /\ BytesInOrder

IInv == TypeOK /\ DataInv
------------------------------------------------------------------------------
(* Two positions less than PIPEBUFSIZ apart have slots of their own.          *)
LEMMA Division ==
    ASSUME NEW B \in Nat \ {0}, NEW a \in Nat
    PROVE  a % B \in 0 .. B - 1 /\ a \div B \in Int /\ a = B * (a \div B) + (a % B)
OBVIOUS

LEMMA Multiples ==
    ASSUME NEW B \in Nat \ {0}, NEW k \in Int
    PROVE  (k <= 0 => B * k <= 0) /\ (k >= 1 => B * k >= B)
OBVIOUS

LEMMA SlotsDiffer ==
    ASSUME NEW B \in Nat \ {0}, NEW a \in Nat, NEW b \in Nat, a < b, b < a + B
    PROVE  a % B # b % B
<1> SUFFICES ASSUME a % B = b % B PROVE FALSE
  OBVIOUS
<1> DEFINE q == b \div B - a \div B
<1>1. q \in Int /\ b - a = B * q
  <2>1. b = B * (b \div B) + (b % B) /\ a = B * (a \div B) + (a % B)
    BY Division
  <2>2. a \div B \in Int /\ b \div B \in Int /\ a % B \in Int
    BY Division
  <2>3. B * (b \div B) - B * (a \div B) = B * (b \div B - a \div B)
    BY <2>2
  <2> QED
    BY <2>1, <2>2, <2>3
<1> HIDE DEF q
<1>2. (q <= 0 => B * q <= 0) /\ (q >= 1 => B * q >= B)
  BY <1>1, Multiples
<1>3. b - a <= 0 \/ b - a >= B
  BY <1>1, <1>2
<1> QED
  BY <1>3

(* The count of mappings that a check reads is in range.                      *)
LEMMA RefsInRange ==
    ASSUME NEW S, S \subseteq Envs \X FDs
    PROVE  Cardinality(S) \in 0 .. NFD * Cardinality(Envs)
<1>1. IsFiniteSet(FDs) /\ Cardinality(FDs) = NFD
  BY FS_Interval, SizeAssumption DEF FDs
<1>2. /\ IsFiniteSet(Envs \X FDs)
      /\ Cardinality(Envs \X FDs) = Cardinality(Envs) * Cardinality(FDs)
  BY <1>1, FS_Product, SizeAssumption
<1>3. IsFiniteSet(S) /\ Cardinality(S) <= Cardinality(Envs \X FDs)
  BY <1>2, FS_Subset
<1>4. Cardinality(S) \in Nat /\ Cardinality(Envs) \in Nat
  BY <1>3, FS_CardinalityType, SizeAssumption
<1> QED
  BY <1>1, <1>2, <1>3, <1>4, SizeAssumption

LEMMA IdleCall == Idle \in Calls
<1>1. NFD * Cardinality(Envs) \in Nat
  <2>1. Cardinality(Envs) \in Nat /\ NFD \in Nat
    BY FS_CardinalityType, SizeAssumption
  <2> QED
    BY <2>1
<1>2. 0 \in FDs /\ 0 \in 0 .. 2 * NFD /\ 0 \in 0 .. MaxRead + NBytes
  BY SizeAssumption DEF FDs
<1> QED
  BY <1>1, <1>2, SizeAssumption DEF Idle, Calls

(* pipe() has returned; nothing is written.                                   *)
LEMMA InitInv == Init => IInv
<1> SUFFICES ASSUME Init PROVE IInv
  OBVIOUS
<1> USE SizeAssumption DEF Init
<1>1. TypeOK
  <2>1. fd \in [Envs -> [FDs -> Ends \cup {None}]] /\ data \in [Envs -> [FDs -> BOOLEAN]]
    BY DEF Ends
  <2>2. call \in [Envs -> Calls]
    BY IdleCall
  <2>3. /\ rpos \in 0 .. NBytes /\ wpos \in 0 .. NBytes
        /\ buf \in [0 .. BufSize - 1 -> 0 .. NBytes] /\ got \in Seq(0 .. NBytes) /\ Len(got) <= NBytes
    OBVIOUS
  <2> QED
    BY <2>1, <2>2, <2>3 DEF TypeOK
<1>2. DataInv
  <2>1. \A e \in Envs : call[e].op = "none" /\ call[e].at = ""
    BY DEF Idle
  <2>2. \A e \in Envs : CallOK(e) /\ Midway(e)
    BY <2>1 DEF CallOK, Midway, Doing, UsesPipe, Inside
  <2>3. OneWriter
    BY <2>1 DEF OneWriter
  <2>4. InBuffer
    BY DEF InBuffer
  <2>5. Len(got) = 0
    OBVIOUS
  <2>6. Taken
    <3>1. rpos = 0 /\ ~ \E e \in Envs : Doing(e, "read", "next")
      BY <2>1 DEF Doing
    <3> HIDE DEF Init
    <3> QED
      BY <2>5, <3>1 DEF Taken
  <2>7. BytesInOrder
    BY <2>5 DEF BytesInOrder
  <2> QED
    BY <2>2, <2>3, <2>4, <2>6, <2>7 DEF DataInv
<1> QED
  BY <1>1, <1>2 DEF IInv

(* Every step is taken by an environment that runs, and keeps the flags.      *)
LEMMA ActsFacts ==
    ASSUME TypeOK, NEW e \in Envs, NEW m \in BOOLEAN, Acts(e, m)
    PROVE  life[e] = "runs" /\ moved' \in [Envs -> BOOLEAN]
BY DEF TypeOK, Acts
------------------------------------------------------------------------------
(* What a step that moves no byte may make of the call it is part of.         *)
Keeps(e, x) ==
    /\ x \in Calls /\ x.at # "next"
    /\ UsesPipe(x.op) <=> Inside(x.at)
    /\ x.at \in {"look", "move"} => x.op # "test"
    /\ x.op = "read" => e = Reader /\ x.left >= 1 /\ (x.at = "move" => rpos < wpos)
    /\ x.op = "write" => /\ x.left >= 1 /\ wpos + x.left <= NBytes
                         /\ \A f \in Envs \ {e} : call[f].op # "write"
                         /\ x.at = "move" => wpos < rpos + BufSize

LEMMA QuietStep ==
    ASSUME IInv, NEW e \in Envs, NEW x, Keeps(e, x), call' = [call EXCEPT ![e] = x],
           UNCHANGED pipeVars,
           \A d \in Envs : life[d] = "gone" => life'[d] = "gone",
           \A d \in Envs : life[d] = "runs" /\ (d = e => x.op # "none") => life'[d] = "runs",
           x.op # "none" => life[e] = "runs",
           UsesPipe(x.op) => fd'[e][x.n] # None,
           \A d \in Envs \ {e} : UsesPipe(call[d].op) => fd'[d] = fd[d],
           ~Doing(e, "read", "next") \/ life'[e] = "gone"
    PROVE  DataInv' /\ call' \in [Envs -> Calls]
<1>1. call' \in [Envs -> Calls] /\ call'[e] = x /\ \A d \in Envs \ {e} : call'[d] = call[d]
  BY DEF IInv, TypeOK, Keeps
<1>2. \A d \in Envs : CallOK(d)'
  <2> SUFFICES ASSUME NEW d \in Envs PROVE CallOK(d)'
    OBVIOUS
  <2>1. CASE d = e
    BY <1>1, <2>1 DEF CallOK, Keeps, pipeVars, UsesPipe, Inside
  <2>2. CASE d # e
    <3>1. CallOK(d) /\ call'[d] = call[d] /\ wpos' = wpos
      BY <1>1, <2>2 DEF IInv, DataInv, pipeVars
    <3> QED
      BY <2>2, <3>1 DEF CallOK
  <2> QED
    BY <2>1, <2>2
<1> USE DEF IInv, DataInv, Doing, pipeVars
<1>3. \A d \in Envs : Midway(d)'
  BY <1>1 DEF Midway, Keeps
<1>4. OneWriter'
  BY <1>1 DEF OneWriter, Keeps
<1>5. InBuffer' /\ BytesInOrder'
  BY DEF InBuffer, BytesInOrder
<1>6. Taken'
  BY <1>1 DEF Taken, Keeps
<1> QED
  BY <1>1, <1>2, <1>3, <1>4, <1>5, <1>6

(* A step of a call that goes on changes only the fields it names.            *)
LEMMA SameFields ==
    ASSUME NEW x \in Calls, NEW at, NEW ref
    PROVE  LET y == [x EXCEPT !.at = at]
               z == [x EXCEPT !.at = at, !.ref = ref]
           IN  /\ y.at = at /\ y.op = x.op /\ y.n = x.n /\ y.m = x.m /\ y.left = x.left
               /\ y.kid = x.kid /\ y.ref = x.ref
               /\ z.at = at /\ z.op = x.op /\ z.n = x.n /\ z.m = x.m /\ z.left = x.left
               /\ z.kid = x.kid /\ z.ref = ref
BY DEF Calls

LEMMA CallFacts ==
    ASSUME IInv, NEW e \in Envs
    PROVE  /\ call[e] \in Calls /\ CallOK(e) /\ rpos \in Nat /\ wpos \in Nat
           /\ \A f \in Envs \ {e} : call[e].op = "write" => call[f].op # "write"
           /\ call[e].n \in FDs /\ call[e].m \in Nat /\ call[e].m <= 2 * NFD
           /\ fd[e][call[e].n] \in Ends \cup {None} /\ told[e] \subseteq Ends
<1>1. call[e] \in Calls /\ CallOK(e) /\ rpos \in Nat /\ wpos \in Nat
  BY SizeAssumption DEF IInv, DataInv, TypeOK
<1>2. \A f \in Envs \ {e} : call[e].op = "write" => call[f].op # "write"
  BY DEF IInv, DataInv, OneWriter
<1>3. call[e].n \in FDs /\ call[e].m \in Nat /\ call[e].m <= 2 * NFD
  <2>1. call[e].n \in FDs /\ call[e].m \in 0 .. 2 * NFD
    BY <1>1 DEF Calls
  <2> QED
    BY <2>1, SizeAssumption
<1>4. fd[e][call[e].n] \in Ends \cup {None} /\ told[e] \subseteq Ends
  BY <1>3 DEF IInv, TypeOK
<1> QED
  BY <1>1, <1>2, <1>3, <1>4

(* A call begins.                                                             *)
LEMMA BeginKeeps ==
    ASSUME NEW e \in Envs,
           NEW op \in {"close", "dup", "fork", "test", "read", "write"},
           NEW at \in {"unmap1", "map1", "page", "sample", "look"}, NEW n \in FDs,
           NEW m \in FDs, NEW left \in 0 .. MaxRead + NBytes,
           op = "test" => at = "sample", op \in {"read", "write"} => at = "look",
           op \notin {"test", "read", "write"} => at \notin {"sample", "look"},
           op = "read" => e = Reader /\ left >= 1,
           op = "write" => /\ left >= 1 /\ wpos + left <= NBytes
                           /\ \A f \in Envs \ {e} : call[f].op # "write"
    PROVE  Keeps(e, Begin(op, at, n, m, left))
<1>1. 0 \in 0 .. NFD * Cardinality(Envs) /\ m \in 0 .. 2 * NFD
  BY IdleCall, SizeAssumption DEF Idle, Calls, FDs
<1> DEFINE x == Begin(op, at, n, m, left)
<1>2. x \in Calls
  BY <1>1, SizeAssumption DEF Begin, Calls
<1>3. x.op = op /\ x.at = at /\ x.left = left
  BY DEF Begin
<1> HIDE DEF x
<1>4. Keeps(e, x)
  BY <1>2, <1>3 DEF Keeps, UsesPipe, Inside
<1> QED
  BY <1>4 DEF x

(* A call goes on.                                                            *)
LEMMA AtKeeps ==
    ASSUME IInv, NEW e \in Envs,
           NEW at \in {"", "unmap1", "unmap2", "map1", "map2", "page", "start", "sample",
                       "ref1", "ref2", "decide", "look", "move"},
           NEW ref \in 0 .. NFD * Cardinality(Envs), NEW m \in 0 .. 2 * NFD,
           Inside(at) <=> Inside(call[e].at), at \in {"look", "move"} => call[e].op # "test",
           at = "move" => /\ call[e].op = "read" => rpos < wpos
                          /\ call[e].op = "write" => wpos < rpos + BufSize
    PROVE  /\ Keeps(e, [call[e] EXCEPT !.at = at])
           /\ Keeps(e, [call[e] EXCEPT !.ref = ref, !.at = at])
           /\ Keeps(e, [call[e] EXCEPT !.at = at, !.ref = ref])
           /\ Keeps(e, [call[e] EXCEPT !.m = m]) \/ call[e].at # "page"
<1>1. /\ call[e] \in Calls /\ CallOK(e)
      /\ \A f \in Envs \ {e} : call[e].op = "write" => call[f].op # "write"
  BY CallFacts
<1>2. ASSUME NEW x \in Calls, x.at = at, x.op = call[e].op, x.left = call[e].left
      PROVE  Keeps(e, x)
  BY <1>1, <1>2 DEF Keeps, CallOK
<1>3. Keeps(e, [call[e] EXCEPT !.at = at])
  <2> DEFINE x == [call[e] EXCEPT !.at = at]
  <2>1. x \in Calls /\ x.at = at /\ x.op = call[e].op /\ x.left = call[e].left
    BY <1>1 DEF Calls
  <2> QED
    BY <2>1, <1>2
<1>4. Keeps(e, [call[e] EXCEPT !.ref = ref, !.at = at])
  <2> DEFINE x == [call[e] EXCEPT !.ref = ref, !.at = at]
  <2>1. x \in Calls /\ x.at = at /\ x.op = call[e].op /\ x.left = call[e].left
    BY <1>1 DEF Calls
  <2> QED
    BY <2>1, <1>2
<1>5. Keeps(e, [call[e] EXCEPT !.at = at, !.ref = ref])
  <2> DEFINE x == [call[e] EXCEPT !.at = at, !.ref = ref]
  <2>1. x \in Calls /\ x.at = at /\ x.op = call[e].op /\ x.left = call[e].left
    BY <1>1 DEF Calls
  <2> QED
    BY <2>1, <1>2
<1>6. CASE call[e].at = "page"
  <2> DEFINE x == [call[e] EXCEPT !.m = m]
  <2>1. x \in Calls /\ x.at = "page" /\ x.op = call[e].op /\ x.left = call[e].left
    BY <1>1, <1>6 DEF Calls
  <2>2. Keeps(e, x)
    <3> HIDE DEF x
    <3> QED
      BY <1>1, <1>6, <2>1 DEF Keeps, CallOK, Inside
  <2> QED
    BY <1>3, <1>4, <1>5, <2>2
<1> QED
  BY <1>3, <1>4, <1>5, <1>6

(* A call ends.                                                               *)
LEMMA IdleKeeps == ASSUME NEW e \in Envs PROVE Keeps(e, Idle)
<1>1. Idle \in Calls /\ Idle.op = "none" /\ Idle.at = ""
  BY IdleCall DEF Idle
<1> QED
  BY <1>1 DEF Keeps, UsesPipe, Inside

LEMMA ZeroRef == /\ 0 \in 0 .. NFD * Cardinality(Envs) /\ 1 \in 0 .. NFD * Cardinality(Envs)
                 /\ 0 \in 0 .. 2 * NFD
<1>1. Cardinality(Envs) \in Nat \ {0} /\ NFD \in Nat \ {0}
  BY FS_CardinalityType, FS_EmptySet, SizeAssumption
<1> QED
  BY <1>1

LEMMA IdleFields == Idle.op = "none" /\ Idle.at = ""
BY DEF Idle

(* One mapping more or less.                                                  *)
Mappings(f, d) == /\ f \in [Envs -> [FDs -> Ends \cup {None}]]
                  /\ d \in [Envs -> [FDs -> BOOLEAN]]

LEMMA MapTypes ==
    ASSUME IInv, NEW e \in Envs, NEW n
    PROVE  /\ Mappings(fd, data)
           /\ \A v \in Ends \cup {None} : Mappings([fd EXCEPT ![e][n] = v], data)
           /\ \A b \in BOOLEAN : Mappings(fd, [data EXCEPT ![e][n] = b])
<1>1. Mappings(fd, data)
  BY DEF IInv, TypeOK, Mappings
<1>2. \A v \in Ends \cup {None} : Mappings([fd EXCEPT ![e][n] = v], data)
  BY <1>1 DEF Mappings
<1>3. ASSUME NEW b \in BOOLEAN PROVE Mappings(fd, [data EXCEPT ![e][n] = b])
  <2>1. data[e] \in [FDs -> BOOLEAN] /\ data \in [Envs -> [FDs -> BOOLEAN]]
    BY <1>1 DEF Mappings
  <2>2. [data[e] EXCEPT ![n] = b] \in [FDs -> BOOLEAN]
    BY <1>3, <2>1, Zenon
  <2>3. [data EXCEPT ![e][n] = b] \in [Envs -> [FDs -> BOOLEAN]]
    BY <2>1, <2>2, Zenon
  <2> QED
    BY <1>1, <2>3 DEF Mappings
<1> QED
  BY <1>1, <1>2, <1>3

LEMMA UnmapTypes ==
    ASSUME IInv, NEW e \in Envs, NEW m, NEW which, Unmap(e, m, which)
    PROVE  Mappings(fd', data')
<1>1. CASE which = "fd"
  BY <1>1, MapTypes DEF Unmap
<1>2. CASE which # "fd"
  <2>1. Mappings(fd, [data EXCEPT ![e][m] = FALSE])
    BY MapTypes
  <2> QED
    BY <1>2, <2>1 DEF Unmap
<1> QED
  BY <1>1, <1>2

LEMMA MapPageTypes ==
    ASSUME IInv, NEW e \in Envs, NEW n \in FDs, NEW m, NEW which, MapPage(e, n, m, which)
    PROVE  Mappings(fd', data')
<1>1. CASE which = "data"
  <2>1. (data[e][m] \/ data[e][n]) \in BOOLEAN
    OBVIOUS
  <2> DEFINE d == [data EXCEPT ![e][m] = data[e][m] \/ data[e][n]]
  <2>2. Mappings(fd, d)
    BY <2>1, MapTypes, Zenon
  <2>3. data' = d /\ fd' = fd
    BY <1>1, Zenon DEF MapPage
  <2> QED
    BY <2>2, <2>3
<1>2. CASE which # "data"
  <2>1. fd[e][n] \in Ends \cup {None}
    BY MapTypes DEF Mappings
  <2>2. Mappings([fd EXCEPT ![e][m] = fd[e][n]], data)
    BY <2>1, MapTypes
  <2>3. Mappings(fd, [data EXCEPT ![e][m] = FALSE])
    BY MapTypes
  <2> QED
    BY <1>2, <2>2, <2>3 DEF MapPage, Mappings
<1> QED
  BY <1>1, <1>2

LEMMA CloseInv == ASSUME IInv, NEW e \in Envs, NEW m \in FDs, Close(e, m) PROVE IInv'
<1> DEFINE x == Begin("close", "unmap1", 0, m, 0)
<1>1. call' = [call EXCEPT ![e] = x] /\ UNCHANGED pipeVars
  BY CallFacts, ActsFacts DEF Close, Calls
<1>2. Keeps(e, x)
  BY BeginKeeps, SizeAssumption DEF Close, FDs
<1>3. /\ \A d \in Envs : life[d] = "gone" => life'[d] = "gone"
      /\ \A d \in Envs : life[d] = "runs" /\ (d = e => x.op # "none") => life'[d] = "runs"
      /\ x.op # "none" => life[e] = "runs"
  BY ActsFacts DEF Close, IInv, TypeOK
<1>4. ~Doing(e, "read", "next") \/ life'[e] = "gone"
  BY IdleFields DEF Close, Doing
<1>5. UsesPipe(x.op) => fd'[e][x.n] # None
  BY DEF Close, Begin, UsesPipe
<1>6. \A d \in Envs \ {e} : UsesPipe(call[d].op) => fd'[d] = fd[d]
  BY DEF Close, IInv, TypeOK
<1>7. DataInv' /\ call' \in [Envs -> Calls]
  BY <1>1, <1>2, <1>3, <1>4, <1>5, <1>6, QuietStep
<1>8. life' \in [Envs -> {"none", "forked", "runs", "gone"}] /\ moved' \in [Envs -> BOOLEAN]
  BY ActsFacts DEF Close, IInv, TypeOK
<1>9. Mappings(fd', data')
  BY MapTypes DEF Close
<1>10. told' \in [Envs -> SUBSET Ends]
  BY DEF Close, IInv, TypeOK
<1> QED
  BY <1>1, <1>7, <1>8, <1>9, <1>10 DEF IInv, TypeOK, Mappings, pipeVars

LEMMA DupInv == ASSUME IInv, NEW e \in Envs, NEW n \in FDs, NEW m \in FDs, Dup(e, n, m) PROVE IInv'
<1> DEFINE x == Begin("dup", IF fd[e][m] # None THEN "unmap1" ELSE "map1", n, m, 0)
<1>1. call' = [call EXCEPT ![e] = x] /\ UNCHANGED pipeVars
  BY CallFacts, ActsFacts DEF Dup, Calls
<1>2. Keeps(e, x)
  BY BeginKeeps, SizeAssumption DEF Dup, FDs
<1>3. /\ \A d \in Envs : life[d] = "gone" => life'[d] = "gone"
      /\ \A d \in Envs : life[d] = "runs" /\ (d = e => x.op # "none") => life'[d] = "runs"
      /\ x.op # "none" => life[e] = "runs"
  BY ActsFacts DEF Dup, IInv, TypeOK
<1>4. ~Doing(e, "read", "next") \/ life'[e] = "gone"
  BY IdleFields DEF Dup, Doing
<1>5. UsesPipe(x.op) => fd'[e][x.n] # None
  BY DEF Dup, Begin, UsesPipe
<1>6. \A d \in Envs \ {e} : UsesPipe(call[d].op) => fd'[d] = fd[d]
  BY DEF Dup, IInv, TypeOK
<1>7. DataInv' /\ call' \in [Envs -> Calls]
  <2> HIDE DEF x
  <2> QED
    BY <1>1, <1>2, <1>3, <1>4, <1>5, <1>6, QuietStep
<1>8. life' \in [Envs -> {"none", "forked", "runs", "gone"}] /\ moved' \in [Envs -> BOOLEAN]
  BY ActsFacts DEF Dup, IInv, TypeOK
<1>9. Mappings(fd', data')
  BY MapTypes DEF Dup
<1>10. told' \in [Envs -> SUBSET Ends]
  BY DEF Dup, IInv, TypeOK
<1> QED
  BY <1>1, <1>7, <1>8, <1>9, <1>10 DEF IInv, TypeOK, Mappings, pipeVars

LEMMA Unmap1Inv == ASSUME IInv, NEW e \in Envs, Unmap1(e) PROVE IInv'
<1> DEFINE x == [call[e] EXCEPT !.at = "unmap2"]
<1>1. call' = [call EXCEPT ![e] = x] /\ UNCHANGED pipeVars
  BY CallFacts, ActsFacts DEF Unmap1, Goto, Calls
<1>2. Keeps(e, x)
  BY AtKeeps, CallFacts, ZeroRef DEF Unmap1, Goto, Inside
<1>3. /\ \A d \in Envs : life[d] = "gone" => life'[d] = "gone"
      /\ \A d \in Envs : life[d] = "runs" /\ (d = e => x.op # "none") => life'[d] = "runs"
      /\ x.op # "none" => life[e] = "runs"
  BY ActsFacts DEF Unmap1, Goto, IInv, TypeOK
<1>4. ~Doing(e, "read", "next") \/ life'[e] = "gone"
  BY CallFacts, IdleCall DEF Unmap1, Goto, Doing, Idle, IInv, TypeOK, InCheck
<1>5. UsesPipe(x.op) => fd'[e][x.n] # None
  BY <1>2, CallFacts DEF Unmap1, Goto, Keeps, CallOK, UsesPipe, Inside
<1>6. \A d \in Envs \ {e} : UsesPipe(call[d].op) => fd'[d] = fd[d]
  BY DEF Unmap1, Goto, Unmap, UnmapOrder, IInv, TypeOK
<1>7. DataInv' /\ call' \in [Envs -> Calls]
  BY <1>1, <1>2, <1>3, <1>4, <1>5, <1>6, QuietStep
<1>8. life' \in [Envs -> {"none", "forked", "runs", "gone"}] /\ moved' \in [Envs -> BOOLEAN]
  BY ActsFacts DEF Unmap1, Goto, IInv, TypeOK
<1>9. Mappings(fd', data')
  BY UnmapTypes DEF Unmap1, Goto
<1>10. told' \in [Envs -> SUBSET Ends]
  BY DEF Unmap1, Goto, IInv, TypeOK
<1> QED
  BY <1>1, <1>7, <1>8, <1>9, <1>10 DEF IInv, TypeOK, Mappings, pipeVars

LEMMA Unmap2Inv == ASSUME IInv, NEW e \in Envs, Unmap2(e) PROVE IInv'
<1> DEFINE x == IF call[e].op = "dup" THEN [call[e] EXCEPT !.at = "map1"] ELSE Idle
<1>1. call' = [call EXCEPT ![e] = x] /\ UNCHANGED pipeVars
  BY CallFacts, ActsFacts DEF Unmap2, Goto, Return, Calls
<1>2. Keeps(e, x)
  <2>1. CASE call[e].op = "dup"
    BY ZenonT(30), <2>1, AtKeeps, CallFacts, ZeroRef DEF Unmap2, Goto, Return, Inside
  <2>2. CASE call[e].op # "dup"
    BY <2>2, IdleKeeps
  <2> QED
    BY <2>1, <2>2
<1>3. /\ \A d \in Envs : life[d] = "gone" => life'[d] = "gone"
      /\ \A d \in Envs : life[d] = "runs" /\ (d = e => x.op # "none") => life'[d] = "runs"
      /\ x.op # "none" => life[e] = "runs"
  BY ActsFacts DEF Unmap2, Goto, Return, IInv, TypeOK
<1>4. ~Doing(e, "read", "next") \/ life'[e] = "gone"
  BY CallFacts, IdleCall DEF Unmap2, Goto, Return, Doing, Idle, IInv, TypeOK, InCheck
<1>5. UsesPipe(x.op) => fd'[e][x.n] # None
  <2>1. x.op = "dup" \/ x.op = "none"
    BY CallFacts, IdleFields DEF Calls
  <2> QED
    BY <2>1 DEF UsesPipe
<1>6. \A d \in Envs \ {e} : UsesPipe(call[d].op) => fd'[d] = fd[d]
  BY DEF Unmap2, Goto, Return, Unmap, UnmapOrder, IInv, TypeOK
<1>7. DataInv' /\ call' \in [Envs -> Calls]
  <2> HIDE DEF x
  <2> QED
    BY <1>1, <1>2, <1>3, <1>4, <1>5, <1>6, QuietStep
<1>8. life' \in [Envs -> {"none", "forked", "runs", "gone"}] /\ moved' \in [Envs -> BOOLEAN]
  BY ActsFacts DEF Unmap2, Goto, Return, IInv, TypeOK
<1>9. Mappings(fd', data')
  BY UnmapTypes DEF Unmap2, Goto, Return
<1>10. told' \in [Envs -> SUBSET Ends]
  BY DEF Unmap2, Goto, Return, IInv, TypeOK
<1> QED
  BY <1>1, <1>7, <1>8, <1>9, <1>10 DEF IInv, TypeOK, Mappings, pipeVars

LEMMA Map1Inv == ASSUME IInv, NEW e \in Envs, Map1(e) PROVE IInv'
<1> DEFINE x == [call[e] EXCEPT !.at = "map2"]
<1>1. call' = [call EXCEPT ![e] = x] /\ UNCHANGED pipeVars
  BY CallFacts, ActsFacts DEF Map1, Goto, Calls
<1>2. Keeps(e, x)
  BY ZenonT(30), AtKeeps, CallFacts, ZeroRef DEF Map1, Goto, Inside
<1>3. /\ \A d \in Envs : life[d] = "gone" => life'[d] = "gone"
      /\ \A d \in Envs : life[d] = "runs" /\ (d = e => x.op # "none") => life'[d] = "runs"
      /\ x.op # "none" => life[e] = "runs"
  BY ActsFacts DEF Map1, Goto, IInv, TypeOK
<1>4. ~Doing(e, "read", "next") \/ life'[e] = "gone"
  BY CallFacts, IdleCall DEF Map1, Goto, Doing, Idle, IInv, TypeOK, InCheck
<1>5. UsesPipe(x.op) => fd'[e][x.n] # None
  BY <1>2, CallFacts DEF Map1, Goto, Keeps, CallOK, UsesPipe, Inside
<1>6. \A d \in Envs \ {e} : UsesPipe(call[d].op) => fd'[d] = fd[d]
  BY DEF Map1, Goto, MapPage, MapOrder, IInv, TypeOK
<1>7. DataInv' /\ call' \in [Envs -> Calls]
  BY <1>1, <1>2, <1>3, <1>4, <1>5, <1>6, QuietStep
<1>8. life' \in [Envs -> {"none", "forked", "runs", "gone"}] /\ moved' \in [Envs -> BOOLEAN]
  BY ActsFacts DEF Map1, Goto, IInv, TypeOK
<1>9. Mappings(fd', data')
  BY CallFacts, MapPageTypes DEF Map1, Goto
<1>10. told' \in [Envs -> SUBSET Ends]
  BY DEF Map1, Goto, IInv, TypeOK
<1> QED
  BY <1>1, <1>7, <1>8, <1>9, <1>10 DEF IInv, TypeOK, Mappings, pipeVars

LEMMA Map2Inv == ASSUME IInv, NEW e \in Envs, Map2(e) PROVE IInv'
<1> DEFINE x == Idle
<1>1. call' = [call EXCEPT ![e] = x] /\ UNCHANGED pipeVars
  BY CallFacts, ActsFacts DEF Map2, Return, Calls
<1>2. Keeps(e, x)
  BY IdleKeeps
<1>3. /\ \A d \in Envs : life[d] = "gone" => life'[d] = "gone"
      /\ \A d \in Envs : life[d] = "runs" /\ (d = e => x.op # "none") => life'[d] = "runs"
      /\ x.op # "none" => life[e] = "runs"
  BY ActsFacts DEF Map2, Return, IInv, TypeOK
<1>4. ~Doing(e, "read", "next") \/ life'[e] = "gone"
  BY CallFacts, IdleCall DEF Map2, Return, Doing, Idle, IInv, TypeOK, InCheck
<1>5. UsesPipe(x.op) => fd'[e][x.n] # None
  BY IdleFields DEF UsesPipe
<1>6. \A d \in Envs \ {e} : UsesPipe(call[d].op) => fd'[d] = fd[d]
  BY DEF Map2, Return, MapPage, MapOrder, IInv, TypeOK
<1>7. DataInv' /\ call' \in [Envs -> Calls]
  BY <1>1, <1>2, <1>3, <1>4, <1>5, <1>6, QuietStep
<1>8. life' \in [Envs -> {"none", "forked", "runs", "gone"}] /\ moved' \in [Envs -> BOOLEAN]
  BY ActsFacts DEF Map2, Return, IInv, TypeOK
<1>9. Mappings(fd', data')
  BY CallFacts, MapPageTypes DEF Map2, Return
<1>10. told' \in [Envs -> SUBSET Ends]
  BY DEF Map2, Return, IInv, TypeOK
<1> QED
  BY <1>1, <1>7, <1>8, <1>9, <1>10 DEF IInv, TypeOK, Mappings, pipeVars

LEMMA ForkInv == ASSUME IInv, NEW e \in Envs, NEW c \in Envs, Fork(e, c) PROVE IInv'
<1> DEFINE x == [Begin("fork", "page", 0, 0, 0) EXCEPT !.kid = c]
<1>1. call' = [call EXCEPT ![e] = x] /\ UNCHANGED pipeVars
  BY CallFacts, ActsFacts DEF Fork, Calls
<1>2. Keeps(e, x)
  <2>1. Keeps(e, Begin("fork", "page", 0, 0, 0))
    BY BeginKeeps, SizeAssumption DEF FDs
  <2>2. x \in Calls /\ x.op = "fork" /\ x.at = "page"
    BY <2>1 DEF Keeps, Calls, Begin
  <2> QED
    BY <2>2 DEF Keeps, UsesPipe, Inside
<1>3. /\ \A d \in Envs : life[d] = "gone" => life'[d] = "gone"
      /\ \A d \in Envs : life[d] = "runs" /\ (d = e => x.op # "none") => life'[d] = "runs"
      /\ x.op # "none" => life[e] = "runs"
  BY ActsFacts DEF Fork, IInv, TypeOK
<1>4. ~Doing(e, "read", "next") \/ life'[e] = "gone"
  BY IdleFields DEF Fork, Doing
<1>5. UsesPipe(x.op) => fd'[e][x.n] # None
  BY DEF Fork, Begin, UsesPipe
<1>6. \A d \in Envs \ {e} : UsesPipe(call[d].op) => fd'[d] = fd[d]
  BY DEF Fork, IInv, TypeOK
<1>7. DataInv' /\ call' \in [Envs -> Calls]
  BY <1>1, <1>2, <1>3, <1>4, <1>5, <1>6, QuietStep
<1>8. life' \in [Envs -> {"none", "forked", "runs", "gone"}] /\ moved' \in [Envs -> BOOLEAN]
  BY ActsFacts DEF Fork, IInv, TypeOK
<1>9. Mappings(fd', data')
  BY MapTypes DEF Fork
<1>10. told' \in [Envs -> SUBSET Ends]
  BY DEF Fork, IInv, TypeOK
<1> QED
  BY <1>1, <1>7, <1>8, <1>9, <1>10 DEF IInv, TypeOK, Mappings, pipeVars

LEMMA DupPageInv == ASSUME IInv, NEW e \in Envs, NEW c \in Envs, DupPage(e, c) PROVE IInv'
<1> PICK k \in call[e].m .. 2 * NFD :
       /\ NextPage(e, k)
       /\ IF k = 2 * NFD
            THEN Goto(e, "start") /\ UNCHANGED <<fd, data>>
            ELSE /\ call' = [call EXCEPT ![e].m = k + 1]
                 /\ IF k < NFD
                      THEN /\ fd' = [fd EXCEPT ![c][k] = fd[e][k]]
                           /\ UNCHANGED data
                      ELSE /\ data' = [data EXCEPT ![c][k - NFD] = TRUE]
                           /\ UNCHANGED fd
  BY DEF DupPage
<1> DEFINE x == IF k = 2 * NFD THEN [call[e] EXCEPT !.at = "start"] ELSE [call[e] EXCEPT !.m = k + 1]
<1>1. call' = [call EXCEPT ![e] = x] /\ UNCHANGED pipeVars
  BY CallFacts, ActsFacts DEF DupPage, Goto, Calls
<1>2. Keeps(e, x)
  <2>1. CASE k = 2 * NFD
    BY ZenonT(30), <2>1, AtKeeps, CallFacts, ZeroRef DEF DupPage, Goto, Inside
  <2>2. CASE k # 2 * NFD
    <3>1. k + 1 \in 0 .. 2 * NFD
      BY <2>2, CallFacts, SizeAssumption
    <3>2. Keeps(e, [call[e] EXCEPT !.m = k + 1])
      BY <3>1, AtKeeps, ZeroRef, CallFacts DEF DupPage, Goto, Inside
    <3> QED
      BY <2>2, <3>2
  <2> QED
    BY <2>1, <2>2
<1>3. /\ \A d \in Envs : life[d] = "gone" => life'[d] = "gone"
      /\ \A d \in Envs : life[d] = "runs" /\ (d = e => x.op # "none") => life'[d] = "runs"
      /\ x.op # "none" => life[e] = "runs"
  BY ActsFacts DEF DupPage, Goto, IInv, TypeOK
<1>4. ~Doing(e, "read", "next") \/ life'[e] = "gone"
  BY CallFacts, IdleCall DEF DupPage, Goto, Doing, Idle, IInv, TypeOK, InCheck
<1>5. UsesPipe(x.op) => fd'[e][x.n] # None
  BY <1>2, CallFacts DEF DupPage, Goto, Keeps, CallOK, UsesPipe, Inside
<1>6. \A d \in Envs \ {e} : UsesPipe(call[d].op) => fd'[d] = fd[d]
  <2>1. \A d \in Envs : UsesPipe(call[d].op) => d # c
    BY CallFacts DEF DupPage, CallOK, UsesPipe
  <2> QED
    BY <2>1 DEF DupPage, Goto, IInv, TypeOK
<1>7. DataInv' /\ call' \in [Envs -> Calls]
  <2> HIDE DEF x
  <2> QED
    BY <1>1, <1>2, <1>3, <1>4, <1>5, <1>6, QuietStep
<1>8. life' \in [Envs -> {"none", "forked", "runs", "gone"}] /\ moved' \in [Envs -> BOOLEAN]
  BY ActsFacts DEF DupPage, Goto, IInv, TypeOK
<1>9. Mappings(fd', data')
  <2>1. k \in FDs => fd[e][k] \in Ends \cup {None}
    BY DEF IInv, TypeOK
  <2>3. Mappings(fd, [data EXCEPT ![c][k - NFD] = TRUE])
    BY MapTypes
  <2>4. k \in FDs => Mappings([fd EXCEPT ![c][k] = fd[e][k]], data)
    BY <2>1, MapTypes
  <2>2. k < NFD => k \in FDs
    BY CallFacts, SizeAssumption DEF FDs
  <2> QED
    BY <2>1, <2>2, <2>3, <2>4, MapTypes DEF DupPage, Goto
<1>10. told' \in [Envs -> SUBSET Ends]
  BY DEF DupPage, Goto, IInv, TypeOK
<1> QED
  BY <1>1, <1>7, <1>8, <1>9, <1>10 DEF IInv, TypeOK, Mappings, pipeVars

LEMMA StartInv == ASSUME IInv, NEW e \in Envs, NEW c \in Envs, Start(e, c) PROVE IInv'
<1> DEFINE x == Idle
<1>1. call' = [call EXCEPT ![e] = x] /\ UNCHANGED pipeVars
  BY CallFacts, ActsFacts DEF Start, Return, Calls
<1>2. Keeps(e, x)
  BY IdleKeeps
<1>3. /\ \A d \in Envs : life[d] = "gone" => life'[d] = "gone"
      /\ \A d \in Envs : life[d] = "runs" /\ (d = e => x.op # "none") => life'[d] = "runs"
      /\ x.op # "none" => life[e] = "runs"
  BY ActsFacts DEF Start, Return, IInv, TypeOK
<1>4. ~Doing(e, "read", "next") \/ life'[e] = "gone"
  BY CallFacts, IdleCall DEF Start, Return, Doing, Idle, IInv, TypeOK, InCheck
<1>5. UsesPipe(x.op) => fd'[e][x.n] # None
  BY IdleFields DEF UsesPipe
<1>6. \A d \in Envs \ {e} : UsesPipe(call[d].op) => fd'[d] = fd[d]
  BY DEF Start, Return, IInv, TypeOK
<1>7. DataInv' /\ call' \in [Envs -> Calls]
  BY <1>1, <1>2, <1>3, <1>4, <1>5, <1>6, QuietStep
<1>8. life' \in [Envs -> {"none", "forked", "runs", "gone"}] /\ moved' \in [Envs -> BOOLEAN]
  BY ActsFacts DEF Start, Return, IInv, TypeOK
<1>9. Mappings(fd', data')
  BY MapTypes DEF Start, Return
<1>10. told' \in [Envs -> SUBSET Ends]
  BY DEF Start, Return, IInv, TypeOK
<1> QED
  BY <1>1, <1>7, <1>8, <1>9, <1>10 DEF IInv, TypeOK, Mappings, pipeVars

LEMMA TestInv == ASSUME IInv, NEW e \in Envs, NEW n \in FDs, Test(e, n) PROVE IInv'
<1> DEFINE x == Begin("test", "sample", n, 0, 0)
<1>1. call' = [call EXCEPT ![e] = x] /\ UNCHANGED pipeVars
  BY CallFacts, ActsFacts DEF Test, Calls
<1>2. Keeps(e, x)
  BY BeginKeeps, SizeAssumption DEF Test, FDs
<1>3. /\ \A d \in Envs : life[d] = "gone" => life'[d] = "gone"
      /\ \A d \in Envs : life[d] = "runs" /\ (d = e => x.op # "none") => life'[d] = "runs"
      /\ x.op # "none" => life[e] = "runs"
  BY ActsFacts DEF Test, IInv, TypeOK
<1>4. ~Doing(e, "read", "next") \/ life'[e] = "gone"
  BY IdleFields DEF Test, Doing
<1>5. UsesPipe(x.op) => fd'[e][x.n] # None
  BY DEF Test, Begin, UsesPipe
<1>6. \A d \in Envs \ {e} : UsesPipe(call[d].op) => fd'[d] = fd[d]
  BY DEF Test, IInv, TypeOK
<1>7. DataInv' /\ call' \in [Envs -> Calls]
  BY <1>1, <1>2, <1>3, <1>4, <1>5, <1>6, QuietStep
<1>8. life' \in [Envs -> {"none", "forked", "runs", "gone"}] /\ moved' \in [Envs -> BOOLEAN]
  BY ActsFacts DEF Test, IInv, TypeOK
<1>9. Mappings(fd', data')
  BY MapTypes DEF Test
<1>10. told' \in [Envs -> SUBSET Ends]
  BY DEF Test, IInv, TypeOK
<1> QED
  BY <1>1, <1>7, <1>8, <1>9, <1>10 DEF IInv, TypeOK, Mappings, pipeVars

LEMMA SampleRunsInv == ASSUME IInv, NEW e \in Envs, SampleRuns(e) PROVE IInv'
<1> DEFINE x == [call[e] EXCEPT !.at = "ref1"]
<1>1. call' = [call EXCEPT ![e] = x] /\ UNCHANGED pipeVars
  BY CallFacts, ActsFacts DEF SampleRuns, Goto, Calls
<1>2. Keeps(e, x)
  BY AtKeeps, CallFacts, ZeroRef DEF SampleRuns, Goto, Inside
<1>3. /\ \A d \in Envs : life[d] = "gone" => life'[d] = "gone"
      /\ \A d \in Envs : life[d] = "runs" /\ (d = e => x.op # "none") => life'[d] = "runs"
      /\ x.op # "none" => life[e] = "runs"
  BY ActsFacts DEF SampleRuns, Goto, IInv, TypeOK
<1>4. ~Doing(e, "read", "next") \/ life'[e] = "gone"
  BY CallFacts, IdleCall DEF SampleRuns, Goto, Doing, Idle, IInv, TypeOK, InCheck
<1>5. UsesPipe(x.op) => fd'[e][x.n] # None
  BY <1>2, CallFacts DEF SampleRuns, Goto, Keeps, CallOK, UsesPipe, Inside
<1>6. \A d \in Envs \ {e} : UsesPipe(call[d].op) => fd'[d] = fd[d]
  BY DEF SampleRuns, Goto, IInv, TypeOK
<1>7. DataInv' /\ call' \in [Envs -> Calls]
  BY <1>1, <1>2, <1>3, <1>4, <1>5, <1>6, QuietStep
<1>8. life' \in [Envs -> {"none", "forked", "runs", "gone"}] /\ moved' \in [Envs -> BOOLEAN]
  BY ActsFacts DEF SampleRuns, Goto, IInv, TypeOK
<1>9. Mappings(fd', data')
  BY MapTypes DEF SampleRuns, Goto
<1>10. told' \in [Envs -> SUBSET Ends]
  BY DEF SampleRuns, Goto, IInv, TypeOK
<1> QED
  BY <1>1, <1>7, <1>8, <1>9, <1>10 DEF IInv, TypeOK, Mappings, pipeVars

LEMMA ReadFdRefInv == ASSUME IInv, NEW e \in Envs, ReadFdRef(e) PROVE IInv'
<1> DEFINE x == [call[e] EXCEPT !.ref = Refs(fd[e][call[e].n]), !.at = "ref2"]
<1>1. call' = [call EXCEPT ![e] = x] /\ UNCHANGED pipeVars
  BY CallFacts, ActsFacts DEF ReadFdRef, Calls
<1>2. Keeps(e, x)
  <2>1. Refs(fd[e][call[e].n]) \in 0 .. NFD * Cardinality(Envs)
    BY RefsInRange DEF Refs
  <2> QED
    BY <2>1, AtKeeps, CallFacts, ZeroRef DEF ReadFdRef, Inside
<1>3. /\ \A d \in Envs : life[d] = "gone" => life'[d] = "gone"
      /\ \A d \in Envs : life[d] = "runs" /\ (d = e => x.op # "none") => life'[d] = "runs"
      /\ x.op # "none" => life[e] = "runs"
  BY ActsFacts DEF ReadFdRef, IInv, TypeOK
<1>4. ~Doing(e, "read", "next") \/ life'[e] = "gone"
  BY CallFacts, IdleCall DEF ReadFdRef, Doing, Idle, IInv, TypeOK, InCheck
<1>5. UsesPipe(x.op) => fd'[e][x.n] # None
  BY <1>2, CallFacts DEF ReadFdRef, Keeps, CallOK, UsesPipe, Inside
<1>6. \A d \in Envs \ {e} : UsesPipe(call[d].op) => fd'[d] = fd[d]
  BY DEF ReadFdRef, IInv, TypeOK
<1>7. DataInv' /\ call' \in [Envs -> Calls]
  BY <1>1, <1>2, <1>3, <1>4, <1>5, <1>6, QuietStep
<1>8. life' \in [Envs -> {"none", "forked", "runs", "gone"}] /\ moved' \in [Envs -> BOOLEAN]
  BY ActsFacts DEF ReadFdRef, IInv, TypeOK
<1>9. Mappings(fd', data')
  BY MapTypes DEF ReadFdRef
<1>10. told' \in [Envs -> SUBSET Ends]
  BY DEF ReadFdRef, IInv, TypeOK
<1> QED
  BY <1>1, <1>7, <1>8, <1>9, <1>10 DEF IInv, TypeOK, Mappings, pipeVars

LEMMA ReadDataRefInv == ASSUME IInv, NEW e \in Envs, ReadDataRef(e) PROVE IInv'
<1> DEFINE x == [call[e] EXCEPT !.ref = IF @ = DataRefs THEN 1 ELSE 0, !.at = "decide"]
<1>1. call' = [call EXCEPT ![e] = x] /\ UNCHANGED pipeVars
  BY CallFacts, ActsFacts DEF ReadDataRef, Calls
<1>2. Keeps(e, x)
  BY AtKeeps, CallFacts, ZeroRef DEF ReadDataRef, Inside
<1>3. /\ \A d \in Envs : life[d] = "gone" => life'[d] = "gone"
      /\ \A d \in Envs : life[d] = "runs" /\ (d = e => x.op # "none") => life'[d] = "runs"
      /\ x.op # "none" => life[e] = "runs"
  BY ActsFacts DEF ReadDataRef, IInv, TypeOK
<1>4. ~Doing(e, "read", "next") \/ life'[e] = "gone"
  BY CallFacts, IdleCall DEF ReadDataRef, Doing, Idle, IInv, TypeOK, InCheck
<1>5. UsesPipe(x.op) => fd'[e][x.n] # None
  BY <1>2, CallFacts DEF ReadDataRef, Keeps, CallOK, UsesPipe, Inside
<1>6. \A d \in Envs \ {e} : UsesPipe(call[d].op) => fd'[d] = fd[d]
  BY DEF ReadDataRef, IInv, TypeOK
<1>7. DataInv' /\ call' \in [Envs -> Calls]
  <2> HIDE DEF x
  <2> QED
    BY <1>1, <1>2, <1>3, <1>4, <1>5, <1>6, QuietStep
<1>8. life' \in [Envs -> {"none", "forked", "runs", "gone"}] /\ moved' \in [Envs -> BOOLEAN]
  BY ActsFacts DEF ReadDataRef, IInv, TypeOK
<1>9. Mappings(fd', data')
  BY MapTypes DEF ReadDataRef
<1>10. told' \in [Envs -> SUBSET Ends]
  BY DEF ReadDataRef, IInv, TypeOK
<1> QED
  BY <1>1, <1>7, <1>8, <1>9, <1>10 DEF IInv, TypeOK, Mappings, pipeVars

LEMMA RetryInv == ASSUME IInv, NEW e \in Envs, Retry(e) PROVE IInv'
<1> DEFINE x == [call[e] EXCEPT !.at = "sample", !.ref = 0]
<1>1. call' = [call EXCEPT ![e] = x] /\ UNCHANGED pipeVars
  BY CallFacts, ActsFacts DEF Retry, Calls
<1>2. Keeps(e, x)
  BY AtKeeps, CallFacts, ZeroRef DEF Retry, Inside
<1>3. /\ \A d \in Envs : life[d] = "gone" => life'[d] = "gone"
      /\ \A d \in Envs : life[d] = "runs" /\ (d = e => x.op # "none") => life'[d] = "runs"
      /\ x.op # "none" => life[e] = "runs"
  BY ActsFacts DEF Retry, IInv, TypeOK
<1>4. ~Doing(e, "read", "next") \/ life'[e] = "gone"
  BY CallFacts, IdleCall DEF Retry, Doing, Idle, IInv, TypeOK, InCheck
<1>5. UsesPipe(x.op) => fd'[e][x.n] # None
  BY <1>2, CallFacts DEF Retry, Keeps, CallOK, UsesPipe, Inside
<1>6. \A d \in Envs \ {e} : UsesPipe(call[d].op) => fd'[d] = fd[d]
  BY DEF Retry, IInv, TypeOK
<1>7. DataInv' /\ call' \in [Envs -> Calls]
  BY <1>1, <1>2, <1>3, <1>4, <1>5, <1>6, QuietStep
<1>8. life' \in [Envs -> {"none", "forked", "runs", "gone"}] /\ moved' \in [Envs -> BOOLEAN]
  BY ActsFacts DEF Retry, IInv, TypeOK
<1>9. Mappings(fd', data')
  BY MapTypes DEF Retry
<1>10. told' \in [Envs -> SUBSET Ends]
  BY DEF Retry, IInv, TypeOK
<1> QED
  BY <1>1, <1>7, <1>8, <1>9, <1>10 DEF IInv, TypeOK, Mappings, pipeVars

LEMMA VerdictInv == ASSUME IInv, NEW e \in Envs, Verdict(e) PROVE IInv'
<1> DEFINE x == IF call[e].ref = 1 \/ call[e].op = "test" THEN Idle
                ELSE [call[e] EXCEPT !.at = "look", !.ref = 0]
<1>1. call' = [call EXCEPT ![e] = x] /\ UNCHANGED pipeVars
  BY CallFacts, ActsFacts DEF Verdict, Return, Calls
<1>2. Keeps(e, x)
  <2>1. CASE call[e].ref = 1 \/ call[e].op = "test"
    BY <2>1, IdleKeeps
  <2>2. CASE ~(call[e].ref = 1 \/ call[e].op = "test")
    BY <2>2, AtKeeps, CallFacts, ZeroRef DEF Verdict, Return, Inside
  <2> QED
    BY <2>1, <2>2
<1>3. /\ \A d \in Envs : life[d] = "gone" => life'[d] = "gone"
      /\ \A d \in Envs : life[d] = "runs" /\ (d = e => x.op # "none") => life'[d] = "runs"
      /\ x.op # "none" => life[e] = "runs"
  BY ActsFacts DEF Verdict, Return, IInv, TypeOK
<1>4. ~Doing(e, "read", "next") \/ life'[e] = "gone"
  BY CallFacts, IdleCall DEF Verdict, Return, Doing, Idle, IInv, TypeOK, InCheck
<1>5. UsesPipe(x.op) => fd'[e][x.n] # None
  <2>1. UsesPipe(x.op) => x.n = call[e].n
    <3> DEFINE y == [call[e] EXCEPT !.at = "look", !.ref = 0]
    <3>1. y.n = call[e].n
      BY CallFacts, SameFields
    <3>2. x = Idle \/ x = y
      OBVIOUS
    <3> QED
      BY <3>1, <3>2, IdleFields DEF UsesPipe
  <2> QED
    BY <2>1, CallFacts DEF Verdict, Return, CallOK, UsesPipe, Inside
<1>6. \A d \in Envs \ {e} : UsesPipe(call[d].op) => fd'[d] = fd[d]
  BY DEF Verdict, Return, IInv, TypeOK
<1>7. DataInv' /\ call' \in [Envs -> Calls]
  <2> HIDE DEF x
  <2> QED
    BY <1>1, <1>2, <1>3, <1>4, <1>5, <1>6, QuietStep
<1>8. life' \in [Envs -> {"none", "forked", "runs", "gone"}] /\ moved' \in [Envs -> BOOLEAN]
  BY ActsFacts DEF Verdict, Return, IInv, TypeOK
<1>9. Mappings(fd', data')
  BY MapTypes DEF Verdict, Return
<1>10. told' \in [Envs -> SUBSET Ends]
  <2>1. fd[e][call[e].n] \in Ends
    BY CallFacts DEF Verdict, Return, CallOK, UsesPipe, Inside
  <2>2. told[e] \cup {fd[e][call[e].n]} \in SUBSET Ends
    BY <2>1, CallFacts
  <2>3. told' = told \/ told' = [told EXCEPT ![e] = told[e] \cup {fd[e][call[e].n]}]
    BY DEF Verdict, Return
  <2> QED
    BY <2>2, <2>3 DEF IInv, TypeOK
<1> QED
  BY <1>1, <1>7, <1>8, <1>9, <1>10 DEF IInv, TypeOK, Mappings, pipeVars

LEMMA ReadInv == ASSUME IInv, NEW e \in Envs, NEW n \in FDs, NEW k \in 1 .. MaxRead, Read(e, n, k) PROVE IInv'
<1> DEFINE x == Begin("read", "look", n, 0, k)
<1>1. call' = [call EXCEPT ![e] = x] /\ UNCHANGED pipeVars
  BY CallFacts, ActsFacts DEF Read, Calls
<1>2. Keeps(e, x)
  BY BeginKeeps, SizeAssumption DEF Read, FDs
<1>3. /\ \A d \in Envs : life[d] = "gone" => life'[d] = "gone"
      /\ \A d \in Envs : life[d] = "runs" /\ (d = e => x.op # "none") => life'[d] = "runs"
      /\ x.op # "none" => life[e] = "runs"
  BY ActsFacts DEF Read, IInv, TypeOK
<1>4. ~Doing(e, "read", "next") \/ life'[e] = "gone"
  BY IdleFields DEF Read, Doing
<1>5. UsesPipe(x.op) => fd'[e][x.n] # None
  BY NoneAssumption DEF Read, Begin, IInv, TypeOK
<1>6. \A d \in Envs \ {e} : UsesPipe(call[d].op) => fd'[d] = fd[d]
  BY DEF Read, IInv, TypeOK
<1>7. DataInv' /\ call' \in [Envs -> Calls]
  BY <1>1, <1>2, <1>3, <1>4, <1>5, <1>6, QuietStep
<1>8. life' \in [Envs -> {"none", "forked", "runs", "gone"}] /\ moved' \in [Envs -> BOOLEAN]
  BY ActsFacts DEF Read, IInv, TypeOK
<1>9. Mappings(fd', data')
  BY MapTypes DEF Read
<1>10. told' \in [Envs -> SUBSET Ends]
  BY DEF Read, IInv, TypeOK
<1> QED
  BY <1>1, <1>7, <1>8, <1>9, <1>10 DEF IInv, TypeOK, Mappings, pipeVars

LEMMA WriteInv == ASSUME IInv, NEW e \in Envs, NEW n \in FDs, NEW k \in 1 .. NBytes, Write(e, n, k) PROVE IInv'
<1> DEFINE x == Begin("write", "look", n, 0, k)
<1>1. call' = [call EXCEPT ![e] = x] /\ UNCHANGED pipeVars
  BY CallFacts, ActsFacts DEF Write, Calls
<1>2. Keeps(e, x)
  BY BeginKeeps, SizeAssumption DEF Write, FDs
<1>3. /\ \A d \in Envs : life[d] = "gone" => life'[d] = "gone"
      /\ \A d \in Envs : life[d] = "runs" /\ (d = e => x.op # "none") => life'[d] = "runs"
      /\ x.op # "none" => life[e] = "runs"
  BY ActsFacts DEF Write, IInv, TypeOK
<1>4. ~Doing(e, "read", "next") \/ life'[e] = "gone"
  BY IdleFields DEF Write, Doing
<1>5. UsesPipe(x.op) => fd'[e][x.n] # None
  BY NoneAssumption DEF Write, Begin, IInv, TypeOK
<1>6. \A d \in Envs \ {e} : UsesPipe(call[d].op) => fd'[d] = fd[d]
  BY DEF Write, IInv, TypeOK
<1>7. DataInv' /\ call' \in [Envs -> Calls]
  BY <1>1, <1>2, <1>3, <1>4, <1>5, <1>6, QuietStep
<1>8. life' \in [Envs -> {"none", "forked", "runs", "gone"}] /\ moved' \in [Envs -> BOOLEAN]
  BY ActsFacts DEF Write, IInv, TypeOK
<1>9. Mappings(fd', data')
  BY MapTypes DEF Write
<1>10. told' \in [Envs -> SUBSET Ends]
  BY DEF Write, IInv, TypeOK
<1> QED
  BY <1>1, <1>7, <1>8, <1>9, <1>10 DEF IInv, TypeOK, Mappings, pipeVars

LEMMA DestroyedInv == ASSUME IInv, NEW e \in Envs, Destroyed(e) PROVE IInv'
<1> DEFINE x == Idle
<1>1. call' = [call EXCEPT ![e] = x] /\ UNCHANGED pipeVars
  BY CallFacts, ActsFacts DEF Destroyed, Calls
<1>2. Keeps(e, x)
  BY IdleKeeps
<1>3. /\ \A d \in Envs : life[d] = "gone" => life'[d] = "gone"
      /\ \A d \in Envs : life[d] = "runs" /\ (d = e => x.op # "none") => life'[d] = "runs"
      /\ x.op # "none" => life[e] = "runs"
  BY IdleFields DEF Destroyed, IInv, TypeOK
<1>4. ~Doing(e, "read", "next") \/ life'[e] = "gone"
  BY CallFacts, IdleCall DEF Destroyed, Doing, Idle, IInv, TypeOK, InCheck
<1>5. UsesPipe(x.op) => fd'[e][x.n] # None
  BY IdleFields DEF UsesPipe
<1>6. \A d \in Envs \ {e} : UsesPipe(call[d].op) => fd'[d] = fd[d]
  BY DEF Destroyed, IInv, TypeOK
<1>7. DataInv' /\ call' \in [Envs -> Calls]
  BY <1>1, <1>2, <1>3, <1>4, <1>5, <1>6, QuietStep
<1>8. life' \in [Envs -> {"none", "forked", "runs", "gone"}] /\ moved' \in [Envs -> BOOLEAN]
  BY ActsFacts DEF Destroyed, IInv, TypeOK
<1>9. Mappings(fd', data')
  BY MapTypes DEF Destroyed, Mappings
<1>10. told' \in [Envs -> SUBSET Ends]
  BY DEF Destroyed, IInv, TypeOK
<1> QED
  BY <1>1, <1>7, <1>8, <1>9, <1>10 DEF IInv, TypeOK, Mappings, pipeVars

LEMMA RerunInv == ASSUME IInv, NEW e \in Envs, Rerun(e) PROVE IInv'
<1>1. TypeOK'
  BY DEF Rerun, IInv, TypeOK, pipeVars
<1>2. \A d \in Envs : CallOK(d)' /\ Midway(d)'
  BY DEF Rerun, IInv, DataInv, CallOK, Midway, Doing, pipeVars
<1>3. OneWriter' /\ InBuffer' /\ BytesInOrder'
  BY DEF Rerun, IInv, DataInv, OneWriter, InBuffer, BytesInOrder, pipeVars
<1>4. Taken'
  BY DEF Rerun, IInv, DataInv, Taken, Doing, pipeVars
<1> QED
  BY <1>1, <1>2, <1>3, <1>4 DEF IInv, DataInv

LEMMA LookInv == ASSUME IInv, NEW e \in Envs, Look(e) PROVE IInv'
<1>1. \E x : /\ Keeps(e, x) /\ call' = [call EXCEPT ![e] = x]
             /\ UsesPipe(x.op) => x.n = call[e].n
  <2>1. CallOK(e) /\ call[e].at = "look" /\ rpos <= wpos /\ wpos <= rpos + BufSize
    BY CallFacts DEF Look, IInv, DataInv, InBuffer
  <2>2. CASE (IF call[e].op = "read" THEN ~Empty ELSE ~Full) /\ Goto(e, "move")
    <3> DEFINE x == [call[e] EXCEPT !.at = "move"]
    <3>1. call' = [call EXCEPT ![e] = x] /\ x.n = call[e].n
      BY <2>2, CallFacts, SameFields DEF Goto
    <3>2. /\ call[e].op = "read" => rpos < wpos
          /\ call[e].op = "write" => wpos < rpos + BufSize
      BY <2>1, <2>2, CallFacts, SizeAssumption DEF Empty, Full
    <3>3. Keeps(e, x)
      BY <2>1, <3>2, AtKeeps, ZeroRef DEF Inside, CallOK
    <3> QED
      BY <3>1, <3>3
  <2>3. CASE Return(e)
    BY <2>3, IdleKeeps, IdleFields DEF Return, UsesPipe
  <2>4. CASE Goto(e, "sample")
    <3> DEFINE x == [call[e] EXCEPT !.at = "sample"]
    <3>1. call' = [call EXCEPT ![e] = x] /\ x.n = call[e].n
      BY <2>4, CallFacts, SameFields DEF Goto
    <3>2. Keeps(e, x)
      BY <2>1, AtKeeps, ZeroRef DEF Inside
    <3> QED
      BY <3>1, <3>2
  <2> QED
    BY <2>2, <2>3, <2>4 DEF Look
<1>2. PICK x : /\ Keeps(e, x) /\ call' = [call EXCEPT ![e] = x]
               /\ UsesPipe(x.op) => x.n = call[e].n
  BY <1>1
<1>3. call[e].at = "look" /\ life[e] = "runs" /\ UNCHANGED <<life, fd, data, pipeVars, told>>
  BY ActsFacts DEF Look, IInv
<1>4. fd[e][call[e].n] # None
  BY <1>3, CallFacts DEF CallOK, Inside
<1>5. ~Doing(e, "read", "next")
  BY <1>3 DEF Doing
<1>6. DataInv' /\ call' \in [Envs -> Calls]
  BY <1>2, <1>3, <1>4, <1>5, QuietStep
<1>7. moved' \in [Envs -> BOOLEAN]
  BY ActsFacts DEF Look, IInv
<1> QED
  BY <1>3, <1>6, <1>7 DEF IInv, TypeOK, pipeVars

(* A step on the data of the pipe leaves the other environments' calls alone. *)
LEMMA OthersStay ==
    ASSUME IInv, NEW e \in Envs, NEW x, call' = [call EXCEPT ![e] = x], UNCHANGED <<life, fd>>,
           call[e].op # "write" => wpos' = wpos
    PROVE  /\ call'[e] = x
           /\ \A d \in Envs \ {e} : CallOK(d)' /\ call'[d] = call[d]
<1>1. call'[e] = x /\ \A d \in Envs \ {e} : call'[d] = call[d]
  BY DEF IInv, TypeOK
<1>2. \A d \in Envs \ {e} : CallOK(d)'
  <2> SUFFICES ASSUME NEW d \in Envs \ {e} PROVE CallOK(d)'
    OBVIOUS
  <2>1. call'[d] = call[d] /\ CallOK(d) /\ (call[d].op = "write" => wpos' = wpos)
    BY <1>1, CallFacts
  <2> QED
    BY <2>1 DEF CallOK
<1> QED
  BY <1>1, <1>2

LEMMA TakeInv == ASSUME IInv, NEW e \in Envs, Take(e) PROVE IInv'
<1> DEFINE x == [call[e] EXCEPT !.at = "next"]
<1>1. /\ call' = [call EXCEPT ![e] = x] /\ Doing(e, "read", "move") /\ life[e] = "runs"
      /\ UNCHANGED <<life, fd, data, rpos, wpos, buf, told>> /\ moved' \in [Envs -> BOOLEAN]
      /\ got' = Append(got, buf[rpos % BufSize])
  BY ActsFacts DEF Take, Goto, Doing, IInv
<1>2. /\ x \in Calls /\ x.op = "read" /\ x.at = "next"
      /\ x.n = call[e].n /\ x.left = call[e].left
  <2>1. call[e] \in Calls /\ call[e].op = "read"
    BY <1>1, CallFacts DEF Doing
  <2>2. x \in Calls
    BY <2>1 DEF Calls
  <2> QED
    BY <2>1, <2>2, SameFields
<1>3. call'[e] = x /\ \A d \in Envs \ {e} : CallOK(d)' /\ call'[d] = call[d]
  BY <1>1, OthersStay
<1>4. e = Reader /\ rpos < wpos /\ Len(got) = rpos
  BY <1>1, CallFacts DEF IInv, DataInv, CallOK, Midway, Taken, Doing
<1>5. buf[rpos % BufSize] = rpos
  BY <1>4, CallFacts DEF IInv, DataInv, InBuffer
<1>6. /\ got \in Seq(0 .. NBytes) /\ rpos \in 0 .. NBytes /\ wpos \in 0 .. NBytes /\ NBytes \in Nat
      /\ got' = Append(got, rpos)
  BY <1>1, <1>5, SizeAssumption DEF IInv, TypeOK
<1>7. got' \in Seq(0 .. NBytes) /\ Len(got') = rpos + 1 /\ Len(got') <= NBytes
  BY <1>4, <1>6
<1> HIDE DEF x
<1>8. TypeOK'
  BY <1>1, <1>2, <1>7 DEF IInv, TypeOK
<1>9. \A d \in Envs : CallOK(d)'
  <2>1. CallOK(e)
    BY CallFacts
  <2>2. CallOK(e)'
    BY <1>1, <1>2, <1>3, <2>1 DEF CallOK, UsesPipe, Inside, Doing
  <2> QED
    BY <1>3, <2>2
<1>10. \A d \in Envs : Midway(d)'
  BY <1>1, <1>2, <1>3, <1>4 DEF IInv, DataInv, Midway, Doing
<1>11. OneWriter'
  BY <1>1, <1>2, <1>3 DEF IInv, DataInv, OneWriter
<1>12. InBuffer'
  BY <1>1 DEF IInv, DataInv, InBuffer
<1>13. Taken'
  BY <1>1, <1>2, <1>3, <1>4, <1>7 DEF Taken, Doing
<1>14. BytesInOrder'
  <2>1. \A i \in 1 .. Len(got) : got[i] = i - 1 /\ got'[i] = got[i]
    BY <1>6 DEF IInv, DataInv, BytesInOrder
  <2>2. got'[rpos + 1] = rpos
    BY <1>4, <1>6
  <2> QED
    BY <1>4, <1>6, <1>7, <2>1, <2>2 DEF BytesInOrder
<1> QED
  BY <1>8, <1>9, <1>10, <1>11, <1>12, <1>13, <1>14 DEF IInv, DataInv

LEMMA StoreInv == ASSUME IInv, NEW e \in Envs, Store(e) PROVE IInv'
<1> DEFINE x == [call[e] EXCEPT !.at = "next"]
<1>1. /\ call' = [call EXCEPT ![e] = x] /\ Doing(e, "write", "move")
      /\ UNCHANGED <<life, fd, data, rpos, wpos, got, told>> /\ moved' \in [Envs -> BOOLEAN]
      /\ buf' = [buf EXCEPT ![wpos % BufSize] = wpos]
  BY ActsFacts DEF Store, Goto, Doing, IInv
<1>2. /\ x \in Calls /\ x.op = "write" /\ x.at = "next"
      /\ x.n = call[e].n /\ x.left = call[e].left
  <2>1. call[e] \in Calls /\ call[e].op = "write"
    BY <1>1, CallFacts DEF Doing
  <2>2. x \in Calls
    BY <2>1 DEF Calls
  <2> QED
    BY <2>1, <2>2, SameFields
<1>3. call'[e] = x /\ \A d \in Envs \ {e} : CallOK(d)' /\ call'[d] = call[d]
  BY <1>1, OthersStay
<1> HIDE DEF x
<1>4. /\ rpos \in Nat /\ wpos \in Nat /\ BufSize \in Nat \ {0}
      /\ buf \in [0 .. BufSize - 1 -> 0 .. NBytes] /\ wpos \in 0 .. NBytes
  BY CallFacts, SizeAssumption DEF IInv, TypeOK
<1>5. \A d \in Envs \ {e} : call[d].op # "write"
  BY <1>1, CallFacts DEF Doing
<1>6. wpos < rpos + BufSize /\ wpos % BufSize \in 0 .. BufSize - 1 /\ buf'[wpos % BufSize] = wpos
  BY <1>1, <1>4, Division DEF IInv, DataInv, Midway
<1>7. TypeOK'
  BY <1>1, <1>2, <1>4 DEF IInv, TypeOK
<1>8. \A d \in Envs : CallOK(d)'
  <2>1. CallOK(e)
    BY CallFacts
  <2>2. CallOK(e)'
    BY <1>1, <1>2, <1>3, <2>1 DEF CallOK, UsesPipe, Inside, Doing
  <2> QED
    BY <1>3, <2>2
<1>9. \A d \in Envs : Midway(d)'
  BY <1>1, <1>2, <1>3, <1>5, <1>6 DEF IInv, DataInv, Midway, Doing
<1>10. OneWriter'
  BY <1>2, <1>3, <1>5 DEF OneWriter
<1>11. InBuffer'
  <2>1. ASSUME NEW i \in rpos .. wpos - 1 PROVE buf'[i % BufSize] = i
    <3>1. i \in Nat /\ i < wpos /\ wpos < i + BufSize
      BY <1>4, <1>6
    <3>2. i % BufSize # wpos % BufSize /\ i % BufSize \in 0 .. BufSize - 1
      BY <1>4, <3>1, SlotsDiffer, Division
    <3>3. buf[i % BufSize] = i
      BY DEF IInv, DataInv, InBuffer
    <3> QED
      BY <1>1, <1>4, <3>2, <3>3
  <2> QED
    BY <1>1, <2>1 DEF IInv, DataInv, InBuffer
<1>12. Taken'
  BY <1>1, <1>2, <1>3 DEF IInv, DataInv, Taken, Doing
<1>13. BytesInOrder'
  BY <1>1 DEF IInv, DataInv, BytesInOrder
<1> QED
  BY <1>7, <1>8, <1>9, <1>10, <1>11, <1>12, <1>13 DEF IInv, DataInv

LEMMA AdvanceInv == ASSUME IInv, NEW e \in Envs, Advance(e) PROVE IInv'
<1> DEFINE x == IF call[e].left = 1 THEN Idle
                ELSE [call[e] EXCEPT !.left = call[e].left - 1, !.at = "look", !.part = TRUE]
<1>1. /\ call' = [call EXCEPT ![e] = x] /\ call[e].at = "next"
      /\ UNCHANGED <<life, fd, data, buf, got, told>> /\ moved' \in [Envs -> BOOLEAN]
      /\ call[e].op = "read" => rpos' = rpos + 1 /\ wpos' = wpos
      /\ call[e].op # "read" => wpos' = wpos + 1 /\ rpos' = rpos
  <2>1. Acts(e, FALSE) /\ TypeOK
    BY DEF Advance, IInv
  <2>2. moved' \in [Envs -> BOOLEAN]
    BY <2>1, ActsFacts
  <2>3. call' = [call EXCEPT ![e] = x]
    BY DEF Advance, Return
  <2>4. /\ call[e].op = "read" => rpos' = rpos + 1 /\ wpos' = wpos
        /\ call[e].op # "read" => wpos' = wpos + 1 /\ rpos' = rpos
    BY DEF Advance
  <2> QED
    BY <2>2, <2>3, <2>4 DEF Advance
<1>2. /\ call[e] \in Calls /\ CallOK(e) /\ call[e].op \in {"read", "write"}
      /\ call[e].left \in 1 .. MaxRead + NBytes /\ rpos \in Nat /\ wpos \in Nat /\ NBytes \in Nat
      /\ MaxRead \in Nat /\ BufSize \in Nat /\ life[e] = "runs"
  <2>1. call[e] \in Calls /\ CallOK(e) /\ rpos \in Nat /\ wpos \in Nat
    BY CallFacts
  <2>2. call[e].op \in {"read", "write"}
    BY <1>1, <2>1 DEF CallOK, UsesPipe, Inside
  <2>3. call[e].left \in 0 .. MaxRead + NBytes
    BY <2>1 DEF Calls
  <2> QED
    BY <2>1, <2>2, <2>3, SizeAssumption DEF CallOK
<1>3. /\ x \in Calls /\ (x.op = call[e].op \/ x.op = "none")
      /\ UsesPipe(x.op) <=> Inside(x.at)
      /\ x.at \in {"", "look"}
      /\ UsesPipe(x.op) => /\ x.n = call[e].n /\ x.left >= 1
                           /\ x.left = call[e].left - 1 /\ x.op = call[e].op
  <2>1. CASE call[e].left = 1
    BY <2>1, IdleCall, IdleFields DEF UsesPipe, Inside
  <2>2. CASE call[e].left # 1
    <3>1. call[e].left - 1 \in 0 .. MaxRead + NBytes /\ call[e].left - 1 >= 1
      BY <1>2, <2>2
    <3> QED
      BY <1>2, <2>2, <3>1 DEF Calls, UsesPipe, Inside
  <2> QED
    BY <2>1, <2>2
<1> HIDE DEF x
<1>4. call'[e] = x /\ \A d \in Envs \ {e} : CallOK(d)' /\ call'[d] = call[d]
  BY <1>1, <1>2, OthersStay
<1>5. CallOK(e)'
  <2>1. call'[e] = x /\ life'[e] = "runs" /\ fd' = fd
    BY <1>1, <1>2, <1>4
  <2>2. UsesPipe(x.op) => x.n = call[e].n /\ fd[e][call[e].n] # None /\ x.left >= 1
    BY <1>2, <1>3 DEF CallOK, UsesPipe
  <2>3. x.op = "read" => e = Reader
    BY <1>2, <1>3 DEF CallOK
  <2>4. x.op = "write" => call[e].op = "write" /\ x.left = call[e].left - 1
    BY <1>3 DEF UsesPipe
  <2>5. x.op = "write" => wpos' + x.left <= NBytes
    BY <1>1, <1>2, <2>4 DEF CallOK
  <2>6. x.op # "test"
    BY <1>2, <1>3
  <2>7. x.op \in {"read", "write"} => x.left >= 1
    BY <1>3 DEF UsesPipe
  <2> QED
    BY <1>3, <2>1, <2>2, <2>3, <2>5, <2>6, <2>7 DEF CallOK
<1>6. OneWriter'
  BY ZenonT(30), <1>3, <1>4, <1>2 DEF IInv, DataInv, OneWriter
<1>7. BytesInOrder'
  BY <1>1 DEF IInv, DataInv, BytesInOrder
<1>8. rpos \in 0 .. NBytes /\ wpos \in 0 .. NBytes
  BY DEF IInv, TypeOK
<1>9. ASSUME rpos' \in 0 .. NBytes, wpos' \in 0 .. NBytes PROVE TypeOK'
  BY <1>1, <1>3, <1>9 DEF IInv, TypeOK
<1>10. CASE call[e].op = "read"
  <2>1. e = Reader /\ rpos' = rpos + 1 /\ wpos' = wpos /\ Doing(e, "read", "next")
    BY <1>1, <1>2, <1>10 DEF CallOK, Doing
  <2>2. rpos < wpos /\ Len(got) = rpos + 1
    BY <2>1 DEF IInv, DataInv, Midway, Taken
  <2>3. TypeOK'
    BY <1>8, <1>9, <1>2, <2>1, <2>2
  <2>4. \A d \in Envs \ {e} : call[d].op # "read"
    BY <2>1, CallFacts DEF CallOK
  <2>5. \A d \in Envs : Midway(d)'
    <3>1. Midway(e)'
      BY <1>3, <1>4 DEF Midway, Doing
    <3>2. ASSUME NEW d \in Envs \ {e} PROVE Midway(d)'
      <4>1. Midway(d) /\ call'[d] = call[d] /\ call[d].op # "read"
        BY <1>4, <2>4 DEF IInv, DataInv
      <4>2. buf' = buf /\ rpos \in Nat /\ wpos \in Nat /\ BufSize \in Nat
        BY <1>1, <1>2
      <4> QED
        BY <4>1, <4>2, <2>1 DEF Midway, Doing
    <3> QED
      BY <3>1, <3>2
  <2>6. InBuffer'
    <3>1. InBuffer /\ buf' = buf /\ rpos \in Nat /\ wpos \in Nat /\ BufSize \in Nat
      BY <1>1, <1>2 DEF IInv, DataInv
    <3>2. \A i \in rpos' .. wpos' - 1 : i \in rpos .. wpos - 1
      BY <3>1, <2>1
    <3>3. rpos' <= wpos' /\ wpos' <= rpos' + BufSize
      BY <3>1, <2>1, <2>2 DEF InBuffer
    <3> QED
      BY <3>1, <3>2, <3>3 DEF InBuffer
  <2>7. Taken'
    <3>1. \A d \in Envs : ~Doing(d, "read", "next")'
      BY <1>3, <1>4, <2>4 DEF Doing
    <3>2. got' = got /\ rpos \in Nat
      BY <1>1, <1>2
    <3> QED
      BY <2>1, <2>2, <3>1, <3>2 DEF Taken
  <2> QED
    BY <1>4, <1>5, <1>6, <1>7, <2>3, <2>5, <2>6, <2>7 DEF IInv, DataInv
<1>11. CASE call[e].op = "write"
  <2>1. rpos' = rpos /\ wpos' = wpos + 1 /\ Doing(e, "write", "next")
    BY <1>1, <1>11 DEF Doing
  <2>2. wpos < rpos + BufSize /\ buf[wpos % BufSize] = wpos /\ wpos + call[e].left <= NBytes
    BY <1>2, <1>11, <2>1 DEF IInv, DataInv, Midway, CallOK
  <2>3. TypeOK'
    BY <1>8, <1>9, <1>2, <2>1, <2>2
  <2>4. \A d \in Envs \ {e} : call[d].op # "write"
    BY <1>11, CallFacts
  <2>5. \A d \in Envs : Midway(d)'
    <3>1. Midway(e)'
      BY <1>3, <1>4 DEF Midway, Doing
    <3>2. ASSUME NEW d \in Envs \ {e} PROVE Midway(d)'
      <4>1. Midway(d) /\ call'[d] = call[d] /\ call[d].op # "write"
        BY <1>4, <2>4 DEF IInv, DataInv
      <4>2. buf' = buf /\ rpos \in Nat /\ wpos \in Nat /\ BufSize \in Nat
        BY <1>1, <1>2
      <4> QED
        BY <4>1, <4>2, <2>1 DEF Midway, Doing
    <3> QED
      BY <3>1, <3>2
  <2>6. InBuffer'
    BY <1>1, <1>2, <2>1, <2>2 DEF IInv, DataInv, InBuffer
  <2>7. Taken'
    <3>1. Taken /\ got' = got /\ life' = life /\ rpos \in Nat /\ wpos \in Nat
      BY <1>1, <1>2 DEF IInv, DataInv
    <3>2. \A d \in Envs : Doing(d, "read", "next")' <=> Doing(d, "read", "next")
      BY <1>3, <1>4, <1>11 DEF Doing
    <3> QED
      BY <2>1, <3>1, <3>2 DEF Taken
  <2> QED
    BY <1>4, <1>5, <1>6, <1>7, <2>3, <2>5, <2>6, <2>7 DEF IInv, DataInv
<1> QED
  BY <1>2, <1>10, <1>11

------------------------------------------------------------------------------
LEMMA NextInv == IInv /\ [Next]_vars => IInv'
<1> SUFFICES ASSUME IInv, [Next]_vars PROVE IInv'
  OBVIOUS
<1>1. ASSUME NEW e \in Envs, Call(e) PROVE IInv'
  BY <1>1, CloseInv, DupInv, ForkInv, TestInv, ReadInv, WriteInv DEF Call
<1>2. ASSUME NEW e \in Envs, Continue(e) PROVE IInv'
  BY <1>2, Unmap1Inv, Unmap2Inv, Map1Inv, Map2Inv, DupPageInv, StartInv, SampleRunsInv,
     ReadFdRefInv, ReadDataRefInv, RetryInv, VerdictInv, LookInv, TakeInv, StoreInv, AdvanceInv
     DEF Continue
<1>3. ASSUME UNCHANGED vars PROVE IInv'
  <2>1. TypeOK'
    BY <1>3 DEF IInv, TypeOK, vars
  <2>2. \A d \in Envs : CallOK(d)' /\ Midway(d)'
    BY <1>3 DEF IInv, DataInv, CallOK, Midway, Doing, vars
  <2>3. OneWriter' /\ InBuffer' /\ BytesInOrder' /\ Taken'
    BY <1>3 DEF IInv, DataInv, OneWriter, InBuffer, BytesInOrder, Taken, Doing, vars
  <2> QED
    BY <2>1, <2>2, <2>3 DEF IInv, DataInv
<1> QED
  BY <1>1, <1>2, <1>3, RerunInv, DestroyedInv DEF Next

(* The inductive invariant holds in every reachable state.                    *)
THEOREM Invariance == Spec => []IInv
BY InitInv, NextInv, PTL DEF Spec

(* The types hold however the environments' calls are interleaved: in         *)
(* particular _pipeisclosed() answers about an end the caller still has       *)
(* mapped (told), and no position passes the number of bytes written.         *)
THEOREM TypeCorrect == Spec => []TypeOK
<1>1. IInv => TypeOK
  BY DEF IInv
<1> QED
  BY <1>1, Invariance, PTL

(* devpipe_read hands over the bytes devpipe_write was given, each once and   *)
(* in order, whatever forks, closes, duplicates, interruptions and kills      *)
(* come in between, for any size of the ring, of the reads and of the writes. *)
THEOREM ReaderGetsTheBytes == Spec => []BytesInOrder
<1>1. IInv => BytesInOrder
  BY DEF IInv, DataInv
<1> QED
  BY <1>1, Invariance, PTL
------------------------------------------------------------------------------
(* _pipeisclosed().  The struct Fd of an end and the struct Pipe have the same *)
(* number of mappings only if every data page belongs to a descriptor of that  *)
(* end, provided that no descriptor is without its data page: that is what the *)
(* orders of close() and dup() are for (MidOK, Covered), and what a child half *)
(* copied by fork() violates until it has got everything (ForkOK).             *)

ForkOK(e) ==
    /\ call[e].op = "fork" <=> call[e].at \in {"page", "start"}
    /\ call[e].op = "fork" =>
         LET c == call[e].kid
         IN  /\ life[c] = "forked"
             /\ \A n \in FDs :
                   /\ fd[c][n] # None => fd[e][n] # None
                   /\ (call[e].at = "start" \/ NFD + n < call[e].m) /\ data[e][n] => data[c][n]

OneForker ==
    \A e, f \in Envs : call[e].op = "fork" /\ call[f].op = "fork" /\ call[e].kid = call[f].kid => e = f

MidOK(e) ==
    /\ call[e].op \in {"close", "dup"} <=> call[e].at \in {"unmap1", "unmap2", "map1", "map2"}
    /\ call[e].op \in {"close", "dup"} => call[e].m \in FDs
    /\ call[e].at = "unmap2" => fd[e][call[e].m] = None
    /\ call[e].at = "map2" /\ fd[e][call[e].n] # None => data[e][call[e].m]

Covered(e) == /\ life[e] # "forked" => \A n \in FDs : fd[e][n] # None => data[e][n]
              /\ life[e] = "none" => \A n \in FDs : fd[e][n] = None

Holds(e) == ForkOK(e) /\ MidOK(e) /\ Covered(e)
MapInv == OneForker /\ \A e \in Envs : Holds(e)

LEMMA InitMap == Init => MapInv
<1> SUFFICES ASSUME Init PROVE MapInv
  OBVIOUS
<1>1. \A e \in Envs : call[e].op = "none" /\ call[e].at = ""
  BY IdleFields DEF Init
<1>2. \A e \in Envs : Covered(e)
  BY DEF Init, Covered
<1> QED
  BY <1>1, <1>2 DEF MapInv, OneForker, Holds, ForkOK, MidOK

(* A step of one environment on its own mappings.                             *)
LEMMA OwnStep ==
    ASSUME IInv, MapInv, NEW e \in Envs, life[e] = "runs", call'[e].op # "fork",
           \A f \in Envs \ {e} : /\ call'[f] = call[f] /\ fd'[f] = fd[f]
                                 /\ data'[f] = data[f] /\ life'[f] = life[f]
    PROVE  OneForker' /\ \A f \in Envs \ {e} : Holds(f)'
<1>1. OneForker'
  BY DEF MapInv, OneForker
<1>2. ASSUME NEW f \in Envs \ {e} PROVE Holds(f)'
  <2>1. Holds(f) /\ call'[f] = call[f] /\ fd'[f] = fd[f] /\ data'[f] = data[f] /\ life'[f] = life[f]
    BY DEF MapInv
  <2>2. MidOK(f)' /\ Covered(f)'
    BY <2>1 DEF Holds, MidOK, Covered
  <2>3. ForkOK(f)'
    <3>1. CASE call[f].op # "fork"
      BY <2>1, <3>1 DEF Holds, ForkOK
    <3>2. CASE call[f].op = "fork"
      <4> DEFINE c == call[f].kid
      <4>1. c \in Envs /\ life[c] = "forked"
        BY <2>1, <3>2, CallFacts DEF Holds, ForkOK, Calls
      <4>2. c # e
        BY <4>1
      <4>3. fd'[c] = fd[c] /\ data'[c] = data[c] /\ life'[c] = "forked" /\ call'[f].kid = c
        BY <2>1, <4>1, <4>2
      <4> QED
        BY <2>1, <4>3 DEF Holds, ForkOK
    <3> QED
      BY <3>1, <3>2
  <2> QED
    BY <2>2, <2>3 DEF Holds
<1> QED
  BY <1>1, <1>2

(* A step that maps nothing, in a call that is not half way through a map.    *)
Plain(x) == /\ x.op # "fork" /\ x.at \notin {"page", "start", "unmap2", "map2"}
            /\ x.op \in {"close", "dup"} <=> x.at \in {"unmap1", "map1"}
            /\ x.op \in {"close", "dup"} => x.m \in FDs

LEMMA PlainStep ==
    ASSUME IInv, MapInv, NEW e \in Envs, life[e] = "runs", UNCHANGED <<life, fd, data>>,
           Plain(call'[e]), \A f \in Envs \ {e} : call'[f] = call[f]
    PROVE  MapInv'
<1>1. OneForker' /\ \A f \in Envs \ {e} : Holds(f)'
  BY OwnStep DEF Plain
<1>2. Holds(e)'
  <2>1. Covered(e)'
    BY DEF MapInv, Holds, Covered
  <2> QED
    BY <2>1 DEF Plain, Holds, ForkOK, MidOK
<1> QED
  BY <1>1, <1>2 DEF MapInv

LEMMA PlainCalls ==
    ASSUME IInv', NEW e \in Envs, Inside(call'[e].at) \/ call'[e] = Idle
    PROVE  Plain(call'[e])
<1>1. CASE Inside(call'[e].at)
  <2>1. UsesPipe(call'[e].op)
    BY <1>1 DEF IInv, DataInv, CallOK
  <2> QED
    BY <1>1, <2>1 DEF Plain, UsesPipe, Inside
<1>2. CASE call'[e] = Idle
  BY <1>2, IdleFields DEF Plain
<1> QED
  BY <1>1, <1>2

(* The steps of the calls that look at the pipe map nothing.                  *)
Looks(e) == \/ \E n \in FDs : Test(e, n)
            \/ \E n \in FDs, k \in Nat : Read(e, n, k) \/ Write(e, n, k)
            \/ SampleRuns(e) \/ ReadFdRef(e) \/ ReadDataRef(e) \/ Retry(e) \/ Verdict(e)
            \/ Look(e) \/ Take(e) \/ Store(e) \/ Advance(e)

LEMMA LooksFacts ==
    ASSUME IInv, NEW e \in Envs, Looks(e)
    PROVE  /\ life[e] = "runs" /\ UNCHANGED <<life, fd, data>>
           /\ \A f \in Envs \ {e} : call'[f] = call[f]
           /\ Inside(call'[e].at) \/ call'[e] = Idle
           /\ ReadFdRef(e) \/ ReadDataRef(e) \/ call'[e].at \notin {"ref2", "decide"}
<1>1. call \in [Envs -> Calls] /\ call[e] \in Calls
  BY CallFacts DEF IInv, TypeOK
<1>2. life[e] = "runs" /\ UNCHANGED <<life, fd, data>>
  BY DEF Looks, Test, Read, Write, SampleRuns, ReadFdRef, ReadDataRef, Retry, Verdict, Look,
         Take, Store, Advance, Acts
<1>3. \A f \in Envs \ {e} : call'[f] = call[f]
  BY <1>1 DEF Looks, Test, Read, Write, SampleRuns, ReadFdRef, ReadDataRef, Retry, Verdict, Look,
              Take, Store, Advance, Goto, Return
<1>4. \/ call'[e].at \in {"sample", "ref1", "look", "move", "next"} \/ call'[e] = Idle
      \/ ReadFdRef(e) \/ ReadDataRef(e)
  <2>1. ASSUME NEW n \in FDs, Test(e, n) PROVE call'[e].at = "sample"
    BY <1>1, <2>1 DEF Test, Begin
  <2>2. ASSUME NEW n \in FDs, NEW k \in Nat, Read(e, n, k) \/ Write(e, n, k)
        PROVE  call'[e].at = "look"
    <3>1. CASE Read(e, n, k)
      BY <1>1, <3>1 DEF Read, Begin
    <3>2. CASE Write(e, n, k)
      BY <1>1, <3>2 DEF Write, Begin
    <3> QED
      BY <2>2, <3>1, <3>2
  <2>3. ASSUME SampleRuns(e) PROVE call'[e].at = "ref1"
    BY <1>1, <2>3, SameFields DEF SampleRuns, Goto
  <2>4. ASSUME Retry(e) PROVE call'[e].at = "sample"
    BY <1>1, <2>4 DEF Retry, Calls
  <2>5. ASSUME Verdict(e) PROVE call'[e].at = "look" \/ call'[e] = Idle
    <3> DEFINE x == [call[e] EXCEPT !.at = "look", !.ref = 0]
    <3>1. call' = [call EXCEPT ![e] = Idle] \/ call' = [call EXCEPT ![e] = x]
      BY <2>5, Zenon DEF Verdict, Return
    <3>2. x.at = "look"
      BY <1>1, ZeroRef, SameFields
    <3> HIDE DEF x
    <3> QED
      BY <1>1, <3>1, <3>2
  <2>6. ASSUME Look(e) PROVE call'[e].at \in {"move", "sample"} \/ call'[e] = Idle
    <3>1. \/ call' = [call EXCEPT ![e].at = "move"] \/ call' = [call EXCEPT ![e] = Idle]
          \/ call' = [call EXCEPT ![e].at = "sample"]
      BY <2>6, Zenon DEF Look, Goto, Return
    <3>2. ASSUME NEW at \in {"move", "sample"}, call' = [call EXCEPT ![e].at = at]
          PROVE  call'[e].at = at
      BY <1>1, <3>2 DEF Calls
    <3>3. CASE call' = [call EXCEPT ![e] = Idle]
      BY <1>1, <3>3
    <3> QED
      BY <3>1, <3>2, <3>3
  <2>7. ASSUME Take(e) \/ Store(e) PROVE call'[e].at = "next"
    <3>1. call' = [call EXCEPT ![e].at = "next"]
      BY <2>7 DEF Take, Store, Goto
    <3> QED
      BY <1>1, <3>1 DEF Calls
  <2>8. ASSUME Advance(e) PROVE call'[e].at = "look" \/ call'[e] = Idle
    <3> DEFINE x == [call[e] EXCEPT !.left = call[e].left - 1, !.at = "look", !.part = TRUE]
    <3>1. call' = [call EXCEPT ![e] = Idle] \/ call' = [call EXCEPT ![e] = x]
      BY <2>8 DEF Advance, Return
    <3>2. x.at = "look"
      BY <1>1 DEF Calls
    <3> HIDE DEF x
    <3> QED
      BY <1>1, <3>1, <3>2
  <2> QED
    BY <2>1, <2>2, <2>3, <2>4, <2>5, <2>6, <2>7, <2>8 DEF Looks
<1>5. ReadFdRef(e) \/ ReadDataRef(e) => call'[e].at \in {"ref2", "decide"}
  <2>1. ASSUME ReadFdRef(e) PROVE call'[e].at = "ref2"
    BY <1>1, <2>1 DEF ReadFdRef, Calls
  <2>2. ASSUME ReadDataRef(e) PROVE call'[e].at = "decide"
    BY <1>1, <2>2 DEF ReadDataRef, Calls
  <2> QED
    BY <2>1, <2>2
<1> QED
  BY <1>2, <1>3, <1>4, <1>5, IdleFields DEF Inside

LEMMA LooksMap == ASSUME IInv, IInv', MapInv, NEW e \in Envs, Looks(e) PROVE MapInv'
BY LooksFacts, PlainCalls, PlainStep

(* close(), dup().                                                            *)
LEMMA CloseMap == ASSUME IInv, MapInv, NEW e \in Envs, NEW m \in FDs, Close(e, m) PROVE MapInv'
<1>1. /\ life[e] = "runs" /\ UNCHANGED <<life, fd, data>>
      /\ call'[e] = Begin("close", "unmap1", 0, m, 0) /\ \A f \in Envs \ {e} : call'[f] = call[f]
  BY DEF Close, Acts, IInv, TypeOK
<1>2. Plain(call'[e])
  BY <1>1 DEF Plain, Begin
<1> QED
  BY <1>1, <1>2, PlainStep

LEMMA DupMap ==
    ASSUME IInv, MapInv, NEW e \in Envs, NEW n \in FDs, NEW m \in FDs, Dup(e, n, m) PROVE MapInv'
<1>1. /\ life[e] = "runs" /\ UNCHANGED <<life, fd, data>>
      /\ call'[e] = Begin("dup", IF fd[e][m] # None THEN "unmap1" ELSE "map1", n, m, 0)
      /\ \A f \in Envs \ {e} : call'[f] = call[f]
  BY DEF Dup, Acts, IInv, TypeOK
<1>2. Plain(call'[e])
  BY <1>1 DEF Plain, Begin
<1> QED
  BY <1>1, <1>2, PlainStep

(* A step of close() or dup() on the mappings of its own environment.         *)
LEMMA MapStep ==
    ASSUME IInv, MapInv, NEW e \in Envs, life[e] = "runs", life' = life,
           NEW x, call' = [call EXCEPT ![e] = x],
           \A f \in Envs \ {e} : fd'[f] = fd[f] /\ data'[f] = data[f],
           x.op \in {"close", "dup"} <=> x.at \in {"unmap1", "unmap2", "map1", "map2"},
           x.op \in {"close", "dup", "none"}, x.op = "none" => x.at = "",
           x.op \in {"close", "dup"} => x.m \in FDs,
           x.at = "unmap2" => fd'[e][x.m] = None,
           x.at = "map2" /\ fd'[e][x.n] # None => data'[e][x.m],
           \A n \in FDs : fd'[e][n] # None => data'[e][n]
    PROVE  MapInv'
<1>1. call'[e] = x /\ \A f \in Envs \ {e} : call'[f] = call[f]
  BY DEF IInv, TypeOK
<1>2. OneForker' /\ \A f \in Envs \ {e} : Holds(f)'
  BY <1>1, OwnStep
<1>3. Holds(e)'
  BY <1>1 DEF Holds, ForkOK, MidOK, Covered
<1> QED
  BY <1>2, <1>3 DEF MapInv

LEMMA MidFacts ==
    ASSUME IInv, MapInv, NEW e \in Envs, call[e].at \in {"unmap1", "unmap2", "map1", "map2"}
    PROVE  /\ call[e].op \in {"close", "dup"} /\ call[e].m \in FDs /\ call[e].n \in FDs
           /\ call[e] \in Calls /\ life[e] = "runs"
           /\ \A n \in FDs : fd[e][n] # None => data[e][n]
           /\ fd \in [Envs -> [FDs -> Ends \cup {None}]] /\ data \in [Envs -> [FDs -> BOOLEAN]]
<1>1. call[e].op \in {"close", "dup"} /\ call[e].m \in FDs
  BY DEF MapInv, Holds, MidOK
<1>2. life[e] = "runs" /\ call[e] \in Calls /\ call[e].n \in FDs
  BY <1>1, CallFacts DEF CallOK
<1> QED
  BY <1>1, <1>2 DEF MapInv, Holds, Covered, IInv, TypeOK

LEMMA Unmap1Map == ASSUME IInv, MapInv, NEW e \in Envs, Unmap1(e) PROVE MapInv'
<1> DEFINE x == [call[e] EXCEPT !.at = "unmap2"]
           m == call[e].m
<1>1. /\ call[e].at = "unmap1" /\ call' = [call EXCEPT ![e] = x] /\ life' = life
      /\ fd' = [fd EXCEPT ![e][m] = None] /\ data' = data
  BY DEF Unmap1, Goto, Unmap, UnmapOrder
<1>2. /\ call[e].op \in {"close", "dup"} /\ m \in FDs /\ call[e] \in Calls /\ life[e] = "runs"
      /\ \A n \in FDs : fd[e][n] # None => data[e][n]
      /\ fd \in [Envs -> [FDs -> Ends \cup {None}]]
  BY <1>1, MidFacts
<1>3. x.at = "unmap2" /\ x.op = call[e].op /\ x.m = m
  BY <1>2, SameFields
<1> HIDE DEF x
<1>4. /\ \A f \in Envs \ {e} : fd'[f] = fd[f] /\ data'[f] = data[f]
      /\ fd'[e][m] = None /\ \A n \in FDs : fd'[e][n] # None => data'[e][n]
  BY <1>1, <1>2
<1> QED
  BY <1>1, <1>2, <1>3, <1>4, MapStep

LEMMA Unmap2Map == ASSUME IInv, MapInv, NEW e \in Envs, Unmap2(e) PROVE MapInv'
<1> DEFINE x == IF call[e].op = "dup" THEN [call[e] EXCEPT !.at = "map1"] ELSE Idle
           m == call[e].m
<1>1. /\ call[e].at = "unmap2" /\ call' = [call EXCEPT ![e] = x] /\ life' = life
      /\ fd' = fd /\ data' = [data EXCEPT ![e][m] = FALSE]
  BY DEF Unmap2, Goto, Return, Unmap, UnmapOrder
<1>2. /\ call[e].op \in {"close", "dup"} /\ m \in FDs /\ call[e] \in Calls /\ life[e] = "runs"
      /\ \A n \in FDs : fd[e][n] # None => data[e][n]
      /\ data \in [Envs -> [FDs -> BOOLEAN]] /\ fd[e][m] = None
  BY <1>1, MidFacts DEF MapInv, Holds, MidOK
<1>3. \/ x.op = "dup" /\ x.at = "map1" /\ x.m = m
      \/ x.op = "none" /\ x.at = ""
  <2> DEFINE y == [call[e] EXCEPT !.at = "map1"]
  <2>1. y.op = call[e].op /\ y.at = "map1" /\ y.m = m
    BY <1>2, SameFields
  <2>2. (call[e].op = "dup" /\ x = y) \/ x = Idle
    OBVIOUS
  <2> QED
    BY <2>1, <2>2, IdleFields
<1> HIDE DEF x
<1>4. /\ \A f \in Envs \ {e} : fd'[f] = fd[f] /\ data'[f] = data[f]
      /\ \A n \in FDs : fd'[e][n] # None => data'[e][n]
  BY <1>1, <1>2
<1> QED
  BY <1>1, <1>2, <1>3, <1>4, MapStep

(* The data page of a descriptor that is a struct Fd's is mapped first.       *)
LEMMA Map1Map == ASSUME IInv, MapInv, NEW e \in Envs, Map1(e) PROVE MapInv'
<1> DEFINE x == [call[e] EXCEPT !.at = "map2"]
           m == call[e].m
           n == call[e].n
<1>1. /\ call[e].at = "map1" /\ call' = [call EXCEPT ![e] = x] /\ life' = life /\ fd' = fd
      /\ data' = [data EXCEPT ![e][m] = data[e][m] \/ data[e][n]]
  BY DEF Map1, Goto, MapPage, MapOrder
<1>2. /\ call[e].op \in {"close", "dup"} /\ m \in FDs /\ n \in FDs /\ call[e] \in Calls
      /\ life[e] = "runs" /\ \A k \in FDs : fd[e][k] # None => data[e][k]
      /\ data \in [Envs -> [FDs -> BOOLEAN]]
  BY <1>1, MidFacts
<1>3. x.op = call[e].op /\ x.at = "map2" /\ x.m = m /\ x.n = n
  BY <1>2, SameFields
<1> HIDE DEF x
<1>4. data'[e][m] = (data[e][m] \/ data[e][n]) /\ \A k \in FDs \ {m} : data'[e][k] = data[e][k]
  BY <1>1, <1>2, Zenon
<1>5. /\ \A f \in Envs \ {e} : fd'[f] = fd[f] /\ data'[f] = data[f]
      /\ \A k \in FDs : fd'[e][k] # None => data'[e][k]
      /\ fd'[e][n] # None => data'[e][m]
  <2>1. \A f \in Envs \ {e} : fd'[f] = fd[f] /\ data'[f] = data[f]
    BY <1>1, <1>2, Zenon
  <2> QED
    BY <1>1, <1>2, <1>4, <2>1
<1> QED
  BY <1>1, <1>2, <1>3, <1>5, MapStep

LEMMA Map2Map == ASSUME IInv, MapInv, NEW e \in Envs, Map2(e) PROVE MapInv'
<1> DEFINE m == call[e].m
           n == call[e].n
<1>1. /\ call[e].at = "map2" /\ call' = [call EXCEPT ![e] = Idle] /\ life' = life
      /\ fd' = [fd EXCEPT ![e][m] = fd[e][n]]
      /\ IF fd[e][n] = None THEN data' = [data EXCEPT ![e][m] = FALSE] ELSE data' = data
  BY DEF Map2, Return, MapPage, MapOrder
<1>2. /\ m \in FDs /\ n \in FDs /\ life[e] = "runs"
      /\ \A k \in FDs : fd[e][k] # None => data[e][k]
      /\ fd \in [Envs -> [FDs -> Ends \cup {None}]] /\ data \in [Envs -> [FDs -> BOOLEAN]]
      /\ fd[e][n] # None => data[e][m]
  BY <1>1, MidFacts DEF MapInv, Holds, MidOK
<1>3. /\ \A f \in Envs \ {e} : fd'[f] = fd[f] /\ data'[f] = data[f]
      /\ \A k \in FDs : fd'[e][k] # None => data'[e][k]
  BY <1>1, <1>2
<1> QED
  BY <1>1, <1>2, <1>3, IdleFields, MapStep

(* fork() gives the child nothing before its caller has it.                   *)
LEMMA ForkMap == ASSUME IInv, MapInv, NEW e \in Envs, NEW c \in Envs, Fork(e, c) PROVE MapInv'
<1> DEFINE x == [Begin("fork", "page", 0, 0, 0) EXCEPT !.kid = c]
<1>1. /\ life' = [life EXCEPT ![c] = "forked"] /\ life[e] = "runs" /\ life[c] = "none"
      /\ call' = [call EXCEPT ![e] = x] /\ UNCHANGED <<fd, data>>
  BY DEF Fork, Acts
<1>2. x.op = "fork" /\ x.at = "page" /\ x.m = 0 /\ x.kid = c
  BY DEF Begin
<1> HIDE DEF x
<1>3. /\ life'[c] = "forked" /\ \A f \in Envs \ {c} : life'[f] = life[f]
      /\ call'[e] = x /\ \A f \in Envs \ {e} : call'[f] = call[f]
  BY <1>1 DEF IInv, TypeOK
<1>4. \A f \in Envs : call[f].op = "fork" => call[f].kid \in Envs \ {c} /\ life[f] = "runs"
  BY <1>1, CallFacts DEF MapInv, Holds, ForkOK, Calls, CallOK
<1>5. OneForker'
  BY <1>2, <1>3, <1>4 DEF MapInv, OneForker
<1>6. Holds(e)'
  <2>1. \A n \in FDs : fd[c][n] = None /\ n \in Nat
    BY <1>1, SizeAssumption DEF MapInv, Holds, Covered, FDs
  <2>2. ForkOK(e)'
    <3>1. \A n \in FDs : ~(NFD + n < 0)
      BY <2>1, SizeAssumption
    <3> QED
      BY <1>1, <1>2, <1>3, <2>1, <3>1 DEF ForkOK
  <2>3. MidOK(e)'
    BY <1>2, <1>3 DEF MidOK
  <2>4. Covered(e)'
    BY <1>1, <1>3 DEF MapInv, Holds, Covered
  <2> QED
    BY <2>2, <2>3, <2>4 DEF Holds
<1>7. ASSUME NEW f \in Envs \ {e} PROVE Holds(f)'
  <2>1. Holds(f) /\ call'[f] = call[f] /\ UNCHANGED <<fd, data>>
    BY <1>1, <1>3 DEF MapInv
  <2>2. ForkOK(f)'
    BY <1>3, <1>4, <2>1 DEF Holds, ForkOK
  <2>3. MidOK(f)'
    BY <2>1 DEF Holds, MidOK
  <2>4. Covered(f)'
    BY <1>1, <1>3, <2>1 DEF Holds, Covered
  <2> QED
    BY <2>2, <2>3, <2>4 DEF Holds
<1> QED
  BY <1>5, <1>6, <1>7 DEF MapInv

LEMMA DupPageMap ==
    ASSUME IInv, MapInv, NEW e \in Envs, NEW c \in Envs, DupPage(e, c) PROVE MapInv'
<1>1. /\ call[e].at = "page" /\ call[e].kid = c /\ life[c] = "forked" /\ life' = life
      /\ call[e].op = "fork" /\ life[e] = "runs" /\ call[e] \in Calls /\ call[e].m \in Nat
      /\ call \in [Envs -> Calls] /\ NFD \in Nat
      /\ fd \in [Envs -> [FDs -> Ends \cup {None}]] /\ data \in [Envs -> [FDs -> BOOLEAN]]
  BY CallFacts, SizeAssumption DEF DupPage, MapInv, Holds, ForkOK, CallOK, IInv, TypeOK
<1>2. PICK k \in call[e].m .. 2 * NFD :
         /\ NextPage(e, k)
         /\ IF k = 2 * NFD
              THEN Goto(e, "start") /\ UNCHANGED <<fd, data>>
              ELSE /\ call' = [call EXCEPT ![e].m = k + 1]
                   /\ IF k < NFD
                        THEN /\ fd' = [fd EXCEPT ![c][k] = fd[e][k]]
                             /\ UNCHANGED data
                        ELSE /\ data' = [data EXCEPT ![c][k - NFD] = TRUE]
                             /\ UNCHANGED fd
  BY DEF DupPage
<1> DEFINE x == [call[e] EXCEPT !.at = "start"]
           y == [call[e] EXCEPT !.m = k + 1]
<1>12. /\ k = 2 * NFD => call' = [call EXCEPT ![e] = x] /\ fd' = fd /\ data' = data
       /\ k # 2 * NFD => call' = [call EXCEPT ![e] = y]
       /\ k < NFD /\ k # 2 * NFD => fd' = [fd EXCEPT ![c][k] = fd[e][k]] /\ data' = data
       /\ ~(k < NFD) /\ k # 2 * NFD => data' = [data EXCEPT ![c][k - NFD] = TRUE] /\ fd' = fd
  BY <1>2 DEF Goto
<1>13. /\ x.at = "start" /\ x.op = "fork" /\ x.kid = c
       /\ y.at = "page" /\ y.op = "fork" /\ y.kid = c /\ y.m = k + 1
  <2>1. x.at = "start" /\ x.op = "fork" /\ x.kid = c
    BY <1>1, SameFields
  <2> QED
    BY <1>1, <2>1 DEF Calls
<1> HIDE DEF x, y
<1>3. k \in Nat /\ k <= 2 * NFD
  BY <1>1, <1>2
<1>4. /\ call'[e].op = "fork" /\ call'[e].kid = c /\ call'[e].at \in {"page", "start"}
      /\ call'[e].at = "start" <=> k = 2 * NFD
      /\ k # 2 * NFD => call'[e].m = k + 1
      /\ \A f \in Envs \ {e} : call'[f] = call[f]
  BY <1>1, <1>12, <1>13
<1>5. \A f \in Envs \ {c} : fd'[f] = fd[f] /\ data'[f] = data[f]
  BY <1>1, <1>12
<1>6. /\ \A n \in FDs : fd'[c][n] = fd[c][n] \/ (n = k /\ k < NFD)
      /\ \A n \in FDs : data[c][n] => data'[c][n]
      /\ \A n \in FDs : k = NFD + n => data'[c][n]
  <2>1. CASE k = 2 * NFD
    <3>1. \A n \in FDs : k # NFD + n
      BY <1>1, <2>1 DEF FDs
    <3> QED
      BY <1>12, <2>1, <3>1
  <2>2. CASE k < NFD
    <3>1. k # 2 * NFD /\ \A n \in FDs : k # NFD + n
      BY <1>1, <1>3, <2>2 DEF FDs
    <3> QED
      BY <1>1, <1>12, <2>2, <3>1
  <2>3. CASE k >= NFD /\ k # 2 * NFD
    <3>1. ~(k < NFD) /\ \A n \in FDs : k = NFD + n => n = k - NFD
      BY <1>1, <1>3, <2>3 DEF FDs
    <3>2. data' = [data EXCEPT ![c][k - NFD] = TRUE] /\ fd' = fd
      BY <1>12, <2>3, <3>1
    <3>3. data[c] \in [FDs -> BOOLEAN] /\ data'[c] = [data[c] EXCEPT ![k - NFD] = TRUE]
      BY <1>1, <3>2, Zenon
    <3>4. \A n \in FDs : data[c][n] \/ n = k - NFD => data'[c][n]
      BY <3>3, Zenon
    <3> QED
      BY <3>1, <3>2, <3>4
  <2> QED
    BY <1>1, <1>3, <2>1, <2>2, <2>3
<1>7. ForkOK(e)'
  <2>1. \A n \in FDs : fd'[c][n] # None => fd'[e][n] # None
    <3>1. k < NFD => fd[e][k] # None
      BY <1>1, <1>2, <1>3 DEF NextPage, Copied
    <3> QED
      BY <1>1, <1>5, <1>6, <3>1 DEF MapInv, Holds, ForkOK
  <2>2. ASSUME NEW n \in FDs, call'[e].at = "start" \/ NFD + n < call'[e].m, data'[e][n]
        PROVE  data'[c][n]
    <3>1. n \in Nat /\ n < NFD /\ NFD + n <= k /\ e # c /\ data[e][n]
      BY <1>1, <1>3, <1>4, <1>5, <2>2 DEF FDs
    <3>2. CASE NFD + n = k
      BY <1>6, <3>2
    <3>3. CASE NFD + n # k /\ call[e].m <= NFD + n
      <4>3. NFD + n \in call[e].m .. k - 1
        BY <1>1, <1>3, <3>1, <3>3
      <4>1. ~Copied(e, NFD + n)
        BY <1>2, <4>3 DEF NextPage
      <4>2. ~(NFD + n < NFD) /\ (NFD + n) - NFD = n
        BY <1>1, <3>1
      <4> QED
        BY <3>1, <4>1, <4>2 DEF Copied
    <3>4. CASE NFD + n < call[e].m
      BY <1>1, <1>6, <3>1, <3>4 DEF MapInv, Holds, ForkOK
    <3> QED
      BY <1>1, <3>1, <3>2, <3>3, <3>4
  <2> QED
    BY <1>1, <1>4, <2>1, <2>2 DEF ForkOK
<1>8. MidOK(e)' /\ Covered(e)'
  BY <1>1, <1>4, <1>5 DEF MidOK, Covered, MapInv, Holds
<1>9. OneForker'
  BY <1>1, <1>4 DEF MapInv, OneForker
<1>10. Holds(c)'
  <2>1. c # e /\ call[c].op = "none"
    BY <1>1, CallFacts DEF CallOK
  <2>2. ForkOK(c)' /\ MidOK(c)'
    BY <1>1, <1>4, <2>1 DEF MapInv, Holds, ForkOK, MidOK
  <2>3. Covered(c)'
    BY <1>1 DEF Covered
  <2> QED
    BY <2>2, <2>3 DEF Holds
<1>11. ASSUME NEW f \in Envs \ {e, c} PROVE Holds(f)'
  <2>1. /\ Holds(f) /\ call'[f] = call[f] /\ life'[f] = life[f]
        /\ fd'[f] = fd[f] /\ data'[f] = data[f]
    BY <1>1, <1>4, <1>5 DEF MapInv
  <2>2. MidOK(f)' /\ Covered(f)'
    BY <2>1 DEF Holds, MidOK, Covered
  <2>3. CASE call[f].op # "fork"
    BY <2>1, <2>2, <2>3 DEF Holds, ForkOK
  <2>4. CASE call[f].op = "fork"
    <3> DEFINE d == call[f].kid
    <3>1. d \in Envs \ {c}
      BY <1>1, <2>4, CallFacts DEF MapInv, OneForker, Calls
    <3>2. fd'[d] = fd[d] /\ data'[d] = data[d] /\ life'[d] = life[d] /\ call'[f].kid = d
      BY <1>1, <1>5, <2>1, <3>1
    <3>3. ForkOK(f)'
      BY <2>1, <2>4, <3>2 DEF Holds, ForkOK
    <3> QED
      BY <2>2, <3>3 DEF Holds
  <2> QED
    BY <2>3, <2>4
<1> QED
  BY <1>7, <1>8, <1>9, <1>10, <1>11 DEF MapInv, Holds

(* The child is started when it has everything its parent has.                *)
LEMMA StartMap == ASSUME IInv, MapInv, NEW e \in Envs, NEW c \in Envs, Start(e, c) PROVE MapInv'
<1>1. /\ call[e].at = "start" /\ call[e].kid = c /\ life[c] = "forked" /\ life[e] = "runs"
      /\ call[e].op = "fork" /\ UNCHANGED <<fd, data>>
      /\ call'[e] = Idle /\ \A f \in Envs \ {e} : call'[f] = call[f]
      /\ life'[c] = "runs" /\ \A f \in Envs \ {c} : life'[f] = life[f]
  BY DEF Start, Return, Acts, MapInv, Holds, ForkOK, IInv, TypeOK
<1>2. \A f \in Envs \ {e} : call[f].op = "fork" => call[f].kid \in Envs \ {c}
  BY ZenonT(30), <1>1, CallFacts DEF MapInv, OneForker, Calls
<1>3. OneForker'
  <2>1. \A f \in Envs : call'[f].op = "fork" => f # e /\ call'[f] = call[f]
    BY <1>1, IdleFields
  <2> QED
    BY <2>1 DEF MapInv, OneForker
<1>4. \A n \in FDs : fd[c][n] # None => data[c][n]
  BY <1>1 DEF MapInv, Holds, ForkOK, Covered
<1>5. \A f \in Envs : Covered(f)'
  BY <1>1, <1>4 DEF MapInv, Holds, Covered
<1>6. ForkOK(e)' /\ MidOK(e)'
  BY <1>1, IdleFields DEF ForkOK, MidOK
<1>7. ASSUME NEW f \in Envs \ {e} PROVE ForkOK(f)' /\ MidOK(f)'
  BY <1>1, <1>2 DEF MapInv, Holds, ForkOK, MidOK
<1> QED
  BY <1>3, <1>5, <1>6, <1>7 DEF MapInv, Holds

LEMMA DestroyedMap == ASSUME IInv, MapInv, NEW e \in Envs, Destroyed(e) PROVE MapInv'
<1>1. /\ life[e] = "runs" /\ life'[e] = "gone" /\ call'[e] = Idle
      /\ \A n \in FDs : fd'[e][n] = None
      /\ \A f \in Envs \ {e} : /\ call'[f] = call[f] /\ fd'[f] = fd[f]
                               /\ data'[f] = data[f] /\ life'[f] = life[f]
  BY DEF Destroyed, IInv, TypeOK
<1>2. OneForker' /\ \A f \in Envs \ {e} : Holds(f)'
  BY <1>1, IdleFields, OwnStep
<1>3. Holds(e)'
  BY <1>1, IdleFields DEF Holds, ForkOK, MidOK, Covered
<1> QED
  BY <1>2, <1>3 DEF MapInv

LEMMA NextMap == ASSUME IInv, IInv', MapInv, [Next]_vars PROVE MapInv'
<1>1. ASSUME NEW e \in Envs, Call(e) PROVE MapInv'
  <2>1. ASSUME Looks(e) PROVE MapInv'
    BY <2>1, LooksMap
  <2>2. \A n \in FDs, k \in Nat : Test(e, n) \/ Read(e, n, k) \/ Write(e, n, k) => Looks(e)
    BY DEF Looks
  <2>3. 1 .. MaxRead \subseteq Nat /\ 1 .. NBytes \subseteq Nat
    BY SizeAssumption
  <2> QED
    BY <1>1, <2>1, <2>2, <2>3, CloseMap, DupMap, ForkMap DEF Call
<1>2. ASSUME NEW e \in Envs, Continue(e) PROVE MapInv'
  <2>1. \/ Looks(e) \/ Unmap1(e) \/ Unmap2(e) \/ Map1(e) \/ Map2(e)
        \/ \E c \in Envs : DupPage(e, c) \/ Start(e, c)
    BY <1>2 DEF Continue, Looks
  <2> QED
    BY <2>1, LooksMap, Unmap1Map, Unmap2Map, Map1Map, Map2Map, DupPageMap, StartMap
<1>3. ASSUME UNCHANGED <<life, fd, data, call>> PROVE MapInv'
  BY <1>3 DEF MapInv, OneForker, Holds, ForkOK, MidOK, Covered
<1> QED
  BY <1>1, <1>2, <1>3, DestroyedMap DEF Next, Rerun, vars

------------------------------------------------------------------------------
(* Equal counts: every data page belongs to a descriptor of the end x.        *)
LEMMA EqualCounts ==
    ASSUME IInv, NEW x \in Ends, \A e \in Envs, n \in FDs : fd[e][n] # None => data[e][n],
           Refs(x) = DataRefs
    PROVE  ~IsOpen(Other(x))
<1> DEFINE S == {h \in Envs \X FDs : fd[h[1]][h[2]] = x}
           D == {h \in Envs \X FDs : data[h[1]][h[2]]}
<1>1. IsFiniteSet(D)
  <2>1. IsFiniteSet(FDs)
    BY FS_Interval, SizeAssumption DEF FDs
  <2>2. IsFiniteSet(Envs \X FDs)
    BY <2>1, FS_Product, SizeAssumption
  <2> QED
    BY <2>2, FS_Subset
<1>2. S \subseteq D
  BY NoneAssumption DEF Ends
<1>3. S = D
  BY <1>1, <1>2, FS_Subset DEF Refs, DataRefs
<1>4. ASSUME NEW e \in Envs, NEW n \in FDs, fd[e][n] = Other(x) PROVE FALSE
  <2>1. <<e, n>> \in D
    BY <1>4, NoneAssumption DEF Ends, Other
  <2>2. fd[e][n] = x
    BY <1>3, <2>1
  <2> QED
    BY <1>4, <2>2 DEF Ends, Other
<1> QED
  BY <1>4 DEF IsOpen

(* No child is half copied while an environment counts mappings.              *)
ForksAlone == \A e, f \in Envs : InCheck(e) => life[f] # "forked"

(* What a check that has not been interrupted knows.                          *)
CheckOK(e) ==
    ~moved[e] => /\ call[e].at = "ref2" => call[e].ref = Refs(fd[e][call[e].n])
                 /\ call[e].at = "decide" /\ call[e].ref = 1 => ~IsOpen(Other(fd[e][call[e].n]))

EndInv == MapInv /\ (\A e \in Envs : CheckOK(e)) /\ ClosedIsTrue

LEMMA InitEnd == Init => EndInv
<1> SUFFICES ASSUME Init PROVE EndInv
  OBVIOUS
<1>1. \A e \in Envs : call[e].at = "" /\ told[e] = {}
  BY IdleFields DEF Init
<1> QED
  BY <1>1, InitMap DEF EndInv, CheckOK, ClosedIsTrue

(* A step takes the processor away from every check of another environment.   *)
LEMMA OthersMoved ==
    ASSUME IInv, IInv', OneCpu = TRUE, NEW e \in Envs,
           \A f \in Envs \ {e} : call'[f] = call[f] /\ (InCheck(f) => moved'[f])
    PROVE  \A f \in Envs \ {e} : CheckOK(f)'
BY DEF CheckOK, InCheck

(* The counts are read.                                                       *)
LEMMA ReadFdRefCheck ==
    ASSUME IInv, NEW e \in Envs, ReadFdRef(e)
    PROVE  CheckOK(e)'
<1> DEFINE x == [call[e] EXCEPT !.ref = Refs(fd[e][call[e].n]), !.at = "ref2"]
<1>1. call' = [call EXCEPT ![e] = x] /\ fd' = fd /\ call[e] \in Calls /\ call \in [Envs -> Calls]
  BY CallFacts DEF ReadFdRef, IInv, TypeOK
<1>2. x.ref = Refs(fd[e][call[e].n]) /\ x.at = "ref2" /\ x.n = call[e].n
  BY <1>1 DEF Calls
<1> HIDE DEF x
<1>3. call'[e] = x
  BY <1>1
<1> QED
  BY <1>1, <1>2, <1>3 DEF CheckOK, Refs

LEMMA ReadDataRefCheck ==
    ASSUME IInv, EndInv, ForksAlone, NEW e \in Envs, ReadDataRef(e)
    PROVE  CheckOK(e)'
<1> DEFINE v == IF call[e].ref = DataRefs THEN 1 ELSE 0
           x == [call[e] EXCEPT !.ref = v, !.at = "decide"]
           i == call[e].n
<1>1. /\ call' = [call EXCEPT ![e] = x] /\ fd' = fd /\ moved'[e] = moved[e] /\ call[e].at = "ref2"
      /\ call[e] \in Calls /\ call \in [Envs -> Calls]
  BY CallFacts DEF ReadDataRef, Acts, IInv, TypeOK
<1>2. x.ref = v /\ x.at = "decide" /\ x.n = i
  BY <1>1 DEF Calls
<1> HIDE DEF x
<1>3. ASSUME ~moved[e], v = 1 PROVE ~IsOpen(Other(fd[e][i]))
  <2>1. call[e].ref = DataRefs /\ call[e].ref = Refs(fd[e][i])
    BY <1>1, <1>3 DEF EndInv, CheckOK
  <2>2. fd[e][i] \in Ends
    BY <1>1, CallFacts DEF CallOK, Inside
  <2>3. \A f \in Envs, n \in FDs : fd[f][n] # None => data[f][n]
    BY <1>1 DEF ForksAlone, InCheck, EndInv, MapInv, Holds, Covered
  <2> QED
    BY <2>1, <2>2, <2>3, EqualCounts
<1>4. call'[e] = x
  BY <1>1
<1> QED
  BY <1>1, <1>2, <1>3, <1>4 DEF CheckOK, IsOpen

(* Where an environment holding counts comes from, and who else it stops.     *)
LEMMA CheckSteps ==
    ASSUME IInv, IInv', OneCpu = TRUE, NEW e \in Envs, Call(e) \/ Continue(e)
    PROVE  /\ \A f \in Envs \ {e} : call'[f] = call[f] /\ (InCheck(f) => moved'[f])
           /\ ReadFdRef(e) \/ ReadDataRef(e) \/ call'[e].at \notin {"ref2", "decide"}
<1>1. \E m \in BOOLEAN : Acts(e, m)
  BY DEF Call, Continue, Close, Dup, Fork, Test, Read, Write, Unmap1, Unmap2, Map1, Map2,
         DupPage, Start, SampleRuns, ReadFdRef, ReadDataRef, Retry, Verdict, Look, Take, Store,
         Advance, IInv, TypeOK
<1>2. \A f \in Envs \ {e} : InCheck(f) => moved'[f]
  BY <1>1 DEF Acts
<1>3. \A f \in Envs \ {e} : call'[f] = call[f]
  BY ZenonT(30) DEF Call, Continue, Close, Dup, Fork, Test, Read, Write, Unmap1, Unmap2, Map1, Map2,
         DupPage, Start, SampleRuns, ReadFdRef, ReadDataRef, Retry, Verdict, Look, Take, Store,
         Advance, Goto, Return, IInv, TypeOK
<1>4. \/ Looks(e)
      \/ call'[e].at \in {"", "unmap1", "unmap2", "map1", "map2", "page", "start"}
  <2>1. call \in [Envs -> Calls] /\ call[e] \in Calls
    BY CallFacts DEF IInv, TypeOK
  <2>2. ASSUME NEW m \in FDs, Close(e, m) PROVE call'[e].at = "unmap1"
    BY <2>1, <2>2 DEF Close, Begin
  <2>3. ASSUME NEW n \in FDs, NEW m \in FDs, Dup(e, n, m) PROVE call'[e].at \in {"unmap1", "map1"}
    BY <2>1, <2>3 DEF Dup, Begin
  <2>4. ASSUME NEW c \in Envs, Fork(e, c) PROVE call'[e].at = "page"
    BY <2>1, <2>4 DEF Fork, Begin
  <2>5. ASSUME Unmap1(e) PROVE call'[e].at = "unmap2"
    BY <2>1, <2>5, SameFields DEF Unmap1, Goto
  <2>6. ASSUME Unmap2(e) PROVE call'[e].at \in {"map1", ""}
    <3>1. call' = [call EXCEPT ![e].at = "map1"] \/ call' = [call EXCEPT ![e] = Idle]
      BY <2>6 DEF Unmap2, Goto, Return
    <3>2. ASSUME call' = [call EXCEPT ![e].at = "map1"] PROVE call'[e].at = "map1"
      BY <2>1, <3>2 DEF Calls
    <3> QED
      BY <2>1, <3>1, <3>2, IdleFields
  <2>7. ASSUME Map1(e) PROVE call'[e].at = "map2"
    BY <2>1, <2>7, SameFields DEF Map1, Goto
  <2>8. ASSUME Map2(e) PROVE call'[e].at = ""
    BY <2>1, <2>8, IdleFields DEF Map2, Return
  <2>9. ASSUME NEW c \in Envs, DupPage(e, c) PROVE call'[e].at \in {"page", "start"}
    <3>1. /\ call[e].at = "page"
          /\ \/ call' = [call EXCEPT ![e].at = "start"]
             \/ \E k \in call[e].m .. 2 * NFD : call' = [call EXCEPT ![e].m = k + 1]
      BY <2>9 DEF DupPage, Goto
    <3>2. ASSUME call' = [call EXCEPT ![e].at = "start"] PROVE call'[e].at = "start"
      BY <2>1, <3>2 DEF Calls
    <3>3. ASSUME NEW k, call' = [call EXCEPT ![e].m = k + 1] PROVE call'[e].at = call[e].at
      BY <2>1, <3>3 DEF Calls
    <3> QED
      BY <3>1, <3>2, <3>3
  <2>10. ASSUME NEW c \in Envs, Start(e, c) PROVE call'[e].at = ""
    BY <2>1, <2>10, IdleFields DEF Start, Return
  <2>11. \A n \in FDs, k \in Nat : Test(e, n) \/ Read(e, n, k) \/ Write(e, n, k) => Looks(e)
    BY DEF Looks
  <2>12. 1 .. MaxRead \subseteq Nat /\ 1 .. NBytes \subseteq Nat
    BY SizeAssumption
  <2>13. CASE Call(e)
    BY <2>13, <2>2, <2>3, <2>4, <2>11, <2>12 DEF Call
  <2>14. CASE Continue(e)
    BY <2>14, <2>5, <2>6, <2>7, <2>8, <2>9, <2>10 DEF Continue, Looks
  <2> QED
    BY <2>13, <2>14
<1>5. ReadFdRef(e) \/ ReadDataRef(e) \/ call'[e].at \notin {"ref2", "decide"}
  BY <1>4, LooksFacts
<1> QED
  BY <1>2, <1>3, <1>5

LEMMA NextChecks ==
    ASSUME IInv, IInv', EndInv, OneCpu = TRUE, ForksAlone, [Next]_vars
    PROVE  \A e \in Envs : CheckOK(e)'
<1>1. ASSUME NEW e \in Envs, Call(e) \/ Continue(e) PROVE \A f \in Envs : CheckOK(f)'
  <2>1. \A f \in Envs \ {e} : CheckOK(f)'
    BY <1>1, CheckSteps, OthersMoved
  <2>2. ReadFdRef(e) \/ ReadDataRef(e) \/ call'[e].at \notin {"ref2", "decide"}
    BY <1>1, CheckSteps
  <2>3. CheckOK(e)'
    <3>1. CASE call'[e].at \notin {"ref2", "decide"}
      BY <3>1 DEF CheckOK
    <3> QED
      BY <2>2, <3>1, ReadFdRefCheck, ReadDataRefCheck
  <2> QED
    BY <2>1, <2>3
<1>2. ASSUME NEW e \in Envs, Destroyed(e) PROVE \A f \in Envs : CheckOK(f)'
  <2>1. /\ \A f \in Envs \ {e} : call'[f] = call[f] /\ (InCheck(f) => moved'[f])
        /\ call'[e] = Idle
    BY <1>2 DEF Destroyed, IInv, TypeOK
  <2>2. \A f \in Envs \ {e} : CheckOK(f)'
    BY <2>1, OthersMoved
  <2> QED
    BY <2>1, <2>2, IdleFields DEF CheckOK
<1>3. ASSUME UNCHANGED <<fd, call>>, \A f \in Envs : moved'[f] = moved[f] \/ moved'[f] = TRUE
      PROVE  \A f \in Envs : CheckOK(f)'
  BY <1>3 DEF EndInv, CheckOK, Refs, IsOpen
<1>4. ASSUME NEW e \in Envs, Rerun(e) PROVE \A f \in Envs : CheckOK(f)'
  BY <1>3, <1>4 DEF Rerun, IInv, TypeOK
<1> QED
  BY <1>1, <1>2, <1>3, <1>4 DEF Next, vars

(* An end that nobody has open is never opened again.                         *)
LEMMA NoNewEnd ==
    ASSUME IInv, NEW x \in Ends, ~IsOpen(x), [Next]_vars
    PROVE  ~IsOpen(x)'
<1> DEFINE Fewer == \A d \in Envs, n \in FDs : fd'[d][n] # x
<1>1. fd \in [Envs -> [FDs -> Ends \cup {None}]] /\ \A d \in Envs, n \in FDs : fd[d][n] # x
  BY DEF IInv, TypeOK, IsOpen
<1>2. ASSUME NEW e \in Envs, NEW k, NEW v, v # x, fd' = [fd EXCEPT ![e][k] = v] PROVE Fewer
  BY <1>1, <1>2
<1>3. CASE fd' = fd
  BY <1>1, <1>3 DEF IsOpen
<1>4. x # None
  BY NoneAssumption DEF Ends
<1>5. ASSUME NEW e \in Envs, Unmap1(e) \/ Unmap2(e) PROVE Fewer
  <2>1. fd' = fd \/ fd' = [fd EXCEPT ![e][call[e].m] = None]
    BY <1>5 DEF Unmap1, Unmap2, Unmap
  <2> QED
    BY <2>1, <1>1, <1>2, <1>4
<1>6. ASSUME NEW e \in Envs, Map1(e) \/ Map2(e) PROVE Fewer
  <2>1. fd' = fd \/ fd' = [fd EXCEPT ![e][call[e].m] = fd[e][call[e].n]]
    BY <1>6 DEF Map1, Map2, MapPage
  <2>2. fd[e][call[e].n] # x
    BY <1>1, CallFacts
  <2> QED
    BY <2>1, <2>2, <1>1, <1>2
<1>7. ASSUME NEW e \in Envs, NEW c \in Envs, DupPage(e, c) PROVE Fewer
  <2>1. PICK k \in call[e].m .. 2 * NFD :
           fd' = fd \/ (k < NFD /\ fd' = [fd EXCEPT ![c][k] = fd[e][k]])
    BY <1>7 DEF DupPage
  <2>2. k < NFD => k \in FDs
    BY CallFacts, SizeAssumption DEF FDs
  <2> QED
    BY <2>1, <2>2, <1>1, <1>2
<1>8. ASSUME NEW e \in Envs, Destroyed(e) PROVE Fewer
  <2>1. fd' = [fd EXCEPT ![e] = [n \in FDs |-> None]]
    BY <1>8 DEF Destroyed
  <2> QED
    BY <2>1, <1>1, <1>4
<1>9. ASSUME NEW e \in Envs, Call(e) PROVE fd' = fd
  BY <1>9 DEF Call, Close, Dup, Fork, Test, Read, Write
<1>10. ASSUME NEW e \in Envs, Continue(e)
       PROVE  \/ fd' = fd \/ Unmap1(e) \/ Unmap2(e) \/ Map1(e) \/ Map2(e)
              \/ \E c \in Envs : DupPage(e, c)
  BY <1>10 DEF Continue, Start, SampleRuns, ReadFdRef, ReadDataRef, Retry, Verdict, Look, Take,
               Store, Advance
<1>11. ASSUME Fewer PROVE ~IsOpen(x)'
  BY <1>11 DEF IsOpen
<1> HIDE DEF Fewer
<1> QED
  BY <1>3, <1>5, <1>6, <1>7, <1>8, <1>9, <1>10, <1>11 DEF Next, Rerun, vars

LEMMA NextClosed == ASSUME IInv, EndInv, [Next]_vars PROVE ClosedIsTrue'
<1>1. \A x \in Ends : ~IsOpen(x) => ~IsOpen(x)'
  BY NoNewEnd
<1>2. \A e \in Envs : told[e] \subseteq Ends /\ \A x \in told[e] : ~IsOpen(Other(x))
  BY DEF EndInv, ClosedIsTrue, IInv, TypeOK
<1>3. \A x \in Ends : Other(x) \in Ends
  BY DEF Ends, Other
<1>4. CASE told' = told
  BY <1>1, <1>2, <1>3, <1>4 DEF ClosedIsTrue
<1>5. ASSUME NEW e \in Envs, Verdict(e), told' # told PROVE ClosedIsTrue'
  <2>1. /\ call[e].at = "decide" /\ ~moved[e] /\ call[e].ref = 1
        /\ told' = [told EXCEPT ![e] = told[e] \cup {fd[e][call[e].n]}]
    BY <1>5 DEF Verdict, RunsUnchanged
  <2>2. fd[e][call[e].n] \in Ends
    BY <2>1, CallFacts DEF CallOK, Inside
  <2>3. PICK y \in Ends : y = fd[e][call[e].n]
    BY <2>2
  <2>4. ~IsOpen(Other(y))'
    <3>1. ~IsOpen(Other(y))
      BY <2>1, <2>3 DEF EndInv, CheckOK
    <3> QED
      BY <1>1, <1>3, <3>1
  <2>5. ASSUME NEW f \in Envs, NEW x \in told'[f] PROVE ~IsOpen(Other(x))'
    <3>1. x \in told[f] \/ x = y
      BY <2>1, <2>3, <2>5 DEF IInv, TypeOK
    <3>2. CASE x \in told[f]
      BY <1>1, <1>2, <1>3, <3>2
    <3> QED
      BY <2>4, <3>1, <3>2
  <2> QED
    BY <2>5 DEF ClosedIsTrue
<1>6. told' = told \/ \E e \in Envs : Verdict(e)
  <2>1. \A e \in Envs : Call(e) => told' = told
    BY DEF Call, Close, Dup, Fork, Test, Read, Write
  <2>2. \A e \in Envs : Continue(e) => told' = told \/ Verdict(e)
    <3>1. \A e \in Envs : Unmap1(e) \/ Unmap2(e) \/ Map1(e) \/ Map2(e) => told' = told
      BY DEF Unmap1, Unmap2, Map1, Map2
    <3>2. \A e, c \in Envs : DupPage(e, c) \/ Start(e, c) => told' = told
      BY DEF DupPage, Start
    <3>3. \A e \in Envs : SampleRuns(e) \/ ReadFdRef(e) \/ ReadDataRef(e) \/ Retry(e) => told' = told
      BY DEF SampleRuns, ReadFdRef, ReadDataRef, Retry
    <3>4. \A e \in Envs : Look(e) \/ Take(e) \/ Store(e) \/ Advance(e) => told' = told
      BY DEF Look, Take, Store, Advance
    <3> QED
      BY <3>1, <3>2, <3>3, <3>4 DEF Continue
  <2>3. \A e \in Envs : Rerun(e) \/ Destroyed(e) => told' = told
    BY DEF Rerun, Destroyed
  <2>4. UNCHANGED vars => told' = told
    BY DEF vars
  <2> QED
    BY <2>1, <2>2, <2>3, <2>4 DEF Next
<1> QED
  BY <1>4, <1>5, <1>6

(* On one processor, _pipeisclosed() reports an end as closed only when no     *)
(* descriptor of it is left anywhere, and none comes back: for any number of   *)
(* environments that close, duplicate, test, read, write and fork and may be   *)
(* killed at any step, as long as nobody counts mappings while a child is half *)
(* copied.  The hypotheses are those under which the answer is right: with two *)
(* processors, or a check in the middle of a third environment's fork(), the   *)
(* counts agree by accident.                                                   *)
THEOREM ClosedMeansClosed == OneCpu = TRUE => (Spec /\ []ForksAlone => []ClosedIsTrue)
<1> SUFFICES ASSUME OneCpu = TRUE PROVE Spec /\ []ForksAlone => []ClosedIsTrue
  OBVIOUS
<1>1. Init => EndInv
  BY InitEnd
<1>2. IInv /\ IInv' /\ ForksAlone /\ EndInv /\ [Next]_vars => EndInv'
  BY NextMap, NextChecks, NextClosed DEF EndInv
<1>3. EndInv => ClosedIsTrue
  BY DEF EndInv
<1> QED
  BY <1>1, <1>2, <1>3, Invariance, PTL DEF Spec

------------------------------------------------------------------------------
(* A parent and one child.                                                    *)
TwoEnvs == \E c : Envs = {Parent, c}

\* While the one is being copied, the other is copying it, or dead.
OthersFork == \A c, e \in Envs : life[c] = "forked" /\ e # c => life[e] = "gone" \/ call[e].op = "fork"

LEMMA TwoForksAlone == IInv /\ OthersFork => ForksAlone
<1> SUFFICES ASSUME IInv, OthersFork, NEW e \in Envs, NEW c \in Envs, InCheck(e), life[c] = "forked"
             PROVE  FALSE
  BY DEF ForksAlone
<1>1. UsesPipe(call[e].op) /\ life[e] = "runs"
  BY CallFacts DEF CallOK, InCheck, Inside, UsesPipe
<1> QED
  BY <1>1 DEF OthersFork, UsesPipe

LEMMA NextOthersFork ==
    ASSUME TwoEnvs, IInv, MapInv, OthersFork, [Next]_vars
    PROVE  OthersFork'
<1>1. life \in [Envs -> {"none", "forked", "runs", "gone"}] /\ call \in [Envs -> Calls]
  BY DEF IInv, TypeOK
<1>2. ASSUME NEW e \in Envs, NEW c \in Envs, Fork(e, c) PROVE OthersFork'
  <2>1. /\ life' = [life EXCEPT ![c] = "forked"] /\ life[e] = "runs" /\ life[c] = "none"
        /\ call'[e] = [Begin("fork", "page", 0, 0, 0) EXCEPT !.kid = c]
    BY <1>1, <1>2 DEF Fork, Acts
  <2>2. call'[e].op = "fork" /\ Envs = {e, c} /\ life'[e] = "runs"
    BY <1>1, <2>1 DEF Begin, TwoEnvs
  <2> QED
    BY <2>2 DEF OthersFork
<1>3. ASSUME NEW e \in Envs, NEW c \in Envs, Start(e, c) PROVE OthersFork'
  <2>1. life' = [life EXCEPT ![c] = "runs"] /\ life[e] = "runs" /\ life[c] = "forked"
    BY <1>3 DEF Start, Acts
  <2>2. Envs = {e, c} /\ life'[e] = "runs" /\ life'[c] = "runs"
    BY <1>1, <2>1 DEF TwoEnvs
  <2> QED
    BY <2>2 DEF OthersFork
<1>4. ASSUME NEW e \in Envs, Destroyed(e) PROVE OthersFork'
  <2>1. life' = [life EXCEPT ![e] = "gone"] /\ call' = [call EXCEPT ![e] = Idle]
    BY <1>4 DEF Destroyed
  <2> QED
    BY <1>1, <2>1 DEF OthersFork
<1>5. ASSUME NEW e \in Envs, life' = life, call[e].op = "fork" => call'[e].op = "fork",
             life[e] = "runs", \A f \in Envs \ {e} : call'[f] = call[f]
      PROVE  OthersFork'
  BY <1>5 DEF OthersFork
<1>6. ASSUME UNCHANGED <<life, call>> PROVE OthersFork'
  BY <1>6 DEF OthersFork
<1>7. ASSUME NEW e \in Envs, Call(e) PROVE OthersFork'
  <2>1. CASE \E c \in Envs : Fork(e, c)
    BY <1>2, <2>1
  <2>2. CASE ~ \E c \in Envs : Fork(e, c)
    <3>1. /\ life' = life /\ life[e] = "runs" /\ call[e] = Idle
          /\ \A f \in Envs \ {e} : call'[f] = call[f]
      BY <1>1, <1>7, <2>2 DEF Call, Close, Dup, Test, Read, Write, Acts
    <3> QED
      BY <1>5, <3>1, IdleFields
  <2> QED
    BY <2>1, <2>2
<1>8. ASSUME NEW e \in Envs, Continue(e) PROVE OthersFork'
  <2>1. CASE \E c \in Envs : Start(e, c)
    BY <1>3, <2>1
  <2>2. CASE \E c \in Envs : DupPage(e, c)
    <3>1. /\ life' = life /\ life[e] = "runs"
          /\ \/ call' = [call EXCEPT ![e].at = "start"]
             \/ \E k \in call[e].m .. 2 * NFD : call' = [call EXCEPT ![e].m = k + 1]
      BY <2>2 DEF DupPage, Goto, Acts
    <3>2. call'[e].op = call[e].op /\ \A f \in Envs \ {e} : call'[f] = call[f]
      <4>1. ASSUME call' = [call EXCEPT ![e].at = "start"]
            PROVE  call'[e].op = call[e].op /\ \A f \in Envs \ {e} : call'[f] = call[f]
        BY <1>1, <4>1 DEF Calls
      <4>2. ASSUME NEW k, call' = [call EXCEPT ![e].m = k + 1]
            PROVE  call'[e].op = call[e].op /\ \A f \in Envs \ {e} : call'[f] = call[f]
        BY <1>1, <4>2 DEF Calls
      <4> QED
        BY <3>1, <4>1, <4>2
    <3> QED
      BY <1>5, <3>1, <3>2
  <2>3. CASE Looks(e)
    <3>1. call[e].op # "fork"
      BY <2>3, IdleFields DEF MapInv, Holds, ForkOK, Looks, Test, Read, Write, SampleRuns,
         ReadFdRef, ReadDataRef, Retry, Verdict, Look, Take, Store, Advance
    <3> QED
      BY <1>5, <2>3, <3>1, LooksFacts
  <2>4. CASE Unmap1(e) \/ Unmap2(e) \/ Map1(e) \/ Map2(e)
    <3>1. /\ life' = life /\ life[e] = "runs" /\ call[e].op # "fork"
          /\ \A f \in Envs \ {e} : call'[f] = call[f]
      BY <1>1, <2>4 DEF Unmap1, Unmap2, Map1, Map2, Acts, Goto, Return, MapInv, Holds, ForkOK
    <3> QED
      BY <1>5, <3>1
  <2> QED
    BY <1>8, <2>1, <2>2, <2>3, <2>4 DEF Continue, Looks
<1> QED
  BY <1>4, <1>6, <1>7, <1>8 DEF Next, Rerun, vars

(* With a parent and one child on one processor, as testpipe runs, the answer *)
(* is right without any further hypothesis: the only environment that could   *)
(* ask during a fork() is the one that is forking.                            *)
THEOREM ClosedMeansClosedForTwo == OneCpu = TRUE /\ TwoEnvs => (Spec => []ClosedIsTrue)
<1> SUFFICES ASSUME OneCpu = TRUE, TwoEnvs PROVE Spec => []ClosedIsTrue
  OBVIOUS
<1>1. Init => OthersFork /\ MapInv
  BY InitMap DEF Init, OthersFork
<1>2. IInv /\ IInv' /\ MapInv /\ OthersFork /\ [Next]_vars => OthersFork' /\ MapInv'
  BY NextMap, NextOthersFork
<1>3. IInv /\ OthersFork => ForksAlone
  BY TwoForksAlone
<1>4. Spec /\ []ForksAlone => []ClosedIsTrue
  BY ClosedMeansClosed
<1> QED
  BY <1>1, <1>2, <1>3, <1>4, Invariance, PTL DEF Spec
=============================================================================
