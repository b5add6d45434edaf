-------------------------------- MODULE Pipe --------------------------------
(***************************************************************************)
(* Pipes (lib/pipe.c) over the descriptor layer (lib/fd.c) and the page    *)
(* mappings fork() copies (lib/fork.c).                                    *)
(*                                                                         *)
(* A pipe is three pages: one struct Fd for each end and one struct Pipe,  *)
(* which every descriptor of either end maps as its data page.  Nobody     *)
(* counts readers and writers.  An environment concludes that the other    *)
(* end is gone when the page of its own struct Fd and the page of the      *)
(* struct Pipe have the same number of mappings, and it reads the two      *)
(* counts one after the other while the other environments go on closing,  *)
(* duplicating and copying descriptors one page at a time.                 *)
(*                                                                         *)
(* An environment in user mode is interrupted between any two steps.  On   *)
(* one processor (OneCpu) a step of another environment implies that the   *)
(* interrupted one has gone through env_run() before it continues.         *)
(***************************************************************************)
EXTENDS Integers, Sequences, FiniteSets

CONSTANTS Envs,      \* environments that may hold the pipe
          Parent,    \* the one that calls pipe()
          Reader,    \* the one that reads it
          Writers,   \* those that write it
          Mortal,    \* those another environment may destroy
          NFD,       \* descriptors per environment, MAXFD
          BufSize,   \* PIPEBUFSIZ
          NBytes,    \* bytes written in all
          MaxRead,   \* bytes asked for in one read
          Ops,       \* the calls the programs make
          OneCpu,    \* whether there is a single processor
          None       \* no mapping

ASSUME SizeAssumption == /\ NFD \in Nat \ {0, 1}
                         /\ BufSize \in Nat \ {0}
                         /\ NBytes \in Nat /\ MaxRead \in Nat \ {0}
                         /\ OneCpu \in BOOLEAN
                         /\ Ops \subseteq {"close", "dup", "fork", "test", "read", "write"}
                         /\ IsFiniteSet(Envs) /\ Parent \in Envs
ASSUME NoneAssumption == None \notin {"r", "w"}

FDs == 0 .. NFD - 1
Ends == {"r", "w"}
Other(x) == IF x = "r" THEN "w" ELSE "r"

VARIABLES life,     \* "none", "forked" (not runnable yet), "runs", "gone"
          fd,       \* which struct Fd page each descriptor of each environment maps
          data,     \* whether its data page is mapped (to the struct Pipe)
          call,     \* the library call each environment is in
          moved,    \* whether env_runs has changed since _pipeisclosed sampled it
          rpos, wpos, buf,   \* struct Pipe; the byte written at position i is i
          got,      \* history: the bytes taken by the reader
          told      \* history: the ends whose holder was told the other is closed

vars == <<life, fd, data, call, moved, rpos, wpos, buf, got, told>>
pipeVars == <<rpos, wpos, buf, got>>

Idle == [op |-> "none", at |-> "", n |-> 0, m |-> 0, ref |-> 0, left |-> 0, part |-> FALSE,
         kid |-> Parent]
Begin(op, at, n, m, left) ==
    [op |-> op, at |-> at, n |-> n, m |-> m, ref |-> 0, left |-> left, part |-> FALSE,
     kid |-> Parent]

Refs(x) == Cardinality({h \in Envs \X FDs : fd[h[1]][h[2]] = x})
DataRefs == Cardinality({h \in Envs \X FDs : data[h[1]][h[2]]})
IsOpen(x) == \E e \in Envs, n \in FDs : fd[e][n] = x

\* A library call: which, at what step, for which descriptors (in fork(), how
\* far it is), the count it has read, the bytes left, whether it has moved some,
\* the child that fork() is filling.
Calls == [op : {"none", "close", "dup", "fork", "test", "read", "write"},
          at : {"", "unmap1", "unmap2", "map1", "map2", "page", "start",
                "sample", "ref1", "ref2", "decide", "look", "move", "next"},
          n : FDs, m : 0 .. 2 * NFD, ref : 0 .. NFD * Cardinality(Envs),
          left : 0 .. MaxRead + NBytes, part : BOOLEAN,
          kid : Envs]

TypeOK ==
    /\ life \in [Envs -> {"none", "forked", "runs", "gone"}]
    /\ fd \in [Envs -> [FDs -> Ends \cup {None}]]
    /\ data \in [Envs -> [FDs -> BOOLEAN]]
    /\ call \in [Envs -> Calls]
    /\ moved \in [Envs -> BOOLEAN]
    /\ rpos \in 0 .. NBytes /\ wpos \in 0 .. NBytes
    /\ buf \in [0 .. BufSize - 1 -> 0 .. NBytes]
    /\ got \in Seq(0 .. NBytes) /\ Len(got) <= NBytes
    /\ told \in [Envs -> SUBSET Ends]

\* pipe() has returned 0 and 1 in Parent, the only environment so far.
Init == /\ life = [e \in Envs |-> IF e = Parent THEN "runs" ELSE "none"]
        /\ fd = [e \in Envs |-> [n \in FDs |->
                    IF e # Parent THEN None
                    ELSE IF n = 0 THEN "r" ELSE IF n = 1 THEN "w" ELSE None]]
        /\ data = [e \in Envs |-> [n \in FDs |-> e = Parent /\ n \in {0, 1}]]
        /\ call = [e \in Envs |-> Idle]
        /\ moved = [e \in Envs |-> FALSE]
        /\ rpos = 0 /\ wpos = 0
        /\ buf = [i \in 0 .. BufSize - 1 |-> NBytes]
        /\ got = << >>
        /\ told = [e \in Envs |-> {}]

InCheck(e) == call[e].at \in {"ref1", "ref2", "decide"}

\* A step of e, after which its own flag is m.
Acts(e, m) == /\ life[e] = "runs"
              /\ moved' = [f \in Envs |-> IF f = e THEN m
                                          ELSE moved[f] \/ (OneCpu /\ InCheck(f))]
Goto(e, at) == call' = [call EXCEPT ![e].at = at]
Return(e) == call' = [call EXCEPT ![e] = Idle]

------------------------------------------------------------------------------
(* close(), dup() *)

\* The order in which a descriptor loses its two pages (devpipe_close) and gets
\* them (dup).  Mutants: the other way round.
UnmapDataFirst == <<"data", "fd">>
UnmapOrder == <<"fd", "data">>
MapFdFirst == <<"fd", "data">>
MapOrder == <<"data", "fd">>

\* Mutant: the data page is left to exit().
UnmapFdOnly(e, m, which) ==
    IF which = "fd" THEN fd' = [fd EXCEPT ![e][m] = None] /\ UNCHANGED data
                    ELSE UNCHANGED <<fd, data>>

Unmap(e, m, which) ==
    IF which = "fd" THEN fd' = [fd EXCEPT ![e][m] = None] /\ UNCHANGED data
                    ELSE data' = [data EXCEPT ![e][m] = FALSE] /\ UNCHANGED fd

Close(e, m) == /\ call[e] = Idle /\ fd[e][m] # None
               /\ call' = [call EXCEPT ![e] = Begin("close", "unmap1", 0, m, 0)]
               /\ Acts(e, FALSE)
               /\ UNCHANGED <<life, fd, data, pipeVars, told>>

\* dup(n, m) closes m first; m may be n.
Dup(e, n, m) == /\ call[e] = Idle /\ fd[e][n] # None
                /\ call' = [call EXCEPT ![e] =
                       Begin("dup", IF fd[e][m] # None THEN "unmap1" ELSE "map1", n, m, 0)]
                /\ Acts(e, FALSE)
                /\ UNCHANGED <<life, fd, data, pipeVars, told>>

Unmap1(e) == /\ call[e].at = "unmap1"
             /\ Unmap(e, call[e].m, UnmapOrder[1])
             /\ Goto(e, "unmap2")
             /\ Acts(e, FALSE)
             /\ UNCHANGED <<life, pipeVars, told>>

Unmap2(e) == /\ call[e].at = "unmap2"
             /\ Unmap(e, call[e].m, UnmapOrder[2])
             /\ IF call[e].op = "dup" THEN Goto(e, "map1") ELSE Return(e)
             /\ Acts(e, FALSE)
             /\ UNCHANGED <<life, pipeVars, told>>

\* The data page is mapped only if the old descriptor has one.  Mapping a struct
\* Fd that is not there (dup(n, n)) fails, and the new descriptor is unmapped.
MapPage(e, n, m, which) ==
    IF which = "data"
      THEN data' = [data EXCEPT ![e][m] = @ \/ data[e][n]] /\ UNCHANGED fd
      ELSE /\ fd' = [fd EXCEPT ![e][m] = fd[e][n]]
           /\ IF fd[e][n] = None THEN data' = [data EXCEPT ![e][m] = FALSE]
                                 ELSE UNCHANGED data

Map1(e) == /\ call[e].at = "map1"
           /\ MapPage(e, call[e].n, call[e].m, MapOrder[1])
           /\ Goto(e, "map2")
           /\ Acts(e, FALSE)
           /\ UNCHANGED <<life, pipeVars, told>>

Map2(e) == /\ call[e].at = "map2"
           /\ MapPage(e, call[e].n, call[e].m, MapOrder[2])
           /\ Return(e)
           /\ Acts(e, FALSE)
           /\ UNCHANGED <<life, pipeVars, told>>

------------------------------------------------------------------------------
(* fork(): shared pages are mapped into the child one by one, in the order of  *)
(* their addresses, the struct Fds (FDTABLE) before the data (FILEDATA).       *)

Fork(e, c) == /\ call[e] = Idle /\ life[c] = "none"
              /\ life' = [life EXCEPT ![c] = "forked"]
              /\ call' = [call EXCEPT ![e] = [Begin("fork", "page", 0, 0, 0) EXCEPT !.kid = c]]
              /\ Acts(e, FALSE)
              /\ UNCHANGED <<fd, data, pipeVars, told>>

Copied(e, k) == IF k < NFD THEN fd[e][k] # None ELSE data[e][k - NFD]

\* k is the next page that there is to copy, or the end of the loop.
NextPage(e, k) == /\ k < 2 * NFD => Copied(e, k)
                  /\ \A i \in call[e].m .. k - 1 : ~Copied(e, i)

DupPage(e, c) == /\ call[e].at = "page" /\ call[e].kid = c /\ life[c] = "forked"
                 /\ \E k \in call[e].m .. 2 * NFD :
                       /\ NextPage(e, k)
                       /\ IF k = 2 * NFD
                            THEN Goto(e, "start") /\ UNCHANGED <<fd, data>>
                            ELSE /\ call' = [call EXCEPT ![e].m = k + 1]
                                 /\ IF k < NFD
                                      THEN /\ fd' = [fd EXCEPT ![c][k] = fd[e][k]]
                                           /\ UNCHANGED data
                                      ELSE /\ data' = [data EXCEPT ![c][k - NFD] = TRUE]
                                           /\ UNCHANGED fd
                 /\ Acts(e, FALSE)
                 /\ UNCHANGED <<life, pipeVars, told>>

Start(e, c) == /\ call[e].at = "start" /\ call[e].kid = c /\ life[c] = "forked"
               /\ life' = [life EXCEPT ![c] = "runs"]
               /\ Return(e)
               /\ Acts(e, FALSE)
               /\ UNCHANGED <<fd, data, pipeVars, told>>

------------------------------------------------------------------------------
(* _pipeisclosed(), called by pipeisclosed(), devpipe_read and devpipe_write   *)

Test(e, n) == /\ call[e] = Idle /\ fd[e][n] # None
              /\ call' = [call EXCEPT ![e] = Begin("test", "sample", n, 0, 0)]
              /\ Acts(e, FALSE)
              /\ UNCHANGED <<life, fd, data, pipeVars, told>>

SampleRuns(e) == /\ call[e].at = "sample"
                 /\ Goto(e, "ref1")
                 /\ Acts(e, FALSE)
                 /\ UNCHANGED <<life, fd, data, pipeVars, told>>

ReadFdRef(e) == /\ call[e].at = "ref1"
                /\ call' = [call EXCEPT ![e].ref = Refs(fd[e][call[e].n]), ![e].at = "ref2"]
                /\ Acts(e, moved[e])
                /\ UNCHANGED <<life, fd, data, pipeVars, told>>

\* ref becomes 1 if the counts are equal, 0 otherwise.
ReadDataRef(e) == /\ call[e].at = "ref2"
                  /\ call' = [call EXCEPT ![e].ref = IF @ = DataRefs THEN 1 ELSE 0,
                                          ![e].at = "decide"]
                  /\ Acts(e, moved[e])
                  /\ UNCHANGED <<life, fd, data, pipeVars, told>>

\* The timer interrupts e within the check.
Rerun(e) == /\ InCheck(e) /\ ~moved[e]
            /\ life[e] = "runs"
            /\ moved' = [moved EXCEPT ![e] = TRUE]
            /\ UNCHANGED <<life, fd, data, call, pipeVars, told>>

\* Mutant: the sampled counts are trusted, whatever ran in between.
RunsUnchangedIgnored(e) == TRUE

RunsUnchanged(e) == ~moved[e]

Retry(e) == /\ call[e].at = "decide" /\ ~RunsUnchanged(e)
            /\ call' = [call EXCEPT ![e].at = "sample", ![e].ref = 0]
            /\ Acts(e, FALSE)
            /\ UNCHANGED <<life, fd, data, pipeVars, told>>

\* The verdict.  A read or write returns 0 on "closed"; otherwise it yields and
\* looks again.
Verdict(e) == /\ call[e].at = "decide" /\ RunsUnchanged(e)
              /\ IF call[e].ref = 1
                   THEN /\ told' = [told EXCEPT ![e] = @ \cup {fd[e][call[e].n]}]
                        /\ Return(e)
                   ELSE /\ UNCHANGED told
                        /\ IF call[e].op = "test"
                             THEN Return(e)
                             ELSE call' = [call EXCEPT ![e].at = "look", ![e].ref = 0]
              /\ Acts(e, FALSE)
              /\ UNCHANGED <<life, fd, data, pipeVars>>

------------------------------------------------------------------------------
(* devpipe_read, devpipe_write: two accesses for every byte, the byte first.    *)

Read(e, n, k) == /\ call[e] = Idle /\ fd[e][n] = "r" /\ e = Reader
                 /\ call' = [call EXCEPT ![e] = Begin("read", "look", n, 0, k)]
                 /\ Acts(e, FALSE)
                 /\ UNCHANGED <<life, fd, data, pipeVars, told>>

Write(e, n, k) == /\ call[e] = Idle /\ fd[e][n] = "w" /\ e \in Writers
                  /\ wpos + k <= NBytes
                  /\ \A f \in Envs \ {e} : call[f].op # "write"
                  /\ call' = [call EXCEPT ![e] = Begin("write", "look", n, 0, k)]
                  /\ Acts(e, FALSE)
                  /\ UNCHANGED <<life, fd, data, pipeVars, told>>

\* Mutant: room for one byte too many.
FullOffByOne == wpos > rpos + BufSize

Full == wpos >= rpos + BufSize

Empty == rpos = wpos

\* The test of the inner while loop.  A read that has some bytes returns them.
Look(e) == /\ call[e].at = "look"
           /\ \/ /\ IF call[e].op = "read" THEN ~Empty ELSE ~Full
                 /\ Goto(e, "move")
              \/ /\ call[e].op = "read" /\ Empty /\ call[e].part
                 /\ Return(e)
              \/ /\ IF call[e].op = "read" THEN Empty /\ ~call[e].part ELSE Full
                 /\ Goto(e, "sample")
           /\ Acts(e, FALSE)
           /\ UNCHANGED <<life, fd, data, pipeVars, told>>

Take(e) == /\ call[e].at = "move" /\ call[e].op = "read"
           /\ got' = Append(got, buf[rpos % BufSize])
           /\ Goto(e, "next")
           /\ Acts(e, FALSE)
           /\ UNCHANGED <<life, fd, data, rpos, wpos, buf, told>>

Store(e) == /\ call[e].at = "move" /\ call[e].op = "write"
            /\ buf' = [buf EXCEPT ![wpos % BufSize] = wpos]
            /\ Goto(e, "next")
            /\ Acts(e, FALSE)
            /\ UNCHANGED <<life, fd, data, rpos, wpos, got, told>>

Advance(e) == /\ call[e].at = "next"
              /\ IF call[e].op = "read" THEN rpos' = rpos + 1 /\ UNCHANGED wpos
                                        ELSE wpos' = wpos + 1 /\ UNCHANGED rpos
              /\ LET left == call[e].left
                 IN  IF left = 1 THEN Return(e)
                     ELSE call' = [call EXCEPT ![e].left = left - 1, ![e].at = "look",
                                               ![e].part = TRUE]
              /\ Acts(e, FALSE)
              /\ UNCHANGED <<life, fd, data, buf, got, told>>

------------------------------------------------------------------------------
\* env_free(): sys_env_destroy() by another environment, in the middle of anything.
Destroyed(e) == /\ e \in Mortal /\ life[e] = "runs"
                /\ life' = [life EXCEPT ![e] = "gone"]
                /\ fd' = [fd EXCEPT ![e] = [n \in FDs |-> None]]
                /\ data' = [data EXCEPT ![e] = [n \in FDs |-> FALSE]]
                /\ call' = [call EXCEPT ![e] = Idle]
                /\ moved' = [f \in Envs |-> f # e /\ (moved[f] \/ (OneCpu /\ InCheck(f)))]
                /\ UNCHANGED <<pipeVars, told>>

\* The rest of a call once it has begun.
Continue(e) == \/ Unmap1(e) \/ Unmap2(e) \/ Map1(e) \/ Map2(e)
               \/ \E c \in Envs : DupPage(e, c) \/ Start(e, c)
               \/ SampleRuns(e) \/ ReadFdRef(e) \/ ReadDataRef(e) \/ Retry(e) \/ Verdict(e)
               \/ Look(e) \/ Take(e) \/ Store(e) \/ Advance(e)

Call(e) == \/ "close" \in Ops /\ \E m \in FDs : Close(e, m)
           \/ "dup" \in Ops /\ \E n, m \in FDs : Dup(e, n, m)
           \/ "fork" \in Ops /\ \E c \in Envs : Fork(e, c)
           \/ "test" \in Ops /\ \E n \in FDs : Test(e, n)
           \/ "read" \in Ops /\ \E n \in FDs, k \in 1 .. MaxRead : Read(e, n, k)
           \/ "write" \in Ops /\ \E n \in FDs, k \in 1 .. NBytes : Write(e, n, k)

Next == \E e \in Envs : Call(e) \/ Continue(e) \/ Rerun(e) \/ Destroyed(e)

Spec == Init /\ [][Next]_vars

\* The scheduler comes back to every runnable environment, and a check that is
\* tried again and again is not interrupted every time, at any of its steps (a
\* time slice is far longer than a check).
Fairness == \A e \in Envs : /\ WF_vars(Continue(e))
                            /\ SF_vars(ReadFdRef(e) /\ ~moved[e])
                            /\ SF_vars(ReadDataRef(e) /\ ~moved[e])
                            /\ SF_vars(Verdict(e))

LiveSpec == Spec /\ Fairness

------------------------------------------------------------------------------
(* Properties *)

\* _pipeisclosed() is right when it says that the other end is closed: no
\* descriptor of that end is left in any environment, and none will be.
ClosedIsTrue == \A e \in Envs : \A x \in told[e] : ~IsOpen(Other(x))

\* The reader gets the bytes written, each once, in order.
BytesInOrder == \A i \in 1 .. Len(got) : got[i] = i - 1

\* A read ends with 0 only when all bytes have been read.
EofMeansDrained ==
    [][\A e \in Envs : call[e].op = "read" /\ call[e].at = "decide" /\ call'[e] = Idle
                       /\ life'[e] = "runs" => Empty]_vars

\* A read or write that nobody can serve any more does not stay stuck for ever
\* while every other environment leaves its descriptors alone.
Stuck(e) == /\ \/ call[e].op = "read" /\ ~IsOpen("w")
               \/ call[e].op = "write" /\ ~IsOpen("r")
            /\ \A f \in Envs : call[f].op \notin {"close", "dup", "fork"}

BlockedCallsEnd == \A e \in Envs : []<>~Stuck(e)
=============================================================================
