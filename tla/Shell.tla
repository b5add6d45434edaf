------------------------------- MODULE Shell -------------------------------
(***************************************************************************)
(* The shell and what it is made of: user/sh.c (umain, runcmd, gettoken),  *)
(* lib/spawn.c, lib/wait.c, exit() and close_all(), over descriptors that  *)
(* fork() and spawn() share and over pipes.                                *)
(*                                                                         *)
(* An action is one library call.  Pipe.tla says what the calls on a pipe  *)
(* do in detail; here a descriptor call is one step, and a pipe is the     *)
(* number of bytes in it and the descriptors that name its two ends.       *)
(*                                                                         *)
(* Environments are numbered as they are created, so that a number is a    *)
(* slot of envs[] with its generation: wait() returns when the slot is     *)
(* free or has another generation, here when the number is gone.           *)
(***************************************************************************)
EXTENDS Integers, Sequences, SequencesExt, FiniteSets, FiniteSetsExt

CONSTANTS NENV,             \* environments at one time
          MaxIds,           \* bound: environments in all
          MaxLines,         \* bound: lines typed
          MaxPipes,         \* pipes of a line
          NFD,              \* descriptors of an environment
          PIPEBUFSIZ, MAXARGS,
          Lines,            \* what may be typed, as sequences of characters
          Programs, Texts,  \* names of the files: programs, and others
          OutLen,           \* bytes that echo writes
          MaxFaults,        \* bound: failures of init_stack and map_segment
          None

Ids == 1 .. MaxIds
Fds == 0 .. NFD - 1
sh == 1                     \* the shell that reads the lines

ASSUME IdsAssumption == MaxIds \in Nat \ {0} /\ None \notin Ids
ASSUME LinesAssumption == \A l \in Lines : l \in Seq(STRING)
ASSUME FdsAssumption == NFD \in Nat /\ NFD >= 4       \* MAXFD is 32; 0, 1 and a pipe need 4

VARIABLES
    pc,         \* "free", or where an environment is
    fd,         \* what each descriptor of an environment names
    env,        \* what an environment keeps for itself, see Fresh
    bytes,      \* what is in each pipe
    line, lines,\* the line being run, and how many there were
    stackFaults, faults   \* history: failures of init_stack, and of both kinds

vars == <<pc, fd, env, bytes, line, lines, stackFaults, faults>>
history == <<line, lines, stackFaults, faults>>

(* ahead: the token gettoken() has parsed already and what is behind it; argv: the words of the command; p:
   the descriptors of pipe(p); todo, next: descriptor calls under way and
   what follows them; kid, right: the program and the right-hand shell to
   wait for; carry: bytes a program has read and not yet written; left: bytes
   it still reads from a file or writes by itself; stage (history): the
   command of the pipeline the environment is for.                          *)
NoToken == [t |-> "0", word |-> <<>>, rest |-> <<>>]
Fresh == [ahead |-> NoToken, argv |-> <<>>, p |-> <<0, 0>>, todo |-> <<>>, next |-> "none",
          kid |-> None, right |-> None, carry |-> 0, left |-> 0, stage |-> 0]

Terminal == <<"cons">>
File(name) == <<"file", name>>
Reads(k) == <<"r", k>>
Writes(k) == <<"w", k>>
Closed == <<"closed">>

Alive == {e \in Ids : pc[e] # "free"}
NextFd(e) == Min({n \in Fds : fd[e][n] = Closed})                 \* fd_alloc()
Named(object) == \E e \in Alive, n \in Fds : fd[e][n] = object
Gone(id) == IF id = None THEN TRUE ELSE pc[id] = "free"
Unused == {e \in Ids : env[e].stage = 0 /\ e # sh}
Room == Cardinality(Alive) < NENV /\ Unused # {}
NewId == Min(Unused)

----------------------------------------------------------------------------
(* _gettoken(): white space, then a symbol or a word.                      *)
Blank(c) == c = " "
Symbol(c) == c \in {"<", "|", ">"}
From(s, n) == IF n = 0 THEN <<>> ELSE SubSeq(s, n, Len(s))
SkipBlanks(s) == From(s, SelectInSeq(s, LAMBDA c : ~ Blank(c)))
WordEnd(s) == LET n == SelectInSeq(s, LAMBDA c : Blank(c) \/ Symbol(c))
              IN  IF n = 0 THEN Len(s) ELSE n - 1
Token(s) ==
    CASE s = <<>> -> NoToken
      [] s # <<>> /\ Symbol(Head(s)) -> [t |-> Head(s), word |-> <<>>, rest |-> Tail(s)]
      [] OTHER -> [t |-> "w", word |-> SubSeq(s, 1, WordEnd(s)),
                   rest |-> SubSeq(s, WordEnd(s) + 1, Len(s))]
GetToken(s) == Token(SkipBlanks(s))

----------------------------------------------------------------------------
(* What a line says, without parsing it from left to right: the reference. *)
Bars == {n \in 1 .. Len(line) : line[n] = "|"}
Stages == Cardinality(Bars) + 1
Bar(n) == IF n = 0 THEN 0 ELSE IF n > Cardinality(Bars) THEN Len(line) + 1
          ELSE CHOOSE b \in Bars : Cardinality({m \in Bars : m <= b}) = n
Text(n) == SubSeq(line, Bar(n - 1) + 1, Bar(n) - 1)
IsWordChar(c) == ~ Blank(c) /\ ~ Symbol(c)
Starts(t) == {n \in 1 .. Len(t) : IsWordChar(t[n]) /\ (n = 1 \/ ~ IsWordChar(t[n - 1]))}
WordAt(t, n) == SubSeq(t, n, Max({m \in n .. Len(t) : \A i \in n .. m : IsWordChar(t[i])}))
(* The character before a word, blanks left aside.                         *)
Before(t, n) == LET s == {m \in 1 .. n - 1 : ~ Blank(t[m])} IN IF s = {} THEN " " ELSE t[Max(s)]
Targets(t, symbol) == {n \in Starts(t) : Before(t, n) = symbol}
Arguments(n) ==
    LET t == Text(n)
        words == Starts(t) \ (Targets(t, "<") \cup Targets(t, ">"))
    IN  [i \in 1 .. Cardinality(words) |->
            WordAt(t, CHOOSE w \in words : Cardinality({v \in words : v <= w}) = i)]
Input(n) ==
    LET t == Text(n) IN
    IF Targets(t, "<") # {} THEN File(WordAt(t, Max(Targets(t, "<"))))
    ELSE IF n > 1 THEN Reads(n - 1) ELSE Terminal
Output(n) ==
    LET t == Text(n) IN
    IF n < Stages THEN Writes(n)
    ELSE IF Targets(t, ">") # {} THEN File(WordAt(t, Max(Targets(t, ">")))) ELSE Terminal

----------------------------------------------------------------------------
Empty == [n \in Fds |-> Closed]
Init ==
    /\ pc = [e \in Ids |-> IF e = sh THEN "prompt" ELSE "free"]
    /\ fd = [e \in Ids |-> IF e = sh THEN [Empty EXCEPT ![0] = Terminal, ![1] = Terminal] ELSE Empty]
    /\ env = [e \in Ids |-> Fresh]
    /\ bytes = [k \in 1 .. MaxPipes |-> 0]
    /\ line = <<>> /\ lines = 0 /\ stackFaults = 0 /\ faults = 0

Goto(e, label) == pc' = [pc EXCEPT ![e] = label]
Keeps(e, private) == env' = [env EXCEPT ![e] = private]

(* A sequence of close() and dup() calls, and where it leads.              *)
Close(n) == <<"close", n>>
Dup(n, m) == <<"dup", n, m>>
CallAll(e, private, calls, label) ==
    IF calls = <<>> THEN Goto(e, label) /\ Keeps(e, private)
    ELSE Goto(e, "calls") /\ Keeps(e, [private EXCEPT !.todo = calls, !.next = label])
Changed(table, c) == IF c[1] = "dup" THEN [table EXCEPT ![c[3]] = table[c[2]]]
                     ELSE [table EXCEPT ![c[2]] = Closed]
Call(e) ==
    /\ pc[e] = "calls"
    /\ fd' = [fd EXCEPT ![e] = Changed(fd[e], Head(env[e].todo))]
    /\ CallAll(e, env[e], Tail(env[e].todo), env[e].next)
    /\ UNCHANGED <<bytes, history>>

(* close_all(); exit() is close_all() and sys_env_destroy(0).              *)
OpenFds(e) == [n \in 1 .. Cardinality({m \in Fds : fd[e][m] # Closed}) |->
                 CHOOSE m \in Fds : fd[e][m] # Closed
                                    /\ Cardinality({i \in 0 .. m : fd[e][i] # Closed}) = n]
CloseAll(e, private, label) ==
    CallAll(e, private, [n \in DOMAIN OpenFds(e) |-> Close(OpenFds(e)[n])], label)
Exit(e) == CloseAll(e, env[e], "destroy")
Destroy(e) ==
    /\ pc[e] = "destroy"
    /\ Goto(e, "free")
    /\ UNCHANGED <<fd, env, bytes, history>>

----------------------------------------------------------------------------
(* umain() of the shell: one line after the other.                         *)
ReadLine ==
    /\ pc[sh] = "prompt" /\ lines < MaxLines
    /\ line' \in Lines /\ lines' = lines + 1
    /\ env' = [e \in Ids |-> IF pc[e] = "free" THEN Fresh ELSE env[e]]
    /\ bytes' = [k \in 1 .. MaxPipes |-> 0]
    /\ Goto(sh, "fork line")
    /\ UNCHANGED <<fd, stackFaults, faults>>
ForkLine ==
    /\ pc[sh] = "fork line"
    /\ IF Room
       THEN /\ pc' = [pc EXCEPT ![sh] = "wait line", ![NewId] = "parse"]
            /\ fd' = [fd EXCEPT ![NewId] = fd[sh]]
            /\ env' = [env EXCEPT ![sh].kid = NewId,
                                  ![NewId] = [Fresh EXCEPT !.ahead = GetToken(line), !.stage = 1]]
       ELSE Goto(sh, "panic") /\ UNCHANGED <<fd, env>>
    /\ UNCHANGED <<bytes, history>>
WaitLine ==
    /\ pc[sh] = "wait line" /\ Gone(env[sh].kid)
    /\ Goto(sh, "prompt")
    /\ UNCHANGED <<fd, env, bytes, history>>

(* runcmd(): the tokens of one command.  gettoken() answers the token it
   parsed the time before and parses one more.                             *)
Following(token) == GetToken(token.rest)
Parses(e, t) == pc[e] = "parse" /\ env[e].ahead.t = t
Word(e) ==
    /\ Parses(e, "w")
    /\ IF Len(env[e].argv) = MAXARGS THEN Exit(e)      \* too many arguments
       ELSE /\ Keeps(e, [env[e] EXCEPT !.argv = Append(@, env[e].ahead.word),
                                       !.ahead = Following(@)])
            /\ UNCHANGED pc
    /\ UNCHANGED <<fd, bytes, history>>
(* open() as the lowest descriptor, dup() onto n and close().              *)
Redirect(e, t, n, creates) ==
    /\ Parses(e, t)
    /\ \E target \in {Following(env[e].ahead)} :
         IF target.t = "w" /\ (creates \/ target.word \in Programs \cup Texts)
         THEN /\ fd' = [fd EXCEPT ![e][n] = File(target.word)]
              /\ Keeps(e, [env[e] EXCEPT !.ahead = Following(target)])
              /\ UNCHANGED pc
         ELSE Exit(e) /\ UNCHANGED fd           \* a syntax error, or no such file
    /\ UNCHANGED <<bytes, history>>
Input0(e) == Redirect(e, "<", 0, FALSE)
Output1(e) == Redirect(e, ">", 1, TRUE)       \* O_CREAT

(* '|': pipe(p), and then fork() with a shell for the rest of the line.    *)
Pipe(e) ==
    LET k == env[e].stage IN
    /\ Parses(e, "|")
    /\ \E r \in {NextFd(e)}, w \in {Min({n \in Fds : fd[e][n] = Closed /\ n # NextFd(e)})} :
          /\ fd' = [fd EXCEPT ![e][r] = Reads(k), ![e][w] = Writes(k)]
          /\ Keeps(e, [env[e] EXCEPT !.p = <<r, w>>, !.ahead = Following(@)])
    /\ Goto(e, "fork")
    /\ UNCHANGED <<bytes, history>>
(* Mutant: the right side keeps the end that the left side writes to.      *)
RightCallsKeeping(q) == (IF q[1] # 0 THEN <<Dup(q[1], 0), Close(q[1])>> ELSE <<>>)
RightCalls(q) == (IF q[1] # 0 THEN <<Dup(q[1], 0), Close(q[1])>> ELSE <<>>) \o <<Close(q[2])>>
(* Mutant: the left side keeps the end that the right side reads from.     *)
LeftCallsKeeping(q) == (IF q[2] # 1 THEN <<Dup(q[2], 1), Close(q[2])>> ELSE <<>>)
LeftCalls(q) == (IF q[2] # 1 THEN <<Dup(q[2], 1), Close(q[2])>> ELSE <<>>) \o <<Close(q[1])>>
Fork(e) ==
    /\ pc[e] = "fork"
    /\ IF Room
       THEN /\ pc' = [pc EXCEPT ![e] = "calls", ![NewId] = "calls"]
            /\ fd' = [fd EXCEPT ![NewId] = fd[e]]
            /\ env' = [env EXCEPT
                 ![e].right = NewId, ![e].todo = LeftCalls(env[e].p), ![e].next = "run",
                 ![NewId] = [Fresh EXCEPT !.ahead = env[e].ahead, !.stage = env[e].stage + 1,
                                          !.todo = RightCalls(env[e].p), !.next = "parse"]]
       ELSE Goto(e, "panic") /\ UNCHANGED <<fd, env>>     \* in fork() itself
    /\ UNCHANGED <<bytes, history>>
EndOfString(e) ==
    /\ Parses(e, "0")
    /\ Goto(e, "run")
    /\ UNCHANGED <<fd, env, bytes, history>>

----------------------------------------------------------------------------
(* runit: spawn(), close_all(), wait() for the program and for the right.
   Without a command runcmd() returns, and umain() calls exit().           *)
Run(e) ==
    /\ pc[e] = "run"
    /\ IF env[e].argv = <<>> THEN Exit(e)
       ELSE Goto(e, "spawn") /\ UNCHANGED env
    /\ UNCHANGED <<fd, bytes, history>>
GivesUp(e) == CloseAll(e, env[e], "wait kid")

(* spawn() opens the file and reads its header.                            *)
SpawnOpen(e) ==
    /\ pc[e] = "spawn"
    /\ IF Head(env[e].argv) \in Programs
       THEN /\ fd' = [fd EXCEPT ![e][NextFd(e)] = File(Head(env[e].argv))]
            /\ Keeps(e, [env[e] EXCEPT !.p = <<NextFd(e), 0>>])
            /\ Goto(e, "exofork")
       ELSE GivesUp(e) /\ UNCHANGED fd        \* not there, or not ELF
    /\ UNCHANGED <<bytes, history>>
Exofork(e) ==
    /\ pc[e] = "exofork"
    /\ IF Room
       THEN /\ pc' = [pc EXCEPT ![e] = "stack", ![NewId] = "unborn"]
            /\ env' = [env EXCEPT ![e].kid = NewId,
                         ![NewId] = [Fresh EXCEPT !.argv = env[e].argv, !.stage = env[e].stage]]
       ELSE GivesUp(e)                        \* the file stays open
    /\ UNCHANGED <<fd, bytes, history>>
(* init_stack(), which may find no page: the child stays as it is.         *)
InitStack(e) ==
    /\ pc[e] = "stack"
    /\ \/ Goto(e, "segments") /\ UNCHANGED <<env, faults, stackFaults>>
       \/ /\ faults < MaxFaults /\ faults' = faults + 1 /\ stackFaults' = stackFaults + 1
          /\ CloseAll(e, [env[e] EXCEPT !.kid = None], "wait kid")
    /\ UNCHANGED <<fd, bytes, line, lines>>
(* map_segment() for each segment; a failure destroys the child.           *)
MapSegments(e) ==
    /\ pc[e] = "segments"
    /\ fd' = [fd EXCEPT ![e][env[e].p[1]] = Closed]
    /\ \/ Goto(e, "share") /\ UNCHANGED <<env, faults>>
       \/ /\ faults < MaxFaults /\ faults' = faults + 1
          /\ pc' = [pc EXCEPT ![e] = "close all", ![env[e].kid] = "free"]
          /\ Keeps(e, [env[e] EXCEPT !.kid = None])
    /\ UNCHANGED <<bytes, line, lines, stackFaults>>
CloseForKid(e) ==
    /\ pc[e] = "close all"
    /\ GivesUp(e)
    /\ UNCHANGED <<fd, bytes, history>>
(* copy_shared_pages(): every descriptor that is open is shared.           *)
CopySharedPages(e) ==
    /\ pc[e] = "share"
    /\ fd' = [fd EXCEPT ![env[e].kid] = fd[e]]
    /\ Goto(e, "start")
    /\ UNCHANGED <<env, bytes, history>>
Start(e) ==
    /\ pc[e] = "start"
    /\ pc' = [pc EXCEPT ![e] = "close all", ![env[e].kid] = "program"]
    /\ env' = [env EXCEPT ![env[e].kid].left = OutLen]
    /\ UNCHANGED <<fd, bytes, history>>
WaitKid(e) ==
    /\ pc[e] = "wait kid" /\ Gone(env[e].kid)
    /\ Goto(e, "wait right")
    /\ UNCHANGED <<fd, env, bytes, history>>
(* Mutant: the left side does not wait for the right side.                 *)
WaitNobody(e) ==
    /\ pc[e] = "wait right"
    /\ Exit(e)
    /\ UNCHANGED <<fd, bytes, history>>
WaitRight(e) ==
    /\ pc[e] = "wait right" /\ Gone(env[e].right)
    /\ Exit(e)
    /\ UNCHANGED <<fd, bytes, history>>

----------------------------------------------------------------------------
(* The programs: echo writes OutLen bytes, cat copies what it reads, and
   another ends at once.                                                   *)
Runs(e, name) == pc[e] = "program" /\ Head(env[e].argv) = name
ToPipe(e) == fd[e][1][1] = "w"
Into(e) == fd[e][1][2]
(* write(1, .., 1): a pipe that has room takes a byte; whether it has a reader
   left matters only when it is full.                                      *)
Write(e, done, broken) ==
    IF ~ ToPipe(e) THEN UNCHANGED bytes /\ done
    ELSE IF bytes[Into(e)] < PIPEBUFSIZ
    THEN bytes' = [bytes EXCEPT ![Into(e)] = @ + 1] /\ done
    ELSE ~ Named(Reads(Into(e))) /\ UNCHANGED bytes /\ broken
Wrote(e) == Keeps(e, [env[e] EXCEPT !.left = @ - 1]) /\ UNCHANGED pc
EchoWrites(e) ==
    /\ Runs(e, <<"e">>) /\ env[e].left > 0
    /\ Write(e, Wrote(e), Wrote(e))
    /\ UNCHANGED <<fd, history>>
EchoEnds(e) ==
    /\ Runs(e, <<"e">>) /\ env[e].left = 0
    /\ Exit(e)
    /\ UNCHANGED <<fd, bytes, history>>
(* read(0, ..) answers a byte, or 0 at the end of a file, of a pipe without
   writers, or after control-D on the console.                             *)
CatReads(e) ==
    /\ Runs(e, <<"c">>) /\ env[e].carry = 0
    /\ CASE fd[e][0][1] = "r" ->
              LET k == fd[e][0][2] IN
              IF bytes[k] > 0
              THEN /\ bytes' = [bytes EXCEPT ![k] = @ - 1]
                   /\ Keeps(e, [env[e] EXCEPT !.carry = 1]) /\ UNCHANGED pc
              ELSE /\ ~ Named(Writes(k))
                   /\ Exit(e) /\ UNCHANGED bytes
         [] fd[e][0][1] = "file" /\ env[e].left > 0 ->
              /\ Keeps(e, [env[e] EXCEPT !.carry = 1, !.left = @ - 1])
              /\ UNCHANGED <<pc, bytes>>
         [] OTHER -> Exit(e) /\ UNCHANGED bytes
    /\ UNCHANGED <<fd, history>>
CatWrites(e) ==
    /\ Runs(e, <<"c">>) /\ env[e].carry = 1
    /\ Write(e, Keeps(e, [env[e] EXCEPT !.carry = 0]) /\ UNCHANGED pc,
                Goto(e, "panic") /\ UNCHANGED env)         \* write error
    /\ UNCHANGED <<fd, history>>
OtherEnds(e) ==
    /\ Runs(e, <<"q">>)
    /\ Exit(e)
    /\ UNCHANGED <<fd, bytes, history>>

Shells(e) ==
    \/ Word(e) \/ Input0(e) \/ Output1(e) \/ Pipe(e) \/ Fork(e) \/ EndOfString(e) \/ Run(e)
    \/ SpawnOpen(e) \/ Exofork(e) \/ InitStack(e) \/ MapSegments(e) \/ CloseForKid(e)
    \/ CopySharedPages(e) \/ Start(e) \/ WaitKid(e) \/ WaitRight(e)
Runnable(e) ==
    \/ Call(e) \/ Destroy(e) \/ Shells(e)
    \/ EchoWrites(e) \/ EchoEnds(e) \/ CatReads(e) \/ CatWrites(e) \/ OtherEnds(e)

Next == ReadLine \/ ForkLine \/ WaitLine \/ \E e \in Ids \ {sh} : Runnable(e)

Spec == Init /\ [][Next]_vars
(* The scheduler comes back to every environment that can run.             *)
Fairness == WF_vars(ForkLine) /\ WF_vars(WaitLine) /\ \A e \in Ids \ {sh} : WF_vars(Runnable(e))
LiveSpec == Spec /\ Fairness

----------------------------------------------------------------------------
(* A program is started with the arguments, the input and the output that
   its command in the line says, and with no other descriptor: no end of a
   pipe stays open where nobody means to use it.  Of a line such as
   e > f | c it does not hold: the fork at the bar gives the right side what
   the left side has redirected its output to, so Lines has no such line.    *)
RunsWhatTheLineSays ==
    \A e \in Ids : pc[e] = "program" =>
        /\ env[e].argv = Arguments(env[e].stage)
        /\ fd[e] = [Empty EXCEPT ![0] = Input(env[e].stage), ![1] = Output(env[e].stage)]

(* Every line ends, whatever fails and whoever ends first: readers see the
   end of their pipe and no shell waits for one that waits for it.  Only a
   program that panics keeps it from ending, and a shell whose fork() finds
   no environment: it panics in fork(), before runcmd() can end it.        *)
Panics == \E e \in Ids : pc[e] = "panic"
LineEnds == pc[sh] = "wait line" ~> (pc[sh] = "prompt" \/ Panics)

(* When the shell prompts again nothing of the line is left but children
   whose stack spawn() could not set up, and its own descriptors are
   untouched.                                                              *)
Leftover == {e \in Ids \ {sh} : pc[e] # "free"}
NothingLeftBehind ==
    pc[sh] = "prompt" =>
        /\ \A e \in Leftover : pc[e] = "unborn"
        /\ Cardinality(Leftover) = stackFaults
        /\ fd[sh] = [Empty EXCEPT ![0] = Terminal, ![1] = Terminal]
=============================================================================
