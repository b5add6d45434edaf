# JOS in TLA+

Specifications, model-checking runs and proofs for the JOS operating system of
`src/Lab5/lab`: an exokernel-style teaching kernel with symmetric
multiprocessing, environments (processes), IPC, user-level copy-on-write fork,
pipes and a file server. `Lab1` to `Lab4` are snapshots of the same kernel
before the later parts were added, so everything here is about `Lab5/lab`; the
paths below are relative to it.

1. [The system](#the-system): inventory of the parts
2. [Modules](#modules): what models what
3. [Runs](#runs): what is checked, with which bounds and which fairness
4. [Proofs](#proofs)
5. [Disagreements](#disagreements-between-the-code-and-what-is-said-of-it)
6. [Not modelled](#not-modelled)
7. [Plan](#plan)

## The system

Several processors share one kernel. A processor runs an *environment* in user
mode until it traps; the trap handler takes the **big kernel lock** and holds it
until it goes back to user mode (`env_run`) or halts (`sched_halt`). Inside the
kernel there is therefore no concurrency, but *between* kernel entries
everything interleaves: the calls of other processors, user-mode code running
during a sequence of system calls, page table entries kept in TLBs. Nearly
everything a Unix kernel does is a *sequence* of small system calls made by a
user-level library (`lib/`), so that most hard behaviour is in interleavings of
such sequences.

| Part | State | Operations | Talks to | Correct means | Hard |
|---|---|---|---|---|---|
| Kernel lock (`kern/spinlock.c`) | `locked`, `cpu` | `spin_lock`, `spin_unlock`, `holding` | every trap | one holder; debugging checks never stop a rule-abiding CPU; a free lock is taken | plain loads racing with buffered stores |
| Environments, scheduler, traps (`kern/env.c`, `sched.c`, `trap.c`, part of `syscall.c`) | `envs[]` (status, id, parent, receive flag, page directory), `env_free_list`, `curenv` and mode per CPU | fork, set status, destroy, yield, IPC send and receive, faults, timer | lock, memory, all programs | one CPU per environment; statuses tell who runs; no slot reused under a CPU; blocked until told; ready runs | destruction of an environment that runs elsewhere, slot reuse, idle detection |
| Physical pages, address spaces (`kern/pmap.c`, memory calls of `syscall.c`, `env_free`) | `pages[]` counts, free list, page directories and tables, TLBs | `sys_page_alloc/map/unmap`, page transfer by IPC, `env_setup_vm`, `env_free` | environments, fork, pipes | exact counts, nothing leaked or freed in use, tables private, no stale translation | failing half way, remapping a page onto itself, TLBs of other CPUs |
| Copy-on-write fork (`lib/fork.c`, `pgfault.c`) | page permissions, position in `fork()` and in `pgfault()` | `fork`, `duppage`, `pgfault` | memory calls, scheduler | private memories; copies are current | forks on the stack that is being copied; several sharers fault at once |
| Pipes, descriptors (`lib/pipe.c`, `fd.c`, `pageref.c`) | who maps the three pages of a pipe, ring buffer | `pipe`, `close`, `dup`, `read`, `write`, `pipeisclosed` | fork, `env_runs` | "closed" is true; bytes in order; no early end of file; blocked calls end | two counts read one after the other |
| IPC library (`lib/ipc.c`) | none | `ipc_send` (retry), `ipc_recv` | scheduler | every request is answered | sender spins, dead receiver |
| File server (`fs/serv.c`) | open-file table, Fd pages | the request loop | clients by IPC with page transfer | a file id names the file it was opened for | clients that die, fork or never receive |
| File client (`lib/file.c`) | `fsipcbuf`, Fd pages | `open`, `read`, ... | file server | | shared request page after fork |
| File system (`fs/fs.c`), block cache (`fs/bc.c`) | bitmap, File structures, cached blocks with dirty bits | create, open, read, write, set size, flush | disk | blocks have one owner; what was flushed survives | crashes, full disk, indirect blocks |
| Boot of other CPUs (`kern/init.c`, `mpentry.S`) | `mpentry_kstack`, `cpu_status` | `boot_aps`, `mp_main` | lock, scheduler | each CPU its own stack | handshake over one variable |
| Console (`kern/console.c`, `lib/readline.c`) | keyboard flags, ring of 512 characters, screen, line | `kbd_intr`, `serial_intr`, `cons_getc`, `cga_putc`, `readline` | devices, monitor, shell | keys decoded as meant, characters in order, the screen shows the line | bytes of one key split between interrupts, full ring, the last row |
| spawn, shell (`lib/spawn.c`, `user/sh.c`) | child under construction, descriptors, what is left of the line | `spawn`, `runcmd`, `gettoken`, `wait` | files, pipes, fork | programs get what the line says, lines end, nothing leaked on failure | failures half way, an end of a pipe left open |
| C library, search for a stab (`lib/string.c`, `printfmt.c`, `args.c`, `kern/kdebug.c`) | none | `memmove`, `printnum`, `strtol`, `argnext`, `stab_binsearch` | everything | they compute what they should | overlap, boundaries |
| Boot loader, drivers, monitor, scripts | | | | | sequential |

`PROJECT.json` lists the parts with their status, and the hazards with the line
at which each bites and the properties that would catch it.

## Modules

```
AbstractLock <--- Spinlock
                     |  extended by
                  BootAps  ------ MCBootAps           LockProofs (of both)
                     |  (a kernel entry is one step)
                  KernEnv  ------ MCKernEnv           KernEnvProofs
                  PageMem  ------ MCPageMem           PageMemProofs
                  Console  ------ MCConsole           ConsoleProofs
                                  (with Library)
                     |  (a system call is one step)
PrivateMemory <-- CowFork  ------ MCCowFork           CowForkProofs
                  Pipe     ------ MCPipe              PipeProofs
OpenFiles <------ FsServer ------ MCFsServer          FsServerProofs
                     |  (a library call, or a request, is one step)
                  Shell    ------ MCShell             ShellProofs
FileStore <------ FsFile   ------ MCFsFile
                     |  extends
                  FsFormat ------ BlockCache
```

The modules form layers. `Spinlock` shows that the lock excludes, and `BootAps` that
the kernel takes it whenever it must; this is what allows `KernEnv`, `PageMem` and
`Console` to treat a kernel entry as one step. They treat calls as steps, which is what
`CowFork`, `Pipe` and `FsServer` build their sequences of. `Shell` takes a call on a
descriptor as one step, and `FsFile` a request, because the file server has one thread.
The four modules on the left say what a component promises; the module at the
arrow's end is checked to implement it, and for `AbstractLock`, `PrivateMemory` and
`OpenFiles` proved to. Each module on the right extends the component's module with its theorems.

**Spinlock** models `spin_lock`, `spin_unlock` and `holding`, one action per
access to `lk->locked` and `lk->cpu`. `DEBUG_SPINLOCK` is defined, so both
functions first run `holding()`, whose two plain loads race with the stores of
other CPUs. `sb[c]` is the store buffer of CPU `c` (only `lk->cpu` is written with
plain stores); `xchg` drains it. `pc` labels follow the functions: `lockTest`,
`lockTestCpu` (holding), `spin` (the `xchg` loop), `record` (`lk->cpu = thiscpu`),
`in`, `unlockTest`, `unlockTestCpu`, `clear` (`lk->cpu = 0`), `release`. It is checked under
its real callers, in `BootAps`.
**AbstractLock** is what the header promises: out, waiting, in.

**KernEnv** models the environment table and the processors. `status`, `gen`
(the generation in `env_id`), `parent`, `recving`, `pgdir` (is there a page
directory) and `freeList` are the fields of `envs[]`; `cur` and `mode` are `curenv`
and where the CPU is; `ctx` (whose registers are loaded) and `fresh` (forked, not
yet started) are history. An action is one trap from lock to `env_run` or
`sched_halt`, the scheduler at its end included: handlers compute the new statuses
and hand them to `TrapReturn`, `SchedYield`, `EnvRun`, `SchedHalt`, as the C functions
call each other. `EnvDestroy` has the four outcomes of `env_destroy` (zombie, freed
with a switch, freed with a return, panic on a slot freed before).
Callers make the calls in the order in which the library and the programs make them
(`LibSpec`): a parent starts a child once, and does not destroy it twice. What other
callers can do is under [Disagreements](#disagreements-between-the-code-and-what-is-said-of-it).

**PageMem** models `page_alloc`, `page_free`, `page_decref`, `page_insert`,
`page_remove`, `pgdir_walk`, the memory system calls, page transfer by
`sys_ipc_try_send`, `env_setup_vm`, `env_free`, and the TLB of every processor. Pages
of tables and directories are counted like all others, and an insertion that
finds no page for a table fails after the caller has allocated its page, as in
the code. `ref` is taken modulo `RefLimit` (`uint16_t`). The order of the free list
is abstracted: an allocation returns any free page. A receiver waits with an address below
`UTOP` or, when it wants no page, with `UTOP` itself (`lib/ipc.c` passes nothing else), and a page
that is sent to it all the same is entered there, in the page table of `UENVS` that every
directory shares (`uenvs`, `InsertShared`): the entry counts as a use, outlives the environments, and
gives up its page when the next one is sent. The page of `envs[]` that the first one replaces
was never allocated and is none of `Pages`. `RefsExact`, `FreeIffUnused` and `TablesPrivate` hold with it;
`TlbCoherent` is about addresses below `UTOP` and false at `UTOP`.

**CowFork** models `fork()`, `duppage()` and `pgfault()`, one action per system call or
memory access. A forking environment writes its stack between any two of its
calls, and that write may fault. `AllocTemp`, `Copy`, `MapCopy`, `UnmapTemp` are the
steps of `pgfault()`; `Look`, `MapChild`, `MapSelf` those of `duppage()`. A page's content
is one value. Pages and permissions are data, the exception stack (never
shared) is left out. **PrivateMemory** is what `fork()` promises a program: each
environment has its own memory, a child begins with a copy, only pages marked
`PTE_SHARE` are common. It leaves open which moment of the parent's *stack* a child
starts with, since `fork()` goes on using it.

**Pipe** models a pipe as the mappings of its three pages (`fd`: which struct Fd
each descriptor maps; `data`: whether it maps the struct Pipe) and the ring.
`close` and `dup` unmap and map one page at a time, `fork` copies page by page in
address order, `_pipeisclosed` samples `env_runs`, reads one count, then the other.
`moved[e]` says whether `env_runs` of `e` has changed since the sample; on one
processor every step of somebody else implies it.

**BootAps** is every processor from reset to the first traps, over `Spinlock`: the boot
processor takes the lock (`LockFirst`), for each other one sets `mpentry_kstack`
(`SetStack`), sends INIT and two STARTUP interrupts (`SendInit`, `SendStartup`) and spins on
`cpu_status` (`AwaitStarted`); the other one loads its stack in `mpentry.S` (`LoadStack`), runs
`mp_main` without the lock (`Started`) and then competes for it. `Trap`, `RunEnv` and
`SchedHalt` are the ways into the kernel and out of it. `trap()` calls `lock_kernel()` in two places:
when `cpu_status` says that the processor was halted (`Trap`), and when it comes from user mode
(`TrapFromUser`); neither call looks whether the processor has the lock, so that
`KeepsLockRules` would show a trap that makes both. `Dispatch` is what a system call does to
scheduling: another environment becomes runnable, or the caller stops.

**BlockCache**, **FsFormat**, **FsFile** are the file system. A server state is a record with the
cached blocks, their dirty bits, the disk and all disks there were since the request began
(`past`); the functions of `fs/bc.c` and `fs/fs.c` are functions on such records, and a request
of a client is one action that applies them. `Stop`, a crash inside a request, leaves one of the
disks of `past` and forgets the cache. `FsFormat` makes the image as `fs/fsformat.c` does; `Start` is
`fs_init` with `check_bc` and then `fs_test`, all of which write to the disk. A block holds
words (one word stands for four bytes), directory entries, or the bitmap. **FileStore** says what
clients are promised: files are sequences of words, a request changes one of them, what was
flushed survives a crash. It allows a file that grows to show its *own* old words: sizes are
kept in bytes, blocks are given back whole.

**FsServer** models the clients (`lib/file.c`, `lib/fd.c`), `lib/ipc.c` and the loop of
`fs/serv.c`, one action per system call or access to a shared page. `fdmap` says which page of
the server each client has mapped where, so that `pageref()` is the number of mappings;
`cow[c]` tells that `fsipcbuf` is copy-on-write after a fork. `Handle`, `Move`, `Alloc`, `NextEntry`
and `Reply` are the server: `serve_read` and `serve_write` take the offset in one step, and transfer
and move the offset in another. In `MoveFails` the transfer wants a block (only where nothing was
ever stored) and the disk is full: the error is returned, the offset stays, and of a write the new length and the words
before that block are in the file. **OpenFiles** promises what Unix does: descriptors stand
for open files, `fork` and `dup` share the offset, a transfer is at the offset and moves it, and one
that fails does not move it. Which blocks a file has is in `FsFile`.

**Console** models `kbd_proc_data` with its flags and the `E0` prefix, `cons_intr` with the ring,
`cons_getc` with its polls, `cga_putc` with the scroll, and `readline`. Keys are pressed and
released at any time; `SecondByte` is the second byte of a key that arrives later.

**Shell** models `user/sh.c` (`umain`, `runcmd`, `gettoken`) character by character of the line,
`lib/spawn.c` step by step with its failures, `wait`, `exit` and `close_all`, and `cat` and `echo`
as the programs. A `fork()` that finds no environment panics inside `lib/fork.c`, so that the
shell stays with both ends of its pipe. What a line means is stated independently of the parser (`Arguments`,
`Input`, `Output` of a stage).

**Library** holds functions without state as operators, each with its loop, and assumptions that
compare them with what they should compute over all inputs up to a bound; TLC evaluates
them with `MCConsole`.

## Runs

| Run | Instance | Shows |
|---|---|---|
| `boot` | 3 CPUs, one environment | exclusion and silent checks of the lock under its callers, every AP starts alone on its own stack, none is in the scheduler too early, the lock implements `AbstractLock` and is called by its rules, the boot ends |
| `kern_lib` | 2 CPUs, 3 slots, ids wrap after 2 generations | environments, processors and free list stay consistent; every ready environment runs |
| `pages` | 5 pages, 2 environments, 2 CPUs, 2 addresses in one table and `UTOP` | counts, free list, private tables, TLBs |
| `cow` | 3 environments, data + stack + shared page, 10 pages | copy-on-write implements private memory |
| `pipe_one_cpu` | 2 environments, 2 descriptors, ring of 1 byte, 2 bytes | "closed" is true, bytes in order |
| `pipe_live` | the same without `dup` and `pipeisclosed` | blocked calls end |
| `pipe_eof` | the same as `pipe_one_cpu`, nobody is killed | *violation*: `EofMeansDrained` |
| `fs_files` | 11 blocks of 3 words, 1 direct slot, 2 files, 1 crash | blocks have one owner, no file shows another's words, flushed data survives, the server starts again, files as in `FileStore` |
| `fs_server` | 2 clients, 2 descriptors, 2 entries of `opentab`, 1 file | open files as in `OpenFiles`, entries are not given out early, panics only the two known ones, every waiting client is answered |
| `fs_write` | the same, with a buffer of two requests | *violation*: `WritesTheBuffer` |
| `console` | 7 kinds of keys, ring of 3, line of 2, screen of 2 rows of 2, 5 events | keys as meant, newest characters in order, line on the screen |
| `shell` | 9 lines, 5 environments at a time, one failure in `spawn` | programs get what the line says, every line ends, nothing is left behind |

Why the bounds suffice.

- `boot`: three CPUs give a holder, a spinner and a third whose stale store is still
  buffered, and two processors that are started one after the other over one variable. One
  environment leaves processors that must halt, and environments made runnable later wake them;
  no more wait at a time than there were at boot (`NEnv`).
- `kern_lib`: two CPUs and three slots give a parent, a child that runs elsewhere while it is
  destroyed, and a slot to reuse; with two generations an id comes round again.
- `pages`: five pages are two directories, two tables and one page of data, or one directory
  and its table with data to share or to leave at `UTOP`: the allocator runs out in every call, with
  the page allocated and none left for its table too. A symmetry identifies states that differ
  only in the numbers of pages.
- `cow`: three environments let a page that is copy-on-write in two be forked to a third while
  the others fault; ten pages are as many as they can use at once. The stack's content is
  constant, since `WritableIsAlone` sees already that nobody else maps it.
- `pipe_*`: the ring holds one byte, so it is full and empty at every turn.
- `fs_files`: of the eleven blocks three are reserved, and the image, the directory and two
  files with an indirect block take the rest, so that allocation fails in the middle of
  requests. One direct slot makes every file of two blocks use its indirect block. One crash can come
  after any disk write of any request, of the start and of the self-test.
- `fs_server`: two entries of `opentab` are used, freed and used again by two clients with two
  descriptors each; a third open finds the table full. At most three `open`, `write` and `dup`
  calls in a behaviour. Any transfer into a gap may fail; requests are of one word, so that a write that
  fails in the run has set the new length and stored none (the proofs are for any number of words).
- `console`: a ring of three overruns, a line of two is full, a screen of two rows scrolls.
- `shell`: pipelines of two to four commands, both redirections, a missing program, a syntax
  error and too many arguments. With three commands the table of environments is full for `spawn()` in some
  interleavings, with four also for `fork()` at a bar.

Deadlock is switched off where the system may stop: environments exit or are all blocked, a
CPU in the kernel monitor keeps the lock for ever, a panicked server stops. It is checked in `boot`.

Fairness:

- `boot`: every processor goes on executing instructions, STARTUP interrupts arrive and store
  buffers drain. Nothing is assumed about which spinner gets the lock, and nothing
  makes an environment trap.
- `kern_lib`: the timer of every CPU fires again and again, in user mode (`FL_IF` is set in
  every environment's flags, `kern/env.c`) and in `hlt` (`sti` in `sched_halt`), and the
  interrupted CPU gets the lock. That is weak fairness of `Yield` and of the kernel's own
  entries. No program is assumed to call anything.
- `pipe_live`: the scheduler comes back to every runnable environment (weak fairness of
  the steps of a call), and a check that is tried again and again is not interrupted each
  time (strong fairness of its undisturbed steps: a time slice is far longer than three
  loads).
- `fs_server`: the server and the clients that wait for it are scheduled (weak fairness of `Serve`,
  and of `Wait` and `Return`). A client need not make another call.
- `shell`: every environment that can run does (weak fairness of its steps); nobody has to type a line.

The round robin of `kern_lib` justifies weak fairness of each environment's steps in the modules
that take it for granted, as long as environments are not created and freed for ever.

Definitions that begin with "Mutant" in their comment are slips a programmer could make (a
dropped guard, a swapped order). Each property is known to fail when its mutant takes the
place of the code's definition. MC modules only give values to constants, symmetry and a view.

## Proofs

TLC checks small instances; what follows holds for all values of the constants, from
the assumptions named in the modules, by `tlapm`. The assumptions say that sizes are positive,
that sets of processors, environments, pages, addresses, clients and descriptors that are counted
are finite, that the first environment and the boot processor exist, that lines are sequences of
characters, and that null values are none of the values; TLC evaluates them in every run.

A theorem in the table states the property a run checks, unless it is about types.

| Module | Theorems |
|---|---|
| LockProofs, the lock | `TypeCorrect`, `Exclusion` (`MutualExclusion`), `Silence` (`NoFalseAlarm`), `IsALock` (`Spec => Abstract!Spec`) |
| LockProofs, the kernel | `BootTypeCorrect`, `LockRulesKept` (`KeepsLockRules`), `KernelExclusion` (`MutualExclusion`, `NoFalseAlarm`), `ApsStartAlone` (`StartsAlone`), `NobodyTooEarly` (`NoneTooEarly`) |
| KernEnvProofs | `TypeCorrect`, `OneCpu`, `StatusesAgree`, `NotFreedWhileRunning`, `FreeListCorrect`, `BlockedUntilTold`, `KernelStaysUp` |
| PageMemProofs | `NoStaleTranslation` (`TlbCoherent`), `CountsExact` (`RefsExact`), `FreeListExact` (`FreeIffUnused`), `TablesAlone` (`TablesPrivate`), `NoWrap`, `TypeCorrect` |
| ConsoleProofs | `KeysAreDecoded` (`KeysDecoded`), `RingHoldsTheNewest` (`RingIsNewest`), `LineStaysOnScreen` (`LineOnScreen`) |
| CowForkProofs | `TypeCorrect`, `WriterIsAlone` (`WritableIsAlone`), `CopyStaysCurrent` (`CopyIsCurrent`), `ForkCopiesMemory` (`ImplementsPrivateMemory`) |
| PipeProofs | `TypeCorrect`, `ReaderGetsTheBytes` (`BytesInOrder`), `ClosedMeansClosed`, `ClosedMeansClosedForTwo` (`ClosedIsTrue`) |
| FsServerProofs | `TypeCorrect`, `DescriptorsStayOpen` (`OpenStaysOpen`), `PanicsHaveACause` (`PanicsExplained`), `OpenFilesImplemented` (`ImplementsOpenFiles`) |
| ShellProofs | `LineLeavesNothing` (`NothingLeftBehind`), `NoEndLeftOpen`, `RunsTheLine` (`RunsWhatTheLineSays`) |

**LockProofs, the lock**, for any number of CPUs and buffered stores of any delay. Exclusion needs
`IExclusion`: exactly the CPU whose `xchg` took the lock is between its two `xchg`s, and the
lock word is 1 as long as there is one. Silence needs to know what is in memory and in the
buffers as well: `IBuffer` lists, for each place in the code, the stores a CPU may have
buffered and what it must find in `lk->cpu`, so that a load never returns a CPU's own name
unless it holds the lock, and always does when it does (`ISilent`). `IsALock` is the safety part
of the refinement: every access to `lk->locked` and `lk->cpu` is a step of `AbstractLock` or
changes nothing there.

**LockProofs, the kernel.** `Spinlock`'s theorems are about callers that obey the lock's rules, and these are the
callers. The boot and the lock need each other: that the other processors wait for the lock until
there are environments follows from the lock excluding, and that it excludes from the kernel
calling it by its rules. So one step lemma carries the invariants of both: `IInv` of
the lock, and `BInv`, which says for every place in the kernel's code where the processor
can be in the lock's (`LockPlace`), and where the loop of `boot_aps()` is, seen from the boot
processor (`BootLoop`) and from each of the others (`ApPlace`). `LockRulesKept` makes every theorem
about the lock one about the kernel; `KernelExclusion` states the two that matter.

**KernEnvProofs**, for any number of processors, slots and generations. None of the properties is
inductive alone. The inductive invariant `IInv`
is their conjunction with three facts about the table: `curenv` is set exactly in user mode
(`CurMatchesMode`, up to the monitor), an environment has a page directory exactly while
its slot is not free (`PgdirMatches`: otherwise `env_free` or `env_run` meets a null pointer), and an
environment under construction cannot be waiting for a message (`FreshDoNotReceive`: otherwise a
send would start it). `RecvBlocks` is needed for `OneCpuPerEnv`: a send to an environment that is
not blocked would make a running one runnable.
Every handler changes the table and then calls the scheduler with the new statuses, so the
proof is split at that call, as the code is: a lemma per handler shows that it hands over a
sound table (`TableOK`) and statuses that agree with the *other* processors (`SchedPre`); a
lemma for each of `EnvRun`, `SchedHalt`, `SchedYield` and `TrapReturn` shows that it turns these into
`SchedPost`, from which the invariant follows.

**PageMemProofs.** `NoStaleTranslation` needs no counts: an environment runs on one processor, and
only once it is started, so that nobody runs an address space a call changes but the caller, whose
TLB is emptied on the way out; the exception is the shared entry at `UTOP`, which it leaves out. The other three are one invariant on counts: `Sound(m, D, x, y)` says what
holds of the allocator and the tables in the *middle* of a kernel function, when page `x` has been
counted for a pointer still to be written and page `y` is off the free list and counted by nobody.
Each function of `kern/pmap.c` has a lemma that leads from `Sound` to `Sound`, its failures
included, and the system calls compose these as the code does; remapping a page onto itself is the
case where `x` is both counted and about to lose a user. `pp_ref` is a `uint16_t`, taken modulo
`RefLimit`, and an environment can map a page at more than 2^16 addresses: the counts *do* wrap in the
code. The theorems therefore read `Spec /\ []FewUses => []RefsExact`, where `FewUses` says that no page
has `RefLimit` users; `NoWrap` discharges the condition for machines with fewer places to map a page
at (as in the run `pages`: 10 against 16), and so says that the width of the counter is all that is
missing.

**ConsoleProofs**, for any ring, line and screen, and any number of events. What an interrupt, a poll or a
line does is a fold over bytes or characters. `FoldExists` shows, from the least set on which it would fail, that
the function which defines a fold exists; with it each fold of the module is a loop that goes from one
element to the next (`DecodeByteLoop`, `KeepRealLoop`, `StashLoop`, `CgaPutcLoop`), and `Loop` is what holds after
every pass. `KeysDecoded` is inductive as it stands once the byte that follows an E0 (`half`) counts as sent;
what is left to show is that taking the bytes at any point splits nothing (`BytesTaken`) and that the scan code
tables agree with what the keys mean (`PressDecoded`, `ReleaseDecoded`). `RingIsNewest` follows from `RingHolds`: the last
`CONSBUFSIZE` characters fed are at their positions modulo the size, `wpos` is the number fed and `rpos` the number taken,
modulo the size. It says nothing of how many are pending, as `cons_intr()` does not look at `rpos`. `LineOnScreen`
needs that every operation leaves blanks from the cursor on (`PutcClean`; a carriage return would not, and
nothing here shows one) and that the line has none of the characters that move the cursor (`Lines`). Its assumption
is that the line fits the rows a scroll leaves, which a `BUFLEN` of 1024 does on a screen of 25 rows of 80.

**CowForkProofs.** `WritableIsAlone` is not inductive: it needs that a page is mapped at one address
only (`OneAddress`), that the kind of an address decides its permissions (`MappingOK`), that the page at
`PFTEMP` is nobody else's until it is mapped (`FaultOK`, `OwnTemp`), and how far each `fork()` is and that
what the child has, but for the stack, is still its parent's (`ForkOK`). In the middle of `duppage()` the parent
may still write what the child has as copy-on-write: `HalfDuplicated` is that exception. `ForkCopiesMemory` takes the
steps one by one: a write is seen by its writer alone because the page is alone; `MapCopy` is
invisible because the copy is current; the child's memory appears when it is started.

**PipeProofs.** The bytes between `p_rpos` and `p_wpos` are in the buffer at their positions modulo
`PIPEBUFSIZ` (`InBuffer`). A writer tests for room two accesses before it stores, and the reader's test
precedes its load in the same way; `Midway` keeps what the test found, which holds since each position
only moves forward and has one mover. A byte is taken before `p_rpos` says so, and the reader may be
killed in between (`Taken`). `SlotsDiffer` is the arithmetic of the ring: two positions less than its
size apart have different remainders.
`_pipeisclosed` compares two numbers and concludes that a third is zero. That is right when every
descriptor of an end has its data page, for then equal counts leave no data page to the other end
(`EqualCounts`). `close()` and `dup()` keep it so by the order of their two steps, in which there may be a data page without
a struct Fd but never the reverse (`MidOK`, `Covered`); a child being copied does have descriptors without
data pages, until its parent has been through all addresses (`ForkOK`). The counts are read one after the other: `CheckOK` says what the
first still means at the second as long as `env_runs` has not changed, which on one processor
excludes a step of anybody else, and `NoNewEnd` that a descriptor of an end nobody has never appears again.
`ClosedMeansClosed` has the hypothesis that nobody is in the middle of a check while a child is half
copied (`ForksAlone`), for any number of environments; with three of them the code does break the
property there. `ClosedMeansClosedForTwo` discharges it for two environments, the run's instance:
the only one that could look is then busy with `fork()`.

**FsServerProofs.** The server reads off reference counts, which the clients change while it looks,
whether an entry is free and whether a client is known. This works because nobody but the server can
*begin* to map an entry that nobody has, and because each entry gives out ids of its own (`Ids`);
and a client in `fsipc()` keeps the descriptor it asks about (`RequestsOK`), so that what was right when it asked
is right when the server looks. Only death interferes, and then there is nobody to answer (`Asked`). `ViewInv`
adds what the refinement needs: the page in an answer to `open()` is new and nobody's, the offset the server
has read is still the one on the page, free environments have no descriptors. `OpenFilesImplemented` has
the hypothesis `RacySeek = FALSE`, under which the run `fs_server` checks it; `StoredIsPut`, `StoredPartIsBroken` and
`FoundIsGet` compare the server's transfers, whole and broken off, with those of `OpenFiles` for files and buffers of any length.

**ShellProofs**, for any lines, numbers of environments and failures. Nobody counts the environments of a
line: each is waited for by one other (`Waited`), one that ends has waited for its own (`EnvOK`), and a
stage further on is only ever made from the one before. Ids come in the order of birth and are not
given out again before the next line, so that following those who wait from any environment
alive leads to the shell that reads the lines, which does not wait when it prompts (`NothingAlive`).
The exception is `spawn()`, which forgets a child whose stack it could not set up: `Abandoned` are
the children no shell is making, and there are as many as such failures. The hypothesis `NoEmptyLeft`
says that a word stands before each bar; without it the left side of a pipeline returns at once and the
shell prompts while the right side runs (the line `|c` below). It holds in the run `shell`.
`NoEndLeftOpen` is the part of `RunsWhatTheLineSays` that needs no parsing: a program of stage `k` is started
with an input (the terminal, a file, or the end of pipe `k - 1` to read from), an output (the
terminal, a file, or the end of pipe `k` to write to) and nothing else open, and a shell that
waits, or has ended, has nothing open at all. An environment that panics keeps what it has (`Stopped`). `FdInv` says of every table what it holds by the place of its
owner (`TableOK`): at `fork` the two ends of a fresh pipe; during the calls that follow a fork the ends that the
calls still to be made will close (`RightTodo`, `LeftTodo`); during `close_all()` only descriptors that a call
still to be made closes (`ClosesAll`, for which `ClosingAll` ranks the open descriptors); at
`start` the child's table equals the parent's. TLC finds `FdInv` an invariant of the run's
instance, with lines of redirections on both sides of a bar added. `FdsAssumption`: there are at least four
descriptors (`MAXFD` is 32).
`RunsTheLine` adds what the line says. The parser goes from left to right, one token ahead, and hands the rest to
another process at each bar; the reference (`Arguments`, `Input`, `Output`) looks at the line as a whole: where words
begin, and which character stands before one. `LineInv` joins the two. At `parse`, `ReadTo` says that stage `k` begins
behind some bar, that what lies between it and place `s` is read, and that the arguments, the input and the output so
far are those of that part of the text; `Scanned` says that `ahead` is the token at `s`. Reading on makes the part
longer, by a word (`WordRead`) or by a symbol and its target (`TargetRead`), each with the blanks behind it. The
lemmas under them are about texts that grow where no word is cut (`Grows`): words and what stands before
them stay, so that only the new word changes the reference, and a new argument has the highest rank (`RankGrows`,
`OneArgument`). At a bar or at the end the part is the text of the command (`TextAt`). From `fork` on `LineInv` follows
the three pieces through the calls after the fork, `spawn()` and its child (`KidLike`). The second
hypothesis, `OwnOutput`, excludes what is false of the code (`e > f | c` below): the last command, if there is
such a program, has a `>` or no command before it has one. TLC finds `LineInv` and both
hypotheses invariant in the run's instance. `LinesAssumption`: lines are sequences of characters.

For the proofs some definitions were put in another form, without another meaning: the operators `Console` folds have
names, `Stash` is a record, `typed` is history (what of the ring's characters came from keys); client records of `FsServer`
have all fields at all times, the descriptor `open()` takes is bound by a quantifier instead of `CHOOSE`, and
the places in `fork()`, `pgfault()` and the pipe calls are named sets of records. One definition was wrong:
a `fork()` of `Pipe` could go on with the child of another, which two environments do not show; the call
now records its child (`kid`).

Only model-checked:

- liveness (`ReadyRuns`, `BlockedCallsEnd`, `Answered`, `LineEnds`, `BootEnds`, with the fairness of `AbstractLock`),
  which is out of the prover's reach;
- `FsFile` (`SlotsNameOwnBlocks`, `OnlyOwnWords`, `FlushedIsOnDisk`, `NeverReadsFree`, `StartsAfterCrash`) with
  `FileStore`, and `Library`: requests and formatted numbers are
  recursive functions over data, for which the installed provers have no induction. What they need would be got
  like the folds of `Console`, one loop lemma for each function.

## Disagreements between the code and what is said of it

Two are runs that end in a violation; `PROJECT.json` has the quotations.

- `pipe_eof`: between the reader's test for bytes and its test for writers the last writer
  writes and closes; the read returns 0 and the bytes are lost.
- `fs_write`: `devfile_write` sends a long buffer in parts and takes each from the beginning of
  the buffer.

Others were met while modelling. Constants, assumptions or the callers a module admits keep
them out of the runs that pass, so that these show the rest of the system correct:

- `sys_env_set_status` stores `ENV_RUNNABLE` over `ENV_RUNNING`, and the next scan on another CPU runs
  the environment a second time; `kern/sched.c` says "Never choose an environment that's
  currently running on another CPU". A second `sys_env_destroy` finds `ENV_DYING`, not
  `ENV_RUNNING`, and frees the environment another CPU is in. `KernEnv` has callers that make
  neither call (as `lib/` and `user/` do).
- `sys_ipc_try_send` enters a page at the receiver's `env_ipc_dstva` without a look at it
  (`kern/syscall.c:439`); the comment above it (`:379-380`) says "If the sender wants to send a page
  but the receiver isn't asking for one, then no page mapping is transferred". Such a receiver passes
  `UTOP` (`lib/ipc.c:28`), which is `UENVS`: the page takes the place of the first page of `envs[]` in
  the table all address spaces share, every environment reads its `thisenv` from it, other processors are
  not told, and the count of the page of `envs[]`, which is not valid (`inc/memlayout.h:184-185`), goes from
  0 to 65535. `PageMem` has this step (`SysIpcSendPage` at `UTOP`); the counts of allocated pages stay
  exact, and what user code then reads at `UENVS` is not modelled. Nothing in `lib/`, `user/` and `fs/`
  sends a page to who wants none, and the other modules rely on that.
- `tlb_invalidate` acts on the TLB of this processor and only for the current page tables: a
  mapping of a child that runs elsewhere stays cached there. In `PageMem` parents change the
  memory of children that do not run.
- `fork()` maps the struct Fd of a descriptor long before its data page. A third environment that
  compares the counts in between concludes that the pipe is closed. The pipe runs have two
  environments; with several processors `env_runs` does not tell of a step elsewhere, and the same
  happens with two.
- `fs/fs.c:184` indexes the indirect block with the number of the block in the file, while
  `fs/fsformat.c` (and the comment above the function) count from the first slot of the indirect block.
  The image of `fs_files` has no file with an indirect block filled by `fsformat`, and files stay below
  the size at which the last slots are out of the block.
- `fs/fs.c:460` clears slots of an indirect block without flushing it. After a crash the disk names
  blocks that may have been given to others. `AnyCrash = FALSE` excludes a crash in this window.
- The offset of an open file moves after the transfer, on a page clients can write: a `seek`
  in between is lost. `RacySeek = FALSE` excludes it.
- `lib/file.c:28`: whatever message comes first is taken for the server's reply. `FsServer` has
  no other senders.
- `user/sh.c:93-96` wants to end the shell when `fork()` at a bar fails, but `lib/fork.c:150-151` panics
  when `sys_exofork` fails, so that these lines are never reached: the shell stays for ever with both ends of the
  pipe open, the line never ends and no prompt comes again. `Shell.Fork` does what the code does; `LineEnds`
  excepts a line on which somebody panics.
- Of `e > f | c` the output of `c` goes to `f`: `runcmd` has made `f` its descriptor 1 when it forks at the
  bar, and only the left side replaces it (`user/sh.c:81`, `:93`). `RunsWhatTheLineSays` is false of such
  a line; in the lines of the run a command behind a redirected one has a `>` of its own, or does
  not exist.
- The shell prompts again after `|c` before `c` has ended, since a line that begins with a bar has an empty
  left side; a command of `MAXARGS` words, which the test admits, sets `argv[MAXARGS]` outside the array
  (`user/sh.c:144`); a token of `&`, `;`, `(` or `)` panics. The lines of
  the run have none of these.
- `stab_binsearch` leaves no `left > right` when there are stabs of the type but all lie above the address,
  as the comment in `kern/kdebug.c` has it; and after an exact match it goes on with
  `addr + 1`, so that a stab one byte further is taken for the match. The assumption in `Library` states
  what it does answer, for stabs that are not one byte apart.
- `%-5d` is commented "flag to pad on the right", but `printnum` pads on the left, with `-`.

Hazards of `PROJECT.json` without a property: `pp_ref` has 16 bits and its wrap takes 65536
mappings (`FewUses` in `PageMemProofs` is where the proofs need that it does not); the positions of a pipe are
signed and wrap after 2^31 bytes; a status a parent may set at any time (`kern/syscall.c:138`, the first of
the list above). In the runs the counters stay far from these bounds.

## Not modelled

In the modelled parts: register contents and the exception stack frame (`lib/pfentry.S`
returns to the trap-time stack without the kernel), boot-time set-up of `kern/pmap.c`,
`user_mem_check` (a pure test), the error paths of `pipe()` (sequential), paths of more than one
element and paths or names that are too long (nothing makes a directory), requests with unknown codes, the bytes of
segments and stacks in `spawn`, key tables beyond seven kinds of keys, colours and the serial and
parallel output.

Not at all: interrupt controllers, clock and the parser of the multiprocessor tables (registers
programmed once at boot), boot assembly and boot loader, the monitor's commands, the test
programs but `cat` and `echo`, build and grading scripts.

`Lab1` to `Lab4` are two thirds of the repository's C: the same files before the later parts were
added. Definitions are mapped to the complete system in `Lab5/lab` only, so that the lines they cover
are a tenth of all lines in the repository, and a fourth of those of `Lab5/lab`; much of
the rest there is tables (`kern/entrypgdir.c`, key maps), headers of constants, user test
programs and formatted output.

## Plan

Proofs to come: `FsFile`: `SlotsNameOwnBlocks` and `NeverReadsFree`, first for the functions of `fs/fs.c` that do not
loop over blocks, then for those that do.
