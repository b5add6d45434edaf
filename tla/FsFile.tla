------------------------------- MODULE FsFile -------------------------------
(***************************************************************************)
(* The file system of the file server (fs/fs.c), its self test             *)
(* (fs/test.c) and the requests of fs/serv.c that change the disk, over    *)
(* the block cache of BlockCache and a disk made by FsFormat.              *)
(*                                                                         *)
(* The server has one thread and answers one request at a time, so a       *)
(* request is one action.  The machine may stop at any time: a request can *)
(* end in a crash that leaves the disk as it was after any of the writes   *)
(* the request made, and everything cached is gone.                        *)
(*                                                                         *)
(* A pointer to a struct File is <<block, index>>.  There is one directory,*)
(* the root: neither the server nor fsformat ever makes another.           *)
(***************************************************************************)
EXTENDS FsFormat

CONSTANTS Names,        \* the files clients use
          Motd,         \* /newmotd, which fs_test() wants
          OwnWords,     \* OwnWords[n]: the words clients write into n
          OnDisk,       \* the files given to fsformat, records of name and words
          Writes,       \* Writes[n]: the <<offset, count>> clients write
          Sizes,        \* Sizes[n]: the sizes they set
          MaxCrashes,   \* bound on the crashes of a behaviour
          AnyCrash,     \* FALSE: no crash while IndirectStale
          Absent, Unknown

VARIABLES mem, dirty, disk,   \* as in BlockCache
          status,             \* "down", "up", or the panic the server died of
          interrupted,        \* history: the latest start ended in a crash
          crashes,
          content, flushed,   \* history, as in FileStore: content is what
                              \* mem and disk say, computed once
          last                \* the latest request and its answer

store == <<mem, dirty, disk>>
vars == <<mem, dirty, disk, status, interrupted, crashes, content, flushed, last>>

Inval == -2
NotFound == -3
Exists == -4

Root == <<SuperBlock, 0>>

FileAt(s, f) == FilesOf(s.mem[f[1]])[f[2]]

\* A store into the struct File at f, whose block is cached.
WithFile(c, f, file) == IF f[1] = SuperBlock THEN [c EXCEPT !.files[f[2]] = file]
                        ELSE [files |-> [FilesOf(c) EXCEPT ![f[2]] = file]]
SetFile(s, f, file) == Put(s, f[1], WithFile(s.mem[f[1]], f, file))

With(value, Rest(_)) == Rest(value)

\* if ((r = call) < 0) return r;
OrReturn(call, Rest(_)) == IF call.r < 0 THEN [s |-> call.s, r |-> call.r] ELSE Rest(call)

------------------------------------------------------------------------------
(* file_block_walk, file_get_block.  A slot is <<0, i>> for f_direct[i] and *)
(* <<block, i>> for word i of a block.                                     *)

\* The code adds filebno, not filebno - NDIRECT, to the address of the block.
IndirectSlot(indirect, bno) == <<indirect + bno \div BLKSIZE, bno % BLKSIZE>>

\* A block for a file: cleared in the cache and on the disk.
NewBlock(s) == OrReturn(AllocBlock(s), LAMBDA a : [s |-> ClearBlock(a.s, a.r), r |-> a.r])

Found(s, slot) == [s |-> s, r |-> 0, slot |-> slot]

\* The struct File at f is in a cached block.
WalkFrom(s, f, bno, alloc) ==
    LET indirect == FileAt(s, f).indirect
    IN  IF bno >= MAXBLOCKS THEN [s |-> s, r |-> Inval]
        ELSE IF bno < NDIRECT THEN Found(s, <<0, bno>>)
        ELSE IF indirect # 0 THEN Found(s, IndirectSlot(indirect, bno))
        ELSE IF ~alloc THEN [s |-> s, r |-> NotFound]
        ELSE OrReturn(NewBlock(s), LAMBDA new :
                Found(SetFile(new.s, f, [FileAt(new.s, f) EXCEPT !.indirect = new.r]),
                      IndirectSlot(new.r, bno)))

\* The caller reads the slot it is given, so its block is cached too.
Walk(s, f, bno, alloc) ==
    OrReturn(WalkFrom(Load(s, f[1]), f, bno, alloc), LAMBDA w :
       [w EXCEPT !.s = IF w.slot[1] = 0 THEN @ ELSE Load(@, w.slot[1])])

\* *ppdiskbno, read and written.
SlotValue(s, f, slot) == IF slot[1] = 0 THEN FileAt(s, f).direct[slot[2]]
                         ELSE Words(s.mem[slot[1]])[slot[2]]
SetSlot(s, f, slot, b) ==
    IF slot[1] = 0 THEN SetFile(s, f, [FileAt(s, f) EXCEPT !.direct[slot[2]] = b])
    ELSE Put(s, slot[1], [words |-> [Words(s.mem[slot[1]]) EXCEPT ![slot[2]] = b]])

\* A hole gets its block here, for a read as well as for a write; the block is
\* cached for the caller, who uses it at once.
GetBlock(s, f, bno) ==
    OrReturn(Walk(s, f, bno, TRUE), LAMBDA w :
       IF SlotValue(w.s, f, w.slot) # 0
       THEN With(SlotValue(w.s, f, w.slot), LAMBDA b : [s |-> Load(w.s, b), r |-> b])
       ELSE OrReturn(NewBlock(w.s), LAMBDA new :
               [s |-> SetSlot(new.s, f, w.slot, new.r), r |-> new.r]))

------------------------------------------------------------------------------
(* file_set_size, file_read, file_write, file_flush *)

\* Mutant: the slot keeps the number of the block that was given back.
KeepSlot(s, f, slot) == s

ClearSlot(s, f, slot) == SetSlot(s, f, slot, 0)

FreeSlot(s, f, slot) ==
    IF SlotValue(s, f, slot) = 0 THEN s
    ELSE ClearSlot(FreeBlock(s, SlotValue(s, f, slot)), f, slot)

FreeFileBlock(s, f, bno) ==
    With(Walk(s, f, bno, FALSE), LAMBDA w :
       IF w.r < 0 THEN w.s ELSE FreeSlot(w.s, f, w.slot))

DropIndirect(s, f) ==
    SetFile(FreeBlock(s, FileAt(s, f).indirect), f, [FileAt(s, f) EXCEPT !.indirect = 0])

TruncateBlocks(s, f, size) ==
    With(Loop(LAMBDA u, bno : FreeFileBlock(u, f, bno), s,
              BlocksFor(size), BlocksFor(FileAt(s, f).size)),
         LAMBDA t : IF BlocksFor(size) <= NDIRECT /\ FileAt(t, f).indirect # 0
                    THEN DropIndirect(t, f) ELSE t)

SizeSet(s, f, size) == SetFile(s, f, [FileAt(s, f) EXCEPT !.size = size])

\* The struct File at f is in a cached block.
Resize(s, f, size) ==
    SizeSet(IF FileAt(s, f).size > size THEN TruncateBlocks(s, f, size) ELSE s, f, size)

SetSize(s, f, size) == FlushBlock(Resize(s, f, size), f[1])

\* The part of block bno among the n words from off on.
Part(block, bno, off, n) ==
    LET from == IF off > bno * BLKSIZE THEN off ELSE bno * BLKSIZE
        to == IF off + n < (bno + 1) * BLKSIZE THEN off + n ELSE (bno + 1) * BLKSIZE
    IN  [k \in 1 .. to - from |-> Words(block)[from + k - 1 - bno * BLKSIZE]]

\* The answer r is the number of words read, and words holds them.
ReadLoop(s, f, n, off) ==
    Loop(LAMBDA acc, bno :
            IF acc.r < 0 THEN acc
            ELSE With(GetBlock(acc.s, f, bno), LAMBDA g :
                    IF g.r < 0 THEN [s |-> g.s, r |-> g.r, words |-> << >>]
                    ELSE [s |-> g.s, r |-> n,
                          words |-> acc.words \o Part(g.s.mem[g.r], bno, off, n)]),
         [s |-> s, r |-> n, words |-> << >>],
         off \div BLKSIZE, IF n = 0 THEN 0 ELSE BlocksFor(off + n))

FileRead(s, f, count, off) ==
    LET left == IF off >= FileAt(s, f).size THEN 0 ELSE FileAt(s, f).size - off
    IN  ReadLoop(s, f, IF count < left THEN count ELSE left, off)

\* Mutant: the first block is written from its start.
OverlayFromStart(old, bno, words, off) ==
    [i \in 0 .. BLKSIZE - 1 |->
       LET k == bno * BLKSIZE + i - (off \div BLKSIZE) * BLKSIZE + 1
       IN  IF k \in DOMAIN words THEN words[k] ELSE old[i]]

\* Block bno of a file once its part of words, which go to off, is in it.
Overlay(old, bno, words, off) ==
    [i \in 0 .. BLKSIZE - 1 |->
       LET k == bno * BLKSIZE + i - off + 1
       IN  IF k \in DOMAIN words THEN words[k] ELSE old[i]]

WriteLoop(s, f, words, off) ==
    Loop(LAMBDA acc, bno :
            OrReturn(acc, LAMBDA ok :
               OrReturn(GetBlock(ok.s, f, bno), LAMBDA g :
                  [s |-> Put(g.s, g.r, [words |->
                            Overlay(Words(g.s.mem[g.r]), bno, words, off)]),
                   r |-> Len(words)])),
         [s |-> s, r |-> Len(words)], off \div BLKSIZE, BlocksFor(off + Len(words)))

FileWrite(s, f, words, off) ==
    WriteLoop(IF off + Len(words) > FileAt(s, f).size THEN SetSize(s, f, off + Len(words)) ELSE s,
              f, words, off)

\* The data blocks that are there, then the block of the struct File.
FlushData(s, f, bno) ==
    With(Walk(s, f, bno, FALSE), LAMBDA w :
       IF w.r < 0 THEN w.s ELSE FlushBlock(w.s, SlotValue(w.s, f, w.slot)))
FlushBlocks(s, f) ==
    FlushBlock(Loop(LAMBDA u, bno : FlushData(u, f, bno), s, 0, BlocksFor(FileAt(s, f).size)), f[1])

\* Mutant: the indirect block is forgotten.
FlushNoIndirect(s, f) == FlushBlocks(s, f)

FileFlush(s, f) == With(FlushBlocks(s, f), LAMBDA t : FlushBlock(t, FileAt(t, f).indirect))

------------------------------------------------------------------------------
(* dir_lookup, dir_alloc_file, file_create, file_open: the entry called name *)
(* in the root, as [s, r, f]                                                *)

Hits(s, b, name) == {j \in 0 .. BLKFILES - 1 : FilesOf(s.mem[b])[j].name = name}

FindEntry(s, name) ==
    Loop(LAMBDA acc, bno :
            IF acc.r # NotFound THEN acc
            ELSE OrReturn(GetBlock(acc.s, Root, bno), LAMBDA g :
                    IF Hits(g.s, g.r, name) = {} THEN [s |-> g.s, r |-> NotFound]
                    ELSE [s |-> g.s, r |-> 0, f |-> <<g.r, Lowest(Hits(g.s, g.r, name))>>]),
         [s |-> s, r |-> NotFound], 0, FileAt(s, Root).size \div BLKSIZE)

\* walk_path() with one element: dir_lookup() in the root.
FileOpen(s, name) == FindEntry(s, name)

\* The directory is made longer before there is a block for it.
GrowDir(s) ==
    LET size == FileAt(s, Root).size
    IN  OrReturn(GetBlock(SizeSet(s, Root, size + BLKSIZE), Root, size \div BLKSIZE),
                 LAMBDA g : [s |-> g.s, r |-> 0, f |-> <<g.r, 0>>])

DirAllocFile(s) == With(FindEntry(s, NoName), LAMBDA free :
                      IF free.r # NotFound THEN free ELSE GrowDir(free.s))

\* The new entry; its other fields are as the directory block had them.
AddEntry(s, name) ==
    OrReturn(DirAllocFile(s), LAMBDA new :
       [s |-> SetFile(new.s, new.f, [FileAt(new.s, new.f) EXCEPT !.name = name]), r |-> 0])

NewEntry(s, name) == OrReturn(AddEntry(s, name), LAMBDA new :
                        [s |-> FileFlush(new.s, Root), r |-> 0])

FileCreate(s, name) ==
    With(FileOpen(s, name), LAMBDA found :
       IF found.r = 0 THEN [s |-> found.s, r |-> Exists]
       ELSE IF found.r # NotFound THEN found
       ELSE NewEntry(found.s, name))

------------------------------------------------------------------------------
(* fs_test(), which every start of the server runs *)

Must(call, why, Rest(_)) == IF call.r < 0 THEN Panic(call.s, why) ELSE Rest(call)

\* A block is taken to see that it was free, and stays taken.  /newmotd must
\* hold its message; it is cut to nothing and written again.
RewriteMotd(s, f) ==
    Must(GetBlock(SetSize(SetSize(FileFlush(s, f), f, 0), f, Len(Motd.words)), f, 0),
         "file_get_block 2",
         LAMBDA g : FileFlush(Put(g.s, g.r, [words |-> Overlay(Words(g.s.mem[g.r]), 0,
                                                              Motd.words, 0)]), f))
TestMotd(s, f) ==
    Must(GetBlock(s, f, 0), "file_get_block", LAMBDA g :
       IF \E i \in DOMAIN Motd.words : Words(g.s.mem[g.r])[i - 1] # Motd.words[i]
       THEN Panic(g.s, "wrong data")
       ELSE RewriteMotd(Put(g.s, g.r, g.s.mem[g.r]), f))
FsTest(s) ==
    Must(AllocBlock(s), "alloc_block", LAMBDA a :
       With(FileOpen(a.s, "not-found"), LAMBDA none :
          IF none.r # NotFound THEN Panic(none.s, "file_open /not-found")
          ELSE Must(FileOpen(none.s, Motd.name), "file_open /newmotd", LAMBDA motd :
                  TestMotd(motd.s, motd.f))))

------------------------------------------------------------------------------
(* What the files hold *)

\* Block b as the server sees it now: from the cache, or else from the disk.
Now == [mem |-> mem, dirty |-> dirty, disk |-> disk, past |-> {disk}, panic |-> "no"]
Merged(s) == [b \in Blocks |-> IF b \in DOMAIN s.mem THEN s.mem[b] ELSE s.disk[b]]

\* The slot of block bno of a file, in blocks c.
SlotIn(c, file, bno) ==
    IF bno < NDIRECT THEN file.direct[bno]
    ELSE IF file.indirect = 0 THEN 0
    ELSE LET slot == IndirectSlot(file.indirect, bno)
         IN  IF slot[1] \in Blocks THEN Words(c[slot[1]])[slot[2]] ELSE 0

\* Where the entries of the root are, in blocks c.
RootFile(c) == c[SuperBlock].files[0]
Entries(c) == {<<b, j>> \in ({SlotIn(c, RootFile(c), i) : i \in 0 .. RootFile(c).size \div BLKSIZE - 1}
                              \ {0}) \X (0 .. BLKFILES - 1) :
                 FilesOf(c[b])[j].name # NoName}
FileIn(c, f) == FilesOf(c[f[1]])[f[2]]

Where(c, n) == {f \in Entries(c) : FileIn(c, f).name = n}

ContentIn(c, n) ==
    IF Where(c, n) = {} THEN Absent
    ELSE LET file == FileIn(c, CHOOSE f \in Where(c, n) : TRUE)
         IN  [p \in 1 .. file.size |->
                LET b == SlotIn(c, file, (p - 1) \div BLKSIZE)
                IN  IF b = 0 THEN 0 ELSE Words(c[b])[(p - 1) % BLKSIZE]]

Contents(c) == [n \in Names |-> ContentIn(c, n)]
------------------------------------------------------------------------------
(* The requests *)

Init == /\ mem = << >> /\ dirty = {} /\ disk = Image(OnDisk)
        /\ status = "down" /\ interrupted = FALSE /\ crashes = 0
        /\ content = Contents(disk)
        /\ flushed = [n \in Names |-> LET given == {i \in DOMAIN OnDisk : OnDisk[i].name = n}
                                      IN  IF given = {} THEN Absent
                                          ELSE OnDisk[CHOOSE i \in given : TRUE].words]
        /\ last = [op |-> "start"]

\* Some slot of an indirect block was cleared by a truncation and is still on
\* disk d, because only file_flush() and fs_sync() write indirect blocks.
IndirectStale(c, d) ==
    \E f \in Entries(c) :
       LET b == FileIn(c, f).indirect
       IN  /\ b # 0 /\ FileIn(d, f).indirect = b
           /\ \E i \in 0 .. BLKSIZE - 1 : Words(d[b])[i] \notin {0, Words(c[b])[i]}

Finish(t, event, durable) ==
    /\ mem' = t.mem /\ dirty' = t.dirty /\ disk' = t.disk
    /\ status' = IF t.panic = "no" THEN "up" ELSE t.panic
    /\ last' = event
    /\ content' = Contents(Merged(t)) /\ flushed' = durable
    /\ UNCHANGED crashes

\* The machine stops while the request that would end in t is served; the files
\* it was changing are busy.
Stop(t, busy) ==
    /\ crashes < MaxCrashes
    /\ \E d \in t.past :
          /\ AnyCrash \/ ~(IndirectStale(Merged(Now), d) \/ IndirectStale(Merged(t), d))
          /\ disk' = d
          /\ content' = Contents(d)
    /\ mem' = << >> /\ dirty' = {} /\ status' = "down"
    /\ crashes' = crashes + 1
    /\ last' = [op |-> "crash", busy |-> busy]
    /\ flushed' = [n \in Names |-> IF n \in busy THEN Unknown ELSE flushed[n]]

Serve(t, event, busy, durable) ==
    /\ Finish(t, event, durable) \/ Stop(t, busy)
    /\ UNCHANGED interrupted

Exact(n) == [flushed EXCEPT ![n] = content[n]]
Forget(n) == [flushed EXCEPT ![n] = Unknown]
There(n) == Where(Merged(Now), n)
Up == status = "up"

\* fs_init() and fs_test() at the start of umain().
Start ==
    /\ status = "down"
    /\ \E t \in {With(FsInit(disk), LAMBDA up : IF up.panic = "no" THEN FsTest(up) ELSE up)} :
          \/ Finish(t, [op |-> "start"], flushed) /\ interrupted' = (interrupted /\ t.panic # "no")
          \/ Stop(t, {}) /\ interrupted' = TRUE

\* serve_open() without and with O_CREAT.
Open(n) == /\ Up
           /\ \E t \in {FileOpen(Now, n)} :
                Serve(t.s, [op |-> "open", name |-> n, r |-> t.r], {}, flushed)

Create(n) == /\ Up
             /\ \E t \in {FileCreate(Now, n)} :
                  Serve(t.s, [op |-> "create", name |-> n, r |-> t.r],
                        IF There(n) = {} THEN {n} ELSE {},
                        IF t.r = 0 THEN [flushed EXCEPT ![n] = << >>] ELSE flushed)

\* serve_write(), serve_read(), serve_set_size(), serve_flush(), with the
\* o_file an open left behind: its block is touched first.
Using(f) == Load(Now, f[1])

Write(n) ==
    /\ Up
    /\ \E f \in There(n), range \in Writes[n], w \in OwnWords[n] :
         LET words == [i \in 1 .. range[2] |-> w]
         IN  \E t \in {FileWrite(Using(f), f, words, range[1])} :
               Serve(t.s, [op |-> "write", name |-> n, off |-> range[1], words |-> words,
                           r |-> t.r], {n}, Forget(n))

Read(n) ==
    /\ Up
    /\ \E f \in There(n), range \in Writes[n] :
         \E t \in {FileRead(Using(f), f, range[2], range[1])} :
           Serve(t.s, [op |-> "read", name |-> n, off |-> range[1], count |-> range[2],
                       words |-> t.words, r |-> t.r], {}, flushed)

Cut(n) ==
    /\ Up
    /\ \E f \in There(n), size \in Sizes[n] :
         \E t \in {SetSize(Using(f), f, size)} :
           Serve(t, [op |-> "set_size", name |-> n, size |-> size], {n}, Forget(n))

Flush(n) ==
    /\ Up
    /\ \E f \in There(n) :
         \E t \in {FileFlush(Using(f), f)} :
           Serve(t, [op |-> "flush", name |-> n], {}, Exact(n))

Sync == /\ Up
        /\ \E t \in {SyncAll(Now)} : Serve(t, [op |-> "sync"], {}, content)

Next == \/ Start \/ Sync
        \/ \E n \in Names : \/ Open(n) \/ Create(n) \/ Write(n) \/ Read(n)
                            \/ Cut(n) \/ Flush(n)

Spec == Init /\ [][Next]_vars

------------------------------------------------------------------------------
(* Properties *)

TypeOK == /\ dirty \subseteq DOMAIN mem /\ DOMAIN mem \subseteq Blocks
          /\ DOMAIN disk = Blocks
          /\ disk[BitmapBlock].free \subseteq Blocks
          /\ crashes \in 0 .. MaxCrashes
          /\ \A n \in Names : Cardinality(There(n)) <= 1

\* Who names which block: <<file, slot, block>> for every slot that is not 0.
Claims(c) ==
    LET files == {<<f, FileIn(c, f)>> : f \in Entries(c)} \cup {<<Root, RootFile(c)>>}
    IN  UNION {     {<<p[1], i, p[2].direct[i]>> : i \in 0 .. NDIRECT - 1}
               \cup {<<p[1], -1, p[2].indirect>>}
               \cup (IF p[2].indirect = 0 THEN {}
                     ELSE {<<p[1], NDIRECT + i, Words(c[p[2].indirect])[i]>> : i \in 0 .. BLKSIZE - 1})
               : p \in files}
Taken(c) == {claim \in Claims(c) : claim[3] # 0}

\* inc/fs.h: "A block is allocated iff its value is != 0": a block a slot names
\* is marked used, and no other slot names it.
SlotsNameOwnBlocks ==
    LET now == Merged(Now)
        taken == Taken(now)
    IN  /\ \A claim \in taken : /\ claim[3] \in Blocks \ {0, SuperBlock, BitmapBlock}
                               /\ claim[3] \notin now[BitmapBlock].free
        /\ \A p, q \in taken : p[3] = q[3] => p = q

\* A client sees zeros or what was written into the file it reads, never words
\* of another file: blocks are cleared, on the disk too, before they are used.
OnlyOwnWords == \A n \in Names : content[n] # Absent =>
                  \A i \in DOMAIN content[n] : content[n][i] \in OwnWords[n] \cup {0}

\* serve_flush(): "Flush all data and metadata ... to disk".  Until the file is
\* changed again the disk holds what was flushed, whatever happens to others.
FlushedIsOnDisk == \A n \in Names : flushed[n] # Unknown => ContentIn(disk, n) = flushed[n]

\* bc_pgfault() panics when a free block is read: no request ever does.
NeverReadsFree == status \notin {"free block", "no such block", "free zero block", "bad bitmap"}

\* A crash while a request is served never keeps the server from starting
\* again: a start that panics found the disk full, or comes after a start that
\* did not end.
StartsAfterCrash ==
    status \notin {"up", "down"} =>
       interrupted \/ disk[BitmapBlock].free \cap Blocks = {}

\* Every request does to the files what FileStore says, and answers so.
Files == INSTANCE FileStore
ImplementsFileStore == Files!Spec
=============================================================================
