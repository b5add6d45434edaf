----------------------------- MODULE BlockCache -----------------------------
(***************************************************************************)
(* The file server's block cache (fs/bc.c) and the bitmap of free blocks   *)
(* (fs/fs.c), as functions of the state a request of the server works on.  *)
(*                                                                         *)
(* A server state s is a record:                                           *)
(*   s.mem    what the cached blocks hold, by block number (the pages      *)
(*            mapped above DISKMAP)                                        *)
(*   s.dirty  the cached blocks written since they were last equal to the  *)
(*            disk (PTE_D)                                                 *)
(*   s.disk   what the disk holds                                          *)
(*   s.past   every disk there was since the request began: a crash in the *)
(*            middle of it leaves one of them                              *)
(*   s.panic  the server called panic(), and why                           *)
(* The functions change s as the code does, in the code's order.  A block  *)
(* is written to the disk whole or not at all.                             *)
(*                                                                         *)
(* The bytes of a block are read through different types.  A block is a    *)
(* record with the one view it was last written through: words (data, or   *)
(* the slots of an indirect block; a word stands for four bytes), files    *)
(* (an array of struct File) or free (the bitmap, the set of free blocks); *)
(* the super block has its magic number and, in files[0], the root.        *)
(***************************************************************************)
EXTENDS Integers, Sequences, FiniteSets, TLC

CONSTANTS NBlocks,     \* super->s_nblocks
          BLKSIZE,     \* words in a block
          NDIRECT,     \* block numbers in a struct File
          BLKFILES,    \* struct Files in a block
          NoName       \* the empty name of a free struct File

ASSUME GeometryAssumption ==
         /\ NBlocks \in Nat /\ NBlocks > 3
         /\ BLKSIZE \in Nat \ {0}
         /\ NDIRECT \in Nat \ {0}
         /\ BLKFILES \in Nat \ {0}

NINDIRECT == BLKSIZE
MAXBLOCKS == NDIRECT + NINDIRECT

Blocks == 0 .. NBlocks - 1
SuperBlock == 1
BitmapBlock == 2

EmptyFile == [name |-> NoName, size |-> 0,
              direct |-> [i \in 0 .. NDIRECT - 1 |-> 0], indirect |-> 0]

Zeros == [words |-> [i \in 0 .. BLKSIZE - 1 |-> 0]]

\* A block of zeros read as files is free entries, and the other way about.
Words(c) == IF "words" \in DOMAIN c THEN c.words ELSE Zeros.words
FilesOf(c) == IF "files" \in DOMAIN c THEN c.files
              ELSE [j \in 0 .. BLKFILES - 1 |-> EmptyFile]

BlocksFor(size) == (size + BLKSIZE - 1) \div BLKSIZE

\* for (i = lo; i < hi; i++) s = step(s, i);
Loop(step(_, _), s, lo, hi) ==
    LET after[i \in lo .. hi] == IF i = lo THEN s ELSE step(after[i - 1], i - 1)
    IN  IF hi <= lo THEN s ELSE after[hi]

Panic(s, why) == IF s.panic = "no" THEN [s EXCEPT !.panic = why] ELSE s

------------------------------------------------------------------------------
(* block_is_free, bc_pgfault, flush_block *)

IsFree(s, b) == BitmapBlock \in DOMAIN s.mem /\ b \in s.mem[BitmapBlock].free

\* A touched block that is not cached is read from the disk; only then does
\* bc_pgfault() look whether it is free.
CheckLoaded(s, b) == IF IsFree(s, b) THEN Panic(s, "free block") ELSE s

Load(s, b) ==
    IF b \in DOMAIN s.mem THEN s
    ELSE IF b \notin Blocks THEN Panic(s, "no such block")
    ELSE CheckLoaded([s EXCEPT !.mem = (b :> s.disk[b]) @@ @], b)

\* A store into block b.
Put(s, b, content) == IF b \notin Blocks THEN s
                      ELSE [s EXCEPT !.mem[b] = content, !.dirty = @ \cup {b}]
Store(s, b, content) == Put(Load(s, b), b, content)

\* flush_block(): nothing, unless the block is cached and dirty.
FlushBlock(s, b) ==
    IF b \notin s.dirty THEN s
    ELSE [s EXCEPT !.disk[b] = s.mem[b], !.dirty = @ \ {b},
                   !.past = @ \cup {[s.disk EXCEPT ![b] = s.mem[b]]}]

\* fs_sync()
SyncAll(s) == Loop(FlushBlock, s, 1, NBlocks)

------------------------------------------------------------------------------
(* free_block, alloc_block *)

FreeBlock(s, b) ==
    IF b = 0 THEN Panic(s, "free zero block")
    ELSE Store(s, BitmapBlock, [free |-> s.mem[BitmapBlock].free \cup {b}])

NoDisk == -1

Lowest(set) == CHOOSE b \in set : \A other \in set : b <= other
FreeBlocks(s) == s.mem[BitmapBlock].free \cap Blocks

\* Mutant: the bitmap is left for a later flush.
TakeUnflushed(s, b) == Store(s, BitmapBlock, [free |-> s.mem[BitmapBlock].free \ {b}])

\* The bitmap is on the disk before anybody uses the block.
TakeBlock(s, b) ==
    FlushBlock(Store(s, BitmapBlock, [free |-> s.mem[BitmapBlock].free \ {b}]), BitmapBlock)

AllocBlock(s) == IF FreeBlocks(s) = {} THEN [s |-> s, r |-> NoDisk]
                 ELSE [s |-> TakeBlock(s, Lowest(FreeBlocks(s))), r |-> Lowest(FreeBlocks(s))]

\* Mutant: the zeros stay in the cache.
ClearCached(s, b) == Store(s, b, Zeros)

\* memset(diskaddr(b), 0, BLKSIZE); flush_block(diskaddr(b))
ClearBlock(s, b) == FlushBlock(Store(s, b, Zeros), b)

------------------------------------------------------------------------------
(* bc_init, check_super, check_bitmap: what fs_init() does to a disk *)

\* check_bc() smashes the super block on the disk and puts it back, twice; in
\* between the page is unmapped and read again.
Smashed(s) == FlushBlock(Put(s, SuperBlock, [s.mem[SuperBlock] EXCEPT !.magic = FALSE]), SuperBlock)
Unmapped(s) == [s EXCEPT !.mem = [x \in DOMAIN @ \ {SuperBlock} |-> @[x]]]
SmashOnce(s) ==
    FlushBlock(Store(Unmapped(Smashed(s)), SuperBlock, s.mem[SuperBlock]), SuperBlock)

CheckSuper(s) == IF s.mem[SuperBlock].magic THEN s ELSE Panic(s, "bad magic")
CheckBitmap(s) ==
    IF {0, SuperBlock, BitmapBlock} \cap s.mem[BitmapBlock].free # {}
    THEN Panic(s, "bad bitmap") ELSE s

\* The server as it starts on a disk.
Fresh(d) == [mem |-> << >>, dirty |-> {}, disk |-> d, past |-> {d}, panic |-> "no"]

FsInit(d) == CheckBitmap(Load(CheckSuper(SmashOnce(SmashOnce(Load(Fresh(d), SuperBlock)))),
                              BitmapBlock))
=============================================================================
