------------------------------ MODULE FsFormat ------------------------------
(***************************************************************************)
(* The disk that fs/fsformat.c makes on the build machine: blocks are      *)
(* handed out in order, a file's blocks follow one another, and a file     *)
(* that fills its direct slots gets an indirect block after them.          *)
(*                                                                         *)
(* im.next is blockof(diskpos), im.disk the image so far, im.ents the      *)
(* entries of the root directory.                                          *)
(***************************************************************************)
EXTENDS BlockCache

\* The block number a file whose blocks begin at start has for its block i,
\* and 0 past its end.
InRow(start, len, i) == IF i < BlocksFor(len) THEN start + i ELSE 0

\* finishfile(): the struct File for len words that begin at block start.
FinishFile(im, name, start, len) ==
    LET file == [name |-> name, size |-> len,
                 direct |-> [i \in 0 .. NDIRECT - 1 |-> InRow(start, len, i)],
                 indirect |-> IF BlocksFor(len) >= NDIRECT THEN im.next ELSE 0]
    IN  IF BlocksFor(len) < NDIRECT THEN [im |-> im, file |-> file]
        ELSE [im |-> [im EXCEPT !.next = @ + 1,
                                !.disk[im.next] =
                                   [words |-> [i \in 0 .. BLKSIZE - 1 |->
                                                 InRow(start, len, NDIRECT + i)]]],
              file |-> file]

\* writefile(): the words of the file, then its struct File.
WriteFile(im, f) ==
    LET len == Len(f.words)
        filled == [b \in DOMAIN im.disk |->
                     IF im.next <= b /\ b < im.next + BlocksFor(len)
                     THEN [words |-> [i \in 0 .. BLKSIZE - 1 |->
                             LET p == (b - im.next) * BLKSIZE + i + 1
                             IN  IF p <= len THEN f.words[p] ELSE 0]]
                     ELSE im.disk[b]]
        done == FinishFile([im EXCEPT !.disk = filled, !.next = @ + BlocksFor(len)],
                           f.name, im.next, len)
    IN  [done.im EXCEPT !.ents = Append(@, done.file)]

\* opendisk(), a writefile() for each file, finishdir(), finishdisk().
Image(files) ==
    LET empty == [disk |-> [b \in Blocks |-> Zeros], next |-> 3, ents |-> << >>]
        full == Loop(LAMBDA im, i : WriteFile(im, files[i]), empty, 1, Len(files) + 1)
        n == Len(full.ents)
        size == ((n + BLKFILES - 1) \div BLKFILES) * BLKSIZE
        rows == [b \in Blocks |->
                   IF full.next <= b /\ b < full.next + BlocksFor(size)
                   THEN [files |-> [j \in 0 .. BLKFILES - 1 |->
                           LET k == (b - full.next) * BLKFILES + j + 1
                           IN  IF k <= n THEN full.ents[k] ELSE EmptyFile]]
                   ELSE full.disk[b]]
        root == FinishFile([full EXCEPT !.disk = rows, !.next = @ + BlocksFor(size)],
                           "/", full.next, size)
    IN  [root.im.disk EXCEPT
           ![SuperBlock] = [magic |-> TRUE, files |-> (0 :> root.file)],
           ![BitmapBlock] = [free |-> root.im.next .. NBlocks - 1]]
=============================================================================
