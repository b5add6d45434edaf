------------------------------ MODULE MCFsFile ------------------------------
(* FsFile with one word for each file. *)
EXTENDS FsFile

CONSTANTS x, y

MotdFile == [name |-> "newmotd", words |-> <<100>>]
WordsOfNames == (x :> {101}) @@ (y :> {102})
OneFile == <<MotdFile, [name |-> x, words |-> <<101, 101>>]>>
AllBlocksOrOne == (x :> {<<2, 5>>}) @@ (y :> {<<0, 1>>})
CutSizes == (x :> {0, 5}) @@ (y :> {})
Seen == <<mem, dirty, disk, status, interrupted, crashes, flushed>>
=============================================================================
