----------------------------- MODULE OpenFiles ------------------------------
(***************************************************************************)
(* What programs are promised about open files: a descriptor stands for an *)
(* open file, which has a file and an offset; fork() and dup() make more   *)
(* descriptors of the same open file, so that its offset is shared; a read *)
(* or a write happens at the offset and moves it, at once.                 *)
(***************************************************************************)
EXTENDS Naturals, Sequences

CONSTANTS Clients, Slots, Opens, Files, None

VARIABLES fds,      \* fds[c][i]: the open file descriptor i of c stands for
          at,       \* at[o]: file and offset of open file o, while somebody
                    \* has a descriptor for it
          content,  \* content[f]: what is in file f
          answer    \* the read or write that has just happened, or None

vars == <<fds, at, content, answer>>

Used(o, d) == \E c \in Clients, i \in Slots : d[c][i] = o

\* words with more from offset off on; a hole is filled with None.
Put(words, off, more) ==
    LET hole == [i \in 1 .. off |-> IF i <= Len(words) THEN words[i] ELSE None]
    IN  hole \o more \o SubSeq(words, off + Len(more) + 1, Len(words))

\* At most count words from offset off on.
Get(words, off, count) ==
    SubSeq(words, off + 1, IF off + count < Len(words) THEN off + count ELSE Len(words))

Init == /\ fds = [c \in Clients |-> [i \in Slots |-> None]]
        /\ at = [o \in Opens |-> None]
        /\ content = [f \in Files |-> << >>]
        /\ answer = None

\* Open files nobody has a descriptor for are forgotten.
Keep(d) == [o \in Opens |-> IF Used(o, d) THEN at[o] ELSE None]

\* A new open file begins at offset 0.
Open(c, i, o, f) ==
    /\ fds[c][i] = None /\ ~Used(o, fds)
    /\ fds' = [fds EXCEPT ![c][i] = o]
    /\ at' = [at EXCEPT ![o] = [file |-> f, offset |-> 0]]
    /\ UNCHANGED <<content, answer>>

\* close(), exit() and the death of a client.
Drop == /\ \A c \in Clients, i \in Slots : fds'[c][i] \in {fds[c][i], None}
        /\ at' = Keep(fds')
        /\ UNCHANGED <<content, answer>>

\* dup() and fork().
Share == /\ \A c \in Clients, i \in Slots :
               fds'[c][i] # fds[c][i] => fds[c][i] = None /\ Used(fds'[c][i], fds)
         /\ UNCHANGED <<at, content, answer>>

Forget == /\ answer' = None
          /\ UNCHANGED <<fds, at, content>>

\* The answer of a read is what is at the offset when the offset moves.
Read(o) ==
    /\ answer' # None /\ answer'.op = "read"
    /\ answer'.words = Get(content[at[o].file], at[o].offset, answer'.count)
    /\ at' = [at EXCEPT ![o].offset = @ + Len(answer'.words)]
    /\ UNCHANGED <<fds, content>>

Write(o) ==
    /\ answer' # None /\ answer'.op = "write"
    /\ content' = [content EXCEPT ![at[o].file] = Put(@, at[o].offset, answer'.words)]
    /\ at' = [at EXCEPT ![o].offset = @ + Len(answer'.words)]
    /\ UNCHANGED fds

\* The file as a write leaves it that fails after words: its new length is size.
Broken(old) == Put(Put(old, answer'.size, << >>), answer'.off, answer'.words)

\* A write that fails has stored less than was asked for, and at the offset,
\* which it does not move.
WriteFails(o) ==
    /\ answer' # None /\ answer'.op = "failed" /\ answer'.off = at[o].offset
    /\ answer'.off + Len(answer'.words) < answer'.size
    /\ content' = [content EXCEPT ![at[o].file] = Broken(@)]
    /\ UNCHANGED <<fds, at>>

\* Everybody who had the open file is gone; what was asked for is done all the
\* same.
Late(f) ==
    /\ answer' # None
    /\ \/ /\ answer'.op = "read" /\ UNCHANGED content
       \/ /\ answer'.op = "write"
          /\ content' = [content EXCEPT ![f] = Put(@, answer'.off, answer'.words)]
       \/ /\ answer'.op = "failed"
          /\ content' = [content EXCEPT ![f] = Broken(@)]
    /\ UNCHANGED <<fds, at>>

Seek(o) == /\ at' = [at EXCEPT ![o].offset = 0]
           /\ UNCHANGED <<fds, content, answer>>

Truncate(f) == /\ content' = [content EXCEPT ![f] = << >>]
               /\ UNCHANGED <<fds, at, answer>>

Next == \/ \E c \in Clients, i \in Slots, o \in Opens, f \in Files : Open(c, i, o, f)
        \/ Drop \/ Share \/ Forget
        \/ \E o \in Opens : at[o] # None /\ (Read(o) \/ Write(o) \/ WriteFails(o) \/ Seek(o))
        \/ \E f \in Files : Truncate(f) \/ Late(f)

Spec == Init /\ [][Next]_vars
=============================================================================
