----------------------------- MODULE FileStore ------------------------------
(***************************************************************************)
(* What the file system promises: named files are sequences of words; each *)
(* request changes one of them and does to it what was asked for; what was *)
(* flushed survives a crash until the file is changed again; and no file   *)
(* ever shows a word that was not written into it.                         *)
(*                                                                         *)
(* last is the latest event: a request with its answer, or a crash with    *)
(* the files a request was changing when it came (busy).                   *)
(***************************************************************************)
EXTENDS Integers, Sequences

CONSTANTS Names, Absent, Unknown,
          OwnWords     \* OwnWords[n]: the words clients write into file n

VARIABLES content,     \* content[n]: the words of file n, or Absent
          flushed,     \* flushed[n]: its words when it was last flushed, or
                       \* Unknown if it was changed since
          last

vars == <<content, flushed, last>>

Own(n) == OwnWords[n] \cup {0}
Size(n) == Len(content[n])
Larger(x, y) == IF x > y THEN x ELSE y

\* The words from off on, at most count of them.
Part(words, off, count) ==
    SubSeq(words, off + 1, IF off + count > Len(words) THEN Len(words) ELSE off + count)

\* Between the old end of a file and the new one there may be what the file
\* held before it was cut: sizes are in words, blocks are given back whole.
Legal(n, words) == \A i \in DOMAIN words : words[i] \in Own(n)

\* Only file n changes, and it becomes words.
Becomes(n, words) == /\ content' = [content EXCEPT ![n] = words]
                     /\ Legal(n, words)

Init == /\ \A n \in Names : content[n] # Absent => Legal(n, content[n])
        /\ flushed = content

Create(n) == /\ content[n] = Absent
             /\ Becomes(n, << >>)
             /\ flushed' = [flushed EXCEPT ![n] = << >>]

\* A write whose answer is not an error put its words at off.
Write(n, off, words) ==
    /\ Len(content'[n]) = Larger(Size(n), off + Len(words))
    /\ \A i \in DOMAIN content'[n] :
          /\ i \in off + 1 .. off + Len(words) => content'[n][i] = words[i - off]
          /\ i <= Size(n) /\ i \notin off + 1 .. off + Len(words)
                => content'[n][i] = content[n][i]

\* A write that failed may have written some of them, and made the file longer.
WriteFailed(n, off, words) ==
    /\ Len(content'[n]) = Larger(Size(n), off + Len(words))
    /\ \A i \in 1 .. Size(n) :
          \/ content'[n][i] = content[n][i]
          \/ i \in off + 1 .. off + Len(words) /\ content'[n][i] = words[i - off]

SetSize(n, size) ==
    /\ Len(content'[n]) = size
    /\ \A i \in DOMAIN content'[n] : i <= Size(n) => content'[n][i] = content[n][i]

Changes(n) ==
    /\ content[n] # Absent
    /\ Becomes(n, content'[n])
    /\ flushed' = [flushed EXCEPT ![n] = Unknown]
    /\ \/ last'.op = "write" /\ last'.r >= 0 /\ Write(n, last'.off, last'.words)
       \/ last'.op = "write" /\ last'.r < 0 /\ WriteFailed(n, last'.off, last'.words)
       \/ last'.op = "set_size" /\ SetSize(n, last'.size)

\* A read that does not fail returns what the file holds.
Read == /\ last'.op = "read"
        /\ last'.r >= 0 => last'.words = Part(content[last'.name], last'.off, last'.count)
        /\ UNCHANGED <<content, flushed>>

\* open() finds exactly the files there are.
Open == /\ last'.op = "open"
        /\ last'.r = 0 <=> content[last'.name] # Absent
        /\ UNCHANGED <<content, flushed>>

Flush == /\ last'.op = "flush"
         /\ flushed' = [flushed EXCEPT ![last'.name] = content[last'.name]]
         /\ UNCHANGED content

Sync == /\ last'.op = "sync"
        /\ flushed' = content
        /\ UNCHANGED content

\* What was flushed and was not being changed is there after a crash.
Crash == /\ last'.op = "crash"
         /\ flushed' = [n \in Names |-> IF n \in last'.busy THEN Unknown ELSE flushed[n]]
         /\ \A n \in Names :
               /\ flushed'[n] # Unknown => content'[n] = flushed'[n]
               /\ content[n] # Absent => content'[n] # Absent
               /\ content'[n] # Absent => Legal(n, content'[n])

\* create() that fails, a start, a panic: no file is touched.
Quiet == UNCHANGED <<content, flushed>>

Next == \/ \E n \in Names : Create(n) \/ Changes(n)
        \/ Read \/ Open \/ Flush \/ Sync \/ Crash
        \/ last'.op \in {"create", "start"} /\ Quiet

Spec == Init /\ [][Next]_vars
=============================================================================
