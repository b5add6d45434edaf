------------------------------ MODULE FsServer ------------------------------
(***************************************************************************)
(* Clients of the file server and the server's open files: lib/file.c and  *)
(* lib/fd.c, lib/ipc.c between them and the server, fs/serv.c.             *)
(*                                                                         *)
(* A request is an IPC to the server that carries the client's page        *)
(* fsipcbuf; the answer is an IPC back, and for open() carries the page of *)
(* a struct Fd, which the client maps at the descriptor it chose and which *)
(* fork(), dup() and the server share.  The server tells from the number   *)
(* of mappings of that page whether the file is open.                      *)
(*                                                                         *)
(* All environments run on any processor at any time: every system call    *)
(* and every access to a shared page is a step.  A file is a sequence of   *)
(* the words written to it; FsFile has how it is kept, here a transfer may *)
(* find no block for a word of a file that has none yet.                   *)
(***************************************************************************)
EXTENDS Integers, Sequences, FiniteSets

CONSTANTS Clients, First,   \* the environments, and the one there is at first
          Slots,            \* descriptor numbers 0 .. MAXFD-1
          MAXOPEN,          \* entries of opentab
          Files, Missing,   \* the files there are, and a name that is not there
          Buffers,          \* what a client may write() in one call
          CHUNK,            \* words that fit in the buffer of one write request
          MaxCalls,         \* bound on the open(), write() and dup() calls of a behaviour
          Mortal,           \* the clients that may be destroyed by others
          RacySeek,         \* TRUE: seek() while the server moves the offset
          None

ASSUME FirstAssumption == First \in Clients
ASSUME SlotsAssumption == IsFiniteSet(Slots) /\ Slots = 0 .. Cardinality(Slots) - 1

Words == UNION {{buf[k] : k \in DOMAIN buf} : buf \in Buffers}
OpenFile == [file : Files, id : Nat]
FileWords == Seq(Words \cup {None})
Transfers == [op : {"read"}, count : {1}, words : FileWords]
             \cup [op : {"write"}, off : Nat, words : FileWords]
             \cup [op : {"failed"}, off : Nat, size : Nat, words : FileWords]

ASSUME SizeAssumption == /\ IsFiniteSet(Clients)
                         /\ MAXOPEN \in Nat \ {0} /\ CHUNK \in Nat \ {0}
                         /\ Buffers \subseteq Seq(Words)
ASSUME NoneAssumption == /\ Missing \notin Files
                         /\ None \notin (0 .. MAXOPEN - 1) \cup OpenFile \cup Transfers
                                        \cup [file : Files, offset : Nat]

VARIABLES cli,      \* cli[c]: what client c does, and its request
          fdmap,    \* fdmap[c][i]: the Fd page c has mapped at descriptor i
          cow,      \* cow[c]: fsipcbuf of c is copy-on-write
          srv,      \* where the server is in serve(), and the request it has
          opentab,  \* opentab[i]: o_fileid, o_file and, as mapped, whether the
                    \* server has allocated the page at o_fd
          page,     \* page[i]: the struct Fd on that page: id and offset
          content,  \* content[f]: the words of file f
          calls,    \* how many open(), write() and dup() calls there were
          holds     \* history: holds[c][i]: file and id open() gave c at i

vars == <<cli, fdmap, cow, srv, opentab, page, content, calls, holds>>
kept == <<content, calls>>

Entries == 0 .. MAXOPEN - 1

Inval == -1
NotFound == -2
MaxOpen == -3
NoDisk == -4

\* A client that has no request.
Client(pc) == [pc |-> pc, req |-> None, buf |-> << >>, stored |-> << >>, r |-> None]
Idle == Client("run")
NoFds == [i \in Slots |-> None]

Init == /\ cli = [c \in Clients |-> Client(IF c = First THEN "run" ELSE "free")]
        /\ fdmap = [c \in Clients |-> NoFds]
        /\ cow = [c \in Clients |-> FALSE]
        /\ srv = [pc |-> "recv"]
        /\ opentab = [i \in Entries |-> [id |-> i, file |-> None, mapped |-> FALSE]]
        /\ page = [i \in Entries |-> [id |-> 0, off |-> 0]]
        /\ content = [f \in Files |-> << >>]
        /\ calls = 0
        /\ holds = [c \in Clients |-> NoFds]

------------------------------------------------------------------------------
(* lib/fd.c: what needs no server *)

Mappings(i) == Cardinality({p \in Clients \X Slots : fdmap[p[1]][p[2]] = i})

\* Mutant of PageRef: the server's own mapping forgotten.
PageRefOthers(i) == Mappings(i)

\* pageref(opentab[i].o_fd)
PageRef(i) == (IF opentab[i].mapped THEN 1 ELSE 0) + Mappings(i)

FreeSlots(c) == {i \in Slots : fdmap[c][i] = None}

Ready(c) == cli[c].pc = "run"

\* dup() onto a descriptor that is not open; one that is is closed first.
Dup(c) == /\ Ready(c)
          /\ calls < MaxCalls
          /\ calls' = calls + 1
          /\ \E i \in Slots \ FreeSlots(c), j \in FreeSlots(c) :
                /\ fdmap' = [fdmap EXCEPT ![c][j] = fdmap[c][i]]
                /\ holds' = [holds EXCEPT ![c][j] = holds[c][i]]
          /\ UNCHANGED <<cli, cow, srv, opentab, page, content>>

\* fork(): Fd pages are shared, fsipcbuf becomes copy-on-write on both sides.
Fork(c) == /\ Ready(c)
           /\ \E d \in Clients :
                 /\ cli[d].pc = "free"
                 /\ cli' = [cli EXCEPT ![d] = Idle]
                 /\ fdmap' = [fdmap EXCEPT ![d] = fdmap[c]]
                 /\ holds' = [holds EXCEPT ![d] = holds[c]]
                 /\ cow' = [cow EXCEPT ![c] = TRUE, ![d] = TRUE]
           /\ UNCHANGED <<srv, opentab, page, kept>>

\* The server is between a read or a write at the offset of page i and the store
\* of the new offset.
Moving(i) == srv.pc = "move" /\ srv.entry = i

\* seek() writes the offset on the shared page.
Seek(c) == /\ Ready(c)
           /\ \E i \in Slots \ FreeSlots(c) :
                 /\ RacySeek \/ ~Moving(fdmap[c][i])
                 /\ page[fdmap[c][i]].off # 0
                 /\ page' = [page EXCEPT ![fdmap[c][i]].off = 0]
           /\ UNCHANGED <<cli, fdmap, cow, srv, opentab, holds, kept>>

Gone(c) == /\ fdmap' = [fdmap EXCEPT ![c] = NoFds]
           /\ holds' = [holds EXCEPT ![c] = NoFds]
           /\ cli' = [cli EXCEPT ![c] = Client("dead")]
           /\ UNCHANGED <<cow, srv, opentab, page, kept>>

\* sys_env_destroy() by another environment, at any time.
Kill(c) == /\ c \in Mortal
           /\ cli[c].pc \notin {"free", "dead"}
           /\ Gone(c)

\* exit(): close_all() is close() for every descriptor, in CallClose; then
\* sys_env_destroy(0).
Exit(c) == /\ Ready(c)
           /\ FreeSlots(c) = Slots
           /\ Gone(c)

------------------------------------------------------------------------------
(* fsipc() and its callers: the request goes into fsipcbuf, which makes a    *)
(* private copy of it; sync() writes nothing there.                          *)

\* Mutant of Call: the request page is not written before it is sent.
CallUnwritten(c, request, buffer) ==
    /\ cli' = [cli EXCEPT ![c] = [Client("send") EXCEPT !.req = request, !.buf = buffer]]
    /\ UNCHANGED <<fdmap, holds, srv, opentab, page, cow>>

Call(c, request, buffer) ==
    /\ cli' = [cli EXCEPT ![c] = [Client("send") EXCEPT !.req = request, !.buf = buffer]]
    /\ cow' = [cow EXCEPT ![c] = @ /\ request.op = "sync"]
    /\ UNCHANGED <<fdmap, holds, srv, opentab, page>>

\* With or without O_TRUNC.
CallOpen(c) == /\ Ready(c)
               /\ calls < MaxCalls
               /\ calls' = calls + 1
               /\ \E i \in FreeSlots(c), f \in Files \cup {Missing}, trunc \in BOOLEAN :
                     /\ \A j \in FreeSlots(c) : i <= j
                     /\ Call(c, [op |-> "open", file |-> f, trunc |-> trunc, slot |-> i],
                             << >>)
               /\ UNCHANGED content

\* devfile_read(), devfile_stat(), devfile_trunc(), sync()
CallFile(c) == /\ Ready(c)
               /\ \/ \E i \in Slots \ FreeSlots(c), op \in {"read", "stat", "set_size"} :
                        Call(c, [op |-> op, id |-> page[fdmap[c][i]].id, slot |-> i], << >>)
                  \/ Call(c, [op |-> "sync"], << >>)
               /\ UNCHANGED kept

\* Part of a buffer of which done words have been written: every part is
\* copied from the beginning of the buffer.
Part(buf, done) == SubSeq(buf, 1, IF Len(buf) - done < CHUNK THEN Len(buf) - done ELSE CHUNK)

\* devfile_write() sends the buffer in parts.
CallWrite(c) == /\ Ready(c)
                /\ calls < MaxCalls
                /\ calls' = calls + 1
                /\ \E i \in Slots \ FreeSlots(c), buf \in Buffers :
                      Call(c, [op |-> "write", id |-> page[fdmap[c][i]].id, slot |-> i,
                               words |-> Part(buf, 0)],
                           buf)
                /\ UNCHANGED content

\* close(): devfile_flush(), then the page is unmapped.
CallClose(c) == /\ Ready(c)
                /\ \E i \in Slots \ FreeSlots(c) :
                      Call(c, [op |-> "flush", id |-> page[fdmap[c][i]].id, slot |-> i], << >>)
                /\ UNCHANGED kept

\* serve() has a request; serve_open() will look for an entry from the first on.
Received(c, req) ==
    IF req.op = "open" THEN [pc |-> "scan", whom |-> c, req |-> req, entry |-> 0]
    ELSE [pc |-> "handle", whom |-> c, req |-> req]

\* sys_ipc_try_send() to the server, which refuses a read-only page to be sent
\* writable: ipc_send() panics.  While the server does not receive, ipc_send()
\* yields and tries again.
Send(c) == /\ cli[c].pc = "send"
           /\ srv.pc = "recv"
           /\ IF cow[c]
              THEN /\ cli' = [cli EXCEPT ![c].pc = "panic"]
                   /\ UNCHANGED srv
              ELSE /\ cli' = [cli EXCEPT ![c].pc = "sent"]
                   /\ srv' = Received(c, cli[c].req)
           /\ UNCHANGED <<fdmap, holds, cow, opentab, page, kept>>

\* sys_ipc_recv()
Wait(c) == /\ cli[c].pc = "sent"
           /\ cli' = [cli EXCEPT ![c].pc = "wait"]
           /\ UNCHANGED <<fdmap, holds, cow, srv, opentab, page, kept>>

Without(f, c) == [f EXCEPT ![c][cli[c].req.slot] = None]

\* fsipc() returns what the first message says, whoever sent it.  close() unmaps
\* the descriptor whatever the answer; write() goes on with the rest.
Return(c) ==
    /\ cli[c].pc = "got"
    /\ IF cli[c].req.op = "write" /\ cli[c].r > 0 /\ Len(cli[c].stored) < Len(cli[c].buf)
       THEN cli' = [cli EXCEPT ![c].pc = "send",
                               ![c].req.words = Part(cli[c].buf, Len(cli[c].stored))]
       ELSE cli' = [cli EXCEPT ![c] = Idle]
    /\ IF cli[c].req.op = "flush"
       THEN fdmap' = Without(fdmap, c) /\ holds' = Without(holds, c)
       ELSE UNCHANGED <<fdmap, holds>>
    /\ UNCHANGED <<cow, srv, opentab, page, kept>>

------------------------------------------------------------------------------
(* serve(): one request after the other                                      *)

\* The answer, with the entry whose page it carries, and as history what was
\* read or written.
Respond(r, entry, done) == srv' = [pc |-> "reply", whom |-> srv.whom, req |-> srv.req,
                                   r |-> r, entry |-> entry, done |-> done]
Answer(r) == Respond(r, None, None)

\* openfile_lookup(): a file nobody but the server has mapped is not open.
IsOpen(id) == LET i == id % MAXOPEN IN PageRef(i) > 1 /\ opentab[i].id = id

\* serve_set_size(), serve_stat(), serve_flush(), serve_sync(), and the first half of
\* serve_read() and serve_write(), which take the offset from the page.
Handle ==
    /\ srv.pc = "handle"
    /\ IF srv.req.op # "sync" /\ ~IsOpen(srv.req.id)
       THEN Answer(Inval) /\ UNCHANGED content
       ELSE CASE srv.req.op \in {"flush", "stat", "sync"} -> Answer(0) /\ UNCHANGED content
              [] srv.req.op = "set_size" ->
                   /\ content' = [content EXCEPT ![opentab[srv.req.id % MAXOPEN].file] = << >>]
                   /\ Answer(0)
              [] srv.req.op \in {"read", "write"} ->
                   /\ srv' = [pc |-> "move", whom |-> srv.whom, req |-> srv.req,
                              entry |-> srv.req.id % MAXOPEN,
                              off |-> page[srv.req.id % MAXOPEN].off]
                   /\ UNCHANGED content
    /\ UNCHANGED <<cli, fdmap, cow, opentab, page, holds, calls>>

\* file_write(): new at offset off of old; a gap reads as zeroes.
Stored(old, off, new) ==
    [k \in 1 .. (IF Len(old) > off + Len(new) THEN Len(old) ELSE off + Len(new)) |->
       IF k > off /\ k <= off + Len(new) THEN new[k - off]
       ELSE IF k <= Len(old) THEN old[k] ELSE None]

\* file_read() of one word: none at or after the end of the file.
Found(words, off) == IF off < Len(words) THEN <<words[off + 1]>> ELSE << >>

\* file_read() and file_write(), and `fd_offset += r'.
Move ==
    /\ srv.pc = "move"
    /\ \E f \in {opentab[srv.entry].file} :
         IF srv.req.op = "read"
         THEN \E words \in {Found(content[f], srv.off)} :
                /\ page' = [page EXCEPT ![srv.entry].off = @ + Len(words)]
                /\ Respond(Len(words), None, [op |-> "read", count |-> 1, words |-> words])
                /\ UNCHANGED <<content, cli>>
         ELSE /\ content' = [content EXCEPT ![f] = Stored(@, srv.off, srv.req.words)]
              /\ page' = [page EXCEPT ![srv.entry].off = @ + Len(srv.req.words)]
              /\ Respond(Len(srv.req.words), None,
                         [op |-> "write", off |-> srv.off, words |-> srv.req.words])
              /\ IF cli[srv.whom].pc = "dead" THEN UNCHANGED cli
                 ELSE cli' = [cli EXCEPT ![srv.whom].stored = @ \o srv.req.words]
    /\ UNCHANGED <<fdmap, cow, opentab, holds, calls>>

\* file_write() on a full disk: the file has its new length, the words before
\* the block that is wanting are stored.
StoredPart(old, off, size, front) == Stored(Stored(old, size, << >>), off, front)

\* Word n of a file has perhaps no block: nothing was ever stored there.
Gap(words, n) == n < Len(words) => words[n + 1] = None

\* file_get_block() finds no block for a word on a full disk: the error is
\* returned and the offset stays.
MoveFails ==
    /\ srv.pc = "move"
    /\ \E f \in {opentab[srv.entry].file} :
         IF srv.req.op = "read"
         THEN /\ Found(content[f], srv.off) = <<None>>
              /\ Answer(NoDisk)
              /\ UNCHANGED content
         ELSE \E n \in 0 .. Len(srv.req.words) - 1, size \in {srv.off + Len(srv.req.words)} :
              /\ Gap(content[f], srv.off + n)
              /\ LET front == SubSeq(srv.req.words, 1, n) IN
                 /\ content' = [content EXCEPT ![f] = StoredPart(@, srv.off, size, front)]
                 /\ Respond(NoDisk, None, [op |-> "failed", off |-> srv.off, size |-> size,
                                           words |-> front])
    /\ UNCHANGED <<cli, fdmap, cow, opentab, page, holds, calls>>

\* Mutant of NewFd: the page is not cleared.
NewFdOver(old, id) == [old EXCEPT !.id = id]

\* The struct Fd of a newly opened file on the page of another one.
NewFd(old, id) == [id |-> id, off |-> 0]

\* openfile_alloc(), one entry at a time: the clients close files meanwhile.
\* An entry nobody has open gets a new id and an empty page, the file is
\* looked up only then.
Alloc ==
    /\ srv.pc = "scan"
    /\ srv.entry < MAXOPEN /\ PageRef(srv.entry) <= 1
    /\ \E i \in {srv.entry}, new \in {opentab[srv.entry].id + MAXOPEN} :
         IF srv.req.file = Missing
         THEN /\ opentab' = [opentab EXCEPT ![i].id = new, ![i].mapped = TRUE]
              /\ page' = [page EXCEPT ![i] = NewFd(@, 0)]
              /\ Answer(NotFound)
              /\ UNCHANGED content
         ELSE /\ opentab' = [opentab EXCEPT ![i] = [id |-> new, file |-> srv.req.file,
                                                    mapped |-> TRUE]]
              /\ page' = [page EXCEPT ![i] = NewFd(@, new)]
              /\ Respond(0, i, None)
              /\ content' = IF srv.req.trunc THEN [content EXCEPT ![srv.req.file] = << >>]
                            ELSE content
    /\ UNCHANGED <<cli, fdmap, cow, holds, calls>>

NextEntry == /\ srv.pc = "scan"
             /\ IF srv.entry = MAXOPEN THEN Answer(MaxOpen)
                ELSE PageRef(srv.entry) > 1 /\ srv' = [srv EXCEPT !.entry = @ + 1]
             /\ UNCHANGED <<cli, fdmap, cow, opentab, page, holds, kept>>

\* Mutant of TryAgain: ipc_send() tries only once.
TryOnce == /\ srv' = [pc |-> "recv"]
           /\ UNCHANGED <<cli, fdmap, holds>>

\* ipc_send() yields when the receiver does not wait, and tries again.
TryAgain == FALSE

\* ipc_send() to the client: again until it waits; a panic when it is no more.
\* The page of an open file is mapped at the descriptor the client waits with.
\* Then the request page is unmapped and the server receives again.
Reply ==
    /\ srv.pc = "reply"
    /\ \E c \in {srv.whom} :
         CASE cli[c].pc = "dead" ->
                srv' = [pc |-> "panic", whom |-> c] /\ UNCHANGED <<cli, fdmap, holds>>
           [] cli[c].pc = "wait" ->
                /\ cli' = [cli EXCEPT ![c].pc = "got", ![c].r = srv.r]
                /\ IF srv.entry = None THEN UNCHANGED <<fdmap, holds>>
                   ELSE /\ fdmap' = [fdmap EXCEPT ![c][cli[c].req.slot] = srv.entry]
                        /\ holds' = [holds EXCEPT ![c][cli[c].req.slot] =
                                      [file |-> srv.req.file, id |-> opentab[srv.entry].id]]
                /\ srv' = [pc |-> "recv"]
           [] OTHER -> TryAgain
    /\ UNCHANGED <<cow, opentab, page, kept>>

------------------------------------------------------------------------------
Serve == Handle \/ Move \/ MoveFails \/ Alloc \/ NextEntry \/ Reply

\* What a client does once it has called.
Proceed(c) == Send(c) \/ Wait(c) \/ Return(c)

\* What a program may do or leave.
Program(c) == \/ Dup(c) \/ Fork(c) \/ Seek(c) \/ Exit(c)
              \/ CallOpen(c) \/ CallFile(c) \/ CallWrite(c) \/ CallClose(c)

Next == \/ Serve
        \/ \E c \in Clients : Proceed(c) \/ Program(c) \/ Kill(c)

Spec == Init /\ [][Next]_vars

\* The scheduler comes back to the server, and to a client that has sent.
LiveSpec == Spec /\ WF_vars(Serve)
                 /\ \A c \in Clients : WF_vars(Wait(c) \/ Return(c))

------------------------------------------------------------------------------
FileOps == {"read", "write", "stat", "set_size", "flush"}
Requests ==
    [op : {"open"}, file : Files \cup {Missing}, trunc : BOOLEAN, slot : Slots]
    \cup [op : FileOps \ {"write"}, id : Nat, slot : Slots]
    \cup [op : {"write"}, id : Nat, slot : Slots, words : Seq(Words)]
    \cup [op : {"sync"}]

\* A client is in fsipc().
Busy == {"send", "panic", "sent", "wait", "got"}
ClientStates == [pc : {"free", "dead", "run"} \cup Busy, req : Requests \cup {None},
                 buf : Seq(Words), stored : Seq(Words), r : Int \cup {None}]

ServerStates ==
    [pc : {"recv"}]
    \cup [pc : {"panic"}, whom : Clients]
    \cup [pc : {"handle"}, whom : Clients, req : Requests]
    \cup [pc : {"scan"}, whom : Clients, req : Requests, entry : 0 .. MAXOPEN]
    \cup [pc : {"move"}, whom : Clients, req : Requests, entry : Entries, off : Nat]
    \cup [pc : {"reply"}, whom : Clients, req : Requests, r : Int,
          entry : Entries \cup {None}, done : Transfers \cup {None}]

\* The type invariant: every environment and the server are where serve() and
\* fsipc() can be, with a request.
TypeOK ==
    /\ cli \in [Clients -> ClientStates]
    /\ \A c \in Clients : cli[c].pc \in Busy => cli[c].req \in Requests
    /\ fdmap \in [Clients -> [Slots -> Entries \cup {None}]]
    /\ cow \in [Clients -> BOOLEAN]
    /\ srv \in ServerStates
    /\ opentab \in [Entries -> [id : Nat, file : Files \cup {None}, mapped : BOOLEAN]]
    /\ page \in [Entries -> [id : Nat, off : Nat]]
    /\ content \in [Files -> FileWords]
    /\ calls \in Nat
    /\ holds \in [Clients -> [Slots -> OpenFile \cup {None}]]

\* A descriptor goes on standing for the file it was opened on, in the server's
\* table and on its page, however often other descriptors come and go and the
\* entries are used again; and no client is refused a file it has open, although
\* the server only counts mappings, which clients change while it looks.
OpenStaysOpen ==
    /\ \A c \in Clients, i \in Slots :
         LET e == fdmap[c][i] IN
         /\ e = None <=> holds[c][i] = None
         /\ e # None => /\ opentab[e].mapped
                        /\ [file |-> opentab[e].file, id |-> opentab[e].id] = holds[c][i]
                        /\ page[e].id = holds[c][i].id
    /\ \A c \in Clients : cli[c].pc = "got" /\ cli[c].r = Inval => cli[c].req.op = "open"

\* A panic in ipc_send() has one of two reasons: the client calls sync() with
\* its request page still shared after fork(), or the client the server answers
\* has been destroyed.
PanicsExplained ==
    /\ \A c \in Clients : cli[c].pc = "panic" => cli[c].req.op = "sync"
    /\ srv.pc = "panic" => srv.whom \in Mortal /\ cli[srv.whom].pc = "dead"

\* What write() has stored so far is what the caller's buffer begins with: "Write
\* at most 'n' bytes from 'buf' to 'fd' at the current seek position".
WritesTheBuffer ==
    \A c \in Clients : cli[c].stored = SubSeq(cli[c].buf, 1, Len(cli[c].stored))

\* A client that waits for the server gets its answer, unless the server has
\* panicked: the server and the clients never wait for each other for ever.
Answered == \A c \in Clients : cli[c].pc = "wait" ~> cli[c].pc # "wait" \/ srv.pc = "panic"

\* The clients' view, with fork(), close() and death in between: OpenFiles.
OpenAt == [i \in Entries |-> IF Mappings(i) > 0
                             THEN [file |-> opentab[i].file, offset |-> page[i].off] ELSE None]
Done == IF srv.pc = "reply" THEN srv.done ELSE None
Promise == INSTANCE OpenFiles WITH fds <- fdmap, at <- OpenAt, answer <- Done,
                                   Opens <- Entries
ImplementsOpenFiles == Promise!Spec
=============================================================================
