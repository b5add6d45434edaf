--------------------------- MODULE FsServerProofs ---------------------------
(***************************************************************************)
(* Proofs about the file server: open files stay open, the panics are      *)
(* explained, and server and clients implement OpenFiles.                  *)
(*                                                                         *)
(* The server takes an entry of opentab for free when nobody but itself    *)
(* has mapped its page, and a client for known when the entry of the       *)
(* client's id is mapped twice and still has that id.  Two facts make this *)
(* work while clients fork, dup, close and die between any two of the      *)
(* server's steps: the mappings of an entry nobody has can only be begun   *)
(* by the server's own answer, and each entry gives out ids of its own     *)
(* (Ids).  A client in fsipc() keeps the descriptor it asks about, and     *)
(* open() the free one it asks for (RequestsOK), so that what was right    *)
(* when it asked is right when the server looks; only death interferes,    *)
(* and the dead are not answered (Asked).                                  *)
(*                                                                         *)
(* The second layer (ViewInv) is what the clients' view needs: the page in *)
(* an answer to open() is new and nobody's, the offset the server took is  *)
(* still the one on the page, and free environments have no descriptors.   *)
(***************************************************************************)
EXTENDS FsServer, FiniteSetTheorems, SequenceTheorems, TLAPS

\* The client the server works for is in fsipc() with that request, or dead.
Asked == \/ cli[srv.whom].pc \in {"sent", "wait"} /\ cli[srv.whom].req = srv.req
         \/ cli[srv.whom].pc = "dead" /\ srv.whom \in Mortal

\* Every entry of opentab gives out its own ids.
Ids == \A e \in Entries : \E k \in Nat : opentab[e].id = e + k * MAXOPEN

\* What a descriptor stands for is what the server has for it.
FdOK(c, i) ==
    /\ fdmap[c][i] = None <=> holds[c][i] = None
    /\ fdmap[c][i] # None => /\ opentab[fdmap[c][i]].mapped
                             /\ opentab[fdmap[c][i]].file = holds[c][i].file
                             /\ opentab[fdmap[c][i]].id = holds[c][i].id
                             /\ page[fdmap[c][i]].id = holds[c][i].id
FdsOK == \A c \in Clients : \A i \in Slots : FdOK(c, i)

\* A client that is in fsipc() has not touched the descriptor it is about.
RequestOK(c) ==
    /\ cow[c] => cli[c].req.op = "sync"
    /\ cli[c].req.op = "open" /\ cli[c].pc # "got" => fdmap[c][cli[c].req.slot] = None
    /\ cli[c].req.op \in FileOps => /\ fdmap[c][cli[c].req.slot] # None
                                    /\ cli[c].req.id = holds[c][cli[c].req.slot].id
    /\ cli[c].pc = "panic" => cli[c].req.op = "sync"
    /\ cli[c].pc = "got" => cli[c].r # Inval
RequestsOK == \A c \in Clients : cli[c].pc \in Busy => RequestOK(c)

\* Only the dead are refused, and an open file's page is filled in before it is
\* sent.
AnswerOK ==
    /\ srv.r = Inval => cli[srv.whom].pc = "dead"
    /\ srv.entry # None => /\ srv.req.op = "open"
                           /\ opentab[srv.entry].mapped
                           /\ opentab[srv.entry].file \in Files
                           /\ opentab[srv.entry].file = srv.req.file
                           /\ page[srv.entry].id = opentab[srv.entry].id

ServerOK ==
    /\ srv.pc \in {"handle", "scan", "move", "reply"} => Asked
    /\ srv.pc = "handle" => srv.req.op # "open"
    /\ srv.pc = "scan" => srv.req.op = "open"
    /\ srv.pc = "move" => srv.req.op \in {"read", "write"} /\ opentab[srv.entry].file \in Files
    /\ srv.pc = "reply" => AnswerOK
    /\ srv.pc = "panic" => srv.whom \in Mortal /\ cli[srv.whom].pc = "dead"

IInv == TypeOK /\ Ids /\ FdsOK /\ RequestsOK /\ ServerOK
------------------------------------------------------------------------------
LEMMA Apart == /\ None \notin Entries /\ None \notin OpenFile /\ Missing \notin Files
               /\ None \notin Transfers /\ None \notin [file : Files, offset : Nat]
BY NoneAssumption DEF Entries

LEMMA InRequest ==
    ASSUME NEW q \in Requests
    PROVE  /\ q.op \in {"open", "sync"} \cup FileOps
           /\ q.op = "open" => q.slot \in Slots /\ q.file \in Files \cup {Missing}
           /\ q.op \in FileOps => q.slot \in Slots /\ q.id \in Nat
           /\ q.op = "write" => q.words \in Seq(Words)
BY DEF Requests, FileOps

LEMMA InServer ==
    ASSUME NEW s \in ServerStates
    PROVE  /\ s.pc \in {"recv", "panic", "handle", "scan", "move", "reply"}
           /\ s.pc # "recv" => s.whom \in Clients
           /\ s.pc \in {"handle", "scan", "move", "reply"} => s.req \in Requests
           /\ s.pc = "scan" => s.entry \in 0 .. MAXOPEN
           /\ s.pc = "move" => s.entry \in Entries /\ s.off \in Nat
           /\ s.pc = "reply" => s.r \in Int /\ s.entry \in Entries \cup {None}
                                /\ s.done \in Transfers \cup {None}
BY DEF ServerStates

LEMMA InClient ==
    ASSUME NEW x \in ClientStates
    PROVE  /\ x.pc \in {"free", "dead", "run"} \cup Busy
           /\ x.buf \in Seq(Words) /\ x.stored \in Seq(Words)
           /\ x = [pc |-> x.pc, req |-> x.req, buf |-> x.buf, stored |-> x.stored, r |-> x.r]
BY DEF ClientStates

LEMMA NewClient ==
    ASSUME NEW p \in {"free", "dead", "run"}
    PROVE  Client(p) \in ClientStates /\ Client(p).pc = p /\ p \notin Busy
BY DEF Client, ClientStates, Busy

(* What the server is doing does not depend on a client it has nothing to do  *)
(* with.                                                                      *)
LEMMA ServerKept ==
    ASSUME IInv, NEW c \in Clients, cli[c].pc \notin {"sent", "wait", "dead"},
           \A d \in Clients \ {c} : cli'[d] = cli[d], UNCHANGED <<srv, opentab>>,
           \A e \in Entries : page'[e].id = page[e].id
    PROVE  ServerOK'
<1>1. srv.pc # "recv" => srv.whom \in Clients
  BY InServer DEF IInv, TypeOK
<1>2. srv.pc \in {"handle", "scan", "move", "reply", "panic"} => cli'[srv.whom] = cli[srv.whom]
  BY <1>1 DEF IInv, ServerOK, Asked
<1>3. srv.pc = "reply" /\ srv.entry # None => page'[srv.entry].id = page[srv.entry].id
  BY InServer DEF IInv, TypeOK
<1> QED
  BY <1>2, <1>3 DEF IInv, ServerOK, Asked, AnswerOK

LEMMA IdsKept == ASSUME IInv, UNCHANGED opentab PROVE Ids'
BY DEF IInv, Ids

------------------------------------------------------------------------------
LEMMA DupInv == ASSUME IInv, NEW c \in Clients, Dup(c) PROVE IInv'
<1>1. PICK i \in Slots \ FreeSlots(c), j \in FreeSlots(c) :
         /\ fdmap' = [fdmap EXCEPT ![c][j] = fdmap[c][i]]
         /\ holds' = [holds EXCEPT ![c][j] = holds[c][i]]
  BY DEF Dup
<1>2. /\ UNCHANGED <<cli, cow, srv, opentab, page, content>> /\ calls' = calls + 1
      /\ cli[c].pc = "run"
  BY DEF Dup, Ready
<1>3. i \in Slots /\ j \in Slots /\ fdmap[c][j] = None
  BY DEF FreeSlots
<1>4. TypeOK'
  BY <1>1, <1>2, <1>3 DEF IInv, TypeOK
<1>5. FdsOK'
  BY <1>1, <1>2, <1>3 DEF IInv, TypeOK, FdsOK, FdOK
<1>6. RequestsOK'
  <2> SUFFICES ASSUME NEW d \in Clients, cli[d].pc \in Busy PROVE RequestOK(d)'
    BY <1>2 DEF RequestsOK
  <2>1. d # c
    BY <1>2 DEF Busy
  <2>2. fdmap'[d] = fdmap[d] /\ holds'[d] = holds[d]
    BY <1>1, <1>3, <2>1 DEF IInv, TypeOK
  <2> QED
    BY <1>2, <2>2 DEF IInv, RequestsOK, RequestOK
<1>7. ServerOK'
  BY <1>2, ServerKept
<1> QED
  BY <1>2, <1>4, <1>5, <1>6, <1>7, IdsKept DEF IInv

LEMMA ForkInv == ASSUME IInv, NEW c \in Clients, Fork(c) PROVE IInv'
<1>1. PICK d \in Clients :
         /\ cli[d].pc = "free"
         /\ cli' = [cli EXCEPT ![d] = Idle]
         /\ fdmap' = [fdmap EXCEPT ![d] = fdmap[c]]
         /\ holds' = [holds EXCEPT ![d] = holds[c]]
         /\ cow' = [cow EXCEPT ![c] = TRUE, ![d] = TRUE]
  BY DEF Fork
<1>2. UNCHANGED <<srv, opentab, page, content, calls>> /\ cli[c].pc = "run"
  BY DEF Fork, Ready, kept
<1>3. Idle \in ClientStates /\ Idle.pc = "run"
  BY NewClient DEF Idle
<1>4. /\ cli' \in [Clients -> ClientStates] /\ cli'[d].pc = "run"
      /\ \A f \in Clients \ {d} : cli'[f] = cli[f]
  BY <1>1, <1>3 DEF IInv, TypeOK
<1>5. TypeOK'
  <2>1. \A f \in Clients : cli'[f].pc \in Busy => cli'[f].req \in Requests
    BY <1>4 DEF IInv, TypeOK, Busy
  <2> QED
    BY <1>1, <1>2, <1>4, <2>1 DEF IInv, TypeOK
<1>6. FdsOK'
  BY <1>1, <1>2 DEF IInv, TypeOK, FdsOK, FdOK
<1>7. RequestsOK'
  <2> SUFFICES ASSUME NEW f \in Clients, cli'[f].pc \in Busy PROVE RequestOK(f)'
    BY DEF RequestsOK
  <2>1. f # d /\ cli'[f] = cli[f]
    BY <1>4 DEF Busy
  <2>2. f # c
    BY <1>2, <2>1 DEF Busy
  <2>3. fdmap'[f] = fdmap[f] /\ holds'[f] = holds[f] /\ cow'[f] = cow[f]
    BY <1>1, <2>1, <2>2 DEF IInv, TypeOK
  <2> QED
    BY <2>1, <2>3 DEF IInv, RequestsOK, RequestOK
<1>8. ServerOK'
  BY <1>1, <1>2, <1>4, ServerKept
<1> QED
  BY <1>2, <1>5, <1>6, <1>7, <1>8, IdsKept DEF IInv

LEMMA SeekInv == ASSUME IInv, NEW c \in Clients, Seek(c) PROVE IInv'
<1>1. PICK i \in Slots \ FreeSlots(c) : page' = [page EXCEPT ![fdmap[c][i]].off = 0]
  BY DEF Seek
<1>2. UNCHANGED <<cli, fdmap, cow, srv, opentab, holds, content, calls>> /\ cli[c].pc = "run"
  BY DEF Seek, Ready, kept
<1>3. fdmap[c][i] \in Entries
  BY DEF FreeSlots, IInv, TypeOK
<1>4. /\ page' \in [Entries -> [id : Nat, off : Nat]]
      /\ \A e \in Entries : page'[e].id = page[e].id
  BY <1>1, <1>3 DEF IInv, TypeOK
<1>5. TypeOK'
  BY <1>2, <1>4 DEF IInv, TypeOK
<1>6. FdsOK'
  BY <1>2, <1>4 DEF IInv, TypeOK, FdsOK, FdOK
<1>7. RequestsOK'
  BY <1>2 DEF IInv, RequestsOK, RequestOK
<1>8. ServerOK'
  BY <1>2, <1>4, ServerKept
<1> QED
  BY <1>2, <1>5, <1>6, <1>7, <1>8, IdsKept DEF IInv

(* exit() and sys_env_destroy(): the server may be about to answer the dead.  *)
LEMMA GoneInv ==
    ASSUME IInv, NEW c \in Clients, Gone(c), cli[c].pc = "run" \/ c \in Mortal PROVE IInv'
<1>1. /\ UNCHANGED <<cow, srv, opentab, page, content, calls>>
      /\ fdmap' = [fdmap EXCEPT ![c] = NoFds] /\ holds' = [holds EXCEPT ![c] = NoFds]
  BY DEF Gone, kept
<1>2. /\ cli' \in [Clients -> ClientStates] /\ cli'[c].pc = "dead"
      /\ \A d \in Clients \ {c} : cli'[d] = cli[d]
  BY NewClient DEF Gone, IInv, TypeOK
<1>3. TypeOK'
  <2>1. \A d \in Clients : cli'[d].pc \in Busy => cli'[d].req \in Requests
    BY <1>2 DEF IInv, TypeOK, Busy
  <2>2. NoFds \in [Slots -> Entries \cup {None}] /\ NoFds \in [Slots -> OpenFile \cup {None}]
    BY DEF NoFds
  <2> QED
    BY <1>1, <1>2, <2>1, <2>2 DEF IInv, TypeOK
<1>4. FdsOK'
  BY <1>1 DEF IInv, TypeOK, FdsOK, FdOK, NoFds
<1>5. RequestsOK'
  <2> SUFFICES ASSUME NEW d \in Clients, cli'[d].pc \in Busy PROVE RequestOK(d)'
    BY DEF RequestsOK
  <2>1. d # c /\ cli'[d] = cli[d]
    BY <1>2 DEF Busy
  <2>2. fdmap'[d] = fdmap[d] /\ holds'[d] = holds[d] /\ cow'[d] = cow[d]
    BY <1>1, <2>1 DEF IInv, TypeOK
  <2> QED
    BY <2>1, <2>2 DEF IInv, RequestsOK, RequestOK
<1>6. ServerOK'
  <2>1. CASE cli[c].pc = "run"
    BY <1>1, <1>2, <2>1, ServerKept
  <2>2. CASE c \in Mortal
    <3>1. srv.pc # "recv" => srv.whom \in Clients
      BY InServer DEF IInv, TypeOK
    <3>2. srv.pc # "recv" => \/ srv.whom = c
                             \/ cli'[srv.whom] = cli[srv.whom]
      BY <1>2, <3>1
    <3> QED
      BY <1>1, <1>2, <2>2, <3>1, <3>2 DEF IInv, ServerOK, Asked, AnswerOK
  <2> QED
    BY <2>1, <2>2
<1> QED
  BY <1>1, <1>3, <1>4, <1>5, <1>6, IdsKept DEF IInv

LEMMA NoWords == << >> \in Seq(Words)
OBVIOUS

(* A client that has nothing to wait for makes a request.                     *)
LEMMA CallInv ==
    ASSUME IInv, NEW c \in Clients, NEW q \in Requests, NEW b \in Seq(Words),
           Ready(c), Call(c, q, b), calls' \in Nat, content' = content,
           q.op = "open" => fdmap[c][q.slot] = None,
           q.op \in FileOps => /\ fdmap[c][q.slot] # None
                               /\ q.id = holds[c][q.slot].id
    PROVE  IInv'
<1>1. UNCHANGED <<fdmap, holds, srv, opentab, page>> /\ cli[c].pc = "run"
  BY DEF Call, Ready
<1> DEFINE x == [Client("send") EXCEPT !.req = q, !.buf = b]
<1>2. x \in ClientStates /\ x.pc = "send" /\ x.req = q
  BY NoWords DEF Client, ClientStates, Busy
<1>3. cli' = [cli EXCEPT ![c] = x]
  BY DEF Call
<1> HIDE DEF x
<1>4. /\ cli' \in [Clients -> ClientStates] /\ cli'[c].pc = "send" /\ cli'[c].req = q
      /\ \A d \in Clients \ {c} : cli'[d] = cli[d]
  BY <1>2, <1>3 DEF IInv, TypeOK
<1>5. /\ cow' \in [Clients -> BOOLEAN]
      /\ cow'[c] => q.op = "sync"
      /\ \A d \in Clients \ {c} : cow'[d] = cow[d]
  BY DEF Call, IInv, TypeOK
<1>6. TypeOK'
  <2>1. \A d \in Clients : cli'[d].pc \in Busy => cli'[d].req \in Requests
    BY <1>4 DEF IInv, TypeOK
  <2> QED
    BY <1>1, <1>4, <1>5, <2>1 DEF IInv, TypeOK
<1>7. FdsOK'
  BY <1>1 DEF IInv, FdsOK, FdOK
<1>8. RequestsOK'
  <2> SUFFICES ASSUME NEW d \in Clients, cli'[d].pc \in Busy PROVE RequestOK(d)'
    BY DEF RequestsOK
  <2>1. CASE d = c
    BY <1>1, <1>4, <1>5, <2>1 DEF RequestOK
  <2>2. CASE d # c
    BY <1>1, <1>4, <1>5, <2>2 DEF IInv, RequestsOK, RequestOK
  <2> QED
    BY <2>1, <2>2
<1>9. ServerOK'
  BY <1>1, <1>4, ServerKept
<1> QED
  BY <1>1, <1>6, <1>7, <1>8, <1>9, IdsKept DEF IInv

LEMMA CallOpenInv == ASSUME IInv, NEW c \in Clients, CallOpen(c) PROVE IInv'
<1>1. PICK i \in FreeSlots(c), f \in Files \cup {Missing}, trunc \in BOOLEAN :
         Call(c, [op |-> "open", file |-> f, trunc |-> trunc, slot |-> i], << >>)
  BY DEF CallOpen
<1> DEFINE q == [op |-> "open", file |-> f, trunc |-> trunc, slot |-> i]
<1>3. q \in Requests /\ q.op = "open" /\ fdmap[c][q.slot] = None
  BY DEF Requests, FreeSlots
<1>4. "open" \notin FileOps
  BY DEF FileOps
<1> HIDE DEF q
<1>5. Ready(c) /\ calls' \in Nat /\ content' = content
  BY DEF CallOpen, IInv, TypeOK
<1> QED
  BY <1>1, <1>3, <1>4, <1>5, NoWords, CallInv DEF q

(* The id on the page of a descriptor is the one open() gave.                 *)
LEMMA SlotOpen ==
    ASSUME IInv, NEW c \in Clients, NEW i \in Slots \ FreeSlots(c)
    PROVE  /\ i \in Slots /\ fdmap[c][i] # None /\ fdmap[c][i] \in Entries
           /\ page[fdmap[c][i]].id = holds[c][i].id /\ page[fdmap[c][i]].id \in Nat
BY DEF FreeSlots, IInv, TypeOK, FdsOK, FdOK

LEMMA CallFileInv == ASSUME IInv, NEW c \in Clients, CallFile(c) PROVE IInv'
<1>1. Ready(c) /\ calls' \in Nat /\ content' = content
  BY DEF CallFile, IInv, TypeOK, kept
<1>2. ASSUME NEW i \in Slots \ FreeSlots(c), NEW op \in {"read", "stat", "set_size"},
             Call(c, [op |-> op, id |-> page[fdmap[c][i]].id, slot |-> i], << >>)
      PROVE  IInv'
  <2> DEFINE q == [op |-> op, id |-> page[fdmap[c][i]].id, slot |-> i]
  <2>1. /\ q \in Requests /\ q.op # "open" /\ fdmap[c][q.slot] # None
        /\ q.id = holds[c][q.slot].id
    BY SlotOpen DEF Requests, FileOps
  <2> HIDE DEF q
  <2> QED
    BY <1>1, <1>2, <2>1, NoWords, CallInv DEF q
<1>3. ASSUME Call(c, [op |-> "sync"], << >>) PROVE IInv'
  <2> DEFINE q == [op |-> "sync"]
  <2>1. q \in Requests /\ q.op # "open" /\ q.op \notin FileOps
    BY DEF Requests, FileOps
  <2> HIDE DEF q
  <2> QED
    BY <1>1, <1>3, <2>1, NoWords, CallInv DEF q
<1> QED
  BY <1>2, <1>3 DEF CallFile

LEMMA PartType ==
    ASSUME NEW buf \in Seq(Words), NEW done \in Nat, done <= Len(buf)
    PROVE  Part(buf, done) \in Seq(Words)
<1> DEFINE n == IF Len(buf) - done < CHUNK THEN Len(buf) - done ELSE CHUNK
<1>1. n \in 0 .. Len(buf)
  BY SizeAssumption, LenProperties
<1> HIDE DEF n
<1>2. SubSeq(buf, 1, n) \in Seq(Words)
  BY <1>1, SubSeqProperties, LenProperties
<1> QED
  BY <1>2 DEF Part, n

LEMMA CallWriteInv == ASSUME IInv, NEW c \in Clients, CallWrite(c) PROVE IInv'
<1>1. PICK i \in Slots \ FreeSlots(c), buf \in Buffers :
         Call(c, [op |-> "write", id |-> page[fdmap[c][i]].id, slot |-> i,
                  words |-> Part(buf, 0)], buf)
  BY DEF CallWrite
<1>2. buf \in Seq(Words) /\ Part(buf, 0) \in Seq(Words)
  <2>1. buf \in Seq(Words)
    BY SizeAssumption
  <2>2. Len(buf) \in Nat
    BY <2>1, LenProperties
  <2> QED
    BY <2>1, <2>2, PartType
<1> DEFINE q == [op |-> "write", id |-> page[fdmap[c][i]].id, slot |-> i, words |-> Part(buf, 0)]
<1>3. /\ q \in Requests /\ q.op # "open" /\ fdmap[c][q.slot] # None
      /\ q.id = holds[c][q.slot].id
  BY <1>2, SlotOpen DEF Requests, FileOps
<1>4. Ready(c) /\ calls' \in Nat /\ content' = content
  BY DEF CallWrite, IInv, TypeOK
<1> HIDE DEF q
<1> QED
  BY <1>1, <1>2, <1>3, <1>4, CallInv DEF q

LEMMA CallCloseInv == ASSUME IInv, NEW c \in Clients, CallClose(c) PROVE IInv'
<1>1. PICK i \in Slots \ FreeSlots(c) :
         Call(c, [op |-> "flush", id |-> page[fdmap[c][i]].id, slot |-> i], << >>)
  BY DEF CallClose
<1> DEFINE q == [op |-> "flush", id |-> page[fdmap[c][i]].id, slot |-> i]
<1>2. /\ q \in Requests /\ q.op # "open" /\ fdmap[c][q.slot] # None
      /\ q.id = holds[c][q.slot].id
  BY SlotOpen DEF Requests, FileOps
<1>3. Ready(c) /\ calls' \in Nat /\ content' = content
  BY DEF CallClose, IInv, TypeOK, kept
<1> HIDE DEF q
<1> QED
  BY <1>1, <1>2, <1>3, NoWords, CallInv DEF q

------------------------------------------------------------------------------
LEMMA SendInv == ASSUME IInv, NEW c \in Clients, Send(c) PROVE IInv'
<1>1. /\ cli[c].pc = "send" /\ srv.pc = "recv"
      /\ UNCHANGED <<fdmap, holds, cow, opentab, page, content, calls>>
  BY DEF Send, kept
<1>2. cli[c] \in ClientStates /\ cli[c].req \in Requests /\ RequestOK(c)
  BY <1>1 DEF IInv, TypeOK, RequestsOK, Busy
<1>3. PICK p \in {"panic", "sent"} : /\ cli' = [cli EXCEPT ![c].pc = p]
                                     /\ p = "panic" => cow[c] /\ srv' = srv
                                     /\ p = "sent" => srv' = Received(c, cli[c].req)
  BY DEF Send
<1>4. /\ cli' \in [Clients -> ClientStates] /\ cli'[c].pc = p /\ cli'[c].req = cli[c].req
      /\ \A d \in Clients \ {c} : cli'[d] = cli[d]
  BY <1>2, <1>3 DEF IInv, TypeOK, ClientStates, Busy
<1>5. /\ srv' \in ServerStates
      /\ \/ srv'.pc = "recv"
         \/ /\ srv'.pc \in {"scan", "handle"} /\ srv'.whom = c /\ srv'.req = cli[c].req
            /\ p = "sent" /\ (srv'.pc = "scan" <=> cli[c].req.op = "open")
  <2>1. CASE p = "panic"
    BY <1>1, <1>3, <2>1 DEF IInv, TypeOK
  <2>2. CASE p = "sent"
    <3>1. 0 \in 0 .. MAXOPEN
      BY SizeAssumption
    <3> QED
      BY <1>2, <1>3, <2>2, <3>1 DEF Received, ServerStates
  <2> QED
    BY <2>1, <2>2
<1>6. TypeOK'
  <2>1. \A d \in Clients : cli'[d].pc \in Busy => cli'[d].req \in Requests
    BY <1>2, <1>4 DEF IInv, TypeOK
  <2> QED
    BY <1>1, <1>4, <1>5, <2>1 DEF IInv, TypeOK
<1>7. FdsOK'
  BY <1>1 DEF IInv, FdsOK, FdOK
<1>8. RequestsOK'
  <2> SUFFICES ASSUME NEW d \in Clients, cli'[d].pc \in Busy PROVE RequestOK(d)'
    BY DEF RequestsOK
  <2>1. CASE d = c
    BY <1>1, <1>2, <1>3, <1>4, <2>1 DEF RequestOK
  <2>2. CASE d # c
    BY <1>1, <1>4, <2>2 DEF IInv, RequestsOK, RequestOK
  <2> QED
    BY <2>1, <2>2
<1>9. ServerOK'
  BY <1>4, <1>5 DEF ServerOK, Asked
<1> QED
  BY <1>1, <1>6, <1>7, <1>8, <1>9, IdsKept DEF IInv

LEMMA WaitInv == ASSUME IInv, NEW c \in Clients, Wait(c) PROVE IInv'
<1>1. /\ cli[c].pc = "sent" /\ cli' = [cli EXCEPT ![c].pc = "wait"]
      /\ UNCHANGED <<fdmap, holds, cow, srv, opentab, page, content, calls>>
  BY DEF Wait, kept
<1>2. cli[c] \in ClientStates /\ cli[c].req \in Requests /\ RequestOK(c)
  BY <1>1 DEF IInv, TypeOK, RequestsOK, Busy
<1>3. /\ cli' \in [Clients -> ClientStates] /\ cli'[c].pc = "wait" /\ cli'[c].req = cli[c].req
      /\ \A d \in Clients \ {c} : cli'[d] = cli[d]
  BY <1>1, <1>2 DEF IInv, TypeOK, ClientStates, Busy
<1>4. TypeOK'
  <2>1. \A d \in Clients : cli'[d].pc \in Busy => cli'[d].req \in Requests
    BY <1>2, <1>3 DEF IInv, TypeOK
  <2> QED
    BY <1>1, <1>3, <2>1 DEF IInv, TypeOK
<1>5. FdsOK'
  BY <1>1 DEF IInv, FdsOK, FdOK
<1>6. RequestsOK'
  <2> SUFFICES ASSUME NEW d \in Clients, cli'[d].pc \in Busy PROVE RequestOK(d)'
    BY DEF RequestsOK
  <2>1. CASE d = c
    BY <1>1, <1>2, <1>3, <2>1 DEF RequestOK
  <2>2. CASE d # c
    BY <1>1, <1>3, <2>2 DEF IInv, RequestsOK, RequestOK
  <2> QED
    BY <2>1, <2>2
<1>7. ServerOK'
  <2>1. srv.pc # "recv" => srv.whom \in Clients
    BY InServer DEF IInv, TypeOK
  <2>2. srv.pc # "recv" => \/ srv.whom = c
                           \/ cli'[srv.whom] = cli[srv.whom]
    BY <1>3, <2>1
  <2> QED
    BY <1>1, <1>3, <2>1, <2>2 DEF IInv, ServerOK, Asked, AnswerOK
<1> QED
  BY <1>1, <1>4, <1>5, <1>6, <1>7, IdsKept DEF IInv

(* write() sends the next part; every other answer ends the call, and close() *)
(* unmaps the descriptor.                                                     *)
LEMMA ReturnInv == ASSUME IInv, NEW c \in Clients, Return(c) PROVE IInv'
<1>1. cli[c].pc = "got" /\ UNCHANGED <<cow, srv, opentab, page, content, calls>>
  BY DEF Return, kept
<1>2. cli[c] \in ClientStates /\ cli[c].req \in Requests /\ RequestOK(c)
  BY <1>1 DEF IInv, TypeOK, RequestsOK, Busy
<1>3. /\ cli' \in [Clients -> ClientStates]
      /\ \A d \in Clients \ {c} : cli'[d] = cli[d]
      /\ \/ cli'[c].pc = "run"
         \/ /\ cli'[c].pc = "send" /\ cli'[c].req \in Requests
            /\ cli[c].req.op = "write" /\ cli'[c].req.op = "write"
            /\ cli'[c].req.id = cli[c].req.id /\ cli'[c].req.slot = cli[c].req.slot
  <2>1. CASE cli' = [cli EXCEPT ![c] = Idle]
    BY <2>1, NewClient DEF Idle, IInv, TypeOK
  <2>2. CASE /\ cli[c].req.op = "write" /\ Len(cli[c].stored) < Len(cli[c].buf)
             /\ cli' = [cli EXCEPT ![c].pc = "send",
                                   ![c].req.words = Part(cli[c].buf, Len(cli[c].stored))]
    <3> DEFINE w == Part(cli[c].buf, Len(cli[c].stored))
               q == [cli[c].req EXCEPT !.words = w]
               x == [cli[c] EXCEPT !.pc = "send", !.req = q]
    <3>1. w \in Seq(Words)
      <4>1. cli[c].buf \in Seq(Words) /\ cli[c].stored \in Seq(Words)
        BY <1>2, InClient
      <4>2. Len(cli[c].stored) \in Nat /\ Len(cli[c].buf) \in Nat
        BY <4>1, LenProperties
      <4> QED
        BY <2>2, <4>1, <4>2, PartType
    <3>2. cli' = [cli EXCEPT ![c] = x]
      BY <2>2
    <3> HIDE DEF w
    <3>3. cli[c].req \in [op : {"write"}, id : Nat, slot : Slots, words : Seq(Words)]
      BY <1>2, <2>2 DEF Requests, FileOps
    <3>4. /\ q \in Requests /\ q.op = "write" /\ q.id = cli[c].req.id
          /\ q.slot = cli[c].req.slot
      BY <3>1, <3>3 DEF Requests
    <3> HIDE DEF q
    <3>5. x \in ClientStates /\ x.pc = "send" /\ x.req = q
      BY <1>2, <3>4 DEF ClientStates, Busy
    <3> HIDE DEF x
    <3> QED
      BY <2>2, <3>2, <3>4, <3>5 DEF IInv, TypeOK
  <2> QED
    BY <2>1, <2>2 DEF Return
<1>4. \/ UNCHANGED <<fdmap, holds>>
      \/ /\ cli[c].req.op = "flush" /\ cli[c].req.slot \in Slots
         /\ fdmap' = [fdmap EXCEPT ![c][cli[c].req.slot] = None]
         /\ holds' = [holds EXCEPT ![c][cli[c].req.slot] = None]
  BY <1>2, InRequest DEF Return, Without, FileOps
<1>5. /\ fdmap' \in [Clients -> [Slots -> Entries \cup {None}]]
      /\ holds' \in [Clients -> [Slots -> OpenFile \cup {None}]]
      /\ \A d \in Clients \ {c} : fdmap'[d] = fdmap[d] /\ holds'[d] = holds[d]
  <2>1. CASE UNCHANGED <<fdmap, holds>>
    BY <2>1 DEF IInv, TypeOK
  <2>2. CASE /\ cli[c].req.slot \in Slots
             /\ fdmap' = [fdmap EXCEPT ![c][cli[c].req.slot] = None]
             /\ holds' = [holds EXCEPT ![c][cli[c].req.slot] = None]
    <3>1. /\ fdmap' \in [Clients -> [Slots -> Entries \cup {None}]]
          /\ \A d \in Clients \ {c} : fdmap'[d] = fdmap[d]
      BY <2>2 DEF IInv, TypeOK
    <3>2. /\ holds' \in [Clients -> [Slots -> OpenFile \cup {None}]]
          /\ \A d \in Clients \ {c} : holds'[d] = holds[d]
      BY <2>2 DEF IInv, TypeOK
    <3> QED
      BY <3>1, <3>2
  <2> QED
    BY <1>4, <2>1, <2>2
<1>6. TypeOK'
  <2>1. \A d \in Clients : cli'[d].pc \in Busy => cli'[d].req \in Requests
    BY <1>2, <1>3 DEF IInv, TypeOK, Busy
  <2> QED
    BY <1>1, <1>3, <1>5, <2>1 DEF IInv, TypeOK
<1>7. FdsOK'
  <2> SUFFICES ASSUME NEW d \in Clients, NEW i \in Slots PROVE FdOK(d, i)'
    BY DEF FdsOK
  <2>1. \/ fdmap'[d][i] = None /\ holds'[d][i] = None
        \/ fdmap'[d][i] = fdmap[d][i] /\ holds'[d][i] = holds[d][i]
    BY <1>4 DEF IInv, TypeOK
  <2> QED
    BY <1>1, <2>1 DEF IInv, FdsOK, FdOK
<1>8. RequestsOK'
  <2> SUFFICES ASSUME NEW d \in Clients, cli'[d].pc \in Busy PROVE RequestOK(d)'
    BY DEF RequestsOK
  <2>1. CASE d = c
    <3>1. /\ cli'[c].pc = "send" /\ cli[c].req.op = "write" /\ cli'[c].req.op = "write"
          /\ cli'[c].req.id = cli[c].req.id /\ cli'[c].req.slot = cli[c].req.slot
      BY <1>3, <2>1 DEF Busy
    <3>2. UNCHANGED <<fdmap, holds>>
      BY <1>4, <3>1
    <3> QED
      BY <1>1, <1>2, <2>1, <3>1, <3>2 DEF RequestOK
  <2>2. CASE d # c
    BY <1>1, <1>3, <1>5, <2>2 DEF IInv, RequestsOK, RequestOK
  <2> QED
    BY <2>1, <2>2
<1>9. ServerOK'
  BY <1>1, <1>3, ServerKept
<1> QED
  BY <1>1, <1>6, <1>7, <1>8, <1>9, IdsKept DEF IInv

------------------------------------------------------------------------------
(* pageref(): the server finds the entries that clients have mapped.          *)
MappedIn(d, e) == \E c \in Clients : \E s \in Slots : d[c][s] = e
Mapped(e) == MappedIn(fdmap, e)
PlacesIn(d, e) == {p \in Clients \X Slots : d[p[1]][p[2]] = e}

LEMMA PlacesMapped ==
    ASSUME NEW d, NEW e
    PROVE  /\ Cardinality(PlacesIn(d, e)) \in Nat
           /\ Cardinality(PlacesIn(d, e)) > 0 <=> MappedIn(d, e)
<1> DEFINE S == PlacesIn(d, e)
<1>1. IsFiniteSet(S)
  BY FS_Product, FS_Subset, SizeAssumption, SlotsAssumption DEF PlacesIn
<1>2. S # {} <=> MappedIn(d, e)
  <2>1. ASSUME NEW c \in Clients, NEW s \in Slots, d[c][s] = e PROVE S # {}
    <3>1. <<c, s>> \in S
      BY <2>1 DEF PlacesIn
    <3> QED
      BY <3>1
  <2>2. ASSUME NEW p \in S PROVE MappedIn(d, e)
    BY <2>2 DEF MappedIn, PlacesIn
  <2> QED
    BY <2>1, <2>2 DEF MappedIn
<1> HIDE DEF S
<1>3. Cardinality(S) \in Nat /\ (Cardinality(S) = 0 <=> S = {})
  BY <1>1, FS_CardinalityType, FS_EmptySet
<1> QED
  BY <1>2, <1>3 DEF S

LEMMA MappingsMapped ==
    ASSUME NEW i PROVE Mappings(i) \in Nat /\ (Mappings(i) >= 1 <=> Mapped(i))
<1>1. Mappings(i) = Cardinality(PlacesIn(fdmap, i))
  BY DEF Mappings, PlacesIn
<1> QED
  BY <1>1, PlacesMapped DEF Mapped

LEMMA OpenIsMapped ==
    ASSUME IInv, NEW i \in Entries, Mapped(i)
    PROVE  opentab[i].mapped /\ opentab[i].file \in Files /\ PageRef(i) > 1
<1>1. opentab[i].mapped /\ opentab[i].file \in Files
  BY Apart DEF Mapped, MappedIn, IInv, TypeOK, FdsOK, FdOK, OpenFile
<1> QED
  BY <1>1, MappingsMapped DEF PageRef

LEMMA RefTellsMapped ==
    ASSUME NEW i PROVE PageRef(i) > 1 => Mapped(i)
BY MappingsMapped DEF PageRef

LEMMA IdEntry ==
    ASSUME IInv, NEW e \in Entries PROVE opentab[e].id % MAXOPEN = e
<1>1. PICK k \in Nat : opentab[e].id = e + k * MAXOPEN
  BY DEF IInv, Ids
<1>2. MAXOPEN \in Nat /\ MAXOPEN > 0 /\ e \in 0 .. MAXOPEN - 1
  BY SizeAssumption DEF Entries
<1>3. \A a \in 0 .. MAXOPEN - 1 : \A n \in Nat : (a + n * MAXOPEN) % MAXOPEN = a
  BY <1>2
<1> QED
  BY <1>1, <1>2, <1>3

(* The server does not refuse a client that lives a file it has open.         *)
LEMMA LiveIsOpen ==
    ASSUME IInv, srv.pc = "handle", srv.req.op # "sync", cli[srv.whom].pc # "dead"
    PROVE  IsOpen(srv.req.id)
<1>1. /\ srv.whom \in Clients /\ cli[srv.whom].pc \in {"sent", "wait"}
      /\ cli[srv.whom].req = srv.req /\ srv.req.op # "open" /\ srv.req \in Requests
  BY InServer DEF IInv, TypeOK, ServerOK, Asked
<1>2. srv.req.op \in FileOps /\ srv.req.slot \in Slots
  BY <1>1, InRequest
<1> DEFINE e == fdmap[srv.whom][srv.req.slot]
<1>3. e # None /\ srv.req.id = holds[srv.whom][srv.req.slot].id
  BY <1>1, <1>2 DEF IInv, RequestsOK, RequestOK, Busy
<1>4. e \in Entries /\ Mapped(e) /\ opentab[e].id = srv.req.id
  BY <1>1, <1>2, <1>3 DEF IInv, TypeOK, FdsOK, FdOK, Mapped, MappedIn
<1> HIDE DEF e
<1>5. srv.req.id % MAXOPEN = e
  BY <1>4, IdEntry
<1> QED
  BY <1>4, <1>5, OpenIsMapped DEF IsOpen

------------------------------------------------------------------------------
(* The server goes on with the request of a client, and nobody else notices.  *)
LEMMA ServerStep ==
    ASSUME IInv, srv.pc \in {"handle", "scan", "move"},
           UNCHANGED <<fdmap, cow, holds, calls, opentab>>,
           srv' \in ServerStates, srv'.whom = srv.whom, srv'.req = srv.req,
           content' \in [Files -> FileWords],
           page' \in [Entries -> [id : Nat, off : Nat]],
           \A e \in Entries : page'[e].id = page[e].id,
           cli' \in [Clients -> ClientStates],
           \A c \in Clients : /\ cli'[c].pc = cli[c].pc /\ cli'[c].req = cli[c].req
                              /\ cli'[c].r = cli[c].r,
           \/ srv'.pc = "reply" /\ (srv'.r = Inval => cli[srv.whom].pc = "dead")
              /\ srv'.entry = None
           \/ srv'.pc = "scan" /\ srv.pc = "scan"
           \/ srv'.pc = "move" /\ srv.req.op \in {"read", "write"}
              /\ opentab[srv'.entry].file \in Files
    PROVE  IInv'
<1>1. TypeOK'
  <2>1. \A d \in Clients : cli'[d].pc \in Busy => cli'[d].req \in Requests
    BY DEF IInv, TypeOK
  <2> QED
    BY <2>1 DEF IInv, TypeOK
<1>2. FdsOK'
  BY DEF IInv, TypeOK, FdsOK, FdOK
<1>3. RequestsOK'
  BY DEF IInv, RequestsOK, RequestOK
<1>4. srv.whom \in Clients
  BY InServer DEF IInv, TypeOK
<1>5. ServerOK'
  <2>1. Asked'
    BY <1>4 DEF IInv, ServerOK, Asked
  <2> QED
    BY <2>1, <1>4 DEF IInv, ServerOK, AnswerOK
<1> QED
  BY <1>1, <1>2, <1>3, <1>5, IdsKept DEF IInv

(* What serve() answers is in the type of its answers.                        *)
LEMMA RespondType ==
    ASSUME IInv, srv.pc \in {"handle", "scan", "move"}, NEW r \in Int,
           NEW e \in Entries \cup {None}, NEW t \in Transfers \cup {None}, Respond(r, e, t)
    PROVE  /\ srv' \in ServerStates /\ srv'.pc = "reply" /\ srv'.whom = srv.whom
           /\ srv'.req = srv.req /\ srv'.r = r /\ srv'.entry = e
<1>1. srv.whom \in Clients /\ srv.req \in Requests
  BY InServer DEF IInv, TypeOK
<1> QED
  BY <1>1 DEF Respond, ServerStates

LEMMA HandleInv == ASSUME IInv, Handle PROVE IInv'
<1>1. /\ srv.pc = "handle"
      /\ UNCHANGED <<cli, fdmap, cow, opentab, page, holds, calls>>
  BY DEF Handle
<1>2. /\ srv.whom \in Clients /\ srv.req \in Requests
      /\ srv.req.op \in {"sync"} \cup FileOps
  BY <1>1, InServer, InRequest DEF IInv, TypeOK, ServerOK
<1>3. ASSUME NEW r \in Int, Answer(r), r = Inval => cli[srv.whom].pc = "dead",
             content' \in [Files -> FileWords]
      PROVE  IInv'
  <2>1. /\ srv' \in ServerStates /\ srv'.pc = "reply" /\ srv'.whom = srv.whom
        /\ srv'.req = srv.req /\ srv'.r = r /\ srv'.entry = None
    BY <1>1, <1>3, RespondType DEF Answer
  <2>2. /\ page' \in [Entries -> [id : Nat, off : Nat]]
        /\ cli' \in [Clients -> ClientStates]
    BY <1>1 DEF IInv, TypeOK
  <2> QED
    BY <1>1, <1>3, <2>1, <2>2, ServerStep
<1>4. ASSUME srv.req.op # "sync", ~IsOpen(srv.req.id), Answer(Inval), content' = content
      PROVE  IInv'
  <2>1. cli[srv.whom].pc = "dead"
    BY <1>1, <1>4, LiveIsOpen
  <2>2. Inval \in Int /\ content' \in [Files -> FileWords]
    BY <1>4 DEF Inval, IInv, TypeOK
  <2> QED
    BY <1>3, <1>4, <2>1, <2>2
<1>5. ASSUME Answer(0), content' = content PROVE IInv'
  <2>1. 0 # Inval /\ content' \in [Files -> FileWords]
    BY <1>5 DEF Inval, IInv, TypeOK
  <2> QED
    BY <1>3, <1>5, <2>1
<1>6. ASSUME IsOpen(srv.req.id), srv.req.op \in FileOps
      PROVE  /\ srv.req.id % MAXOPEN \in Entries
             /\ opentab[srv.req.id % MAXOPEN].file \in Files
  <2>1. srv.req.id \in Nat
    BY <1>2, <1>6, InRequest
  <2>2. MAXOPEN \in Nat /\ MAXOPEN > 0
    BY SizeAssumption
  <2>3. srv.req.id % MAXOPEN \in 0 .. MAXOPEN - 1
    BY <2>1, <2>2
  <2>4. Mapped(srv.req.id % MAXOPEN)
    BY <1>6, RefTellsMapped DEF IsOpen
  <2> QED
    BY <2>3, <2>4, OpenIsMapped DEF Entries
<1>7. ASSUME IsOpen(srv.req.id), srv.req.op = "set_size", Answer(0),
             content' = [content EXCEPT ![opentab[srv.req.id % MAXOPEN].file] = << >>]
      PROVE  IInv'
  <2>1. content' \in [Files -> FileWords]
    <3>1. << >> \in FileWords
      BY DEF FileWords
    <3> QED
      BY <1>6, <1>7, <3>1 DEF IInv, TypeOK, FileOps
  <2> QED
    BY <1>3, <1>7, <2>1 DEF Inval
<1>8. ASSUME IsOpen(srv.req.id), srv.req.op \in {"read", "write"}, content' = content,
             srv' = [pc |-> "move", whom |-> srv.whom, req |-> srv.req,
                     entry |-> srv.req.id % MAXOPEN,
                     off |-> page[srv.req.id % MAXOPEN].off]
      PROVE  IInv'
  <2>1. /\ srv.req.id % MAXOPEN \in Entries
        /\ opentab[srv.req.id % MAXOPEN].file \in Files
        /\ page[srv.req.id % MAXOPEN].off \in Nat
    BY <1>6, <1>8 DEF FileOps, IInv, TypeOK
  <2>2. /\ srv' \in ServerStates /\ srv'.pc = "move" /\ srv'.whom = srv.whom
        /\ srv'.req = srv.req /\ opentab[srv'.entry].file \in Files
    BY <1>2, <1>8, <2>1 DEF ServerStates
  <2>3. /\ page' \in [Entries -> [id : Nat, off : Nat]]
        /\ cli' \in [Clients -> ClientStates] /\ content' \in [Files -> FileWords]
    BY <1>1, <1>8 DEF IInv, TypeOK
  <2> QED
    BY <1>1, <1>8, <2>2, <2>3, ServerStep
<1> QED
  BY <1>2, <1>4, <1>5, <1>7, <1>8 DEF Handle, FileOps

(* file_write() and file_read() on the words of a file.                       *)
LEMMA StoredType ==
    ASSUME NEW old \in FileWords, NEW off \in Nat, NEW new \in Seq(Words)
    PROVE  Stored(old, off, new) \in FileWords
<1> DEFINE n == IF Len(old) > off + Len(new) THEN Len(old) ELSE off + Len(new)
           w(k) == IF k > off /\ k <= off + Len(new) THEN new[k - off]
                   ELSE IF k <= Len(old) THEN old[k] ELSE None
<1>1. Len(old) \in Nat /\ Len(new) \in Nat
  BY DEF FileWords
<1>2. n \in Nat
  BY <1>1
<1>3. ASSUME NEW k \in 1 .. n PROVE w(k) \in Words \cup {None}
  <2>1. k > off /\ k <= off + Len(new) => k - off \in 1 .. Len(new)
    BY <1>1, <1>2
  <2>2. k <= Len(old) => k \in 1 .. Len(old)
    BY <1>1, <1>2
  <2>3. \A j \in 1 .. Len(new) : new[j] \in Words
    OBVIOUS
  <2>4. \A j \in 1 .. Len(old) : old[j] \in Words \cup {None}
    BY DEF FileWords
  <2> QED
    BY <2>1, <2>2, <2>3, <2>4
<1> HIDE DEF n, w
<1>4. [k \in 1 .. n |-> w(k)] \in Seq(Words \cup {None})
  BY <1>2, <1>3
<1> QED
  BY <1>4 DEF Stored, FileWords, n, w

LEMMA FoundType ==
    ASSUME NEW words \in FileWords, NEW off \in Nat
    PROVE  Found(words, off) \in FileWords /\ Len(Found(words, off)) \in Nat
<1>1. Len(words) \in Nat /\ \A j \in 1 .. Len(words) : words[j] \in Words \cup {None}
  BY DEF FileWords
<1>2. off < Len(words) => words[off + 1] \in Words \cup {None}
  BY <1>1
<1>3. Found(words, off) \in FileWords
  <2>1. CASE off < Len(words)
    <3>1. <<words[off + 1]>> \in FileWords
      BY <1>2, <2>1 DEF FileWords
    <3> QED
      BY <2>1, <3>1 DEF Found
  <2>2. CASE ~(off < Len(words))
    <3>1. << >> \in FileWords
      BY DEF FileWords
    <3> QED
      BY <2>2, <3>1 DEF Found
  <2> QED
    BY <2>1, <2>2
<1> QED
  BY <1>3 DEF FileWords

LEMMA MoveInv == ASSUME IInv, Move PROVE IInv'
<1>1. /\ srv.pc = "move"
      /\ UNCHANGED <<fdmap, cow, opentab, holds, calls>>
  BY DEF Move
<1> DEFINE f == opentab[srv.entry].file
<1>2. /\ srv.whom \in Clients /\ srv.req \in Requests /\ srv.entry \in Entries
      /\ srv.off \in Nat /\ srv.req.op \in {"read", "write"} /\ f \in Files
  BY <1>1, InServer DEF IInv, TypeOK, ServerOK
<1>3. content[f] \in FileWords
  BY <1>2 DEF IInv, TypeOK
<1>4. ASSUME NEW n \in Nat, page' = [page EXCEPT ![srv.entry].off = @ + n]
      PROVE  /\ page' \in [Entries -> [id : Nat, off : Nat]]
             /\ \A e \in Entries : page'[e].id = page[e].id
  BY <1>2, <1>4 DEF IInv, TypeOK
<1>5. ASSUME NEW n \in Nat, NEW t \in Transfers, Respond(n, None, t)
      PROVE  /\ srv' \in ServerStates /\ srv'.pc = "reply" /\ srv'.whom = srv.whom
             /\ srv'.req = srv.req /\ srv'.r # Inval /\ srv'.entry = None
  <2>1. n \in Int /\ n # Inval
    BY DEF Inval
  <2> QED
    BY <1>1, <1>5, <2>1, RespondType
<1>6. CASE srv.req.op = "read"
  <2> DEFINE words == Found(content[f], srv.off)
             t == [op |-> "read", count |-> 1, words |-> words]
  <2>1. /\ page' = [page EXCEPT ![srv.entry].off = @ + Len(words)]
        /\ Respond(Len(words), None, t) /\ UNCHANGED <<content, cli>>
    BY <1>6 DEF Move
  <2>2. words \in FileWords /\ Len(words) \in Nat
    BY <1>2, <1>3, FoundType
  <2>3. t \in Transfers
    BY <2>2 DEF Transfers
  <2> HIDE DEF words, t
  <2>4. content' \in [Files -> FileWords] /\ cli' \in [Clients -> ClientStates]
    BY <2>1 DEF IInv, TypeOK
  <2>5. /\ page' \in [Entries -> [id : Nat, off : Nat]]
        /\ \A e \in Entries : page'[e].id = page[e].id
    BY <1>4, <2>1, <2>2
  <2>6. /\ srv' \in ServerStates /\ srv'.pc = "reply" /\ srv'.whom = srv.whom
        /\ srv'.req = srv.req /\ srv'.r # Inval /\ srv'.entry = None
    BY <1>5, <2>1, <2>2, <2>3
  <2> QED
    BY <1>1, <2>1, <2>4, <2>5, <2>6, ServerStep
<1>7. CASE srv.req.op = "write"
  <2> DEFINE words == srv.req.words
             t == [op |-> "write", off |-> srv.off, words |-> words]
  <2>1. /\ content' = [content EXCEPT ![f] = Stored(@, srv.off, words)]
        /\ page' = [page EXCEPT ![srv.entry].off = @ + Len(words)]
        /\ Respond(Len(words), None, t)
        /\ IF cli[srv.whom].pc = "dead" THEN UNCHANGED cli
           ELSE cli' = [cli EXCEPT ![srv.whom].stored = @ \o words]
    BY <1>6, <1>7 DEF Move
  <2>2. words \in Seq(Words) /\ words \in FileWords /\ Len(words) \in Nat
    BY <1>2, <1>7, InRequest DEF FileWords
  <2>3. t \in Transfers
    BY <1>2, <2>2 DEF Transfers
  <2> HIDE DEF words, t
  <2>4. content' \in [Files -> FileWords]
    <3>1. Stored(content[f], srv.off, words) \in FileWords
      BY <1>2, <1>3, <2>2, StoredType
    <3> QED
      BY <1>2, <2>1, <3>1 DEF IInv, TypeOK
  <2>5. /\ page' \in [Entries -> [id : Nat, off : Nat]]
        /\ \A e \in Entries : page'[e].id = page[e].id
    BY <1>4, <2>1, <2>2
  <2>6. /\ srv' \in ServerStates /\ srv'.pc = "reply" /\ srv'.whom = srv.whom
        /\ srv'.req = srv.req /\ srv'.r # Inval /\ srv'.entry = None
    BY <1>5, <2>1, <2>2, <2>3
  <2>7. /\ cli' \in [Clients -> ClientStates]
        /\ \A c \in Clients : /\ cli'[c].pc = cli[c].pc /\ cli'[c].req = cli[c].req
                              /\ cli'[c].r = cli[c].r
    <3>1. CASE UNCHANGED cli
      BY <3>1 DEF IInv, TypeOK
    <3>2. CASE cli' = [cli EXCEPT ![srv.whom].stored = @ \o words]
      <4>1. cli[srv.whom] \in ClientStates
        BY <1>2 DEF IInv, TypeOK
      <4>2. cli[srv.whom].stored \o words \in Seq(Words)
        BY <2>2, <4>1, InClient
      <4> DEFINE w == cli[srv.whom].stored \o words
                 x == [cli[srv.whom] EXCEPT !.stored = w]
      <4>3. cli' = [cli EXCEPT ![srv.whom] = x]
        BY <3>2
      <4> HIDE DEF w
      <4>4. /\ x \in ClientStates /\ x.pc = cli[srv.whom].pc /\ x.req = cli[srv.whom].req
            /\ x.r = cli[srv.whom].r
        BY <4>1, <4>2 DEF w, ClientStates
      <4> HIDE DEF x
      <4> QED
        BY <1>2, <4>3, <4>4 DEF IInv, TypeOK
    <3> QED
      BY <2>1, <3>1, <3>2
  <2> QED
    BY <1>1, <2>4, <2>5, <2>6, <2>7, ServerStep
<1> QED
  BY <1>2, <1>6, <1>7

(* A transfer that fails: the file is still one, and what is stored of a       *)
(* write is the beginning of its words.                                       *)
LEMMA FrontType ==
    ASSUME NEW words \in Seq(Words), NEW n \in 0 .. Len(words) - 1
    PROVE  SubSeq(words, 1, n) \in Seq(Words) /\ Len(SubSeq(words, 1, n)) = n
<1>1. n \in Nat /\ \A i \in 1 .. n : words[i] \in Words
  BY LenProperties
<1>2. /\ SubSeq(words, 1, n) \in Seq(Words)
      /\ Len(SubSeq(words, 1, n)) = IF 1 <= n THEN n - 1 + 1 ELSE 0
  BY <1>1, SubSeqProperties
<1> QED
  BY <1>1, <1>2

LEMMA StoredPartType ==
    ASSUME NEW old \in FileWords, NEW off \in Nat, NEW size \in Nat, NEW front \in Seq(Words)
    PROVE  StoredPart(old, off, size, front) \in FileWords
<1>1. Stored(old, size, << >>) \in FileWords
  BY NoWords, StoredType
<1> QED
  BY <1>1, StoredType DEF StoredPart

\* What MoveFails makes of the server and of file f when a write fails.
WriteBroken(f, front, t) ==
    /\ front \in Seq(Words) /\ t \in Transfers
    /\ t.op = "failed" /\ t.off = srv.off /\ t.words = front
    /\ t.size \in Nat /\ t.off + Len(front) < t.size
    /\ content' = [content EXCEPT ![f] = StoredPart(@, srv.off, t.size, front)]
    /\ Respond(NoDisk, None, t)

LEMMA MoveFailsSteps ==
    ASSUME IInv, MoveFails
    PROVE  /\ srv.pc = "move" /\ srv.whom \in Clients /\ srv.req \in Requests
           /\ srv.entry \in Entries /\ srv.off \in Nat /\ opentab[srv.entry].file \in Files
           /\ UNCHANGED <<cli, fdmap, cow, opentab, page, holds, calls>>
           /\ \/ Answer(NoDisk) /\ UNCHANGED content
              \/ \E front, t : WriteBroken(opentab[srv.entry].file, front, t)
<1>1. srv.pc = "move" /\ UNCHANGED <<cli, fdmap, cow, opentab, page, holds, calls>>
  BY DEF MoveFails
<1> DEFINE f == opentab[srv.entry].file
<1>2. /\ srv.whom \in Clients /\ srv.req \in Requests /\ srv.entry \in Entries
      /\ srv.off \in Nat /\ srv.req.op \in {"read", "write"} /\ f \in Files
  BY <1>1, InServer DEF IInv, TypeOK, ServerOK
<1>3. CASE srv.req.op = "read"
  BY <1>1, <1>2, <1>3 DEF MoveFails
<1>4. CASE srv.req.op = "write"
  <2> DEFINE words == srv.req.words
             size == srv.off + Len(words)
  <2>1. PICK n \in 0 .. Len(words) - 1 :
          /\ content' = [content EXCEPT ![f] = StoredPart(@, srv.off, size, SubSeq(words, 1, n))]
          /\ Respond(NoDisk, None, [op |-> "failed", off |-> srv.off, size |-> size,
                                    words |-> SubSeq(words, 1, n)])
    BY <1>4 DEF MoveFails
  <2>2. words \in Seq(Words) /\ Len(words) \in Nat
    BY <1>2, <1>4, InRequest
  <2>3. SubSeq(words, 1, n) \in Seq(Words) /\ Len(SubSeq(words, 1, n)) = n
    BY <2>2, FrontType
  <2>4. size \in Nat /\ srv.off + n < size
    BY <1>2, <2>1, <2>2
  <2> DEFINE front == SubSeq(words, 1, n)
             t == [op |-> "failed", off |-> srv.off, size |-> size, words |-> front]
  <2> HIDE DEF words, size
  <2>5. t \in Transfers
    <3>1. front \in FileWords
      BY <2>3 DEF FileWords
    <3> HIDE DEF front
    <3> QED
      BY <1>2, <2>4, <3>1 DEF Transfers
  <2>6. WriteBroken(f, front, t)
    BY <2>1, <2>3, <2>4, <2>5 DEF WriteBroken
  <2> QED
    BY <1>1, <1>2, <2>6
<1> QED
  BY <1>2, <1>3, <1>4

LEMMA MoveFailsInv == ASSUME IInv, MoveFails PROVE IInv'
<1>1. /\ srv.pc = "move" /\ srv.entry \in Entries /\ srv.off \in Nat
      /\ UNCHANGED <<cli, fdmap, cow, opentab, page, holds, calls>>
  BY MoveFailsSteps
<1> DEFINE f == opentab[srv.entry].file
<1>2. content' \in [Files -> FileWords] /\ \E t \in Transfers \cup {None} : Respond(NoDisk, None, t)
  <2>1. CASE Answer(NoDisk) /\ UNCHANGED content
    BY <2>1 DEF Answer, IInv, TypeOK
  <2>2. CASE \E front, t : WriteBroken(f, front, t)
    <3>1. PICK front, t : WriteBroken(f, front, t)
      BY <2>2
    <3>2. f \in Files /\ content[f] \in FileWords
      BY MoveFailsSteps DEF IInv, TypeOK
    <3>3. StoredPart(content[f], srv.off, t.size, front) \in FileWords
      BY <1>1, <3>1, <3>2, StoredPartType DEF WriteBroken
    <3> QED
      BY <3>1, <3>2, <3>3 DEF WriteBroken, IInv, TypeOK
  <2> QED
    BY <2>1, <2>2, MoveFailsSteps
<1>3. NoDisk \in Int /\ NoDisk # Inval
  BY DEF NoDisk, Inval
<1>4. /\ srv' \in ServerStates /\ srv'.pc = "reply" /\ srv'.whom = srv.whom
      /\ srv'.req = srv.req /\ srv'.r # Inval /\ srv'.entry = None
  BY <1>1, <1>2, <1>3, RespondType
<1>5. /\ page' \in [Entries -> [id : Nat, off : Nat]]
      /\ cli' \in [Clients -> ClientStates]
  BY <1>1 DEF IInv, TypeOK
<1> QED
  BY <1>1, <1>2, <1>4, <1>5, ServerStep
------------------------------------------------------------------------------
(* openfile_alloc(): an entry only the server has mapped, if that, is nobody's *)
(* descriptor, and its next id is its own again.                              *)
LEMMA AllocInv == ASSUME IInv, Alloc PROVE IInv'
<1> DEFINE e == srv.entry
           new == opentab[e].id + MAXOPEN
<1>1. /\ srv.pc = "scan" /\ e < MAXOPEN /\ PageRef(e) <= 1
      /\ UNCHANGED <<cli, fdmap, cow, holds, calls>>
  BY DEF Alloc
<1>2. MAXOPEN \in Nat /\ MAXOPEN > 0
  BY SizeAssumption
<1>3. /\ srv.whom \in Clients /\ srv.req \in Requests /\ e \in Entries
      /\ srv.req.op = "open" /\ srv.req.file \in Files \cup {Missing}
  <2>1. srv \in ServerStates /\ srv.req.op = "open"
    BY <1>1 DEF IInv, TypeOK, ServerOK
  <2>2. e \in 0 .. MAXOPEN
    BY <1>1, <2>1, InServer
  <2> QED
    BY <1>1, <1>2, <2>1, <2>2, InServer, InRequest DEF Entries
<1>4. ~Mapped(e)
  <2>1. PageRef(e) \in Nat
    BY MappingsMapped DEF PageRef
  <2> QED
    BY <1>1, <1>3, <2>1, OpenIsMapped
<1>5. new \in Nat
  BY <1>2, <1>3 DEF IInv, TypeOK
<1> HIDE DEF new
<1>6. /\ \E x \in [id : Nat, file : Files \cup {None}, mapped : BOOLEAN] :
           x.id = new /\ opentab' = [opentab EXCEPT ![e] = x]
      /\ \E x \in Nat : page' = [page EXCEPT ![e] = [id |-> x, off |-> 0]]
      /\ content' \in [Files -> FileWords]
      /\ \/ Answer(NotFound)
         \/ /\ Respond(0, e, None) /\ opentab'[e].mapped /\ opentab'[e].file \in Files
            /\ opentab'[e].file = srv.req.file /\ page'[e].id = opentab'[e].id
  <2>1. /\ opentab \in [Entries -> [id : Nat, file : Files \cup {None}, mapped : BOOLEAN]]
        /\ page \in [Entries -> [id : Nat, off : Nat]] /\ content \in [Files -> FileWords]
    BY DEF IInv, TypeOK
  <2>2. CASE srv.req.file = Missing
    <3>1. /\ opentab' = [opentab EXCEPT ![e].id = new, ![e].mapped = TRUE]
          /\ page' = [page EXCEPT ![e] = NewFd(@, 0)]
          /\ Answer(NotFound) /\ content' = content
      BY <2>2 DEF Alloc, new
    <3> DEFINE x == [opentab[e] EXCEPT !.id = new, !.mapped = TRUE]
    <3>2. opentab[e] \in [id : Nat, file : Files \cup {None}, mapped : BOOLEAN]
      BY <1>3, <2>1
    <3>3. x \in [id : Nat, file : Files \cup {None}, mapped : BOOLEAN] /\ x.id = new
      BY <1>5, <3>2
    <3>4. opentab' = [opentab EXCEPT ![e] = x]
      BY <3>1
    <3> HIDE DEF x
    <3> QED
      BY <2>1, <3>1, <3>3, <3>4 DEF NewFd
  <2>3. CASE srv.req.file # Missing
    <3>1. /\ opentab' = [opentab EXCEPT ![e] = [id |-> new, file |-> srv.req.file, mapped |-> TRUE]]
          /\ page' = [page EXCEPT ![e] = NewFd(@, new)]
          /\ Respond(0, e, None)
          /\ content' = IF srv.req.trunc THEN [content EXCEPT ![srv.req.file] = << >>] ELSE content
      BY <2>3 DEF Alloc, new
    <3>2. srv.req.file \in Files
      BY <1>3, <2>3
    <3>3. << >> \in FileWords
      BY DEF FileWords
    <3>4. content' \in [Files -> FileWords]
      BY <2>1, <3>1, <3>2, <3>3
    <3>5. opentab'[e] = [id |-> new, file |-> srv.req.file, mapped |-> TRUE] /\ page'[e].id = new
      BY <1>3, <2>1, <3>1 DEF NewFd
    <3>6. page' = [page EXCEPT ![e] = [id |-> new, off |-> 0]]
      BY <3>1 DEF NewFd
    <3>7. \E x \in [id : Nat, file : Files \cup {None}, mapped : BOOLEAN] :
             x.id = new /\ opentab' = [opentab EXCEPT ![e] = x]
      <4> DEFINE x == [id |-> new, file |-> srv.req.file, mapped |-> TRUE]
      <4>1. x \in [id : Nat, file : Files \cup {None}, mapped : BOOLEAN] /\ x.id = new
        BY <1>5, <3>2
      <4>2. opentab' = [opentab EXCEPT ![e] = x]
        BY <3>1
      <4> HIDE DEF x
      <4> QED
        BY <4>1, <4>2
    <3>8. /\ opentab'[e].mapped /\ opentab'[e].file \in Files
          /\ opentab'[e].file = srv.req.file /\ page'[e].id = opentab'[e].id
      BY <3>2, <3>5
    <3> QED
      BY <1>5, <3>1, <3>4, <3>6, <3>7, <3>8
  <2> QED
    BY <2>2, <2>3
<1>7. /\ opentab' \in [Entries -> [id : Nat, file : Files \cup {None}, mapped : BOOLEAN]]
      /\ opentab'[e].id = new
      /\ \A x \in Entries \ {e} : opentab'[x] = opentab[x]
  BY <1>3, <1>5, <1>6 DEF IInv, TypeOK
<1>8. /\ page' \in [Entries -> [id : Nat, off : Nat]]
      /\ \A x \in Entries \ {e} : page'[x] = page[x]
  BY <1>3, <1>6 DEF IInv, TypeOK
<1>9. /\ srv' \in ServerStates /\ srv'.pc = "reply" /\ srv'.whom = srv.whom
      /\ srv'.req = srv.req /\ srv'.r # Inval
      /\ srv'.entry = None \/ srv'.entry = e
      /\ srv'.entry = e => Respond(0, e, None)
  <2>1. CASE Answer(NotFound)
    <3>1. NotFound \in Int /\ NotFound # Inval
      BY DEF NotFound, Inval
    <3> QED
      BY <1>1, <1>3, <2>1, <3>1, RespondType, Apart DEF Answer
  <2>2. CASE Respond(0, e, None)
    <3>1. 0 # Inval
      BY DEF Inval
    <3> QED
      BY <1>1, <1>3, <2>2, <3>1, RespondType
  <2> QED
    BY <1>6, <2>1, <2>2
<1>10. TypeOK'
  <2>1. /\ cli' \in [Clients -> ClientStates] /\ fdmap' \in [Clients -> [Slots -> Entries \cup {None}]]
        /\ cow' \in [Clients -> BOOLEAN] /\ calls' \in Nat
        /\ holds' \in [Clients -> [Slots -> OpenFile \cup {None}]]
        /\ \A c \in Clients : cli'[c].pc \in Busy => cli'[c].req \in Requests
    BY <1>1 DEF IInv, TypeOK
  <2> QED
    BY <1>6, <1>7, <1>8, <1>9, <2>1 DEF TypeOK
<1>11. Ids'
  <2> SUFFICES ASSUME NEW x \in Entries PROVE \E k \in Nat : opentab'[x].id = x + k * MAXOPEN
    BY DEF Ids
  <2>1. PICK k \in Nat : opentab[x].id = x + k * MAXOPEN
    BY DEF IInv, Ids
  <2>2. CASE x = e
    <3>1. k * MAXOPEN \in Nat /\ (k + 1) * MAXOPEN = k * MAXOPEN + MAXOPEN /\ e \in Nat
      BY <1>2, <1>3 DEF Entries
    <3>2. opentab'[x].id = e + (k + 1) * MAXOPEN
      BY <1>2, <1>7, <2>1, <2>2, <3>1 DEF new
    <3> QED
      BY <2>2, <3>2
  <2>3. CASE x # e
    BY <1>7, <2>1, <2>3
  <2> QED
    BY <2>2, <2>3
<1>12. FdsOK'
  <2> SUFFICES ASSUME NEW c \in Clients, NEW i \in Slots PROVE FdOK(c, i)'
    BY DEF FdsOK
  <2>1. fdmap[c][i] # e /\ FdOK(c, i)
    BY <1>4 DEF Mapped, MappedIn, IInv, FdsOK
  <2>2. fdmap[c][i] \in Entries \cup {None}
    BY DEF IInv, TypeOK
  <2>3. fdmap[c][i] # None => /\ opentab'[fdmap[c][i]] = opentab[fdmap[c][i]]
                              /\ page'[fdmap[c][i]] = page[fdmap[c][i]]
    BY <1>7, <1>8, <2>1, <2>2
  <2> QED
    BY <1>1, <2>1, <2>3 DEF FdOK
<1>13. RequestsOK'
  BY <1>1 DEF IInv, RequestsOK, RequestOK
<1>14. ServerOK'
  <2>1. Asked'
    BY <1>1, <1>9 DEF IInv, ServerOK, Asked
  <2>2. srv'.entry # None => /\ opentab'[e].mapped /\ opentab'[e].file \in Files
                             /\ opentab'[e].file = srv.req.file /\ page'[e].id = opentab'[e].id
    <3>1. ASSUME Answer(NotFound) PROVE srv'.entry = None
      BY <3>1 DEF Answer, Respond
    <3> QED
      BY <1>6, <3>1
  <2> QED
    BY <1>3, <1>9, <2>1, <2>2 DEF ServerOK, AnswerOK
<1> QED
  BY <1>10, <1>11, <1>12, <1>13, <1>14 DEF IInv

LEMMA NextEntryInv == ASSUME IInv, NextEntry PROVE IInv'
<1>1. srv.pc = "scan" /\ UNCHANGED <<cli, fdmap, cow, opentab, page, holds, content, calls>>
  BY DEF NextEntry, kept
<1>2. /\ srv.whom \in Clients /\ srv.req \in Requests /\ srv.entry \in 0 .. MAXOPEN
      /\ MAXOPEN \in Nat /\ srv \in ServerStates
  BY <1>1, InServer, SizeAssumption DEF IInv, TypeOK
<1>3. \/ /\ srv' \in ServerStates /\ srv'.pc = "reply" /\ srv'.whom = srv.whom
         /\ srv'.req = srv.req /\ srv'.r # Inval /\ srv'.entry = None
      \/ /\ srv' \in ServerStates /\ srv'.pc = "scan" /\ srv'.whom = srv.whom
         /\ srv'.req = srv.req
  <2>1. CASE srv.entry = MAXOPEN
    <3>1. Answer(MaxOpen) /\ MaxOpen \in Int /\ MaxOpen # Inval
      BY <2>1 DEF NextEntry, MaxOpen, Inval
    <3> QED
      BY <1>1, <3>1, RespondType DEF Answer
  <2>2. CASE srv.entry # MAXOPEN
    <3>1. srv' = [srv EXCEPT !.entry = @ + 1] /\ srv.entry + 1 \in 0 .. MAXOPEN
      BY <1>2, <2>2 DEF NextEntry
    <3>2. srv \in [pc : {"scan"}, whom : Clients, req : Requests, entry : 0 .. MAXOPEN]
      BY <1>1, <1>2 DEF ServerStates
    <3> QED
      BY <3>1, <3>2 DEF ServerStates
  <2> QED
    BY <2>1, <2>2
<1>4. /\ page' \in [Entries -> [id : Nat, off : Nat]] /\ content' \in [Files -> FileWords]
      /\ cli' \in [Clients -> ClientStates]
  BY <1>1 DEF IInv, TypeOK
<1> QED
  BY <1>1, <1>3, <1>4, ServerStep

(* The client gets the answer, and open()'s descriptor the page.              *)
LEMMA ReplyInv == ASSUME IInv, Reply PROVE IInv'
<1> DEFINE c == srv.whom
           i == cli[c].req.slot
           h == [file |-> srv.req.file, id |-> opentab[srv.entry].id]
<1>1. srv.pc = "reply" /\ UNCHANGED <<cow, opentab, page, content, calls>>
  BY DEF Reply, kept
<1>2. /\ c \in Clients /\ srv.req \in Requests /\ srv.r \in Int
      /\ srv.entry \in Entries \cup {None} /\ Asked /\ AnswerOK
  BY <1>1, InServer DEF IInv, TypeOK, ServerOK
<1>3. ASSUME cli[c].pc = "dead", srv' = [pc |-> "panic", whom |-> c],
             UNCHANGED <<cli, fdmap, holds>>
      PROVE  IInv'
  <2>1. c \in Mortal
    BY <1>2, <1>3 DEF Asked
  <2>2. srv' \in ServerStates
    BY <1>2, <1>3 DEF ServerStates
  <2>3. TypeOK'
    BY <1>1, <1>3, <2>2 DEF IInv, TypeOK
  <2>4. FdsOK' /\ RequestsOK'
    BY <1>1, <1>3 DEF IInv, FdsOK, FdOK, RequestsOK, RequestOK
  <2>5. ServerOK'
    BY <1>3, <2>1 DEF ServerOK
  <2> QED
    BY <1>1, <2>3, <2>4, <2>5, IdsKept DEF IInv
<1>4. ASSUME cli[c].pc = "wait", cli' = [cli EXCEPT ![c].pc = "got", ![c].r = srv.r],
             srv' = [pc |-> "recv"],
             \/ UNCHANGED <<fdmap, holds>> /\ srv.entry = None
             \/ /\ srv.entry # None
                /\ fdmap' = [fdmap EXCEPT ![c][i] = srv.entry]
                /\ holds' = [holds EXCEPT ![c][i] = h]
      PROVE  IInv'
  <2>1. /\ cli[c].req = srv.req /\ srv.r # Inval /\ RequestOK(c) /\ cli[c] \in ClientStates
    BY <1>2, <1>4 DEF Asked, AnswerOK, IInv, TypeOK, RequestsOK, Busy
  <2>2. /\ cli' \in [Clients -> ClientStates] /\ cli'[c].pc = "got" /\ cli'[c].r = srv.r
        /\ cli'[c].req = srv.req /\ \A d \in Clients \ {c} : cli'[d] = cli[d]
    <3> DEFINE x == [cli[c] EXCEPT !.pc = "got", !.r = srv.r]
    <3>1. cli' = [cli EXCEPT ![c] = x]
      BY <1>4
    <3>2. x \in ClientStates /\ x.pc = "got" /\ x.r = srv.r /\ x.req = srv.req
      BY <1>2, <2>1 DEF ClientStates, Busy
    <3> HIDE DEF x
    <3> QED
      BY <1>2, <3>1, <3>2 DEF IInv, TypeOK
  <2>3. srv.entry # None =>
          /\ srv.req.op = "open" /\ i \in Slots /\ fdmap[c][i] = None /\ srv.entry \in Entries
          /\ opentab[srv.entry].mapped /\ page[srv.entry].id = opentab[srv.entry].id
          /\ opentab[srv.entry].file = srv.req.file /\ h \in OpenFile
    <3>1. srv.entry # None => /\ srv.req.op = "open" /\ opentab[srv.entry].mapped
                              /\ srv.entry \in Entries /\ opentab[srv.entry].file \in Files
                              /\ opentab[srv.entry].file = srv.req.file
                              /\ page[srv.entry].id = opentab[srv.entry].id
      BY <1>2 DEF AnswerOK
    <3>2. srv.req.op = "open" => i \in Slots
      BY <1>2, <2>1, InRequest
    <3>3. srv.req.op = "open" => fdmap[c][i] = None
      BY <1>4, <2>1 DEF RequestOK
    <3>4. srv.entry # None => opentab[srv.entry].id \in Nat
      BY <3>1 DEF IInv, TypeOK
    <3> QED
      BY <3>1, <3>2, <3>3, <3>4 DEF OpenFile
  <2> HIDE DEF h
  <2>4. /\ fdmap' \in [Clients -> [Slots -> Entries \cup {None}]]
        /\ \A d \in Clients : \A j \in Slots :
             \/ fdmap'[d][j] = fdmap[d][j]
             \/ d = c /\ j = i /\ srv.entry # None
        /\ srv.entry # None => fdmap'[c][i] = srv.entry
    <3>1. CASE fdmap' = fdmap /\ srv.entry = None
      BY <3>1 DEF IInv, TypeOK
    <3>2. CASE srv.entry # None /\ fdmap' = [fdmap EXCEPT ![c][i] = srv.entry]
      BY <1>2, <2>3, <3>2 DEF IInv, TypeOK
    <3> QED
      BY <1>4, <3>1, <3>2
  <2>5. /\ holds' \in [Clients -> [Slots -> OpenFile \cup {None}]]
        /\ \A d \in Clients : \A j \in Slots :
             \/ holds'[d][j] = holds[d][j]
             \/ d = c /\ j = i /\ srv.entry # None
        /\ srv.entry # None => holds'[c][i] = h
    <3>1. CASE holds' = holds /\ srv.entry = None
      BY <3>1 DEF IInv, TypeOK
    <3>2. CASE srv.entry # None /\ holds' = [holds EXCEPT ![c][i] = h]
      BY <1>2, <2>3, <3>2 DEF IInv, TypeOK
    <3> QED
      BY <1>4, <3>1, <3>2
  <2>6. TypeOK'
    <3>1. \A d \in Clients : cli'[d].pc \in Busy => cli'[d].req \in Requests
      BY <1>2, <2>2 DEF IInv, TypeOK
    <3>2. srv' \in ServerStates
      BY <1>4 DEF ServerStates
    <3> QED
      BY <1>1, <2>2, <2>4, <2>5, <3>1, <3>2 DEF IInv, TypeOK
  <2>7. FdsOK'
    <3> SUFFICES ASSUME NEW d \in Clients, NEW j \in Slots PROVE FdOK(d, j)'
      BY DEF FdsOK
    <3>1. CASE d = c /\ j = i /\ srv.entry # None
      <4>1. fdmap'[d][j] = srv.entry /\ holds'[d][j] = h
        BY <2>4, <2>5, <3>1
      <4>2. h # None /\ h.file = srv.req.file /\ h.id = opentab[srv.entry].id
        BY <2>3, <3>1, Apart DEF h
      <4> QED
        BY <1>1, <2>3, <3>1, <4>1, <4>2 DEF FdOK
    <3>2. CASE ~(d = c /\ j = i /\ srv.entry # None)
      <4>1. fdmap'[d][j] = fdmap[d][j] /\ holds'[d][j] = holds[d][j]
        BY <2>4, <2>5, <3>2
      <4> QED
        BY <1>1, <4>1 DEF IInv, FdsOK, FdOK
    <3> QED
      BY <3>1, <3>2
  <2>8. RequestsOK'
    <3> SUFFICES ASSUME NEW d \in Clients, cli'[d].pc \in Busy PROVE RequestOK(d)'
      BY DEF RequestsOK
    <3>1. CASE d = c
      <4>1. srv.req.op \in FileOps => srv.entry = None
        BY <2>3 DEF FileOps
      <4>2. srv.entry = None => fdmap' = fdmap /\ holds' = holds
        BY <1>4
      <4> QED
        BY <1>1, <2>1, <2>2, <3>1, <4>1, <4>2 DEF RequestOK
    <3>2. CASE d # c
      <4>1. RequestOK(d) /\ cli'[d] = cli[d] /\ cli[d].req \in Requests
        BY <2>2, <3>2 DEF IInv, TypeOK, RequestsOK
      <4>2. cli[d].req.op \in {"open"} \cup FileOps => cli[d].req.slot \in Slots
        BY <4>1, InRequest
      <4>3. cli[d].req.op \in {"open"} \cup FileOps =>
              /\ fdmap'[d][cli[d].req.slot] = fdmap[d][cli[d].req.slot]
              /\ holds'[d][cli[d].req.slot] = holds[d][cli[d].req.slot]
        BY <2>4, <2>5, <3>2, <4>2
      <4> QED
        BY <1>1, <4>1, <4>3 DEF RequestOK
    <3> QED
      BY <3>1, <3>2
  <2>9. ServerOK'
    BY <1>4 DEF ServerOK
  <2> QED
    BY <1>1, <2>6, <2>7, <2>8, <2>9, IdsKept DEF IInv
<1> QED
  BY <1>3, <1>4 DEF Reply, TryAgain

------------------------------------------------------------------------------
LEMMA InitInv == Init => IInv
<1> SUFFICES ASSUME Init PROVE IInv
  OBVIOUS
<1>1. \A c \in Clients : /\ cli[c] \in ClientStates /\ cli[c].pc \in {"run", "free"}
                         /\ cli[c].pc \notin Busy
  BY NewClient DEF Init
<1>2. fdmap = [c \in Clients |-> NoFds] /\ holds = [c \in Clients |-> NoFds]
  BY DEF Init
<1>3. TypeOK
  <2>1. /\ fdmap \in [Clients -> [Slots -> Entries \cup {None}]]
        /\ holds \in [Clients -> [Slots -> OpenFile \cup {None}]]
    BY <1>2 DEF NoFds
  <2>2. srv \in ServerStates /\ calls \in Nat /\ cow \in [Clients -> BOOLEAN]
    BY DEF Init, ServerStates
  <2>3. << >> \in FileWords
    BY DEF FileWords
  <2>4. /\ content \in [Files -> FileWords] /\ page \in [Entries -> [id : Nat, off : Nat]]
        /\ opentab \in [Entries -> [id : Nat, file : Files \cup {None}, mapped : BOOLEAN]]
    BY <2>3, SizeAssumption DEF Init, Entries
  <2>5. cli \in [Clients -> ClientStates]
    BY <1>1 DEF Init
  <2> QED
    BY <1>1, <2>1, <2>2, <2>4, <2>5 DEF TypeOK
<1>4. Ids
  <2> SUFFICES ASSUME NEW e \in Entries PROVE \E k \in Nat : opentab[e].id = e + k * MAXOPEN
    BY DEF Ids
  <2>1. opentab[e].id = e + 0 * MAXOPEN
    BY SizeAssumption DEF Init, Entries
  <2> QED
    BY <2>1
<1>5. FdsOK
  BY <1>2 DEF FdsOK, FdOK, NoFds
<1>6. RequestsOK
  BY <1>1 DEF RequestsOK
<1>7. ServerOK
  BY DEF Init, ServerOK
<1> QED
  BY <1>3, <1>4, <1>5, <1>6, <1>7 DEF IInv

LEMMA NextInv == IInv /\ [Next]_vars => IInv'
<1> SUFFICES ASSUME IInv, [Next]_vars PROVE IInv'
  OBVIOUS
<1>1. CASE Serve
  BY <1>1, HandleInv, MoveInv, MoveFailsInv, AllocInv, NextEntryInv, ReplyInv DEF Serve
<1>2. ASSUME NEW c \in Clients, Proceed(c) PROVE IInv'
  BY <1>2, SendInv, WaitInv, ReturnInv DEF Proceed
<1>3. ASSUME NEW c \in Clients, Program(c) PROVE IInv'
  BY <1>3, DupInv, ForkInv, SeekInv, GoneInv, CallOpenInv, CallFileInv, CallWriteInv,
     CallCloseInv DEF Program, Exit, Ready
<1>4. ASSUME NEW c \in Clients, Kill(c) PROVE IInv'
  BY <1>4, GoneInv DEF Kill
<1>5. CASE UNCHANGED vars
  <2>1. UNCHANGED <<cli, fdmap, cow, srv, opentab, page, content, calls, holds>>
    BY <1>5 DEF vars
  <2>2. TypeOK'
    BY <2>1 DEF IInv, TypeOK
  <2>3. FdsOK' /\ RequestsOK'
    BY <2>1 DEF IInv, FdsOK, FdOK, RequestsOK, RequestOK
  <2>4. ServerOK'
    BY <2>1 DEF IInv, ServerOK, Asked, AnswerOK
  <2> QED
    BY <2>1, <2>2, <2>3, <2>4, IdsKept DEF IInv
<1> QED
  BY <1>1, <1>2, <1>3, <1>4, <1>5 DEF Next

\* The inductive invariant holds in every reachable state.
THEOREM Invariance == Spec => []IInv
BY InitInv, NextInv, PTL DEF Spec

\* TypeOK: clients, server, open-file table, Fd pages and files are always what
\* fsipc() and serve() can make of them.
THEOREM TypeCorrect == Spec => []TypeOK
<1>1. IInv => TypeOK
  BY DEF IInv
<1> QED
  BY <1>1, Invariance, PTL

\* A descriptor stands for the file it was opened on until it is closed,
\* whatever the others open and close meanwhile, and the server refuses no
\* client a file it has open.
THEOREM DescriptorsStayOpen == Spec => []OpenStaysOpen
<1>1. IInv => OpenStaysOpen
  <2> SUFFICES ASSUME IInv PROVE OpenStaysOpen
    OBVIOUS
  <2>1. ASSUME NEW c \in Clients, NEW i \in Slots, fdmap[c][i] # None
        PROVE  [file |-> opentab[fdmap[c][i]].file, id |-> opentab[fdmap[c][i]].id] = holds[c][i]
    <3>1. FdOK(c, i) /\ holds[c][i] \in OpenFile
      BY <2>1 DEF IInv, TypeOK, FdsOK, FdOK
    <3>2. holds[c][i] = [file |-> holds[c][i].file, id |-> holds[c][i].id]
      BY <3>1 DEF OpenFile
    <3> QED
      BY <2>1, <3>1, <3>2 DEF FdOK
  <2>2. \A c \in Clients : cli[c].pc = "got" => cli[c].r # Inval
    BY DEF IInv, RequestsOK, RequestOK, Busy
  <2> QED
    BY <2>1, <2>2 DEF OpenStaysOpen, IInv, FdsOK, FdOK
<1> QED
  BY <1>1, Invariance, PTL

\* ipc_send() panics in a client only because fork() left the request page of a
\* sync() shared, and in the server only because the client was destroyed.
THEOREM PanicsHaveACause == Spec => []PanicsExplained
<1>1. IInv => PanicsExplained
  BY DEF IInv, RequestsOK, RequestOK, ServerOK, PanicsExplained, Busy
<1> QED
  BY <1>1, Invariance, PTL
------------------------------------------------------------------------------
(* The clients' view.                                                         *)

\* The page of a file just opened is nobody's yet.
Fresh == srv.pc = "reply" /\ srv.entry # None =>
            /\ ~MappedIn(fdmap, srv.entry) /\ page[srv.entry].off = 0 /\ srv.done = None

\* A read or a write is at the offset that it moves.
AtOffset == srv.pc = "move" /\ RacySeek = FALSE => srv.off = page[srv.entry].off

\* An environment that is not there has no descriptors.
AbsentHasNone == \A c \in Clients : cli[c].pc \in {"free", "dead"} =>
                                      \A i \in Slots : fdmap[c][i] = None

ViewInv == Fresh /\ AtOffset /\ AbsentHasNone

\* OpenAt, of the variables it depends on.
View(d, t, p) == [e \in Entries |-> IF MappedIn(d, e) THEN [file |-> t[e].file, offset |-> p[e].off]
                                    ELSE None]

LEMMA AtIsView == OpenAt = View(fdmap, opentab, page) /\ OpenAt' = View(fdmap', opentab', page')
<1>1. \A e \in Entries : Mappings(e) = Cardinality(PlacesIn(fdmap, e))
  BY DEF Mappings, PlacesIn
<1>2. \A e \in Entries : Mappings(e)' = Cardinality(PlacesIn(fdmap', e))
  BY DEF Mappings, PlacesIn
<1>3. \A e \in Entries : Mappings(e) > 0 <=> MappedIn(fdmap, e)
  BY <1>1, PlacesMapped
<1>4. \A e \in Entries : Mappings(e)' > 0 <=> MappedIn(fdmap', e)
  BY <1>2, PlacesMapped
<1>5. OpenAt = View(fdmap, opentab, page)
  BY <1>3 DEF OpenAt, View
<1>6. OpenAt' = View(fdmap', opentab', page')
  BY <1>4 DEF OpenAt, View
<1> QED
  BY <1>5, <1>6

LEMMA ViewKept ==
    ASSUME \A e \in Entries : MappedIn(fdmap', e) <=> MappedIn(fdmap, e),
           \A e \in Entries : MappedIn(fdmap, e) =>
               opentab'[e].file = opentab[e].file /\ page'[e].off = page[e].off
    PROVE  OpenAt' = OpenAt
<1>1. View(fdmap', opentab', page') = View(fdmap, opentab, page)
  BY DEF View
<1> QED
  BY <1>1, AtIsView
(* The server is left alone while clients come, go and seek().                *)
Sought(e) == page'[e].off # page[e].off =>
                 page'[e].off = 0 /\ (RacySeek = FALSE => ~Moving(e))

LEMMA FreshKept ==
    ASSUME IInv, Fresh, AtOffset, srv' = srv,
           \A e \in Entries : MappedIn(fdmap', e) => MappedIn(fdmap, e),
           \A e \in Entries : Sought(e)
    PROVE  Fresh' /\ AtOffset'
<1>1. srv.pc = "reply" /\ srv.entry # None => srv.entry \in Entries
  BY InServer DEF IInv, TypeOK
<1>2. srv.pc = "move" => srv.entry \in Entries
  BY InServer DEF IInv, TypeOK
<1> QED
  BY <1>1, <1>2 DEF Fresh, AtOffset, Moving, Sought

(* Nobody gets a descriptor that was not shared with him.                     *)
LEMMA NoneMapped ==
    ASSUME \A c \in Clients, i \in Slots : \/ fdmap'[c][i] \in {fdmap[c][i], None}
                                           \/ MappedIn(fdmap, fdmap'[c][i])
    PROVE  \A e \in Entries : MappedIn(fdmap', e) => MappedIn(fdmap, e)
BY Apart DEF MappedIn

LEMMA DupView == ASSUME IInv, ViewInv, NEW c \in Clients, Dup(c)
                 PROVE  ViewInv' /\ Promise!Share
<1>1. PICK i \in Slots \ FreeSlots(c), j \in FreeSlots(c) :
         fdmap' = [fdmap EXCEPT ![c][j] = fdmap[c][i]]
  BY DEF Dup
<1>2. UNCHANGED <<cli, srv, opentab, page, content>> /\ cli[c].pc = "run"
  BY DEF Dup, Ready
<1>3. i \in Slots /\ j \in Slots /\ fdmap[c][j] = None
  BY DEF FreeSlots
<1>4. \A d \in Clients, k \in Slots :
         \/ fdmap'[d][k] = fdmap[d][k]
         \/ d = c /\ k = j /\ fdmap[d][k] = None /\ fdmap'[d][k] = fdmap[c][i]
  BY <1>1, <1>3 DEF IInv, TypeOK
<1>5. MappedIn(fdmap, fdmap[c][i])
  BY <1>3 DEF MappedIn
<1>6. \A e \in Entries : MappedIn(fdmap', e) => MappedIn(fdmap, e)
  BY <1>4, <1>5, NoneMapped
<1>7. \A e \in Entries : MappedIn(fdmap, e) => MappedIn(fdmap', e)
  BY <1>4, Apart DEF MappedIn
<1>8. OpenAt' = OpenAt
  BY <1>2, <1>6, <1>7, ViewKept
<1>9. Promise!Share
  BY <1>2, <1>4, <1>5, <1>8 DEF Promise!Share, Promise!Used, MappedIn, Done
<1>10. ViewInv'
  <2>1. AbsentHasNone'
    BY <1>2, <1>4 DEF ViewInv, AbsentHasNone
  <2>2. \A e \in Entries : Sought(e)
    BY <1>2 DEF Sought
  <2> QED
    BY <1>2, <1>6, <2>1, <2>2, FreshKept DEF ViewInv
<1> QED
  BY <1>9, <1>10

LEMMA ForkView == ASSUME IInv, ViewInv, NEW c \in Clients, Fork(c)
                  PROVE  ViewInv' /\ Promise!Share
<1>1. PICK d \in Clients : /\ cli[d].pc = "free"
                           /\ cli' = [cli EXCEPT ![d] = Idle]
                           /\ fdmap' = [fdmap EXCEPT ![d] = fdmap[c]]
  BY DEF Fork
<1>2. UNCHANGED <<srv, opentab, page, content>> /\ cli[c].pc = "run"
  BY DEF Fork, Ready, kept
<1>3. \A k \in Slots : fdmap[d][k] = None
  BY <1>1 DEF ViewInv, AbsentHasNone
<1>4. \A f \in Clients, k \in Slots :
         \/ fdmap'[f][k] = fdmap[f][k]
         \/ f = d /\ fdmap[f][k] = None /\ fdmap'[f][k] = fdmap[c][k]
  BY <1>1, <1>3 DEF IInv, TypeOK
<1>5. \A k \in Slots : MappedIn(fdmap, fdmap[c][k])
  BY DEF MappedIn
<1>6. \A e \in Entries : MappedIn(fdmap', e) => MappedIn(fdmap, e)
  BY <1>4, <1>5, NoneMapped
<1>7. \A e \in Entries : MappedIn(fdmap, e) => MappedIn(fdmap', e)
  BY <1>4, Apart DEF MappedIn
<1>8. OpenAt' = OpenAt
  BY <1>2, <1>6, <1>7, ViewKept
<1>9. Promise!Share
  BY <1>2, <1>4, <1>5, <1>8 DEF Promise!Share, Promise!Used, MappedIn, Done
<1>10. ViewInv'
  <2>1. /\ cli'[d].pc = "run"
        /\ \A f \in Clients \ {d} : cli'[f] = cli[f] /\ fdmap'[f] = fdmap[f]
    BY <1>1 DEF Idle, Client, IInv, TypeOK
  <2>2. AbsentHasNone'
    BY <2>1 DEF ViewInv, AbsentHasNone
  <2>3. \A e \in Entries : Sought(e)
    BY <1>2 DEF Sought
  <2> QED
    BY <1>2, <1>6, <2>2, <2>3, FreshKept DEF ViewInv
<1> QED
  BY <1>9, <1>10

(* close(), exit() and death.                                                 *)
LEMMA DropView ==
    ASSUME IInv, ViewInv, UNCHANGED <<srv, opentab, page, content>>,
           \A c \in Clients, i \in Slots : fdmap'[c][i] \in {fdmap[c][i], None}
    PROVE  Fresh' /\ AtOffset' /\ Promise!Drop
<1>1. \A e \in Entries : MappedIn(fdmap', e) => MappedIn(fdmap, e)
  BY NoneMapped
<1>2. OpenAt' = Promise!Keep(fdmap')
  <2>1. View(fdmap', opentab', page')
          = [e \in Entries |-> IF MappedIn(fdmap', e) THEN View(fdmap, opentab, page)[e] ELSE None]
    BY <1>1 DEF View
  <2> QED
    BY <2>1, AtIsView DEF Promise!Keep, Promise!Used, MappedIn
<1>3. Promise!Drop
  BY <1>2 DEF Promise!Drop, Done
<1>4. \A e \in Entries : Sought(e)
  BY DEF Sought
<1> QED
  BY <1>1, <1>3, <1>4, FreshKept DEF ViewInv

LEMMA GoneView == ASSUME IInv, ViewInv, NEW c \in Clients, Gone(c)
                  PROVE  ViewInv' /\ Promise!Drop
<1>1. /\ UNCHANGED <<srv, opentab, page, content>>
      /\ fdmap' = [fdmap EXCEPT ![c] = NoFds]
      /\ cli' = [cli EXCEPT ![c] = Client("dead")]
  BY DEF Gone, kept
<1>2. \A d \in Clients, i \in Slots : fdmap'[d][i] = IF d = c THEN None ELSE fdmap[d][i]
  BY <1>1 DEF IInv, TypeOK, NoFds
<1>3. AbsentHasNone'
  <2>1. \A d \in Clients \ {c} : cli'[d] = cli[d]
    BY <1>1 DEF IInv, TypeOK
  <2> QED
    BY <1>2, <2>1 DEF ViewInv, AbsentHasNone
<1> QED
  BY <1>1, <1>2, <1>3, DropView DEF ViewInv

LEMMA ReturnView == ASSUME IInv, ViewInv, NEW c \in Clients, Return(c)
                    PROVE  ViewInv' /\ Promise!Drop
<1>1. cli[c].pc = "got" /\ UNCHANGED <<srv, opentab, page, content>>
  BY DEF Return, kept
<1>2. /\ cli' \in [Clients -> ClientStates] /\ cli'[c].pc \in {"run", "send"}
      /\ \A d \in Clients \ {c} : cli'[d] = cli[d]
  <2>1. CASE cli' = [cli EXCEPT ![c] = Idle]
    BY <2>1, NewClient DEF Idle, IInv, TypeOK
  <2>2. CASE cli' = [cli EXCEPT ![c].pc = "send",
                                ![c].req.words = Part(cli[c].buf, Len(cli[c].stored))]
    <3>1. cli' \in [Clients -> ClientStates]
      BY ReturnInv DEF IInv, TypeOK
    <3>2. cli[c] \in ClientStates
      BY DEF IInv, TypeOK
    <3>3. cli'[c].pc = "send" /\ \A d \in Clients \ {c} : cli'[d] = cli[d]
      BY <2>2, <3>2 DEF IInv, TypeOK, ClientStates
    <3> QED
      BY <3>1, <3>3
  <2> QED
    BY <2>1, <2>2 DEF Return
<1>3. \A d \in Clients, i \in Slots :
         fdmap'[d][i] \in {fdmap[d][i], None} /\ (d # c => fdmap'[d][i] = fdmap[d][i])
  <2>1. CASE UNCHANGED fdmap
    BY <2>1
  <2>2. CASE fdmap' = [fdmap EXCEPT ![c][cli[c].req.slot] = None]
    BY <2>2 DEF IInv, TypeOK
  <2> QED
    BY <2>1, <2>2 DEF Return, Without
<1>4. AbsentHasNone'
  BY <1>2, <1>3 DEF ViewInv, AbsentHasNone
<1> QED
  BY <1>1, <1>3, <1>4, DropView DEF ViewInv

LEMMA SeekView == ASSUME IInv, ViewInv, NEW c \in Clients, Seek(c)
                  PROVE  ViewInv' /\ \E o \in Entries : OpenAt[o] # None /\ Promise!Seek(o)
<1>1. PICK i \in Slots \ FreeSlots(c) : /\ page' = [page EXCEPT ![fdmap[c][i]].off = 0]
                                        /\ RacySeek \/ ~Moving(fdmap[c][i])
  BY DEF Seek
<1>2. UNCHANGED <<cli, fdmap, srv, opentab, content>>
  BY DEF Seek, kept
<1> DEFINE o == fdmap[c][i]
<1>3. o \in Entries /\ MappedIn(fdmap, o)
  BY DEF FreeSlots, IInv, TypeOK, MappedIn
<1>4. /\ \A e \in Entries \ {o} : page'[e] = page[e]
      /\ page'[o].off = 0
  BY <1>1, <1>3 DEF IInv, TypeOK
<1>5. ViewInv'
  <2>1. AbsentHasNone'
    BY <1>2 DEF ViewInv, AbsentHasNone
  <2>2. \A e \in Entries : Sought(e)
    BY <1>1, <1>4 DEF Sought
  <2> QED
    BY <1>2, <2>1, <2>2, FreshKept DEF ViewInv
<1> HIDE DEF o
<1>6. OpenAt[o] = [file |-> opentab[o].file, offset |-> page[o].off]
  BY <1>3, AtIsView DEF View
<1>7. OpenAt[o] # None
  <2>1. opentab[o].file \in Files /\ page[o].off \in Nat
    BY <1>3, OpenIsMapped DEF Mapped, IInv, TypeOK
  <2> QED
    BY <1>6, <2>1, Apart
<1>8. OpenAt' = [OpenAt EXCEPT ![o].offset = 0]
  <2>1. OpenAt' = [OpenAt EXCEPT ![o] = [file |-> opentab[o].file, offset |-> 0]]
    BY <1>2, <1>3, <1>4, AtIsView DEF View
  <2>2. [OpenAt[o] EXCEPT !.offset = 0] = [file |-> opentab[o].file, offset |-> 0]
    BY <1>6
  <2> QED
    BY <2>1, <2>2
<1>9. Promise!Seek(o)
  BY <1>2, <1>8 DEF Promise!Seek, Done
<1> QED
  BY <1>3, <1>5, <1>7, <1>9
(* Most steps are invisible: nothing an open file is made of changes.         *)
LEMMA Invisible ==
    ASSUME UNCHANGED <<fdmap, opentab, page, content>>, Done' = Done
    PROVE  UNCHANGED Promise!vars
<1>1. OpenAt' = OpenAt
  BY ViewKept
<1> QED
  BY <1>1 DEF Promise!vars

(* A client changes its state and no descriptor.                              *)
LEMMA ClientView ==
    ASSUME IInv, ViewInv, NEW c \in Clients, UNCHANGED <<fdmap, opentab, page, content>>,
           cli[c].pc \notin {"free", "dead"}, cli'[c].pc \notin {"free", "dead"},
           \A d \in Clients \ {c} : cli'[d] = cli[d],
           srv' = srv \/ (srv.pc = "recv" /\ srv'.pc \notin {"reply", "move"})
    PROVE  ViewInv' /\ UNCHANGED Promise!vars
<1>1. AbsentHasNone'
  BY DEF ViewInv, AbsentHasNone
<1>2. Fresh' /\ AtOffset' /\ Done' = Done
  BY DEF ViewInv, Fresh, AtOffset, Done
<1> QED
  BY <1>1, <1>2, Invisible DEF ViewInv

LEMMA CallView ==
    ASSUME IInv, ViewInv, NEW c \in Clients, NEW q, NEW b, Ready(c), Call(c, q, b),
           content' = content
    PROVE  ViewInv' /\ UNCHANGED Promise!vars
<1>1. /\ cli[c].pc = "run" /\ cli'[c].pc = "send"
      /\ \A d \in Clients \ {c} : cli'[d] = cli[d]
      /\ UNCHANGED <<fdmap, srv, opentab, page>>
  BY DEF Call, Ready, Client, IInv, TypeOK
<1> QED
  BY <1>1, ClientView

LEMMA SendView == ASSUME IInv, ViewInv, NEW c \in Clients, Send(c)
                  PROVE  ViewInv' /\ UNCHANGED Promise!vars
<1>1. /\ cli[c].pc = "send" /\ srv.pc = "recv" /\ UNCHANGED <<fdmap, opentab, page, content>>
  BY DEF Send, kept
<1>2. PICK p \in {"panic", "sent"} : cli' = [cli EXCEPT ![c].pc = p]
  BY DEF Send
<1>3. cli'[c].pc = p /\ \A d \in Clients \ {c} : cli'[d] = cli[d]
  BY <1>2 DEF IInv, TypeOK, ClientStates
<1>4. srv' = srv \/ srv'.pc \in {"scan", "handle"}
  BY DEF Send, Received
<1> QED
  BY <1>1, <1>3, <1>4, ClientView

LEMMA WaitView == ASSUME IInv, ViewInv, NEW c \in Clients, Wait(c)
                  PROVE  ViewInv' /\ UNCHANGED Promise!vars
<1>1. /\ cli[c].pc = "sent" /\ cli' = [cli EXCEPT ![c].pc = "wait"]
      /\ UNCHANGED <<fdmap, srv, opentab, page, content>>
  BY DEF Wait, kept
<1>2. cli'[c].pc = "wait" /\ \A d \in Clients \ {c} : cli'[d] = cli[d]
  BY <1>1 DEF IInv, TypeOK, ClientStates
<1> QED
  BY <1>1, <1>2, ClientView

(* The server changes neither descriptors nor clients' states.                *)
LEMMA AbsentKept ==
    ASSUME AbsentHasNone, UNCHANGED fdmap, \A c \in Clients : cli'[c].pc = cli[c].pc
    PROVE  AbsentHasNone'
BY DEF AbsentHasNone

LEMMA HandleView ==
    ASSUME IInv, ViewInv, Handle
    PROVE  ViewInv' /\ (UNCHANGED Promise!vars \/ \E f \in Files : Promise!Truncate(f))
<1>1. srv.pc = "handle" /\ UNCHANGED <<cli, fdmap, opentab, page>>
  BY DEF Handle
<1>2. AbsentHasNone'
  BY <1>1, AbsentKept DEF ViewInv
<1>3. ASSUME NEW r, Answer(r) PROVE Fresh' /\ AtOffset' /\ Done' = Done
  BY <1>1, <1>3 DEF Answer, Respond, Fresh, AtOffset, Done
<1>4. ASSUME srv' = [pc |-> "move", whom |-> srv.whom, req |-> srv.req,
                     entry |-> srv.req.id % MAXOPEN,
                     off |-> page[srv.req.id % MAXOPEN].off]
      PROVE  Fresh' /\ AtOffset' /\ Done' = Done
  BY <1>1, <1>4 DEF Fresh, AtOffset, Done
<1>5. \/ UNCHANGED content
      \/ /\ IsOpen(srv.req.id) /\ srv.req.op = "set_size"
         /\ content' = [content EXCEPT ![opentab[srv.req.id % MAXOPEN].file] = << >>]
  <2>1. srv.req.op \in {"sync"} \cup FileOps
    BY <1>1, InServer, InRequest DEF IInv, TypeOK, ServerOK
  <2> QED
    BY <2>1 DEF Handle, FileOps
<1>6. Fresh' /\ AtOffset' /\ Done' = Done
  BY <1>3, <1>4, InServer, InRequest, <1>1 DEF Handle, IInv, TypeOK, ServerOK, FileOps
<1>7. CASE UNCHANGED content
  BY <1>1, <1>2, <1>6, <1>7, Invisible DEF ViewInv
<1>8. CASE /\ IsOpen(srv.req.id) /\ srv.req.op = "set_size"
           /\ content' = [content EXCEPT ![opentab[srv.req.id % MAXOPEN].file] = << >>]
  <2>1. srv.req.id \in Nat /\ MAXOPEN \in Nat /\ MAXOPEN > 0
    BY <1>1, <1>8, InServer, InRequest, SizeAssumption DEF IInv, TypeOK, FileOps
  <2>2. srv.req.id % MAXOPEN \in Entries
    BY <2>1 DEF Entries
  <2>3. opentab[srv.req.id % MAXOPEN].file \in Files
    BY <1>8, <2>2, RefTellsMapped, OpenIsMapped DEF IsOpen
  <2>4. OpenAt' = OpenAt
    BY <1>1, ViewKept
  <2> QED
    BY <1>1, <1>2, <1>6, <1>8, <2>3, <2>4 DEF ViewInv, Promise!Truncate
<1> QED
  BY <1>5, <1>7, <1>8

LEMMA NextEntryView == ASSUME IInv, ViewInv, NextEntry
                       PROVE  ViewInv' /\ UNCHANGED Promise!vars
<1>1. srv.pc = "scan" /\ UNCHANGED <<cli, fdmap, opentab, page, content>>
  BY DEF NextEntry, kept
<1>2. srv'.pc = "scan" \/ Answer(MaxOpen)
  BY <1>1, InServer DEF NextEntry, IInv, TypeOK, ServerStates
<1>3. Fresh' /\ AtOffset' /\ Done' = Done
  BY <1>1, <1>2 DEF Answer, Respond, Fresh, AtOffset, Done
<1> QED
  BY <1>1, <1>3, AbsentKept, Invisible DEF ViewInv

LEMMA AllocView ==
    ASSUME IInv, ViewInv, Alloc
    PROVE  ViewInv' /\ (UNCHANGED Promise!vars \/ \E f \in Files : Promise!Truncate(f))
<1> DEFINE e == srv.entry
<1>1. /\ srv.pc = "scan" /\ e < MAXOPEN /\ PageRef(e) <= 1
      /\ UNCHANGED <<cli, fdmap>>
  BY DEF Alloc
<1>2. e \in Entries /\ srv.req.op = "open" /\ srv.req.file \in Files \cup {Missing}
  <2>1. srv \in ServerStates /\ srv.req.op = "open"
    BY <1>1 DEF IInv, TypeOK, ServerOK
  <2>2. e \in 0 .. MAXOPEN
    BY <1>1, <2>1, InServer
  <2> QED
    BY <1>1, <2>1, <2>2, SizeAssumption, InServer, InRequest DEF Entries
<1>3. ~MappedIn(fdmap, e)
  <2>1. PageRef(e) \in Nat
    BY MappingsMapped DEF PageRef
  <2> QED
    BY <1>1, <1>2, <2>1, OpenIsMapped DEF Mapped
<1>4. /\ \E x : page' = [page EXCEPT ![e] = [id |-> x, off |-> 0]]
      /\ \A x \in Entries \ {e} : opentab'[x] = opentab[x]
  BY <1>2 DEF Alloc, NewFd, IInv, TypeOK
<1>5. page'[e].off = 0 /\ \A x \in Entries \ {e} : page'[x] = page[x]
  BY <1>2, <1>4 DEF IInv, TypeOK
<1>6. OpenAt' = OpenAt
  BY <1>1, <1>3, <1>4, <1>5, ViewKept
<1>7. /\ srv'.pc = "reply" /\ srv'.done = None /\ srv'.entry \in {e, None}
  BY DEF Alloc, Answer, Respond
<1>8. ViewInv'
  <2>1. Fresh' /\ AtOffset'
    BY <1>1, <1>3, <1>5, <1>7 DEF Fresh, AtOffset
  <2> QED
    BY <1>1, <2>1, AbsentKept DEF ViewInv
<1>9. Done' = Done
  BY <1>1, <1>7 DEF Done
<1>10. \/ UNCHANGED content
       \/ srv.req.file \in Files /\ content' = [content EXCEPT ![srv.req.file] = << >>]
  BY <1>2 DEF Alloc
<1> QED
  BY <1>1, <1>6, <1>8, <1>9, <1>10 DEF Promise!vars, Promise!Truncate
(* What is stored is what OpenFiles has for it, and what is found.            *)
LEMMA StoredIsPut ==
    ASSUME NEW old \in FileWords, NEW off \in Nat, NEW new \in Seq(Words)
    PROVE  Promise!Put(old, off, new) = Stored(old, off, new)
<1> DEFINE T == Words \cup {None}
           hole == [i \in 1 .. off |-> IF i <= Len(old) THEN old[i] ELSE None]
           rest == SubSeq(old, off + Len(new) + 1, Len(old))
           front == hole \o new
           put == front \o rest
           st == Stored(old, off, new)
           m == off + Len(new)
           n == IF Len(old) > m THEN Len(old) ELSE m
<1>1. /\ Len(old) \in Nat /\ Len(new) \in Nat /\ m \in Nat
      /\ old \in Seq(T) /\ new \in Seq(T)
      /\ \A j \in 1 .. Len(old) : old[j] \in T
  BY DEF FileWords
<1>2. /\ hole \in Seq(T) /\ Len(hole) = off
      /\ \A i \in 1 .. off : hole[i] = IF i <= Len(old) THEN old[i] ELSE None
  <2>1. \A i \in 1 .. off : (IF i <= Len(old) THEN old[i] ELSE None) \in T
    BY <1>1
  <2> QED
    BY <2>1
<1>3. /\ front \in Seq(T) /\ Len(front) = m
      /\ \A i \in 1 .. m : front[i] = IF i <= off THEN hole[i] ELSE new[i - off]
  <2> HIDE DEF hole
  <2> QED
    BY <1>1, <1>2, ConcatProperties
<1>4. /\ Len(st) = n
      /\ \A k \in 1 .. n : st[k] = IF k > off /\ k <= m THEN new[k - off]
                                   ELSE IF k <= Len(old) THEN old[k] ELSE None
  BY <1>1 DEF Stored
<1>5. st \in Seq(T)
  BY StoredType DEF FileWords
<1>6. \A k \in 1 .. m : k <= n /\ front[k] = st[k]
  <2> SUFFICES ASSUME NEW k \in 1 .. m PROVE k <= n /\ front[k] = st[k]
    OBVIOUS
  <2> HIDE DEF hole, front, st
  <2>1. k \in 1 .. n /\ k \in Int
    BY <1>1
  <2>2. CASE k <= off
    <3>1. front[k] = hole[k] /\ k \in 1 .. off
      BY <1>3, <2>2
    <3>2. st[k] = IF k <= Len(old) THEN old[k] ELSE None
      BY <1>4, <2>1, <2>2
    <3> QED
      BY <1>2, <2>1, <3>1, <3>2
  <2>3. CASE k > off
    <3>1. front[k] = new[k - off]
      BY <1>3, <2>1, <2>3
    <3>2. st[k] = new[k - off]
      BY <1>1, <1>4, <2>1, <2>3
    <3> QED
      BY <2>1, <3>1, <3>2
  <2> QED
    BY <2>1, <2>2, <2>3
<1>7. CASE Len(old) > m
  <2>1. m + 1 \in Int /\ Len(old) \in Int /\ \A i \in m + 1 .. Len(old) : old[i] \in T
    BY <1>1
  <2>2. /\ rest \in Seq(T)
        /\ Len(rest) = IF m + 1 <= Len(old) THEN Len(old) - (m + 1) + 1 ELSE 0
        /\ \A i \in 1 .. Len(old) - (m + 1) + 1 : rest[i] = old[m + 1 + i - 1]
    BY <2>1, SubSeqProperties
  <2> HIDE DEF rest, hole, front, st
  <2>3. Len(rest) = Len(old) - m
    BY <1>1, <1>7, <2>2
  <2>4. \A k \in m + 1 .. Len(old) : rest[k - m] = old[k]
    <3> SUFFICES ASSUME NEW k \in m + 1 .. Len(old) PROVE rest[k - m] = old[k]
      OBVIOUS
    <3>1. k - m \in 1 .. Len(old) - (m + 1) + 1 /\ m + 1 + (k - m) - 1 = k
      BY <1>1
    <3> QED
      BY <2>2, <3>1
  <2>5. /\ put \in Seq(T) /\ Len(put) = m + Len(rest)
        /\ \A i \in 1 .. m + Len(rest) : put[i] = IF i <= m THEN front[i] ELSE rest[i - m]
    <3>1. /\ put \in Seq(T) /\ Len(put) = Len(front) + Len(rest)
          /\ \A i \in 1 .. Len(front) + Len(rest) :
                put[i] = IF i <= Len(front) THEN front[i] ELSE rest[i - Len(front)]
      BY <1>3, <2>2, ConcatProperties
    <3> HIDE DEF put
    <3>2. Len(front) = m
      BY <1>3
    <3> HIDE DEF m
    <3> QED
      BY <3>1, <3>2
  <2> HIDE DEF put
  <2>6. Len(put) = n /\ n = Len(old)
    BY <1>1, <1>7, <2>3, <2>5
  <2>7. ASSUME NEW k \in 1 .. n PROVE put[k] = st[k]
    <3>1. k \in 1 .. m + Len(rest) /\ k \in Int
      BY <1>1, <2>3, <2>6
    <3>2. CASE k <= m
      <4>1. k \in 1 .. m /\ put[k] = front[k]
        BY <1>1, <2>5, <3>1, <3>2
      <4> QED
        BY <1>6, <4>1
    <3>3. CASE k > m
      <4>1. put[k] = rest[k - m]
        BY <1>1, <2>5, <3>1, <3>3
      <4>2. k \in m + 1 .. Len(old)
        BY <1>1, <2>6, <3>3
      <4>3. st[k] = old[k]
        BY <1>1, <1>4, <2>7, <3>3, <4>2
      <4> QED
        BY <2>4, <4>1, <4>2, <4>3
    <3>4. k <= m \/ k > m
      BY <1>1, <3>1
    <3> QED
      BY <3>2, <3>3, <3>4
  <2> HIDE DEF n
  <2>8. put = st
    <3>1. Len(put) = Len(st) /\ \A k \in 1 .. Len(put) : put[k] = st[k]
      BY <1>4, <2>6, <2>7
    <3> QED
      BY <1>5, <2>5, <3>1, SeqEqual
  <2> QED
    BY <2>8 DEF Promise!Put, put, front, hole, rest, st
<1>8. CASE ~(Len(old) > m)
  <2>1. rest = << >>
    BY <1>1, <1>8, SubSeqEmpty
  <2>2. put = front
    <3> HIDE DEF rest, front
    <3> QED
      BY <1>3, <2>1, ConcatEmptySeq
  <2>3. front = st
    <3> HIDE DEF front, st
    <3>1. Len(front) = Len(st) /\ \A k \in 1 .. Len(front) : front[k] = st[k]
      BY <1>3, <1>4, <1>6, <1>8
    <3> QED
      BY <1>3, <1>5, <3>1, SeqEqual
  <2> QED
    BY <2>2, <2>3 DEF Promise!Put
<1> QED
  BY <1>7, <1>8

LEMMA FoundIsGet ==
    ASSUME NEW words \in FileWords, NEW off \in Nat
    PROVE  Promise!Get(words, off, 1) = Found(words, off)
<1> DEFINE T == Words \cup {None}
<1>1. words \in Seq(T) /\ Len(words) \in Nat /\ \A j \in 1 .. Len(words) : words[j] \in T
  BY DEF FileWords
<1>2. CASE off < Len(words)
  <2> DEFINE got == SubSeq(words, off + 1, off + 1)
  <2>1. Promise!Get(words, off, 1) = got
    BY <1>1, <1>2 DEF Promise!Get
  <2>2. off + 1 \in Int /\ off + 1 \in 1 .. Len(words)
    BY <1>1, <1>2
  <2>3. /\ got \in Seq(T) /\ Len(got) = 1 /\ got[1] = words[off + 1]
    <3>1. \A i \in off + 1 .. off + 1 : words[i] \in T
      BY <1>1, <2>2
    <3>2. /\ got \in Seq(T) /\ Len(got) = (off + 1) - (off + 1) + 1
          /\ \A i \in 1 .. (off + 1) - (off + 1) + 1 : got[i] = words[off + 1 + i - 1]
      BY <2>2, <3>1, SubSeqProperties
    <3> HIDE DEF got
    <3>3. (off + 1) - (off + 1) + 1 = 1 /\ off + 1 + 1 - 1 = off + 1
      OBVIOUS
    <3> QED
      BY <3>2, <3>3
  <2> HIDE DEF got
  <2>4. got = <<words[off + 1]>>
    BY <2>3
  <2> QED
    BY <1>2, <2>1, <2>4 DEF Found
<1>3. CASE off >= Len(words)
  <2>1. Promise!Get(words, off, 1) = SubSeq(words, off + 1, Len(words))
    BY <1>1, <1>3 DEF Promise!Get
  <2>2. SubSeq(words, off + 1, Len(words)) = << >>
    BY <1>1, <1>3, SubSeqEmpty
  <2> QED
    BY <1>1, <1>3, <2>1, <2>2 DEF Found
<1> QED
  BY <1>1, <1>2, <1>3
(* A read or a write takes effect when the server moves the offset.           *)
LEMMA MoveView ==
    ASSUME IInv, ViewInv, RacySeek = FALSE, Move
    PROVE  /\ ViewInv'
           /\ \/ \E o \in Entries : OpenAt[o] # None /\ (Promise!Read(o) \/ Promise!Write(o))
              \/ \E f \in Files : Promise!Late(f)
<1> DEFINE e == srv.entry
           f == opentab[e].file
<1>1. srv.pc = "move" /\ UNCHANGED <<fdmap, opentab>>
  BY DEF Move
<1>2. /\ srv.whom \in Clients /\ srv.req \in Requests /\ e \in Entries
      /\ srv.off \in Nat /\ srv.req.op \in {"read", "write"} /\ f \in Files
      /\ srv.off = page[e].off
  BY <1>1, InServer DEF IInv, TypeOK, ServerOK, ViewInv, AtOffset
<1>3. content[f] \in FileWords
  BY <1>2 DEF IInv, TypeOK
<1>4. PICK n \in Nat, t \in Transfers :
        /\ page' = [page EXCEPT ![e].off = @ + n] /\ n = Len(t.words)
        /\ Respond(n, None, t)
        /\ \/ /\ t.op = "read" /\ t.count = 1 /\ t.words = Found(content[f], srv.off)
              /\ UNCHANGED <<content, cli>>
           \/ /\ t.op = "write" /\ t.off = srv.off /\ t.words \in Seq(Words)
              /\ content' = [content EXCEPT ![f] = Stored(@, srv.off, t.words)]
              /\ \/ UNCHANGED cli
                 \/ cli' = [cli EXCEPT ![srv.whom].stored = @ \o t.words]
  <2>1. CASE srv.req.op = "read"
    <3> DEFINE words == Found(content[f], srv.off)
               t == [op |-> "read", count |-> 1, words |-> words]
    <3>1. /\ page' = [page EXCEPT ![e].off = @ + Len(words)]
          /\ Respond(Len(words), None, t) /\ UNCHANGED <<content, cli>>
      BY <2>1 DEF Move
    <3>2. words \in FileWords /\ Len(words) \in Nat
      BY <1>2, <1>3, FoundType
    <3> HIDE DEF words
    <3>3. t \in Transfers /\ t.op = "read" /\ t.count = 1 /\ t.words = words
      BY <3>2 DEF Transfers
    <3> HIDE DEF t
    <3> QED
      BY <3>1, <3>2, <3>3 DEF words
  <2>2. CASE srv.req.op = "write"
    <3> DEFINE words == srv.req.words
               t == [op |-> "write", off |-> srv.off, words |-> words]
    <3>1. /\ content' = [content EXCEPT ![f] = Stored(@, srv.off, words)]
          /\ page' = [page EXCEPT ![e].off = @ + Len(words)]
          /\ Respond(Len(words), None, t)
          /\ \/ UNCHANGED cli
             \/ cli' = [cli EXCEPT ![srv.whom].stored = @ \o words]
      BY <2>2 DEF Move
    <3>2. words \in Seq(Words) /\ words \in FileWords /\ Len(words) \in Nat
      BY <1>2, <2>2, InRequest DEF FileWords
    <3> HIDE DEF words
    <3>3. t \in Transfers /\ t.op = "write" /\ t.off = srv.off /\ t.words = words
      BY <1>2, <3>2 DEF Transfers
    <3> HIDE DEF t
    <3> QED
      BY <3>1, <3>2, <3>3
  <2> QED
    BY <1>2, <2>1, <2>2
<1>5. /\ srv'.pc = "reply" /\ srv'.entry = None /\ Done' = t /\ t # None
  BY <1>4, Apart DEF Respond, Done
<1>6. ViewInv'
  <2>1. Fresh' /\ AtOffset'
    BY <1>5 DEF Fresh, AtOffset
  <2>2. \A c \in Clients : cli'[c].pc = cli[c].pc
    <3>1. CASE UNCHANGED cli
      BY <3>1
    <3>2. CASE cli' = [cli EXCEPT ![srv.whom].stored = @ \o t.words]
      BY <1>2, <3>2 DEF IInv, TypeOK, ClientStates
    <3> QED
      BY <1>4, <3>1, <3>2
  <2>3. AbsentHasNone'
    BY <1>1, <2>2, AbsentKept DEF ViewInv
  <2> QED
    BY <2>1, <2>3 DEF ViewInv
<1>7. /\ page'[e].off = page[e].off + n
      /\ \A x \in Entries \ {e} : page'[x] = page[x]
  BY <1>2, <1>4 DEF IInv, TypeOK
<1>8. CASE MappedIn(fdmap, e)
  <2>1. OpenAt[e] = [file |-> f, offset |-> srv.off]
    BY <1>2, <1>8, AtIsView DEF View
  <2>2. OpenAt[e] # None /\ OpenAt[e].file = f /\ OpenAt[e].offset = srv.off
    BY <1>2, <2>1, Apart
  <2>3. OpenAt' = [OpenAt EXCEPT ![e].offset = @ + n]
    <3>1. OpenAt' = [OpenAt EXCEPT ![e] = [file |-> f, offset |-> srv.off + n]]
      BY <1>1, <1>2, <1>7, <1>8, AtIsView DEF View
    <3>2. [OpenAt[e] EXCEPT !.offset = @ + n] = [file |-> f, offset |-> srv.off + n]
      BY <2>1
    <3> QED
      BY <3>1, <3>2
  <2>4. CASE t.op = "read"
    <3>1. t.count = 1 /\ t.words = Found(content[f], srv.off) /\ UNCHANGED content
      BY <1>4, <2>4
    <3>2. t.words = Promise!Get(content[OpenAt[e].file], OpenAt[e].offset, t.count)
      BY <1>2, <1>3, <2>2, <3>1, FoundIsGet
    <3>3. Promise!Read(e)
      BY <1>1, <1>4, <1>5, <2>3, <2>4, <3>1, <3>2 DEF Promise!Read
    <3> QED
      BY <1>2, <1>6, <2>2, <3>3
  <2>5. CASE t.op = "write"
    <3>1. t.words \in Seq(Words) /\ content' = [content EXCEPT ![f] = Stored(@, srv.off, t.words)]
      BY <1>4, <2>5
    <3>2. Promise!Put(content[f], srv.off, t.words) = Stored(content[f], srv.off, t.words)
      BY <1>2, <1>3, <3>1, StoredIsPut
    <3>3. Promise!Write(e)
      BY <1>1, <1>4, <1>5, <2>2, <2>3, <2>5, <3>1, <3>2 DEF Promise!Write
    <3> QED
      BY <1>2, <1>6, <2>2, <3>3
  <2> QED
    BY <1>4, <2>4, <2>5
<1>9. CASE ~MappedIn(fdmap, e)
  <2>1. OpenAt' = OpenAt
    BY <1>1, <1>7, <1>9, ViewKept
  <2>2. CASE t.op = "read"
    <3>1. UNCHANGED content
      BY <1>4, <2>2
    <3> QED
      BY <1>1, <1>2, <1>5, <1>6, <2>1, <2>2, <3>1 DEF Promise!Late
  <2>3. CASE t.op = "write"
    <3>1. /\ t.words \in Seq(Words) /\ t.off = srv.off
          /\ content' = [content EXCEPT ![f] = Stored(@, srv.off, t.words)]
      BY <1>4, <2>3
    <3>2. Promise!Put(content[f], srv.off, t.words) = Stored(content[f], srv.off, t.words)
      BY <1>2, <1>3, <3>1, StoredIsPut
    <3>3. Promise!Late(f)
      BY <1>1, <1>5, <2>1, <2>3, <3>1, <3>2 DEF Promise!Late
    <3> QED
      BY <1>2, <1>6, <3>3
  <2> QED
    BY <1>4, <2>2, <2>3
<1> QED
  BY <1>8, <1>9

(* The client learns of its open file when the page is mapped.                *)
(* A read that fails is not seen; a write that fails happens at the offset too, *)
(* as far as it goes.                                                         *)
LEMMA StoredPartIsBroken ==
    ASSUME NEW old \in FileWords, NEW off \in Nat, NEW size \in Nat, NEW front \in Seq(Words)
    PROVE  Promise!Put(Promise!Put(old, size, << >>), off, front) = StoredPart(old, off, size, front)
<1>1. /\ Promise!Put(old, size, << >>) = Stored(old, size, << >>)
      /\ Stored(old, size, << >>) \in FileWords
  BY NoWords, StoredIsPut, StoredType
<1> QED
  BY <1>1, StoredIsPut DEF StoredPart

LEMMA MoveFailsView ==
    ASSUME IInv, ViewInv, RacySeek = FALSE, MoveFails
    PROVE  /\ ViewInv'
           /\ \/ UNCHANGED Promise!vars
              \/ \E o \in Entries : OpenAt[o] # None /\ Promise!WriteFails(o)
              \/ \E f \in Files : Promise!Late(f)
<1> DEFINE e == srv.entry
           f == opentab[e].file
<1>1. /\ srv.pc = "move" /\ e \in Entries /\ srv.off \in Nat /\ f \in Files
      /\ UNCHANGED <<cli, fdmap, opentab, page>>
  BY MoveFailsSteps
<1>2. srv.off = page[e].off /\ content[f] \in FileWords
  BY <1>1 DEF ViewInv, AtOffset, IInv, TypeOK
<1>3. OpenAt' = OpenAt
  BY <1>1, ViewKept
<1>4. ASSUME NEW t, Respond(NoDisk, None, t) PROVE ViewInv' /\ Done' = t
  <2>1. Fresh' /\ AtOffset' /\ Done' = t
    BY <1>4 DEF Respond, Fresh, AtOffset, Done
  <2> QED
    BY <1>1, <2>1, AbsentKept DEF ViewInv
<1>5. CASE Answer(NoDisk) /\ UNCHANGED content
  <2>1. Done = None
    BY <1>1 DEF Done
  <2>2. ViewInv' /\ Done' = None
    BY <1>4, <1>5 DEF Answer
  <2> QED
    BY <1>1, <1>5, <2>1, <2>2, Invisible
<1>6. CASE \E front, t : WriteBroken(f, front, t)
  <2>1. PICK front, t : WriteBroken(f, front, t)
    BY <1>6
  <2>2. ViewInv' /\ Done' = t /\ t # None
    BY <1>4, <2>1, Apart DEF WriteBroken
  <2>3. Promise!Put(Promise!Put(content[f], t.size, << >>), t.off, t.words)
          = StoredPart(content[f], srv.off, t.size, front)
    BY <1>1, <1>2, <2>1, StoredPartIsBroken DEF WriteBroken
  <2>4. content' = [content EXCEPT ![f] = Promise!Broken(@)]
    <3>1. Promise!Broken(content[f]) = StoredPart(content[f], srv.off, t.size, front)
      BY <2>2, <2>3 DEF Promise!Broken
    <3> QED
      BY <2>1, <3>1 DEF WriteBroken
  <2>5. CASE MappedIn(fdmap, e)
    <3>1. OpenAt[e] = [file |-> f, offset |-> srv.off]
      BY <1>1, <1>2, <2>5, AtIsView DEF View
    <3>2. OpenAt[e] # None /\ OpenAt[e].file = f /\ OpenAt[e].offset = srv.off
      BY <1>1, <3>1, Apart
    <3>3. t.op = "failed" /\ t.off = srv.off /\ t.off + Len(t.words) < t.size
      BY <2>1 DEF WriteBroken
    <3>4. Promise!WriteFails(e)
      BY <1>1, <1>3, <2>2, <2>4, <3>2, <3>3 DEF Promise!WriteFails
    <3> QED
      BY <1>1, <2>2, <3>2, <3>4
  <2>6. CASE ~MappedIn(fdmap, e)
    <3>1. t.op = "failed"
      BY <2>1 DEF WriteBroken
    <3>2. Promise!Late(f)
      BY <1>1, <1>3, <2>2, <2>4, <3>1 DEF Promise!Late
    <3> QED
      BY <1>1, <2>2, <3>2
  <2> QED
    BY <2>5, <2>6
<1> QED
  BY <1>5, <1>6, MoveFailsSteps

LEMMA ReplyView ==
    ASSUME IInv, ViewInv, Reply
    PROVE  /\ ViewInv'
           /\ \/ Promise!Forget
              \/ \E c \in Clients, i \in Slots, o \in Entries, f \in Files :
                     Promise!Open(c, i, o, f)
<1> DEFINE c == srv.whom
           i == cli[c].req.slot
           o == srv.entry
<1>1. srv.pc = "reply" /\ UNCHANGED <<opentab, page, content>>
  BY DEF Reply, kept
<1>2. /\ c \in Clients /\ srv.req \in Requests /\ o \in Entries \cup {None}
      /\ Asked /\ AnswerOK
  BY <1>1, InServer DEF IInv, TypeOK, ServerOK
<1>3. srv'.pc \in {"panic", "recv"} /\ Done' = None
  BY DEF Reply, TryAgain, Done
<1>4. Fresh' /\ AtOffset'
  BY <1>3 DEF Fresh, AtOffset
<1>5. \/ UNCHANGED <<cli, fdmap>>
      \/ /\ cli[c].pc = "wait" /\ cli' = [cli EXCEPT ![c].pc = "got", ![c].r = srv.r]
         /\ \/ UNCHANGED fdmap /\ o = None
            \/ o # None /\ fdmap' = [fdmap EXCEPT ![c][i] = o]
  BY DEF Reply, TryAgain
<1>6. AbsentHasNone'
  <2>1. CASE UNCHANGED <<cli, fdmap>>
    BY <2>1 DEF ViewInv, AbsentHasNone
  <2>2. CASE /\ cli[c].pc = "wait" /\ cli' = [cli EXCEPT ![c].pc = "got", ![c].r = srv.r]
             /\ UNCHANGED fdmap \/ fdmap' = [fdmap EXCEPT ![c][i] = o]
    <3>1. cli[c] \in ClientStates
      BY <1>2 DEF IInv, TypeOK
    <3>2. cli'[c].pc = "got" /\ \A d \in Clients \ {c} : cli'[d] = cli[d]
      BY <1>2, <2>2, <3>1 DEF IInv, TypeOK, ClientStates
    <3>3. \A d \in Clients \ {c} : fdmap'[d] = fdmap[d]
      BY <2>2 DEF IInv, TypeOK
    <3> QED
      BY <3>2, <3>3 DEF ViewInv, AbsentHasNone
  <2> QED
    BY <1>5, <2>1, <2>2
<1>7. CASE UNCHANGED fdmap
  <2>1. OpenAt' = OpenAt
    BY <1>1, <1>7, ViewKept
  <2> QED
    BY <1>1, <1>3, <1>4, <1>6, <1>7, <2>1 DEF ViewInv, Promise!Forget
<1>8. CASE /\ cli[c].pc = "wait" /\ o # None
           /\ fdmap' = [fdmap EXCEPT ![c][i] = o]
  <2>1. /\ o \in Entries /\ srv.req.op = "open" /\ opentab[o].file \in Files
        /\ cli[c].req = srv.req
    BY <1>2, <1>8 DEF AnswerOK, Asked
  <2>2. i \in Slots /\ fdmap[c][i] = None
    <3>1. RequestOK(c)
      BY <1>2, <1>8 DEF IInv, RequestsOK, Busy
    <3> QED
      BY <1>2, <1>8, <2>1, <3>1, InRequest DEF RequestOK
  <2>3. ~MappedIn(fdmap, o) /\ page[o].off = 0 /\ srv.done = None
    BY <1>1, <1>8 DEF ViewInv, Fresh
  <2>4. \A e \in Entries : MappedIn(fdmap', e) <=> e = o \/ MappedIn(fdmap, e)
    <3>1. \A d \in Clients, k \in Slots :
             fdmap'[d][k] = IF d = c /\ k = i THEN o ELSE fdmap[d][k]
      BY <1>2, <1>8, <2>2 DEF IInv, TypeOK
    <3>2. MappedIn(fdmap', o)
      BY <1>2, <2>2, <3>1 DEF MappedIn
    <3>3. ASSUME NEW e \in Entries, MappedIn(fdmap', e) PROVE e = o \/ MappedIn(fdmap, e)
      BY <3>1, <3>3 DEF MappedIn
    <3>4. ASSUME NEW e \in Entries, MappedIn(fdmap, e) PROVE MappedIn(fdmap', e)
      BY <2>2, <3>1, <3>4, Apart DEF MappedIn
    <3> QED
      BY <3>2, <3>3, <3>4
  <2>5. OpenAt' = [OpenAt EXCEPT ![o] = [file |-> opentab[o].file, offset |-> 0]]
    BY <1>1, <2>1, <2>3, <2>4, AtIsView DEF View
  <2>6. Done' = Done
    BY <1>1, <1>3, <2>3 DEF Done
  <2>7. Promise!Open(c, i, o, opentab[o].file)
    BY <1>1, <1>8, <2>2, <2>3, <2>5, <2>6 DEF Promise!Open, Promise!Used, MappedIn
  <2> QED
    BY <1>2, <1>4, <1>6, <2>1, <2>2, <2>7 DEF ViewInv
<1> QED
  BY <1>5, <1>7, <1>8

------------------------------------------------------------------------------
LEMMA InitView == Init => ViewInv /\ Promise!Init
<1> SUFFICES ASSUME Init PROVE ViewInv /\ Promise!Init
  OBVIOUS
<1>1. \A c \in Clients, i \in Slots : fdmap[c][i] = None
  BY DEF Init, NoFds
<1>2. ViewInv
  BY <1>1 DEF Init, ViewInv, Fresh, AtOffset, AbsentHasNone
<1>3. \A e \in Entries : ~MappedIn(fdmap, e)
  BY <1>1, Apart DEF MappedIn
<1>4. OpenAt = [o \in Entries |-> None]
  BY <1>3, AtIsView DEF View
<1> QED
  BY <1>2, <1>4 DEF Init, NoFds, Promise!Init, Done

(* Every step of the server and its clients is one of OpenFiles, or invisible. *)
LEMMA StepView ==
    ASSUME RacySeek = FALSE, IInv, ViewInv, [Next]_vars
    PROVE  ViewInv' /\ [Promise!Next]_(Promise!vars)
<1>1. CASE Serve
  <2>1. CASE Handle
    BY <2>1, HandleView DEF Promise!Next
  <2>2. CASE Move
    BY <2>2, MoveView DEF Promise!Next
  <2>3. CASE Alloc
    BY <2>3, AllocView DEF Promise!Next
  <2>4. CASE NextEntry
    BY <2>4, NextEntryView
  <2>5. CASE Reply
    BY <2>5, ReplyView DEF Promise!Next
  <2>6. CASE MoveFails
    BY <2>6, MoveFailsView DEF Promise!Next
  <2> QED
    BY <1>1, <2>1, <2>2, <2>3, <2>4, <2>5, <2>6 DEF Serve
<1>2. ASSUME NEW c \in Clients, Proceed(c) PROVE ViewInv' /\ [Promise!Next]_(Promise!vars)
  BY <1>2, SendView, WaitView, ReturnView DEF Proceed, Promise!Next
<1>3. ASSUME NEW c \in Clients, Program(c) PROVE ViewInv' /\ [Promise!Next]_(Promise!vars)
  <2>1. CASE Dup(c)
    BY <2>1, DupView DEF Promise!Next
  <2>2. CASE Fork(c)
    BY <2>2, ForkView DEF Promise!Next
  <2>3. CASE Seek(c)
    BY <2>3, SeekView DEF Promise!Next
  <2>4. CASE Exit(c)
    BY <2>4, GoneView DEF Exit, Promise!Next
  <2>5. CASE CallOpen(c) \/ CallFile(c) \/ CallWrite(c) \/ CallClose(c)
    <3>1. Ready(c) /\ content' = content /\ \E q, b : Call(c, q, b)
      BY <2>5 DEF CallOpen, CallFile, CallWrite, CallClose, kept
    <3> QED
      BY <3>1, CallView
  <2> QED
    BY <1>3, <2>1, <2>2, <2>3, <2>4, <2>5 DEF Program
<1>4. ASSUME NEW c \in Clients, Kill(c) PROVE ViewInv' /\ [Promise!Next]_(Promise!vars)
  BY <1>4, GoneView DEF Kill, Promise!Next
<1>5. CASE UNCHANGED vars
  <2>1. UNCHANGED <<cli, fdmap, srv, opentab, page, content>>
    BY <1>5 DEF vars
  <2>2. ViewInv' /\ Done' = Done
    BY <2>1 DEF ViewInv, Fresh, AtOffset, AbsentHasNone, MappedIn, Done
  <2> QED
    BY <2>1, <2>2, Invisible
<1> QED
  BY <1>1, <1>2, <1>3, <1>4, <1>5 DEF Next

\* The file server and its clients implement OpenFiles as long as nobody seeks
\* on an open file that the server is moving: a descriptor's reads and writes
\* happen at the offset of its open file and move it, at once, although the
\* server takes the offset, transfers and stores the sum in separate steps,
\* recycles the entries and counts mappings that the clients change.
THEOREM OpenFilesImplemented == RacySeek = FALSE => (Spec => ImplementsOpenFiles)
<1> SUFFICES ASSUME RacySeek = FALSE PROVE Spec => ImplementsOpenFiles
  OBVIOUS
<1>1. Init => ViewInv /\ Promise!Init
  BY InitView
<1>2. IInv /\ ViewInv /\ [Next]_vars => ViewInv' /\ [Promise!Next]_(Promise!vars)
  BY StepView
<1> QED
  BY <1>1, <1>2, Invariance, PTL DEF Spec, ImplementsOpenFiles, Promise!Spec
=============================================================================
