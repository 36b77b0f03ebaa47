------------------------ MODULE NetworkServer_proofs ------------------------
(***************************************************************************)
(* For any set of descriptors, any number of buffers, chunks and           *)
(* completions, and any descriptors in sendingQueue: what becomes of an    *)
(* accepted connection and of the data the kernel has read.                *)
(***************************************************************************)
EXTENDS NetworkServer, SequenceTheorems, TLAPS

LEMMA ServerConstants ==
  NoFd \notin Fds /\ NumBufs \in Nat /\ MaxChunks \in Nat /\ MaxCQ \in Nat
BY ServerAssumption DEF ServerAssumption

-----------------------------------------------------------------------------
(* Completions and queues of them. *)

\* The accept a completion announces, the chunk it brings.
OfAccept(c) == IF c.type = "ACCEPT" /\ c.fd # NoFd THEN {c.fd} ELSE {}
OfRead(c) == IF c.type = "READ" /\ c.chunk > 0 THEN {<<c.fd, c.chunk>>} ELSE {}

\* A completion of an operation of connection fd.
Works(c, fd) == c.fd = fd /\ c.type \notin {"ACCEPT", "SILENT"}

\* The same accept, or the same chunk.
Twins(c, d) ==
  /\ c.type = d.type /\ c.fd = d.fd
  /\ \/ c.type = "ACCEPT" /\ c.fd # NoFd
     \/ c.type = "READ" /\ c.chunk = d.chunk /\ c.chunk > 0

Once(s) == \A i, j \in 1..Len(s) : i # j => ~Twins(s[i], s[j])

LEMMA CompletionFields ==
  ASSUME NEW c \in Completions
  PROVE  /\ c.fd \in Fds \union {NoFd} /\ c.chunk \in 0..MaxChunks
         /\ c.type \in {"ACCEPT", "READ", "READ_FAILED", "WRITE", "SILENT"}
         /\ c.type \notin {"ACCEPT", "SILENT"} => c.fd \in Fds
BY ServerConstants DEF Completions, AcceptDone, ReadDone, ReadFailed, WriteDone, Silent

LEMMA CompletionsPosted ==
  /\ \A fd \in Fds \union {NoFd} : AcceptDone(fd) \in Completions
  /\ Silent \in Completions
  /\ \A fd \in Fds, k \in 0..MaxChunks : ReadDone(fd, k) \in Completions
  /\ \A fd \in Fds : ReadFailed(fd) \in Completions /\ WriteDone(fd) \in Completions
BY DEF Completions

\* What the views of a queue contain.
LEMMA ViewsOf ==
  ASSUME NEW s
  PROVE  /\ \A fd : fd \in Accepts(s) <=> \E c \in Elements(s) : fd \in OfAccept(c)
         /\ \A p : p \in Chunks(s) <=> \E c \in Elements(s) : p \in OfRead(c)
         /\ \A fd : Answers(s, fd) <=> \E c \in Elements(s) : Works(c, fd)
BY DEF Accepts, Chunks, Answers, OfAccept, OfRead, Works

LEMMA EmptyViews ==
  /\ Elements(<< >>) = {} /\ Accepts(<< >>) = {} /\ Chunks(<< >>) = {}
  /\ \A fd : ~Answers(<< >>, fd)
  /\ Once(<< >>)
<1>1. Elements(<< >>) = {}
  BY DEF Elements
<1>2. Once(<< >>)
  BY DEF Once
<1> QED
  BY <1>1, <1>2, ViewsOf

\* A completion is posted.
LEMMA Posted ==
  ASSUME NEW s \in Seq(Completions), NEW c \in Completions
  PROVE  /\ Append(s, c) \in Seq(Completions)
         /\ Elements(Append(s, c)) = Elements(s) \union {c}
         /\ Accepts(Append(s, c)) = Accepts(s) \union OfAccept(c)
         /\ Chunks(Append(s, c)) = Chunks(s) \union OfRead(c)
         /\ \A fd : Answers(Append(s, c), fd) <=> Answers(s, fd) \/ Works(c, fd)
         /\ Once(s) /\ OfAccept(c) \intersect Accepts(s) = {} /\ OfRead(c) \intersect Chunks(s) = {}
              => Once(Append(s, c))
<1> DEFINE u == Append(s, c)
<1>1. /\ u \in Seq(Completions) /\ Len(s) \in Nat /\ Len(u) = Len(s) + 1
      /\ u[Len(s) + 1] = c /\ \A i \in 1..Len(s) : u[i] = s[i]
  BY AppendProperties, LenProperties
<1> HIDE DEF u
<1>2. Elements(u) = Elements(s) \union {c}
  <2>1. ASSUME NEW i \in 1..Len(u) PROVE u[i] \in Elements(s) \union {c}
    <3>1. i = Len(s) + 1 \/ i \in 1..Len(s)
      BY <1>1
    <3> QED
      BY <3>1, <1>1 DEF Elements
  <2>2. ASSUME NEW i \in 1..Len(s) PROVE s[i] \in Elements(u)
    <3>1. i \in 1..Len(u) /\ u[i] = s[i]
      BY <1>1
    <3> QED
      BY <3>1 DEF Elements
  <2>3. c \in Elements(u)
    <3>1. Len(s) + 1 \in 1..Len(u)
      BY <1>1
    <3> QED
      BY <3>1, <1>1 DEF Elements
  <2> QED
    BY <2>1, <2>2, <2>3 DEF Elements
<1>3. Accepts(u) = Accepts(s) \union OfAccept(c)
  BY <1>2, ViewsOf
<1>4. Chunks(u) = Chunks(s) \union OfRead(c)
  BY <1>2, ViewsOf
<1>5. \A fd : Answers(u, fd) <=> Answers(s, fd) \/ Works(c, fd)
  BY <1>2, ViewsOf
<1>6. ASSUME Once(s), OfAccept(c) \intersect Accepts(s) = {}, OfRead(c) \intersect Chunks(s) = {}
      PROVE  Once(u)
  <2>1. ASSUME NEW d \in Elements(s) PROVE ~Twins(c, d) /\ ~Twins(d, c)
    <3>1. OfAccept(d) \subseteq Accepts(s) /\ OfRead(d) \subseteq Chunks(s)
      BY ViewsOf
    <3> QED
      BY <3>1, <1>6 DEF Twins, OfAccept, OfRead
  <2>2. SUFFICES ASSUME NEW i \in 1..Len(u), NEW j \in 1..Len(u), i # j
                 PROVE  ~Twins(u[i], u[j])
    BY DEF Once
  <2>3. CASE i \in 1..Len(s) /\ j \in 1..Len(s)
    BY <2>2, <2>3, <1>1, <1>6 DEF Once
  <2>4. CASE i = Len(s) + 1 /\ j \in 1..Len(s)
    BY <2>1, <2>4, <1>1 DEF Elements
  <2>5. CASE j = Len(s) + 1 /\ i \in 1..Len(s)
    BY <2>1, <2>5, <1>1 DEF Elements
  <2>6. (i = Len(s) + 1 \/ i \in 1..Len(s)) /\ (j = Len(s) + 1 \/ j \in 1..Len(s))
    BY <1>1
  <2> QED
    BY <2>2, <2>3, <2>4, <2>5, <2>6
<1> QED
  BY <1>1, <1>2, <1>3, <1>4, <1>5, <1>6 DEF u

\* The next event is taken from a batch.
LEMMA TakenOff ==
  ASSUME NEW s \in Seq(Completions), s # << >>
  PROVE  /\ Head(s) \in Completions /\ Head(s) \in Elements(s) /\ Tail(s) \in Seq(Completions)
         /\ Elements(s) = Elements(Tail(s)) \union {Head(s)}
         /\ Accepts(s) = Accepts(Tail(s)) \union OfAccept(Head(s))
         /\ Chunks(s) = Chunks(Tail(s)) \union OfRead(Head(s))
         /\ \A fd : Answers(s, fd) <=> Answers(Tail(s), fd) \/ Works(Head(s), fd)
         /\ Once(s) => /\ Once(Tail(s))
                       /\ OfAccept(Head(s)) \intersect Accepts(Tail(s)) = {}
                       /\ OfRead(Head(s)) \intersect Chunks(Tail(s)) = {}
<1> DEFINE u == Tail(s)
           c == Head(s)
<1>1. /\ u \in Seq(Completions) /\ c \in Completions /\ Len(s) \in Nat \ {0}
      /\ Len(u) = Len(s) - 1 /\ c = s[1]
      /\ \A i \in 1..Len(u) : u[i] = s[i + 1]
  BY EmptySeq
<1> HIDE DEF u, c
<1>2. Elements(s) = Elements(u) \union {c}
  <2>1. ASSUME NEW i \in 1..Len(s) PROVE s[i] \in Elements(u) \union {c}
    <3>1. CASE i = 1
      BY <3>1, <1>1
    <3>2. CASE i # 1
      <4>1. i - 1 \in 1..Len(u) /\ (i - 1) + 1 = i
        BY <3>2, <1>1
      <4>2. u[i - 1] = s[i]
        BY <4>1, <1>1
      <4> QED
        BY <4>1, <4>2 DEF Elements
    <3> QED
      BY <3>1, <3>2
  <2>2. ASSUME NEW i \in 1..Len(u) PROVE u[i] \in Elements(s)
    <3>1. i + 1 \in 1..Len(s) /\ u[i] = s[i + 1]
      BY <1>1
    <3> QED
      BY <3>1 DEF Elements
  <2>3. c \in Elements(s)
    <3>1. 1 \in 1..Len(s)
      BY <1>1
    <3> QED
      BY <3>1, <1>1 DEF Elements
  <2> QED
    BY <2>1, <2>2, <2>3 DEF Elements
<1>3. Accepts(s) = Accepts(u) \union OfAccept(c)
  BY <1>2, ViewsOf
<1>4. Chunks(s) = Chunks(u) \union OfRead(c)
  BY <1>2, ViewsOf
<1>5. \A fd : Answers(s, fd) <=> Answers(u, fd) \/ Works(c, fd)
  BY <1>2, ViewsOf
<1>6. ASSUME Once(s)
      PROVE  /\ Once(u)
             /\ OfAccept(c) \intersect Accepts(u) = {}
             /\ OfRead(c) \intersect Chunks(u) = {}
  <2>1. Once(u)
    <3> SUFFICES ASSUME NEW i \in 1..Len(u), NEW j \in 1..Len(u), i # j
                 PROVE  ~Twins(u[i], u[j])
      BY DEF Once
    <3>1. i + 1 \in 1..Len(s) /\ j + 1 \in 1..Len(s) /\ i + 1 # j + 1
      BY <1>1
    <3>2. u[i] = s[i + 1] /\ u[j] = s[j + 1]
      BY <1>1
    <3> QED
      BY <3>1, <3>2, <1>6 DEF Once
  <2>2. ASSUME NEW d \in Elements(u) PROVE ~Twins(c, d)
    <3>1. PICK i \in 1..Len(u) : d = u[i]
      BY DEF Elements
    <3>2. i + 1 \in 1..Len(s) /\ 1 \in 1..Len(s) /\ 1 # i + 1 /\ d = s[i + 1]
      BY <3>1, <1>1
    <3> QED
      BY <3>2, <1>1, <1>6 DEF Once
  <2>3. ASSUME NEW d \in Elements(u)
        PROVE  OfAccept(c) \intersect OfAccept(d) = {} /\ OfRead(c) \intersect OfRead(d) = {}
    BY <2>2 DEF Twins, OfAccept, OfRead
  <2> QED
    BY <2>1, <2>3, ViewsOf
<1> QED
  BY <1>1, <1>2, <1>3, <1>4, <1>5, <1>6 DEF u, c

-----------------------------------------------------------------------------
(* Types. *)

LEMMA TypeInit == Init => TypeOK
<1> SUFFICES ASSUME Init PROVE TypeOK
  OBVIOUS
<1>1. << >> \in Seq(Completions) /\ << >> \in Seq(1..MaxChunks) /\ 0 \in 0..MaxChunks
      /\ NumBufs \in 0..NumBufs
  BY ServerConstants
<1> QED
  BY <1>1 DEF Init, Listening, TypeOK

\* A completion more: cq grows by it or, for the batch, nothing happens.
LEMMA TypeKernel ==
  ASSUME TypeOK, NEW fd \in Fds,
         Send(fd) \/ Accept(fd) \/ ReadCompletes(fd) \/ ReadEnds(fd) \/ ReadFails(fd)
           \/ WriteCompletes(fd)
  PROVE  TypeOK'
<1>1. /\ UNCHANGED <<status, pc, batch, connections, cancelled, ticking, late, accepting,
                     cancelSent, refused, lost, delivered, dropped>>
  BY DEF Send, Accept, ReadCompletes, ReadEnds, ReadFails, WriteCompletes, serve, outside, history
<1>2. cq' \in Seq(Completions)
  <2>1. /\ 0 \in 0..MaxChunks
        /\ (ReadCompletes(fd) => taken[fd] + 1 \in 0..MaxChunks)
    BY ServerConstants DEF ReadCompletes, TypeOK
  <2>2. cq' = cq \/ \E c \in Completions : cq' = Append(cq, c)
    <3>1. CASE Send(fd)
      BY <3>1 DEF Send
    <3>2. CASE Accept(fd)
      BY <3>2, CompletionsPosted DEF Accept, Post
    <3>3. CASE ReadCompletes(fd)
      BY <2>1, <3>3, CompletionsPosted DEF ReadCompletes, Post
    <3>4. CASE ReadEnds(fd)
      BY <2>1, <3>4, CompletionsPosted DEF ReadEnds, Post
    <3>5. CASE ReadFails(fd) \/ WriteCompletes(fd)
      BY <3>5, CompletionsPosted DEF ReadFails, WriteCompletes, Post
    <3> QED
      BY <3>1, <3>2, <3>3, <3>4, <3>5
  <2>3. cq \in Seq(Completions)
    BY DEF TypeOK
  <2>4. \A c \in Completions : Append(cq, c) \in Seq(Completions)
    BY <2>3, AppendProperties
  <2> QED
    BY <2>2, <2>3, <2>4
<1>3. reads' \subseteq Fds /\ accepted' \subseteq Fds /\ closed' \subseteq Fds
  BY DEF TypeOK, Send, Accept, ReadCompletes, ReadEnds, ReadFails, WriteCompletes
<1>4. bufs' \in 0..NumBufs
  BY ServerConstants DEF TypeOK, Send, Accept, ReadCompletes, ReadEnds, ReadFails, WriteCompletes
<1>5. writes' \in [Fds -> Nat]
  <2>1. CASE WriteCompletes(fd)
    <3>1. writes[fd] - 1 \in Nat /\ writes' = [writes EXCEPT ![fd] = @ - 1]
      BY <2>1 DEF WriteCompletes, TypeOK
    <3> QED
      BY <3>1 DEF TypeOK
  <2>2. CASE ~WriteCompletes(fd)
    BY <2>2 DEF TypeOK, Send, Accept, ReadCompletes, ReadEnds, ReadFails
  <2> QED
    BY <2>1, <2>2
<1>6. sent' \in [Fds -> 0..MaxChunks]
  <2>1. CASE Send(fd)
    <3>1. sent[fd] + 1 \in 0..MaxChunks /\ sent' = [sent EXCEPT ![fd] = @ + 1]
      BY <2>1, ServerConstants DEF Send, TypeOK
    <3> QED
      BY <3>1 DEF TypeOK
  <2>2. CASE ~Send(fd)
    BY <2>2 DEF TypeOK, Accept, ReadCompletes, ReadEnds, ReadFails, WriteCompletes
  <2> QED
    BY <2>1, <2>2
<1>7. taken' \in [Fds -> 0..MaxChunks]
  <2>1. CASE ReadCompletes(fd)
    <3>1. taken[fd] + 1 \in 0..MaxChunks /\ taken' = [taken EXCEPT ![fd] = @ + 1]
      BY <2>1, ServerConstants DEF ReadCompletes, TypeOK
    <3> QED
      BY <3>1 DEF TypeOK
  <2>2. CASE ~ReadCompletes(fd)
    BY <2>2 DEF TypeOK, Send, Accept, ReadEnds, ReadFails, WriteCompletes
  <2> QED
    BY <2>1, <2>2
<1> QED
  BY <1>1, <1>2, <1>3, <1>4, <1>5, <1>6, <1>7 DEF TypeOK

\* The views of a queue of completions.
LEMMA ViewTypes ==
  ASSUME NEW s \in Seq(Completions)
  PROVE  Accepts(s) \subseteq Fds /\ Chunks(s) \subseteq Fds \X (1..MaxChunks)
<1>1. \A c \in Elements(s) : c \in Completions
  BY ElementOfSeq DEF Elements
<1>2. ASSUME NEW c \in Completions
      PROVE  OfAccept(c) \subseteq Fds /\ OfRead(c) \subseteq Fds \X (1..MaxChunks)
  BY CompletionFields, ServerConstants DEF OfAccept, OfRead
<1> QED
  BY <1>1, <1>2, ViewsOf

LEMMA TypeServe == ASSUME TypeOK, Serve PROVE TypeOK'
<1>1. CASE SendPass
  BY <1>1 DEF SendPass, TypeOK, outside, kernel, history
<1>2. CASE ReceiveData
  <2>1. Accepts(cq) \subseteq Fds /\ Chunks(cq) \subseteq Fds \X (1..MaxChunks)
    BY ViewTypes DEF TypeOK
  <2>2. << >> \in Seq(Completions)
    OBVIOUS
  <2>3. /\ batch' \in Seq(Completions) /\ cq' \in Seq(Completions) /\ pc' = "handle"
        /\ lost' \subseteq Fds /\ dropped' \subseteq Fds \X (1..MaxChunks)
    BY <1>2, <2>1, <2>2 DEF ReceiveData, TypeOK
  <2> QED
    BY <1>2, <2>3 DEF ReceiveData, TypeOK, outside
<1>3. CASE HandleAccept \/ HandleRead \/ HandleWrite \/ HandleSilent
  <2>1. /\ batch # << >> /\ batch' = Tail(batch) /\ pc = "handle"
        /\ UNCHANGED <<status, pc, cancelled, ticking, late, cq, accepting, cancelSent, bufs,
                       accepted, sent, taken, closed, lost>>
    BY <1>3 DEF HandleAccept, HandleRead, HandleWrite, HandleSilent, Event, outside, kernel, history
  <2>2. batch' \in Seq(Completions) /\ Head(batch) \in Completions
    BY <2>1, TakenOff DEF TypeOK
  <2>3. connections' \subseteq Fds /\ reads' \subseteq Fds /\ refused' \subseteq Fds
    <3>1. CASE HandleAccept
      BY <3>1, <2>2, CompletionFields DEF HandleAccept, Admit, Refuse, TypeOK
    <3>2. CASE ~HandleAccept
      BY <3>2, <1>3 DEF HandleRead, HandleWrite, HandleSilent, kernel, history, TypeOK
    <3> QED
      BY <3>1, <3>2
  <2>4. /\ writes' \in [Fds -> Nat] /\ delivered' \in [Fds -> Seq(1..MaxChunks)]
        /\ dropped' \subseteq Fds \X (1..MaxChunks)
    <3>1. CASE HandleRead
      <4> DEFINE fd == Head(batch).fd
                 k == Head(batch).chunk
      <4>1. Head(batch).type = "READ"
        BY <3>1 DEF HandleRead, Event
      <4>2. fd \in Fds /\ k \in 0..MaxChunks
        BY <2>2, <4>1, CompletionFields
      <4>3. \/ UNCHANGED <<writes, delivered, dropped>>
            \/ k # 0 /\ dropped' = dropped \union {<<fd, k>>} /\ UNCHANGED <<writes, delivered>>
            \/ /\ k # 0 /\ delivered' = [delivered EXCEPT ![fd] = Append(@, k)]
               /\ \E answer \in {0, 1} : writes' = [writes EXCEPT ![fd] = @ + answer]
               /\ UNCHANGED dropped
        BY <3>1 DEF HandleRead
      <4> HIDE DEF fd, k
      <4>4. k # 0 => k \in 1..MaxChunks
        BY <4>2, ServerConstants
      <4>5. CASE UNCHANGED <<writes, delivered, dropped>>
        BY <4>5 DEF TypeOK
      <4>6. CASE k # 0 /\ dropped' = dropped \union {<<fd, k>>} /\ UNCHANGED <<writes, delivered>>
        BY <4>2, <4>4, <4>6 DEF TypeOK
      <4>7. CASE /\ k # 0 /\ delivered' = [delivered EXCEPT ![fd] = Append(@, k)]
                 /\ \E answer \in {0, 1} : writes' = [writes EXCEPT ![fd] = @ + answer]
                 /\ UNCHANGED dropped
        <5>1. Append(delivered[fd], k) \in Seq(1..MaxChunks)
          BY <4>2, <4>4, <4>7, AppendProperties DEF TypeOK
        <5>2. delivered' \in [Fds -> Seq(1..MaxChunks)]
          BY <4>7, <5>1 DEF TypeOK
        <5>3. writes' \in [Fds -> Nat]
          <6>1. PICK answer \in {0, 1} : writes' = [writes EXCEPT ![fd] = @ + answer]
            BY <4>7
          <6>2. writes[fd] + answer \in Nat
            BY <4>2 DEF TypeOK
          <6> QED
            BY <6>1, <6>2 DEF TypeOK
        <5> QED
          BY <5>2, <5>3, <4>7 DEF TypeOK
      <4> QED
        BY <4>3, <4>5, <4>6, <4>7
    <3>2. CASE ~HandleRead
      BY <3>2, <1>3 DEF HandleAccept, HandleWrite, HandleSilent, kernel, history, TypeOK
    <3> QED
      BY <3>1, <3>2
  <2> QED
    BY <2>1, <2>2, <2>3, <2>4 DEF TypeOK
<1>4. CASE Drain
  <2>1. /\ status' \in {"running", "draining", "stopped", "panicked"}
        /\ pc' \in {"send", "receive", "handle", "dead"} /\ cancelSent' \in BOOLEAN
    BY <1>4 DEF Drain, TypeOK
  <2> QED
    BY <1>4, <2>1 DEF Drain, TypeOK, outside, history
<1> QED
  BY <1>1, <1>2, <1>3, <1>4 DEF Serve

LEMMA TypeKept == TypeOK /\ [Next]_vars => TypeOK'
<1> SUFFICES ASSUME TypeOK, [Next]_vars PROVE TypeOK'
  OBVIOUS
<1>1. CASE AcceptFails \/ AcceptCancelled \/ Tick
  <2>1. /\ UNCHANGED <<status, pc, batch, connections, cancelled, ticking, late, cancelSent,
                       reads, writes, bufs, accepted, sent, taken, closed, refused, lost,
                       delivered, dropped>>
        /\ accepting' \in BOOLEAN
    BY <1>1 DEF AcceptFails, AcceptCancelled, Tick, serve, outside, history, TypeOK
  <2>2. \E c \in Completions : cq' = Append(cq, c)
    BY <1>1, CompletionsPosted DEF AcceptFails, AcceptCancelled, Tick, Post
  <2>3. cq' \in Seq(Completions)
    BY <2>2, AppendProperties DEF TypeOK
  <2> QED
    BY <2>1, <2>3 DEF TypeOK
<1>2. CASE Cancel \/ StartTicking \/ DeadlinePasses
  BY <1>2 DEF Cancel, StartTicking, DeadlinePasses, serve, kernel, history, TypeOK
<1>3. CASE UNCHANGED vars
  BY <1>3 DEF vars, serve, outside, kernel, history, TypeOK
<1> QED
  BY <1>1, <1>2, <1>3, TypeKernel, TypeServe DEF Next, Client, Kernel

\* Every event Serve handles, every descriptor it keeps and every counter of the
\* kernel is of its kind, for any number of connections.
THEOREM ServerTypes == Spec => []TypeOK
<1> QED
  BY TypeInit, TypeKept, PTL DEF Spec

-----------------------------------------------------------------------------
(* What becomes of a connection and of its data. *)

\* Events wait only while a turn handles them.
Idle == pc # "handle" => batch = << >>

\* No accept and no chunk is announced twice.
OnceEach == Once(cq) /\ Once(batch)

\* A chunk is in one place, and the kernel has read it.
ChunksApart ==
  /\ Chunks(cq) \intersect Chunks(batch) = {}
  /\ (Chunks(cq) \union Chunks(batch)) \intersect dropped = {}
  /\ \A fd \in Fds : \A k \in 1..MaxChunks :
       \/ <<fd, k>> \in Chunks(cq) \union Chunks(batch) \union dropped
       \/ k \in Elements(delivered[fd])
       => k <= taken[fd]

Sound == Idle /\ OnceEach /\ PeersKnown /\ AcceptsAccounted /\ ChunksApart /\ DataAccounted

LEMMA SoundInit == Init => Sound
<1> SUFFICES ASSUME Init PROVE Sound
  OBVIOUS
<1>1. /\ cq = << >> /\ batch = << >> /\ reads = {} /\ writes = [fd \in Fds |-> 0]
      /\ connections = {} /\ accepted = {} /\ refused = {} /\ lost = {} /\ dropped = {}
      /\ delivered = [fd \in Fds |-> << >>] /\ taken = [fd \in Fds |-> 0]
  BY DEF Init, Listening
<1>2. PeersKnown
  BY <1>1, EmptyViews DEF PeersKnown
<1>3. AcceptsAccounted
  BY <1>1, EmptyViews DEF AcceptsAccounted, Announced
<1>4. ChunksApart
  BY <1>1, EmptyViews DEF ChunksApart
<1>5. DataAccounted
  <2>1. ASSUME NEW fd \in Fds PROVE taken[fd] = 0 /\ delivered[fd] = << >>
    BY <1>1
  <2>2. ASSUME NEW fd \in Fds PROVE Elements(delivered[fd]) = {} /\ 1..taken[fd] = {}
    <3>1. delivered[fd] = << >> /\ taken[fd] = 0
      BY <2>1
    <3> QED
      BY <3>1, EmptyViews
  <2> QED
    BY <2>2 DEF DataAccounted
<1>6. Idle /\ OnceEach
  BY <1>1, EmptyViews DEF Idle, OnceEach
<1> QED
  BY <1>2, <1>3, <1>4, <1>5, <1>6 DEF Sound

\* Steps that only prepare, drain, send or look.
LEMMA NothingMoves ==
  ASSUME Sound, UNCHANGED <<batch, connections, cq, reads, writes, accepted, taken, refused,
                            lost, delivered, dropped>>,
         pc' = pc \/ batch = << >>
  PROVE  Sound'
<1>1. Idle' /\ OnceEach'
  BY DEF Sound, Idle, OnceEach
<1>2. PeersKnown'
  BY DEF Sound, PeersKnown
<1>3. AcceptsAccounted'
  BY DEF Sound, AcceptsAccounted, Announced
<1>4. ChunksApart'
  BY DEF Sound, ChunksApart
<1>5. DataAccounted'
  BY DEF Sound, DataAccounted
<1> QED
  BY <1>1, <1>2, <1>3, <1>4, <1>5 DEF Sound

\* A completion that announces no connection and brings no data.
LEMMA EmptyPost ==
  ASSUME TypeOK, Sound, NEW c \in Completions, OfAccept(c) = {}, OfRead(c) = {},
         cq' = Append(cq, c), \A fd \in Fds : Works(c, fd) => fd \in connections,
         reads' \subseteq reads, \A fd \in Fds : writes'[fd] > 0 => writes[fd] > 0,
         UNCHANGED <<pc, batch, connections, accepted, taken, refused, lost, delivered, dropped>>
  PROVE  Sound'
<1>0. cq \in Seq(Completions)
  BY DEF TypeOK
<1>1. /\ Accepts(cq') = Accepts(cq) /\ Chunks(cq') = Chunks(cq)
      /\ \A fd : Answers(cq', fd) <=> Answers(cq, fd) \/ Works(c, fd)
      /\ Once(cq) => Once(cq')
  <2> DEFINE u == Append(cq, c)
  <2>1. /\ Accepts(u) = Accepts(cq) \union OfAccept(c) /\ Chunks(u) = Chunks(cq) \union OfRead(c)
        /\ \A fd : Answers(u, fd) <=> Answers(cq, fd) \/ Works(c, fd)
        /\ (Once(cq) /\ OfAccept(c) \intersect Accepts(cq) = {} /\ OfRead(c) \intersect Chunks(cq) = {}
              => Once(u))
    BY <1>0, Posted
  <2> HIDE DEF u
  <2>2. cq' = u
    BY DEF u
  <2>3. Once(cq) => Once(u)
    BY <2>1
  <2> QED
    BY <2>1, <2>2, <2>3
<1>2. Idle' /\ OnceEach'
  BY <1>1 DEF Sound, Idle, OnceEach
<1>3. PeersKnown'
  BY <1>1 DEF Sound, PeersKnown
<1>4. AcceptsAccounted'
  BY <1>1 DEF Sound, AcceptsAccounted, Announced
<1>5. ChunksApart'
  BY <1>1 DEF Sound, ChunksApart
<1>6. DataAccounted'
  BY <1>1 DEF Sound, DataAccounted
<1> QED
  BY <1>2, <1>3, <1>4, <1>5, <1>6 DEF Sound

\* An event that announces no connection and brings no data.
LEMMA EmptyEvent ==
  ASSUME TypeOK, Sound, batch # << >>, OfAccept(Head(batch)) = {}, OfRead(Head(batch)) = {},
         batch' = Tail(batch), pc = "handle",
         UNCHANGED <<pc, connections, cq, reads, writes, accepted, taken, refused, lost,
                     delivered, dropped>>
  PROVE  Sound'
<1>0. batch \in Seq(Completions)
  BY DEF TypeOK
<1>1. /\ Accepts(batch') = Accepts(batch) /\ Chunks(batch') = Chunks(batch)
      /\ \A fd : Answers(batch', fd) => Answers(batch, fd)
      /\ Once(batch) => Once(batch')
  <2> DEFINE u == Tail(batch)
             c == Head(batch)
  <2>1. /\ Accepts(batch) = Accepts(u) \union OfAccept(c) /\ Chunks(batch) = Chunks(u) \union OfRead(c)
        /\ \A fd : Answers(batch, fd) <=> Answers(u, fd) \/ Works(c, fd)
        /\ (Once(batch) => Once(u))
    BY <1>0, TakenOff
  <2>2. OfAccept(c) = {} /\ OfRead(c) = {} /\ batch' = u
    OBVIOUS
  <2> HIDE DEF u, c
  <2> QED
    BY <2>1, <2>2
<1>2. Idle' /\ OnceEach'
  BY <1>1 DEF Sound, Idle, OnceEach
<1>3. PeersKnown'
  BY <1>1 DEF Sound, PeersKnown
<1>4. AcceptsAccounted'
  BY <1>1 DEF Sound, AcceptsAccounted, Announced
<1>5. ChunksApart'
  BY <1>1 DEF Sound, ChunksApart
<1>6. DataAccounted'
  BY <1>1 DEF Sound, DataAccounted
<1> QED
  BY <1>2, <1>3, <1>4, <1>5, <1>6 DEF Sound

LEMMA AcceptSound ==
  ASSUME TypeOK, Sound, NEW fd \in Fds, Accept(fd)
  PROVE  Sound'
<1> DEFINE c == AcceptDone(fd)
<1>0. cq \in Seq(Completions) /\ c \in Completions /\ fd # NoFd
  BY CompletionsPosted, ServerConstants DEF TypeOK
<1>1. /\ cq' = Append(cq, c) /\ accepted' = accepted \union {fd} /\ fd \notin accepted
      /\ UNCHANGED <<pc, batch, connections, reads, writes, taken, refused, lost, delivered, dropped>>
  BY DEF Accept, Post, serve, history
<1>2. OfAccept(c) = {fd} /\ OfRead(c) = {} /\ \A f : ~Works(c, f)
  BY <1>0 DEF OfAccept, OfRead, Works, AcceptDone
<1>a. fd \notin Accepts(cq) \union Accepts(batch) \union connections \union refused \union lost
  BY <1>1 DEF Sound, AcceptsAccounted, Announced
<1> HIDE DEF c
<1>3. /\ Accepts(cq') = Accepts(cq) \union {fd} /\ Chunks(cq') = Chunks(cq)
      /\ \A f : Answers(cq', f) <=> Answers(cq, f)
      /\ Once(cq) => Once(cq')
  <2> DEFINE u == Append(cq, c)
  <2>1. /\ Accepts(u) = Accepts(cq) \union OfAccept(c) /\ Chunks(u) = Chunks(cq) \union OfRead(c)
        /\ \A f : Answers(u, f) <=> Answers(cq, f) \/ Works(c, f)
        /\ (Once(cq) /\ OfAccept(c) \intersect Accepts(cq) = {} /\ OfRead(c) \intersect Chunks(cq) = {}
              => Once(u))
    BY <1>0, Posted
  <2>2. cq' = u
    BY <1>1
  <2> HIDE DEF u
  <2>3. Once(cq) => Once(u)
    BY <2>1, <1>2, <1>a
  <2> QED
    BY <2>1, <2>2, <2>3, <1>2
<1>4. Idle' /\ OnceEach'
  BY <1>1, <1>3 DEF Sound, Idle, OnceEach
<1>5. PeersKnown'
  BY <1>1, <1>3 DEF Sound, PeersKnown
<1>6. AcceptsAccounted'
  BY <1>1, <1>3, <1>a DEF Sound, AcceptsAccounted, Announced
<1>7. ChunksApart'
  BY <1>1, <1>3 DEF Sound, ChunksApart
<1>8. DataAccounted'
  BY <1>1, <1>3 DEF Sound, DataAccounted
<1> QED
  BY <1>4, <1>5, <1>6, <1>7, <1>8 DEF Sound

LEMMA ReadSound ==
  ASSUME TypeOK, Sound, NEW fd \in Fds, ReadCompletes(fd)
  PROVE  Sound'
<1> DEFINE k == taken[fd] + 1
           c == ReadDone(fd, k)
<1>0. /\ cq \in Seq(Completions) /\ taken \in [Fds -> 0..MaxChunks] /\ MaxChunks \in Nat
      /\ k \in 1..MaxChunks
  BY ServerConstants DEF TypeOK, ReadCompletes
<1>1. /\ cq' = Append(cq, c) /\ taken' = [taken EXCEPT ![fd] = k] /\ reads' = reads \ {fd} /\ fd \in reads
      /\ UNCHANGED <<pc, batch, connections, writes, accepted, refused, lost, delivered, dropped>>
  BY DEF ReadCompletes, Post, serve, history
<1>2. c \in Completions
  BY <1>0, CompletionsPosted
<1>3. OfAccept(c) = {} /\ OfRead(c) = {<<fd, k>>} /\ \A f : Works(c, f) => f = fd
  BY <1>0 DEF OfAccept, OfRead, Works, ReadDone
<1>4. fd \in connections
  BY <1>1 DEF Sound, PeersKnown
<1>5. /\ <<fd, k>> \notin Chunks(cq) \union Chunks(batch) \union dropped
      /\ k \notin Elements(delivered[fd])
  <2>1. ~(k <= taken[fd])
    BY <1>0
  <2> HIDE DEF k
  <2> QED
    BY <2>1, <1>0 DEF Sound, ChunksApart
<1>6. \A f \in Fds : taken'[f] = IF f = fd THEN k ELSE taken[f]
  BY <1>0, <1>1
<1>b. k = taken[fd] + 1 /\ taken[fd] \in Nat
  BY <1>0
<1> HIDE DEF k, c
<1>7. /\ Accepts(cq') = Accepts(cq) /\ Chunks(cq') = Chunks(cq) \union {<<fd, k>>}
      /\ \A f : Answers(cq', f) => Answers(cq, f) \/ f = fd
      /\ Once(cq) => Once(cq')
  <2> DEFINE u == Append(cq, c)
  <2>1. /\ Accepts(u) = Accepts(cq) \union OfAccept(c) /\ Chunks(u) = Chunks(cq) \union OfRead(c)
        /\ \A f : Answers(u, f) <=> Answers(cq, f) \/ Works(c, f)
        /\ (Once(cq) /\ OfAccept(c) \intersect Accepts(cq) = {} /\ OfRead(c) \intersect Chunks(cq) = {}
              => Once(u))
    BY <1>0, <1>2, Posted
  <2>2. cq' = u
    BY <1>1
  <2> HIDE DEF u
  <2>3. Once(cq) => Once(u)
    BY <2>1, <1>3, <1>5
  <2> QED
    BY <2>1, <2>2, <2>3, <1>3
<1>8. Idle' /\ OnceEach'
  BY <1>1, <1>7 DEF Sound, Idle, OnceEach
<1>9. PeersKnown'
  BY <1>1, <1>4, <1>7 DEF Sound, PeersKnown
<1>10. AcceptsAccounted'
  BY <1>1, <1>7 DEF Sound, AcceptsAccounted, Announced
<1>11. ChunksApart'
  <2>1. /\ Chunks(cq') \intersect Chunks(batch) = {}
        /\ (Chunks(cq') \union Chunks(batch)) \intersect dropped = {}
    BY <1>5, <1>7 DEF Sound, ChunksApart
  <2>2. ASSUME NEW f \in Fds, NEW j \in 1..MaxChunks,
               <<f, j>> \in Chunks(cq') \union Chunks(batch) \union dropped \/ j \in Elements(delivered[f])
        PROVE  j <= taken'[f]
    <3>1. CASE f = fd /\ j = k
      BY <3>1, <1>0, <1>6
    <3>2. CASE ~(f = fd /\ j = k)
      <4>1. <<f, j>> \in Chunks(cq) \union Chunks(batch) \union dropped \/ j \in Elements(delivered[f])
        BY <2>2, <3>2, <1>7
      <4>2. j <= taken[f]
        BY <4>1 DEF Sound, ChunksApart
      <4>3. taken[f] \in Nat /\ taken'[f] \in Nat /\ taken[f] <= taken'[f]
        BY <1>0, <1>6, <1>b
      <4> QED
        BY <4>2, <4>3
    <3> QED
      BY <3>1, <3>2
  <2> QED
    BY <2>1, <2>2, <1>1 DEF ChunksApart
<1>12. DataAccounted'
  <2>1. ASSUME NEW f \in Fds, NEW j \in 1..taken'[f]
        PROVE  \/ <<f, j>> \in Chunks(cq') \union Chunks(batch) \union dropped
               \/ j \in Elements(delivered[f])
    <3>1. CASE f = fd /\ j = k
      BY <3>1, <1>7
    <3>2. CASE ~(f = fd /\ j = k)
      <4>1. j \in 1..taken[f]
        <5>1. CASE f = fd
          BY <5>1, <3>2, <1>6, <1>b
        <5>2. CASE f # fd
          BY <5>2, <1>6
        <5> QED
          BY <5>1, <5>2
      <4> QED
        BY <4>1, <1>7 DEF Sound, DataAccounted
    <3> QED
      BY <3>1, <3>2
  <2>2. ASSUME NEW f \in Fds, NEW j \in Elements(delivered[f])
        PROVE  <<f, j>> \notin Chunks(cq') \union Chunks(batch) \union dropped
    BY <2>2, <1>5, <1>7 DEF Sound, DataAccounted
  <2> QED
    BY <2>1, <2>2, <1>1 DEF DataAccounted
<1> QED
  BY <1>8, <1>9, <1>10, <1>11, <1>12 DEF Sound

LEMMA ReceiveSound ==
  ASSUME TypeOK, Sound, ReceiveData
  PROVE  Sound'
<1>1. /\ batch = << >> /\ cq' = << >> /\ pc' = "handle"
      /\ UNCHANGED <<connections, reads, writes, accepted, taken, refused, delivered>>
  BY DEF ReceiveData, Sound, Idle
<1>2. /\ Accepts(batch) = {} /\ Chunks(batch) = {} /\ Accepts(cq') = {} /\ Chunks(cq') = {}
      /\ \A fd : ~Answers(cq', fd)
      /\ Once(cq')
  BY <1>1, EmptyViews
<1>3. Idle'
  BY <1>1 DEF Idle
<1>4. CASE GivesUp(cq)
  <2>1. /\ batch' = << >> /\ lost' = lost \union Accepts(cq)
        /\ dropped' = dropped \union Chunks(cq)
    BY <1>4 DEF ReceiveData
  <2>2. /\ Accepts(batch') = {} /\ Chunks(batch') = {} /\ Once(batch')
        /\ \A fd : ~Answers(batch', fd)
    BY <2>1, EmptyViews
  <2>3. OnceEach'
    BY <1>2, <2>2 DEF OnceEach
  <2>4. PeersKnown'
    BY <1>1, <1>2, <2>2 DEF Sound, PeersKnown
  <2>5. AcceptsAccounted'
    BY <1>1, <1>2, <2>1, <2>2 DEF Sound, AcceptsAccounted, Announced
  <2>6. ChunksApart'
    BY <1>1, <1>2, <2>1, <2>2 DEF Sound, ChunksApart
  <2>7. DataAccounted'
    BY <1>1, <1>2, <2>1, <2>2 DEF Sound, DataAccounted
  <2> QED
    BY <1>3, <2>3, <2>4, <2>5, <2>6, <2>7 DEF Sound
<1>5. CASE ~GivesUp(cq)
  <2>1. batch' = cq /\ lost' = lost /\ dropped' = dropped
    BY <1>5 DEF ReceiveData
  <2>2. /\ Accepts(batch') = Accepts(cq) /\ Chunks(batch') = Chunks(cq)
        /\ (Once(cq) => Once(batch'))
        /\ \A fd : Answers(batch', fd) => Answers(cq, fd)
    BY <2>1
  <2>3. OnceEach'
    BY <1>2, <2>2 DEF Sound, OnceEach
  <2>4. PeersKnown'
    BY <1>1, <1>2, <2>2 DEF Sound, PeersKnown
  <2>5. AcceptsAccounted'
    BY <1>1, <1>2, <2>1, <2>2 DEF Sound, AcceptsAccounted, Announced
  <2>6. ChunksApart'
    BY <1>1, <1>2, <2>1, <2>2 DEF Sound, ChunksApart
  <2>7. DataAccounted'
    BY <1>1, <1>2, <2>1, <2>2 DEF Sound, DataAccounted
  <2> QED
    BY <1>3, <2>3, <2>4, <2>5, <2>6, <2>7 DEF Sound
<1> QED
  BY <1>4, <1>5

LEMMA AdmitSound ==
  ASSUME TypeOK, Sound, HandleAccept
  PROVE  Sound'
<1> DEFINE c == Head(batch)
           fd == Head(batch).fd
           u == Tail(batch)
<1>1. /\ batch # << >> /\ c.type = "ACCEPT" /\ batch' = u /\ pc = "handle"
      /\ UNCHANGED <<pc, cq, writes, accepted, taken, lost, delivered, dropped>>
  BY DEF HandleAccept, Event
<1>2. batch \in Seq(Completions) /\ c \in Completions
  BY <1>1, TakenOff DEF TypeOK
<1>3. CASE fd = NoFd
  <2>1. OfAccept(c) = {} /\ OfRead(c) = {} /\ UNCHANGED <<connections, reads, refused>>
    BY <1>1, <1>3 DEF HandleAccept, OfAccept, OfRead
  <2> QED
    BY <1>1, <2>1, EmptyEvent
<1>4. CASE fd # NoFd
  <2>1. fd \in Fds /\ OfAccept(c) = {fd} /\ OfRead(c) = {} /\ \A f : ~Works(c, f)
    BY <1>1, <1>2, <1>4, CompletionFields DEF OfAccept, OfRead, Works
  <2>2. \/ /\ connections' = connections \union {fd} /\ reads' = reads \union {fd}
           /\ refused' = refused
        \/ /\ refused' = refused \union {fd} /\ connections' = connections \ {fd}
           /\ reads' = reads
    BY <1>4 DEF HandleAccept, Admit, Refuse
  <2>3. /\ Accepts(batch) = Accepts(u) \union OfAccept(c) /\ Chunks(batch) = Chunks(u) \union OfRead(c)
        /\ \A f : Answers(batch, f) <=> Answers(u, f) \/ Works(c, f)
        /\ (Once(batch) => Once(u) /\ OfAccept(c) \intersect Accepts(u) = {})
    BY <1>1, <1>2, TakenOff
  <2> HIDE DEF c, fd, u
  <2>4. /\ Accepts(batch) = Accepts(batch') \union {fd} /\ fd \notin Accepts(batch')
        /\ Chunks(batch') = Chunks(batch) /\ Once(batch')
        /\ \A f : Answers(batch', f) => Answers(batch, f)
    BY <1>1, <2>1, <2>3 DEF Sound, OnceEach
  <2>5. fd \notin connections \union refused \union lost \union Accepts(cq)
    BY <2>4 DEF Sound, AcceptsAccounted, Announced
  <2>6. \/ connections' = connections \union {fd} /\ refused' = refused
        \/ connections' = connections /\ refused' = refused \union {fd}
    BY <2>2, <2>5
  <2>7. Idle' /\ OnceEach'
    BY <1>1, <2>4 DEF Sound, Idle, OnceEach
  <2>8. PeersKnown'
    BY <1>1, <2>2, <2>4, <2>5 DEF Sound, PeersKnown
  <2>9. AcceptsAccounted'
    BY <1>1, <2>4, <2>5, <2>6 DEF Sound, AcceptsAccounted, Announced
  <2>10. ChunksApart'
    BY <1>1, <2>4 DEF Sound, ChunksApart
  <2>11. DataAccounted'
    BY <1>1, <2>4 DEF Sound, DataAccounted
  <2> QED
    BY <2>7, <2>8, <2>9, <2>10, <2>11 DEF Sound
<1> QED
  BY <1>3, <1>4

\* An element more.
LEMMA OneMore ==
  ASSUME NEW S, NEW s \in Seq(S), NEW e \in S
  PROVE  Elements(Append(s, e)) = Elements(s) \union {e}
<1> DEFINE u == Append(s, e)
<1>1. /\ Len(s) \in Nat /\ Len(u) = Len(s) + 1 /\ u[Len(s) + 1] = e
      /\ \A i \in 1..Len(s) : u[i] = s[i]
  BY AppendProperties, LenProperties
<1> HIDE DEF u
<1>2. ASSUME NEW i \in 1..Len(u) PROVE u[i] \in Elements(s) \union {e}
  <2>1. i = Len(s) + 1 \/ i \in 1..Len(s)
    BY <1>1
  <2> QED
    BY <2>1, <1>1 DEF Elements
<1>3. ASSUME NEW i \in 1..Len(s) PROVE s[i] \in Elements(u)
  <2>1. i \in 1..Len(u) /\ u[i] = s[i]
    BY <1>1
  <2> QED
    BY <2>1 DEF Elements
<1>4. e \in Elements(u)
  <2>1. Len(s) + 1 \in 1..Len(u)
    BY <1>1
  <2> QED
    BY <2>1, <1>1 DEF Elements
<1> QED
  BY <1>2, <1>3, <1>4 DEF Elements, u

LEMMA HandleReadSound ==
  ASSUME TypeOK, Sound, HandleRead
  PROVE  Sound'
<1> DEFINE c == Head(batch)
           fd == Head(batch).fd
           k == Head(batch).chunk
           u == Tail(batch)
<1>1. /\ batch # << >> /\ c.type = "READ" /\ batch' = u /\ pc = "handle"
      /\ UNCHANGED <<pc, connections, cq, reads, accepted, taken, refused, lost>>
  BY DEF HandleRead, Event
<1>2. batch \in Seq(Completions) /\ c \in Completions
  BY <1>1, TakenOff DEF TypeOK
<1>3. fd \in Fds /\ k \in 0..MaxChunks /\ OfAccept(c) = {} /\ Works(c, fd)
  BY <1>1, <1>2, CompletionFields DEF OfAccept, Works
<1>4. /\ Accepts(batch) = Accepts(u) \union OfAccept(c) /\ Chunks(batch) = Chunks(u) \union OfRead(c)
      /\ \A f : Answers(batch, f) <=> Answers(u, f) \/ Works(c, f)
      /\ (Once(batch) => Once(u) /\ OfRead(c) \intersect Chunks(u) = {})
  BY <1>1, <1>2, TakenOff
<1>5. fd \in connections
  BY <1>3, <1>4 DEF Sound, PeersKnown
<1>6. CASE k = 0
  <2>1. OfRead(c) = {} /\ UNCHANGED <<writes, delivered, dropped>>
    BY <1>1, <1>6 DEF OfRead, HandleRead
  <2> QED
    BY <1>1, <1>3, <2>1, EmptyEvent
<1>7. CASE k # 0
  <2>1. k \in 1..MaxChunks /\ OfRead(c) = {<<fd, k>>}
    BY <1>1, <1>3, <1>7, ServerConstants DEF OfRead
  <2>2. \/ dropped' = dropped \union {<<fd, k>>} /\ UNCHANGED <<writes, delivered>>
        \/ /\ delivered' = [delivered EXCEPT ![fd] = Append(@, k)]
           /\ \E answer \in {0, 1} : writes' = [writes EXCEPT ![fd] = @ + answer]
           /\ UNCHANGED dropped
    BY <1>5, <1>7 DEF HandleRead
  <2>e. /\ delivered \in [Fds -> Seq(1..MaxChunks)] /\ writes \in [Fds -> Nat]
        /\ taken \in [Fds -> 0..MaxChunks] /\ MaxChunks \in Nat
    BY ServerConstants DEF TypeOK
  <2> HIDE DEF c, fd, k, u
  <2>3. /\ Accepts(batch') = Accepts(batch) /\ Once(batch')
        /\ Chunks(batch) = Chunks(batch') \union {<<fd, k>>} /\ <<fd, k>> \notin Chunks(batch')
        /\ \A f : Answers(batch', f) => Answers(batch, f)
    BY <1>1, <1>3, <1>4, <2>1 DEF Sound, OnceEach
  <2>4. <<fd, k>> \notin Chunks(cq) \union dropped
    BY <2>3 DEF Sound, ChunksApart
  <2>5. k \notin Elements(delivered[fd]) /\ k <= taken[fd]
    BY <1>3, <2>1, <2>3 DEF Sound, ChunksApart, DataAccounted
  <2>6. Idle' /\ OnceEach'
    BY <1>1, <2>3 DEF Sound, Idle, OnceEach
  <2>7. PeersKnown'
    <3>1. \A f \in Fds : writes'[f] > 0 => writes[f] > 0 \/ f \in connections
      BY <1>3, <1>5, <2>2, <2>e
    <3> QED
      BY <1>1, <2>3, <3>1 DEF Sound, PeersKnown
  <2>8. AcceptsAccounted'
    BY <1>1, <2>3 DEF Sound, AcceptsAccounted, Announced
  <2>9. CASE dropped' = dropped \union {<<fd, k>>} /\ UNCHANGED <<writes, delivered>>
    <3>1. ChunksApart'
      BY <1>1, <2>3, <2>4, <2>9 DEF Sound, ChunksApart
    <3>2. DataAccounted'
      BY <1>1, <2>3, <2>4, <2>5, <2>9 DEF Sound, DataAccounted
    <3> QED
      BY <2>6, <2>7, <2>8, <3>1, <3>2 DEF Sound
  <2>10. CASE delivered' = [delivered EXCEPT ![fd] = Append(@, k)] /\ UNCHANGED dropped
    <3>1. Elements(Append(delivered[fd], k)) = Elements(delivered[fd]) \union {k}
      <4> DEFINE S == 1..MaxChunks
                 d == delivered[fd]
      <4>1. d \in Seq(S) /\ k \in S
        BY <1>3, <2>1, <2>e
      <4> HIDE DEF S, d
      <4>2. Elements(Append(d, k)) = Elements(d) \union {k}
        BY <4>1, OneMore
      <4> QED
        BY <4>2 DEF d
    <3>2. \A f \in Fds : Elements(delivered'[f]) = IF f = fd THEN Elements(delivered[f]) \union {k}
                                                           ELSE Elements(delivered[f])
      <4>1. ASSUME NEW f \in Fds
            PROVE  delivered'[f] = IF f = fd THEN Append(delivered[f], k) ELSE delivered[f]
        BY <1>3, <2>e, <2>10
      <4> QED
        BY <3>1, <4>1
    <3>3. ChunksApart'
      <4>1. /\ Chunks(cq) \intersect Chunks(batch') = {}
            /\ (Chunks(cq) \union Chunks(batch')) \intersect dropped = {}
        BY <2>3 DEF Sound, ChunksApart
      <4>2. ASSUME NEW f \in Fds, NEW j \in 1..MaxChunks,
                   \/ <<f, j>> \in Chunks(cq) \union Chunks(batch') \union dropped
                   \/ j \in Elements(delivered'[f])
            PROVE  j <= taken[f]
        <5>1. CASE f = fd /\ j = k
          BY <5>1, <2>5
        <5>2. CASE ~(f = fd /\ j = k)
          BY <5>2, <4>2, <2>3, <3>2 DEF Sound, ChunksApart
        <5> QED
          BY <5>1, <5>2
      <4> QED
        BY <1>1, <2>10, <4>1, <4>2 DEF ChunksApart
    <3>4. DataAccounted'
      <4>1. ASSUME NEW f \in Fds, NEW j \in 1..taken[f]
            PROVE  \/ <<f, j>> \in Chunks(cq) \union Chunks(batch') \union dropped
                   \/ j \in Elements(delivered'[f])
        <5>1. CASE f = fd /\ j = k
          BY <5>1, <1>3, <3>2
        <5>2. CASE ~(f = fd /\ j = k)
          BY <5>2, <2>3, <3>2 DEF Sound, DataAccounted
        <5> QED
          BY <5>1, <5>2
      <4>2. ASSUME NEW f \in Fds, NEW j \in Elements(delivered'[f])
            PROVE  <<f, j>> \notin Chunks(cq) \union Chunks(batch') \union dropped
        <5>1. CASE f = fd /\ j = k
          BY <5>1, <2>3, <2>4
        <5>2. CASE ~(f = fd /\ j = k)
          BY <5>2, <4>2, <2>3, <3>2 DEF Sound, DataAccounted
        <5> QED
          BY <5>1, <5>2
      <4> QED
        BY <1>1, <2>10, <4>1, <4>2 DEF DataAccounted
    <3> QED
      BY <2>6, <2>7, <2>8, <3>3, <3>4 DEF Sound
  <2> QED
    BY <2>2, <2>9, <2>10
<1> QED
  BY <1>6, <1>7

LEMMA SoundKept == TypeOK /\ Sound /\ [Next]_vars => Sound'
<1> SUFFICES ASSUME TypeOK, Sound, [Next]_vars PROVE Sound'
  OBVIOUS
<1>1. CASE Client \/ Cancel \/ StartTicking \/ DeadlinePasses \/ UNCHANGED vars
  BY <1>1, NothingMoves DEF Client, Send, Cancel, StartTicking, DeadlinePasses,
                            vars, serve, outside, kernel, history
<1>2. CASE SendPass \/ Drain
  <2>1. batch = << >>
    BY <1>2 DEF SendPass, Drain, Sound, Idle
  <2> QED
    BY <1>2, <2>1, NothingMoves DEF SendPass, Drain, outside, kernel, history
<1>3. CASE AcceptFails
  <2> DEFINE c == AcceptDone(NoFd)
  <2>1. c \in Completions /\ OfAccept(c) = {} /\ OfRead(c) = {} /\ \A fd : ~Works(c, fd)
    BY CompletionsPosted DEF AcceptDone, OfAccept, OfRead, Works
  <2> HIDE DEF c
  <2>2. /\ cq' = Append(cq, c)
        /\ UNCHANGED <<pc, batch, connections, reads, writes, accepted, taken, refused, lost,
                       delivered, dropped>>
    BY <1>3 DEF AcceptFails, Post, serve, outside, history, c
  <2> QED
    BY <2>1, <2>2, EmptyPost
<1>4. CASE AcceptCancelled \/ Tick
  <2>1. Silent \in Completions /\ OfAccept(Silent) = {} /\ OfRead(Silent) = {}
        /\ \A fd : ~Works(Silent, fd)
    BY CompletionsPosted DEF Silent, OfAccept, OfRead, Works
  <2>2. /\ cq' = Append(cq, Silent)
        /\ UNCHANGED <<pc, batch, connections, reads, writes, accepted, taken, refused, lost,
                       delivered, dropped>>
    BY <1>4 DEF AcceptCancelled, Tick, Post, serve, outside, history
  <2> QED
    BY <2>1, <2>2, EmptyPost
<1>5. ASSUME NEW fd \in Fds, ReadEnds(fd) \/ ReadFails(fd) PROVE Sound'
  <2>1. PICK c \in {ReadDone(fd, 0), ReadFailed(fd)} :
          /\ cq' = Append(cq, c) /\ reads' = reads \ {fd} /\ fd \in reads
          /\ UNCHANGED <<pc, batch, connections, writes, accepted, taken, refused, lost,
                         delivered, dropped>>
    BY <1>5 DEF ReadEnds, ReadFails, Post, serve, outside, history
  <2>2. c \in Completions /\ OfAccept(c) = {} /\ OfRead(c) = {} /\ c.fd = fd
    BY <2>1, CompletionsPosted, ServerConstants DEF ReadDone, ReadFailed, OfAccept, OfRead
  <2>3. \A f \in Fds : Works(c, f) => f \in connections
    BY <2>1, <2>2 DEF Works, Sound, PeersKnown
  <2> QED
    BY <2>1, <2>2, <2>3, EmptyPost
<1>6. ASSUME NEW fd \in Fds, WriteCompletes(fd) PROVE Sound'
  <2> DEFINE c == WriteDone(fd)
  <2>1. c \in Completions /\ OfAccept(c) = {} /\ OfRead(c) = {} /\ c.fd = fd
    BY CompletionsPosted DEF WriteDone, OfAccept, OfRead
  <2> HIDE DEF c
  <2>2. /\ cq' = Append(cq, c) /\ writes[fd] > 0 /\ writes' = [writes EXCEPT ![fd] = @ - 1]
        /\ UNCHANGED <<pc, batch, connections, reads, accepted, taken, refused, lost,
                       delivered, dropped>>
    BY <1>6 DEF WriteCompletes, Post, serve, outside, history, c
  <2>3. \A f \in Fds : writes'[f] > 0 => writes[f] > 0
    BY <2>2 DEF TypeOK
  <2>4. \A f \in Fds : Works(c, f) => f \in connections
    BY <2>1, <2>2 DEF Works, Sound, PeersKnown
  <2> QED
    BY <2>1, <2>2, <2>3, <2>4, EmptyPost
<1>7. CASE HandleWrite \/ HandleSilent
  <2>1. /\ batch # << >> /\ Head(batch).type \in {"WRITE", "SILENT"} /\ batch' = Tail(batch)
        /\ pc = "handle"
        /\ UNCHANGED <<pc, connections, cq, reads, writes, accepted, taken, refused, lost,
                       delivered, dropped>>
    BY <1>7 DEF HandleWrite, HandleSilent, Event, outside, kernel, history
  <2>2. OfAccept(Head(batch)) = {} /\ OfRead(Head(batch)) = {}
    BY <2>1 DEF OfAccept, OfRead
  <2> QED
    BY <2>1, <2>2, EmptyEvent
<1> QED
  BY <1>1, <1>2, <1>3, <1>4, <1>5, <1>6, <1>7, AcceptSound, ReadSound, ReceiveSound,
     AdmitSound, HandleReadSound DEF Next, Kernel, Serve

LEMMA ServerInvariant == Spec => [](TypeOK /\ Sound)
<1>1. Init => TypeOK /\ Sound
  BY TypeInit, SoundInit
<1>2. TypeOK /\ Sound /\ [Next]_vars => (TypeOK /\ Sound)'
  BY TypeKept, SoundKept
<1> QED
  BY <1>1, <1>2, PTL DEF Spec

\* Serve handles a completion of a read or a write only for a connection that
\* has its peer, for any number of connections and any order of completions.
THEOREM ServerPeersKnown == Spec => []PeersKnown
<1>1. TypeOK /\ Sound => PeersKnown
  BY DEF Sound
<1> QED
  BY ServerInvariant, <1>1, PTL

\* An accepted descriptor waits, has a peer, was refused or was thrown away with
\* its batch, and only one of these, for any number of connections.
THEOREM ServerAccountsAccepts == Spec => []AcceptsAccounted
<1>1. TypeOK /\ Sound => AcceptsAccounted
  BY DEF Sound
<1> QED
  BY ServerInvariant, <1>1, PTL

\* A chunk the kernel has read waits, was handed to the application once, or was
\* taken away by a middleware or a discarded batch, for any number of chunks.
THEOREM ServerAccountsData == Spec => []DataAccounted
<1>1. TypeOK /\ Sound => DataAccounted
  BY DEF Sound
<1> QED
  BY ServerInvariant, <1>1, PTL
=============================================================================
