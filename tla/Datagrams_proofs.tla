-------------------------- MODULE Datagrams_proofs --------------------------
(***************************************************************************)
(* For any number of provided buffers and any configuration: whatever      *)
(* system call fails, Serve begins only when everything it needs is there, *)
(* and the events it is given are the datagrams that were received, each   *)
(* with its own sender.                                                    *)
(***************************************************************************)
EXTENDS Datagrams, ModularArithmetic, FiniteSetTheorems, SequenceTheorems

-----------------------------------------------------------------------------
(* Start-up. *)

\* What the assumption on the constants gives.
LEMMA StartupConstants ==
  Entries \in Nat \ {0} /\ Word \in Nat /\ Word > 10
BY StartupAssumption DEF StartupAssumption

\* The buffers stand in the ring in the order of their identifiers.
Laid(k) == \A i \in 0..Entries - 1 : i < k => bufRing[i] = [at |-> i, bid |-> i]

\* At every stage, what the stages before it have achieved.  A descriptor that
\* is none survives only until the first call that has to reject it.
Achieved ==
  /\ filled \in 0..Entries /\ tail \in {0, Entries}
  /\ bufRing \in [0..Entries - 1 -> [at : Nat, bid : Nat]]
  /\ stage \in {"fill", "listen", "socket", "setsockopt", "bind", "listen call", "arm"}
       => oneMapping
  /\ stage \in {"io_uring_setup", "mmap sq", "mmap sqe", "mmap buffers", "register"}
       => filled = 0 /\ tail = 0
  /\ stage = "fill" => tail = 0 /\ Laid(filled)
  /\ stage \in {"listen", "socket", "setsockopt", "bind", "listen call", "arm", "serving"}
       => tail = Entries /\ Laid(Entries)
  /\ stage \in {"socket", "setsockopt", "bind", "listen call", "arm"}
       => protocol \in {"tcp", "udp"}
  /\ stage = "listen call" => fd = Opened /\ socket = "bound" /\ protocol = "tcp"
  /\ stage = "arm" => fd = Opened /\ socket = IF protocol = "tcp" THEN "listening" ELSE "bound"
  /\ stage = "serving" /\ protocol \in {"tcp", "udp"} => fd = Opened
  /\ armed # Nothing =>
       /\ stage = "serving"
       /\ \/ protocol = "tcp" /\ armed = Operation(ACCEPT, Opened)
          \/ protocol = "udp" /\ armed = Operation(RECVMSG, Opened)

\* The user data of an operation on an open descriptor says which it is.
LEMMA DecodeEncode ==
  ASSUME NEW kind \in Nat, NEW f \in 0..Opened
  PROVE  Decode(Encode(kind, f)) = [kind |-> kind, fd |-> f]
<1> DEFINE d == kind * Word + f
<1>0. f \in 0..Word - 1 /\ f \in Nat /\ f <= 5
  BY StartupConstants DEF Opened
<1>1. d \in Int /\ d = (Word * kind) + f
  BY <1>0, StartupConstants
<1>2. d % Word = f
  BY <1>0, <1>1, StartupConstants, ModUnique
<1>4. Encode(kind, f) = d
  BY <1>0 DEF Encode
<1> HIDE DEF d
<1>3. d \div Word = kind
  <2>1. d \div Word \in Int /\ d = (Word * (d \div Word)) + (d % Word)
    BY <1>1, StartupConstants, Euclid
  <2> DEFINE q == d \div Word
  <2>2. q \in Int /\ Word * (q - kind) = 0
    BY <2>1, <1>0, <1>1, <1>2, StartupConstants
  <2> HIDE DEF q
  <2>3. q - kind = 0
    BY <2>2, StartupConstants
  <2> QED
    BY <2>2, <2>3 DEF q
<1> QED
  BY <1>0, <1>2, <1>3, <1>4, StartupConstants DEF Decode

-----------------------------------------------------------------------------
\* Every system call leaves what the next stage relies on, or ends the program.
LEMMA AchievedInductive == StartupInit => Achieved
BY StartupConstants DEF StartupInit, Achieved, Laid

LEMMA AchievedKept == Achieved /\ [Boot]_startup => Achieved'
<1> SUFFICES ASSUME Achieved, [Boot]_startup PROVE Achieved'
  OBVIOUS
<1>1. CASE CreateUring
  BY <1>1 DEF CreateUring, config, pool, Achieved, Laid
<1>2. CASE RegisterRingBuffer
  <2>1. /\ UNCHANGED <<protocol, bufRing, filled, tail, fd, socket, oneMapping>>
        /\ filled = 0 /\ tail = 0
    BY <1>2 DEF RegisterRingBuffer, config, pool, Achieved
  <2>2. stage' = "panicked" \/ stage' = "register" \/ (stage' = "fill" /\ oneMapping)
    BY <1>2 DEF RegisterRingBuffer
  <2>3. Laid(filled)'
    <3>1. filled' = 0
      BY <2>1
    <3>2. \A i \in 0..Entries - 1 : ~(i < 0)
      BY StartupConstants
    <3> QED
      BY <3>1, <3>2 DEF Laid
  <2>4. /\ filled \in 0..Entries /\ bufRing \in [0..Entries - 1 -> [at : Nat, bid : Nat]]
        /\ armed' = Nothing
    BY <1>2 DEF Achieved, RegisterRingBuffer
  <2> QED
    BY <2>1, <2>2, <2>3, <2>4 DEF Achieved
<1>3. CASE FillEntry
  <2>1. /\ stage = "fill" /\ stage' = "fill" /\ tail = 0 /\ tail' = 0 /\ oneMapping'
        /\ Laid(filled) /\ filled \in 0..Entries /\ filled < Entries
        /\ filled' = filled + 1
        /\ bufRing \in [0..Entries - 1 -> [at : Nat, bid : Nat]]
    BY <1>3 DEF FillEntry, config, Achieved
  <2>2. filled \in 0..Entries - 1
    BY <2>1, StartupConstants
  <2>3. (tail + filled) % Entries = filled
    <3>1. tail + filled = filled
      BY <2>1, <2>2
    <3> QED
      BY <3>1, <2>2, StartupConstants, ModSmall
  <2>4. bufRing' = [bufRing EXCEPT ![filled] = [at |-> filled, bid |-> filled]]
    BY <1>3, <2>3 DEF FillEntry
  <2>5. ASSUME NEW i \in 0..Entries - 1, i < filled'
        PROVE  bufRing'[i] = [at |-> i, bid |-> i]
    <3>1. CASE i = filled
      BY <2>4, <2>1, <3>1
    <3>2. CASE i # filled
      <4>1. i < filled
        BY <2>1, <2>2, <2>5, <3>2
      <4>2. bufRing[i] = [at |-> i, bid |-> i]
        BY <4>1, <2>1 DEF Laid
      <4> QED
        BY <2>4, <2>1, <3>2, <4>2
    <3> QED
      BY <3>1, <3>2
  <2>6. bufRing' \in [0..Entries - 1 -> [at : Nat, bid : Nat]]
    <3>1. [at |-> filled, bid |-> filled] \in [at : Nat, bid : Nat]
      BY <2>2
    <3> QED
      BY <3>1, <2>1, <2>4
  <2>7. Laid(filled)' /\ filled' \in 0..Entries
    BY <2>5, <2>1, <2>2, StartupConstants DEF Laid
  <2>8. armed' = Nothing
    BY <1>3 DEF Achieved, FillEntry
  <2> QED
    BY <2>1, <2>6, <2>7, <2>8 DEF Achieved
<1>4. CASE AdvancePbufRing
  <2>1. /\ stage = "fill" /\ filled = Entries /\ tail = 0 /\ Laid(filled) /\ oneMapping
        /\ UNCHANGED <<bufRing, filled, oneMapping>>
        /\ tail' = tail + Entries /\ stage' = "listen"
        /\ filled \in 0..Entries /\ bufRing \in [0..Entries - 1 -> [at : Nat, bid : Nat]]
    BY <1>4 DEF AdvancePbufRing, config, Achieved
  <2>2. tail' = Entries /\ Laid(Entries)'
    BY <2>1, StartupConstants DEF Laid
  <2>3. armed' = Nothing
    BY <1>4 DEF Achieved, AdvancePbufRing
  <2> QED
    BY <2>1, <2>2, <2>3 DEF Achieved
<1>5. CASE Listen
  BY <1>5 DEF Listen, config, pool, Achieved, Laid
<1>6. CASE CreateSocket
  BY <1>6 DEF CreateSocket, config, pool, Achieved, Laid
<1>7. CASE SetSockOpt
  BY <1>7 DEF SetSockOpt, config, pool, Achieved, Laid
<1>8. CASE Bind
  BY <1>8 DEF Bind, MaySucceed, config, pool, Achieved, Laid
<1>9. CASE ListenCall
  BY <1>9 DEF ListenCall, MaySucceed, config, pool, Achieved, Laid
<1>10. CASE Arm
  BY <1>10 DEF Arm, config, pool, Achieved, Laid
<1>11. CASE UNCHANGED startup
  BY <1>11 DEF startup, config, pool, Achieved, Laid
<1> QED
  BY <1>1, <1>2, <1>3, <1>4, <1>5, <1>6, <1>7, <1>8, <1>9, <1>10, <1>11 DEF Boot

\* The step into Serve.
Ready ==
  stage' = "serving" /\ stage # "serving" /\ protocol \in {"tcp", "udp"} =>
    /\ socket' = IF protocol = "tcp" THEN "listening" ELSE "bound"
    /\ armed'.fd = fd
    /\ Decode(armed'.data) = [kind |-> IF protocol = "tcp" THEN ACCEPT ELSE RECVMSG,
                              fd |-> fd]
    /\ oneMapping /\ tail = Entries
    /\ {bufRing[i].at : i \in 0..Entries - 1} = 0..Entries - 1

LEMMA ReadyStep == Achieved /\ [Boot]_startup => Ready
<1> SUFFICES ASSUME Achieved, [Boot]_startup,
                    stage' = "serving", stage # "serving", protocol \in {"tcp", "udp"}
             PROVE  /\ socket' = IF protocol = "tcp" THEN "listening" ELSE "bound"
                    /\ armed'.fd = fd
                    /\ Decode(armed'.data)
                         = [kind |-> IF protocol = "tcp" THEN ACCEPT ELSE RECVMSG, fd |-> fd]
                    /\ oneMapping /\ tail = Entries
                    /\ {bufRing[i].at : i \in 0..Entries - 1} = 0..Entries - 1
  BY DEF Ready
<1>1. Arm
  BY DEF Boot, startup, CreateUring, RegisterRingBuffer, FillEntry, AdvancePbufRing,
         Listen, CreateSocket, SetSockOpt, Bind, ListenCall
<1>2. /\ oneMapping /\ tail = Entries /\ Laid(Entries) /\ fd = Opened
      /\ socket' = IF protocol = "tcp" THEN "listening" ELSE "bound"
  BY <1>1 DEF Arm, Achieved
<1> DEFINE kind == IF protocol = "tcp" THEN ACCEPT ELSE RECVMSG
<1>3. kind \in Nat
  BY DEF ACCEPT, RECVMSG
<1>4. armed' = [op |-> kind, fd |-> fd, data |-> Encode(kind, fd)]
  BY <1>1 DEF Arm, Operation
<1>5. Decode(armed'.data) = [kind |-> kind, fd |-> fd]
  <2>1. fd \in 0..Opened /\ armed'.data = Encode(kind, fd)
    BY <1>2, <1>4 DEF Opened
  <2> HIDE DEF kind
  <2> QED
    BY <1>3, <2>1, DecodeEncode
<1>6. \A i \in 0..Entries - 1 : bufRing[i].at = i
  <2> TAKE i \in 0..Entries - 1
  <2>1. i < Entries
    BY StartupConstants
  <2>2. bufRing[i] = [at |-> i, bid |-> i]
    BY <2>1, <1>2 DEF Laid
  <2> QED
    BY <2>2
<1> QED
  BY <1>2, <1>4, <1>5, <1>6

\* Whatever system call fails, noticed or not, Serve begins with its operation
\* armed on a usable socket, the rings mapped and every buffer in its place, for
\* any number of buffers (NewUringNetEngine, Listen, NetworkServer.Listen).
THEOREM StartupReady == StartupSpec => ServesOnlyWhenReady
<1>1. StartupSpec => []Achieved
  BY AchievedInductive, AchievedKept, PTL DEF StartupSpec
<1>2. Achieved /\ [Boot]_startup => [Ready]_startup
  BY ReadyStep
<1>3. StartupSpec => [][Ready]_startup
  BY <1>1, <1>2, PTL DEF StartupSpec
<1> QED
  BY <1>3, PTL DEF Ready, ServesOnlyWhenReady

LEMMA StartupTypesInit == StartupInit => StartupTypeOK
BY StartupConstants DEF StartupInit, StartupTypeOK

LEMMA StartupTypesKept == StartupTypeOK /\ Achieved /\ [Boot]_startup => StartupTypeOK'
<1> SUFFICES ASSUME StartupTypeOK, Achieved, [Boot]_startup PROVE StartupTypeOK'
  OBVIOUS
<1>1. /\ stage' \in {"io_uring_setup", "mmap sq", "mmap sqe", "mmap buffers", "register",
                     "fill", "listen", "socket", "setsockopt", "bind", "listen call", "arm",
                     "serving", "panicked", "exited"}
      /\ fd' \in {0, NoFd, Opened} /\ socket' \in {"none", "open", "bound", "listening"}
  BY DEF StartupTypeOK, Boot, startup, CreateUring, RegisterRingBuffer, FillEntry,
         AdvancePbufRing, Listen, CreateSocket, SetSockOpt, Bind, ListenCall, Arm
<1>2. filled' \in 0..Entries /\ tail' \in {0, Entries}
  BY AchievedKept DEF Achieved
<1>3. ASSUME NEW i \in 0..Entries - 1
      PROVE  bufRing'[i].at \in 0..Entries - 1 /\ bufRing'[i].bid \in 0..Entries - 1
  <2>1. bufRing[i].at \in 0..Entries - 1 /\ bufRing[i].bid \in 0..Entries - 1
    BY DEF StartupTypeOK
  <2>2. CASE FillEntry
    <3>1. /\ filled \in 0..Entries - 1 /\ bufRing \in [0..Entries - 1 -> [at : Nat, bid : Nat]]
      BY <2>2, StartupConstants DEF FillEntry, Achieved
    <3> DEFINE j == (tail + filled) % Entries
    <3>6. bufRing' = [bufRing EXCEPT ![j] = [at |-> filled, bid |-> filled]]
      BY <2>2 DEF FillEntry
    <3> HIDE DEF j
    <3>2. bufRing'[i] = bufRing[i] \/ bufRing'[i] = [at |-> filled, bid |-> filled]
      BY <3>1, <3>6
    <3>3. ASSUME bufRing'[i] = [at |-> filled, bid |-> filled]
          PROVE  bufRing'[i].at = filled /\ bufRing'[i].bid = filled
      BY <3>3
    <3>4. CASE bufRing'[i] = bufRing[i]
      BY <2>1, <3>4
    <3>5. CASE bufRing'[i] = [at |-> filled, bid |-> filled]
      BY <3>1, <3>3, <3>5
    <3> QED
      BY <3>2, <3>4, <3>5
  <2>3. CASE ~FillEntry
    <3>1. bufRing' = bufRing
      BY <2>3 DEF Boot, startup, CreateUring, RegisterRingBuffer, AdvancePbufRing,
                  Listen, CreateSocket, SetSockOpt, Bind, ListenCall, Arm, pool
    <3> QED
      BY <2>1, <3>1
  <2> QED
    BY <2>2, <2>3
<1> QED
  BY <1>1, <1>2, <1>3 DEF StartupTypeOK

-----------------------------------------------------------------------------
(* Completions. *)

RecvData == Encode(RECVMSG, Opened)

Completions == [data : {RecvData, Encode(TIMEOUT, 0)}, res : Int,
                bid : {NoBuffer} \union 0..Entries - 1]

\* Of the clock.
IsTick(c) == c.data # RecvData /\ c.bid = NoBuffer

Ticks(s) == \A i \in 1..Len(s) : IsTick(s[i])

\* The only completion of a receive among these is c.
Carries(s, c) ==
  \E k \in 1..Len(s) : s[k] = c /\ \A i \in 1..Len(s) : i # k => IsTick(s[i])

\* What the user data says of a completion.
LEMMA Kinds ==
  /\ RecvData # Encode(TIMEOUT, 0)
  /\ Decode(RecvData) = [kind |-> RECVMSG, fd |-> Opened]
  /\ Decode(Encode(TIMEOUT, 0)).kind = TIMEOUT
<1>1. /\ RECVMSG \in Nat /\ TIMEOUT \in Nat
      /\ 0 \in 0..Opened /\ Opened \in 0..Opened
  BY DEF RECVMSG, TIMEOUT, Opened
<1>2. /\ Decode(RecvData) = [kind |-> RECVMSG, fd |-> Opened]
      /\ Decode(Encode(TIMEOUT, 0)) = [kind |-> TIMEOUT, fd |-> 0]
  BY <1>1, DecodeEncode DEF RecvData
<1> QED
  BY <1>2 DEF RECVMSG, TIMEOUT

LEMMA KindOf ==
  ASSUME NEW c \in Completions
  PROVE  /\ Decode(c.data).kind \in {TIMEOUT, CANCEL} <=> c.data # RecvData
         /\ Decode(c.data).kind = RECVMSG <=> c.data = RecvData
BY Kinds DEF Completions, RECVMSG, TIMEOUT, CANCEL

LEMMA NoCompletions == Ticks(<< >>) /\ \A c : ~Carries(<< >>, c)
BY DEF Ticks, Carries

LEMMA OneMore ==
  ASSUME NEW s \in Seq(Completions), NEW t \in Completions
  PROVE  /\ Append(s, t) \in Seq(Completions)
         /\ Ticks(s) /\ IsTick(t) => Ticks(Append(s, t))
         /\ Ticks(s) => Carries(Append(s, t), t)
         /\ \A c : Carries(s, c) /\ IsTick(t) => Carries(Append(s, t), c)
<1> DEFINE u == Append(s, t)
<1>1. /\ Len(s) \in Nat /\ u \in Seq(Completions) /\ Len(u) = Len(s) + 1
      /\ u[Len(s) + 1] = t /\ \A i \in 1..Len(s) : u[i] = s[i]
  BY LenProperties, AppendProperties
<1> HIDE DEF u
<1>2. \A i \in 1..Len(u) : i \in 1..Len(s) \/ i = Len(s) + 1
  BY <1>1
<1>3. Ticks(s) /\ IsTick(t) => Ticks(u)
  BY <1>1, <1>2 DEF Ticks
<1>4. Ticks(s) => Carries(u, t)
  <2>1. Len(s) + 1 \in 1..Len(u)
    BY <1>1
  <2> QED
    BY <1>1, <1>2, <2>1 DEF Ticks, Carries
<1>5. ASSUME NEW c, Carries(s, c), IsTick(t) PROVE Carries(u, c)
  <2>1. PICK k \in 1..Len(s) : s[k] = c /\ \A i \in 1..Len(s) : i # k => IsTick(s[i])
    BY <1>5 DEF Carries
  <2>2. k \in 1..Len(u) /\ u[k] = c
    BY <1>1, <2>1
  <2>3. \A i \in 1..Len(u) : i # k => IsTick(u[i])
    BY <1>1, <1>2, <1>5, <2>1
  <2> QED
    BY <2>2, <2>3 DEF Carries
<1> QED
  BY <1>1, <1>3, <1>4, <1>5 DEF u

LEMMA OneLess ==
  ASSUME NEW s \in Seq(Completions), s # << >>
  PROVE  /\ Head(s) \in Completions /\ Tail(s) \in Seq(Completions)
         /\ Ticks(s) => IsTick(Head(s)) /\ Ticks(Tail(s))
         /\ \A c : Carries(s, c) /\ ~IsTick(Head(s)) => c = Head(s) /\ Ticks(Tail(s))
         /\ \A c : Carries(s, c) /\ ~IsTick(c) /\ IsTick(Head(s)) => Carries(Tail(s), c)
<1> DEFINE u == Tail(s)
<1>1. /\ Len(s) \in Nat \ {0} /\ u \in Seq(Completions) /\ Len(u) = Len(s) - 1
      /\ \A i \in 1..Len(u) : u[i] = s[i + 1]
      /\ Head(s) = s[1] /\ Head(s) \in Completions
  BY LenProperties, EmptySeq, HeadTailProperties
<1> HIDE DEF u
<1>2. /\ 1 \in 1..Len(s)
      /\ \A i \in 1..Len(u) : i + 1 \in 1..Len(s) /\ i + 1 # 1
  BY <1>1
<1>3. Ticks(s) => IsTick(Head(s)) /\ Ticks(u)
  BY <1>1, <1>2 DEF Ticks
<1>4. ASSUME NEW c, Carries(s, c), ~IsTick(Head(s)) PROVE c = Head(s) /\ Ticks(u)
  <2>1. PICK k \in 1..Len(s) : s[k] = c /\ \A i \in 1..Len(s) : i # k => IsTick(s[i])
    BY <1>4 DEF Carries
  <2>2. k = 1
    BY <1>1, <1>2, <1>4, <2>1
  <2> QED
    BY <1>1, <1>2, <2>1, <2>2 DEF Ticks
<1>5. ASSUME NEW c, Carries(s, c), ~IsTick(c), IsTick(Head(s)) PROVE Carries(u, c)
  <2>1. PICK k \in 1..Len(s) : s[k] = c /\ \A i \in 1..Len(s) : i # k => IsTick(s[i])
    BY <1>5 DEF Carries
  <2>2. k # 1
    BY <1>1, <1>5, <2>1
  <2>3. k - 1 \in 1..Len(u) /\ u[k - 1] = c
    <3>1. k - 1 \in 1..Len(u) /\ (k - 1) + 1 = k
      BY <1>1, <2>2
    <3> QED
      BY <1>1, <2>1, <3>1
  <2>4. \A i \in 1..Len(u) : i # k - 1 => IsTick(u[i])
    <3> TAKE i \in 1..Len(u)
    <3> HAVE i # k - 1
    <3>1. i + 1 \in 1..Len(s) /\ i + 1 # k
      BY <1>1
    <3> QED
      BY <1>1, <2>1, <3>1
  <2> QED
    BY <2>3, <2>4 DEF Carries
<1> QED
  BY <1>1, <1>3, <1>4, <1>5 DEF u

-----------------------------------------------------------------------------
(* Types. *)

Senders == {m.from : m \in Messages}

Event == [from : {NoName} \union Senders, data : Seq(Int)]

\* The types, as an induction needs them.
Typed ==
  /\ StartupTypeOK
  /\ arrived \in Seq(Messages)
  /\ taken \in Nat /\ taken <= Len(arrived) /\ taken <= tail
  /\ memory \in [0..Entries - 1 -> Seq(Int)]
  /\ \A a \in 0..Entries - 1 : Len(memory[a]) <= BufferSize
  /\ name \in {NoName} \union Senders
  /\ cq \in Seq(Completions) /\ batch \in Seq(Completions)
  /\ netEvents \in Seq(Event) /\ events \in Seq(Event)
  /\ status \in {"running", "draining", "stopped"}
  /\ pc \in {"peek", "next", "rearm", "drain"}
  /\ pc \in {"peek", "drain"} => batch = << >> /\ netEvents = << >>
  /\ pc = "rearm" => /\ stage = "serving" /\ protocol = "udp" /\ armed = Nothing
                     /\ fd = Opened /\ again = Opened
  /\ pc # "rearm" => again = NoFd

LEMMA DatagramConstants ==
  /\ Entries \in Nat \ {0} /\ BufferSize \in Nat \ {0}
  /\ \A m \in Messages : m.data \in Seq(Int)
BY StartupConstants, DatagramAssumption DEF DatagramAssumption

\* What a buffer holds of a datagram.
LEMMA SeenData ==
  ASSUME NEW m \in Messages
  PROVE  /\ Seen(m).from = m.from /\ Seen(m).data \in Seq(Int)
         /\ Len(Seen(m).data) \in Nat /\ Len(Seen(m).data) <= BufferSize
         /\ SubSeq(Seen(m).data, 1, Len(Seen(m).data)) = Seen(m).data
         /\ Seen(m) \in Event
<1> DEFINE k == IF Len(m.data) < BufferSize THEN Len(m.data) ELSE BufferSize
           got == SubSeq(m.data, 1, k)
<1>1. m.data \in Seq(Int) /\ Len(m.data) \in Nat /\ BufferSize \in Nat \ {0}
  BY DatagramConstants, LenProperties
<1>2. k \in Nat /\ k <= BufferSize /\ k <= Len(m.data)
  BY <1>1
<1>3. Seen(m) = [from |-> m.from, data |-> got]
  BY DEF Seen
<1> HIDE DEF k
<1>4. \A i \in 1..k : m.data[i] \in Int
  BY <1>1, <1>2, ElementOfSeq
<1>5. got \in Seq(Int) /\ Len(got) = IF 1 <= k THEN k - 1 + 1 ELSE 0
  BY <1>2, <1>4, SubSeqProperties
<1> HIDE DEF got
<1>6. Len(got) = k /\ SubSeq(got, 1, Len(got)) = got
  BY <1>2, <1>5, SubSeqFull
<1>7. m.from \in Senders
  BY DEF Senders
<1> QED
  BY <1>2, <1>3, <1>5, <1>6, <1>7 DEF Event

\* What the steps after the start-up leave of it alone.
Prepared ==
  /\ UNCHANGED <<config, stage, pool, fd, socket>>
  /\ armed' = armed \/ armed' = Nothing \/ (pc = "rearm" /\ armed' = Operation(RECVMSG, again))

LEMMA PreparedAfterwards == Typed /\ [Next]_vars => Prepared \/ Booting
<1> SUFFICES ASSUME Typed, [Next]_vars, ~Booting PROVE Prepared
  OBVIOUS
<1>1. CASE Serve
  BY <1>1 DEF Serve, PeekBatch, CopyDatagram, RecvFrom, OtherCompletion, ReturnNothing,
              ReturnEvents, Drain, At, startup, network, Prepared
<1>2. CASE RecvCompletes \/ RecvEmpty \/ RecvOutOfBuffers \/ RecvFails
             \/ Cancel \/ PrepareClose \/ Tick
           \/ \E m \in Messages : Arrive(m)
  BY <1>2 DEF RecvCompletes, RecvEmpty, RecvOutOfBuffers, RecvFails, Complete, Cancel,
              PrepareClose, Tick, Arrive,
              startup, Prepared
<1>3. CASE UNCHANGED vars
  BY <1>3 DEF vars, startup, Prepared
<1> QED
  BY <1>1, <1>2, <1>3 DEF Next

LEMMA PreparedKept == Achieved /\ Typed /\ Prepared => Achieved' /\ StartupTypeOK'
<1> SUFFICES ASSUME Achieved, Typed, Prepared PROVE Achieved' /\ StartupTypeOK'
  OBVIOUS
<1>1. UNCHANGED <<stage, protocol, oneMapping, bufRing, filled, tail, fd, socket>>
  BY DEF Prepared, config, pool
<1>2. Laid(filled)' = Laid(filled) /\ Laid(Entries)' = Laid(Entries)
  BY <1>1 DEF Laid
<1>3. armed' # Nothing =>
        /\ stage' = "serving" /\ fd' = Opened
        /\ \/ protocol' = "tcp" /\ armed' = Operation(ACCEPT, Opened)
           \/ protocol' = "udp" /\ armed' = Operation(RECVMSG, Opened)
  <2>1. CASE pc = "rearm" /\ armed' = Operation(RECVMSG, again)
    BY <1>1, <2>1 DEF Typed
  <2>2. CASE armed' = armed
    BY <1>1, <2>2 DEF Achieved
  <2> QED
    BY <2>1, <2>2 DEF Prepared
<1>4. Achieved'
  BY <1>1, <1>2, <1>3 DEF Achieved
<1>5. StartupTypeOK'
  BY <1>1 DEF Typed, StartupTypeOK
<1> QED
  BY <1>4, <1>5

LEMMA TypedInit == Init => Typed
<1> SUFFICES ASSUME Init PROVE Typed
  OBVIOUS
<1>1. \A T : << >> \in Seq(T) /\ Len(<< >>) = 0
  BY EmptySeq
<1>2. StartupTypeOK /\ tail = 0
  BY StartupTypesInit DEF Init, StartupInit
<1>3. /\ arrived = << >> /\ taken = 0 /\ cq = << >> /\ batch = << >>
      /\ netEvents = << >> /\ events = << >> /\ status = "running" /\ pc = "peek"
      /\ again = NoFd /\ name = NoName
      /\ memory = [a \in 0..Entries - 1 |-> << >>]
  BY DEF Init
<1>4. /\ memory \in [0..Entries - 1 -> Seq(Int)]
      /\ \A a \in 0..Entries - 1 : Len(memory[a]) <= BufferSize
  BY <1>1, <1>3, DatagramConstants
<1>5. taken \in Nat /\ taken <= Len(arrived) /\ taken <= tail
  BY <1>1, <1>2, <1>3
<1>6. /\ arrived \in Seq(Messages) /\ cq \in Seq(Completions) /\ batch \in Seq(Completions)
      /\ netEvents \in Seq(Event) /\ events \in Seq(Event)
  BY <1>1, <1>3
<1> QED
  BY <1>2, <1>3, <1>4, <1>5, <1>6 DEF Typed

\* A receive that is over, with or without a datagram.
LEMMA ReceiveOver ==
  ASSUME Achieved, Typed, NEW res \in Int, NEW bid \in {NoBuffer} \union 0..Entries - 1,
         Complete(res, bid)
  PROVE  /\ stage = "serving" /\ protocol = "udp" /\ fd = Opened /\ armed # Nothing
         /\ armed' = Nothing /\ pc # "rearm" /\ tail = Entries /\ Laid(Entries)
         /\ Completion(RecvData, res, bid) \in Completions
         /\ cq' = Append(cq, Completion(RecvData, res, bid)) /\ cq' \in Seq(Completions)
         /\ UNCHANGED <<config, stage, pool, fd, socket, arrived, cancelled, ticking, loop>>
<1>1. /\ armed # Nothing /\ armed.op = RECVMSG /\ armed' = Nothing
      /\ cq' = Append(cq, Completion(armed.data, res, bid))
      /\ UNCHANGED <<config, stage, pool, fd, socket, arrived, cancelled, ticking, loop>>
  BY DEF Complete, Receiving
<1>2. stage = "serving" /\ protocol = "udp" /\ armed.data = RecvData /\ fd = Opened
  BY <1>1 DEF Achieved, Operation, RecvData, ACCEPT, RECVMSG
<1>3. pc # "rearm" /\ tail = Entries /\ Laid(Entries)
  BY <1>1, <1>2 DEF Typed, Achieved
<1>4. Completion(RecvData, res, bid) \in Completions
  BY DEF Completion, Completions
<1>5. cq' \in Seq(Completions)
  BY <1>1, <1>2, <1>4, AppendProperties DEF Typed
<1> QED
  BY <1>1, <1>2, <1>3, <1>4, <1>5

\* What a datagram brings into its buffer.
LEMMA DatagramReceived ==
  ASSUME Achieved, Typed, RecvCompletes
  PROVE  LET m == arrived[taken + 1]
             c == Completion(RecvData, Len(Seen(m).data), taken)
         IN  /\ m \in Messages /\ taken + 1 <= Len(arrived) /\ taken \in 0..Entries - 1
             /\ memory' = [memory EXCEPT ![taken] = Seen(m).data] /\ name' = m.from
             /\ taken' = taken + 1
             /\ Complete(Len(Seen(m).data), taken) /\ c \in Completions
             /\ cq' = Append(cq, c) /\ cq' \in Seq(Completions)
<1> DEFINE m == arrived[taken + 1]
<1>1. /\ Receiving /\ taken < Len(arrived) /\ taken < tail /\ taken' = taken + 1
      /\ Len(arrived) \in Nat
  BY LenProperties DEF RecvCompletes, Typed
<1>2. m \in Messages /\ taken + 1 <= Len(arrived)
  <2>1. taken + 1 \in 1..Len(arrived)
    BY <1>1 DEF Typed
  <2> QED
    BY <2>1, ElementOfSeq DEF Typed
<1>3. tail = Entries /\ Laid(Entries)
  BY <1>1 DEF Receiving, Achieved
<1>4. taken \in 0..Entries - 1
  BY <1>1, <1>3, DatagramConstants DEF Typed
<1>5. bufRing[taken % Entries] = [at |-> taken, bid |-> taken]
  <2>1. taken % Entries = taken
    BY <1>4, DatagramConstants, ModSmall
  <2>2. taken < Entries
    BY <1>1, <1>3
  <2> QED
    BY <1>3, <1>4, <2>1, <2>2 DEF Laid
<1>6. /\ Complete(Len(Seen(m).data), taken)
      /\ memory' = [memory EXCEPT ![taken] = Seen(m).data] /\ name' = m.from
  <2> DEFINE got == SubSeq(m.data, 1, IF Len(m.data) < BufferSize THEN Len(m.data) ELSE BufferSize)
             entry == bufRing[taken % Entries]
  <2>1. Seen(m).data = got
    BY DEF Seen
  <2>2. entry.at = taken /\ entry.bid = taken
    BY <1>5
  <2>3. /\ Complete(Len(got), entry.bid) /\ memory' = [memory EXCEPT ![entry.at] = got]
        /\ name' = m.from
    BY DEF RecvCompletes
  <2> HIDE DEF got, entry
  <2> QED
    BY <2>1, <2>2, <2>3
<1>7. Len(Seen(m).data) \in Int /\ taken \in {NoBuffer} \union 0..Entries - 1
  BY <1>2, <1>4, SeenData
<1> HIDE DEF m
<1> QED
  BY <1>1, <1>2, <1>4, <1>6, <1>7, ReceiveOver DEF m

\* A completion of the clock's.
LEMMA TickPosted ==
  ASSUME Typed, Tick
  PROVE  LET t == Completion(Encode(TIMEOUT, 0), -ETIME, NoBuffer)
         IN  cq' = Append(cq, t) /\ t \in Completions /\ IsTick(t) /\ cq' \in Seq(Completions)
<1> DEFINE t == Completion(Encode(TIMEOUT, 0), -ETIME, NoBuffer)
<1>1. t \in Completions /\ IsTick(t)
  BY Kinds DEF Completion, Completions, IsTick, ETIME
<1>2. cq' = Append(cq, t)
  BY DEF Tick
<1> HIDE DEF t
<1>3. cq' \in Seq(Completions)
  BY <1>1, <1>2, AppendProperties DEF Typed
<1> QED
  BY <1>1, <1>2, <1>3 DEF t

\* Datagrams handed over to Serve or about to be.
Handed == Len(events) + Len(netEvents)

LEMMA Counts ==
  ASSUME Typed
  PROVE  /\ Len(events) \in Nat /\ Len(netEvents) \in Nat /\ Handed \in Nat
         /\ taken \in Nat /\ Len(arrived) \in Nat /\ taken <= Len(arrived)
BY LenProperties DEF Typed, Handed

LEMMA TypedKernel ==
  ASSUME Achieved, Typed,
         \/ \E m \in Messages : Arrive(m)
         \/ RecvCompletes \/ RecvEmpty \/ RecvOutOfBuffers \/ RecvFails
             \/ Cancel \/ PrepareClose \/ Tick,
         StartupTypeOK'
  PROVE  Typed'
<1>1. CASE \E m \in Messages : Arrive(m)
  <2>1. PICK m \in Messages : Arrive(m)
    BY <1>1
  <2>2. arrived' \in Seq(Messages) /\ Len(arrived') = Len(arrived) + 1 /\ Len(arrived) \in Nat
    BY <2>1, LenProperties, AppendProperties DEF Arrive, Typed
  <2>3. taken' \in Nat /\ taken' <= Len(arrived') /\ taken' <= tail'
    BY <2>1, <2>2 DEF Arrive, Typed, startup, pool
  <2> QED
    BY <2>1, <2>2, <2>3 DEF Arrive, Typed, startup, config, pool, loop
<1>2. CASE RecvCompletes
  <2> DEFINE d == Seen(arrived[taken + 1])
  <2>1. /\ arrived[taken + 1] \in Messages /\ taken + 1 <= Len(arrived) /\ taken \in 0..Entries - 1
        /\ memory' = [memory EXCEPT ![taken] = d.data] /\ name' = arrived[taken + 1].from
        /\ taken' = taken + 1 /\ Complete(Len(d.data), taken) /\ cq' \in Seq(Completions)
    BY <1>2, DatagramReceived
  <2>2. d.data \in Seq(Int) /\ Len(d.data) \in Nat /\ Len(d.data) <= BufferSize
    BY <2>1, SeenData
  <2> HIDE DEF d
  <2>3. /\ pc # "rearm" /\ tail = Entries
        /\ UNCHANGED <<config, stage, pool, fd, socket, arrived, cancelled, ticking, loop>>
    BY <2>1, <2>2, ReceiveOver
  <2>4. /\ memory' \in [0..Entries - 1 -> Seq(Int)]
        /\ \A a \in 0..Entries - 1 : Len(memory'[a]) <= BufferSize
    BY <2>1, <2>2 DEF Typed
  <2>5. taken' \in Nat /\ taken' <= Len(arrived') /\ taken' <= tail'
    BY <2>1, <2>3, DatagramConstants DEF pool
  <2>6. name' \in {NoName} \union Senders
    BY <2>1 DEF Senders
  <2> QED
    BY <2>1, <2>3, <2>4, <2>5, <2>6 DEF Typed, loop
<1>3. CASE RecvEmpty \/ RecvOutOfBuffers \/ RecvFails
  <2>1. PICK res \in Int : Complete(res, NoBuffer)
    BY <1>3 DEF RecvEmpty, RecvOutOfBuffers, RecvFails, ENOBUFS, EIO
  <2>2. /\ pc # "rearm" /\ cq' \in Seq(Completions)
        /\ UNCHANGED <<config, stage, pool, fd, socket, arrived, cancelled, ticking, loop>>
    BY <2>1, ReceiveOver
  <2>3. UNCHANGED <<taken, memory>> /\ name' \in {NoName} \union Senders
    <3>1. CASE RecvEmpty
      <4>1. taken + 1 \in 1..Len(arrived)
        BY <3>1, Counts DEF RecvEmpty
      <4>2. arrived[taken + 1] \in Messages
        BY <4>1, ElementOfSeq DEF Typed
      <4> QED
        BY <3>1, <4>2 DEF RecvEmpty, Senders
    <3>2. CASE RecvOutOfBuffers \/ RecvFails
      BY <3>2 DEF RecvOutOfBuffers, RecvFails, Typed
    <3> QED
      BY <1>3, <3>1, <3>2
  <2> QED
    BY <2>2, <2>3 DEF Typed, loop, pool
<1>4. CASE Cancel \/ PrepareClose
  BY <1>4 DEF Cancel, PrepareClose, Typed, loop, startup, config, pool
<1>5. CASE Tick
  <2>1. cq' \in Seq(Completions)
    BY <1>5, TickPosted
  <2> QED
    BY <1>5, <2>1 DEF Tick, Typed, loop, startup, config, pool
<1> QED
  BY <1>1, <1>2, <1>3, <1>4, <1>5

-----------------------------------------------------------------------------
(* Where a datagram is on its way to Serve. *)

\* The completion of the last receive, which Serve has not looked at: with it
\* the buffer and the sender's name are still those of the datagram.
Delivered(c) ==
  /\ c \in Completions /\ c.data = RecvData
  /\ stage = "serving" /\ protocol = "udp" /\ armed = Nothing /\ pc # "rearm"
  /\ \/ c.bid = NoBuffer /\ taken = Handed
     \/ /\ taken = Handed + 1 /\ c.bid = taken - 1
        /\ c.res = Len(Seen(arrived[taken]).data)
        /\ name = arrived[taken].from /\ memory[taken - 1] = Seen(arrived[taken]).data

\* At most one receive is over and not looked at.
Flow ==
  \/ Ticks(cq) /\ Ticks(batch) /\ taken = Handed
  \/ \E c : Delivered(c) /\ Carries(cq, c) /\ Ticks(batch)
  \/ \E c : Delivered(c) /\ Ticks(cq) /\ Carries(batch, c) /\ netEvents = << >>

\* What has been made of the datagrams so far.
Right ==
  /\ \A i \in 1..Len(events) : events[i] = Seen(arrived[i])
  /\ \A i \in 1..Len(netEvents) : netEvents[i] = Seen(arrived[Len(events) + i])

LEMMA FlowInit == Init => Flow /\ Right
<1> SUFFICES ASSUME Init PROVE Flow /\ Right
  OBVIOUS
<1>1. /\ taken = 0 /\ cq = << >> /\ batch = << >> /\ netEvents = << >> /\ events = << >>
      /\ Len(<< >>) = 0
  BY EmptySeq DEF Init
<1>2. Ticks(cq) /\ Ticks(batch) /\ taken = Handed
  BY <1>1, NoCompletions DEF Handed
<1>3. Right
  BY <1>1 DEF Right
<1> QED
  BY <1>2, <1>3 DEF Flow

\* A completion ReceiveData looks at that is not of the clock is the
\* last receive's.
LEMMA HeadDelivered ==
  ASSUME Typed, Flow, batch # << >>, Head(batch).data = RecvData
  PROVE  /\ Delivered(Head(batch)) /\ netEvents = << >>
         /\ Ticks(cq) /\ Ticks(Tail(batch)) /\ Tail(batch) \in Seq(Completions)
<1>1. ~IsTick(Head(batch))
  BY DEF IsTick
<1>2. Tail(batch) \in Seq(Completions) /\ ~Ticks(batch)
  BY <1>1, OneLess DEF Typed
<1>3. PICK c : Delivered(c) /\ Ticks(cq) /\ Carries(batch, c) /\ netEvents = << >>
  BY <1>2 DEF Flow
<1>4. c = Head(batch) /\ Ticks(Tail(batch))
  BY <1>1, <1>3, OneLess DEF Typed
<1> QED
  BY <1>2, <1>3, <1>4

\* CopyDatagram makes the event of the datagram that was received last.
LEMMA CopyTakes ==
  ASSUME Achieved, Typed, Flow, CopyDatagram
  PROVE  /\ stage = "serving" /\ protocol = "udp" /\ armed = Nothing /\ fd = Opened
         /\ netEvents = << >> /\ taken = Len(events) + 1 /\ taken \in 1..Len(arrived)
         /\ arrived[taken] \in Messages
         /\ netEvents' = Append(netEvents, Seen(arrived[taken])) /\ netEvents' \in Seq(Event)
         /\ again' = Opened /\ pc' = "rearm" /\ Ticks(cq)
         /\ batch' = Tail(batch) /\ Ticks(batch') /\ batch' \in Seq(Completions)
         /\ UNCHANGED <<startup, network, status, events>>
<1> DEFINE c == Head(batch)
<1>1. /\ batch # << >> /\ Kind = RECVMSG /\ c.bid # NoBuffer
      /\ netEvents' = Append(netEvents,
           [from |-> name, data |-> SubSeq(memory[c.bid], 1, c.res)])
      /\ again' = Decode(c.data).fd /\ pc' = "rearm" /\ batch' = Tail(batch)
      /\ UNCHANGED <<startup, network, status, events>>
  BY DEF CopyDatagram, GetRingBuffer
<1>2. c \in Completions
  BY <1>1, OneLess DEF Typed
<1>3. c.data = RecvData
  BY <1>1, <1>2, KindOf DEF Kind
<1>4. /\ Delivered(c) /\ netEvents = << >> /\ Ticks(cq) /\ Ticks(Tail(batch))
      /\ Tail(batch) \in Seq(Completions)
  BY <1>1, <1>3, HeadDelivered
<1> HIDE DEF c
<1>5. /\ taken = Handed + 1 /\ c.bid = taken - 1 /\ c.res = Len(Seen(arrived[taken]).data)
      /\ name = arrived[taken].from /\ memory[taken - 1] = Seen(arrived[taken]).data
      /\ stage = "serving" /\ protocol = "udp" /\ armed = Nothing
  BY <1>1, <1>4 DEF Delivered
<1>6. fd = Opened
  BY <1>5 DEF Achieved
<1>7. taken = Len(events) + 1 /\ taken \in 1..Len(arrived)
  BY <1>4, <1>5, Counts, EmptySeq DEF Handed
<1>8. arrived[taken] \in Messages
  BY <1>7, ElementOfSeq DEF Typed
<1> DEFINE e == Seen(arrived[taken])
<1>9. /\ e.from = name /\ SubSeq(memory[c.bid], 1, c.res) = e.data /\ e \in Event
      /\ e = [from |-> e.from, data |-> e.data]
  <2>1. /\ e.from = arrived[taken].from /\ SubSeq(e.data, 1, Len(e.data)) = e.data /\ e \in Event
    BY <1>8, SeenData
  <2>2. e = [from |-> e.from, data |-> e.data]
    BY DEF Seen
  <2> HIDE DEF e
  <2>3. memory[c.bid] = e.data /\ c.res = Len(e.data)
    BY <1>5 DEF e
  <2> QED
    BY <1>5, <2>1, <2>2, <2>3
<1> HIDE DEF e
<1>10. netEvents' = Append(netEvents, e) /\ netEvents' \in Seq(Event)
  <2>1. netEvents' = Append(netEvents, e)
    BY <1>1, <1>9
  <2>2. netEvents \in Seq(Event) /\ e \in Event
    BY <1>9 DEF Typed
  <2> QED
    BY <2>1, <2>2, AppendProperties
<1>11. again' = Opened
  BY <1>1, <1>3, Kinds
<1> QED
  BY <1>1, <1>4, <1>5, <1>6, <1>7, <1>8, <1>10, <1>11 DEF e

LEMMA TypedServe ==
  ASSUME Achieved, Typed, Flow, Serve, StartupTypeOK'
  PROVE  Typed'
<1>0. ASSUME batch # << >> PROVE Tail(batch) \in Seq(Completions)
  BY <1>0, OneLess DEF Typed
<1>9. << >> \in Seq(Completions) /\ << >> \in Seq(Event)
  BY EmptySeq
<1>1. CASE PeekBatch
  <2>1. cq' = << >> /\ batch' = cq /\ (cq = << >> => pc' = "drain") /\ netEvents' = << >>
    BY <1>1 DEF PeekBatch, At, Typed
  <2>2. (pc' = "drain" /\ batch' = << >>) \/ pc' = "next"
    BY <1>1 DEF PeekBatch
  <2>3. again' = again /\ again = NoFd
    BY <1>1 DEF PeekBatch, At, Typed
  <2>4. /\ UNCHANGED <<startup, arrived, taken, memory, name, status, events>>
        /\ cq' \in Seq(Completions) /\ batch' \in Seq(Completions) /\ netEvents' \in Seq(Event)
    BY <1>1, <1>9, <2>1 DEF PeekBatch, Typed
  <2> QED
    BY <2>1, <2>2, <2>3, <2>4 DEF Typed, startup, config, pool
<1>2. CASE CopyDatagram
  BY <1>2, CopyTakes DEF Typed, startup, config, pool, network
<1>3. CASE RecvFrom
  BY <1>3 DEF RecvFrom, At, Typed, startup, config, pool, network
<1>4. CASE OtherCompletion
  BY <1>0, <1>4 DEF OtherCompletion, At, Typed, startup, config, pool, network
<1>5. CASE ReturnNothing
  BY <1>5, <1>9 DEF ReturnNothing, At, Typed, startup, config, pool, network
<1>6. CASE ReturnEvents
  <2>1. events' \in Seq(Event) /\ netEvents' \in Seq(Event)
    BY <1>6, <1>9, ConcatProperties DEF ReturnEvents, Typed
  <2> QED
    BY <1>6, <2>1 DEF ReturnEvents, At, Typed, startup, config, pool, network
<1>7. CASE Drain
  BY <1>7 DEF Drain, At, Typed, startup, config, pool, network
<1> QED
  BY <1>1, <1>2, <1>3, <1>4, <1>5, <1>6, <1>7 DEF Serve

LEMMA TypedBooting == Achieved /\ Typed /\ Booting => Typed'
<1> SUFFICES ASSUME Achieved, Typed, Booting PROVE Typed'
  OBVIOUS
<1>1. Boot /\ UNCHANGED <<network, loop>>
  BY DEF Booting
<1>2. StartupTypeOK'
  BY <1>1, StartupTypesKept DEF Typed
<1>3. stage # "serving" /\ pc # "rearm"
  BY <1>1 DEF Boot, CreateUring, RegisterRingBuffer, FillEntry, AdvancePbufRing,
              Listen, CreateSocket, SetSockOpt, Bind, ListenCall, Arm, Typed
<1>4. tail' = tail \/ tail' = tail + Entries
  BY <1>1 DEF Boot, CreateUring, RegisterRingBuffer, FillEntry, AdvancePbufRing,
              Listen, CreateSocket, SetSockOpt, Bind, ListenCall, Arm, pool
<1>5. taken' \in Nat /\ taken' <= Len(arrived') /\ taken' <= tail'
  <2>1. taken \in Nat /\ taken <= tail /\ taken <= Len(arrived)
    BY DEF Typed
  <2>3. tail \in Nat /\ Entries \in Nat
    <3>1. tail = 0 \/ tail = Entries
      BY DEF Achieved
    <3> QED
      BY <3>1, DatagramConstants
  <2>2. taken' = taken /\ arrived' = arrived
    BY <1>1 DEF network
  <2> QED
    BY <1>4, <2>1, <2>2, <2>3
<1> QED
  BY <1>1, <1>2, <1>3, <1>5 DEF Typed, network, loop

LEMMA TypedKept == Achieved /\ Typed /\ Flow /\ [Next]_vars => Achieved' /\ Typed'
<1> SUFFICES ASSUME Achieved, Typed, Flow, [Next]_vars PROVE Achieved' /\ Typed'
  OBVIOUS
<1>1. CASE Booting
  BY <1>1, TypedBooting, AchievedKept DEF Booting
<1>2. CASE ~Booting
  <2>1. Achieved' /\ StartupTypeOK'
    BY <1>2, PreparedAfterwards, PreparedKept
  <2>2. CASE Serve
    BY <2>1, <2>2, TypedServe
  <2>3. CASE \/ \E m \in Messages : Arrive(m)
             \/ RecvCompletes \/ RecvEmpty \/ RecvOutOfBuffers \/ RecvFails
             \/ Cancel \/ PrepareClose \/ Tick
    BY <2>1, <2>3, TypedKernel
  <2>4. CASE UNCHANGED vars
    BY <2>1, <2>4 DEF vars, startup, config, pool, network, loop, Typed
  <2> QED
    BY <1>2, <2>1, <2>2, <2>3, <2>4 DEF Next
<1> QED
  BY <1>1, <1>2

\* A delivery is untouched by what neither looks at it nor receives.
LEMMA DeliveryStays ==
  ASSUME Typed, UNCHANGED <<stage, protocol, armed, taken, name, memory>>,
         pc # "rearm" => pc' # "rearm", Handed' = Handed,
         taken # 0 => arrived'[taken] = arrived[taken],
         NEW c, Delivered(c)
  PROVE  Delivered(c)'
<1>1. Handed \in Nat /\ taken \in Nat
  BY Counts
<1>2. taken = Handed + 1 => arrived'[taken] = arrived[taken]
  BY <1>1
<1> QED
  BY <1>2 DEF Delivered

\* What changes neither the completions nor the datagrams.
LEMMA FlowStays ==
  ASSUME Typed, Flow, UNCHANGED <<stage, protocol, armed, taken, name, memory, cq, batch>>,
         pc # "rearm" => pc' # "rearm", UNCHANGED <<netEvents, events>>,
         taken # 0 => arrived'[taken] = arrived[taken]
  PROVE  Flow'
<1>1. Handed' = Handed
  BY DEF Handed
<1>2. Ticks(cq') = Ticks(cq) /\ Ticks(batch') = Ticks(batch)
  OBVIOUS
<1>3. \A c : Delivered(c) => Delivered(c)'
  BY <1>1, DeliveryStays
<1>4. CASE Ticks(cq) /\ Ticks(batch) /\ taken = Handed
  BY <1>1, <1>4 DEF Flow
<1>5. CASE \E c : Delivered(c) /\ Carries(cq, c) /\ Ticks(batch)
  BY <1>3, <1>5 DEF Flow
<1>6. CASE \E c : Delivered(c) /\ Ticks(cq) /\ Carries(batch, c) /\ netEvents = << >>
  BY <1>3, <1>6 DEF Flow
<1> QED
  BY <1>4, <1>5, <1>6 DEF Flow

\* The clock ticks.
LEMMA FlowTick ==
  ASSUME Typed, Flow, Tick
  PROVE  Flow'
<1>0. /\ UNCHANGED <<stage, protocol, armed, taken, name, memory, batch>>
      /\ UNCHANGED <<pc, netEvents, events, arrived>>
  BY DEF Tick, startup, config, loop
<1>1. Handed' = Handed
  BY <1>0 DEF Handed
<1>2. PICK t : cq' = Append(cq, t) /\ t \in Completions /\ IsTick(t)
  BY TickPosted
<1>3. \A c : Delivered(c) => Delivered(c)'
  BY <1>0, <1>1, DeliveryStays
<1>4. (Ticks(cq) => Ticks(cq')) /\ \A c : Carries(cq, c) => Carries(cq', c)
  BY <1>2, OneMore DEF Typed
<1>5. CASE Ticks(cq) /\ Ticks(batch) /\ taken = Handed
  BY <1>0, <1>1, <1>4, <1>5 DEF Flow
<1>6. CASE \E c : Delivered(c) /\ Carries(cq, c) /\ Ticks(batch)
  BY <1>0, <1>3, <1>4, <1>6 DEF Flow
<1>7. CASE \E c : Delivered(c) /\ Ticks(cq) /\ Carries(batch, c) /\ netEvents = << >>
  BY <1>0, <1>3, <1>4, <1>7 DEF Flow
<1> QED
  BY <1>5, <1>6, <1>7 DEF Flow

\* With a receive outstanding, none is over.
LEMMA FlowOutstanding ==
  ASSUME Flow, armed # Nothing
  PROVE  Ticks(cq) /\ Ticks(batch) /\ taken = Handed
BY DEF Flow, Delivered

LEMMA FlowKernel ==
  ASSUME Achieved, Typed, Flow,
         \/ \E m \in Messages : Arrive(m)
         \/ RecvCompletes \/ RecvEmpty \/ RecvOutOfBuffers \/ RecvFails
             \/ Cancel \/ PrepareClose \/ Tick
  PROVE  Flow'
<1>1. CASE \E m \in Messages : Arrive(m)
  <2>1. PICK m \in Messages : Arrive(m)
    BY <1>1
  <2>2. taken # 0 => arrived'[taken] = arrived[taken]
    <3>1. taken # 0 => taken \in 1..Len(arrived)
      BY Counts
    <3> QED
      BY <2>1, <3>1, AppendProperties DEF Arrive, Typed
  <2>3. /\ UNCHANGED <<stage, protocol, armed, taken, name, memory, cq, batch>>
        /\ UNCHANGED <<netEvents, events, pc>>
    BY <2>1 DEF Arrive, startup, config, loop
  <2> QED
    BY <2>2, <2>3, FlowStays
<1>2. CASE RecvCompletes
  <2> DEFINE m == arrived[taken + 1]
             c == Completion(RecvData, Len(Seen(m).data), taken)
  <2>1. /\ m \in Messages /\ taken \in 0..Entries - 1
        /\ memory' = [memory EXCEPT ![taken] = Seen(m).data] /\ name' = m.from
        /\ taken' = taken + 1 /\ Complete(Len(Seen(m).data), taken)
        /\ c \in Completions /\ cq' = Append(cq, c)
    BY <1>2, DatagramReceived
  <2>2. Len(Seen(m).data) \in Int
    BY <2>1, SeenData
  <2>3. /\ stage = "serving" /\ protocol = "udp" /\ armed # Nothing /\ armed' = Nothing
        /\ pc # "rearm" /\ UNCHANGED <<config, stage, pool, fd, socket, arrived, cancelled, ticking, loop>>
    <3> HIDE DEF m, c
    <3>1. taken \in {NoBuffer} \union 0..Entries - 1
      BY <2>1
    <3> QED
      BY <2>1, <2>2, <3>1, ReceiveOver
  <2>4. Ticks(cq) /\ Ticks(batch) /\ taken = Handed
    BY <2>3, FlowOutstanding
  <2>5. Carries(cq', c) /\ Ticks(batch')
    <3> HIDE DEF m, c
    <3>1. cq \in Seq(Completions) /\ batch' = batch
      BY <2>3 DEF Typed, loop
    <3>2. Carries(Append(cq, c), c)
      BY <2>1, <2>4, <3>1, OneMore
    <3> QED
      BY <2>1, <2>4, <3>1, <3>2
  <2>6. c.data = RecvData /\ c.bid = taken /\ c.res = Len(Seen(m).data)
    BY DEF Completion
  <2>7. taken' - 1 = taken /\ taken' = Handed' + 1 /\ arrived'[taken'] = m /\ taken \in Nat
    BY <2>1, <2>3, <2>4, Counts DEF Handed, loop
  <2>8. memory'[taken] = Seen(m).data
    BY <2>1 DEF Typed
  <2>9. /\ stage' = "serving" /\ protocol' = "udp" /\ pc' # "rearm"
    BY <2>3 DEF config, loop
  <2> HIDE DEF m
  <2>10. PICK d : d = c
    OBVIOUS
  <2> HIDE DEF c
  <2>11. Delivered(d)'
    BY <2>1, <2>3, <2>6, <2>7, <2>8, <2>9, <2>10 DEF Delivered
  <2> QED
    BY <2>5, <2>10, <2>11 DEF Flow
<1>3. CASE RecvEmpty \/ RecvOutOfBuffers \/ RecvFails
  <2>1. PICK res \in Int : Complete(res, NoBuffer)
    BY <1>3 DEF RecvEmpty, RecvOutOfBuffers, RecvFails, ENOBUFS, EIO
  <2>2. PICK c : c = Completion(RecvData, res, NoBuffer)
    OBVIOUS
  <2>3. /\ stage = "serving" /\ protocol = "udp" /\ armed # Nothing /\ armed' = Nothing
        /\ pc # "rearm" /\ UNCHANGED <<config, stage, pool, fd, socket, arrived, cancelled, ticking, loop>>
        /\ c \in Completions /\ cq' = Append(cq, c)
    BY <2>1, <2>2, ReceiveOver
  <2>4. Ticks(cq) /\ Ticks(batch) /\ taken = Handed
    BY <2>3, FlowOutstanding
  <2>5. Carries(cq', c) /\ Ticks(batch')
    BY <2>3, <2>4, OneMore DEF Typed, loop
  <2>6. c.data = RecvData /\ c.bid = NoBuffer
    BY <2>2 DEF Completion
  <2>7. taken' = Handed' /\ stage' = "serving" /\ protocol' = "udp" /\ pc' # "rearm"
    BY <1>3, <2>3, <2>4 DEF RecvEmpty, RecvOutOfBuffers, RecvFails, Handed, loop, config
  <2>8. Delivered(c)'
    BY <2>3, <2>6, <2>7 DEF Delivered
  <2> QED
    BY <2>5, <2>8 DEF Flow
<1>4. CASE Cancel \/ PrepareClose
  BY <1>4, FlowStays DEF Cancel, PrepareClose, startup, config, loop
<1>5. CASE Tick
  BY <1>5, FlowTick
<1> QED
  BY <1>1, <1>2, <1>3, <1>4, <1>5

LEMMA FlowServe ==
  ASSUME Achieved, Typed, Flow, Serve
  PROVE  Flow'
<1>1. CASE PeekBatch
  <2>1. /\ batch' = cq /\ cq' = << >> /\ netEvents = << >> /\ batch = << >>
        /\ UNCHANGED <<stage, protocol, armed, taken, name, memory, arrived, netEvents, events>>
        /\ pc' # "rearm"
    BY <1>1 DEF PeekBatch, At, Typed, startup, config
  <2>2. Handed' = Handed
    BY <2>1 DEF Handed
  <2>3. \A c : Delivered(c) => Delivered(c)'
    BY <2>1, <2>2, DeliveryStays
  <2>4. Ticks(cq') /\ ~\E c : Carries(batch, c)
    BY <2>1, NoCompletions
  <2>5. CASE Ticks(cq) /\ Ticks(batch) /\ taken = Handed
    BY <2>1, <2>2, <2>4, <2>5 DEF Flow
  <2>6. CASE \E c : Delivered(c) /\ Carries(cq, c) /\ Ticks(batch)
    BY <2>1, <2>3, <2>4, <2>6 DEF Flow
  <2> QED
    BY <2>4, <2>5, <2>6 DEF Flow
<1>2. CASE CopyDatagram
  <2>1. /\ netEvents = << >> /\ taken = Len(events) + 1 /\ Ticks(cq) /\ Ticks(batch')
        /\ netEvents' = Append(netEvents, Seen(arrived[taken]))
        /\ arrived[taken] \in Messages /\ UNCHANGED <<network, events>>
    BY <1>2, CopyTakes
  <2>2. Len(netEvents') = 1
    BY <2>1
  <2>3. taken' = Handed' /\ Ticks(cq')
    BY <2>1, <2>2 DEF Handed, network
  <2> QED
    BY <2>1, <2>3 DEF Flow
<1>3. CASE RecvFrom
  <2>1. pc = "rearm" /\ UNCHANGED <<taken, cq, batch, netEvents, events>>
    BY <1>3 DEF RecvFrom, At
  <2>2. Ticks(cq) /\ Ticks(batch) /\ taken = Handed
    BY <2>1 DEF Flow, Delivered
  <2> QED
    BY <2>1, <2>2 DEF Flow, Handed
<1>4. CASE OtherCompletion
  <2>1. /\ batch # << >> /\ Kind \in {TIMEOUT, CANCEL} /\ batch' = Tail(batch)
        /\ UNCHANGED <<stage, protocol, armed, taken, name, memory, cq, arrived, netEvents, events, pc>>
    BY <1>4 DEF OtherCompletion, startup, config, network
  <2>2. Handed' = Handed
    BY <2>1 DEF Handed
  <2>3. \A c : Delivered(c) => Delivered(c)'
    BY <2>1, <2>2, DeliveryStays
  <2>4. Head(batch) \in Completions /\ Head(batch).data # RecvData
    BY <2>1, OneLess, KindOf DEF Kind, Typed
  <2>5. CASE Ticks(cq) /\ Ticks(batch) /\ taken = Handed
    BY <2>1, <2>2, <2>5, OneLess DEF Flow, Typed
  <2>6. CASE \E c : Delivered(c) /\ Carries(cq, c) /\ Ticks(batch)
    BY <2>1, <2>3, <2>6, OneLess DEF Flow, Typed
  <2>7. CASE \E c : Delivered(c) /\ Ticks(cq) /\ Carries(batch, c) /\ netEvents = << >>
    <3>1. PICK c : Delivered(c) /\ Ticks(cq) /\ Carries(batch, c) /\ netEvents = << >>
      BY <2>7
    <3>2. ~IsTick(c)
      BY <3>1 DEF Delivered, IsTick
    <3>3. IsTick(Head(batch))
      <4>1. PICK k \in 1..Len(batch) : /\ batch[k] = c
                                       /\ \A i \in 1..Len(batch) : i # k => IsTick(batch[i])
        BY <3>1 DEF Carries
      <4>2. Head(batch) = batch[1] /\ 1 \in 1..Len(batch)
        BY <2>1, LenProperties, EmptySeq DEF Typed
      <4>3. k # 1
        BY <2>4, <3>1, <4>1, <4>2 DEF Delivered
      <4> QED
        BY <4>1, <4>2, <4>3
    <3>4. Carries(Tail(batch), c)
      BY <2>1, <3>1, <3>2, <3>3, OneLess DEF Typed
    <3> QED
      BY <2>1, <2>3, <3>1, <3>4 DEF Flow
  <2> QED
    BY <2>5, <2>6, <2>7 DEF Flow
<1>5. CASE ReturnNothing
  <2>1. /\ batch # << >> /\ Kind \notin {TIMEOUT, CANCEL}
        /\ Kind = RECVMSG => Head(batch).bid = NoBuffer
        /\ batch' = << >> /\ netEvents' = << >> /\ UNCHANGED <<cq, taken, events>>
    BY <1>5 DEF ReturnNothing, network
  <2>2. Head(batch) \in Completions /\ Head(batch).data = RecvData /\ Head(batch).bid = NoBuffer
    BY <2>1, OneLess, KindOf DEF Kind, Typed
  <2>3. Delivered(Head(batch)) /\ netEvents = << >> /\ Ticks(cq)
    BY <2>1, <2>2, HeadDelivered
  <2>4. taken = Handed
    BY <2>2, <2>3, Counts DEF Delivered, NoBuffer
  <2> QED
    BY <2>1, <2>3, <2>4, NoCompletions DEF Flow, Handed
<1>6. CASE ReturnEvents
  <2>1. /\ batch = << >> /\ events' = events \o netEvents /\ netEvents' = << >> /\ pc' = "drain"
        /\ UNCHANGED <<stage, protocol, armed, taken, name, memory, arrived, cq, batch>>
    BY <1>6 DEF ReturnEvents, startup, config, network
  <2>2. Handed' = Handed
    <3>1. Len(events \o netEvents) = Len(events) + Len(netEvents) /\ Len(<< >>) = 0
      BY ConcatProperties, EmptySeq DEF Typed
    <3> QED
      BY <2>1, <3>1, Counts DEF Handed
  <2>3. \A c : Delivered(c) => Delivered(c)'
    BY <2>1, <2>2, DeliveryStays
  <2>4. Ticks(batch') /\ ~\E c : Carries(batch, c)
    BY <2>1, NoCompletions
  <2>5. CASE Ticks(cq) /\ Ticks(batch) /\ taken = Handed
    BY <2>1, <2>2, <2>5 DEF Flow
  <2>6. CASE \E c : Delivered(c) /\ Carries(cq, c) /\ Ticks(batch)
    BY <2>1, <2>3, <2>6 DEF Flow
  <2> QED
    BY <2>4, <2>5, <2>6 DEF Flow
<1>7. CASE Drain
  BY <1>7, FlowStays DEF Drain, startup, config, network
<1> QED
  BY <1>1, <1>2, <1>3, <1>4, <1>5, <1>6, <1>7 DEF Serve

LEMMA FlowKept == Achieved /\ Typed /\ Flow /\ [Next]_vars => Flow'
<1> SUFFICES ASSUME Achieved, Typed, Flow, [Next]_vars PROVE Flow'
  OBVIOUS
<1>1. CASE Booting
  <2>1. stage # "serving" /\ UNCHANGED <<network, loop>>
    BY <1>1 DEF Booting, Boot, CreateUring, RegisterRingBuffer, FillEntry, AdvancePbufRing,
                Listen, CreateSocket, SetSockOpt, Bind, ListenCall, Arm
  <2>2. Ticks(cq) /\ Ticks(batch) /\ taken = Handed
    BY <2>1 DEF Flow, Delivered
  <2> QED
    BY <2>1, <2>2 DEF Flow, Handed, network, loop
<1>2. CASE UNCHANGED vars
  <2>1. /\ UNCHANGED <<stage, protocol, armed, taken, name, memory, cq, batch>>
        /\ UNCHANGED <<netEvents, events, arrived, pc>>
    BY <1>2 DEF vars, startup, config, network, loop
  <2> QED
    BY <2>1, FlowStays
<1> QED
  BY <1>1, <1>2, FlowServe, FlowKernel DEF Next

-----------------------------------------------------------------------------
(* The events. *)

LEMMA RightKept == Achieved /\ Typed /\ Flow /\ Right /\ [Next]_vars => Right'
<1> SUFFICES ASSUME Achieved, Typed, Flow, Right, [Next]_vars PROVE Right'
  OBVIOUS
<1>1. /\ Len(events) \in Nat /\ Len(netEvents) \in Nat /\ Len(arrived) \in Nat
      /\ Len(events) + Len(netEvents) <= Len(arrived)
  BY Counts DEF Flow, Delivered, Handed
<1>2. CASE CopyDatagram
  <2>1. /\ netEvents = << >> /\ taken = Len(events) + 1 /\ UNCHANGED <<network, events>>
        /\ netEvents' = Append(netEvents, Seen(arrived[taken]))
    BY <1>2, CopyTakes
  <2>2. Len(netEvents') = 1 /\ netEvents'[1] = Seen(arrived[Len(events) + 1])
    BY <2>1
  <2>3. arrived' = arrived /\ events' = events
    BY <2>1 DEF network
  <2>4. \A i \in 1..Len(netEvents') : netEvents'[i] = Seen(arrived'[Len(events') + i])
    BY <2>2, <2>3
  <2> QED
    BY <2>3, <2>4 DEF Right, Seen
<1>3. CASE ReturnNothing
  <2>1. netEvents' = << >> /\ UNCHANGED <<arrived, events>>
    BY <1>3 DEF ReturnNothing, network
  <2> QED
    BY <2>1 DEF Right, Seen
<1>4. CASE ReturnEvents
  <2>1. events' = events \o netEvents /\ netEvents' = << >> /\ arrived' = arrived
    BY <1>4 DEF ReturnEvents, network
  <2>2. /\ Len(events') = Len(events) + Len(netEvents)
        /\ \A i \in 1..Len(events) + Len(netEvents) :
             events'[i] = IF i <= Len(events) THEN events[i] ELSE netEvents[i - Len(events)]
    BY <2>1, ConcatProperties DEF Typed
  <2>3. ASSUME NEW i \in 1..Len(events') PROVE events'[i] = Seen(arrived[i])
    <3>1. CASE i <= Len(events)
      BY <1>1, <2>2, <3>1 DEF Right
    <3>2. CASE ~(i <= Len(events))
      <4>1. i - Len(events) \in 1..Len(netEvents) /\ Len(events) + (i - Len(events)) = i
        BY <1>1, <2>2, <3>2
      <4>2. events'[i] = netEvents[i - Len(events)]
        BY <1>1, <2>2, <3>2
      <4> QED
        BY <4>1, <4>2 DEF Right
    <3> QED
      BY <3>1, <3>2
  <2>4. \A i \in 1..Len(events') : events'[i] = Seen(arrived'[i])
    BY <2>1, <2>3
  <2>5. \A i \in 1..Len(netEvents') : netEvents'[i] = Seen(arrived'[Len(events') + i])
    BY <2>1
  <2> QED
    BY <2>4, <2>5 DEF Right
<1>5. CASE UNCHANGED <<events, netEvents>> /\ \A i \in 1..Len(arrived) : arrived'[i] = arrived[i]
  <2>1. \A i \in 1..Len(events) : arrived'[i] = arrived[i]
    BY <1>1, <1>5
  <2>2. \A i \in 1..Len(netEvents) : arrived'[Len(events) + i] = arrived[Len(events) + i]
    BY <1>1, <1>5
  <2> QED
    BY <1>5, <2>1, <2>2 DEF Right, Seen
<1>6. ASSUME ~CopyDatagram, ~ReturnNothing, ~ReturnEvents
      PROVE  UNCHANGED <<events, netEvents>> /\ \A i \in 1..Len(arrived) : arrived'[i] = arrived[i]
  <2>1. CASE \E m \in Messages : Arrive(m)
    <3>1. PICK m \in Messages : Arrive(m)
      BY <2>1
    <3> QED
      BY <3>1, AppendProperties DEF Arrive, loop, Typed
  <2>2. CASE Serve
    BY <1>6, <2>2 DEF Serve, PeekBatch, RecvFrom, OtherCompletion, Drain,
                      network, loop, At, Typed
  <2>3. CASE RecvCompletes \/ RecvEmpty \/ RecvOutOfBuffers \/ RecvFails
             \/ Cancel \/ PrepareClose \/ Tick \/ Booting
    BY <2>3 DEF RecvCompletes, RecvEmpty, RecvOutOfBuffers, RecvFails, Complete, Cancel,
              PrepareClose, Tick,
                Booting, network, loop
  <2>4. CASE UNCHANGED vars
    BY <2>4 DEF vars, network, loop
  <2> QED
    BY <2>1, <2>2, <2>3, <2>4 DEF Next
<1> QED
  BY <1>2, <1>3, <1>4, <1>5, <1>6

LEMMA DatagramInvariant == Spec => [](Achieved /\ Typed /\ Flow /\ Right)
<1>1. Init => Achieved /\ Typed /\ Flow /\ Right
  BY AchievedInductive, TypedInit, FlowInit DEF Init
<1>2. Achieved /\ Typed /\ Flow /\ Right /\ [Next]_vars => (Achieved /\ Typed /\ Flow /\ Right)'
  BY TypedKept, FlowKept, RightKept
<1> QED
  BY <1>1, <1>2, PTL DEF Spec

LEMMA FilledOf ==
  ASSUME NEW s \in Seq(Completions)
  PROVE  /\ Ticks(s) => Cardinality(Filled(s)) = 0
         /\ \A c : Carries(s, c) =>
              Cardinality(Filled(s)) = IF c.bid = NoBuffer THEN 0 ELSE 1
<1>1. Ticks(s) => Filled(s) = {}
  BY DEF Ticks, IsTick, Filled
<1>2. ASSUME NEW c, Carries(s, c)
      PROVE  Cardinality(Filled(s)) = IF c.bid = NoBuffer THEN 0 ELSE 1
  <2>1. PICK k \in 1..Len(s) : s[k] = c /\ \A i \in 1..Len(s) : i # k => IsTick(s[i])
    BY <1>2 DEF Carries
  <2>2. Filled(s) = IF c.bid = NoBuffer THEN {} ELSE {k}
    BY <2>1 DEF IsTick, Filled
  <2> QED
    BY <2>2, FS_EmptySet, FS_Singleton
<1> QED
  BY <1>1, <1>2, FS_EmptySet

\* Buffers, completions and the start-up keep their types, and no buffer holds
\* more than its length, for any number of buffers and datagrams of any length.
THEOREM DatagramTypes == Spec => []TypeOK
<1>1. Achieved /\ Typed /\ Flow /\ Right => TypeOK
  <2> SUFFICES ASSUME Achieved, Typed PROVE TypeOK
    OBVIOUS
  <2>1. taken \in 0..Len(arrived) /\ taken <= Entries
    <3>1. tail = 0 \/ tail = Entries
      BY DEF Achieved
    <3> QED
      BY <3>1, Counts, DatagramConstants DEF Typed
  <2>2. \A c \in ToSet(cq \o batch) : c.bid \in {NoBuffer} \union 0..Entries - 1
    <3>1. cq \o batch \in Seq(Completions)
      BY ConcatProperties DEF Typed
    <3>2. ToSet(cq \o batch) \subseteq Completions
      BY <3>1, LenProperties, ElementOfSeq DEF ToSet
    <3> QED
      BY <3>2 DEF Completions
  <2> QED
    BY <2>1, <2>2 DEF Typed, TypeOK, Senders
<1> QED
  BY <1>1, DatagramInvariant, PTL

\* The events are the datagrams, each with its own sender and bytes, and none is
\* lost with a batch ReceiveData gives up: see EventsAreDatagrams.
THEOREM DatagramsArrive == Spec => []EventsAreDatagrams
<1>1. Achieved /\ Typed /\ Flow /\ Right => EventsAreDatagrams
  <2> SUFFICES ASSUME Typed, Flow, Right PROVE EventsAreDatagrams
    OBVIOUS
  <2> DEFINE out == events \o netEvents
  <2>1. /\ Len(out) = Handed
        /\ \A i \in 1..Len(events) + Len(netEvents) :
             out[i] = IF i <= Len(events) THEN events[i] ELSE netEvents[i - Len(events)]
    BY ConcatProperties DEF Typed, Handed
  <2> HIDE DEF out
  <2>2. ASSUME NEW i \in 1..Len(out) PROVE out[i] = Seen(arrived[i])
    <3>1. /\ Len(events) \in Nat /\ Len(netEvents) \in Nat
          /\ i \in 1..Len(events) + Len(netEvents)
      BY <2>1, Counts DEF Handed
    <3>2. CASE i <= Len(events)
      BY <2>1, <3>1, <3>2 DEF Right
    <3>3. CASE ~(i <= Len(events))
      <4>1. i - Len(events) \in 1..Len(netEvents) /\ Len(events) + (i - Len(events)) = i
        BY <3>1, <3>3
      <4>2. out[i] = netEvents[i - Len(events)]
        BY <2>1, <3>1, <3>3
      <4> QED
        BY <4>1, <4>2 DEF Right
    <3> QED
      BY <3>2, <3>3
  <2>3. taken = Len(out) + Cardinality(Filled(cq)) + Cardinality(Filled(batch))
    <3>1. Handed \in Nat /\ taken \in Nat
      BY Counts
    <3>2. \A c : Delivered(c) => taken = Handed + (IF c.bid = NoBuffer THEN 0 ELSE 1)
      BY <3>1 DEF Delivered, NoBuffer
    <3>3. CASE Ticks(cq) /\ Ticks(batch) /\ taken = Handed
      BY <2>1, <3>1, <3>3, FilledOf DEF Typed
    <3>4. CASE \E c : Delivered(c) /\ Carries(cq, c) /\ Ticks(batch)
      BY <2>1, <3>1, <3>2, <3>4, FilledOf DEF Typed
    <3>5. CASE \E c : Delivered(c) /\ Ticks(cq) /\ Carries(batch, c) /\ netEvents = << >>
      BY <2>1, <3>1, <3>2, <3>5, FilledOf DEF Typed
    <3> QED
      BY <3>3, <3>4, <3>5 DEF Flow
  <2> QED
    BY <2>2, <2>3 DEF EventsAreDatagrams, out
<1> QED
  BY <1>1, DatagramInvariant, PTL

\* Whatever Serve, the kernel and the network do besides, Serve begins only when
\* everything it needs is there: see ServesOnlyWhenReady.
THEOREM ServesReady == Spec => ServesOnlyWhenReady
<1>1. Achieved /\ Typed /\ [Next]_vars => [Ready]_startup
  <2> SUFFICES ASSUME Achieved, Typed, [Next]_vars PROVE Ready
    OBVIOUS
  <2>1. CASE Booting
    BY <2>1, ReadyStep DEF Booting
  <2>2. CASE Prepared
    BY <2>2 DEF Prepared, Ready
  <2> QED
    BY <2>1, <2>2, PreparedAfterwards
<1>2. Spec => [][Ready]_startup
  BY <1>1, DatagramInvariant, PTL DEF Spec
<1> QED
  BY <1>2, PTL DEF Ready, ServesOnlyWhenReady
=============================================================================
