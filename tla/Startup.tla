------------------------------ MODULE Startup ------------------------------
(***************************************************************************)
(* From main to Serve: NewUringNetEngine (core/core/uring.go) creates the  *)
(* ring and registers the provided buffers, Listen (engine/listener.go,    *)
(* core/core/socket.go) opens the socket, and NetworkServer.Listen arms    *)
(* the operation that everything else waits for.  Any system call may      *)
(* fail.  A failure panics, except where the code does not look (socket    *)
(* returns an unsigned number, and the test is "< 0") or returns an error. *)
(***************************************************************************)
EXTENDS Integers, Sequences

CONSTANTS Protocols, Addresses,  \* configurations
          Entries,               \* provided buffers: 256 in the code, so that
                                 \* "& (entries - 1)" is "% Entries"
          Word                   \* 2^32 in the code: half of the user data

StartupAssumption ==
  /\ Addresses \subseteq {"IPv4", "IPv6", "unparsable"}
  /\ Entries \in Nat \ {0}
  /\ Word \in Nat /\ Word > 10    \* a descriptor is in the lower half of a word

ASSUME StartupAssumption

VARIABLES
  protocol, address,  \* the configuration
  oneMapping,  \* kernel: the rings share a mapping (IORING_FEAT_SINGLE_MMAP)
  stage,       \* the next system call, or "serving", "panicked", "exited"
  bufRing,     \* pRingBuffer: where a buffer is, and its identifier
  filled,      \* entries of it that are written
  tail,        \* its tail, the Resv of its first entry
  fd,          \* Socket.Fd
  socket,      \* kernel: "none", "open", "bound", "listening"
  armed        \* kernel: the accept or receive outstanding, or Nothing

config == <<protocol, address, oneMapping>>
pool == <<bufRing, filled, tail>>
startup == <<config, stage, pool, fd, socket, armed>>

NoFd == -1      \* what a failed socket() leaves in Fd
Opened == 5     \* what a successful one does
Nothing == [op |-> "none"]

-----------------------------------------------------------------------------
(* The user data of an operation: its kind above, its descriptor below. *)

ACCEPT == 1
RECVMSG == 3
TIMEOUT == 5
CANCEL == 6

\* Mutant: the kind is not moved up.
EncodeLow(kind, f) == IF f < 0 THEN Word * Word + f ELSE kind + f

\* encodeUserData: the conversion of a negative descriptor extends its sign
\* over the kind.
Encode(kind, f) == IF f < 0 THEN Word * Word + f ELSE kind * Word + f

\* decodeUserData
Decode(data) ==
  LET low == data % Word IN
  [kind |-> data \div Word, fd |-> IF 2 * low >= Word THEN low - Word ELSE low]

-----------------------------------------------------------------------------
(* The ring and its buffers. *)

\* CreateUring: io_uring_setup and the two mappings.  A kernel without
\* oneMapping leaves the completion queue at address 0.
CreateUring ==
  /\ stage \in {"io_uring_setup", "mmap sq", "mmap sqe"}
  /\ stage' \in {"panicked", CASE stage = "io_uring_setup" -> "mmap sq"
                               [] stage = "mmap sq"        -> "mmap sqe"
                               [] OTHER                    -> "mmap buffers"}
  /\ UNCHANGED <<config, pool, fd, socket, armed>>

\* RegisterRingBuffer up to the registration.  The kernels without oneMapping
\* are older than provided rings.
RegisterRingBuffer ==
  /\ stage \in {"mmap buffers", "register"}
  /\ \/ stage' = "panicked"
     \/ stage = "mmap buffers" /\ stage' = "register"
     \/ stage = "register" /\ oneMapping /\ stage' = "fill"
  /\ UNCHANGED <<config, pool, fd, socket, armed>>

\* Mutant: the first buffer is skipped.
FillEntryFromOne ==
  /\ stage = "fill" /\ filled < Entries
  /\ bufRing' = [bufRing EXCEPT ![(tail + filled) % Entries] =
                   [at |-> filled + 1, bid |-> filled]]
  /\ filled' = filled + 1
  /\ UNCHANGED <<config, stage, tail, fd, socket, armed>>

\* The loop of RegisterRingBuffer.
FillEntry ==
  /\ stage = "fill" /\ filled < Entries
  /\ bufRing' = [bufRing EXCEPT ![(tail + filled) % Entries] =
                   [at |-> filled, bid |-> filled]]
  /\ filled' = filled + 1
  /\ UNCHANGED <<config, stage, tail, fd, socket, armed>>

\* advancePbufRing hands them to the kernel.
AdvancePbufRing ==
  /\ stage = "fill" /\ filled = Entries
  /\ tail' = tail + Entries
  /\ stage' = "listen"
  /\ UNCHANGED <<config, bufRing, filled, fd, socket, armed>>

-----------------------------------------------------------------------------
(* The socket. *)

\* engine.Listen.  An unknown protocol is no error, and no listener.
Listen ==
  /\ stage = "listen"
  /\ stage' = IF protocol \notin {"tcp", "udp"} THEN "serving"
              ELSE IF address = "unparsable" THEN "exited" ELSE "socket"
  /\ UNCHANGED <<config, pool, fd, socket, armed>>

\* CreateTCPSocket, CreateUDPSocket: a failure is not noticed.
CreateSocket ==
  /\ stage = "socket"
  /\ \/ fd' = Opened /\ socket' = "open"
     \/ fd' = NoFd /\ UNCHANGED socket
  /\ stage' = IF protocol = "tcp" THEN "setsockopt" ELSE "bind"
  /\ UNCHANGED <<config, pool, armed>>

\* A system call on Fd may fail; on a descriptor that is none it does.
MayFail == TRUE
MaySucceed == fd = Opened

SetSockOpt ==
  /\ stage = "setsockopt"
  /\ \/ MaySucceed /\ stage' = "bind"
     \/ MayFail /\ stage' = "panicked"
  /\ UNCHANGED <<config, pool, fd, socket, armed>>

\* Mutant: the result is not looked at.
BindUnchecked ==
  /\ stage = "bind"
  /\ \/ MaySucceed /\ address = "IPv4" /\ socket' = "bound"
     \/ MayFail /\ UNCHANGED socket
  /\ stage' = IF protocol = "tcp" THEN "listen call" ELSE "arm"
  /\ UNCHANGED <<config, pool, fd, armed>>

\* Socket.Bind: the 16 bytes of an IPv6 address run over Data[14] and panic.
Bind ==
  /\ stage = "bind"
  /\ \/ /\ MaySucceed /\ address = "IPv4" /\ socket' = "bound"
        /\ stage' = IF protocol = "tcp" THEN "listen call" ELSE "arm"
     \/ /\ MayFail \/ address # "IPv4"
        /\ stage' = "panicked" /\ UNCHANGED socket
  /\ UNCHANGED <<config, pool, fd, armed>>

\* Socket.Listen: main exits, with the socket open.
ListenCall ==
  /\ stage = "listen call"
  /\ \/ MaySucceed /\ socket' = "listening" /\ stage' = "arm"
     \/ MayFail /\ stage' = "exited" /\ UNCHANGED socket
  /\ UNCHANGED <<config, pool, fd, armed>>

Operation(kind, f) == [op |-> kind, fd |-> f, data |-> Encode(kind, f)]

\* NetworkServer.Listen: Accept or RecvFrom on the listener.
Arm ==
  /\ stage = "arm"
  /\ armed' = Operation(IF protocol = "tcp" THEN ACCEPT ELSE RECVMSG, fd)
  /\ stage' = "serving"
  /\ UNCHANGED <<config, pool, fd, socket>>

-----------------------------------------------------------------------------
StartupInit ==
  /\ protocol \in Protocols /\ address \in Addresses /\ oneMapping \in BOOLEAN
  /\ stage = "io_uring_setup"
  /\ bufRing = [i \in 0..Entries - 1 |-> [at |-> 0, bid |-> 0]]
  /\ filled = 0 /\ tail = 0
  /\ fd = 0 /\ socket = "none" /\ armed = Nothing

Boot == \/ CreateUring \/ RegisterRingBuffer \/ FillEntry \/ AdvancePbufRing
        \/ Listen \/ CreateSocket \/ SetSockOpt \/ Bind \/ ListenCall \/ Arm

StartupSpec == StartupInit /\ [][Boot]_startup

-----------------------------------------------------------------------------
StartupTypeOK ==
  /\ stage \in {"io_uring_setup", "mmap sq", "mmap sqe", "mmap buffers", "register",
                "fill", "listen", "socket", "setsockopt", "bind", "listen call", "arm",
                "serving", "panicked", "exited"}
  /\ \A i \in 0..Entries - 1 : bufRing[i].at \in 0..Entries - 1 /\ bufRing[i].bid \in 0..Entries - 1
  /\ filled \in 0..Entries /\ tail \in {0, Entries}
  /\ fd \in {0, NoFd, Opened}
  /\ socket \in {"none", "open", "bound", "listening"}

\* Whatever system call fails, noticed or not, Serve begins with its operation
\* armed on a socket that is bound, and listening for TCP, with the rings
\* mapped, every buffer handed to the kernel, and with user data that will say
\* which operation on which descriptor has completed (NewUringNetEngine,
\* Listen, NetworkServer.Listen); an unknown protocol excepted.
ServesOnlyWhenReady ==
  [][stage' = "serving" /\ stage # "serving" /\ protocol \in {"tcp", "udp"} =>
       /\ socket' = IF protocol = "tcp" THEN "listening" ELSE "bound"
       /\ armed'.fd = fd
       /\ Decode(armed'.data) = [kind |-> IF protocol = "tcp" THEN ACCEPT ELSE RECVMSG,
                                 fd |-> fd]
       /\ oneMapping /\ tail = Entries
       /\ {bufRing[i].at : i \in 0..Entries - 1} = 0..Entries - 1]_startup
=============================================================================
