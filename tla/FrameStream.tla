---------------------------- MODULE FrameStream ----------------------------
(***************************************************************************)
(* Frames from the connections to the live application: what a client      *)
(* sends arrives in chunks, OnData of transport/streaming gathers them in  *)
(* the peer's RingReader and hands every complete frame to a channel, and  *)
(* LiveApp takes frames from that channel.  cmd/debug/main.go composes the *)
(* three and cancels both ends with one context.                           *)
(*                                                                         *)
(* OnData runs inside Serve's loop, so while it waits for the channel the  *)
(* whole server waits.  A stream is a sequence of bytes; a byte is Magic   *)
(* or a number.  The header is one magic byte and one length byte: two and *)
(* four, and a type, in the code.  Definitions other modules have too are   *)
(* named after the stream, so that this module can be extended with them.  *)
(***************************************************************************)
EXTENDS Integers, Sequences

CONSTANTS Conns,       \* connections
          Stream,      \* what each client sends
          Cap,         \* capacity of a RingReader: 4096 in the code
          ChanCap,     \* capacity of the channel: 4096 in cmd/debug
          MaxRead,     \* size of a provided buffer
          Rereads      \* is a connection read again after its first chunk?

Magic == -1
HeaderSize == 2

StreamAssumption ==
  /\ Stream \in [Conns -> Seq({Magic} \union Nat)]
  /\ Cap \in Nat \ {0} /\ ChanCap \in Nat \ {0} /\ MaxRead \in Nat \ {0}
  /\ Rereads \in BOOLEAN /\ "none" \notin Conns

ASSUME StreamAssumption

VARIABLES
  status,    \* of the server: "running", "draining", "stopped"
  current,   \* the connection whose chunk OnData is working on, or "none"
  arrived,   \* bytes of each stream that have been read from the socket
  ring,      \* what each RingReader holds: positions in the stream
  chan,      \* frames in the channel: a connection and the frame's positions
  app,       \* LiveApp's loop: "running", "stopped"
  processed, \* frames LiveApp has taken
  cancelled, \* ctx is done
  late,      \* drainingDeadline has passed
  lost       \* connections a chunk of which found no room

streamVars == <<status, current, arrived, ring, chan, app, processed, cancelled, late, lost>>

-----------------------------------------------------------------------------
Value(c, s) == [i \in 1..Len(s) |-> Stream[c][s[i]]]

\* Peek(header), and the magic number is there.
HasHeader(s) == Len(s) >= HeaderSize /\ s[1] = Magic

\* Header and payload of the frame at the front.
Total(s) == HeaderSize + s[2]

\* Does a complete frame stand at the front of these bytes?  (Magic bytes, read
\* as a length, announce a payload larger than any ring.)
HasFrame(s) == HasHeader(s) /\ s[2] >= 0 /\ Len(s) >= Total(s)

\* Frame.Marshal does not write the magic number: its frames are none.
Marshal(payload) == <<0, Len(payload)>> \o payload

-----------------------------------------------------------------------------
(* OnData, in the Serve goroutine. *)

\* Mutant: forgets what the RingReader holds already.
FitsEmpty(c, n) == n <= Cap

\* RingReader.Feed has room for n bytes.
Fits(c, n) == n <= Cap - Len(ring[c])

\* A chunk of n bytes is read from connection c and fed to its RingReader.  One
\* that does not fit is lost, and OnData returns without looking at the ring.
Receive(c, n) ==
  /\ status # "stopped" /\ current = "none"
  /\ Rereads \/ arrived[c] = 0
  /\ n \in 1..MaxRead /\ arrived[c] + n <= Len(Stream[c])
  /\ arrived' = [arrived EXCEPT ![c] = @ + n]
  /\ IF Fits(c, n)
       THEN /\ ring' = [ring EXCEPT ![c] = @ \o [i \in 1..n |-> arrived[c] + i]]
            /\ current' = c /\ UNCHANGED lost
       ELSE lost' = lost \union {c} /\ UNCHANGED <<ring, current>>
  /\ UNCHANGED <<status, chan, app, processed, cancelled, late>>

\* Mutant: skips the payload only.
SkipPayload(s, n) == SubSeq(s, n - HeaderSize + 1, Len(s))

\* RingReader.Advance
Skip(s, n) == SubSeq(s, n + 1, Len(s))

\* One round of OnData's loop: the frame at the front goes to the channel, once
\* there is room in it, and the reader advances past it.
HandOver ==
  /\ current # "none" /\ HasFrame(Value(current, ring[current]))
  /\ Len(chan) < ChanCap
  /\ LET n == Total(Value(current, ring[current]))
     IN  /\ chan' = Append(chan, [conn |-> current, at |-> SubSeq(ring[current], 1, n)])
         /\ ring' = [ring EXCEPT ![current] = Skip(@, n)]
  /\ UNCHANGED <<status, current, arrived, app, processed, cancelled, late, lost>>

\* Mutant: does not wait for room in the channel.
ReturnFull ==
  /\ current # "none" /\ (~HasFrame(Value(current, ring[current])) \/ Len(chan) >= ChanCap)
  /\ current' = "none"
  /\ UNCHANGED <<status, arrived, ring, chan, app, processed, cancelled, late, lost>>

\* OnData returns: no header, the wrong magic, or not the whole frame.  What is
\* in the ring stays.
ReturnError ==
  /\ current # "none" /\ ~HasFrame(Value(current, ring[current]))
  /\ current' = "none"
  /\ UNCHANGED <<status, arrived, ring, chan, app, processed, cancelled, late, lost>>

-----------------------------------------------------------------------------
(* The rest of Serve's turn, and the clock. *)

StartDraining ==
  /\ status = "running" /\ current = "none" /\ cancelled
  /\ status' = "draining"
  /\ UNCHANGED <<current, arrived, ring, chan, app, processed, cancelled, late, lost>>

StopServing ==
  /\ status = "draining" /\ current = "none" /\ late
  /\ status' = "stopped"
  /\ UNCHANGED <<current, arrived, ring, chan, app, processed, cancelled, late, lost>>

DeadlinePasses ==
  /\ status = "draining" /\ ~late
  /\ late' = TRUE
  /\ UNCHANGED <<status, current, arrived, ring, chan, app, processed, cancelled, lost>>

\* The signal handler.
Cancel ==
  /\ ~cancelled
  /\ cancelled' = TRUE
  /\ UNCHANGED <<status, current, arrived, ring, chan, app, processed, late, lost>>

-----------------------------------------------------------------------------
(* LiveApp.processLoop: with both ready, select takes either. *)

Take ==
  /\ app = "running" /\ chan # << >>
  /\ processed' = Append(processed, Head(chan))
  /\ chan' = Tail(chan)
  /\ UNCHANGED <<status, current, arrived, ring, app, cancelled, late, lost>>

\* Mutant: does not wait for a frame.
StopAppIdle ==
  /\ app = "running" /\ (cancelled \/ chan = << >>)
  /\ app' = "stopped"
  /\ UNCHANGED <<status, current, arrived, ring, chan, processed, cancelled, late, lost>>

StopApp ==
  /\ app = "running" /\ cancelled
  /\ app' = "stopped"
  /\ UNCHANGED <<status, current, arrived, ring, chan, processed, cancelled, late, lost>>

-----------------------------------------------------------------------------
StreamInit ==
  /\ status = "running" /\ current = "none" /\ app = "running"
  /\ arrived = [c \in Conns |-> 0]
  /\ ring = [c \in Conns |-> << >>]
  /\ chan = << >> /\ processed = << >>
  /\ cancelled = FALSE /\ late = FALSE /\ lost = {}

Gather == HandOver \/ ReturnError

Serve == Gather \/ StartDraining \/ StopServing

LiveApp == Take \/ StopApp

Reading == \E c \in Conns, n \in 1..MaxRead : Receive(c, n)

StreamNext == Reading \/ Serve \/ DeadlinePasses \/ Cancel \/ LiveApp

\* The goroutines are scheduled and the clock runs.  Reading is not fair: the
\* clients need not send.  A turn ends by looking at ctx and at the deadline
\* whatever it has read, so those steps are not held up by reading.
Fairness == /\ WF_streamVars(Gather) /\ SF_streamVars(StartDraining) /\ SF_streamVars(StopServing)
            /\ WF_streamVars(DeadlinePasses) /\ WF_streamVars(Take) /\ WF_streamVars(StopApp)

StreamSpec == StreamInit /\ [][StreamNext]_streamVars /\ Fairness

-----------------------------------------------------------------------------
Positions(c) == 1..Len(Stream[c])

Frame == [conn : Conns, at : Seq(Nat)]

StreamTypeOK ==
  /\ status \in {"running", "draining", "stopped"}
  /\ current \in Conns \union {"none"}
  /\ arrived \in [Conns -> Nat] /\ ring \in [Conns -> Seq(Nat)]
  /\ \A c \in Conns : /\ arrived[c] <= Len(Stream[c])
                      /\ ring[c] \in Seq(Positions(c)) /\ Len(ring[c]) <= Cap
  /\ chan \in Seq(Frame) /\ Len(chan) <= ChanCap /\ processed \in Seq(Frame)
  /\ app \in {"running", "stopped"}
  /\ {cancelled, late} \subseteq BOOLEAN
  /\ lost \subseteq Conns

\* A frame of c that begins at position p is among these.
Starts(c, p, fs) == \E k \in 1..Len(fs) : fs[k].conn = c /\ fs[k].at[1] = p

\* The frames OnData has handed over, of all connections.
Handed == processed \o chan

\* Frame i is the last one of its connection before frame j.
Precedes(i, j) ==
  /\ i < j /\ Handed[i].conn = Handed[j].conn
  /\ \A k \in i + 1..j - 1 : Handed[k].conn # Handed[j].conn

\* However the stream is cut into chunks, and whichever connection is served in
\* between, the frames handed over are those of the stream, one after the other
\* by the layout in protocol.go: none is merged, cut, repeated or skipped, as
\* long as no chunk was lost.
FramesAreTheStreams ==
  \A j \in 1..Len(Handed) :
    LET c == Handed[j].conn
        at == Handed[j].at
        v == Value(c, at)
    IN c \notin lost =>
         /\ HasHeader(v) /\ Len(v) = Total(v)
         /\ at = [k \in 1..Len(at) |-> at[1] + k - 1]
         /\ at[1] = 1 \/ \E i \in 1..j - 1 : Precedes(i, j)
         /\ \A i \in 1..j - 1 :
              Precedes(i, j) => at[1] = Handed[i].at[Len(Handed[i].at)] + 1

\* When OnData has returned, no complete frame waits in the ring: another chunk
\* is never needed to get at a frame that has arrived.
NothingLeftBehind ==
  \A c \in Conns : current # c => ~HasFrame(Value(c, ring[c]))

\* A frame that has been handed over is processed, unless the program is being
\* shut down.
HandedOverIsProcessed ==
  \A c \in Conns : \A p \in Positions(c) :
    Starts(c, p, chan) ~> Starts(c, p, processed) \/ cancelled

\* "Draining timeout exceeded" (network_server.go:184, where Serve leaves the
\* loop when drainingDeadline has passed): draining ends.
DrainingIsBounded == cancelled ~> status = "stopped"
=============================================================================
