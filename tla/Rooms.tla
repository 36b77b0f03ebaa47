------------------------------- MODULE Rooms -------------------------------
(***************************************************************************)
(* application/room: a RoomManager, its rooms, and what it tells the Logic *)
(* of a room.  Nothing under src/ calls it and nothing in it is locked, so *)
(* operations are atomic here and any may follow any other.  A room is an  *)
(* object: a caller that got it from CreateRoom or GetRoom may still join  *)
(* or leave it when the manager no longer knows it.                        *)
(* Definitions other modules have too are named after the rooms, so that   *)
(* this module can be extended with them.                                  *)
(***************************************************************************)
EXTENDS Integers, Sequences, FiniteSets, SequencesExt

CONSTANTS Ids,          \* names of rooms
          Members,      \* identifiers of connections
          Capacities,   \* capacities callers ask for
          Logics,       \* are rooms created with a Logic?  a set of Booleans
          \* Bounds of the exploration.
          MaxRooms,     \* rooms created
          MaxTold       \* calls of one room's Logic

RoomAssumption ==
  /\ Capacities \subseteq Nat /\ Logics \subseteq BOOLEAN
  /\ MaxRooms \in Nat /\ MaxTold \in Nat

ASSUME RoomAssumption

VARIABLES
  objects,    \* every room ever created
  registry,   \* RoomManager.Rooms: the object under each name, 0 if none
  panicked    \* a nil Logic was called

roomVars == <<objects, registry, panicked>>

Room == [capacity : Capacities, logic : BOOLEAN,
         connections : Seq(Members), told : Seq({"connect", "disconnect"} \X Members)]

-----------------------------------------------------------------------------
\* Mutant: lets one too many in.
IsFullLate(room) == Len(room.connections) > room.capacity

IsFull(room) == Len(room.connections) >= room.capacity

\* The Logic's OnConnect or OnDisconnect, whose error is ignored.
Tell(r, connections, what) ==
  /\ Len(objects[r].told) < MaxTold
  /\ panicked' = ~objects[r].logic
  /\ objects' = [objects EXCEPT ![r].connections = connections,
                                ![r].told = IF objects[r].logic THEN Append(@, what) ELSE @]

\* JoinRoom: a full room refuses; nobody looks whether c is there already.
JoinRoom(r, c) ==
  IF IsFull(objects[r]) THEN UNCHANGED <<objects, panicked>>
  ELSE Tell(r, Append(objects[r].connections, c), <<"connect", c>>)

\* Mutant: removes every occurrence, tells of one.
LeaveRoomAll(r, c) ==
  LET Other(d) == d # c
      rest == SelectSeq(objects[r].connections, Other)
  IN  IF rest = objects[r].connections THEN UNCHANGED <<objects, panicked>>
      ELSE Tell(r, rest, <<"disconnect", c>>)

\* LeaveRoom: the first connection of that name goes.
LeaveRoom(r, c) ==
  LET at == {i \in 1..Len(objects[r].connections) : objects[r].connections[i] = c}
  IN  IF at = {} THEN UNCHANGED <<objects, panicked>>
      ELSE LET i == CHOOSE j \in at : \A k \in at : j <= k
           IN  Tell(r, RemoveAt(objects[r].connections, i), <<"disconnect", c>>)

-----------------------------------------------------------------------------
\* CreateRoom overwrites a room of the same name.
CreateRoom(id, capacity, logic) ==
  /\ Len(objects) < MaxRooms
  /\ objects' = Append(objects, [capacity |-> capacity, logic |-> logic,
                                 connections |-> << >>, told |-> << >>])
  /\ registry' = [registry EXCEPT ![id] = Len(objects) + 1]
  /\ UNCHANGED panicked

DeleteRoom(id) ==
  /\ registry' = [registry EXCEPT ![id] = 0]
  /\ UNCHANGED <<objects, panicked>>

AddConnection(id, c) ==
  /\ registry[id] # 0
  /\ JoinRoom(registry[id], c)
  /\ UNCHANGED registry

\* RemoveConnection returns nil whatever LeaveRoom says.
RemoveConnection(id, c) ==
  /\ registry[id] # 0
  /\ LeaveRoom(registry[id], c)
  /\ UNCHANGED registry

\* A caller that kept the *Room.
JoinHeld(r, c) == JoinRoom(r, c) /\ UNCHANGED registry

LeaveHeld(r, c) == LeaveRoom(r, c) /\ UNCHANGED registry

RoomsInit == objects = << >> /\ registry = [id \in Ids |-> 0] /\ panicked = FALSE

Manage == \E id \in Ids :
  \/ \E capacity \in Capacities, logic \in Logics : CreateRoom(id, capacity, logic)
  \/ DeleteRoom(id)
  \/ \E c \in Members : AddConnection(id, c) \/ RemoveConnection(id, c)

Hold == \E r \in 1..Len(objects), c \in Members : JoinHeld(r, c) \/ LeaveHeld(r, c)

RoomsNext == ~panicked /\ (Manage \/ Hold)

RoomsSpec == RoomsInit /\ [][RoomsNext]_roomVars

-----------------------------------------------------------------------------
\* No order of joins and leaves, by name or on a room held, overfills a room.
RoomsTypeOK ==
  /\ objects \in Seq(Room)
  /\ registry \in [Ids -> 0..Len(objects)]
  /\ panicked \in BOOLEAN
  /\ \A r \in 1..Len(objects) : Len(objects[r].connections) <= objects[r].capacity

Occurrences(x, s) == Cardinality({i \in 1..Len(s) : s[i] = x})

\* A Logic that believes what it is told knows who is in its room, also when a
\* connection joins twice, and when the manager has forgotten the room.
LogicAgrees ==
  \A r \in 1..Len(objects) : objects[r].logic =>
    \A c \in Members :
      Occurrences(c, objects[r].connections) =
        Occurrences(<<"connect", c>>, objects[r].told)
          - Occurrences(<<"disconnect", c>>, objects[r].told)
=============================================================================
