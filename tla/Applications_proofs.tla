------------------------ MODULE Applications_proofs ------------------------
(***************************************************************************)
(* The applications behind the server, each for all of its parameters.     *)
(* Rooms: none is overfilled, and a Logic that believes what it is told    *)
(* knows who is in its room.  The live application: what it is handed are  *)
(* the frames of the streams.  HTTP: every read has one answer a client    *)
(* can delimit, and a request that is read whole is answered as it was     *)
(* meant.  The three have little in common but the facts about sequences   *)
(* and natural numbers at the beginning.                                   *)
(***************************************************************************)
EXTENDS Rooms, FrameStream, HttpServer, TLAPS, WellFoundedInduction, FiniteSetTheorems,
        SequenceTheorems

-----------------------------------------------------------------------------
(* Rooms: how often an element occurs in a sequence. *)

LEMMA PlacesFinite ==
  ASSUME NEW S, NEW s \in Seq(S), NEW x
  PROVE  /\ IsFiniteSet(Places(x, s)) /\ Occurrences(x, s) = Cardinality(Places(x, s))
         /\ Occurrences(x, s) \in Nat
<1>1. Len(s) \in Nat
  BY LenProperties
<1>2. IsFiniteSet(1..Len(s))
  BY <1>1, FS_Interval
<1>3. IsFiniteSet(Places(x, s))
  BY <1>2, FS_Subset DEF Places
<1> QED
  BY <1>3, FS_CardinalityType DEF Occurrences, Places

LEMMA NothingOccurs == \A x : Occurrences(x, << >>) = 0
<1>1. \A x : Places(x, << >>) = {}
  BY DEF Places
<1>2. \A x : Occurrences(x, << >>) = Cardinality(Places(x, << >>))
  BY DEF Occurrences, Places
<1> QED
  BY <1>1, <1>2, FS_EmptySet

\* An element appended occurs once more, and no other does.
LEMMA OccurrencesAppend ==
  ASSUME NEW S, NEW s \in Seq(S), NEW e \in S, NEW x
  PROVE  Occurrences(x, Append(s, e)) = Occurrences(x, s) + (IF e = x THEN 1 ELSE 0)
<1> DEFINE t == Append(s, e)
<1>1. /\ Len(s) \in Nat /\ t \in Seq(S) /\ Len(t) = Len(s) + 1 /\ t[Len(s) + 1] = e
      /\ \A i \in 1..Len(s) : t[i] = s[i]
  BY LenProperties, AppendProperties
<1> HIDE DEF t
<1>2. Places(x, t) = IF e = x THEN Places(x, s) \union {Len(s) + 1} ELSE Places(x, s)
  BY <1>1 DEF Places
<1>3. Len(s) + 1 \notin Places(x, s)
  BY <1>1 DEF Places
<1>4. /\ IsFiniteSet(Places(x, s)) /\ Occurrences(x, s) = Cardinality(Places(x, s))
      /\ Occurrences(x, s) \in Nat
  BY PlacesFinite
<1>5. Occurrences(x, t) = Cardinality(Places(x, t))
  BY <1>1, PlacesFinite
<1>6. Cardinality(Places(x, s) \union {Len(s) + 1}) = Cardinality(Places(x, s)) + 1
  BY <1>3, <1>4, FS_AddElement
<1>7. Occurrences(x, t) = Occurrences(x, s) + (IF e = x THEN 1 ELSE 0)
  BY <1>2, <1>4, <1>5, <1>6
<1> QED
  BY <1>7 DEF t

\* RemoveAt takes out one element and closes the gap.
LEMMA RemoveAtProperties ==
  ASSUME NEW S, NEW s \in Seq(S), NEW i \in 1..Len(s)
  PROVE  /\ RemoveAt(s, i) \in Seq(S) /\ Len(RemoveAt(s, i)) = Len(s) - 1
         /\ \A j \in 1..Len(s) - 1 :
              RemoveAt(s, i)[j] = IF j < i THEN s[j] ELSE s[j + 1]
<1>1. Len(s) \in Nat /\ \A k \in 1..Len(s) : s[k] \in S
  BY LenProperties, ElementOfSeq
<1> DEFINE a == SubSeq(s, 1, i - 1)
           b == SubSeq(s, i + 1, Len(s))
<1>2. /\ a \in Seq(S) /\ Len(a) = i - 1 /\ \A j \in 1..i - 1 : a[j] = s[j]
  <2>1. 1 \in Int /\ i - 1 \in Int /\ \A k \in 1..i - 1 : s[k] \in S
    BY <1>1
  <2>2. /\ a \in Seq(S) /\ Len(a) = (IF 1 <= i - 1 THEN (i - 1) - 1 + 1 ELSE 0)
        /\ \A j \in 1..(i - 1) - 1 + 1 : a[j] = s[1 + j - 1]
    BY <2>1, SubSeqProperties
  <2> HIDE DEF a
  <2> QED
    BY <2>2
<1>3. /\ b \in Seq(S) /\ Len(b) = Len(s) - i /\ \A j \in 1..Len(s) - i : b[j] = s[i + j]
  <2>1. i + 1 \in Int /\ Len(s) \in Int /\ \A k \in i + 1..Len(s) : s[k] \in S
    BY <1>1
  <2>2. /\ b \in Seq(S) /\ Len(b) = (IF i + 1 <= Len(s) THEN Len(s) - (i + 1) + 1 ELSE 0)
        /\ \A j \in 1..Len(s) - (i + 1) + 1 : b[j] = s[(i + 1) + j - 1]
    BY <2>1, SubSeqProperties
  <2> HIDE DEF b
  <2> QED
    BY <1>1, <2>2
<1> HIDE DEF a, b
<1> DEFINE c == a \o b
<1>4. /\ c \in Seq(S) /\ Len(c) = Len(a) + Len(b)
      /\ \A j \in 1..Len(a) + Len(b) : c[j] = IF j <= Len(a) THEN a[j] ELSE b[j - Len(a)]
  BY <1>2, <1>3, ConcatProperties
<1>5. RemoveAt(s, i) = c
  BY DEF RemoveAt, a, b
<1> HIDE DEF c
<1>6. \A j \in 1..Len(s) - 1 : c[j] = IF j < i THEN s[j] ELSE s[j + 1]
  <2> TAKE j \in 1..Len(s) - 1
  <2>0. Len(a) = i - 1 /\ c[j] = IF j <= i - 1 THEN a[j] ELSE b[j - (i - 1)]
    <3>1. Len(a) = i - 1 /\ Len(a) + Len(b) = Len(s) - 1
      BY <1>1, <1>2, <1>3
    <3> QED
      BY <1>4, <3>1
  <2>1. CASE j < i
    <3>1. j <= i - 1 /\ j \in 1..i - 1
      BY <1>1, <2>1
    <3>2. c[j] = a[j] /\ a[j] = s[j]
      BY <1>2, <2>0, <3>1
    <3> QED
      BY <2>1, <3>2
  <2>2. CASE ~(j < i)
    <3>1. c[j] = b[j - (i - 1)]
      BY <1>1, <2>0, <2>2
    <3>2. b[j - (i - 1)] = s[i + (j - (i - 1))]
      BY <1>1, <1>3, <2>2
    <3>3. i + (j - (i - 1)) = j + 1
      BY <1>1
    <3> QED
      BY <2>2, <3>1, <3>2, <3>3
  <2> QED
    BY <2>1, <2>2
<1> QED
  BY <1>1, <1>2, <1>3, <1>4, <1>5, <1>6

\* An element taken out occurs once less, and no other does.
LEMMA OccurrencesRemoveAt ==
  ASSUME NEW S, NEW s \in Seq(S), NEW i \in 1..Len(s), NEW x
  PROVE  Occurrences(x, RemoveAt(s, i)) = Occurrences(x, s) - (IF s[i] = x THEN 1 ELSE 0)
<1> DEFINE t == RemoveAt(s, i)
           Shift == [j \in Places(x, t) |-> IF j < i THEN j ELSE j + 1]
           Rest == Places(x, s) \ {i}
<1>1. /\ Len(s) \in Nat /\ t \in Seq(S) /\ Len(t) = Len(s) - 1
      /\ \A j \in 1..Len(s) - 1 : t[j] = IF j < i THEN s[j] ELSE s[j + 1]
  BY LenProperties, RemoveAtProperties
<1> HIDE DEF t
<1>2. Shift \in Bijection(Places(x, t), Rest)
  <2>1. Shift \in [Places(x, t) -> Rest]
    BY <1>1 DEF Places
  <2>2. \A j, k \in Places(x, t) : Shift[j] = Shift[k] => j = k
    BY <1>1 DEF Places
  <2>3. \A k \in Rest : \E j \in Places(x, t) : Shift[j] = k
    <3> TAKE k \in Rest
    <3>1. CASE k < i
      <4>1. k \in Places(x, t)
        BY <1>1, <3>1 DEF Places
      <4> QED
        BY <3>1, <4>1
    <3>2. CASE ~(k < i)
      <4>1. k - 1 \in Places(x, t) /\ ~(k - 1 < i) /\ k - 1 + 1 = k
        BY <1>1, <3>2 DEF Places
      <4> QED
        BY <4>1
    <3> QED
      BY <3>1, <3>2
  <2> HIDE DEF Shift, Rest
  <2> QED
    BY <2>1, <2>2, <2>3 DEF Bijection, Injection, Surjection, IsInjective
<1>3. /\ IsFiniteSet(Places(x, t)) /\ Occurrences(x, t) = Cardinality(Places(x, t))
  BY <1>1, PlacesFinite
<1>4. /\ IsFiniteSet(Places(x, s)) /\ Occurrences(x, s) = Cardinality(Places(x, s))
      /\ Occurrences(x, s) \in Nat
  BY PlacesFinite
<1>5. Cardinality(Rest) = Cardinality(Places(x, t))
  <2> HIDE DEF Shift, Rest
  <2>1. ExistsBijection(Places(x, t), Rest)
    BY <1>2 DEF ExistsBijection
  <2> QED
    BY <1>3, <2>1, FS_Bijection
<1>6. Cardinality(Rest) = Cardinality(Places(x, s)) - (IF i \in Places(x, s) THEN 1 ELSE 0)
  BY <1>4, FS_RemoveElement
<1>7. i \in Places(x, s) <=> s[i] = x
  BY DEF Places
<1> HIDE DEF Shift, Rest
<1>8. Occurrences(x, t) = Occurrences(x, s) - (IF s[i] = x THEN 1 ELSE 0)
  BY <1>3, <1>4, <1>5, <1>6, <1>7
<1> QED
  BY <1>8 DEF t

-----------------------------------------------------------------------------
(* Rooms: one room. *)

\* A Logic that has been told this believes that these connections are there.
Believes(connections, told) ==
  \A c \in Members : Occurrences(c, connections) =
    Occurrences(<<"connect", c>>, told) - Occurrences(<<"disconnect", c>>, told)

\* A room that is not overfilled and whose Logic agrees.
Sound(room) ==
  /\ Len(room.connections) <= room.capacity
  /\ room.logic => Believes(room.connections, room.told)

\* The room after JoinRoom or LeaveRoom.
After(room, connections, what) ==
  [room EXCEPT !.connections = connections,
               !.told = IF room.logic THEN Append(@, what) ELSE @]

LEMMA JoinBelieved ==
  ASSUME NEW s \in Seq(Members), NEW told \in Seq({"connect", "disconnect"} \X Members),
         NEW c \in Members, Believes(s, told)
  PROVE  Believes(Append(s, c), Append(told, <<"connect", c>>))
<1> SUFFICES ASSUME NEW d \in Members
             PROVE  Occurrences(d, Append(s, c)) =
                      Occurrences(<<"connect", d>>, Append(told, <<"connect", c>>))
                      - Occurrences(<<"disconnect", d>>, Append(told, <<"connect", c>>))
  BY DEF Believes
<1>1. <<"connect", c>> \in {"connect", "disconnect"} \X Members
  OBVIOUS
<1>2. /\ Occurrences(d, s) \in Nat
      /\ Occurrences(<<"connect", d>>, told) \in Nat
      /\ Occurrences(<<"disconnect", d>>, told) \in Nat
  BY PlacesFinite
<1>3. Occurrences(d, Append(s, c)) = Occurrences(d, s) + (IF c = d THEN 1 ELSE 0)
  BY OccurrencesAppend
<1>4. Occurrences(<<"connect", d>>, Append(told, <<"connect", c>>)) =
        Occurrences(<<"connect", d>>, told) + (IF c = d THEN 1 ELSE 0)
  <2>1. <<"connect", c>> = <<"connect", d>> <=> c = d
    OBVIOUS
  <2> QED
    BY <1>1, <2>1, OccurrencesAppend
<1>5. Occurrences(<<"disconnect", d>>, Append(told, <<"connect", c>>)) =
        Occurrences(<<"disconnect", d>>, told) + 0
  <2>1. <<"connect", c>> # <<"disconnect", d>>
    OBVIOUS
  <2> QED
    BY <1>1, <2>1, OccurrencesAppend
<1>6. Occurrences(d, s) = Occurrences(<<"connect", d>>, told)
                          - Occurrences(<<"disconnect", d>>, told)
  BY DEF Believes
<1> QED
  BY <1>2, <1>3, <1>4, <1>5, <1>6

LEMMA LeaveBelieved ==
  ASSUME NEW s \in Seq(Members), NEW told \in Seq({"connect", "disconnect"} \X Members),
         NEW i \in 1..Len(s), Believes(s, told)
  PROVE  Believes(RemoveAt(s, i), Append(told, <<"disconnect", s[i]>>))
<1> SUFFICES ASSUME NEW d \in Members
             PROVE  Occurrences(d, RemoveAt(s, i)) =
                      Occurrences(<<"connect", d>>, Append(told, <<"disconnect", s[i]>>))
                      - Occurrences(<<"disconnect", d>>, Append(told, <<"disconnect", s[i]>>))
  BY DEF Believes
<1>1. s[i] \in Members /\ <<"disconnect", s[i]>> \in {"connect", "disconnect"} \X Members
  BY ElementOfSeq
<1>2. /\ Occurrences(d, s) \in Nat
      /\ Occurrences(<<"connect", d>>, told) \in Nat
      /\ Occurrences(<<"disconnect", d>>, told) \in Nat
  BY PlacesFinite
<1>3. Occurrences(d, RemoveAt(s, i)) = Occurrences(d, s) - (IF s[i] = d THEN 1 ELSE 0)
  BY OccurrencesRemoveAt
<1>4. Occurrences(<<"connect", d>>, Append(told, <<"disconnect", s[i]>>)) =
        Occurrences(<<"connect", d>>, told) + 0
  <2>1. <<"disconnect", s[i]>> # <<"connect", d>>
    OBVIOUS
  <2> QED
    BY <1>1, <2>1, OccurrencesAppend
<1>5. Occurrences(<<"disconnect", d>>, Append(told, <<"disconnect", s[i]>>)) =
        Occurrences(<<"disconnect", d>>, told) + (IF s[i] = d THEN 1 ELSE 0)
  <2>1. <<"disconnect", s[i]>> = <<"disconnect", d>> <=> s[i] = d
    OBVIOUS
  <2> QED
    BY <1>1, <2>1, OccurrencesAppend
<1>6. Occurrences(d, s) = Occurrences(<<"connect", d>>, told)
                          - Occurrences(<<"disconnect", d>>, told)
  BY DEF Believes
<1> QED
  BY <1>2, <1>3, <1>4, <1>5, <1>6

\* A room that was full is left alone, and one connection more fits into another.
LEMMA JoinSound ==
  ASSUME NEW room \in Room, NEW c \in Members, Sound(room), ~IsFull(room)
  PROVE  LET after == After(room, Append(room.connections, c), <<"connect", c>>)
         IN  after \in Room /\ Sound(after)
<1> DEFINE s == Append(room.connections, c)
           after == After(room, s, <<"connect", c>>)
<1>1. /\ room.connections \in Seq(Members) /\ room.capacity \in Nat /\ room.capacity \in Capacities
      /\ room.told \in Seq({"connect", "disconnect"} \X Members) /\ room.logic \in BOOLEAN
      /\ Len(room.connections) \in Nat
  BY RoomAssumption, LenProperties DEF Room, RoomAssumption
<1>2. s \in Seq(Members) /\ Len(s) = Len(room.connections) + 1
  BY <1>1, AppendProperties
<1>3. <<"connect", c>> \in {"connect", "disconnect"} \X Members
  OBVIOUS
<1>4. Append(room.told, <<"connect", c>>) \in Seq({"connect", "disconnect"} \X Members)
  BY <1>1, <1>3, AppendProperties
<1>5. room.logic => Believes(s, Append(room.told, <<"connect", c>>))
  BY <1>1, JoinBelieved DEF Sound
<1> HIDE DEF s
<1>6. /\ after \in Room /\ after.connections = s /\ after.capacity = room.capacity
      /\ after.logic = room.logic
      /\ room.logic => after.told = Append(room.told, <<"connect", c>>)
  BY <1>1, <1>2, <1>4 DEF After, Room
<1> HIDE DEF after
<1>7. Len(s) <= room.capacity
  BY <1>1, <1>2 DEF IsFull
<1>8. after \in Room /\ Sound(after)
  BY <1>5, <1>6, <1>7 DEF Sound
<1> QED
  BY <1>8 DEF after, s

LEMMA LeaveSound ==
  ASSUME NEW room \in Room, NEW i \in 1..Len(room.connections), Sound(room)
  PROVE  LET after == After(room, RemoveAt(room.connections, i),
                            <<"disconnect", room.connections[i]>>)
         IN  after \in Room /\ Sound(after)
<1> DEFINE s == RemoveAt(room.connections, i)
           what == <<"disconnect", room.connections[i]>>
           after == After(room, s, what)
<1>1. /\ room.connections \in Seq(Members) /\ room.capacity \in Nat /\ room.capacity \in Capacities
      /\ room.told \in Seq({"connect", "disconnect"} \X Members) /\ room.logic \in BOOLEAN
      /\ Len(room.connections) \in Nat
  BY RoomAssumption, LenProperties DEF Room, RoomAssumption
<1>2. s \in Seq(Members) /\ Len(s) = Len(room.connections) - 1
  BY <1>1, RemoveAtProperties
<1>3. what \in {"connect", "disconnect"} \X Members
  BY <1>1, ElementOfSeq
<1>4. Append(room.told, what) \in Seq({"connect", "disconnect"} \X Members)
  BY <1>1, <1>3, AppendProperties
<1>5. room.logic => Believes(s, Append(room.told, what))
  BY <1>1, LeaveBelieved DEF Sound
<1> HIDE DEF s, what
<1>6. /\ after \in Room /\ after.connections = s /\ after.capacity = room.capacity
      /\ after.logic = room.logic /\ (room.logic => after.told = Append(room.told, what))
  BY <1>1, <1>2, <1>4 DEF After, Room
<1> HIDE DEF after
<1>7. Len(s) <= room.capacity
  BY <1>1, <1>2 DEF Sound
<1>8. after \in Room /\ Sound(after)
  BY <1>5, <1>6, <1>7 DEF Sound
<1> QED
  BY <1>8 DEF after, s, what

-----------------------------------------------------------------------------
(* The manager and its rooms. *)

\* What the operations keep: the registry names rooms that exist, and every room
\* ever created is sound, whether the manager still knows it or not.
Kept ==
  /\ objects \in Seq(Room)
  /\ registry \in [Ids -> 0..Len(objects)]
  /\ panicked \in BOOLEAN
  /\ \A r \in 1..Len(objects) : Sound(objects[r])

\* A step that leaves the rooms alone.
LEMMA RoomsUnchanged ==
  ASSUME Kept, objects' = objects, registry' \in [Ids -> 0..Len(objects)],
         panicked' \in BOOLEAN
  PROVE  Kept'
BY DEF Kept

LEMMA KeptInit == RoomsInit => Kept
<1> SUFFICES ASSUME RoomsInit PROVE Kept
  OBVIOUS
<1>1. objects \in Seq(Room) /\ Len(objects) = 0
  <2>1. << >> \in Seq(Room) /\ Len(<< >>) = 0
    BY EmptySeq
  <2> QED
    BY <2>1 DEF RoomsInit
<1>2. registry \in [Ids -> 0..Len(objects)]
  <2>1. 0 \in 0..Len(objects) /\ registry = [id \in Ids |-> 0]
    BY <1>1 DEF RoomsInit
  <2> QED
    BY <2>1
<1>3. panicked \in BOOLEAN
  BY DEF RoomsInit
<1> QED
  BY <1>1, <1>2, <1>3 DEF Kept

\* A step that replaces one room by a sound one.
LEMMA OneRoomChanges ==
  ASSUME Kept, NEW r \in 1..Len(objects), NEW room \in Room, Sound(room),
         objects' = [objects EXCEPT ![r] = room], registry' = registry, panicked' \in BOOLEAN
  PROVE  Kept'
<1>1. objects \in Seq(Room)
  BY DEF Kept
<1>2. /\ objects' \in Seq(Room) /\ Len(objects') = Len(objects)
      /\ \A j \in 1..Len(objects) : objects'[j] = IF j = r THEN room ELSE objects[j]
  BY <1>1, ExceptSeq
<1>3. \A j \in 1..Len(objects') : Sound(objects'[j])
  BY <1>2 DEF Kept
<1>4. registry' \in [Ids -> 0..Len(objects')]
  BY <1>2 DEF Kept
<1> QED
  BY <1>2, <1>3, <1>4 DEF Kept, Sound, Believes, Occurrences

LEMMA LeastOfNaturals ==
  ASSUME NEW T, T \subseteq Nat, T # {}
  PROVE  \E m \in T : \A k \in T : m <= k
<1> DEFINE Less == {pair \in Nat \X Nat : pair[1] < pair[2]}
<1>1. IsWellFoundedOn(Less, Nat)
  BY NatLessThanWellFounded DEF OpToRel
<1>2. ASSUME NEW m \in T, NEW k \in T, <<k, m>> \notin Less PROVE m <= k
  <2>1. m \in Nat /\ k \in Nat
    OBVIOUS
  <2>2. ~(k < m)
    BY <1>2, <2>1
  <2> QED
    BY <2>1, <2>2
<1> HIDE DEF Less
<1>3. \E m \in T : \A k \in T : <<k, m>> \notin Less
  BY <1>1, WFMin
<1> QED
  BY <1>2, <1>3

\* What Tell does to the room it is about.
LEMMA TellChangesOneRoom ==
  ASSUME Kept, NEW r \in 1..Len(objects), NEW connections, NEW what,
         Tell(r, connections, what)
  PROVE  /\ objects' = [objects EXCEPT ![r] = After(objects[r], connections, what)]
         /\ panicked' \in BOOLEAN
<1>1. objects \in Seq(Room) /\ objects[r] \in Room
  BY ElementOfSeq DEF Kept
<1>2. panicked' \in BOOLEAN
  BY DEF Tell
<1>3. objects' = [objects EXCEPT ![r] = After(objects[r], connections, what)]
  BY <1>1 DEF Tell, After, Room
<1> QED
  BY <1>2, <1>3

LEMMA JoinKept ==
  ASSUME Kept, NEW r \in 1..Len(objects), NEW c \in Members, JoinRoom(r, c),
         registry' = registry
  PROVE  Kept'
<1>1. objects[r] \in Room /\ Sound(objects[r]) /\ panicked \in BOOLEAN
  BY ElementOfSeq DEF Kept
<1> DEFINE after == After(objects[r], Append(objects[r].connections, c), <<"connect", c>>)
<1>2. CASE IsFull(objects[r])
  <2>1. objects' = objects /\ panicked' = panicked /\ registry \in [Ids -> 0..Len(objects)]
    BY <1>2 DEF JoinRoom, Kept
  <2> QED
    BY <1>1, <2>1, RoomsUnchanged
<1>3. CASE ~IsFull(objects[r])
  <2>1. Tell(r, Append(objects[r].connections, c), <<"connect", c>>)
    BY <1>3 DEF JoinRoom
  <2>2. objects' = [objects EXCEPT ![r] = after] /\ panicked' \in BOOLEAN
    BY <2>1, TellChangesOneRoom
  <2>3. after \in Room /\ Sound(after)
    BY <1>1, <1>3, JoinSound
  <2> HIDE DEF after
  <2> QED
    BY <2>2, <2>3, OneRoomChanges
<1> QED
  BY <1>2, <1>3

LEMMA LeaveKept ==
  ASSUME Kept, NEW r \in 1..Len(objects), NEW c \in Members, LeaveRoom(r, c),
         registry' = registry
  PROVE  Kept'
<1>1. objects[r] \in Room /\ Sound(objects[r]) /\ panicked \in BOOLEAN
  BY ElementOfSeq DEF Kept
<1>0. Len(objects[r].connections) \in Nat
  BY <1>1, LenProperties DEF Room
<1> DEFINE places == {i \in 1..Len(objects[r].connections) : objects[r].connections[i] = c}
           i == CHOOSE j \in places : \A k \in places : j <= k
           after == After(objects[r], RemoveAt(objects[r].connections, i),
                          <<"disconnect", objects[r].connections[i]>>)
<1>2. CASE places = {}
  <2>1. objects' = objects /\ panicked' = panicked /\ registry \in [Ids -> 0..Len(objects)]
    BY <1>2 DEF LeaveRoom, Kept
  <2> QED
    BY <1>1, <2>1, RoomsUnchanged
<1>3. CASE places # {}
  <2>1. Tell(r, RemoveAt(objects[r].connections, i), <<"disconnect", c>>)
    BY <1>3 DEF LeaveRoom
  <2>2. i \in places
    <3>1. places \subseteq Nat
      BY <1>0
    <3> HIDE DEF places
    <3>2. \E j \in places : \A k \in places : j <= k
      BY <1>3, <3>1, LeastOfNaturals
    <3> QED
      BY <3>2
  <2>3. i \in 1..Len(objects[r].connections) /\ objects[r].connections[i] = c
    BY <2>2
  <2> HIDE DEF i, places
  <2>4. objects' = [objects EXCEPT ![r] = after] /\ panicked' \in BOOLEAN
    BY <2>1, <2>3, TellChangesOneRoom
  <2>5. after \in Room /\ Sound(after)
    BY <1>1, <2>3, LeaveSound
  <2> HIDE DEF after
  <2> QED
    BY <2>4, <2>5, OneRoomChanges
<1> QED
  BY <1>2, <1>3

LEMMA CreateKept ==
  ASSUME Kept, NEW id \in Ids, NEW capacity \in Capacities, NEW logic \in Logics,
         CreateRoom(id, capacity, logic)
  PROVE  Kept'
<1> DEFINE room == [capacity |-> capacity, logic |-> logic,
                    connections |-> << >>, told |-> << >>]
<1>1. objects \in Seq(Room) /\ registry \in [Ids -> 0..Len(objects)] /\ Len(objects) \in Nat
  BY LenProperties DEF Kept
<1>2. room \in Room
  BY RoomAssumption, EmptySeq DEF Room, RoomAssumption
<1>3. Sound(room)
  <2>1. Believes(<< >>, << >>)
    BY NothingOccurs DEF Believes
  <2>2. capacity \in Nat /\ Len(<< >>) = 0
    BY RoomAssumption, EmptySeq DEF RoomAssumption
  <2> QED
    BY <2>1, <2>2 DEF Sound
<1>4. objects' = Append(objects, room) /\ registry' = [registry EXCEPT ![id] = Len(objects) + 1]
      /\ panicked' = panicked
  BY DEF CreateRoom
<1> HIDE DEF room
<1>5. /\ objects' \in Seq(Room) /\ Len(objects') = Len(objects) + 1
      /\ objects'[Len(objects) + 1] = room
      /\ \A j \in 1..Len(objects) : objects'[j] = objects[j]
  BY <1>1, <1>2, <1>4, AppendProperties
<1>6. \A j \in 1..Len(objects') : Sound(objects'[j])
  <2> TAKE j \in 1..Len(objects')
  <2>1. j \in 1..Len(objects) \/ j = Len(objects) + 1
    BY <1>1, <1>5
  <2> QED
    BY <1>3, <1>5, <2>1 DEF Kept
<1>7. registry' \in [Ids -> 0..Len(objects')]
  BY <1>1, <1>4, <1>5
<1> QED
  BY <1>4, <1>5, <1>6, <1>7 DEF Kept, Sound, Believes, Occurrences

LEMMA KeptStep == Kept /\ [RoomsNext]_roomVars => Kept'
<1> SUFFICES ASSUME Kept, [RoomsNext]_roomVars PROVE Kept'
  OBVIOUS
<1>1. /\ registry \in [Ids -> 0..Len(objects)] /\ Len(objects) \in Nat
      /\ \A id \in Ids : registry[id] # 0 => registry[id] \in 1..Len(objects)
  BY LenProperties DEF Kept
<1>2. ASSUME NEW id \in Ids, NEW capacity \in Capacities, NEW logic \in Logics,
             CreateRoom(id, capacity, logic)
      PROVE  Kept'
  BY <1>2, CreateKept
<1>3. ASSUME NEW id \in Ids, DeleteRoom(id) PROVE Kept'
  BY <1>1, <1>3, RoomsUnchanged DEF DeleteRoom, Kept
<1>4. ASSUME NEW id \in Ids, NEW c \in Members, AddConnection(id, c) PROVE Kept'
  BY <1>1, <1>4, JoinKept DEF AddConnection
<1>5. ASSUME NEW id \in Ids, NEW c \in Members, RemoveConnection(id, c) PROVE Kept'
  BY <1>1, <1>5, LeaveKept DEF RemoveConnection
<1>6. ASSUME NEW r \in 1..Len(objects), NEW c \in Members, JoinHeld(r, c) \/ LeaveHeld(r, c)
      PROVE  Kept'
  BY <1>6, JoinKept, LeaveKept DEF JoinHeld, LeaveHeld
<1>7. CASE UNCHANGED roomVars
  BY <1>7, RoomsUnchanged DEF roomVars, Kept
<1> QED
  BY <1>2, <1>3, <1>4, <1>5, <1>6, <1>7 DEF RoomsNext, Manage, Hold

\* No order of joins and leaves overfills a room, and the registry names rooms
\* that were created (CreateRoom, DeleteRoom, JoinRoom, LeaveRoom).
THEOREM RoomTypes == RoomsSpec => []RoomsTypeOK
<1>1. Kept => RoomsTypeOK
  BY DEF Kept, RoomsTypeOK, Sound
<1> QED
  BY <1>1, KeptInit, KeptStep, PTL DEF RoomsSpec

\* What a Logic has been told, and who is in its room: see LogicAgrees.
THEOREM LogicsAgree == RoomsSpec => []LogicAgrees
<1>1. Kept => LogicAgrees
  BY DEF Kept, LogicAgrees, Sound, Believes
<1> QED
  BY <1>1, KeptInit, KeptStep, PTL DEF RoomsSpec

-----------------------------------------------------------------------------
(* The live application: a frame at the front of a ring. *)

Byte == {Magic} \union Nat

LEMMA StreamConstants ==
  /\ Cap \in Nat /\ ChanCap \in Nat \ {0} /\ MaxRead \in Nat /\ "none" \notin Conns
  /\ \A c \in Conns : Stream[c] \in Seq(Byte) /\ Len(Stream[c]) \in Nat
BY StreamAssumption DEF StreamAssumption, Byte

LEMMA ValueProperties ==
  ASSUME NEW c \in Conns, NEW s \in Seq(Positions(c))
  PROVE  /\ Value(c, s) \in Seq(Byte) /\ Len(Value(c, s)) = Len(s)
         /\ \A i \in 1..Len(s) : Value(c, s)[i] = Stream[c][s[i]]
<1>1. Len(s) \in Nat /\ \A i \in 1..Len(s) : s[i] \in Positions(c)
  BY LenProperties, ElementOfSeq
<1>2. \A i \in 1..Len(s) : Stream[c][s[i]] \in Byte
  BY <1>1, StreamConstants, ElementOfSeq DEF Positions
<1>3. Value(c, s) \in [1..Len(s) -> Byte]
  BY <1>2 DEF Value
<1> QED
  BY <1>1, <1>3 DEF Value

\* A complete frame and what is left of the ring without it.
LEMMA FrameAtFront ==
  ASSUME NEW c \in Conns, NEW s \in Seq(Positions(c)), HasFrame(Value(c, s))
  PROVE  LET n == Total(Value(c, s))
             f == SubSeq(s, 1, n)
             t == Skip(s, n)
         IN  /\ n \in HeaderSize..Len(s)
             /\ f \in Seq(Positions(c)) /\ Len(f) = n /\ \A k \in 1..n : f[k] = s[k]
             /\ t \in Seq(Positions(c)) /\ Len(t) = Len(s) - n
             /\ \A k \in 1..Len(s) - n : t[k] = s[n + k]
             /\ HasHeader(Value(c, f)) /\ Total(Value(c, f)) = n
<1> DEFINE v == Value(c, s)
           n == Total(v)
           f == SubSeq(s, 1, n)
           t == Skip(s, n)
<1>1. v \in Seq(Byte) /\ Len(v) = Len(s) /\ Len(s) \in Nat /\ \A i \in 1..Len(s) : s[i] \in Positions(c)
  BY ValueProperties, LenProperties, ElementOfSeq
<1>2. v[1] = Magic /\ v[2] \in Nat /\ n \in HeaderSize..Len(s)
  <2>1. v[1] = Magic /\ Len(v) >= 2 /\ v[2] >= 0 /\ Len(v) >= n /\ n = 2 + v[2]
    BY DEF HasFrame, HasHeader, Total, HeaderSize
  <2>2. v[2] \in Byte
    BY <1>1, <2>1, ElementOfSeq
  <2>3. v[2] \in Nat
    BY <2>1, <2>2 DEF Byte, Magic
  <2> QED
    BY <1>1, <2>1, <2>3 DEF HeaderSize
<1>3. f \in Seq(Positions(c)) /\ Len(f) = n /\ \A k \in 1..n : f[k] = s[k]
  <2> HIDE DEF n
  <2> QED
    BY <1>1, <1>2 DEF HeaderSize
<1>4. t \in Seq(Positions(c)) /\ Len(t) = Len(s) - n /\ \A k \in 1..Len(s) - n : t[k] = s[n + k]
  <2> HIDE DEF n
  <2> QED
    BY <1>1, <1>2 DEF HeaderSize, Skip
<1> HIDE DEF f, t
<1>5. HasHeader(Value(c, f)) /\ Total(Value(c, f)) = n
  <2>1. /\ Len(Value(c, f)) = n /\ Value(c, f)[1] = v[1] /\ Value(c, f)[2] = v[2]
    <3> HIDE DEF n
    <3>1. \A i \in 1..Len(s) : v[i] = Stream[c][s[i]]
      BY ValueProperties
    <3>2. Len(Value(c, f)) = Len(f) /\ \A i \in 1..Len(f) : Value(c, f)[i] = Stream[c][f[i]]
      BY <1>3, ValueProperties
    <3> HIDE DEF v
    <3>3. 1 \in 1..n /\ 2 \in 1..n /\ 1 \in 1..Len(s) /\ 2 \in 1..Len(s)
      BY <1>1, <1>2 DEF HeaderSize
    <3> QED
      BY <1>3, <3>1, <3>2, <3>3
  <2>2. Total(Value(c, f)) = n
    BY <2>1 DEF Total
  <2>3. Len(Value(c, f)) >= HeaderSize
    <3> HIDE DEF n
    <3> QED
      BY <1>2, <2>1 DEF HeaderSize
  <2> QED
    BY <1>2, <2>1, <2>2, <2>3 DEF HasHeader
<1> QED
  BY <1>2, <1>3, <1>4, <1>5 DEF f, t

-----------------------------------------------------------------------------
(* The live application: types, and nothing left behind. *)

Waiting == StreamTypeOK /\ NothingLeftBehind

LEMMA WaitingInit == StreamInit => Waiting
<1> SUFFICES ASSUME StreamInit PROVE Waiting
  OBVIOUS
<1>1. << >> \in Seq(Frame) /\ Len(<< >>) = 0
  BY EmptySeq
<1>2. \A c \in Conns : arrived[c] = 0 /\ ring[c] = << >>
  BY DEF StreamInit
<1>3. /\ arrived \in [Conns -> Nat] /\ ring \in [Conns -> Seq(Nat)]
  <2>1. << >> \in Seq(Nat)
    BY EmptySeq
  <2> QED
    BY <2>1 DEF StreamInit
<1>4. \A c \in Conns : /\ arrived[c] <= Len(Stream[c])
                       /\ ring[c] \in Seq(Positions(c)) /\ Len(ring[c]) <= Cap
  <2> TAKE c \in Conns
  <2>1. ring[c] \in Seq(Positions(c)) /\ Len(ring[c]) = 0
    BY <1>2, EmptySeq
  <2> QED
    BY <1>2, <2>1, StreamConstants
<1>5. StreamTypeOK
  <2>1. /\ status \in {"running", "draining", "stopped"} /\ current \in Conns \union {"none"}
        /\ app \in {"running", "stopped"} /\ lost \subseteq Conns
    BY DEF StreamInit
  <2>2. {cancelled, late} \subseteq BOOLEAN
    BY DEF StreamInit
  <2>3. chan \in Seq(Frame) /\ Len(chan) <= ChanCap /\ processed \in Seq(Frame)
    BY <1>1, StreamConstants DEF StreamInit
  <2> QED
    BY <1>3, <1>4, <2>1, <2>2, <2>3 DEF StreamTypeOK
<1>6. ASSUME NEW c \in Conns PROVE ~HasFrame(Value(c, ring[c]))
  <2>1. ring[c] \in Seq(Positions(c)) /\ Len(ring[c]) = 0
    BY <1>2, EmptySeq
  <2>2. Len(Value(c, ring[c])) = 0
    BY <2>1, ValueProperties
  <2> QED
    BY <2>2 DEF HasFrame, HasHeader, HeaderSize
<1> QED
  BY <1>5, <1>6 DEF Waiting, NothingLeftBehind

\* The positions of a chunk.
ChunkAt(a, n) == [i \in 1..n |-> a + i]

LEMMA ChunkProperties ==
  ASSUME NEW a \in Nat, NEW n \in Nat, NEW P, \A p \in a + 1..a + n : p \in P
  PROVE  /\ ChunkAt(a, n) \in Seq(P) /\ Len(ChunkAt(a, n)) = n
         /\ \A i \in 1..n : ChunkAt(a, n)[i] = a + i
<1>1. ChunkAt(a, n) \in [1..n -> P]
  BY DEF ChunkAt
<1> QED
  BY <1>1 DEF ChunkAt

\* What Receive does to the ring of its connection.
LEMMA ChunkFed ==
  ASSUME StreamTypeOK, NEW c \in Conns, NEW n \in 1..MaxRead, Receive(c, n), Fits(c, n)
  PROVE  LET s == ring'[c]
         IN  /\ ring' = [ring EXCEPT ![c] = s]
             /\ s \in Seq(Positions(c)) /\ s \in Seq(Nat) /\ Len(s) = Len(ring[c]) + n
             /\ Len(s) <= Cap
             /\ \A k \in 1..Len(ring[c]) : s[k] = ring[c][k]
             /\ \A k \in 1..n : s[Len(ring[c]) + k] = arrived[c] + k
<1> DEFINE s == ring[c] \o ChunkAt(arrived[c], n)
<1>1. /\ arrived[c] \in Nat /\ n \in Nat /\ ring[c] \in Seq(Positions(c)) /\ Len(ring[c]) \in Nat
      /\ arrived[c] + n <= Len(Stream[c]) /\ Len(Stream[c]) \in Nat
      /\ ring[c] \in Seq(Nat) /\ ring \in [Conns -> Seq(Nat)]
  BY StreamConstants, LenProperties DEF StreamTypeOK, Receive
<1>2. \A p \in arrived[c] + 1..arrived[c] + n : p \in Positions(c) /\ p \in Nat
  BY <1>1 DEF Positions
<1>3. /\ ChunkAt(arrived[c], n) \in Seq(Positions(c)) /\ ChunkAt(arrived[c], n) \in Seq(Nat)
      /\ Len(ChunkAt(arrived[c], n)) = n
      /\ \A i \in 1..n : ChunkAt(arrived[c], n)[i] = arrived[c] + i
  BY <1>1, <1>2, ChunkProperties
<1>4. ring' = [ring EXCEPT ![c] = s]
  BY DEF Receive, ChunkAt
<1> HIDE DEF s
<1>5. ring'[c] = s
  BY <1>1, <1>4
<1>6. s \in Seq(Positions(c)) /\ s \in Seq(Nat) /\ Len(s) = Len(ring[c]) + n
  <2> DEFINE k == ChunkAt(arrived[c], n)
  <2> HIDE DEF k
  <2>1. k \in Seq(Positions(c)) /\ k \in Seq(Nat) /\ Len(k) = n /\ s = ring[c] \o k
    BY <1>3 DEF s, k
  <2> QED
    BY <1>1, <2>1, ConcatProperties
<1>7. Len(s) <= Cap
  BY <1>1, <1>6, StreamConstants DEF Fits
<1>8. \A k \in 1..Len(ring[c]) : s[k] = ring[c][k]
  BY <1>1, <1>3, ConcatProperties DEF s
<1>9. ASSUME NEW k \in 1..n PROVE s[Len(ring[c]) + k] = arrived[c] + k
  <2>1. s[Len(ring[c]) + k] = ChunkAt(arrived[c], n)[k]
    <3>1. Len(ring[c]) + k \in 1..Len(ring[c]) + n /\ ~(Len(ring[c]) + k <= Len(ring[c]))
          /\ (Len(ring[c]) + k) - Len(ring[c]) = k
      BY <1>1
    <3> QED
      BY <1>1, <1>3, <3>1, ConcatProperties DEF s
  <2> QED
    BY <1>3, <2>1
<1> QED
  BY <1>4, <1>5, <1>6, <1>7, <1>8, <1>9

LEMMA ReceiveWaiting ==
  ASSUME Waiting, NEW c \in Conns, NEW n \in 1..MaxRead, Receive(c, n)
  PROVE  Waiting'
<1>1. /\ arrived[c] \in Nat /\ n \in Nat /\ arrived[c] + n <= Len(Stream[c])
      /\ arrived' = [arrived EXCEPT ![c] = @ + n]
      /\ UNCHANGED <<status, chan, app, processed, cancelled, late>>
  BY StreamConstants DEF Waiting, StreamTypeOK, Receive
<1>2. arrived' \in [Conns -> Nat] /\ \A d \in Conns : arrived'[d] <= Len(Stream[d])
  <2>1. arrived'[c] = arrived[c] + n /\ \A d \in Conns \ {c} : arrived'[d] = arrived[d]
    BY <1>1 DEF Waiting, StreamTypeOK
  <2>2. arrived' \in [Conns -> Nat]
    BY <1>1 DEF Waiting, StreamTypeOK
  <2> QED
    BY <1>1, <2>1, <2>2 DEF Waiting, StreamTypeOK
<1>3. CASE Fits(c, n)
  <2> DEFINE s == ring'[c]
  <2>1. /\ ring' = [ring EXCEPT ![c] = s] /\ s \in Seq(Positions(c)) /\ s \in Seq(Nat)
        /\ Len(s) <= Cap
    BY <1>3, ChunkFed DEF Waiting
  <2>2. current = "none" /\ current' = c /\ lost' = lost
    BY <1>3 DEF Receive
  <2> HIDE DEF s
  <2>3. /\ ring' \in [Conns -> Seq(Nat)] /\ \A d \in Conns \ {c} : ring'[d] = ring[d]
        /\ ring'[c] = s
    BY <2>1 DEF Waiting, StreamTypeOK
  <2>4. \A d \in Conns : ring'[d] \in Seq(Positions(d)) /\ Len(ring'[d]) <= Cap
    BY <2>1, <2>3 DEF Waiting, StreamTypeOK
  <2>5. StreamTypeOK'
    BY <1>1, <1>2, <2>2, <2>3, <2>4 DEF Waiting, StreamTypeOK, Positions
  <2>6. ASSUME NEW d \in Conns, current' # d PROVE ~HasFrame(Value(d, ring'[d]))
    BY <2>2, <2>3, <2>6, StreamConstants DEF Waiting, NothingLeftBehind
  <2>7. NothingLeftBehind'
    BY <2>6 DEF NothingLeftBehind, Value
  <2> QED
    BY <2>5, <2>7 DEF Waiting
<1>4. CASE ~Fits(c, n)
  <2>1. lost' = lost \union {c} /\ UNCHANGED <<ring, current>>
    BY <1>4 DEF Receive
  <2>2. StreamTypeOK'
    BY <1>1, <1>2, <2>1 DEF Waiting, StreamTypeOK, Positions
  <2> QED
    BY <2>1, <2>2 DEF Waiting, NothingLeftBehind, Value
<1> QED
  BY <1>3, <1>4

\* What HandOver does.
LEMMA FrameTaken ==
  ASSUME StreamTypeOK, HandOver
  PROVE  \E f \in Frame :
           LET s == ring[current]
               n == Len(f.at)
               t == ring'[current]
           IN  /\ current \in Conns /\ f.conn = current /\ n \in HeaderSize..Len(s)
               /\ \A k \in 1..n : f.at[k] = s[k]
               /\ f.at \in Seq(Positions(current))
               /\ HasHeader(Value(current, f.at)) /\ Total(Value(current, f.at)) = n
               /\ ring' = [ring EXCEPT ![current] = t]
               /\ t \in Seq(Positions(current)) /\ t \in Seq(Nat) /\ Len(t) = Len(s) - n
               /\ \A k \in 1..Len(s) - n : t[k] = s[n + k]
               /\ chan' = Append(chan, f) /\ Len(chan) < ChanCap
               /\ UNCHANGED <<status, current, arrived, app, processed, cancelled, late, lost>>
<1> DEFINE s == ring[current]
           n == Total(Value(current, s))
           f == [conn |-> current, at |-> SubSeq(s, 1, n)]
           t == Skip(s, n)
<1>1. /\ current \in Conns /\ s \in Seq(Positions(current)) /\ HasFrame(Value(current, s))
      /\ ring \in [Conns -> Seq(Nat)]
  BY DEF HandOver, StreamTypeOK
<1>2. /\ n \in HeaderSize..Len(s)
      /\ f.at \in Seq(Positions(current)) /\ Len(f.at) = n /\ \A k \in 1..n : f.at[k] = s[k]
      /\ t \in Seq(Positions(current)) /\ Len(t) = Len(s) - n
      /\ \A k \in 1..Len(s) - n : t[k] = s[n + k]
      /\ HasHeader(Value(current, f.at)) /\ Total(Value(current, f.at)) = n
  BY <1>1, FrameAtFront
<1>3. /\ chan' = Append(chan, f) /\ Len(chan) < ChanCap /\ ring' = [ring EXCEPT ![current] = t]
      /\ UNCHANGED <<status, current, arrived, app, processed, cancelled, late, lost>>
  BY DEF HandOver
<1> HIDE DEF n, t
<1>4. ring'[current] = t
  BY <1>1, <1>3
<1>5. \A x \in Seq(Positions(current)) : x \in Seq(Nat)
  BY StreamConstants, SeqMonotonic DEF Positions
<1>6. f \in Frame
  BY <1>1, <1>2, <1>5 DEF Frame
<1> HIDE DEF f
<1>7. f.conn = current
  BY DEF f
<1>8. Len(f.at) = n
  BY <1>2
<1> QED
  BY <1>1, <1>2, <1>3, <1>4, <1>5, <1>6, <1>7, <1>8

LEMMA HandOverWaiting == ASSUME Waiting, HandOver PROVE Waiting'
<1>0. StreamTypeOK
  BY DEF Waiting
<1>1. PICK f \in Frame :
        /\ current \in Conns
        /\ ring' = [ring EXCEPT ![current] = ring'[current]]
        /\ ring'[current] \in Seq(Positions(current)) /\ ring'[current] \in Seq(Nat)
        /\ Len(ring'[current]) = Len(ring[current]) - Len(f.at)
        /\ Len(f.at) \in HeaderSize..Len(ring[current])
        /\ chan' = Append(chan, f) /\ Len(chan) < ChanCap
        /\ UNCHANGED <<status, current, arrived, app, processed, cancelled, late, lost>>
  BY <1>0, FrameTaken
<1> DEFINE t == ring'[current]
<1>2. t \in Seq(Positions(current)) /\ t \in Seq(Nat) /\ Len(t) <= Cap
  BY <1>0, <1>1, StreamConstants, LenProperties DEF StreamTypeOK, HeaderSize
<1>3. ring' = [ring EXCEPT ![current] = t]
  BY <1>1
<1> HIDE DEF t
<1>4. /\ ring' \in [Conns -> Seq(Nat)] /\ \A d \in Conns \ {current} : ring'[d] = ring[d]
      /\ ring'[current] = t
  BY <1>0, <1>1, <1>2, <1>3 DEF StreamTypeOK
<1>5. \A d \in Conns : ring'[d] \in Seq(Positions(d)) /\ Len(ring'[d]) <= Cap
  BY <1>0, <1>2, <1>4 DEF StreamTypeOK
<1>6. chan' \in Seq(Frame) /\ Len(chan') <= ChanCap
  BY <1>0, <1>1, StreamConstants, AppendProperties, LenProperties DEF StreamTypeOK
<1>7. StreamTypeOK'
  BY <1>0, <1>1, <1>4, <1>5, <1>6 DEF StreamTypeOK, Positions
<1>8. ASSUME NEW d \in Conns, current' # d PROVE ~HasFrame(Value(d, ring'[d]))
  BY <1>1, <1>4, <1>8 DEF Waiting, NothingLeftBehind
<1>9. NothingLeftBehind'
  BY <1>8 DEF NothingLeftBehind, Value
<1> QED
  BY <1>7, <1>9 DEF Waiting

LEMMA WaitingKept == Waiting /\ [StreamNext]_streamVars => Waiting'
<1> SUFFICES ASSUME Waiting, [StreamNext]_streamVars PROVE Waiting'
  OBVIOUS
<1>1. ASSUME NEW c \in Conns, NEW n \in 1..MaxRead, Receive(c, n) PROVE Waiting'
  BY <1>1, ReceiveWaiting
<1>2. CASE HandOver
  BY <1>2, HandOverWaiting
<1>3. CASE ReturnError
  BY <1>3, StreamConstants
     DEF ReturnError, Waiting, StreamTypeOK, NothingLeftBehind, Positions, Value
<1>4. CASE Take
  <2>1. chan' \in Seq(Frame) /\ Len(chan') <= ChanCap /\ processed' \in Seq(Frame)
    <3>1. chan \in Seq(Frame) /\ chan # << >> /\ processed \in Seq(Frame)
      BY <1>4 DEF Take, Waiting, StreamTypeOK
    <3>2. Head(chan) \in Frame /\ Tail(chan) \in Seq(Frame) /\ Len(Tail(chan)) = Len(chan) - 1
      BY <3>1, HeadTailProperties
    <3>3. Append(processed, Head(chan)) \in Seq(Frame)
      BY <3>1, <3>2, AppendProperties
    <3>4. Len(chan) <= ChanCap /\ Len(chan) \in Nat
      BY <3>1, LenProperties DEF Waiting, StreamTypeOK
    <3> QED
      BY <1>4, <3>2, <3>3, <3>4, StreamConstants DEF Take
  <2> QED
    BY <1>4, <2>1 DEF Take, Waiting, StreamTypeOK, NothingLeftBehind, Positions, Value
<1>5. CASE StartDraining
  BY <1>5 DEF StartDraining, Waiting, StreamTypeOK, NothingLeftBehind, Positions, Value
<1>6. CASE StopServing
  BY <1>6 DEF StopServing, Waiting, StreamTypeOK, NothingLeftBehind, Positions, Value
<1>7. CASE DeadlinePasses
  BY <1>7 DEF DeadlinePasses, Waiting, StreamTypeOK, NothingLeftBehind, Positions, Value
<1>8. CASE Cancel
  BY <1>8 DEF Cancel, Waiting, StreamTypeOK, NothingLeftBehind, Positions, Value
<1>9. CASE StopApp
  BY <1>9 DEF StopApp, Waiting, StreamTypeOK, NothingLeftBehind, Positions, Value
<1>10. CASE UNCHANGED streamVars
  BY <1>10 DEF streamVars, Waiting, StreamTypeOK, NothingLeftBehind, Positions, Value
<1> QED
  BY <1>1, <1>2, <1>3, <1>4, <1>5, <1>6, <1>7, <1>8, <1>9, <1>10
     DEF StreamNext, Reading, Serve, Gather, LiveApp

\* The types: no RingReader and no channel holds more than its capacity.
THEOREM StreamTypes == StreamSpec => []StreamTypeOK
<1>1. Waiting => StreamTypeOK
  BY DEF Waiting
<1> QED
  BY <1>1, WaitingInit, WaitingKept, PTL DEF StreamSpec

\* OnData never returns while a complete frame waits in the ring.
THEOREM StreamNothingLeft == StreamSpec => []NothingLeftBehind
<1>1. Waiting => NothingLeftBehind
  BY DEF Waiting
<1> QED
  BY <1>1, WaitingInit, WaitingKept, PTL DEF StreamSpec

-----------------------------------------------------------------------------
(* The live application: frames in a sequence. *)

EndOf(f) == f.at[Len(f.at)]

\* The frames of c in h go up to position d of its stream.
UpTo(h, c, d) ==
  \/ d = 0 /\ \A i \in 1..Len(h) : h[i].conn # c
  \/ \E i \in 1..Len(h) : /\ h[i].conn = c /\ EndOf(h[i]) = d
                          /\ \A k \in i + 1..Len(h) : h[k].conn # c

PrecedesIn(h, i, j) ==
  /\ i < j /\ h[i].conn = h[j].conn
  /\ \A k \in i + 1..j - 1 : h[k].conn # h[j].conn

\* The layout of a frame, and that its bytes follow each other.
WellFormed(f) ==
  /\ HasHeader(Value(f.conn, f.at)) /\ Len(Value(f.conn, f.at)) = Total(Value(f.conn, f.at))
  /\ f.at = [k \in 1..Len(f.at) |-> f.at[1] + k - 1]

\* Frame j of h is one of its stream, and goes on where the one before it ends.
RightIn(h, j) ==
  /\ WellFormed(h[j])
  /\ h[j].at[1] = 1 \/ \E i \in 1..j - 1 : PrecedesIn(h, i, j)
  /\ \A i \in 1..j - 1 : PrecedesIn(h, i, j) => h[j].at[1] = EndOf(h[i]) + 1

LEMMA FramesRight ==
  FramesAreTheStreams <=> \A j \in 1..Len(Handed) : Handed[j].conn \notin lost => RightIn(Handed, j)
<1>1. \A i, j : Precedes(i, j) <=> PrecedesIn(Handed, i, j)
  BY DEF Precedes, PrecedesIn
<1> QED
  BY <1>1 DEF FramesAreTheStreams, RightIn, WellFormed, EndOf

LEMMA FramesRightNext ==
  FramesAreTheStreams' <=>
    \A j \in 1..Len(Handed') : Handed'[j].conn \notin lost' => RightIn(Handed', j)
<1>1. \A i, j : Precedes(i, j)' <=> PrecedesIn(Handed', i, j)
  BY DEF Precedes, PrecedesIn
<1> QED
  BY <1>1 DEF FramesAreTheStreams, RightIn, WellFormed, EndOf, Value

\* Another frame changes nothing about those that are there, nor about the other
\* connections.
LEMMA FrameAdded ==
  ASSUME NEW h \in Seq(Frame), NEW f \in Frame
  PROVE  LET u == Append(h, f)
         IN  /\ \A j \in 1..Len(h) : RightIn(h, j) => RightIn(u, j)
             /\ \A c, e : c # f.conn /\ UpTo(h, c, e) => UpTo(u, c, e)
<1> DEFINE u == Append(h, f)
           n == Len(h)
<1>1. /\ n \in Nat /\ u \in Seq(Frame) /\ Len(u) = n + 1 /\ u[n + 1] = f
      /\ \A i \in 1..n : u[i] = h[i]
  BY LenProperties, AppendProperties
<1> HIDE DEF u, n
<1>2. ASSUME NEW j \in 1..n, RightIn(h, j) PROVE RightIn(u, j)
  <2>1. \A i \in 1..j - 1 : i \in 1..n /\ u[i] = h[i]
    BY <1>1
  <2>2. u[j] = h[j]
    BY <1>1
  <2>3. ASSUME NEW i \in 1..j - 1 PROVE PrecedesIn(u, i, j) <=> PrecedesIn(h, i, j)
    <3>1. \A k \in i + 1..j - 1 : k \in 1..j - 1
      BY <1>1
    <3>2. \A k \in i + 1..j - 1 : u[k] = h[k]
      BY <2>1, <3>1
    <3> QED
      BY <2>1, <2>2, <3>2 DEF PrecedesIn
  <2> QED
    BY <1>2, <2>1, <2>2, <2>3 DEF RightIn
<1>3. ASSUME NEW c, NEW e, c # f.conn, UpTo(h, c, e) PROVE UpTo(u, c, e)
  <2>1. CASE e = 0 /\ \A i \in 1..n : h[i].conn # c
    BY <1>1, <1>3, <2>1 DEF UpTo
  <2>2. ASSUME NEW i \in 1..n, h[i].conn = c, EndOf(h[i]) = e,
               \A k \in i + 1..n : h[k].conn # c
        PROVE  UpTo(u, c, e)
    <3>1. i \in 1..Len(u) /\ u[i].conn = c /\ EndOf(u[i]) = e
      BY <1>1, <2>2
    <3>2. \A k \in i + 1..Len(u) : u[k].conn # c
      BY <1>1, <1>3, <2>2
    <3> QED
      BY <3>1, <3>2 DEF UpTo
  <2> QED
    BY <1>3, <2>1, <2>2 DEF UpTo, n
<1> QED
  BY <1>2, <1>3 DEF u, n

\* A frame that begins where the last one of its connection ends.
LEMMA FrameAppended ==
  ASSUME NEW h \in Seq(Frame), NEW f \in Frame, NEW d \in Nat, UpTo(h, f.conn, d),
         HasHeader(Value(f.conn, f.at)),
         Len(Value(f.conn, f.at)) = Total(Value(f.conn, f.at)),
         Len(f.at) \in Nat \ {0}, \A k \in 1..Len(f.at) : f.at[k] = d + k
  PROVE  LET u == Append(h, f)
         IN  /\ RightIn(u, Len(h) + 1)
             /\ UpTo(u, f.conn, d + Len(f.at))
<1> DEFINE u == Append(h, f)
           n == Len(h)
<1>1. /\ n \in Nat /\ u \in Seq(Frame) /\ Len(u) = n + 1 /\ u[n + 1] = f
      /\ \A i \in 1..n : u[i] = h[i]
  BY LenProperties, AppendProperties
<1> HIDE DEF u, n
<1>2. f.at \in Seq(Nat) /\ f.at[1] = d + 1 /\ EndOf(f) = d + Len(f.at)
  <2>1. f.at \in Seq(Nat)
    BY DEF Frame
  <2>2. 1 \in 1..Len(f.at) /\ Len(f.at) \in 1..Len(f.at)
    OBVIOUS
  <2> QED
    BY <2>1, <2>2 DEF EndOf
<1>3. f.at = [k \in 1..Len(f.at) |-> f.at[1] + k - 1]
  <2> DEFINE a == f.at
             m == Len(a)
  <2>1. a \in Seq(Nat) /\ m \in Nat /\ a[1] = d + 1 /\ \A k \in 1..m : a[k] = d + k
    BY <1>2
  <2> HIDE DEF a
  <2>2. a = [k \in 1..m |-> a[k]]
    BY <2>1
  <2>3. \A k \in 1..m : a[k] = a[1] + k - 1
    BY <2>1
  <2>4. a = [k \in 1..m |-> a[1] + k - 1]
    BY <2>2, <2>3
  <2> QED
    BY <2>4 DEF a
<1>4. WellFormed(f)
  BY <1>3 DEF WellFormed
<1>5. RightIn(u, n + 1)
  <2>1. CASE d = 0 /\ \A i \in 1..n : h[i].conn # f.conn
    <3>1. \A i \in 1..n : ~PrecedesIn(u, i, n + 1)
      BY <1>1, <2>1 DEF PrecedesIn
    <3>2. u[n + 1].at[1] = 1
      BY <1>1, <1>2, <2>1
    <3> QED
      BY <1>1, <1>4, <3>1, <3>2 DEF RightIn
  <2>2. ASSUME NEW i \in 1..n, h[i].conn = f.conn, EndOf(h[i]) = d,
               \A k \in i + 1..n : h[k].conn # f.conn
        PROVE  RightIn(u, n + 1)
    <3>1. PrecedesIn(u, i, n + 1)
      <4>1. i < n + 1 /\ u[i].conn = u[n + 1].conn
        BY <1>1, <2>2
      <4>2. \A k \in i + 1..(n + 1) - 1 : k \in 1..n /\ k \in i + 1..n
        BY <1>1
      <4>3. \A k \in i + 1..(n + 1) - 1 : u[k].conn # u[n + 1].conn
        BY <1>1, <2>2, <4>2
      <4> QED
        BY <4>1, <4>3 DEF PrecedesIn
    <3>2. ASSUME NEW k \in 1..n, PrecedesIn(u, k, n + 1)
          PROVE  k = i
      <4>1. u[k].conn = f.conn /\ \A l \in k + 1..n : u[l].conn # f.conn
        BY <1>1, <3>2 DEF PrecedesIn
      <4>2. ~(k < i)
        BY <1>1, <2>2, <4>1
      <4>3. ~(i < k)
        BY <1>1, <2>2, <4>1
      <4> QED
        BY <1>1, <4>2, <4>3
    <3>3. u[n + 1].at[1] = EndOf(u[i]) + 1
      BY <1>1, <1>2, <2>2
    <3>4. i \in 1..(n + 1) - 1 /\ 1..(n + 1) - 1 = 1..n
      BY <1>1
    <3> QED
      BY <1>1, <1>4, <3>1, <3>2, <3>3, <3>4 DEF RightIn
  <2> QED
    BY <2>1, <2>2 DEF UpTo, n
<1>6. UpTo(u, f.conn, d + Len(f.at))
  <2>1. n + 1 \in 1..Len(u) /\ u[n + 1].conn = f.conn /\ EndOf(u[n + 1]) = d + Len(f.at)
    BY <1>1, <1>2
  <2>2. \A k \in (n + 1) + 1..Len(u) : u[k].conn # f.conn
    BY <1>1
  <2> QED
    BY <2>1, <2>2 DEF UpTo
<1> QED
  BY <1>5, <1>6 DEF u, n

\* Taking a frame out of the channel leaves what was handed over.
LEMMA HandedStays ==
  ASSUME StreamTypeOK, chan # << >>
  PROVE  Append(processed, Head(chan)) \o Tail(chan) = Handed
<1>1. processed \in Seq(Frame) /\ chan \in Seq(Frame)
  BY DEF StreamTypeOK
<1>2. \A p, q \in Seq(Frame) : q # << >> => Append(p, Head(q)) \o Tail(q) = p \o q
  OBVIOUS
<1> QED
  BY <1>1, <1>2 DEF Handed

LEMMA HandedGrows ==
  ASSUME StreamTypeOK, NEW f \in Frame
  PROVE  /\ processed \o Append(chan, f) = Append(Handed, f)
         /\ Handed \in Seq(Frame)
<1>1. processed \in Seq(Frame) /\ chan \in Seq(Frame)
  BY DEF StreamTypeOK
<1>2. \A p, q \in Seq(Frame) : p \o Append(q, f) = Append(p \o q, f) /\ p \o q \in Seq(Frame)
  OBVIOUS
<1> QED
  BY <1>1, <1>2 DEF Handed

-----------------------------------------------------------------------------
(* The live application: the frames handed over are those of the streams. *)

\* The ring holds what follows the frames handed over, up to what has arrived.
RingFollows(h, c, d) ==
  /\ UpTo(h, c, d) /\ d + Len(ring[c]) = arrived[c]
  /\ \A k \in 1..Len(ring[c]) : ring[c][k] = d + k

Following == \A c \in Conns \ lost : \E d \in Nat : RingFollows(Handed, c, d)

InStreams == FramesAreTheStreams /\ Following

LEMMA InStreamsInit == StreamInit => InStreams
<1> SUFFICES ASSUME StreamInit PROVE InStreams
  OBVIOUS
<1>1. Handed = << >> /\ Len(Handed) = 0
  BY DEF StreamInit, Handed
<1>2. ASSUME NEW c \in Conns PROVE RingFollows(Handed, c, 0)
  <2>1. ring[c] = << >> /\ arrived[c] = 0 /\ Len(ring[c]) = 0
    BY DEF StreamInit
  <2>2. UpTo(Handed, c, 0)
    BY <1>1 DEF UpTo
  <2> QED
    BY <2>1, <2>2 DEF RingFollows
<1> QED
  BY <1>1, <1>2 DEF InStreams, FramesAreTheStreams, Following

\* Steps that leave the rings, the arrivals and what was handed over.
LEMMA InStreamsStay ==
  ASSUME InStreams, Handed' = Handed, UNCHANGED <<ring, arrived>>, lost \subseteq lost'
  PROVE  InStreams'
<1>1. \A c, d : RingFollows(Handed, c, d)' <=> RingFollows(Handed, c, d)
  BY DEF RingFollows, UpTo, EndOf
<1>2. Following'
  BY <1>1 DEF InStreams, Following
<1>3. FramesAreTheStreams'
  BY FramesRight, FramesRightNext DEF InStreams
<1> QED
  BY <1>2, <1>3 DEF InStreams

\* A chunk that is fed goes on where the ring ends.
LEMMA ReceiveInStreams ==
  ASSUME StreamTypeOK, InStreams, NEW c \in Conns, NEW n \in 1..MaxRead, Receive(c, n)
  PROVE  InStreams'
<1>1. Handed' = Handed /\ lost \subseteq lost'
  BY DEF Receive, Handed
<1>2. /\ arrived' = [arrived EXCEPT ![c] = @ + n] /\ arrived \in [Conns -> Nat]
      /\ ring \in [Conns -> Seq(Nat)] /\ n \in Nat
  BY StreamConstants DEF Receive, StreamTypeOK
<1>3. FramesAreTheStreams'
  BY <1>1, FramesRight, FramesRightNext DEF InStreams
<1>4. ASSUME NEW b \in Conns, b \notin lost' PROVE \E d \in Nat : RingFollows(Handed, b, d)'
  <2>1. PICK d \in Nat : RingFollows(Handed, b, d)
    BY <1>1, <1>4 DEF InStreams, Following
  <2>2. UpTo(Handed, b, d)'
    BY <1>1, <2>1 DEF RingFollows, UpTo, EndOf
  <2>3. CASE b # c
    <3>1. ring'[b] = ring[b] /\ arrived'[b] = arrived[b]
      BY <1>2, <2>3 DEF Receive
    <3> QED
      BY <2>1, <2>2, <3>1 DEF RingFollows
  <2>4. CASE b = c
    <3>1. Fits(c, n)
      BY <1>4, <2>4 DEF Receive
    <3> DEFINE l == Len(ring[c])
               s == ring'[c]
    <3>2. /\ Len(s) = l + n /\ \A k \in 1..l : s[k] = ring[c][k]
          /\ \A k \in 1..n : s[l + k] = arrived[c] + k
          /\ l \in Nat
      BY <1>2, <3>1, ChunkFed, LenProperties
    <3>3. d + l = arrived[c] /\ \A k \in 1..l : ring[c][k] = d + k
      BY <2>1, <2>4 DEF RingFollows
    <3>4. arrived'[c] = arrived[c] + n
      BY <1>2
    <3> HIDE DEF l, s
    <3>5. d + Len(s) = arrived'[c]
      BY <1>2, <3>2, <3>3, <3>4
    <3>6. ASSUME NEW k \in 1..Len(s) PROVE s[k] = d + k
      <4>1. CASE k <= l
        <5>1. k \in 1..l
          BY <3>2, <4>1
        <5> QED
          BY <3>2, <3>3, <5>1
      <4>2. CASE ~(k <= l)
        <5>1. k - l \in 1..n /\ l + (k - l) = k
          BY <1>2, <3>2, <4>2
        <5>2. s[l + (k - l)] = arrived[c] + (k - l)
          BY <3>2, <5>1
        <5> QED
          BY <3>2, <3>3, <5>1, <5>2
      <4> QED
        BY <4>1, <4>2
    <3> QED
      BY <2>2, <2>4, <3>5, <3>6 DEF RingFollows, s
  <2> QED
    BY <2>3, <2>4
<1>5. Following'
  BY <1>4 DEF Following
<1> QED
  BY <1>3, <1>5 DEF InStreams

\* A frame is handed over from the front of the ring.
LEMMA HandOverInStreams ==
  ASSUME StreamTypeOK, InStreams, HandOver
  PROVE  InStreams'
<1> DEFINE c == current
           s == ring[c]
           t == ring'[c]
<1>1. PICK f \in Frame :
        /\ c \in Conns /\ f.conn = c /\ Len(f.at) \in HeaderSize..Len(s)
        /\ \A k \in 1..Len(f.at) : f.at[k] = s[k]
        /\ f.at \in Seq(Positions(c))
        /\ HasHeader(Value(c, f.at)) /\ Total(Value(c, f.at)) = Len(f.at)
        /\ ring' = [ring EXCEPT ![c] = t]
        /\ Len(t) = Len(s) - Len(f.at)
        /\ \A k \in 1..Len(s) - Len(f.at) : t[k] = s[Len(f.at) + k]
        /\ chan' = Append(chan, f)
        /\ UNCHANGED <<processed, arrived, lost>>
  BY FrameTaken
<1> DEFINE n == Len(f.at)
<1>2. Handed' = Append(Handed, f) /\ Handed \in Seq(Frame)
  BY <1>1, HandedGrows DEF Handed
<1>3. ring \in [Conns -> Seq(Nat)] /\ s \in Seq(Nat) /\ Len(s) \in Nat /\ n \in Nat \ {0} /\ n <= Len(s)
  BY <1>1, LenProperties DEF StreamTypeOK, HeaderSize
<1>4. Len(Value(c, f.at)) = n
  BY <1>1, ValueProperties
<1>5. /\ Len(Handed) \in Nat /\ Len(Handed') = Len(Handed) + 1
      /\ \A j \in 1..Len(Handed) : Handed'[j] = Handed[j]
      /\ Handed'[Len(Handed) + 1] = f
  BY <1>2, LenProperties, AppendProperties
<1>6. /\ \A j \in 1..Len(Handed) : RightIn(Handed, j) => RightIn(Handed', j)
      /\ \A b, e : b # c /\ UpTo(Handed, b, e) => UpTo(Handed', b, e)
  BY <1>1, <1>2, FrameAdded
<1>7. ASSUME NEW d \in Nat, RingFollows(Handed, c, d)
      PROVE  RightIn(Handed', Len(Handed) + 1) /\ UpTo(Handed', c, d + n)
  <2>1. UpTo(Handed, f.conn, d) /\ \A k \in 1..n : f.at[k] = d + k
    <3>1. \A k \in 1..n : k \in 1..Len(s)
      BY <1>3
    <3> QED
      BY <1>1, <1>7, <3>1 DEF RingFollows
  <2>2. HasHeader(Value(f.conn, f.at)) /\ Len(Value(f.conn, f.at)) = Total(Value(f.conn, f.at))
    BY <1>1, <1>4
  <2> QED
    BY <1>1, <1>2, <1>3, <2>1, <2>2, FrameAppended
<1>8. FramesAreTheStreams'
  <2> SUFFICES ASSUME NEW j \in 1..Len(Handed'), Handed'[j].conn \notin lost
               PROVE  RightIn(Handed', j)
    BY <1>1, FramesRightNext
  <2>1. CASE j \in 1..Len(Handed)
    BY <1>5, <1>6, <2>1, FramesRight DEF InStreams
  <2>2. CASE j = Len(Handed) + 1
    <3>1. c \in Conns /\ c \notin lost
      <4>1. Handed'[j] = f
        BY <1>5, <2>2
      <4>2. f.conn = c /\ c \in Conns
        BY <1>1
      <4> QED
        BY <4>1, <4>2
    <3>2. PICK d \in Nat : RingFollows(Handed, c, d)
      BY <3>1 DEF InStreams, Following
    <3> QED
      BY <1>7, <2>2, <3>2
  <2> QED
    BY <1>5, <2>1, <2>2
<1>9. ASSUME NEW b \in Conns, b \notin lost' PROVE \E d \in Nat : RingFollows(Handed, b, d)'
  <2>1. PICK d \in Nat : RingFollows(Handed, b, d)
    BY <1>1, <1>9 DEF InStreams, Following
  <2>2. CASE b # c
    <3>1. ring'[b] = ring[b] /\ arrived'[b] = arrived[b]
      BY <1>1, <1>3, <2>2
    <3>2. UpTo(Handed', b, d)
      BY <1>6, <2>1, <2>2 DEF RingFollows
    <3>3. UpTo(Handed, b, d)'
      BY <3>2 DEF UpTo, EndOf
    <3> QED
      BY <2>1, <3>1, <3>3 DEF RingFollows
  <2>3. CASE b = c
    <3>1. UpTo(Handed', c, d + n)
      BY <1>7, <2>1, <2>3
    <3>2. UpTo(Handed', b, d + n)
      BY <2>3, <3>1
    <3>7. UpTo(Handed, b, d + n)'
      BY <3>2 DEF UpTo, EndOf
    <3>3. d + Len(s) = arrived[c] /\ \A k \in 1..Len(s) : s[k] = d + k
      BY <2>1, <2>3 DEF RingFollows
    <3>4. (d + n) + Len(t) = arrived[c] /\ d + n \in Nat
      BY <1>1, <1>3, <3>3
    <3>5. ASSUME NEW k \in 1..Len(t) PROVE t[k] = (d + n) + k
      <4>1. k \in 1..Len(s) - n /\ n + k \in 1..Len(s)
        BY <1>1, <1>3
      <4>2. t[k] = s[n + k] /\ s[n + k] = d + (n + k)
        BY <1>1, <3>3, <4>1
      <4>3. k \in Int /\ n \in Int /\ d \in Int
        BY <1>3
      <4> HIDE DEF s, t, n
      <4> QED
        BY <4>2, <4>3
    <3>6. ring'[b] = t /\ arrived'[b] = arrived[c]
      BY <1>1, <2>3
    <3> HIDE DEF t, n, c
    <3> QED
      BY <3>4, <3>5, <3>6, <3>7 DEF RingFollows
  <2> QED
    BY <2>2, <2>3
<1>10. Following'
  BY <1>9 DEF Following
<1> QED
  BY <1>8, <1>10 DEF InStreams

LEMMA InStreamsKept ==
  StreamTypeOK /\ InStreams /\ [StreamNext]_streamVars => InStreams'
<1> SUFFICES ASSUME StreamTypeOK, InStreams, [StreamNext]_streamVars PROVE InStreams'
  OBVIOUS
<1>1. ASSUME NEW c \in Conns, NEW n \in 1..MaxRead, Receive(c, n) PROVE InStreams'
  BY <1>1, ReceiveInStreams
<1>2. CASE HandOver
  BY <1>2, HandOverInStreams
<1>3. CASE Take
  <2>1. Handed' = Handed
    BY <1>3, HandedStays DEF Take, Handed
  <2> QED
    BY <1>3, <2>1, InStreamsStay DEF Take
<1>4. ASSUME UNCHANGED <<ring, arrived, chan, processed, lost>> PROVE InStreams'
  BY <1>4, InStreamsStay DEF Handed
<1> QED
  BY <1>1, <1>2, <1>3, <1>4
     DEF StreamNext, Reading, Serve, Gather, LiveApp, ReturnError, StartDraining, StopServing,
         DeadlinePasses, Cancel, StopApp, streamVars

\* The frames handed over are those of the streams, in order, for any streams,
\* any cut into chunks and any capacity, on connections no chunk of which is lost.
THEOREM FramesOfTheStreams == StreamSpec => []FramesAreTheStreams
<1>1. Waiting => StreamTypeOK
  BY DEF Waiting
<1>2. StreamSpec => [](Waiting /\ InStreams)
  BY <1>1, WaitingInit, WaitingKept, InStreamsInit, InStreamsKept, PTL DEF StreamSpec
<1>3. InStreams => FramesAreTheStreams
  BY DEF InStreams
<1> QED
  BY <1>2, <1>3, PTL

-----------------------------------------------------------------------------
(* HTTP: the parts of a text. *)

\* How many of these places are not behind i.
Rank(P, i) == Cardinality({j \in P : j <= i})

LEMMA RankRises ==
  ASSUME NEW P \in SUBSET Nat, IsFiniteSet(P)
  PROVE  /\ \A i \in P : Rank(P, i) \in 1..Cardinality(P)
         /\ \A i, j \in P : i < j => Rank(P, i) < Rank(P, j)
<1> DEFINE Below(i) == {j \in P : j <= i}
<1>1. \A i \in P : /\ IsFiniteSet(Below(i)) /\ Cardinality(Below(i)) \in Nat
                   /\ Cardinality(Below(i)) <= Cardinality(P)
  <2> TAKE i \in P
  <2>1. Below(i) \in SUBSET P
    OBVIOUS
  <2> QED
    BY <2>1, FS_Subset, FS_CardinalityType
<1>2. Cardinality(P) \in Nat
  BY FS_CardinalityType
<1>3. \A i \in P : Cardinality(Below(i)) # 0
  <2> TAKE i \in P
  <2>1. i \in Below(i)
    OBVIOUS
  <2> QED
    BY <1>1, <2>1, FS_EmptySet
<1>4. ASSUME NEW i \in P, NEW j \in P, i < j
      PROVE  Cardinality(Below(i)) < Cardinality(Below(j))
  <2>1. Below(i) \union {j} \in SUBSET Below(j) /\ j \notin Below(i)
    <3>1. i \in Nat /\ j \in Nat /\ \A l \in P : l \in Nat
      OBVIOUS
    <3>2. j \in Below(j) /\ j \notin Below(i)
      BY <1>4, <3>1
    <3>3. \A l \in Below(i) : l \in Below(j)
      BY <1>4, <3>1
    <3> QED
      BY <3>2, <3>3
  <2>2. Cardinality(Below(i) \union {j}) = Cardinality(Below(i)) + 1
    BY <1>1, <2>1, FS_AddElement
  <2>3. Cardinality(Below(i) \union {j}) <= Cardinality(Below(j))
    BY <1>1, <2>1, FS_Subset
  <2> HIDE DEF Below
  <2> QED
    BY <1>1, <2>2, <2>3
<1>5. \A i : Rank(P, i) = Cardinality(Below(i))
  BY DEF Rank
<1> HIDE DEF Below
<1> QED
  BY <1>1, <1>2, <1>3, <1>4, <1>5

\* Every rank is taken, because there are as many as places.
LEMMA RankTaken ==
  ASSUME NEW P \in SUBSET Nat, IsFiniteSet(P), NEW k \in 1..Cardinality(P)
  PROVE  \E i \in P : Rank(P, i) = k
<1> DEFINE f == [i \in P |-> Rank(P, i)]
           T == 1..Cardinality(P)
<1>1. Cardinality(P) \in Nat
  BY FS_CardinalityType
<1>2. IsFiniteSet(T) /\ Cardinality(T) = Cardinality(P)
  BY <1>1, FS_Interval
<1>3. /\ \A i \in P : Rank(P, i) \in T
      /\ \A i, j \in P : i < j => Rank(P, i) < Rank(P, j)
  BY RankRises
<1>4. \A i, j \in P : Rank(P, i) = Rank(P, j) => i = j
  <2> SUFFICES ASSUME NEW i \in P, NEW j \in P, Rank(P, i) = Rank(P, j), i # j
               PROVE  FALSE
    OBVIOUS
  <2>1. i < j \/ j < i
    OBVIOUS
  <2> QED
    BY <1>1, <1>3, <2>1
<1>5. f \in [P -> T] /\ \A i, j \in P : f[i] = f[j] => i = j
  BY <1>3, <1>4
<1> HIDE DEF T
<1>6. f \in Injection(P, T)
  BY <1>5 DEF Injection, IsInjective
<1>7. f \in Surjection(P, T)
  BY <1>2, <1>6, FS_Injection
<1> QED
  BY <1>7 DEF Surjection, T

\* The ends of the parts of a text are its separators in their order, between
\* the place before it and the place behind it.
LEMMA Ends ==
  ASSUME NEW S, NEW s \in Seq(S), NEW sep, NEW n, n = Cardinality(Places(sep, s))
  PROVE  /\ n \in Nat /\ End(s, sep, 0) = 0 /\ End(s, sep, n + 1) = Len(s) + 1
         /\ \A k \in 1..n : End(s, sep, k) \in Places(sep, s)
         /\ \A i \in Places(sep, s) : \E k \in 1..n : i = End(s, sep, k)
         /\ \A j, k \in 0..n + 1 : j < k => End(s, sep, j) < End(s, sep, k)
<1> DEFINE P == Places(sep, s)
<1>1. Len(s) \in Nat
  BY LenProperties
<1>2. P \in SUBSET Nat /\ P \subseteq 1..Len(s)
  BY <1>1 DEF Places
<1>3. IsFiniteSet(P)
  <2>1. IsFiniteSet(1..Len(s)) /\ P \in SUBSET (1..Len(s))
    BY <1>1, <1>2, FS_Interval
  <2> QED
    BY <2>1, FS_Subset
<1>4. n \in Nat /\ n = Cardinality(P)
  BY <1>3, FS_CardinalityType
<1> HIDE DEF P
<1>5. End(s, sep, 0) = 0
  BY DEF End
<1>6. End(s, sep, n + 1) = Len(s) + 1
  BY <1>4 DEF End, P
<1>7. ASSUME NEW k \in 1..n PROVE End(s, sep, k) \in P /\ Rank(P, End(s, sep, k)) = k
  <2>1. End(s, sep, k) = CHOOSE i \in P : Rank(P, i) = k
    <3>1. k # 0 /\ ~(k > Cardinality(P))
      BY <1>4
    <3> QED
      BY <3>1, Zenon DEF End, P, Rank
  <2>2. \E i \in P : Rank(P, i) = k
    BY <1>2, <1>3, <1>4, RankTaken
  <2> QED
    BY <2>1, <2>2
<1>8. /\ \A i \in P : Rank(P, i) \in 1..n
      /\ \A i, j \in P : i < j => Rank(P, i) < Rank(P, j)
  BY <1>2, <1>3, <1>4, RankRises
<1>9. \A i \in P : \E k \in 1..n : i = End(s, sep, k)
  <2> TAKE i \in P
  <2>1. Rank(P, i) \in 1..n
    BY <1>8
  <2> DEFINE e == End(s, sep, Rank(P, i))
  <2>2. e \in P /\ Rank(P, e) = Rank(P, i)
    BY <1>7, <2>1
  <2> HIDE DEF e
  <2>3. ~(e < i) /\ ~(i < e) /\ e \in Nat /\ i \in Nat
    BY <1>2, <1>8, <2>1, <2>2
  <2>4. i = e
    BY <2>3
  <2> QED
    BY <2>1, <2>4 DEF e
<1>10. ASSUME NEW j \in 0..n + 1, NEW k \in 0..n + 1, j < k
       PROVE  End(s, sep, j) < End(s, sep, k)
  <2>1. \A i \in 1..n : End(s, sep, i) \in 1..Len(s)
    BY <1>2, <1>7
  <2>2. CASE j = 0
    <3>1. k \in 1..n \/ k = n + 1
      BY <1>4, <1>10, <2>2
    <3> QED
      BY <1>1, <1>5, <1>6, <2>1, <2>2, <3>1
  <2>3. CASE k = n + 1
    <3>1. j \in 1..n \/ j = 0
      BY <1>4, <1>10, <2>3
    <3> QED
      BY <1>1, <1>5, <1>6, <2>1, <2>3, <3>1
  <2>4. CASE j # 0 /\ k # n + 1
    <3>1. j \in 1..n /\ k \in 1..n
      BY <1>4, <1>10, <2>4
    <3> DEFINE a == End(s, sep, j)
               b == End(s, sep, k)
    <3>2. a \in P /\ b \in P /\ Rank(P, a) = j /\ Rank(P, b) = k
      BY <1>7, <3>1
    <3> HIDE DEF a, b
    <3>3. a \in Nat /\ b \in Nat /\ ~(b < a) /\ a # b
      BY <1>2, <1>4, <1>8, <1>10, <3>2
    <3>4. a < b
      BY <3>3
    <3> QED
      BY <3>4 DEF a, b
  <2> QED
    BY <2>2, <2>3, <2>4
<1> QED
  BY <1>4, <1>5, <1>6, <1>7, <1>9, <1>10 DEF P

LEMMA SplitParts ==
  ASSUME NEW S, NEW s \in Seq(S), NEW sep, NEW n, n = Cardinality(Places(sep, s))
  PROVE  /\ Split(s, sep) \in Seq(Seq(S)) /\ Len(Split(s, sep)) = n + 1
         /\ \A k \in 1..n + 1 :
              /\ Split(s, sep)[k] = SubSeq(s, End(s, sep, k - 1) + 1, End(s, sep, k) - 1)
              /\ Len(Split(s, sep)[k]) = End(s, sep, k) - End(s, sep, k - 1) - 1
<1> DEFINE part(k) == SubSeq(s, End(s, sep, k - 1) + 1, End(s, sep, k) - 1)
<1>1. /\ n \in Nat /\ Len(s) \in Nat /\ End(s, sep, 0) = 0 /\ End(s, sep, n + 1) = Len(s) + 1
      /\ \A k \in 1..n : End(s, sep, k) \in 1..Len(s)
      /\ \A j, k \in 0..n + 1 : j < k => End(s, sep, j) < End(s, sep, k)
  BY Ends, LenProperties DEF Places
<1>2. ASSUME NEW k \in 1..n + 1
      PROVE  part(k) \in Seq(S) /\ Len(part(k)) = End(s, sep, k) - End(s, sep, k - 1) - 1
  <2> DEFINE a == End(s, sep, k - 1)
             b == End(s, sep, k)
  <2>1. k - 1 \in 0..n + 1 /\ k \in 0..n + 1 /\ k - 1 < k
    BY <1>1
  <2>2. a < b
    BY <1>1, <2>1
  <2>3. a \in 0..Len(s)
    <3>1. k - 1 = 0 \/ k - 1 \in 1..n
      BY <1>1
    <3> QED
      BY <1>1, <3>1
  <2>4. b \in 1..Len(s) + 1
    <3>1. k = n + 1 \/ k \in 1..n
      BY <1>1
    <3> QED
      BY <1>1, <3>1
  <2> HIDE DEF a, b
  <2>5. a + 1 \in Int /\ b - 1 \in Int /\ \A i \in a + 1..b - 1 : s[i] \in S
    <3>1. \A i \in 1..Len(s) : s[i] \in S
      BY ElementOfSeq
    <3> QED
      BY <1>1, <2>3, <2>4, <3>1
  <2>6. /\ SubSeq(s, a + 1, b - 1) \in Seq(S)
        /\ Len(SubSeq(s, a + 1, b - 1)) = IF a + 1 <= b - 1 THEN b - 1 - (a + 1) + 1 ELSE 0
    BY <2>5, SubSeqProperties
  <2>7. Len(SubSeq(s, a + 1, b - 1)) = b - a - 1
    BY <1>1, <2>2, <2>3, <2>4, <2>6
  <2> QED
    BY <2>6, <2>7 DEF a, b
<1> HIDE DEF part
<1>3. Split(s, sep) = [k \in 1..n + 1 |-> part(k)]
  BY DEF Split, part
<1>4. Split(s, sep) \in [1..n + 1 -> Seq(S)] /\ n + 1 \in Nat
  BY <1>1, <1>2, <1>3
<1>5. Split(s, sep) \in Seq(Seq(S))
  BY <1>4, SeqDef
<1>6. 1..Len(Split(s, sep)) = 1..n + 1 /\ Len(Split(s, sep)) \in Nat
  BY <1>4, <1>5, LenProperties
<1>7. Len(Split(s, sep)) = n + 1
  BY <1>1, <1>6
<1> QED
  BY <1>2, <1>3, <1>5, <1>7 DEF part

\* The first part ends where the first separator is.
LEMMA FirstPart ==
  ASSUME NEW S, NEW s \in Seq(S), NEW sep, NEW c \in 1..Len(s) + 1,
         \A i \in 1..c - 1 : s[i] # sep, c <= Len(s) => s[c] = sep
  PROVE  Split(s, sep)[1] = SubSeq(s, 1, c - 1)
<1> DEFINE P == Places(sep, s)
<1>0. PICK n : n = Cardinality(P)
  OBVIOUS
<1>1. /\ n \in Nat /\ Len(s) \in Nat /\ End(s, sep, 0) = 0 /\ End(s, sep, n + 1) = Len(s) + 1
      /\ \A k \in 1..n : End(s, sep, k) \in P
      /\ \A i \in P : \E k \in 1..n : i = End(s, sep, k)
      /\ \A j, k \in 0..n + 1 : j < k => End(s, sep, j) < End(s, sep, k)
  BY <1>0, Ends, LenProperties
<1>2. \A i \in P : i \in c..Len(s)
  <2> TAKE i \in P
  <2>1. i \in 1..Len(s) /\ s[i] = sep
    BY DEF Places
  <2>2. ~(i <= c - 1)
    BY <1>1, <2>1
  <2> QED
    BY <1>1, <2>1, <2>2
<1>3. c <= Len(s) => c \in P
  BY <1>1 DEF Places
<1> HIDE DEF P
<1>4. End(s, sep, 1) = c
  <2>1. CASE n = 0
    BY <1>1, <1>3, <2>1
  <2>2. CASE n # 0
    <3>1. 1 \in 1..n
      BY <1>1, <2>2
    <3>2. End(s, sep, 1) \in P /\ End(s, sep, 1) \in c..Len(s)
      BY <1>1, <1>2, <3>1
    <3>3. PICK k \in 1..n : c = End(s, sep, k)
      BY <1>1, <1>3, <3>2
    <3>4. k = 1 \/ (1 \in 0..n + 1 /\ k \in 0..n + 1 /\ 1 < k)
      BY <1>1
    <3>5. k = 1 \/ End(s, sep, 1) < End(s, sep, k)
      BY <1>1, <3>4
    <3> QED
      BY <1>1, <3>2, <3>3, <3>5
  <2> QED
    BY <2>1, <2>2
<1>5. Split(s, sep)[1] = SubSeq(s, End(s, sep, 0) + 1, End(s, sep, 1) - 1)
  <2>1. 1 \in 1..n + 1 /\ 1 - 1 = 0
    BY <1>1
  <2> QED
    BY <1>0, <2>1, SplitParts DEF P
<1> QED
  BY <1>1, <1>4, <1>5

LEMMA MinIs ==
  ASSUME NEW T, T \subseteq Nat, NEW m \in T, \A k \in T : m <= k
  PROVE  Min(T) = m
<1>1. \A x \in T : (\A k \in T : x <= k) => x = m
  <2> SUFFICES ASSUME NEW x \in T, \A k \in T : x <= k PROVE x = m
    OBVIOUS
  <2> QED
    BY x <= m, m <= x, x \in Nat, m \in Nat
<1> QED
  BY <1>1 DEF Min

\* Where an empty line begins.
EmptyLines(d) == {i \in 1..Len(d) - 1 : d[i] = CRLF /\ d[i + 1] = CRLF}

RequestLine(d) == Split(Split(d, CRLF)[1], SP)

\* The request line is the same in a text and in what is before its first empty
\* line, where ParseHTTPRequest looks for it.
LEMMA HeaderHasRequestLine ==
  ASSUME NEW S, NEW d \in Seq(S), NEW e \in EmptyLines(d)
  PROVE  Split(SubSeq(d, 1, e - 1), CRLF)[1] = Split(d, CRLF)[1]
<1> DEFINE C == {i \in 1..e : d[i] = CRLF}
           h == SubSeq(d, 1, e - 1)
<1>1. Len(d) \in Nat /\ e \in 1..Len(d) - 1 /\ d[e] = CRLF /\ \A i \in 1..Len(d) : d[i] \in S
  BY LenProperties, ElementOfSeq DEF EmptyLines
<1>2. PICK c \in C : \A i \in C : c <= i
  <2>1. C \subseteq Nat /\ e \in C
    BY <1>1
  <2> HIDE DEF C
  <2> QED
    BY <2>1, LeastOfNaturals
<1>3. c \in 1..e /\ d[c] = CRLF /\ \A i \in 1..c - 1 : d[i] # CRLF
  <2>1. \A i \in 1..c - 1 : i \in 1..e /\ ~(c <= i)
    BY <1>1, <1>2
  <2> QED
    BY <1>2, <2>1
<1>4. Split(d, CRLF)[1] = SubSeq(d, 1, c - 1)
  <2>1. c \in 1..Len(d) + 1
    BY <1>1, <1>3
  <2> QED
    BY <1>3, <2>1, FirstPart
<1>5. h \in Seq(S) /\ Len(h) = e - 1 /\ \A i \in 1..e - 1 : h[i] = d[i]
  <2>1. 1 \in Int /\ e - 1 \in Int /\ \A i \in 1..e - 1 : d[i] \in S
    BY <1>1
  <2>2. /\ h \in Seq(S) /\ Len(h) = IF 1 <= e - 1 THEN e - 1 - 1 + 1 ELSE 0
        /\ \A i \in 1..(e - 1) - 1 + 1 : h[i] = d[1 + i - 1]
    BY <2>1, SubSeqProperties
  <2> HIDE DEF h
  <2>3. Len(h) = e - 1 /\ (e - 1) - 1 + 1 = e - 1 /\ \A i \in 1..e - 1 : 1 + i - 1 = i
    BY <1>1, <2>2
  <2> QED
    BY <2>2, <2>3
<1> HIDE DEF h
<1>6. Split(h, CRLF)[1] = SubSeq(h, 1, c - 1)
  <2>1. c \in 1..Len(h) + 1 /\ (c <= Len(h) => h[c] = d[c])
    BY <1>1, <1>3, <1>5
  <2>2. \A i \in 1..c - 1 : h[i] # CRLF
    BY <1>1, <1>3, <1>5
  <2> QED
    BY <1>3, <1>5, <2>1, <2>2, FirstPart
<1>7. SubSeq(h, 1, c - 1) = SubSeq(d, 1, c - 1)
  <2>1. CASE c = 1
    BY <2>1, SubSeqEmpty
  <2>2. CASE c # 1
    <3>1. 1 \in 1..Len(d) /\ e - 1 \in 1..Len(d) /\ 1 \in 1..(e - 1) - 1 + 1
          /\ c - 1 \in 1..(e - 1) - 1 + 1 /\ 1 + 1 - 1 = 1 /\ 1 + (c - 1) - 1 = c - 1
      BY <1>1, <1>3, <2>2
    <3>2. SubSeq(SubSeq(d, 1, e - 1), 1, c - 1) = SubSeq(d, 1 + 1 - 1, 1 + (c - 1) - 1)
      BY <3>1, SubSeqOfSubSeq
    <3> QED
      BY <3>1, <3>2 DEF h
  <2> QED
    BY <2>1, <2>2
<1> QED
  BY <1>4, <1>6, <1>7 DEF h

Understood(line, body) == [method |-> line[1], path |-> line[2], body |-> body]

LEMMA ParsedStrictly ==
  ASSUME NEW S, NEW d \in Seq(S), NEW e \in EmptyLines(d), \A i \in EmptyLines(d) : e <= i
  PROVE  ParseHTTPRequest(d) =
           IF Len(RequestLine(d)) # 3 THEN NoRequest
           ELSE Understood(RequestLine(d), SubSeq(d, e + 2, Len(d)))
<1>1. EmptyLines(d) \subseteq Nat
  BY DEF EmptyLines
<1>2. Min(EmptyLines(d)) = e
  BY <1>1, MinIs
<1>3. Split(Split(SubSeq(d, 1, e - 1), CRLF)[1], SP) = RequestLine(d)
  BY HeaderHasRequestLine DEF RequestLine
<1> DEFINE parse(ends, end, parts) ==
             IF ends = {} THEN NoRequest
             ELSE IF Len(parts) # 3 THEN NoRequest
                  ELSE Understood(parts, SubSeq(d, end + 2, Len(d)))
<1>4. ParseHTTPRequest(d) =
        parse(EmptyLines(d), Min(EmptyLines(d)),
              Split(Split(SubSeq(d, 1, Min(EmptyLines(d)) - 1), CRLF)[1], SP))
  BY Zenon DEF ParseHTTPRequest, EmptyLines, Understood
<1> QED
  BY <1>2, <1>3, <1>4

LEMMA JoinedPart ==
  ASSUME NEW s, NEW sep, NEW k
  PROVE  JoinFrom(s, sep, k) = SubSeq(s, End(s, sep, k - 1) + 1, Len(s))
BY DEF JoinFrom

\* An empty line is a part without tokens, neither the first nor the last.
LEMMA FirstEmptyPart ==
  ASSUME NEW S, NEW d \in Seq(S), NEW e \in EmptyLines(d), \A i \in EmptyLines(d) : e <= i
  PROVE  LET lines == Split(d, CRLF)
             blanks == {i \in 2..Len(lines) - 1 : lines[i] = << >>}
         IN  blanks # {} /\ JoinFrom(d, CRLF, Min(blanks) + 1) = SubSeq(d, e + 2, Len(d))
<1> DEFINE lines == Split(d, CRLF)
           blanks == {i \in 2..Len(lines) - 1 : lines[i] = << >>}
           end(k) == End(d, CRLF, k)
<1>0. PICK n : n = Cardinality(Places(CRLF, d))
  OBVIOUS
<1>1. /\ n \in Nat /\ Len(d) \in Nat /\ end(n + 1) = Len(d) + 1 /\ end(0) = 0
      /\ \A k \in 1..n : end(k) \in 1..Len(d) /\ d[end(k)] = CRLF
      /\ \A i \in Places(CRLF, d) : \E k \in 1..n : i = end(k)
      /\ \A j, k \in 0..n + 1 : j < k => end(j) < end(k)
  <2>1. /\ n \in Nat /\ end(n + 1) = Len(d) + 1 /\ end(0) = 0
        /\ \A k \in 1..n : end(k) \in Places(CRLF, d)
        /\ \A i \in Places(CRLF, d) : \E k \in 1..n : i = end(k)
        /\ \A j, k \in 0..n + 1 : j < k => end(j) < end(k)
    BY <1>0, Ends
  <2>2. \A i \in Places(CRLF, d) : i \in 1..Len(d) /\ d[i] = CRLF
    BY DEF Places
  <2>3. Len(d) \in Nat
    BY LenProperties
  <2> HIDE DEF end
  <2> QED
    BY <2>1, <2>2, <2>3
<1>2. /\ Len(lines) = n + 1 /\ lines \in Seq(Seq(S))
      /\ \A k \in 1..n + 1 : Len(lines[k]) = end(k) - end(k - 1) - 1
  BY <1>0, SplitParts
<1> HIDE DEF end, lines
<1>3. \A k \in 2..n : lines[k] = << >> <=> end(k) = end(k - 1) + 1
  <2> TAKE k \in 2..n
  <2>1. k \in 1..n /\ k - 1 \in 1..n /\ k \in 1..n + 1
    BY <1>1
  <2>2. end(k) \in Nat /\ end(k - 1) \in Nat /\ Len(lines[k]) = end(k) - end(k - 1) - 1
    <3>1. end(k) \in 1..Len(d) /\ end(k - 1) \in 1..Len(d)
      BY <1>1, <2>1
    <3>2. Len(lines[k]) = end(k) - end(k - 1) - 1
      BY <1>2, <2>1
    <3> QED
      BY <1>1, <3>1, <3>2
  <2>3. lines[k] \in Seq(S)
    BY <1>2, <2>1, ElementOfSeq
  <2>4. lines[k] = << >> <=> Len(lines[k]) = 0
    BY <2>3, EmptySeq
  <2> QED
    BY <2>2, <2>4
<1>4. PICK k \in 1..n : end(k) = e
  <2>1. e \in Places(CRLF, d)
    BY <1>1 DEF EmptyLines, Places
  <2> QED
    BY <1>1, <2>1
<1>5. PICK j \in 1..n : end(j) = e + 1
  <2>1. e + 1 \in Places(CRLF, d)
    BY <1>1 DEF EmptyLines, Places
  <2> QED
    BY <1>1, <2>1
<1>6. j = k + 1
  <2>1. e \in Nat
    BY DEF EmptyLines
  <2>2. j # k
    BY <1>4, <1>5, <2>1
  <2>3. ~(j < k)
    <3> SUFFICES ASSUME j < k PROVE FALSE
      OBVIOUS
    <3>1. end(j) < end(k)
      BY <1>1
    <3> QED
      BY <1>4, <1>5, <2>1, <3>1
  <2>4. ~(k + 1 < j)
    <3> SUFFICES ASSUME k + 1 < j PROVE FALSE
      OBVIOUS
    <3>1. k + 1 \in 0..n + 1 /\ k \in 0..n + 1 /\ j \in 0..n + 1 /\ k < k + 1 /\ k + 1 \in 1..n
      BY <1>1
    <3>2. end(k) < end(k + 1) /\ end(k + 1) < end(j) /\ end(k + 1) \in Nat
      BY <1>1, <3>1
    <3> QED
      BY <1>4, <1>5, <2>1, <3>2
  <2> QED
    BY <1>1, <2>2, <2>3, <2>4
<1>7. j \in blanks
  <2>1. j \in 2..n /\ j - 1 = k
    BY <1>1, <1>6
  <2> QED
    BY <1>1, <1>2, <1>3, <1>4, <1>5, <2>1
<1>8. \A i \in blanks : j <= i
  <2> TAKE i \in blanks
  <2>1. i \in 2..n /\ end(i) = end(i - 1) + 1
    BY <1>1, <1>2, <1>3
  <2>2. i \in 1..n /\ i - 1 \in 1..n
    BY <1>1, <2>1
  <2>3. end(i - 1) \in EmptyLines(d)
    BY <1>1, <2>1, <2>2 DEF EmptyLines
  <2>4. e <= end(i - 1)
    BY <2>3
  <2>5. ~(i - 1 < k)
    <3> SUFFICES ASSUME i - 1 < k PROVE FALSE
      OBVIOUS
    <3>1. i - 1 \in 0..n + 1 /\ k \in 0..n + 1
      BY <1>1, <2>2
    <3>2. end(i - 1) < end(k) /\ end(i - 1) \in Nat /\ end(k) \in Nat
      BY <1>1, <2>2, <3>1
    <3> QED
      BY <1>4, <2>4, <3>2
  <2> QED
    BY <1>1, <1>6, <2>2, <2>5
<1>9. Min(blanks) = j
  <2>1. blanks \subseteq Nat
    BY <1>1, <1>2
  <2> HIDE DEF blanks
  <2> QED
    BY <1>7, <1>8, <2>1, MinIs
<1>10. JoinFrom(d, CRLF, j + 1) = SubSeq(d, e + 2, Len(d))
  <2>1. j + 1 - 1 = j /\ e + 1 + 1 = e + 2
    BY <1>1 DEF EmptyLines
  <2>2. JoinFrom(d, CRLF, j + 1) = SubSeq(d, End(d, CRLF, j + 1 - 1) + 1, Len(d))
    BY JoinedPart
  <2>3. End(d, CRLF, j) = e + 1
    BY <1>5 DEF end
  <2> QED
    BY <2>1, <2>2, <2>3
<1> HIDE DEF blanks
<1>11. blanks # {} /\ JoinFrom(d, CRLF, Min(blanks) + 1) = SubSeq(d, e + 2, Len(d))
  BY <1>7, <1>9, <1>10
<1> QED
  BY <1>11 DEF blanks, lines

LEMMA ParsedLoosely ==
  ASSUME NEW S, NEW d \in Seq(S), NEW e \in EmptyLines(d), \A i \in EmptyLines(d) : e <= i
  PROVE  ParseLoosely(d) =
           IF Len(RequestLine(d)) < 3 THEN NoRequest
           ELSE Understood(RequestLine(d), SubSeq(d, e + 2, Len(d)))
<1> DEFINE lines == Split(d, CRLF)
           blanks == {i \in 2..Len(lines) - 1 : lines[i] = << >>}
<1>1. blanks # {} /\ JoinFrom(d, CRLF, Min(blanks) + 1) = SubSeq(d, e + 2, Len(d))
  BY FirstEmptyPart
<1>2. ParseLoosely(d) =
        IF Len(RequestLine(d)) < 3 THEN NoRequest
        ELSE Understood(RequestLine(d),
                        IF blanks = {} THEN << >> ELSE JoinFrom(d, CRLF, Min(blanks) + 1))
  BY Zenon DEF ParseLoosely, Understood, RequestLine
<1> HIDE DEF blanks
<1> QED
  BY <1>1, <1>2

\* What ParseHTTPRequest takes for a request, the middleware takes for the same.
LEMMA ParsedAlike ==
  ASSUME NEW S, NEW d \in Seq(S), ParseHTTPRequest(d) # NoRequest
  PROVE  ParseLoosely(d) = ParseHTTPRequest(d)
<1>1. EmptyLines(d) # {} /\ EmptyLines(d) \subseteq Nat
  BY DEF ParseHTTPRequest, EmptyLines
<1>2. PICK e \in EmptyLines(d) : \A i \in EmptyLines(d) : e <= i
  BY <1>1, LeastOfNaturals
<1>3. ParseHTTPRequest(d) =
        IF Len(RequestLine(d)) # 3 THEN NoRequest
        ELSE Understood(RequestLine(d), SubSeq(d, e + 2, Len(d)))
  BY <1>2, ParsedStrictly
<1>4. Len(RequestLine(d)) = 3
  BY <1>3
<1>5. ParseLoosely(d) =
        IF Len(RequestLine(d)) < 3 THEN NoRequest
        ELSE Understood(RequestLine(d), SubSeq(d, e + 2, Len(d)))
  BY <1>2, ParsedLoosely
<1> QED
  BY <1>3, <1>4, <1>5

-----------------------------------------------------------------------------
(* HTTP: the text of a request. *)

\* The words of a request; the provers do not see that a quoted one is a STRING.
Tokens == STRING \union {SP, CRLF, "Host: h"}

LEMMA FewTokens ==
  ASSUME NEW S, NEW a \in S, NEW b \in S
  PROVE  <<a>> \in Seq(S) /\ <<a, b, a, a>> \in Seq(S)
OBVIOUS

LEMMA RequestTokens ==
  ASSUME NEW r \in Requests
  PROVE  /\ r.method \in Seq(Tokens) /\ r.path \in Seq(Tokens) /\ r.rest \in Seq(Tokens)
         /\ r.body \in Seq(Tokens) /\ <<SP>> \in Seq(Tokens)
         /\ <<CRLF, "Host: h", CRLF, CRLF>> \in Seq(Tokens)
<1>1. /\ r.method \in Seq(STRING \ {CRLF, SP}) /\ r.path \in Seq(STRING \ {CRLF, SP})
      /\ r.rest \in Seq(STRING \ {CRLF}) /\ r.body \in Seq(STRING)
  BY HttpAssumption DEF HttpAssumption
<1>2. /\ STRING \ {CRLF, SP} \subseteq Tokens /\ STRING \ {CRLF} \subseteq Tokens
      /\ STRING \subseteq Tokens
      /\ SP \in Tokens /\ CRLF \in Tokens /\ "Host: h" \in Tokens
  BY DEF Tokens
<1>3. <<SP>> \in Seq(Tokens) /\ <<CRLF, "Host: h", CRLF, CRLF>> \in Seq(Tokens)
  BY <1>2, FewTokens
<1>4. r.method \in Seq(Tokens) /\ r.path \in Seq(Tokens)
  BY <1>1, <1>2, SeqMonotonic
<1>5. r.rest \in Seq(Tokens) /\ r.body \in Seq(Tokens)
  BY <1>1, <1>2, SeqMonotonic
<1> QED
  BY <1>3, <1>4, <1>5

Filled(s) == s \in Seq(Tokens) /\ Len(s) \in Nat \ {0}

LEMMA StaysFilled ==
  ASSUME NEW u, NEW v \in Seq(Tokens), Filled(u)
  PROVE  Filled(u \o v)
<1>1. u \in Seq(Tokens) /\ Len(u) \in Nat \ {0} /\ Len(v) \in Nat
  BY LenProperties DEF Filled
<1>2. u \o v \in Seq(Tokens) /\ Len(u \o v) = Len(u) + Len(v)
  BY <1>1, ConcatProperties
<1> QED
  BY <1>1, <1>2 DEF Filled

LEMMA TextTokens == \A r \in Requests : Filled(RequestText(r))
<1> TAKE r \in Requests
<1> DEFINE start == r.method \o <<SP>>
           head == <<CRLF, "Host: h", CRLF, CRLF>>
<1>1. /\ r.path \in Seq(Tokens) /\ r.rest \in Seq(Tokens) /\ r.body \in Seq(Tokens)
      /\ head \in Seq(Tokens)
  BY RequestTokens
<1>2. Filled(start)
  <2>1. r.method \in Seq(Tokens) /\ <<SP>> \in Seq(Tokens) /\ Len(<<SP>>) = 1
    BY RequestTokens
  <2>2. Len(r.method) \in Nat
    BY <2>1, LenProperties
  <2>3. start \in Seq(Tokens) /\ Len(start) = Len(r.method) + Len(<<SP>>)
    BY <2>1, ConcatProperties
  <2> QED
    BY <2>1, <2>2, <2>3 DEF Filled
<1> HIDE DEF start, head
<1>3. Filled(start \o r.path)
  BY <1>1, <1>2, StaysFilled
<1>4. Filled(start \o r.path \o r.rest)
  BY <1>1, <1>3, StaysFilled
<1>5. Filled(start \o r.path \o r.rest \o head)
  BY <1>1, <1>4, StaysFilled
<1>6. Filled(start \o r.path \o r.rest \o head \o r.body)
  BY <1>1, <1>5, StaysFilled
<1> QED
  BY <1>6 DEF RequestText, start, head

\* A stretch of s that reads like u is u.
LEMMA StretchIs ==
  ASSUME NEW S, NEW s \in Seq(S), NEW u \in Seq(S), NEW a \in Nat,
         a + Len(u) <= Len(s), \A i \in 1..Len(u) : s[a + i] = u[i]
  PROVE  SubSeq(s, a + 1, a + Len(u)) = u
<1> DEFINE v == SubSeq(s, a + 1, a + Len(u))
<1>1. Len(s) \in Nat /\ Len(u) \in Nat /\ \A i \in 1..Len(s) : s[i] \in S
  BY LenProperties, ElementOfSeq
<1>2. a + 1 \in Int /\ a + Len(u) \in Int /\ \A i \in a + 1..a + Len(u) : s[i] \in S
  BY <1>1
<1>3. /\ v \in Seq(S) /\ Len(v) = IF a + 1 <= a + Len(u) THEN a + Len(u) - (a + 1) + 1 ELSE 0
      /\ \A i \in 1..(a + Len(u)) - (a + 1) + 1 : v[i] = s[(a + 1) + i - 1]
  BY <1>2, SubSeqProperties
<1> HIDE DEF v
<1>4. Len(v) = Len(u) /\ (a + Len(u)) - (a + 1) + 1 = Len(u)
  BY <1>1, <1>3
<1>5. \A i \in 1..Len(v) : v[i] = u[i]
  <2> TAKE i \in 1..Len(v)
  <2>1. v[i] = s[(a + 1) + i - 1] /\ (a + 1) + i - 1 = a + i
    BY <1>1, <1>3, <1>4
  <2> QED
    BY <1>4, <2>1
<1>6. v = u
  BY <1>3, <1>4, <1>5, SeqEqual
<1> QED
  BY <1>6 DEF v

\* The text w is u, of length a, and behind it v, of length b.
Joins(w, u, v, a, b) ==
  /\ w \in Seq(Tokens) /\ Len(w) = a + b
  /\ \A i \in 1..a + b : w[i] = IF i <= a THEN u[i] ELSE v[i - a]

LEMMA Together ==
  ASSUME NEW u \in Seq(Tokens), NEW v \in Seq(Tokens), NEW a \in Nat, NEW b \in Nat,
         Len(u) = a, Len(v) = b
  PROVE  Joins(u \o v, u, v, a, b)
BY ConcatProperties DEF Joins

Plain(r) == r.rest = <<SP, "HTTP/1.1">>

\* Token by token, what the text t of a request r holds.
Laid(t, r, m, p, b) ==
  /\ Len(r.method) = m /\ Len(r.path) = p /\ Len(r.body) = b
  /\ r.method \in Seq(Tokens) /\ r.path \in Seq(Tokens) /\ r.body \in Seq(Tokens)
  /\ t \in Seq(Tokens) /\ Len(t) = m + p + 7 + b
  /\ \A i \in 1..m : t[i] = r.method[i] /\ t[i] \notin {CRLF, SP}
  /\ \A i \in 1..p : t[m + 1 + i] = r.path[i] /\ t[m + 1 + i] \notin {CRLF, SP}
  /\ \A i \in 1..b : t[m + p + 7 + i] = r.body[i]
  /\ t[m + 1] = SP /\ t[m + p + 2] = SP /\ t[m + p + 3] \notin {CRLF, SP}
  /\ t[m + p + 4] = CRLF /\ t[m + p + 5] # CRLF
  /\ t[m + p + 6] = CRLF /\ t[m + p + 7] = CRLF

LEMMA TextLaid ==
  ASSUME NEW r \in Requests, Plain(r)
  PROVE  \E m, p, b \in Nat : Laid(RequestText(r), r, m, p, b)
<1> DEFINE head == <<CRLF, "Host: h", CRLF, CRLF>>
           c1 == r.method \o <<SP>>
           c2 == c1 \o r.path
           c3 == c2 \o r.rest
           c4 == c3 \o head
           t == RequestText(r)
<1>1. /\ r.method \in Seq(STRING \ {CRLF, SP}) /\ r.path \in Seq(STRING \ {CRLF, SP})
      /\ r.rest \in Seq(STRING \ {CRLF}) /\ r.body \in Seq(STRING)
  BY HttpAssumption DEF HttpAssumption
<1>2. PICK m \in Nat, p \in Nat, b \in Nat :
        Len(r.method) = m /\ Len(r.path) = p /\ Len(r.body) = b
  BY <1>1, LenProperties
<1>3. /\ \A i \in 1..m : r.method[i] \notin {CRLF, SP}
      /\ \A i \in 1..p : r.path[i] \notin {CRLF, SP}
  <2>1. \A i \in 1..m : r.method[i] \in STRING \ {CRLF, SP}
    BY <1>1, <1>2, ElementOfSeq
  <2>2. \A i \in 1..p : r.path[i] \in STRING \ {CRLF, SP}
    BY <1>1, <1>2, ElementOfSeq
  <2> QED
    BY <2>1, <2>2
<1>4. /\ r.method \in Seq(Tokens) /\ r.path \in Seq(Tokens) /\ r.rest \in Seq(Tokens)
      /\ r.body \in Seq(Tokens) /\ <<SP>> \in Seq(Tokens) /\ head \in Seq(Tokens)
  BY RequestTokens
<1>5. Len(r.rest) = 2 /\ r.rest[1] = SP /\ r.rest[2] = "HTTP/1.1"
  BY DEF Plain
<1>6. Len(head) = 4 /\ head[1] = CRLF /\ head[2] = "Host: h" /\ head[3] = CRLF /\ head[4] = CRLF
  OBVIOUS
<1>7. SP # CRLF /\ "Host: h" # CRLF /\ "HTTP/1.1" # CRLF /\ "HTTP/1.1" # SP
  BY DEF SP, CRLF
<1>8. Len(<<SP>>) = 1 /\ <<SP>>[1] = SP
  OBVIOUS
<1> HIDE DEF head
<1>9. /\ c1 \in Seq(Tokens) /\ Len(c1) = m + 1
      /\ \A i \in 1..m + 1 : c1[i] = IF i <= m THEN r.method[i] ELSE <<SP>>[i - m]
  <2>1. Joins(c1, r.method, <<SP>>, m, 1)
    BY <1>4, <1>2, <1>8, Together
  <2> QED
    BY <2>1 DEF Joins
<1> HIDE DEF c1
<1>10. /\ c2 \in Seq(Tokens) /\ Len(c2) = m + 1 + p
       /\ \A i \in 1..m + 1 + p : c2[i] = IF i <= m + 1 THEN c1[i] ELSE r.path[i - (m + 1)]
  <2>1. m + 1 \in Nat
    OBVIOUS
  <2>2. Joins(c2, c1, r.path, m + 1, p)
    BY <1>4, <1>2, <1>9, <2>1, Together
  <2> QED
    BY <2>2 DEF Joins
<1> HIDE DEF c2
<1>11. /\ c3 \in Seq(Tokens) /\ Len(c3) = m + 1 + p + 2
       /\ \A i \in 1..m + 1 + p + 2 :
            c3[i] = IF i <= m + 1 + p THEN c2[i] ELSE r.rest[i - (m + 1 + p)]
  <2>1. m + 1 + p \in Nat
    OBVIOUS
  <2>2. Joins(c3, c2, r.rest, m + 1 + p, 2)
    BY <1>4, <1>5, <1>10, <2>1, Together
  <2> QED
    BY <2>2 DEF Joins
<1> HIDE DEF c3
<1>12. /\ c4 \in Seq(Tokens) /\ Len(c4) = m + 1 + p + 2 + 4
       /\ \A i \in 1..m + 1 + p + 2 + 4 :
            c4[i] = IF i <= m + 1 + p + 2 THEN c3[i] ELSE head[i - (m + 1 + p + 2)]
  <2>1. m + 1 + p + 2 \in Nat
    OBVIOUS
  <2>2. Joins(c4, c3, head, m + 1 + p + 2, 4)
    BY <1>4, <1>6, <1>11, <2>1, Together
  <2> QED
    BY <2>2 DEF Joins
<1> HIDE DEF c4
<1>13. t = c4 \o r.body
  BY DEF t, RequestText, c4, c3, c2, c1, head
<1> HIDE DEF t
<1>14. /\ t \in Seq(Tokens) /\ Len(t) = m + 1 + p + 2 + 4 + b
       /\ \A i \in 1..m + 1 + p + 2 + 4 + b :
            t[i] = IF i <= m + 1 + p + 2 + 4 THEN c4[i] ELSE r.body[i - (m + 1 + p + 2 + 4)]
  <2>1. m + 1 + p + 2 + 4 \in Nat
    OBVIOUS
  <2>2. Joins(t, c4, r.body, m + 1 + p + 2 + 4, b)
    BY <1>4, <1>2, <1>12, <1>13, <2>1, Together
  <2> QED
    BY <2>2 DEF Joins
<1>15. /\ \A i \in 1..m : t[i] = c1[i] /\ c1[i] = r.method[i]
       /\ t[m + 1] = c1[m + 1] /\ c1[m + 1] = SP
  <2>1. \A i \in 1..m + 1 : t[i] = c1[i]
    <3> TAKE i \in 1..m + 1
    <3>1. t[i] = c4[i] /\ c4[i] = c3[i]
      BY <1>2, <1>12, <1>14
    <3>2. c3[i] = c2[i] /\ c2[i] = c1[i]
      BY <1>2, <1>10, <1>11
    <3> QED
      BY <3>1, <3>2
  <2>2. \A i \in 1..m : c1[i] = r.method[i]
    BY <1>2, <1>9
  <2>3. c1[m + 1] = <<SP>>[m + 1 - m] /\ m + 1 - m = 1
    BY <1>2, <1>9
  <2>4. c1[m + 1] = SP
    BY <1>8, <2>3
  <2>5. \A i \in 1..m : i \in 1..m + 1
    OBVIOUS
  <2>6. m + 1 \in 1..m + 1
    OBVIOUS
  <2> QED
    BY <2>1, <2>2, <2>4, <2>5, <2>6
<1>16. \A i \in 1..p : t[m + 1 + i] = r.path[i]
  <2> TAKE i \in 1..p
  <2>1. t[m + 1 + i] = c4[m + 1 + i] /\ c4[m + 1 + i] = c3[m + 1 + i]
    BY <1>2, <1>12, <1>14
  <2>2. c3[m + 1 + i] = c2[m + 1 + i]
    BY <1>2, <1>11
  <2>3. c2[m + 1 + i] = r.path[m + 1 + i - (m + 1)] /\ m + 1 + i - (m + 1) = i
    BY <1>2, <1>10
  <2> QED
    BY <2>1, <2>2, <2>3
<1>17. t[m + p + 2] = SP /\ t[m + p + 3] = "HTTP/1.1"
  <2>1. \A i \in 1..2 : t[m + 1 + p + i] = r.rest[i]
    <3> TAKE i \in 1..2
    <3>1. t[m + 1 + p + i] = c4[m + 1 + p + i] /\ c4[m + 1 + p + i] = c3[m + 1 + p + i]
      BY <1>2, <1>12, <1>14
    <3>2. c3[m + 1 + p + i] = r.rest[m + 1 + p + i - (m + 1 + p)]
          /\ m + 1 + p + i - (m + 1 + p) = i
      BY <1>2, <1>11
    <3> QED
      BY <3>1, <3>2
  <2>2. m + 1 + p + 1 = m + p + 2 /\ m + 1 + p + 2 = m + p + 3 /\ 1 \in 1..2 /\ 2 \in 1..2
    BY <1>2
  <2> QED
    BY <1>5, <2>1, <2>2
<1>18. /\ t[m + p + 4] = CRLF /\ t[m + p + 5] = "Host: h"
       /\ t[m + p + 6] = CRLF /\ t[m + p + 7] = CRLF
  <2>1. \A i \in 1..4 : t[m + p + 3 + i] = head[i]
    <3> TAKE i \in 1..4
    <3>1. t[m + p + 3 + i] = c4[m + p + 3 + i]
      BY <1>2, <1>14
    <3>2. c4[m + p + 3 + i] = head[m + p + 3 + i - (m + 1 + p + 2)]
          /\ m + p + 3 + i - (m + 1 + p + 2) = i
      BY <1>2, <1>12
    <3> QED
      BY <3>1, <3>2
  <2>2. /\ m + p + 3 + 1 = m + p + 4 /\ m + p + 3 + 2 = m + p + 5
        /\ m + p + 3 + 3 = m + p + 6 /\ m + p + 3 + 4 = m + p + 7
        /\ {1, 2, 3, 4} \subseteq 1..4
    BY <1>2
  <2> QED
    BY <1>6, <2>1, <2>2
<1>19. \A i \in 1..b : t[m + p + 7 + i] = r.body[i]
  <2> TAKE i \in 1..b
  <2>1. t[m + p + 7 + i] = r.body[m + p + 7 + i - (m + 1 + p + 2 + 4)]
        /\ m + p + 7 + i - (m + 1 + p + 2 + 4) = i
    BY <1>2, <1>14
  <2> QED
    BY <2>1
<1>20. Len(t) = m + p + 7 + b
  BY <1>2, <1>14
<1>21. Laid(t, r, m, p, b)
  <2>1. \A i \in 1..m : t[i] = r.method[i] /\ t[i] \notin {CRLF, SP}
    BY <1>3, <1>15
  <2>2. \A i \in 1..p : t[m + 1 + i] = r.path[i] /\ t[m + 1 + i] \notin {CRLF, SP}
    BY <1>3, <1>16
  <2>3. t[m + p + 3] \notin {CRLF, SP} /\ t[m + p + 5] # CRLF /\ t[m + 1] = SP
    BY <1>7, <1>15, <1>17, <1>18
  <2> QED
    BY <1>4, <1>2, <1>14, <1>17, <1>18, <1>19, <1>20, <2>1, <2>2, <2>3 DEF Laid
<1> QED
  BY <1>21 DEF t

\* The request line of a plain request has three parts: what the client meant.
LEMMA LineOfText ==
  ASSUME NEW r \in Requests, NEW t, NEW m \in Nat, NEW p \in Nat, NEW b \in Nat,
         Laid(t, r, m, p, b)
  PROVE  /\ Len(RequestLine(t)) = 3
         /\ RequestLine(t)[1] = r.method /\ RequestLine(t)[2] = r.path
<1>0. Len(r.method) = m /\ Len(r.path) = p
  BY DEF Laid
<1>1. /\ r.method \in Seq(Tokens) /\ r.path \in Seq(Tokens)
      /\ t \in Seq(Tokens) /\ Len(t) = m + p + 7 + b
      /\ \A i \in 1..m : t[i] = r.method[i] /\ t[i] \notin {CRLF, SP}
      /\ \A i \in 1..p : t[m + 1 + i] = r.path[i] /\ t[m + 1 + i] \notin {CRLF, SP}
      /\ t[m + 1] = SP /\ t[m + p + 2] = SP /\ t[m + p + 3] \notin {CRLF, SP}
      /\ t[m + p + 4] = CRLF
  BY DEF Laid
<1> DEFINE line == SubSeq(t, 1, m + p + 3)
           between(i) == i \in 1..m \/ i = m + 1 \/ (i - m - 1) \in 1..p
                           \/ i = m + p + 2 \/ i = m + p + 3
<1>2. \A i \in 1..m + p + 3 : between(i)
  OBVIOUS
<1>3. \A i \in 1..m + p + 3 :
        /\ t[i] # CRLF
        /\ t[i] = SP <=> i \in {m + 1, m + p + 2}
  <2> TAKE i \in 1..m + p + 3
  <2>1. CASE i \in 1..m
    BY <1>1, <2>1
  <2>2. CASE (i - m - 1) \in 1..p
    <3>1. m + 1 + (i - m - 1) = i /\ i # m + 1 /\ i # m + p + 2
      BY <1>1, <2>2
    <3>2. t[m + 1 + (i - m - 1)] \notin {CRLF, SP}
      BY <1>1, <2>2
    <3> QED
      BY <3>1, <3>2
  <2>3. CASE i \in {m + 1, m + p + 2}
    <3>1. SP # CRLF
      BY DEF SP, CRLF
    <3> QED
      BY <1>1, <2>3, <3>1
  <2>4. CASE i = m + p + 3
    BY <1>1, <2>4
  <2> QED
    BY <1>2, <2>1, <2>2, <2>3, <2>4
<1>4. Split(t, CRLF)[1] = line
  <2>1. PICK c : c = m + p + 4
    OBVIOUS
  <2>2. c - 1 = m + p + 3 /\ c \in 1..(m + p + 7 + b) + 1
    BY <2>1
  <2>3. (\A i \in 1..c - 1 : t[i] # CRLF) /\ (c <= Len(t) => t[c] = CRLF)
    BY <1>1, <1>3, <2>1, <2>2
  <2>4. t \in Seq(Tokens) /\ c \in 1..Len(t) + 1
    BY <1>1, <2>2
  <2> HIDE DEF line
  <2>5. Split(t, CRLF)[1] = SubSeq(t, 1, c - 1)
    BY <2>3, <2>4, FirstPart
  <2> QED
    BY <2>2, <2>5 DEF line
<1>5. line \in Seq(Tokens) /\ Len(line) = m + p + 3 /\ \A i \in 1..m + p + 3 : line[i] = t[i]
  <2>1. 1 \in Int /\ m + p + 3 \in Int /\ \A i \in 1..m + p + 3 : t[i] \in Tokens
    BY <1>1, ElementOfSeq
  <2>2. /\ line \in Seq(Tokens) /\ Len(line) = IF 1 <= m + p + 3 THEN m + p + 3 - 1 + 1 ELSE 0
        /\ \A i \in 1..(m + p + 3) - 1 + 1 : line[i] = t[1 + i - 1]
    BY <2>1, SubSeqProperties
  <2> HIDE DEF line
  <2>3. Len(line) = m + p + 3 /\ (m + p + 3) - 1 + 1 = m + p + 3
        /\ \A i \in 1..m + p + 3 : 1 + i - 1 = i
    BY <1>1, <2>2
  <2> QED
    BY <2>2, <2>3
<1> HIDE DEF line, between
<1>6. Places(SP, line) = {m + 1, m + p + 2}
  <2>1. Places(SP, line) = {i \in 1..m + p + 3 : t[i] = SP}
    BY <1>5 DEF Places
  <2>2. m + 1 \in 1..m + p + 3 /\ m + p + 2 \in 1..m + p + 3
    OBVIOUS
  <2>3. \A i \in 1..m + p + 3 : t[i] = SP <=> i \in {m + 1, m + p + 2}
    BY <1>3
  <2> QED
    BY <2>1, <2>2, <2>3
<1>7. 2 = Cardinality(Places(SP, line))
  <2>1. {m + 1, m + p + 2} = {m + 1} \union {m + p + 2} /\ m + p + 2 \notin {m + 1}
    BY <1>1
  <2>2. IsFiniteSet({m + 1}) /\ Cardinality({m + 1}) = 1
    BY FS_Singleton
  <2> QED
    BY <1>6, <2>1, <2>2, FS_AddElement
<1> DEFINE end(k) == End(line, SP, k)
<1>8. /\ end(0) = 0 /\ end(2 + 1) = Len(line) + 1
      /\ \A k \in 1..2 : end(k) \in Places(SP, line)
      /\ \A j, k \in 0..2 + 1 : j < k => end(j) < end(k)
  BY <1>5, <1>7, Ends
<1>9. /\ Len(Split(line, SP)) = 2 + 1
      /\ \A k \in 1..2 + 1 : Split(line, SP)[k] = SubSeq(line, end(k - 1) + 1, end(k) - 1)
  <2>1. PICK n : n = Cardinality(Places(SP, line))
    OBVIOUS
  <2> HIDE DEF line
  <2>2. /\ Len(Split(line, SP)) = n + 1
        /\ \A k \in 1..n + 1 :
             Split(line, SP)[k] = SubSeq(line, End(line, SP, k - 1) + 1, End(line, SP, k) - 1)
    <3>1. line \in Seq(Tokens)
      BY <1>5
    <3> QED
      BY <2>1, <3>1, SplitParts
  <2>3. n = 2
    BY <1>7, <2>1
  <2> QED
    BY <2>2, <2>3
<1> HIDE DEF end
<1>10. end(1) = m + 1 /\ end(2) = m + p + 2
  <2>1. end(1) \in {m + 1, m + p + 2} /\ end(2) \in {m + 1, m + p + 2} /\ end(1) < end(2)
    BY <1>6, <1>8
  <2> QED
    BY <1>1, <2>1
<1>11. Split(line, SP)[1] = r.method
  <2>1. Split(line, SP)[1] = SubSeq(line, end(0) + 1, end(1) - 1)
    BY <1>9
  <2>2. end(0) + 1 = 0 + 1 /\ end(1) - 1 = 0 + m /\ 0 + m <= Len(line)
    BY <1>1, <1>5, <1>8, <1>10
  <2>3. \A i \in 1..m : line[0 + i] = r.method[i]
    BY <1>1, <1>5
  <2>4. SubSeq(line, 0 + 1, 0 + m) = r.method
    BY <1>0, <1>1, <1>5, <2>2, <2>3, StretchIs
  <2> QED
    BY <2>1, <2>2, <2>4
<1>12. Split(line, SP)[2] = r.path
  <2>1. Split(line, SP)[2] = SubSeq(line, end(1) + 1, end(2) - 1)
    <3>1. 2 \in 1..2 + 1 /\ 2 - 1 = 1
      OBVIOUS
    <3> QED
      BY <1>9, <3>1
  <2>2. end(2) - 1 = (m + 1) + p /\ (m + 1) + p <= Len(line)
    <3>1. m + p + 2 - 1 = (m + 1) + p /\ (m + 1) + p <= m + p + 3
      OBVIOUS
    <3> QED
      BY <1>5, <1>10, <3>1
  <2>3. \A i \in 1..p : line[(m + 1) + i] = r.path[i]
    <3> TAKE i \in 1..p
    <3>1. m + 1 + i \in 1..m + p + 3
      OBVIOUS
    <3> QED
      BY <1>1, <1>5, <3>1
  <2>4. SubSeq(line, (m + 1) + 1, (m + 1) + p) = r.path
    BY <1>0, <1>1, <1>5, <2>2, <2>3, StretchIs
  <2> QED
    BY <1>10, <2>1, <2>2, <2>4
<1> QED
  BY <1>4, <1>9, <1>11, <1>12 DEF RequestLine

\* A request that is read whole is understood: method, path and body.
LEMMA TextUnderstood ==
  ASSUME NEW r \in Requests, NEW t, NEW m \in Nat, NEW p \in Nat, NEW b \in Nat,
         Laid(t, r, m, p, b)
  PROVE  ParseHTTPRequest(t) = [method |-> r.method, path |-> r.path, body |-> r.body]
<1>1. /\ Len(r.body) = b /\ r.body \in Seq(Tokens)
      /\ t \in Seq(Tokens) /\ Len(t) = m + p + 7 + b
      /\ \A i \in 1..m : t[i] \notin {CRLF, SP}
      /\ \A i \in 1..p : t[m + 1 + i] \notin {CRLF, SP}
      /\ \A i \in 1..b : t[m + p + 7 + i] = r.body[i]
      /\ t[m + 1] = SP /\ t[m + p + 2] = SP /\ t[m + p + 3] \notin {CRLF, SP}
      /\ t[m + p + 4] = CRLF /\ t[m + p + 5] # CRLF
      /\ t[m + p + 6] = CRLF /\ t[m + p + 7] = CRLF
  BY DEF Laid
<1>0. SP # CRLF
  BY DEF SP, CRLF
<1> DEFINE e == m + p + 6
<1>2. e \in EmptyLines(t)
  <2>1. e \in 1..Len(t) - 1 /\ e + 1 = m + p + 7
    BY <1>1
  <2> QED
    BY <1>1, <2>1 DEF EmptyLines
<1>3. \A i \in EmptyLines(t) : e <= i
  <2> SUFFICES ASSUME NEW i \in EmptyLines(t), i < e PROVE FALSE
    <3>1. \A i \in EmptyLines(t) : i \in Nat
      BY DEF EmptyLines
    <3> QED
      BY <3>1
  <2>1. i \in 1..e - 1 /\ t[i] = CRLF /\ t[i + 1] = CRLF
    BY <1>1 DEF EmptyLines
  <2>2. \/ i \in 1..m \/ i = m + 1 \/ (i - m - 1) \in 1..p \/ i = m + p + 2
        \/ i = m + p + 3 \/ i + 1 = m + p + 5 \/ i = m + p + 5
    BY <1>1, <2>1
  <2>3. ~((i - m - 1) \in 1..p)
    <3> SUFFICES ASSUME (i - m - 1) \in 1..p PROVE FALSE
      OBVIOUS
    <3>1. m + 1 + (i - m - 1) = i
      BY <2>1
    <3>2. t[m + 1 + (i - m - 1)] \notin {CRLF, SP}
      BY <1>1
    <3> QED
      BY <2>1, <3>1, <3>2
  <2> QED
    BY <1>0, <1>1, <2>1, <2>2, <2>3
<1>4. SubSeq(t, e + 2, Len(t)) = r.body
  <2>1. e + 2 = (m + p + 7) + 1 /\ Len(t) = (m + p + 7) + b /\ m + p + 7 \in Nat
    BY <1>1
  <2>2. SubSeq(t, (m + p + 7) + 1, (m + p + 7) + b) = r.body
    BY <1>1, <2>1, StretchIs
  <2> QED
    BY <2>1, <2>2
<1> HIDE DEF e
<1>5. ParseHTTPRequest(t) =
        IF Len(RequestLine(t)) # 3 THEN NoRequest
        ELSE Understood(RequestLine(t), SubSeq(t, e + 2, Len(t)))
  BY <1>1, <1>2, <1>3, ParsedStrictly
<1> QED
  BY <1>4, <1>5, LineOfText DEF Understood

-----------------------------------------------------------------------------
(* HTTP: the answers. *)

\* The first line has no third part.
CutShort(d) == IsHTTPRequest(d) /\ Len(Split(Split(d, CRLF)[1], SP)) < 3

LEMMA ParsedOrNot ==
  ASSUME NEW d
  PROVE  ParseLoosely(d) = NoRequest <=> Len(Split(Split(d, CRLF)[1], SP)) < 3
<1> DEFINE lines == Split(d, CRLF)
           parts == Split(lines[1], SP)
           blanks == {i \in 2..Len(lines) - 1 : lines[i] = << >>}
           rest == IF blanks = {} THEN << >>
                   ELSE JoinFrom(d, CRLF, Min(blanks) + 1)
           req == [method |-> parts[1], path |-> parts[2], body |-> rest]
<1>1. ParseLoosely(d) = IF Len(parts) < 3 THEN NoRequest ELSE req
  BY DEF ParseLoosely
<1>2. req # NoRequest
  <2> HIDE DEF parts, rest
  <2>1. DOMAIN req = {"method", "path", "body"} /\ DOMAIN NoRequest = {"none"}
    BY DEF NoRequest
  <2>2. "none" \notin {"method", "path", "body"}
    OBVIOUS
  <2> HIDE DEF req
  <2> QED
    BY <2>1, <2>2
<1> HIDE DEF req, parts
<1>3. ParseLoosely(d) = NoRequest <=> Len(parts) < 3
  BY <1>1, <1>2
<1> QED
  BY <1>3 DEF parts

Speaks(answer) == answer # NoAnswer

LEMMA AnswersSpeak ==
  /\ \A d : Speaks(Body(NewResponse, d))
  /\ \A d : \A code \in Nat \ {0} : Speaks(Body(Status(NewResponse, code), d))
  /\ \A code \in Nat \ {0} : \A message : Speaks(CreateErrorResponse(code, message))
<1>1. \A body : \A code \in Nat \ {0} : Speaks([status |-> code, body |-> body])
  BY DEF Speaks, NoAnswer
<1>2. \A d : Body(NewResponse, d) = [status |-> 200, body |-> d]
  BY DEF Body, NewResponse
<1>3. \A d, code : Body(Status(NewResponse, code), d) = [status |-> code, body |-> d]
  <2>1. \A code : Status(NewResponse, code) = [status |-> code, body |-> << >>]
    BY DEF Status, NewResponse
  <2>2. \A d, code : Body([status |-> code, body |-> << >>], d) = [status |-> code, body |-> d]
    BY DEF Body
  <2> QED
    BY <2>1, <2>2
<1>4. \A d : Speaks(Body(NewResponse, d))
  BY <1>1, <1>2
<1>5. \A d : \A code \in Nat \ {0} : Speaks(Body(Status(NewResponse, code), d))
  BY <1>1, <1>3
<1>6. \A code \in Nat \ {0} : \A message : Speaks(CreateErrorResponse(code, message))
  <2>1. \A code, message : CreateErrorResponse(code, message) = [status |-> code, body |-> <<message>>]
    BY DEF CreateErrorResponse
  <2> QED
    BY <1>1, <2>1
<1> QED
  BY <1>4, <1>5, <1>6

LEMMA OnlySilentIsSilent ==
  ASSUME NEW h \in Handlers \union {NoHandler}, h # "silent", NEW body
  PROVE  Speaks(Handle(h, body))
<1>1. \A k \in DOMAIN DefaultRoutes :
        DefaultRoutes[k] \in {"/", "/ping", "/echo", "/api/status", "/upload", "/media", "/health"}
  BY DEF DefaultRoutes
<1>2. h \in {"/", "/ping", "/echo", "/api/status", "/upload", "/media", "/health",
             "broken", NoHandler}
  BY <1>1 DEF Handlers
<1>3. \A d : Speaks(Body(NewResponse, d)) /\ Speaks(Body(Status(NewResponse, 400), d))
             /\ Speaks(Body(Status(NewResponse, 404), d))
  BY AnswersSpeak
<1>4. \A message : Speaks(CreateErrorResponse(404, message)) /\ Speaks(CreateErrorResponse(500, message))
  BY AnswersSpeak
<1>5. CASE h = NoHandler
  BY <1>4, <1>5 DEF Handle, NoHandler
<1>6. CASE h = "broken"
  BY <1>4, <1>6 DEF Handle, NoHandler
<1>7. CASE h \in {"/", "/ping", "/health"}
  BY <1>3, <1>7 DEF Handle, NoHandler, Text
<1>8. CASE h = "/echo"
  BY <1>3, <1>8 DEF Handle, NoHandler, Text
<1>9. CASE h \in {"/api/status", "/upload"}
  BY <1>3, <1>9 DEF Handle, NoHandler
<1>10. CASE h = "/media"
  BY <1>3, <1>10 DEF Handle, NoHandler, Text
<1> QED
  BY <1>2, <1>5, <1>6, <1>7, <1>8, <1>9, <1>10

\* A silent handler has been registered late.
RoutesKnown ==
  \A k \in DOMAIN routes :
    /\ routes[k] \in Handlers
    /\ routes[k] = "silent" => \E r \in LateRoutes :
                                 k = <<r.method, r.pattern>> /\ r.handler = "silent"

LEMMA SilentOnPurpose ==
  ASSUME RoutesKnown, NEW d, NoAnswer \in Answers(routes, d)
  PROVE  MayBeSilent(d)
<1> DEFINE req == ParseHTTPRequest(d)
<1> HIDE DEF req
<1>1. CASE req = NoRequest
  <2>1. NoAnswer = CreateErrorResponse(400, "Bad Request")
    BY <1>1 DEF Answers, req
  <2>2. \A message : Speaks(CreateErrorResponse(400, message))
    BY AnswersSpeak
  <2> QED
    BY <2>1, <2>2 DEF Speaks
<1>2. CASE req # NoRequest
  <2>1. PICK h \in Match(routes, req.method, req.path) : NoAnswer = Handle(h, req.body)
    BY <1>2 DEF Answers, req
  <2>2. h = NoHandler \/ \E k \in DOMAIN routes :
                           /\ h = routes[k]
                           /\ k = <<req.method, req.path>> \/ Covers(k, req.method, req.path)
    BY <2>1 DEF Match
  <2>3. h = "silent"
    BY <2>1, <2>2, OnlySilentIsSilent DEF RoutesKnown, Speaks
  <2>4. PICK k \in DOMAIN routes :
          /\ h = routes[k]
          /\ k = <<req.method, req.path>> \/ Covers(k, req.method, req.path)
    BY <2>2, <2>3 DEF NoHandler
  <2>5. PICK r \in LateRoutes : k = <<r.method, r.pattern>> /\ r.handler = "silent"
    BY <2>3, <2>4 DEF RoutesKnown
  <2>6. \/ r.method = req.method /\ r.pattern = req.path
        \/ Covers(<<r.method, r.pattern>>, req.method, req.path)
    BY <2>4, <2>5
  <2> QED
    BY <1>2, <2>5, <2>6 DEF MayBeSilent, req
<1> QED
  BY <1>1, <1>2

LEMMA DefaultRoutesKnown ==
  \A k \in DOMAIN DefaultRoutes : DefaultRoutes[k] \in Handlers /\ DefaultRoutes[k] # "silent"
<1>1. \A k \in DOMAIN DefaultRoutes : DefaultRoutes[k] # "silent"
  BY DEF DefaultRoutes
<1> QED
  BY <1>1 DEF Handlers

-----------------------------------------------------------------------------
(* HTTP: the invariant. *)

IsSequence(s) == \E S : s \in Seq(S)

Parses == "parser" \in ToSet(pipeline)

\* How many answers a chunk may get.
Due(d) == IF Parses /\ CutShort(d) THEN {0} ELSE IF MayBeSilent(d) THEN {0, 1} ELSE {1}

\* What was written for every chunk: one answer, or none for a reason.
Answered ==
  \A i \in 1..Len(turns) :
    /\ turns[i].to \in Nat /\ turns[i].to \in From(i) + 1..read
    /\ Len(turns[i].out) \in Due(Chunk(i))

\* The chunk being handled is what follows the last one that was, up to what
\* has been read.
Handling ==
  IF pc = "idle" THEN From(Len(turns) + 1) = read
  ELSE /\ From(Len(turns) + 1) < read
       /\ data = SubSeq(stream, From(Len(turns) + 1) + 1, read)

\* The recursion over the pipeline.  On the way down no parser passed has found
\* the chunk cut; on the way up there is an error if and only if one has.
Recursion ==
  /\ pc \in {"idle", "down", "up", "app"} /\ failed \in BOOLEAN
  /\ at \in 0..Len(pipeline) + 1
  /\ pc = "down" => /\ at \in 1..Len(pipeline) + 1 /\ ~failed
                    /\ \A j \in 1..at - 1 : pipeline[j] = "parser" => ~CutShort(data)
  /\ pc = "up" => at \in 0..Len(pipeline)
  /\ pc \in {"up", "app"} => (failed <=> Parses /\ CutShort(data))
  /\ pc = "app" => ~failed

Placed == stream \in Seq(Tokens) /\ read \in 0..Len(stream) /\ IsSequence(turns)

Serving == /\ Placed /\ pipeline \in Pipelines /\ RoutesKnown
           /\ Answered /\ Handling /\ Recursion

LEMMA AppendToAny ==
  ASSUME NEW s, IsSequence(s), NEW e
  PROVE  /\ IsSequence(Append(s, e)) /\ Len(s) \in Nat /\ Len(Append(s, e)) = Len(s) + 1
         /\ \A i \in 1..Len(s) : Append(s, e)[i] = s[i]
         /\ Append(s, e)[Len(s) + 1] = e
<1>1. PICK S : s \in Seq(S)
  BY DEF IsSequence
<1>2. s \in Seq(S \union {e}) /\ e \in S \union {e}
  BY <1>1, SeqMonotonic, S \subseteq S \union {e}
<1> QED
  BY <1>2, AppendProperties, LenProperties DEF IsSequence

LEMMA Lengths ==
  ASSUME Placed
  PROVE  Len(stream) \in Nat /\ Len(turns) \in Nat
<1>1. PICK S : turns \in Seq(S)
  BY DEF Placed, IsSequence
<1> QED
  BY <1>1, LenProperties DEF Placed

\* Where the chunks begin, as long as the history is what it was.
LEMMA FromNat ==
  ASSUME Placed, Answered
  PROVE  \A i \in 1..Len(turns) + 1 : From(i) \in Nat
<1>1. Len(turns) \in Nat
  BY Lengths
<1> TAKE i \in 1..Len(turns) + 1
<1>2. CASE i = 1
  BY <1>2 DEF From
<1>3. CASE i # 1
  BY <1>1, <1>3 DEF From, Answered
<1> QED
  BY <1>2, <1>3

\* A step that leaves the texts and the history alone leaves the history right.
LEMMA HistoryKept ==
  ASSUME Serving, UNCHANGED <<stream, read, pipeline, turns>>
  PROVE  Placed' /\ pipeline' \in Pipelines /\ Answered' /\ From(Len(turns) + 1)' = From(Len(turns) + 1)
<1>1. \A i : From(i)' = From(i) /\ Chunk(i)' = Chunk(i)
  BY DEF From, Chunk
<1> QED
  BY <1>1 DEF Serving, Placed, Answered, Parses, Due, CutShort, MayBeSilent

LEMMA PipelineSeq ==
  ASSUME Serving
  PROVE  /\ Len(pipeline) \in Nat /\ DOMAIN pipeline = 1..Len(pipeline)
         /\ \A i \in 1..Len(pipeline) : pipeline[i] \in {"parser", "responder"}
         /\ Parses <=> \E i \in 1..Len(pipeline) : pipeline[i] = "parser"
<1>1. pipeline \in Seq({"parser", "responder"})
  BY HttpAssumption DEF Serving, HttpAssumption
<1>2. Len(pipeline) \in Nat /\ DOMAIN pipeline = 1..Len(pipeline)
  BY <1>1, LenProperties
<1>3. \A i \in 1..Len(pipeline) : pipeline[i] \in {"parser", "responder"}
  BY <1>1, ElementOfSeq
<1>4. Parses <=> \E i \in 1..Len(pipeline) : pipeline[i] = "parser"
  BY <1>2 DEF Parses, ToSet
<1> QED
  BY <1>2, <1>3, <1>4

LEMMA ServingInit == Init => Serving
<1> SUFFICES ASSUME Init PROVE Serving
  OBVIOUS
<1>1. stream = << >> /\ turns = << >> /\ read = 0 /\ Len(stream) = 0 /\ Len(turns) = 0
  BY DEF Init
<1>2. Placed
  BY <1>1, EmptySeq DEF Placed, IsSequence
<1>3. pipeline \in Pipelines /\ RoutesKnown
  BY DefaultRoutesKnown DEF Init, RoutesKnown
<1>4. Answered
  BY <1>1 DEF Answered
<1>5. Handling
  BY <1>1 DEF Handling, From, Init
<1>6. Recursion
  <2>1. Len(pipeline) \in Nat
    BY HttpAssumption, LenProperties DEF HttpAssumption, Init
  <2>2. ~failed /\ failed \in BOOLEAN /\ pc = "idle" /\ at = 0
    BY Zenon DEF Init
  <2> QED
    BY <2>1, <2>2 DEF Recursion
<1> QED
  BY <1>2, <1>3, <1>4, <1>5, <1>6 DEF Serving

\* What the client sends comes behind everything that has been read.
LEMMA SendServing ==
  ASSUME Serving, NEW r \in Requests, Send(r)
  PROVE  Serving'
<1>1. /\ UNCHANGED <<read, pipeline, routes, pc, at, data, request, response, failed, turns>>
      /\ stream' = stream \o RequestText(r)
  BY DEF Send, context
<1>2. RequestText(r) \in Seq(Tokens)
  BY TextTokens DEF Filled
<1>3. stream \in Seq(Tokens) /\ Len(stream) \in Nat /\ read \in 0..Len(stream) /\ Len(turns) \in Nat
  BY Lengths DEF Serving, Placed
<1>4. stream' \in Seq(Tokens) /\ Len(stream') = Len(stream) + Len(RequestText(r))
      /\ Len(RequestText(r)) \in Nat
  BY <1>1, <1>2, <1>3, ConcatProperties, LenProperties
<1>5. \A m, n \in 1..Len(stream) : SubSeq(stream', m, n) = SubSeq(stream, m, n)
  BY <1>1, <1>2, <1>3, SubSeqOfConcat1
<1>6. Placed'
  BY <1>1, <1>3, <1>4 DEF Serving, Placed
<1>7. \A i : From(i)' = From(i)
  BY <1>1 DEF From
<1>8. \A i \in 1..Len(turns) + 1 : From(i) \in Nat
  BY FromNat DEF Serving
<1>9. \A i \in 1..Len(turns) : Chunk(i)' = Chunk(i)
  <2> TAKE i \in 1..Len(turns)
  <2>1. turns[i].to \in Nat /\ turns[i].to \in From(i) + 1..read
    BY DEF Serving, Answered
  <2>2. From(i) + 1 \in 1..Len(stream) /\ turns[i].to \in 1..Len(stream)
    BY <1>3, <1>8, <2>1
  <2> QED
    BY <1>1, <1>5, <1>7, <2>2 DEF Chunk
<1>10. Answered'
  BY <1>1, <1>7, <1>9 DEF Serving, Answered, Parses, Due, CutShort, MayBeSilent
<1>11. Handling'
  <2>1. CASE pc = "idle"
    BY <1>1, <1>7, <2>1 DEF Serving, Handling
  <2>2. CASE pc # "idle"
    <3>1. From(Len(turns) + 1) < read
          /\ data = SubSeq(stream, From(Len(turns) + 1) + 1, read)
      BY <2>2 DEF Serving, Handling
    <3>2. From(Len(turns) + 1) \in Nat
      BY <1>3, <1>8
    <3>3. From(Len(turns) + 1) + 1 \in 1..Len(stream) /\ read \in 1..Len(stream)
      BY <1>3, <3>1, <3>2
    <3> QED
      BY <1>1, <1>5, <1>7, <2>2, <3>1, <3>3 DEF Handling
  <2> QED
    BY <2>1, <2>2
<1>12. Recursion'
  BY <1>1 DEF Serving, Recursion, Parses
<1> QED
  BY <1>1, <1>6, <1>10, <1>11, <1>12 DEF Serving, RoutesKnown

LEMMA DeliverServing ==
  ASSUME Serving, NEW n \in 1..Len(stream), Deliver(n)
  PROVE  Serving'
<1>1. /\ UNCHANGED <<stream, pipeline, routes, turns>> /\ pc = "idle" /\ pc' = "down" /\ at' = 1
      /\ n \in 1..Len(stream) - read /\ data' = SubSeq(stream, read + 1, read + n)
      /\ read' = read + n /\ failed' = FALSE
  BY DEF Deliver, client
<1>2. Len(stream) \in Nat /\ Len(turns) \in Nat /\ read \in 0..Len(stream)
  BY Lengths DEF Serving, Placed
<1>3. Placed'
  BY <1>1, <1>2 DEF Serving, Placed
<1>4. \A i : From(i)' = From(i) /\ Chunk(i)' = Chunk(i)
  BY <1>1 DEF From, Chunk
<1>5. \A i \in 1..Len(turns) + 1 : From(i) \in Nat
  BY FromNat DEF Serving
<1>6. Answered'
  <2>1. \A i \in 1..Len(turns) : turns[i].to \in From(i) + 1..read'
    <3> TAKE i \in 1..Len(turns)
    <3>1. turns[i].to \in From(i) + 1..read /\ From(i) \in Nat
      BY <1>2, <1>5 DEF Serving, Answered
    <3> QED
      BY <1>1, <1>2, <3>1
  <2> QED
    BY <1>1, <1>4, <2>1 DEF Serving, Answered, Parses, Due, CutShort, MayBeSilent
<1>7. From(Len(turns) + 1) = read
  BY <1>1 DEF Serving, Handling
<1>8. Handling'
  <2>1. From(Len(turns) + 1)' = read /\ pc' # "idle"
    BY <1>1, <1>4, <1>7
  <2>2. read < read' /\ data' = SubSeq(stream', read + 1, read')
    BY <1>1, <1>2
  <2> QED
    BY <2>1, <2>2 DEF Handling
<1>9. Recursion'
  <2>1. Len(pipeline) \in Nat
    BY PipelineSeq
  <2>2. ~failed' /\ failed' \in BOOLEAN
    BY <1>1, Zenon
  <2> QED
    BY <1>1, <2>1, <2>2 DEF Recursion
<1> QED
  BY <1>1, <1>3, <1>6, <1>8, <1>9 DEF Serving, RoutesKnown

\* A step inside the pipeline has only the recursion to keep.
LEMMA InsideServing ==
  ASSUME Serving, UNCHANGED <<client, read, pipeline, routes, data, turns>>,
         pc # "idle", pc' # "idle", Recursion'
  PROVE  Serving'
<1>1. UNCHANGED <<stream, read, pipeline, routes, data, turns>>
  BY DEF client
<1>2. Placed' /\ pipeline' \in Pipelines /\ Answered' /\ From(Len(turns) + 1)' = From(Len(turns) + 1)
  BY <1>1, HistoryKept
<1>3. Handling'
  BY <1>1, <1>2 DEF Serving, Handling
<1> QED
  BY <1>1, <1>2, <1>3 DEF Serving, RoutesKnown

LEMMA ParserServing ==
  ASSUME Serving, HTTPParserMiddleware
  PROVE  Serving'
<1>1. /\ pc = "down" /\ at <= Len(pipeline) /\ pipeline[at] = "parser"
      /\ UNCHANGED <<client, read, pipeline, routes, data, response, turns>>
  BY DEF HTTPParserMiddleware, Runs
<1>2. /\ Recursion /\ Len(pipeline) \in Nat
      /\ Parses <=> \E i \in 1..Len(pipeline) : pipeline[i] = "parser"
  BY PipelineSeq DEF Serving
<1>3. at \in 1..Len(pipeline)
  BY <1>1, <1>2 DEF Recursion
<1>4. Parses
  BY <1>1, <1>2, <1>3
<1>5. IF CutShort(data) THEN failed' = TRUE /\ pc' = "up" /\ at' = at - 1
      ELSE at' = at + 1 /\ UNCHANGED <<failed, pc>>
  <2>1. ParseLoosely(data) = NoRequest <=> Len(Split(Split(data, CRLF)[1], SP)) < 3
    BY ParsedOrNot
  <2> QED
    BY <2>1 DEF HTTPParserMiddleware, CutShort
<1>6. Parses' = Parses /\ CutShort(data)' = CutShort(data)
  BY <1>1 DEF Parses, CutShort
<1>7. Recursion'
  <2>1. CASE CutShort(data)
    BY <1>1, <1>2, <1>3, <1>4, <1>5, <1>6, <2>1 DEF Recursion
  <2>2. CASE ~CutShort(data)
    BY <1>1, <1>2, <1>3, <1>5, <1>6, <2>2 DEF Recursion
  <2> QED
    BY <2>1, <2>2
<1>8. pc' # "idle"
  BY <1>1, <1>5
<1> QED
  BY <1>1, <1>7, <1>8, InsideServing

LEMMA ResponderServing ==
  ASSUME Serving, HTTPResponseMiddleware
  PROVE  Serving'
<1>1. /\ pc = "down" /\ at <= Len(pipeline) /\ pipeline[at] = "responder" /\ at' = at + 1
      /\ UNCHANGED <<client, read, pipeline, routes, pc, data, failed, turns>>
  BY DEF HTTPResponseMiddleware, Runs
<1>2. Recursion /\ Len(pipeline) \in Nat
  BY PipelineSeq DEF Serving
<1>3. Parses' = Parses /\ CutShort(data)' = CutShort(data)
  BY <1>1 DEF Parses, CutShort
<1>4. Recursion'
  BY <1>1, <1>2, <1>3 DEF Recursion
<1> QED
  BY <1>1, <1>4, InsideServing

LEMMA EndServing ==
  ASSUME Serving, EndOfPipeline
  PROVE  Serving'
<1>1. /\ pc = "down" /\ at > Len(pipeline) /\ pc' = "up" /\ at' = at - 1
      /\ UNCHANGED <<client, read, pipeline, routes, data, failed, turns>>
  BY DEF EndOfPipeline
<1>2. /\ Recursion /\ Len(pipeline) \in Nat
      /\ Parses <=> \E i \in 1..Len(pipeline) : pipeline[i] = "parser"
  BY PipelineSeq DEF Serving
<1>3. Parses' = Parses /\ CutShort(data)' = CutShort(data)
  BY <1>1 DEF Parses, CutShort
<1>4. at = Len(pipeline) + 1 /\ ~failed
  BY <1>1, <1>2 DEF Recursion
<1>5. ~(Parses /\ CutShort(data))
  BY <1>1, <1>2, <1>4 DEF Recursion
<1>6. Recursion'
  BY <1>1, <1>2, <1>3, <1>4, <1>5 DEF Recursion
<1> QED
  BY <1>1, <1>6, InsideServing

LEMMA ReturnServing ==
  ASSUME Serving, ReturnToMiddleware
  PROVE  Serving'
<1>1. /\ pc = "up" /\ at > 0 /\ at' = at - 1
      /\ UNCHANGED <<client, read, pipeline, routes, pc, data, failed, turns>>
  BY DEF ReturnToMiddleware
<1>2. Recursion /\ Len(pipeline) \in Nat
  BY PipelineSeq DEF Serving
<1>3. Parses' = Parses /\ CutShort(data)' = CutShort(data)
  BY <1>1 DEF Parses, CutShort
<1>4. Recursion'
  BY <1>1, <1>2, <1>3 DEF Recursion
<1> QED
  BY <1>1, <1>4, InsideServing

\* A chunk is done with: its turn is as it must be.
LEMMA TurnServing ==
  ASSUME Serving, NEW out, Turn(out), pc \in {"up", "app"}, pc' = "idle",
         UNCHANGED <<client, read, pipeline, routes, context>>,
         Len(out) \in Due(data)
  PROVE  Serving'
<1>0. PICK n \in Nat : n = Len(turns)
  BY Lengths DEF Serving
<1> DEFINE turn == [to |-> read, out |-> out]
<1>1. /\ UNCHANGED <<stream, read, pipeline, routes, at, data, failed>>
      /\ turns' = Append(turns, turn)
  BY DEF client, context, Turn
<1>2. /\ IsSequence(turns') /\ Len(turns') = n + 1
      /\ \A i \in 1..n : turns'[i] = turns[i]
      /\ turns'[n + 1] = turn
  BY <1>0, <1>1, AppendToAny DEF Serving, Placed
<1>3. turn.to = read /\ turn.out = out
  OBVIOUS
<1> HIDE DEF turn
<1>4. Len(stream) \in Nat /\ read \in 0..Len(stream)
  BY Lengths DEF Serving, Placed
<1>5. Placed'
  BY <1>1, <1>2 DEF Serving, Placed
<1>6. \A i \in 1..n + 1 : From(i)' = From(i) /\ From(i) \in Nat
  <2>1. \A i \in 1..n + 1 : From(i)' = From(i)
    BY <1>2 DEF From
  <2> QED
    BY <1>0, <2>1, FromNat DEF Serving
<1>7. From(n + 1) < read /\ data = SubSeq(stream, From(n + 1) + 1, read)
  BY <1>0 DEF Serving, Handling
<1>8. Chunk(n + 1)' = data
  <2>1. Chunk(n + 1)' = SubSeq(stream', From(n + 1)' + 1, turns'[n + 1].to)
    BY DEF Chunk
  <2> QED
    BY <1>1, <1>2, <1>3, <1>6, <1>7, <2>1
<1>9. \A i \in 1..n : Chunk(i)' = Chunk(i)
  <2> TAKE i \in 1..n
  <2>1. From(i)' = From(i) /\ turns'[i] = turns[i] /\ stream' = stream
    BY <1>0, <1>1, <1>2, <1>6
  <2> QED
    BY <2>1 DEF Chunk
<1>10. Answered'
  <2> SUFFICES ASSUME NEW i \in 1..n + 1
               PROVE  /\ turns'[i].to \in Nat /\ turns'[i].to \in From(i)' + 1..read'
                      /\ Len(turns'[i].out) \in Due(Chunk(i))'
    BY <1>2 DEF Answered
  <2>1. CASE i = n + 1
    <3>1. turns'[i].to = read /\ turns'[i].out = out
      BY <1>2, <1>3, <2>1
    <3>2. read \in Nat /\ From(i)' \in Nat /\ From(i)' < read
      BY <1>4, <1>6, <1>7, <2>1
    <3>3. Chunk(i)' = data
      BY <1>8, <2>1
    <3>4. turns'[i].to \in Nat /\ turns'[i].to \in From(i)' + 1..read'
      BY <1>1, <3>1, <3>2
    <3>5. Len(turns'[i].out) \in Due(Chunk(i))'
      <4>1. Due(Chunk(i))' = Due(data)
        BY <1>1, <3>3 DEF Due, Parses, CutShort, MayBeSilent
      <4> QED
        BY <3>1, <4>1
    <3> QED
      BY <3>1, <3>4, <3>5
  <2>2. CASE i # n + 1
    <3>1. i \in 1..n
      BY <1>2, <2>2
    <3> QED
      <4>1. Chunk(i)' = Chunk(i) /\ turns'[i] = turns[i] /\ From(i)' = From(i) /\ read' = read
        BY <1>1, <1>2, <1>6, <1>9, <3>1
      <4>2. Due(Chunk(i))' = Due(Chunk(i))
        BY <1>1, <4>1 DEF Due, Parses, CutShort, MayBeSilent
      <4>3. /\ turns[i].to \in Nat /\ turns[i].to \in From(i) + 1..read
            /\ Len(turns[i].out) \in Due(Chunk(i))
        BY <1>0, <3>1 DEF Serving, Answered
      <4> QED
        BY <4>1, <4>2, <4>3
  <2> QED
    BY <2>1, <2>2
<1>11. Handling'
  <2>1. From(Len(turns) + 1)' = read
    BY <1>2, <1>3 DEF From
  <2> QED
    BY <1>1, <2>1 DEF Handling
<1>12. Recursion'
  BY <1>1 DEF Serving, Recursion
<1> QED
  BY <1>1, <1>5, <1>10, <1>11, <1>12 DEF Serving, RoutesKnown

LEMMA PipelineReturnsServing ==
  ASSUME Serving, PipelineReturns
  PROVE  Serving'
<1>1. pc = "up" /\ at = 0 /\ UNCHANGED <<client, read, pipeline, routes, context>>
  BY DEF PipelineReturns
<1>2. CASE failed
  <2>1. pc' = "idle" /\ Turn(<< >>) /\ Len(<< >>) = 0
    BY <1>2 DEF PipelineReturns
  <2>2. Due(data) = {0}
    BY <1>1, <1>2 DEF Serving, Recursion, Due
  <2> QED
    BY <1>1, <2>1, <2>2, TurnServing
<1>3. CASE ~failed
  <2>1. pc' = "app" /\ UNCHANGED <<turns, data, failed, at>>
    BY <1>3 DEF PipelineReturns, context
  <2>2. Parses' = Parses /\ CutShort(data)' = CutShort(data)
    BY <1>1, <2>1 DEF Parses, CutShort
  <2>3. Recursion /\ Len(pipeline) \in Nat
    BY PipelineSeq DEF Serving
  <2>4. Recursion'
    BY <1>1, <1>3, <2>1, <2>2, <2>3 DEF Recursion
  <2> QED
    BY <1>1, <2>1, <2>4, InsideServing
<1> QED
  BY <1>2, <1>3

LEMMA OnDataServing ==
  ASSUME Serving, OnData
  PROVE  Serving'
<1>1. pc = "app" /\ pc' = "idle" /\ UNCHANGED <<client, read, pipeline, routes, context>>
  BY DEF OnData
<1>2. PICK answer \in Answers(routes, data) : Turn(Written(answer))
  BY DEF OnData
<1>3. ~(Parses /\ CutShort(data))
  BY <1>1 DEF Serving, Recursion
<1>4. Len(Written(answer)) \in Due(data)
  <2>1. CASE answer = NoAnswer
    <3>1. MayBeSilent(data)
      BY <1>2, <2>1, SilentOnPurpose DEF Serving
    <3>2. Len(Written(answer)) = 0
      BY <2>1 DEF Written
    <3> QED
      BY <1>3, <3>1, <3>2 DEF Due
  <2>2. CASE answer # NoAnswer
    <3>1. Len(Written(answer)) = 1
      BY <2>2 DEF Written
    <3> QED
      BY <1>3, <3>1 DEF Due
  <2> QED
    BY <2>1, <2>2
<1> QED
  BY <1>1, <1>2, <1>4, TurnServing

\* A route may be added at any moment, also between the parts of an answer.
LEMMA RegisterServing ==
  ASSUME Serving, NEW r \in LateRoutes, Register(r)
  PROVE  Serving'
<1>1. /\ UNCHANGED <<stream, read, pipeline, pc, at, data, failed, turns>>
      /\ routes' = [k \in DOMAIN routes \union {<<r.method, r.pattern>>} |->
                      IF k = <<r.method, r.pattern>> THEN r.handler ELSE routes[k]]
  BY DEF Register, client, context
<1>2. r.handler \in Handlers
  BY HttpAssumption DEF HttpAssumption
<1>3. RoutesKnown'
  <2> SUFFICES ASSUME NEW k \in DOMAIN routes'
               PROVE  /\ routes'[k] \in Handlers
                      /\ routes'[k] = "silent" =>
                           \E l \in LateRoutes : k = <<l.method, l.pattern>> /\ l.handler = "silent"
    BY DEF RoutesKnown
  <2>1. CASE k = <<r.method, r.pattern>>
    BY <1>1, <1>2, <2>1
  <2>2. CASE k # <<r.method, r.pattern>>
    <3>1. k \in DOMAIN routes /\ routes'[k] = routes[k]
      BY <1>1, <2>2
    <3> QED
      BY <3>1 DEF Serving, RoutesKnown
  <2> QED
    BY <2>1, <2>2
<1>4. Placed' /\ pipeline' \in Pipelines /\ Answered' /\ From(Len(turns) + 1)' = From(Len(turns) + 1)
  BY <1>1, HistoryKept
<1>5. Handling'
  BY <1>1, <1>4 DEF Serving, Handling
<1>6. Recursion'
  BY <1>1 DEF Serving, Recursion, Parses
<1> QED
  BY <1>3, <1>4, <1>5, <1>6 DEF Serving

LEMMA ServingStep == Serving /\ [Next]_vars => Serving'
<1> SUFFICES ASSUME Serving, [Next]_vars PROVE Serving'
  OBVIOUS
<1>1. ASSUME NEW r \in Requests, Send(r) PROVE Serving'
  BY <1>1, SendServing
<1>2. ASSUME NEW n \in 1..Len(stream), Deliver(n) PROVE Serving'
  BY <1>2, DeliverServing
<1>3. CASE HandleRead
  BY <1>3, ParserServing, ResponderServing, EndServing, ReturnServing,
     PipelineReturnsServing, OnDataServing DEF HandleRead
<1>4. ASSUME NEW r \in LateRoutes, Register(r) PROVE Serving'
  BY <1>4, RegisterServing
<1>5. CASE UNCHANGED vars
  <2>1. UNCHANGED <<stream, read, pipeline, routes, pc, at, data, failed, turns>>
    BY <1>5 DEF vars, client, context
  <2>2. Placed' /\ pipeline' \in Pipelines /\ Answered' /\ From(Len(turns) + 1)' = From(Len(turns) + 1)
    BY <2>1, HistoryKept
  <2> QED
    BY <2>1, <2>2 DEF Serving, Handling, Recursion, RoutesKnown, Parses
<1> QED
  BY <1>1, <1>2, <1>3, <1>4, <1>5 DEF Next

LEMMA ServingAlways == Spec => []Serving
<1> QED
  BY ServingInit, ServingStep, PTL DEF Spec

\* The position in the stream, the place in the recursion and the ends of the
\* chunks handled stay in their ranges for every pipeline and every set of
\* requests (handleRead, executeMiddleware).
THEOREM HttpTypes == Spec => []TypeOK
<1>1. Serving => TypeOK
  BY DEF Serving, Placed, Recursion, Answered, TypeOK
<1> QED
  BY <1>1, ServingAlways, PTL

\* However the stream is cut, whatever middlewares there are in whatever order and
\* whatever routes are added, a chunk is answered exactly once, or not at all if
\* a parser found its request line cut short or a handler registered for its
\* request had nothing to say (handleRead, executeMiddleware, Match).
THEOREM HttpOneAnswer == Spec => []OneAnswerPerChunk
<1>1. Serving => OneAnswerPerChunk
  BY DEF Serving, Answered, OneAnswerPerChunk, Due, Parses, CutShort
<1> QED
  BY <1>1, ServingAlways, PTL

-----------------------------------------------------------------------------
(* HTTP: what is understood. *)

\* While a chunk is handled the context holds no request, or what the
\* middleware takes this very chunk for.
Understanding == pc # "idle" => request \in {NoRequest, ParseLoosely(data)}

LEMMA UnderstandingKept == Understanding /\ [Next]_vars => Understanding'
<1> SUFFICES ASSUME Understanding, [Next]_vars PROVE Understanding'
  OBVIOUS
<1>1. CASE UNCHANGED <<pc, data, request>>
  BY <1>1 DEF Understanding
<1>2. ASSUME NEW n \in 1..Len(stream), Deliver(n) PROVE Understanding'
  BY <1>2 DEF Deliver, Understanding
<1>3. CASE HTTPParserMiddleware
  <2>1. pc # "idle" /\ data' = data /\ request' \in {request, ParseLoosely(data)}
    BY <1>3 DEF HTTPParserMiddleware, Runs
  <2> QED
    BY <2>1 DEF Understanding
<1>4. CASE HTTPResponseMiddleware \/ EndOfPipeline \/ ReturnToMiddleware \/ PipelineReturns
           \/ OnData
  <2>1. pc # "idle" /\ data' = data /\ request' = request
    BY <1>4 DEF HTTPResponseMiddleware, EndOfPipeline, ReturnToMiddleware, PipelineReturns,
                OnData, Runs, context
  <2> QED
    BY <2>1 DEF Understanding
<1>5. ASSUME NEW r \in Requests, Send(r) PROVE Understanding'
  BY <1>1, <1>5 DEF Send, context
<1>6. ASSUME NEW r \in LateRoutes, Register(r) PROVE Understanding'
  BY <1>1, <1>6 DEF Register, context
<1>7. CASE UNCHANGED vars
  BY <1>1, <1>7 DEF vars, context
<1> QED
  BY <1>2, <1>3, <1>4, <1>5, <1>6, <1>7 DEF Next, HandleRead

LEMMA UnderstandingAlways == Spec => []Understanding
<1>1. Init => Understanding
  BY DEF Init, Understanding
<1> QED
  BY <1>1, UnderstandingKept, PTL DEF Spec

LEMMA ChunkTokens ==
  ASSUME Serving, pc # "idle"
  PROVE  /\ data \in Seq(Tokens) /\ From(Len(turns) + 1) = read - Len(data)
         /\ data = SubSeq(stream, read - Len(data) + 1, read)
<1> DEFINE from == From(Len(turns) + 1)
<1>1. stream \in Seq(Tokens) /\ Len(stream) \in Nat /\ read \in 0..Len(stream)
  BY Lengths DEF Serving, Placed
<1>2. from \in Nat
  <2>1. Len(turns) + 1 \in 1..Len(turns) + 1
    BY Lengths DEF Serving
  <2> QED
    BY <2>1, FromNat DEF Serving
<1>3. from < read /\ data = SubSeq(stream, from + 1, read)
  BY DEF Serving, Handling
<1> HIDE DEF from
<1>4. from + 1 \in Int /\ read \in Int /\ \A i \in from + 1..read : stream[i] \in Tokens
  <2>1. \A i \in 1..Len(stream) : stream[i] \in Tokens
    BY <1>1, ElementOfSeq
  <2> QED
    BY <1>1, <1>2, <2>1
<1>5. /\ SubSeq(stream, from + 1, read) \in Seq(Tokens)
      /\ Len(SubSeq(stream, from + 1, read)) = IF from + 1 <= read THEN read - (from + 1) + 1 ELSE 0
  BY <1>4, SubSeqProperties
<1>6. data \in Seq(Tokens) /\ Len(data) = read - from
  BY <1>1, <1>2, <1>3, <1>5
<1>7. read - Len(data) = from
  BY <1>1, <1>2, <1>6
<1> QED
  BY <1>3, <1>6, <1>7 DEF from

\* The two parsers never take a chunk for two different requests, whatever the
\* requests and however the stream is cut (parseHTTPRequest of middleware/http.go,
\* ParseHTTPRequest of transport/http/parser.go).
THEOREM HttpParsersAgree == Spec => []ParsersAgree
<1>1. Serving /\ Understanding => ParsersAgree
  <2> SUFFICES ASSUME Serving, Understanding, pc = "app", request # NoRequest,
                      ParseHTTPRequest(data) # NoRequest
               PROVE  request = ParseHTTPRequest(data)
    BY DEF ParsersAgree
  <2>1. data \in Seq(Tokens)
    BY ChunkTokens
  <2>2. ParseLoosely(data) = ParseHTTPRequest(data)
    BY <2>1, ParsedAlike
  <2> QED
    BY <2>2 DEF Understanding
<1> QED
  BY <1>1, ServingAlways, UnderstandingAlways, PTL

\* Every request that was sent is in the stream, in its place.
InPlace(k) ==
  /\ sent[k].request \in Requests /\ sent[k].from \in Nat
  /\ sent[k].to \in sent[k].from + 1..Len(stream)
  /\ SubSeq(stream, sent[k].from + 1, sent[k].to) = RequestText(sent[k].request)

Sending == IsSequence(sent) /\ \A k \in 1..Len(sent) : InPlace(k)

LEMMA SendingKept ==
  ASSUME Serving, Sending, [Next]_vars
  PROVE  Sending'
<1>1. CASE UNCHANGED <<sent, stream>>
  BY <1>1 DEF Sending, InPlace
<1>2. ASSUME NEW r \in Requests, Send(r) PROVE Sending'
  <2> DEFINE text == RequestText(r)
             entry == [request |-> r, from |-> Len(stream), to |-> Len(stream')]
  <2>1. /\ stream' = stream \o text /\ sent' = Append(sent, entry)
        /\ entry.request = r /\ entry.from = Len(stream) /\ entry.to = Len(stream')
    BY <1>2 DEF Send
  <2> HIDE DEF entry
  <2>2. text \in Seq(Tokens) /\ Len(text) \in Nat \ {0} /\ RequestText(r) = text
    BY TextTokens DEF Filled
  <2> HIDE DEF text
  <2>3. stream \in Seq(Tokens) /\ Len(stream) \in Nat
    BY Lengths DEF Serving, Placed
  <2>4. /\ stream' \in Seq(Tokens) /\ Len(stream') = Len(stream) + Len(text)
        /\ \A i \in 1..Len(text) : stream'[Len(stream) + i] = text[i]
    <3>1. /\ stream' \in Seq(Tokens) /\ Len(stream') = Len(stream) + Len(text)
          /\ \A i \in 1..Len(stream) + Len(text) :
               stream'[i] = IF i <= Len(stream) THEN stream[i] ELSE text[i - Len(stream)]
      BY <2>1, <2>2, <2>3, ConcatProperties
    <3>2. \A i \in 1..Len(text) : /\ Len(stream) + i \in 1..Len(stream) + Len(text)
                                 /\ ~(Len(stream) + i <= Len(stream))
                                 /\ Len(stream) + i - Len(stream) = i
      BY <2>2, <2>3
    <3> QED
      BY <3>1, <3>2
  <2>5. SubSeq(stream', Len(stream) + 1, Len(stream')) = text
    <3>1. Len(stream) + Len(text) <= Len(stream')
      BY <2>2, <2>3, <2>4
    <3>2. SubSeq(stream', Len(stream) + 1, Len(stream) + Len(text)) = text
      BY <2>2, <2>3, <2>4, <3>1, StretchIs
    <3> QED
      BY <2>4, <3>2
  <2>6. PICK n \in Nat : n = Len(sent)
    BY AppendToAny DEF Sending
  <2>7. /\ IsSequence(sent') /\ Len(sent') = n + 1 /\ sent'[n + 1] = entry
        /\ \A k \in 1..n : sent'[k] = sent[k]
    BY <2>1, <2>6, AppendToAny DEF Sending
  <2>8. InPlace(n + 1)'
    <3>1. Len(stream') \in Len(stream) + 1..Len(stream')
      BY <2>2, <2>3, <2>4
    <3> QED
      BY <2>1, <2>2, <2>3, <2>5, <2>7, <3>1 DEF InPlace, RequestText
  <2>9. ASSUME NEW k \in 1..n PROVE InPlace(k)'
    <3>1. /\ sent[k].request \in Requests /\ sent[k].from \in Nat
          /\ sent[k].to \in sent[k].from + 1..Len(stream)
          /\ SubSeq(stream, sent[k].from + 1, sent[k].to) = RequestText(sent[k].request)
      BY <2>6 DEF Sending, InPlace
    <3>2. ASSUME NEW from \in Nat, NEW to \in from + 1..Len(stream)
          PROVE  from + 1 \in 1..Len(stream) /\ to \in 1..Len(stream)
                 /\ to \in from + 1..Len(stream) + Len(text)
      BY <2>2, <2>3
    <3>3. /\ SubSeq(stream', sent[k].from + 1, sent[k].to)
               = SubSeq(stream, sent[k].from + 1, sent[k].to)
          /\ sent[k].to \in sent[k].from + 1..Len(stream')
      <4>1. /\ sent[k].from + 1 \in 1..Len(stream) /\ sent[k].to \in 1..Len(stream)
            /\ sent[k].to \in sent[k].from + 1..Len(stream) + Len(text)
        BY <3>1, <3>2
      <4>2. \A i, j \in 1..Len(stream) : SubSeq(stream', i, j) = SubSeq(stream, i, j)
        BY <2>1, <2>2, <2>3, SubSeqOfConcat1
      <4> QED
        BY <2>4, <4>1, <4>2
    <3>4. sent'[k] = sent[k]
      BY <2>7
    <3> QED
      BY <3>1, <3>3, <3>4 DEF InPlace, RequestText
  <2>10. \A k \in 1..n + 1 : InPlace(k)'
    <3> TAKE k \in 1..n + 1
    <3>1. k = n + 1 \/ k \in 1..n
      OBVIOUS
    <3> QED
      BY <2>8, <2>9, <3>1
  <2> QED
    BY <2>7, <2>10 DEF Sending
<1>3. ASSUME NEW n \in 1..Len(stream), Deliver(n) PROVE Sending'
  BY <1>1, <1>3 DEF Deliver, client
<1>4. CASE HandleRead
  BY <1>1, <1>4 DEF HandleRead, HTTPParserMiddleware, HTTPResponseMiddleware, EndOfPipeline,
                    ReturnToMiddleware, PipelineReturns, OnData, client
<1>5. ASSUME NEW r \in LateRoutes, Register(r) PROVE Sending'
  BY <1>1, <1>5 DEF Register, client
<1>6. CASE UNCHANGED vars
  BY <1>1, <1>6 DEF vars, client
<1> QED
  BY <1>2, <1>3, <1>4, <1>5, <1>6 DEF Next

LEMMA SendingAlways == Spec => []Sending
<1>1. Init => Sending
  <2> SUFFICES ASSUME Init PROVE Sending
    OBVIOUS
  <2>1. sent = << >> /\ Len(sent) = 0
    BY DEF Init
  <2> QED
    BY <2>1, EmptySeq DEF Sending, IsSequence
<1>2. Serving /\ Sending /\ [Next]_vars => Sending'
  BY SendingKept
<1> QED
  BY <1>1, <1>2, ServingAlways, PTL DEF Spec

\* A chunk that is one well-formed request, from its first token to its last, is
\* that request to the application.
LEMMA WholeUnderstood ==
  ASSUME Serving, Sending, pc # "idle", NEW k \in 1..Len(sent),
         Plain(sent[k].request), read = sent[k].to, read - Len(data) = sent[k].from
  PROVE  /\ Answers(routes, data) = Expected(sent[k].request)
         /\ ~CutShort(data)
<1> DEFINE r == sent[k].request
<1>1. /\ r \in Requests /\ RequestText(r) = SubSeq(stream, sent[k].from + 1, sent[k].to)
  BY DEF Sending, InPlace
<1>2. data \in Seq(Tokens) /\ data = RequestText(r)
  BY <1>1, ChunkTokens
<1> HIDE DEF r
<1>3. PICK m \in Nat, p \in Nat, b \in Nat : Laid(data, r, m, p, b)
  BY <1>1, <1>2, TextLaid DEF r
<1>4. ParseHTTPRequest(data) = [method |-> r.method, path |-> r.path, body |-> r.body]
  BY <1>1, <1>3, TextUnderstood
<1>5. ParseHTTPRequest(data) # NoRequest
  <2> DEFINE req == [method |-> r.method, path |-> r.path, body |-> r.body]
  <2>1. DOMAIN req = {"method", "path", "body"} /\ DOMAIN NoRequest = {"none"}
    BY DEF NoRequest
  <2>2. "none" \notin {"method", "path", "body"}
    OBVIOUS
  <2>3. ParseHTTPRequest(data) = req
    BY <1>4
  <2> HIDE DEF req
  <2> QED
    BY <2>1, <2>2, <2>3
<1>6. ~CutShort(data)
  BY <1>2, <1>5, ParsedAlike, ParsedOrNot DEF CutShort
<1>7. Answers(routes, data) = Expected(r)
  <2> DEFINE req == ParseHTTPRequest(data)
  <2>1. req.method = r.method /\ req.path = r.path /\ req.body = r.body
    BY <1>4
  <2>2. req # NoRequest
    BY <1>5
  <2> HIDE DEF req
  <2>3. Answers(routes, data) = {Handle(h, req.body) : h \in Match(routes, req.method, req.path)}
    BY <2>2, Zenon DEF Answers, req
  <2> QED
    BY <2>1, <2>3 DEF Expected
<1> QED
  BY <1>6, <1>7 DEF r

\* Whatever the requests, the pipelines and the routes added meanwhile, a chunk
\* that is one well-formed request is answered as its route says at that moment
\* (handleRead, ParseHTTPRequest, HTTPApplication.OnData).
THEOREM HttpWholeRequests == Spec => WholeRequestsAnswered
<1> DEFINE Answering ==
      \A k \in 1..Len(sent) :
        /\ Len(turns') > Len(turns) /\ sent[k].request.rest = <<SP, "HTTP/1.1">>
        /\ Last(turns').to = sent[k].to /\ read - Len(data) = sent[k].from
        => \E answer \in Expected(sent[k].request) : Last(turns').out = Written(answer)
<1>1. Serving /\ Sending /\ [Next]_vars => [Answering]_vars
  <2> SUFFICES ASSUME Serving, Sending, [Next]_vars, NEW k \in 1..Len(sent),
                      Len(turns') > Len(turns), Plain(sent[k].request),
                      Last(turns').to = sent[k].to, read - Len(data) = sent[k].from
               PROVE  \E answer \in Expected(sent[k].request) : Last(turns').out = Written(answer)
    BY DEF Plain
  <2>1. Len(turns) \in Nat
    BY Lengths DEF Serving
  <2>2. PipelineReturns \/ OnData
    <3>1. CASE UNCHANGED turns
      BY <2>1, <3>1
    <3>2. PipelineReturns \/ OnData \/ UNCHANGED turns
      BY DEF Next, Send, Deliver, HandleRead, HTTPParserMiddleware, HTTPResponseMiddleware,
             EndOfPipeline, ReturnToMiddleware, Register, vars
    <3> QED
      BY <3>1, <3>2
  <2>3. ASSUME NEW out, Turn(out) PROVE Last(turns').to = read /\ Last(turns').out = out
    <3> DEFINE turn == [to |-> read, out |-> out]
    <3>1. turns' = Append(turns, turn) /\ turn.to = read /\ turn.out = out
      BY <2>3 DEF Turn
    <3> HIDE DEF turn
    <3>2. Len(turns') = Len(turns) + 1 /\ turns'[Len(turns) + 1] = turn
      BY <3>1, AppendToAny DEF Serving, Placed
    <3> QED
      BY <3>1, <3>2 DEF Last
  <2>4. CASE PipelineReturns
    <3>1. pc = "up" /\ (failed => Turn(<< >>)) /\ (~failed => UNCHANGED turns)
      BY <2>4 DEF PipelineReturns
    <3>2. failed /\ Turn(<< >>)
      BY <2>1, <3>1
    <3>3. read = sent[k].to
      BY <2>3, <3>2
    <3>4. ~CutShort(data)
      BY <3>1, <3>3, WholeUnderstood
    <3>5. failed <=> Parses /\ CutShort(data)
      BY <3>1 DEF Serving, Recursion
    <3> QED
      BY <3>2, <3>4, <3>5
  <2>5. CASE OnData
    <3>1. pc = "app" /\ \E answer \in Answers(routes, data) : Turn(Written(answer))
      BY <2>5 DEF OnData
    <3>2. PICK answer \in Answers(routes, data) : Turn(Written(answer))
      BY <3>1
    <3>3. Last(turns').to = read /\ Last(turns').out = Written(answer)
      BY <2>3, <3>2
    <3>4. Answers(routes, data) = Expected(sent[k].request)
      BY <3>1, <3>3, WholeUnderstood
    <3> QED
      BY <3>2, <3>3, <3>4
  <2> QED
    BY <2>2, <2>4, <2>5
<1>2. Spec => [][Answering]_vars
  BY <1>1, ServingAlways, SendingAlways, PTL DEF Spec
<1> QED
  BY <1>2 DEF WholeRequestsAnswered
=============================================================================
