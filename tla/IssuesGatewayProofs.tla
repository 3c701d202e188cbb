------------------------- MODULE IssuesGatewayProofs -------------------------
(***************************************************************************)
(* Proofs about IssuesGateway and, further down, about BoardPresence, for  *)
(* any sets of sockets, tabs, users, tenants and projects.                 *)
(*                                                                         *)
(* The gateway's maps stay well typed and consistent: RoomBookkeeping is   *)
(* inductive on top of the type invariant, and RegisteredRoomsInUse on top *)
(* of both, as a handler drops a room from projectRooms whenever it takes  *)
(* a socket out of that room, and RoomBookkeeping says that socketMeta     *)
(* names the right room.  The tabs of BoardPresence only use the gateway,  *)
(* so this holds of them too; TabsInv says what the commands and messages  *)
(* under way still have to bring a tab before it is settled.               *)
(***************************************************************************)
EXTENDS BoardPresence, TLAPS

(* Emitting a message keeps every queue a sequence of messages. *)
LEMMA EmitType ==
  ASSUME outbox \in [Sockets -> Seq(Message)], NEW to, NEW msg \in Message
  PROVE  Emit(to, msg) \in [Sockets -> Seq(Message)]
BY DEF Emit

(* Emptying one queue keeps the queues typed. *)
LEMMA ClearedType ==
  ASSUME NEW q \in [Sockets -> Seq(Message)], NEW s \in Sockets
  PROVE  [q EXCEPT ![s] = <<>>] \in [Sockets -> Seq(Message)]
<1>1. <<>> \in Seq(Message)
  OBVIOUS
<1>2. QED
  BY <1>1

(* Every kind of message the handlers build is a Message. *)
LEMMA MessageKinds ==
  /\ \A us \in SUBSET Users : ViewersInitial(us) \in Message
  /\ \A u \in Users : UserViewing(u) \in Message /\ UserLeft(u) \in Message
  /\ \A p \in Projects : BoardEvent(p) \in Message
  /\ Notification \in Message
BY DEF ViewersInitial, UserViewing, UserLeft, BoardEvent, Notification, Message

(* Room names are rooms. *)
LEMMA RoomType ==
  ASSUME NEW u \in Users, NEW p \in Projects
  PROVE  Room(p, u) \in Rooms /\ Room(p, u)[1] = p
BY ConstantsAssumption DEF Room, Rooms

(* Taking a joined socket out of its room keeps the three maps typed. *)
LEMMA WithoutType ==
  ASSUME GatewayTypeOK, NEW s \in Sockets, Joined(s)
  PROVE  /\ ViewersWithout(s) \in [Rooms -> [Sockets -> Users \cup {NoUser}]]
         /\ MembersWithout(s) \in [Rooms -> SUBSET Sockets]
         /\ ProjectRoomsWithout(s) \in [Projects -> SUBSET Rooms]
         /\ socketMeta[s] \in Meta
         /\ socketMeta[s].room \in Rooms
         /\ socketMeta[s].userId \in Users
         /\ socketMeta[s].projectId \in Projects
<1>1. socketMeta[s] \in Meta
  BY DEF GatewayTypeOK, Joined
<1>2. /\ socketMeta[s].room \in Rooms
      /\ socketMeta[s].userId \in Users
      /\ socketMeta[s].projectId \in Projects
  BY <1>1 DEF Meta
<1>3. ViewersWithout(s) \in [Rooms -> [Sockets -> Users \cup {NoUser}]]
  BY <1>2 DEF GatewayTypeOK, ViewersWithout
<1>4. MembersWithout(s) \in [Rooms -> SUBSET Sockets]
  BY <1>2 DEF GatewayTypeOK, MembersWithout
<1>5. ProjectRoomsWithout(s) \in [Projects -> SUBSET Rooms]
  BY <1>2 DEF GatewayTypeOK, ProjectRoomsWithout
<1>6. QED
  BY <1>1, <1>2, <1>3, <1>4, <1>5

-----------------------------------------------------------------------------

LEMMA InitType == GatewayInit => GatewayTypeOK
BY DEF GatewayInit, GatewayTypeOK

LEMMA ConnectionType ==
  ASSUME GatewayTypeOK, NEW s \in Sockets, NEW u \in Users, NEW ok \in BOOLEAN,
         HandleConnection(s, u, ok)
  PROVE  GatewayTypeOK'
BY DEF GatewayTypeOK, HandleConnection, roomVars

LEMMA DisconnectType ==
  ASSUME GatewayTypeOK, NEW s \in Sockets, HandleDisconnect(s)
  PROVE  GatewayTypeOK'
<1>1. conn' \in SUBSET Sockets /\ userRooms' \in [Users -> SUBSET Sockets]
  BY DEF GatewayTypeOK, HandleDisconnect
<1>2. CASE Joined(s)
  <2>1. Emit(OthersIn(socketMeta[s].room, s), UserLeft(socketMeta[s].userId))
          \in [Sockets -> Seq(Message)]
    BY <1>2, WithoutType, MessageKinds, EmitType DEF GatewayTypeOK
  <2>2. outbox' \in [Sockets -> Seq(Message)]
    <3>1. outbox' = [Emit(OthersIn(socketMeta[s].room, s),
                          UserLeft(socketMeta[s].userId)) EXCEPT ![s] = <<>>]
      BY <1>2 DEF HandleDisconnect
    <3>2. QED
      BY <2>1, <3>1, ClearedType
  <2>3. /\ viewersMap' \in [Rooms -> [Sockets -> Users \cup {NoUser}]]
        /\ roomMembers' \in [Rooms -> SUBSET Sockets]
        /\ projectRooms' \in [Projects -> SUBSET Rooms]
    BY <1>2, WithoutType DEF HandleDisconnect
  <2>4. socketMeta' \in [Sockets -> Meta \cup {NoMeta}]
    BY <1>2 DEF HandleDisconnect, GatewayTypeOK
  <2>5. QED
    BY <1>1, <2>2, <2>3, <2>4 DEF GatewayTypeOK
<1>3. CASE ~Joined(s)
  <2>1. outbox' \in [Sockets -> Seq(Message)]
    <3>1. outbox' = [outbox EXCEPT ![s] = <<>>]
      BY <1>3 DEF HandleDisconnect
    <3>2. QED
      BY <3>1, ClearedType DEF GatewayTypeOK
  <2>2. QED
    BY <1>1, <1>3, <2>1 DEF GatewayTypeOK, HandleDisconnect, roomVars
<1>4. QED
  BY <1>2, <1>3

LEMMA LeaveType ==
  ASSUME GatewayTypeOK, NEW s \in Sockets, HandleLeaveProject(s)
  PROVE  GatewayTypeOK'
<1>1. Joined(s)
  BY DEF HandleLeaveProject
<1>2. outbox' \in [Sockets -> Seq(Message)]
  BY <1>1, WithoutType, MessageKinds, EmitType DEF GatewayTypeOK, HandleLeaveProject
<1>3. QED
  BY <1>1, <1>2, WithoutType DEF GatewayTypeOK, HandleLeaveProject

LEMMA JoinType ==
  ASSUME GatewayTypeOK, NEW s \in Sockets, NEW u \in Users, NEW p \in Projects,
         HandleJoinProject(s, u, p)
  PROVE  GatewayTypeOK'
<1> DEFINE room     == Room(p, u)
           old      == socketMeta[s]
           leaving  == Joined(s) /\ old.room # room
           left     == IF leaving THEN OthersIn(old.room, s) ELSE {}
           existing == ViewersIn(room) \ {u}
           viewers  == IF leaving THEN ViewersWithout(s) ELSE viewersMap
           members  == IF leaving THEN MembersWithout(s) ELSE roomMembers
           rooms    == IF leaving THEN ProjectRoomsWithout(s) ELSE projectRooms
           told     == Emit(left, UserLeft(old.userId))
<1>1. room \in Rooms
  BY RoomType
<1>2. /\ viewers \in [Rooms -> [Sockets -> Users \cup {NoUser}]]
      /\ members \in [Rooms -> SUBSET Sockets]
      /\ rooms \in [Projects -> SUBSET Rooms]
  BY WithoutType DEF GatewayTypeOK
<1>3. viewersMap' \in [Rooms -> [Sockets -> Users \cup {NoUser}]]
  BY <1>1, <1>2 DEF HandleJoinProject
<1>4. roomMembers' \in [Rooms -> SUBSET Sockets]
  BY <1>1, <1>2 DEF HandleJoinProject
<1>5. projectRooms' \in [Projects -> SUBSET Rooms]
  BY <1>1, <1>2 DEF HandleJoinProject
<1>6. socketMeta' \in [Sockets -> Meta \cup {NoMeta}]
  BY <1>1 DEF HandleJoinProject, GatewayTypeOK, Meta
<1>7. outbox' \in [Sockets -> Seq(Message)]
  <2>1. existing \in SUBSET Users
    BY <1>1 DEF ViewersIn, GatewayTypeOK
  <2>2. told \in [Sockets -> Seq(Message)]
    <3>1. CASE leaving
      BY <3>1, WithoutType, MessageKinds, EmitType DEF GatewayTypeOK
    <3>2. CASE ~leaving
      <4>1. told = outbox
        BY <3>2 DEF Emit, GatewayTypeOK
      <4>2. QED
        BY <4>1 DEF GatewayTypeOK
    <3>3. QED
      BY <3>1, <3>2
  <2>3. outbox' = [x \in Sockets |->
           IF x = s THEN Append(outbox[s], ViewersInitial(existing))
           ELSE IF x \in OthersIn(room, s) THEN Append(told[x], UserViewing(u))
           ELSE told[x]]
    BY DEF HandleJoinProject
  <2>4. ViewersInitial(existing) \in Message /\ UserViewing(u) \in Message
    BY <2>1, MessageKinds
  <2>5. outbox \in [Sockets -> Seq(Message)]
    BY DEF GatewayTypeOK
  <2> HIDE DEF told, existing
  <2>6. QED
    BY <2>2, <2>3, <2>4, <2>5
<1>8. conn' \in SUBSET Sockets /\ userRooms' \in [Users -> SUBSET Sockets]
  BY DEF GatewayTypeOK, HandleJoinProject
<1>9. QED
  BY <1>3, <1>4, <1>5, <1>6, <1>7, <1>8 DEF GatewayTypeOK

LEMMA EventType ==
  ASSUME GatewayTypeOK,
         \/ \E p \in Projects : HandleBoardEvent(p)
         \/ \E u \in Users : EmitToUser(u)
         \/ \E s \in Sockets : Deliver(s)
         \/ GatewayRestart
  PROVE  GatewayTypeOK'
<1>1. ASSUME NEW p \in Projects, HandleBoardEvent(p) PROVE GatewayTypeOK'
  BY <1>1, MessageKinds, EmitType DEF GatewayTypeOK, HandleBoardEvent, roomVars
<1>2. ASSUME NEW u \in Users, EmitToUser(u) PROVE GatewayTypeOK'
  BY <1>2, MessageKinds, EmitType DEF GatewayTypeOK, EmitToUser, roomVars
<1>3. ASSUME NEW s \in Sockets, Deliver(s) PROVE GatewayTypeOK'
  BY <1>3 DEF GatewayTypeOK, Deliver, roomVars
<1>4. ASSUME GatewayRestart PROVE GatewayTypeOK'
  BY <1>4 DEF GatewayTypeOK, GatewayRestart
<1>5. QED
  BY <1>1, <1>2, <1>3, <1>4

LEMMA NextType == GatewayTypeOK /\ [GatewayNext]_gatewayVars => GatewayTypeOK'
<1>1. CASE UNCHANGED gatewayVars
  BY <1>1 DEF gatewayVars, roomVars, GatewayTypeOK
<1>2. ASSUME GatewayTypeOK, GatewayNext PROVE GatewayTypeOK'
  BY <1>2, ConnectionType, DisconnectType, JoinType, LeaveType, EventType
     DEF GatewayNext, HandleJoinRejected
<1>3. QED
  BY <1>1, <1>2

(* The gateway's maps keep their types in every behaviour of the handlers. *)
THEOREM GatewayTypeCorrect == GatewaySpec => []GatewayTypeOK
BY InitType, NextType, PTL DEF GatewaySpec

-----------------------------------------------------------------------------
(* RoomBookkeeping, socket by socket.                                       *)

SocketBookkeeping(s) ==
  /\ \A r \in Rooms :
       /\ viewersMap[r][s] # NoUser <=> Joined(s) /\ socketMeta[s].room = r
       /\ s \in roomMembers[r] <=> Joined(s) /\ socketMeta[s].room = r
  /\ Joined(s) =>
       /\ s \in conn
       /\ socketMeta[s].room = Room(socketMeta[s].projectId, socketMeta[s].userId)
       /\ viewersMap[socketMeta[s].room][s] = socketMeta[s].userId
       /\ s \in userRooms[socketMeta[s].userId]

LEMMA BookkeepingBySocket ==
  RoomBookkeeping <=> \A s \in Sockets : SocketBookkeeping(s)
BY DEF RoomBookkeeping, SocketBookkeeping

(* Taking socket s out of its room clears its entries and leaves those of   *)
(* every other socket alone.                                                *)
LEMMA WithoutEffect ==
  ASSUME GatewayTypeOK, RoomBookkeeping, NEW s \in Sockets, Joined(s)
  PROVE  /\ \A r \in Rooms : ViewersWithout(s)[r][s] = NoUser
         /\ \A r \in Rooms : s \notin MembersWithout(s)[r]
         /\ \A r \in Rooms, x \in Sockets : x # s =>
              /\ ViewersWithout(s)[r][x] = viewersMap[r][x]
              /\ x \in MembersWithout(s)[r] <=> x \in roomMembers[r]
<1>1. socketMeta[s].room \in Rooms
  BY WithoutType
<1>2. SocketBookkeeping(s)
  BY BookkeepingBySocket
<1>3. ASSUME NEW r \in Rooms PROVE ViewersWithout(s)[r][s] = NoUser
  BY <1>1, <1>2 DEF ViewersWithout, GatewayTypeOK, SocketBookkeeping
<1>4. ASSUME NEW r \in Rooms PROVE s \notin MembersWithout(s)[r]
  BY <1>1, <1>2 DEF MembersWithout, GatewayTypeOK, SocketBookkeeping
<1>5. ASSUME NEW r \in Rooms, NEW x \in Sockets, x # s
      PROVE  /\ ViewersWithout(s)[r][x] = viewersMap[r][x]
             /\ x \in MembersWithout(s)[r] <=> x \in roomMembers[r]
  BY <1>1, <1>5 DEF ViewersWithout, MembersWithout, GatewayTypeOK
<1>6. QED
  BY <1>3, <1>4, <1>5

(* Both handlers that end the viewing of a joined socket do this much.      *)
LEMMA DepartureBookkeeping ==
  ASSUME GatewayTypeOK, RoomBookkeeping, NEW s \in Sockets, Joined(s),
         viewersMap' = ViewersWithout(s),
         roomMembers' = MembersWithout(s),
         socketMeta' = [socketMeta EXCEPT ![s] = NoMeta],
         \A x \in Sockets \ {s} : x \in conn => x \in conn',
         \A u \in Users : userRooms[u] \ {s} \subseteq userRooms'[u]
  PROVE  RoomBookkeeping'
<1>1. SUFFICES ASSUME NEW x \in Sockets PROVE SocketBookkeeping(x)'
  BY BookkeepingBySocket DEF RoomBookkeeping, SocketBookkeeping
<1>2. CASE x = s
  <2>1. ~Joined(s)'
    BY DEF Joined, GatewayTypeOK
  <2>2. QED
    BY <1>2, <2>1, WithoutEffect DEF SocketBookkeeping
<1>3. CASE x # s
  <2>1. SocketBookkeeping(x) /\ socketMeta'[x] = socketMeta[x] /\ (Joined(x)' <=> Joined(x))
    BY <1>3, BookkeepingBySocket DEF GatewayTypeOK, Joined
  <2>2. \A r \in Rooms :
          /\ viewersMap'[r][x] = viewersMap[r][x]
          /\ x \in roomMembers'[r] <=> x \in roomMembers[r]
    BY <1>3, WithoutEffect
  <2>3. Joined(x) => socketMeta[x].room \in Rooms /\ socketMeta[x].userId \in Users
    BY WithoutType
  <2>4. ASSUME Joined(x) PROVE x \in conn' /\ x \in userRooms'[socketMeta[x].userId]
    BY <1>3, <2>1, <2>3, <2>4 DEF SocketBookkeeping
  <2>5. QED
    BY <2>1, <2>2, <2>3, <2>4 DEF SocketBookkeeping
<1>4. QED
  BY <1>2, <1>3

LEMMA JoinBookkeeping ==
  ASSUME GatewayTypeOK, RoomBookkeeping,
         NEW s \in Sockets, NEW u \in Users, NEW p \in Projects,
         HandleJoinProject(s, u, p)
  PROVE  RoomBookkeeping'
<1> DEFINE room    == Room(p, u)
           leaving == Joined(s) /\ socketMeta[s].room # room
           viewers == IF leaving THEN ViewersWithout(s) ELSE viewersMap
           members == IF leaving THEN MembersWithout(s) ELSE roomMembers
<1>1. SUFFICES ASSUME NEW x \in Sockets PROVE SocketBookkeeping(x)'
  BY BookkeepingBySocket DEF RoomBookkeeping, SocketBookkeeping
<1>2. room \in Rooms
  BY RoomType
<1>3. /\ viewersMap' = [viewers EXCEPT ![room][s] = u]
      /\ roomMembers' = [members EXCEPT ![room] = @ \cup {s}]
      /\ socketMeta' =
           [socketMeta EXCEPT ![s] = [room |-> room, userId |-> u, projectId |-> p]]
      /\ userRooms' = [userRooms EXCEPT ![u] = @ \cup {s}]
      /\ conn' = conn /\ s \in conn
  BY DEF HandleJoinProject
<1>4. /\ viewers \in [Rooms -> [Sockets -> Users \cup {NoUser}]]
      /\ members \in [Rooms -> SUBSET Sockets]
  BY WithoutType DEF GatewayTypeOK
<1>5. CASE x = s
  <2>1. \A r \in Rooms : r # room =>
          viewers[r][s] = NoUser /\ s \notin members[r]
    <3>1. CASE leaving
      BY <3>1, WithoutEffect
    <3>2. CASE ~leaving
      BY <3>2, BookkeepingBySocket DEF SocketBookkeeping
    <3>3. QED
      BY <3>1, <3>2
  <2>2. socketMeta'[s] = [room |-> room, userId |-> u, projectId |-> p]
    BY <1>3 DEF GatewayTypeOK
  <2>3. Joined(s)'
    <3>1. socketMeta'[s] \in Meta
      BY <1>2, <2>2 DEF Meta
    <3>2. QED
      BY <3>1, ConstantsAssumption DEF Joined
  <2> HIDE DEF room, viewers, members
  <2>4. \A r \in Rooms :
          /\ viewersMap'[r][s] # NoUser <=> r = room
          /\ s \in roomMembers'[r] <=> r = room
    BY <1>2, <1>3, <1>4, <2>1, ConstantsAssumption
  <2>5. viewersMap'[room][s] = u /\ s \in userRooms'[u]
    BY <1>2, <1>3, <1>4 DEF GatewayTypeOK
  <2>6. room = Room(p, u)
    BY DEF room
  <2>7. QED
    BY <1>3, <1>5, <2>2, <2>3, <2>4, <2>5, <2>6 DEF SocketBookkeeping
<1>6. CASE x # s
  <2>1. SocketBookkeeping(x) /\ socketMeta'[x] = socketMeta[x] /\ (Joined(x)' <=> Joined(x))
    BY <1>3, <1>6, BookkeepingBySocket DEF GatewayTypeOK, Joined
  <2>2. \A r \in Rooms :
          /\ viewers[r][x] = viewersMap[r][x]
          /\ x \in members[r] <=> x \in roomMembers[r]
    BY <1>6, WithoutEffect
  <2>3. Joined(x) => socketMeta[x].room \in Rooms /\ socketMeta[x].userId \in Users
    BY WithoutType
  <2> HIDE DEF room, viewers, members
  <2>4. \A r \in Rooms :
          /\ viewersMap'[r][x] = viewersMap[r][x]
          /\ x \in roomMembers'[r] <=> x \in roomMembers[r]
    BY <1>2, <1>3, <1>4, <1>6, <2>2
  <2>5. \A v \in Users : userRooms[v] \subseteq userRooms'[v]
    BY <1>3 DEF GatewayTypeOK
  <2>6. QED
    BY <1>3, <2>1, <2>3, <2>4, <2>5 DEF SocketBookkeeping
<1>7. QED
  BY <1>5, <1>6

-----------------------------------------------------------------------------
(* RegisteredRoomsInUse.                                                    *)

(* Whatever room socket s is taken out of is also taken off its project's   *)
(* list, so the rooms that stay listed keep all their members.              *)
LEMMA WithoutRegistered ==
  ASSUME GatewayTypeOK, RoomBookkeeping, RegisteredRoomsInUse,
         NEW s \in Sockets, Joined(s),
         NEW p \in Projects, NEW r \in ProjectRoomsWithout(s)[p]
  PROVE  r \in Rooms /\ r[1] = p /\ MembersWithout(s)[r] # {}
<1>1. /\ socketMeta[s].room \in Rooms
      /\ socketMeta[s].userId \in Users
      /\ socketMeta[s].projectId \in Projects
  BY WithoutType
<1>2. socketMeta[s].room[1] = socketMeta[s].projectId
  <2>1. socketMeta[s].room = Room(socketMeta[s].projectId, socketMeta[s].userId)
    BY DEF RoomBookkeeping
  <2>2. QED
    BY <1>1, <2>1, RoomType
<1>3. r \in projectRooms[p] /\ r \in Rooms
  BY <1>1 DEF ProjectRoomsWithout, GatewayTypeOK
<1>4. r[1] = p /\ roomMembers[r] # {}
  BY <1>3 DEF RegisteredRoomsInUse
<1>5. r # socketMeta[s].room
  <2>1. SUFFICES ASSUME r = socketMeta[s].room PROVE FALSE
    OBVIOUS
  <2>2. p = socketMeta[s].projectId
    BY <1>2, <1>4, <2>1
  <2>3. QED
    BY <1>1, <2>1, <2>2 DEF ProjectRoomsWithout, GatewayTypeOK
<1>6. MembersWithout(s)[r] = roomMembers[r]
  BY <1>1, <1>3, <1>5 DEF MembersWithout, GatewayTypeOK
<1>7. QED
  BY <1>3, <1>4, <1>6

LEMMA DepartureRegistered ==
  ASSUME GatewayTypeOK, RoomBookkeeping, RegisteredRoomsInUse,
         NEW s \in Sockets, Joined(s),
         projectRooms' = ProjectRoomsWithout(s),
         roomMembers' = MembersWithout(s)
  PROVE  RegisteredRoomsInUse'
BY WithoutRegistered DEF RegisteredRoomsInUse

LEMMA JoinRegistered ==
  ASSUME GatewayTypeOK, RoomBookkeeping, RegisteredRoomsInUse,
         NEW s \in Sockets, NEW u \in Users, NEW p \in Projects,
         HandleJoinProject(s, u, p)
  PROVE  RegisteredRoomsInUse'
<1> DEFINE room    == Room(p, u)
           leaving == Joined(s) /\ socketMeta[s].room # room
           members == IF leaving THEN MembersWithout(s) ELSE roomMembers
           rooms   == IF leaving THEN ProjectRoomsWithout(s) ELSE projectRooms
<1>1. room \in Rooms /\ room[1] = p
  BY RoomType
<1>2. /\ roomMembers' = [members EXCEPT ![room] = @ \cup {s}]
      /\ projectRooms' = [rooms EXCEPT ![p] = @ \cup {room}]
  BY DEF HandleJoinProject
<1>3. /\ members \in [Rooms -> SUBSET Sockets]
      /\ rooms \in [Projects -> SUBSET Rooms]
  BY WithoutType DEF GatewayTypeOK
<1>4. ASSUME NEW q \in Projects, NEW r \in rooms[q]
      PROVE  r \in Rooms /\ r[1] = q /\ members[r] # {}
  <2>1. CASE leaving
    BY <1>4, <2>1, WithoutRegistered
  <2>2. CASE ~leaving
    BY <1>4, <2>2 DEF RegisteredRoomsInUse, GatewayTypeOK
  <2>3. QED
    BY <2>1, <2>2
<1> HIDE DEF room, members, rooms
<1>5. SUFFICES ASSUME NEW q \in Projects, NEW r \in projectRooms'[q]
               PROVE  r[1] = q /\ roomMembers'[r] # {}
  BY DEF RegisteredRoomsInUse
<1>6. CASE r \in rooms[q]
  BY <1>1, <1>2, <1>3, <1>4, <1>6
<1>7. CASE r \notin rooms[q]
  <2>1. q = p /\ r = room
    BY <1>2, <1>3, <1>7
  <2>2. QED
    BY <1>1, <1>2, <1>3, <2>1
<1>8. QED
  BY <1>6, <1>7

-----------------------------------------------------------------------------

GatewayInv == GatewayTypeOK /\ RoomBookkeeping /\ RegisteredRoomsInUse

LEMMA InitInv == GatewayInit => GatewayInv
BY InitType DEF GatewayInit, GatewayInv, RoomBookkeeping, RegisteredRoomsInUse, Joined

(* A disconnect ends the viewing of the socket, if it was viewing.          *)
LEMMA DisconnectInv ==
  ASSUME GatewayInv, NEW s \in Sockets, HandleDisconnect(s)
  PROVE  RoomBookkeeping' /\ RegisteredRoomsInUse'
<1>1. /\ \A x \in Sockets \ {s} : x \in conn => x \in conn'
      /\ \A u \in Users : userRooms[u] \ {s} \subseteq userRooms'[u]
  BY DEF HandleDisconnect
<1>2. CASE Joined(s)
  <2>1. /\ viewersMap' = ViewersWithout(s)
        /\ roomMembers' = MembersWithout(s)
        /\ projectRooms' = ProjectRoomsWithout(s)
        /\ socketMeta' = [socketMeta EXCEPT ![s] = NoMeta]
    BY <1>2 DEF HandleDisconnect
  <2>2. QED
    BY <1>1, <1>2, <2>1, DepartureBookkeeping, DepartureRegistered DEF GatewayInv
<1>3. CASE ~Joined(s)
  <2>1. UNCHANGED roomVars
    BY <1>3 DEF HandleDisconnect
  <2>2. ASSUME NEW x \in Sockets, Joined(x)
        PROVE  x # s /\ socketMeta[x].userId \in Users
    BY <1>3, <2>2, WithoutType DEF GatewayInv
  <2>3. ASSUME NEW x \in Sockets, Joined(x)
        PROVE  x \in conn' /\ x \in userRooms'[socketMeta[x].userId]
    BY <1>1, <2>2, <2>3 DEF GatewayInv, RoomBookkeeping
  <2>4. RoomBookkeeping'
    BY <2>1, <2>3 DEF GatewayInv, RoomBookkeeping, roomVars, Joined
  <2>5. RegisteredRoomsInUse'
    BY <2>1 DEF GatewayInv, RegisteredRoomsInUse, roomVars
  <2>6. QED
    BY <2>4, <2>5
<1>4. QED
  BY <1>2, <1>3

LEMMA LeaveInv ==
  ASSUME GatewayInv, NEW s \in Sockets, HandleLeaveProject(s)
  PROVE  RoomBookkeeping' /\ RegisteredRoomsInUse'
BY DepartureBookkeeping, DepartureRegistered DEF GatewayInv, HandleLeaveProject

(* Connecting adds a connection; broadcasts and deliveries touch queues.    *)
LEMMA OtherInv ==
  ASSUME GatewayInv, UNCHANGED roomVars, conn \subseteq conn',
         \A u \in Users : userRooms[u] \subseteq userRooms'[u]
  PROVE  RoomBookkeeping' /\ RegisteredRoomsInUse'
<1>1. ASSUME NEW x \in Sockets, Joined(x) PROVE socketMeta[x].userId \in Users
  BY <1>1, WithoutType DEF GatewayInv
<1>2. QED
  BY <1>1 DEF GatewayInv, RoomBookkeeping, RegisteredRoomsInUse, roomVars, Joined

LEMMA NextInv == GatewayInv /\ [GatewayNext]_gatewayVars => GatewayInv'
<1> SUFFICES ASSUME GatewayInv, [GatewayNext]_gatewayVars
             PROVE  RoomBookkeeping' /\ RegisteredRoomsInUse'
  <2>1. GatewayInv => GatewayTypeOK
    BY DEF GatewayInv
  <2>2. GatewayTypeOK /\ [GatewayNext]_gatewayVars => GatewayTypeOK'
    BY NextType
  <2>3. (GatewayTypeOK /\ RoomBookkeeping /\ RegisteredRoomsInUse)' => GatewayInv'
    BY DEF GatewayInv
  <2>4. QED
    BY <2>1, <2>2, <2>3
<1>1. ASSUME NEW s \in Sockets, NEW u \in Users, NEW ok \in BOOLEAN,
             HandleConnection(s, u, ok)
      PROVE  RoomBookkeeping' /\ RegisteredRoomsInUse'
  <2>1. /\ UNCHANGED roomVars
        /\ conn \subseteq conn'
        /\ \A v \in Users : userRooms[v] \subseteq userRooms'[v]
    BY <1>1 DEF HandleConnection, GatewayInv, GatewayTypeOK
  <2>2. QED
    BY <2>1, OtherInv
<1>2. ASSUME NEW s \in Sockets, HandleDisconnect(s) \/ HandleJoinRejected(s)
      PROVE  RoomBookkeeping' /\ RegisteredRoomsInUse'
  BY <1>2, DisconnectInv DEF HandleJoinRejected
<1>3. ASSUME NEW s \in Sockets, NEW u \in Users, NEW p \in Projects,
             HandleJoinProject(s, u, p)
      PROVE  RoomBookkeeping' /\ RegisteredRoomsInUse'
  BY <1>3, JoinBookkeeping, JoinRegistered DEF GatewayInv
<1>4. ASSUME NEW s \in Sockets, HandleLeaveProject(s)
      PROVE  RoomBookkeeping' /\ RegisteredRoomsInUse'
  BY <1>4, LeaveInv
<1>5. ASSUME UNCHANGED <<conn, userRooms, roomVars>>
      PROVE  RoomBookkeeping' /\ RegisteredRoomsInUse'
  BY <1>5, OtherInv
<1>6. ASSUME GatewayRestart
      PROVE  RoomBookkeeping' /\ RegisteredRoomsInUse'
  BY <1>6 DEF GatewayRestart, RoomBookkeeping, RegisteredRoomsInUse, Joined
<1>7. QED
  BY <1>1, <1>2, <1>3, <1>4, <1>5, <1>6
     DEF GatewayNext, HandleBoardEvent, EmitToUser, Deliver, gatewayVars

(* The records of who views what agree in every reachable state.            *)
THEOREM BookkeepingCorrect == GatewaySpec => []RoomBookkeeping
<1>1. GatewayInv => RoomBookkeeping
  BY DEF GatewayInv
<1>2. QED
  BY InitInv, NextInv, <1>1, PTL DEF GatewaySpec

(* No broadcast list names an empty room or a room of another project.      *)
THEOREM RegisteredCorrect == GatewaySpec => []RegisteredRoomsInUse
<1>1. GatewayInv => RegisteredRoomsInUse
  BY DEF GatewayInv
<1>2. QED
  BY InitInv, NextInv, <1>1, PTL DEF GatewaySpec

-----------------------------------------------------------------------------
(* BoardPresence: what the tabs are told.                                   *)

\* Message m shows user u, or takes u away.
Adds(m, u) ==
  \/ m.type = "viewers:initial" /\ u \in m.users
  \/ m.type = "user:viewing" /\ m.user = u

Drops(m, u) ==
  \/ m.type = "viewers:initial" /\ u \notin m.users
  \/ m.type = "user:left" /\ m.user = u

\* u, who is shown now or not, is shown once the messages q are handled: the last
\* of them that is about u decides.
WillShow(q, now, u) ==
  \/ now /\ \A n \in DOMAIN q : ~Drops(q[n], u)
  \/ \E n \in DOMAIN q :
       /\ Adds(q[n], u)
       /\ \A m \in DOMAIN q : m > n => ~Drops(q[m], u)

(* Nothing under way changes nothing.                                       *)
LEMMA WillShowNow ==
  ASSUME NEW now \in BOOLEAN, NEW u
  PROVE  WillShow(<<>>, now, u) <=> now
BY DEF WillShow

(* A message more decides if it is about u.                                 *)
LEMMA WillShowAppend ==
  ASSUME NEW q \in Seq(Message), NEW now \in BOOLEAN, NEW u, NEW m \in Message
  PROVE  WillShow(Append(q, m), now, u)
           <=> Adds(m, u) \/ (WillShow(q, now, u) /\ ~Drops(m, u))
<1> DEFINE p == Append(q, m)
<1>1. /\ DOMAIN p = 1..(Len(q) + 1) /\ DOMAIN q = 1..Len(q) /\ Len(q) \in Nat
      /\ p[Len(q) + 1] = m
      /\ \A n \in 1..Len(q) : p[n] = q[n]
  OBVIOUS
<1>2. ~(Adds(m, u) /\ Drops(m, u))
  BY DEF Adds, Drops
<1> HIDE DEF p
<1>3. CASE Adds(m, u)
  <2>1. Len(q) + 1 \in DOMAIN p /\ \A n \in DOMAIN p : ~(n > Len(q) + 1)
    BY <1>1
  <2>2. WillShow(p, now, u)
    BY <1>1, <1>3, <2>1 DEF WillShow
  <2>3. QED
    BY <1>3, <2>2 DEF p
<1>4. CASE ~Adds(m, u) /\ Drops(m, u)
  <2>1. SUFFICES ASSUME WillShow(p, now, u) PROVE FALSE
    BY <1>4 DEF p
  <2>2. Len(q) + 1 \in DOMAIN p /\ Drops(p[Len(q) + 1], u)
    BY <1>1, <1>4
  <2>3. PICK n \in DOMAIN p : Adds(p[n], u) /\ \A k \in DOMAIN p : k > n => ~Drops(p[k], u)
    BY <2>1, <2>2 DEF WillShow
  <2>4. n # Len(q) + 1
    BY <1>1, <1>4, <2>3
  <2>5. Len(q) + 1 > n
    BY <1>1, <2>4
  <2>6. QED
    BY <2>2, <2>3, <2>5
<1>5. CASE ~Adds(m, u) /\ ~Drops(m, u)
  <2>1. \A n \in DOMAIN p : n \in DOMAIN q \/ n = Len(q) + 1
    BY <1>1
  <2>2. DOMAIN q \subseteq DOMAIN p
    BY <1>1
  <2>3. \A n \in DOMAIN q : Adds(p[n], u) = Adds(q[n], u) /\ Drops(p[n], u) = Drops(q[n], u)
    BY <1>1
  <2>4. ~Adds(p[Len(q) + 1], u) /\ ~Drops(p[Len(q) + 1], u)
    BY <1>1, <1>5
  <2>5. WillShow(p, now, u) => WillShow(q, now, u)
    <3>1. ASSUME \A n \in DOMAIN p : ~Drops(p[n], u) PROVE \A n \in DOMAIN q : ~Drops(q[n], u)
      BY <2>2, <2>3, <3>1
    <3>2. ASSUME NEW n \in DOMAIN p, Adds(p[n], u), \A k \in DOMAIN p : k > n => ~Drops(p[k], u)
          PROVE  /\ n \in DOMAIN q /\ Adds(q[n], u)
                 /\ \A k \in DOMAIN q : k > n => ~Drops(q[k], u)
      BY <2>1, <2>2, <2>3, <2>4, <3>2
    <3>3. QED
      BY <3>1, <3>2 DEF WillShow
  <2>6. WillShow(q, now, u) => WillShow(p, now, u)
    <3>1. ASSUME \A n \in DOMAIN q : ~Drops(q[n], u) PROVE \A n \in DOMAIN p : ~Drops(p[n], u)
      BY <2>1, <2>3, <2>4, <3>1
    <3>2. ASSUME NEW n \in DOMAIN q, Adds(q[n], u), \A k \in DOMAIN q : k > n => ~Drops(q[k], u)
          PROVE  /\ n \in DOMAIN p /\ Adds(p[n], u)
                 /\ \A k \in DOMAIN p : k > n => ~Drops(p[k], u)
      BY <2>1, <2>2, <2>3, <2>4, <3>2
    <3>3. QED
      BY <3>1, <3>2 DEF WillShow
  <2>7. QED
    BY <1>5, <2>5, <2>6 DEF p
<1>6. QED
  BY <1>3, <1>4, <1>5

(* Handling the first message changes nothing in the end.                   *)
LEMMA WillShowTail ==
  ASSUME NEW q \in Seq(Message), q # <<>>, NEW now \in BOOLEAN, NEW u
  PROVE  WillShow(Tail(q), Adds(Head(q), u) \/ (now /\ ~Drops(Head(q), u)), u)
           <=> WillShow(q, now, u)
<1> DEFINE p == Tail(q)
<1> DEFINE first == Adds(Head(q), u) \/ (now /\ ~Drops(Head(q), u))
<1>1. /\ Len(q) \in Nat \ {0} /\ DOMAIN q = 1..Len(q) /\ DOMAIN p = 1..(Len(q) - 1)
      /\ Head(q) = q[1]
      /\ \A n \in DOMAIN p : n \in Nat /\ n + 1 \in DOMAIN q /\ p[n] = q[n + 1]
  OBVIOUS
<1>2. \A n \in DOMAIN q : n = 1 \/ (n - 1 \in DOMAIN p /\ q[n] = p[n - 1] /\ n > 1)
  BY <1>1
<1> HIDE DEF p
<1>3. ASSUME WillShow(p, first, u) PROVE WillShow(q, now, u)
  <2>1. CASE first /\ \A n \in DOMAIN p : ~Drops(p[n], u)
    <3>1. \A n \in DOMAIN q : n > 1 => ~Drops(q[n], u)
      BY <1>2, <2>1
    <3>2. CASE Adds(Head(q), u)
      <4>1. 1 \in DOMAIN q /\ Adds(q[1], u)
        BY <1>1, <3>2
      <4>2. QED
        BY <3>1, <4>1 DEF WillShow
    <3>3. CASE now /\ ~Drops(Head(q), u)
      <4>1. \A n \in DOMAIN q : ~Drops(q[n], u)
        BY <1>1, <1>2, <3>1, <3>3
      <4>2. QED
        BY <3>3, <4>1 DEF WillShow
    <3>4. QED
      BY <2>1, <3>2, <3>3
  <2>2. ASSUME NEW n \in DOMAIN p, Adds(p[n], u), \A m \in DOMAIN p : m > n => ~Drops(p[m], u)
        PROVE  WillShow(q, now, u)
    <3>1. n + 1 \in DOMAIN q /\ Adds(q[n + 1], u)
      BY <1>1, <2>2
    <3>2. ASSUME NEW m \in DOMAIN q, m > n + 1 PROVE ~Drops(q[m], u)
      BY <1>1, <1>2, <2>2, <3>2
    <3>3. QED
      BY <3>1, <3>2 DEF WillShow
  <2>3. QED
    BY <1>3, <2>1, <2>2 DEF WillShow
<1>4. ASSUME WillShow(q, now, u) PROVE WillShow(p, first, u)
  <2>1. CASE now /\ \A n \in DOMAIN q : ~Drops(q[n], u)
    <3>1. ~Drops(Head(q), u) /\ \A n \in DOMAIN p : ~Drops(p[n], u)
      BY <1>1, <2>1
    <3>2. QED
      BY <2>1, <3>1 DEF WillShow
  <2>2. ASSUME NEW n \in DOMAIN q, Adds(q[n], u), \A m \in DOMAIN q : m > n => ~Drops(q[m], u)
        PROVE  WillShow(p, first, u)
    <3>1. CASE n = 1
      <4>1. Adds(Head(q), u) /\ \A m \in DOMAIN p : ~Drops(p[m], u)
        BY <1>1, <2>2, <3>1
      <4>2. QED
        BY <4>1 DEF WillShow
    <3>2. CASE n # 1
      <4>1. n - 1 \in DOMAIN p /\ Adds(p[n - 1], u)
        BY <1>2, <2>2, <3>2
      <4>2. ASSUME NEW m \in DOMAIN p, m > n - 1 PROVE ~Drops(p[m], u)
        BY <1>1, <2>2, <4>2
      <4>3. QED
        BY <4>1, <4>2 DEF WillShow
    <3>3. QED
      BY <3>1, <3>2
  <2>3. QED
    BY <1>4, <2>1, <2>2 DEF WillShow
<1>5. QED
  BY <1>3, <1>4 DEF p

(* Of what is not shown now, less is shown if a message is dropped unread.  *)
LEMMA WillShowLess ==
  ASSUME NEW q \in Seq(Message), q # <<>>, NEW u, WillShow(Tail(q), FALSE, u)
  PROVE  WillShow(q, FALSE, u)
<1> DEFINE p == Tail(q)
<1>1. /\ Len(q) \in Nat \ {0} /\ DOMAIN q = 1..Len(q) /\ DOMAIN p = 1..(Len(q) - 1)
      /\ \A n \in DOMAIN p : n \in Nat /\ n + 1 \in DOMAIN q /\ p[n] = q[n + 1]
  OBVIOUS
<1>2. \A n \in DOMAIN q : n = 1 \/ (n - 1 \in DOMAIN p /\ q[n] = p[n - 1] /\ n > 1)
  BY <1>1
<1>3. PICK n \in DOMAIN p : Adds(p[n], u) /\ \A m \in DOMAIN p : m > n => ~Drops(p[m], u)
  BY DEF WillShow
<1> HIDE DEF p
<1>4. n + 1 \in DOMAIN q /\ Adds(q[n + 1], u)
  BY <1>1, <1>3
<1>5. ASSUME NEW m \in DOMAIN q, m > n + 1 PROVE ~Drops(q[m], u)
  BY <1>1, <1>2, <1>3, <1>5
<1>6. QED
  BY <1>4, <1>5 DEF WillShow

(* A board that is cleared shows no more in the end.                        *)
LEMMA WillShowCleared ==
  ASSUME NEW q, NEW now \in BOOLEAN, NEW u, WillShow(q, FALSE, u)
  PROVE  WillShow(q, now, u)
BY DEF WillShow

-----------------------------------------------------------------------------
(* BoardPresence: its inductive invariant.                                  *)

\* What user me sees, who is shown sh and has q to handle, is about viewers: nobody
\* else is shown in the end, and of them all who never were there twice.
ShowsNoOther(q, sh, me, viewers) ==
  \A u \in Users \ {me} : WillShow(q, u \in sh, u) => u \in viewers

ShowsAll(q, sh, me, viewers, twice) ==
  \A u \in viewers \ ({me} \cup twice) : WillShow(q, u \in sh, u)

\* A connected tab in a room is there as its user; without commands under way it is
\* in the room of its board.
InRoom(t) ==
  Connected(t) /\ Joined(sock[t]) =>
    /\ socketMeta[sock[t]].userId = TabUser[t]
    /\ toServer[t] = <<>> => socketMeta[sock[t]].projectId = mounted[t]

Informed(t) ==
  Connected(t) /\ Joined(sock[t]) =>
    LET viewers == ViewersIn(socketMeta[sock[t]].room) IN
    /\ ShowsNoOther(outbox[sock[t]], shown[t], TabUser[t], viewers)
    /\ toServer[t] = <<>> =>
         ShowsAll(outbox[sock[t]], shown[t], TabUser[t], viewers, doubled)

\* The last of the commands of a tab is about its board, and what is shown are others.
BoardAsked(t) ==
  /\ toServer[t] # <<>> =>
       toServer[t][Len(toServer[t])] =
         IF mounted[t] = NoProject THEN LeaveCmd ELSE JoinCmd(mounted[t])
  /\ shown[t] \subseteq Users \ {TabUser[t]}
  /\ mounted[t] = NoProject => shown[t] = {}

\* Connections are the server's too, and nobody shares one.
OwnSockets ==
  \A t \in Tabs : Connected(t) =>
    sock[t] \in conn /\ \A x \in Tabs \ {t} : sock[x] # sock[t]

DoubledKnown ==
  \A r \in Rooms, x \in Sockets, y \in Sockets :
    x # y /\ viewersMap[r][x] # NoUser /\ viewersMap[r][y] = viewersMap[r][x]
      => viewersMap[r][x] \in doubled

TabsInv ==
  /\ TypeOK /\ RoomBookkeeping /\ RegisteredRoomsInUse
  /\ OwnSockets /\ DoubledKnown
  /\ \A t \in Tabs : BoardAsked(t) /\ InRoom(t) /\ Informed(t)

-----------------------------------------------------------------------------
(* BoardPresence: what a message does to what is shown in the end.          *)

(* v left: a viewer still, if at all, by another socket, and then known to  *)
(* have been there twice.                                                   *)
LEMMA ShowsLeft ==
  ASSUME NEW q \in Seq(Message), NEW sh, NEW me, NEW viewers \in SUBSET Users, NEW twice,
         NEW v \in Users, NEW new \in SUBSET viewers,
         viewers \ {v} \subseteq new, v \in new => v \in twice
  PROVE  /\ ShowsNoOther(q, sh, me, viewers) => ShowsNoOther(Append(q, UserLeft(v)), sh, me, new)
         /\ ShowsAll(q, sh, me, viewers, twice) => ShowsAll(Append(q, UserLeft(v)), sh, me, new, twice)
<1>1. \A u \in Users : WillShow(Append(q, UserLeft(v)), u \in sh, u) <=> WillShow(q, u \in sh, u) /\ u # v
  <2>1. TAKE u \in Users
  <2>2. UserLeft(v) \in Message /\ ~Adds(UserLeft(v), u) /\ (Drops(UserLeft(v), u) <=> u = v)
    BY DEF Adds, Drops, UserLeft, Message
  <2> DEFINE now == u \in sh
  <2>3. now \in BOOLEAN
    OBVIOUS
  <2> HIDE DEF now
  <2>4. WillShow(Append(q, UserLeft(v)), now, u)
          <=> Adds(UserLeft(v), u) \/ (WillShow(q, now, u) /\ ~Drops(UserLeft(v), u))
    BY <2>2, <2>3, WillShowAppend
  <2>5. QED
    BY <2>2, <2>4 DEF now
<1>2. QED
  BY <1>1 DEF ShowsNoOther, ShowsAll

(* v came.                                                                  *)
LEMMA ShowsCame ==
  ASSUME NEW q \in Seq(Message), NEW sh, NEW me, NEW viewers \in SUBSET Users, NEW twice,
         NEW v \in Users
  PROVE  /\ ShowsNoOther(q, sh, me, viewers)
              => ShowsNoOther(Append(q, UserViewing(v)), sh, me, viewers \cup {v})
         /\ ShowsAll(q, sh, me, viewers, twice)
              => ShowsAll(Append(q, UserViewing(v)), sh, me, viewers \cup {v}, twice)
<1>1. \A u \in Users : WillShow(Append(q, UserViewing(v)), u \in sh, u) <=> WillShow(q, u \in sh, u) \/ u = v
  <2>1. TAKE u \in Users
  <2>2. UserViewing(v) \in Message /\ ~Drops(UserViewing(v), u) /\ (Adds(UserViewing(v), u) <=> u = v)
    BY DEF Adds, Drops, UserViewing, Message
  <2> DEFINE now == u \in sh
  <2>3. now \in BOOLEAN
    OBVIOUS
  <2> HIDE DEF now
  <2>4. WillShow(Append(q, UserViewing(v)), now, u)
          <=> Adds(UserViewing(v), u) \/ (WillShow(q, now, u) /\ ~Drops(UserViewing(v), u))
    BY <2>2, <2>3, WillShowAppend
  <2>5. QED
    BY <2>2, <2>4 DEF now
<1>2. QED
  BY <1>1 DEF ShowsNoOther, ShowsAll

(* The list of the others in the room settles everything before it.         *)
LEMMA ShowsListed ==
  ASSUME NEW q \in Seq(Message), NEW sh, NEW me, NEW others \in SUBSET Users, NEW twice
  PROVE  /\ ShowsNoOther(Append(q, ViewersInitial(others)), sh, me, others \cup {me})
         /\ ShowsAll(Append(q, ViewersInitial(others)), sh, me, others \cup {me}, twice)
<1>1. \A u \in Users : WillShow(Append(q, ViewersInitial(others)), u \in sh, u) <=> u \in others
  <2>1. TAKE u \in Users
  <2>2. /\ ViewersInitial(others) \in Message
        /\ Adds(ViewersInitial(others), u) <=> u \in others
        /\ Drops(ViewersInitial(others), u) <=> u \notin others
    BY DEF Adds, Drops, ViewersInitial, Message
  <2> DEFINE now == u \in sh
  <2>3. now \in BOOLEAN
    OBVIOUS
  <2> HIDE DEF now
  <2>4. WillShow(Append(q, ViewersInitial(others)), now, u)
          <=> Adds(ViewersInitial(others), u) \/ (WillShow(q, now, u) /\ ~Drops(ViewersInitial(others), u))
    BY <2>2, <2>3, WillShowAppend
  <2>5. QED
    BY <2>2, <2>4 DEF now
<1>2. QED
  BY <1>1 DEF ShowsNoOther, ShowsAll

(* The first message is handled by the board of tab t.                      *)
LEMMA ShowsHandled ==
  ASSUME NEW q \in Seq(Message), q # <<>>, NEW t \in Tabs, shown[t] \subseteq Users,
         NEW viewers \in SUBSET Users, NEW twice
  PROVE  /\ ShowsNoOther(q, shown[t], TabUser[t], viewers)
              => ShowsNoOther(Tail(q), ShownAfter(t, Head(q)), TabUser[t], viewers)
         /\ ShowsAll(q, shown[t], TabUser[t], viewers, twice)
              => ShowsAll(Tail(q), ShownAfter(t, Head(q)), TabUser[t], viewers, twice)
<1>1. Head(q) \in Message
  OBVIOUS
<1>2. \A u \in Users \ {TabUser[t]} :
        u \in ShownAfter(t, Head(q)) <=> Adds(Head(q), u) \/ (u \in shown[t] /\ ~Drops(Head(q), u))
  <2>1. CASE Head(q).type = "viewers:initial"
    BY <1>1, <2>1 DEF ShownAfter, Adds, Drops, Message
  <2>2. CASE Head(q).type = "user:viewing"
    BY <1>1, <2>2 DEF ShownAfter, Adds, Drops, Message
  <2>3. CASE Head(q).type = "user:left"
    BY <1>1, <2>3 DEF ShownAfter, Adds, Drops, Message
  <2>4. CASE Head(q).type \notin {"viewers:initial", "user:viewing", "user:left"}
    BY <1>1, <2>4 DEF ShownAfter, Adds, Drops
  <2>5. QED
    BY <2>1, <2>2, <2>3, <2>4
<1>3. \A u \in Users \ {TabUser[t]} :
        WillShow(Tail(q), u \in ShownAfter(t, Head(q)), u) <=> WillShow(q, u \in shown[t], u)
  <2>1. TAKE u \in Users \ {TabUser[t]}
  <2> DEFINE now == u \in shown[t]
  <2>2. now \in BOOLEAN
    OBVIOUS
  <2>3. (u \in ShownAfter(t, Head(q))) = (Adds(Head(q), u) \/ (now /\ ~Drops(Head(q), u)))
    BY <1>2
  <2> HIDE DEF now
  <2>4. WillShow(Tail(q), Adds(Head(q), u) \/ (now /\ ~Drops(Head(q), u)), u) <=> WillShow(q, now, u)
    BY <2>2, WillShowTail
  <2>5. QED
    BY <2>3, <2>4 DEF now
<1>4. QED
  BY <1>3 DEF ShowsNoOther, ShowsAll

(* Without a board the first message goes unread, and nothing is shown.     *)
LEMMA ShowsUnread ==
  ASSUME NEW q \in Seq(Message), q # <<>>, NEW me, NEW viewers, ShowsNoOther(q, {}, me, viewers)
  PROVE  ShowsNoOther(Tail(q), {}, me, viewers)
<1>1. ASSUME NEW u \in Users, WillShow(Tail(q), u \in {}, u) PROVE WillShow(q, u \in {}, u)
  <2>1. (u \in {}) = FALSE
    OBVIOUS
  <2>2. QED
    BY <1>1, <2>1, WillShowLess
<1>2. QED
  BY <1>1 DEF ShowsNoOther

(* A board that is mounted, or goes away, begins with nobody shown.         *)
LEMMA ShowsCleared ==
  ASSUME NEW q, NEW sh, NEW me, NEW viewers, ShowsNoOther(q, sh, me, viewers)
  PROVE  ShowsNoOther(q, {}, me, viewers)
<1>1. ASSUME NEW u \in Users, WillShow(q, u \in {}, u) PROVE WillShow(q, u \in sh, u)
  <2>1. (u \in {}) = FALSE /\ (u \in sh) \in BOOLEAN
    OBVIOUS
  <2>2. QED
    BY <1>1, <2>1, WillShowCleared
<1>2. QED
  BY <1>1 DEF ShowsNoOther

(* Nothing is under way: what is shown is what will be.                     *)
LEMMA ShowsNow ==
  ASSUME NEW sh, NEW me, NEW viewers \in SUBSET Users, NEW twice
  PROVE  /\ ShowsNoOther(<<>>, sh, me, viewers) /\ sh \subseteq Users \ {me} => sh \subseteq viewers \ {me}
         /\ ShowsAll(<<>>, sh, me, viewers, twice) => viewers \ ({me} \cup twice) \subseteq sh
<1>1. \A u : WillShow(<<>>, u \in sh, u) <=> u \in sh
  <2>1. TAKE u
  <2>2. (u \in sh) \in BOOLEAN
    OBVIOUS
  <2>3. QED
    BY <2>2, WillShowNow
<1>2. QED
  BY <1>1 DEF ShowsNoOther, ShowsAll

-----------------------------------------------------------------------------
(* BoardPresence is one way to use the gateway.                             *)

Commands == {LeaveCmd} \cup {JoinCmd(p) : p \in Projects}

(* The two commands, and that a join names its project.                     *)
LEMMA CommandKinds ==
  /\ LeaveCmd \in Commands /\ LeaveCmd.cmd = "leave:project"
  /\ \A p \in Projects : JoinCmd(p) \in Commands
  /\ \A c \in Commands : c.cmd = "join:project" => \E p \in Projects : c = JoinCmd(p) /\ c.project = p
  /\ \A p \in Projects : JoinCmd(p).cmd = "join:project" /\ JoinCmd(p) # LeaveCmd
<1>1. \A p \in Projects : JoinCmd(p).cmd = "join:project" /\ JoinCmd(p).project = p
  BY DEF JoinCmd
<1>2. LeaveCmd.cmd = "leave:project"
  BY DEF LeaveCmd
<1>3. "leave:project" # "join:project"
  OBVIOUS
<1>4. \A c \in Commands : c = LeaveCmd \/ \E p \in Projects : c = JoinCmd(p)
  BY DEF Commands
<1>5. LeaveCmd \in Commands /\ \A p \in Projects : JoinCmd(p) \in Commands
  BY DEF Commands
<1>6. QED
  BY <1>1, <1>2, <1>3, <1>4, <1>5

(* A command is taken from the head of what a connected tab has sent.       *)
LEMMA Taken ==
  ASSUME TypeOK, NEW t \in Tabs, NEW cmd, Take(t, cmd)
  PROVE  /\ sock[t] \in Sockets /\ TabUser[t] \in Users
         /\ toServer[t] \in Seq(Commands) /\ toServer[t] # <<>>
         /\ Head(toServer[t]) \in Commands /\ Head(toServer[t]).cmd = cmd
         /\ toServer' = [toServer EXCEPT ![t] = Tail(@)]
         /\ toServer'[t] = Tail(toServer[t])
<1>1. toServer \in [Tabs -> Seq(Commands)] /\ sock \in [Tabs -> Sockets \cup {NoSocket}]
  BY DEF TypeOK, Commands
<1>2. sock[t] \in Sockets /\ TabUser[t] \in Users
  BY <1>1, PresenceAssumption DEF Take, Connected
<1>3. toServer[t] \in Seq(Commands) /\ toServer[t] # <<>>
  BY <1>1 DEF Take
<1>4. Head(toServer[t]) \in Commands
  BY <1>3
<1>5. QED
  BY <1>1, <1>2, <1>3, <1>4 DEF Take

(* What the tabs make the server do are steps of the gateway, which serves  *)
(* any socket any command.                                                  *)
LEMMA StepIsGateway ==
  ASSUME TypeOK, [Next]_vars
  PROVE  [GatewayNext]_gatewayVars
<1>1. ASSUME NEW t \in Tabs, Connect(t) PROVE GatewayNext
  <2>1. \A S : S # {} => (CHOOSE s \in S : TRUE) \in S
    OBVIOUS
  <2>2. PICK s \in Sockets : HandleConnection(s, TabUser[t], TRUE)
    BY <1>1, <2>1 DEF Connect
  <2>3. TabUser[t] \in Users /\ TRUE \in BOOLEAN
    BY PresenceAssumption
  <2>4. QED
    BY <2>2, <2>3 DEF GatewayNext
<1>2. ASSUME NEW t \in Tabs, NEW p \in Projects, MountBoard(t, p) PROVE UNCHANGED gatewayVars
  BY <1>2 DEF MountBoard
<1>3. ASSUME NEW t \in Tabs, UnmountBoard(t) \/ SignOut(t) \/ LoseConnection(t)
      PROVE  UNCHANGED gatewayVars
  BY <1>3 DEF UnmountBoard, SignOut, LoseConnection
<1>4. ASSUME NEW t \in Tabs, ServeJoin(t) PROVE GatewayNext
  <2>1. Take(t, "join:project") /\ HandleJoinProject(sock[t], TabUser[t], Head(toServer[t]).project)
    BY <1>4 DEF ServeJoin
  <2>2. /\ sock[t] \in Sockets /\ TabUser[t] \in Users
        /\ Head(toServer[t]) \in Commands /\ Head(toServer[t]).cmd = "join:project"
    BY <2>1, Taken
  <2>3. Head(toServer[t]).project \in Projects
    BY <2>2, CommandKinds
  <2>4. QED
    BY <2>1, <2>2, <2>3 DEF GatewayNext
<1>5. ASSUME NEW t \in Tabs, ServeJoinRejected(t) PROVE GatewayNext
  <2>1. Take(t, "join:project") /\ HandleJoinRejected(sock[t])
    BY <1>5 DEF ServeJoinRejected
  <2>2. sock[t] \in Sockets
    BY <2>1, Taken
  <2>3. QED
    BY <2>1, <2>2 DEF GatewayNext
<1>6. ASSUME NEW t \in Tabs, ServeLeave(t) PROVE GatewayNext \/ UNCHANGED gatewayVars
  <2>1. Take(t, "leave:project") /\ (HandleLeaveProject(sock[t]) \/ UNCHANGED gatewayVars)
    BY <1>6 DEF ServeLeave
  <2>2. sock[t] \in Sockets
    BY <2>1, Taken
  <2>3. QED
    BY <2>1, <2>2 DEF GatewayNext
<1>7. ASSUME NEW t \in Tabs, Receive(t) PROVE GatewayNext
  <2>1. Connected(t) /\ Deliver(sock[t])
    BY <1>7 DEF Receive
  <2>2. sock[t] \in Sockets
    BY <2>1 DEF Connected, TypeOK
  <2>3. QED
    BY <2>1, <2>2 DEF GatewayNext
<1>8. ASSUME NEW s \in Sockets, DetectLoss(s) PROVE GatewayNext
  BY <1>8 DEF DetectLoss, GatewayNext
<1>9. ASSUME Restart PROVE GatewayNext
  BY <1>9 DEF Restart, GatewayNext
<1>10. UNCHANGED vars => UNCHANGED gatewayVars
  BY DEF vars
<1>11. QED
  BY <1>1, <1>2, <1>3, <1>4, <1>5, <1>6, <1>7, <1>8, <1>9, <1>10 DEF Next, TabStep, ServerStep

-----------------------------------------------------------------------------
(* BoardPresence: types.                                                    *)

TabsTyped ==
  /\ mounted \in [Tabs -> Projects \cup {NoProject}]
  /\ sock \in [Tabs -> Sockets \cup {NoSocket}]
  /\ halted \in SUBSET Tabs
  /\ toServer \in [Tabs -> Seq(Commands)]
  /\ shown \in [Tabs -> SUBSET Users]
  /\ doubled \in SUBSET Users
  /\ moves \in 0..MaxMoves /\ faults \in 0..MaxFaults

(* TypeOK in two parts.                                                     *)
LEMMA TypeParts == TypeOK <=> GatewayTypeOK /\ TabsTyped
BY DEF TypeOK, TabsTyped, Commands

(* What a message makes of the viewers shown are users.                     *)
LEMMA ShownAfterType ==
  ASSUME NEW t \in Tabs, shown[t] \subseteq Users, NEW m \in Message
  PROVE  ShownAfter(t, m) \subseteq Users
<1>1. CASE m.type = "viewers:initial"
  BY <1>1 DEF ShownAfter, Message
<1>2. CASE m.type = "user:viewing"
  BY <1>2 DEF ShownAfter, Message
<1>3. CASE m.type \notin {"viewers:initial", "user:viewing"}
  BY <1>3 DEF ShownAfter, Message
<1>4. QED
  BY <1>1, <1>2, <1>3

(* Nothing is wrong to begin with.                                         *)
LEMMA TabsInit == Init => TypeOK
BY InitType, PresenceAssumption DEF Init, TypeOK

(* A board mounts: the commands stay commands.                              *)
LEMMA MountTyped ==
  ASSUME TypeOK, NEW t \in Tabs, NEW p \in Projects, MountBoard(t, p)
  PROVE  TabsTyped'
<1>1. TabsTyped
  BY TypeParts
<1>2. /\ \A q \in Seq(Commands) : Append(q, JoinCmd(p)) \in Seq(Commands)
      /\ \A q \in Seq(Commands) : q \o <<LeaveCmd, JoinCmd(p)>> \in Seq(Commands)
  BY CommandKinds
<1>3. toServer' \in [Tabs -> Seq(Commands)]
  BY <1>1, <1>2 DEF MountBoard, TabsTyped
<1>4. QED
  BY <1>1, <1>3, PresenceAssumption DEF MountBoard, TabsTyped

(* So do they when a board goes away or a connection is lost.               *)
LEMMA MovesTyped ==
  ASSUME TypeOK, NEW t \in Tabs, UnmountBoard(t) \/ SignOut(t) \/ LoseConnection(t)
  PROVE  TabsTyped'
<1>1. TabsTyped
  BY TypeParts
<1>2. /\ \A q \in Seq(Commands) : Append(q, LeaveCmd) \in Seq(Commands)
      /\ <<>> \in Seq(Commands)
  BY CommandKinds
<1>3. CASE UnmountBoard(t)
  <2>1. toServer' \in [Tabs -> Seq(Commands)]
    BY <1>1, <1>2, <1>3 DEF UnmountBoard, TabsTyped
  <2>2. QED
    BY <1>1, <1>3, <2>1, PresenceAssumption DEF UnmountBoard, TabsTyped
<1>4. CASE SignOut(t)
  BY <1>1, <1>2, <1>4, PresenceAssumption DEF SignOut, TabsTyped
<1>5. CASE LoseConnection(t)
  BY <1>1, <1>2, <1>5, PresenceAssumption DEF LoseConnection, TabsTyped
<1>6. QED
  BY <1>3, <1>4, <1>5

(* The server takes commands.                                               *)
LEMMA ServesTyped ==
  ASSUME TypeOK, NEW t \in Tabs, ServerStep(t)
  PROVE  TabsTyped'
<1>1. TabsTyped
  BY TypeParts
<1>2. ASSUME NEW cmd, Take(t, cmd) PROVE toServer' \in [Tabs -> Seq(Commands)]
  <2>1. toServer[t] \in Seq(Commands) /\ toServer[t] # <<>>
    BY <1>2, Taken
  <2>2. Tail(toServer[t]) \in Seq(Commands)
    BY <2>1
  <2>3. QED
    BY <1>1, <1>2, <2>2, Taken DEF TabsTyped
<1>3. CASE ServeJoin(t)
  BY <1>1, <1>2, <1>3 DEF ServeJoin, NoteDoubled, counters, TabsTyped
<1>4. CASE ServeJoinRejected(t)
  BY <1>1, <1>2, <1>4, PresenceAssumption DEF ServeJoinRejected, TabsTyped
<1>5. CASE ServeLeave(t)
  BY <1>1, <1>2, <1>5 DEF ServeLeave, counters, TabsTyped
<1>6. QED
  BY <1>3, <1>4, <1>5 DEF ServerStep

(* Connections come and go, messages arrive.                                *)
LEMMA OthersTyped ==
  ASSUME TypeOK,
         \/ \E t \in Tabs : Connect(t) \/ Receive(t)
         \/ \E s \in Sockets : DetectLoss(s)
         \/ Restart
  PROVE  TabsTyped'
<1>1. TabsTyped
  BY TypeParts
<1>2. ASSUME NEW t \in Tabs, Connect(t) PROVE TabsTyped'
  <2>1. \A S : S # {} => (CHOOSE s \in S : TRUE) \in S
    OBVIOUS
  <2>2. sock' \in [Tabs -> Sockets \cup {NoSocket}]
    BY <1>1, <1>2, <2>1 DEF Connect, TabsTyped
  <2>3. QED
    BY <1>1, <1>2, <2>2 DEF Connect, counters, TabsTyped
<1>3. ASSUME NEW t \in Tabs, Receive(t) PROVE TabsTyped'
  <2>1. sock[t] \in Sockets /\ outbox[sock[t]] \in Seq(Message) /\ outbox[sock[t]] # <<>>
    BY <1>3 DEF Receive, Connected, Deliver, TypeOK, GatewayTypeOK
  <2>2. Head(outbox[sock[t]]) \in Message
    BY <2>1
  <2>3. ShownAfter(t, Head(outbox[sock[t]])) \in SUBSET Users
    BY <1>1, <2>2, ShownAfterType DEF TabsTyped
  <2>4. shown' \in [Tabs -> SUBSET Users]
    BY <1>1, <1>3, <2>3 DEF Receive, TabsTyped
  <2>5. QED
    BY <1>1, <1>3, <2>4 DEF Receive, counters, TabsTyped
<1>4. ASSUME NEW s \in Sockets, DetectLoss(s) PROVE TabsTyped'
  BY <1>1, <1>4 DEF DetectLoss, tabVars, counters, TabsTyped
<1>5. ASSUME Restart PROVE TabsTyped'
  <2>1. <<>> \in Seq(Commands)
    OBVIOUS
  <2>2. QED
    BY <1>1, <1>5, <2>1, PresenceAssumption DEF Restart, TabsTyped
<1>6. QED
  BY <1>2, <1>3, <1>4, <1>5

(* Every step keeps the types of both ends.                                 *)
LEMMA TabsTypes ==
  ASSUME TypeOK, [Next]_vars
  PROVE  TypeOK'
<1>1. GatewayTypeOK /\ TabsTyped
  BY TypeParts
<1>2. GatewayTypeOK'
  BY <1>1, StepIsGateway, NextType
<1>3. TabsTyped'
  <2>1. CASE UNCHANGED vars
    BY <1>1, <2>1 DEF vars, tabVars, counters, TabsTyped
  <2>2. ASSUME NEW t \in Tabs, TabStep(t) PROVE TabsTyped'
    <3>1. CASE \E p \in Projects : MountBoard(t, p)
      BY <3>1, MountTyped
    <3>2. CASE UnmountBoard(t) \/ SignOut(t) \/ LoseConnection(t)
      BY <3>2, MovesTyped
    <3>3. CASE Connect(t)
      BY <3>3, OthersTyped
    <3>4. QED
      BY <2>2, <3>1, <3>2, <3>3 DEF TabStep
  <2>3. QED
    BY <2>1, <2>2, ServesTyped, OthersTyped DEF Next
<1>4. QED
  BY <1>2, <1>3 DEF TypeOK, TabsTyped, Commands

-----------------------------------------------------------------------------
(* BoardPresence: what the others of a room are told.                       *)

\* What a step that is none of its own does to socket x in room r: nothing, or it
\* hears who left or who came.
Tells(x, r) ==
  \/ outbox'[x] = outbox[x] /\ ViewersIn(r)' = ViewersIn(r)
  \/ \E v \in Users :
       /\ outbox'[x] = Append(outbox[x], UserLeft(v))
       /\ ViewersIn(r)' \subseteq ViewersIn(r) /\ ViewersIn(r) \ {v} \subseteq ViewersIn(r)'
       /\ v \in ViewersIn(r)' => v \in doubled
  \/ \E v \in Users :
       /\ outbox'[x] = Append(outbox[x], UserViewing(v))
       /\ ViewersIn(r)' = ViewersIn(r) \cup {v}

(* Viewers are users.                                                       *)
LEMMA ViewersKnown ==
  ASSUME GatewayTypeOK, NEW r \in Rooms
  PROVE  ViewersIn(r) \in SUBSET Users
BY DEF ViewersIn, GatewayTypeOK

(* A socket that is taken out of its room takes its user off, unless the    *)
(* user is there by another one.                                            *)
LEMMA DepartureViewers ==
  ASSUME GatewayTypeOK, RoomBookkeeping, DoubledKnown,
         NEW s \in Sockets, Joined(s), viewersMap' = ViewersWithout(s),
         NEW r \in Rooms, NEW v, v = socketMeta[s].userId
  PROVE  /\ r # socketMeta[s].room => ViewersIn(r)' = ViewersIn(r)
         /\ r = socketMeta[s].room =>
              /\ ViewersIn(r)' \subseteq ViewersIn(r) /\ ViewersIn(r) \ {v} \subseteq ViewersIn(r)'
              /\ v \in ViewersIn(r)' => v \in doubled
<1>1. socketMeta[s].room \in Rooms /\ viewersMap[socketMeta[s].room][s] = v
  BY WithoutType DEF RoomBookkeeping
<1>2. \A x \in Sockets : viewersMap'[r][x] =
        IF r = socketMeta[s].room /\ x = s THEN NoUser ELSE viewersMap[r][x]
  BY <1>1 DEF ViewersWithout, GatewayTypeOK
<1>3. r # socketMeta[s].room => ViewersIn(r)' = ViewersIn(r)
  BY <1>2 DEF ViewersIn
<1>4. ASSUME r = socketMeta[s].room
      PROVE ViewersIn(r)' \subseteq ViewersIn(r) /\ ViewersIn(r) \ {v} \subseteq ViewersIn(r)'
  BY <1>1, <1>2, <1>4 DEF ViewersIn
<1>5. ASSUME r = socketMeta[s].room, v \in ViewersIn(r)' PROVE v \in doubled
  <2>1. PICK x \in Sockets : viewersMap'[r][x] = v /\ v # NoUser
    BY <1>5 DEF ViewersIn
  <2>2. x # s /\ viewersMap[r][x] = v /\ viewersMap[r][s] = v
    BY <1>1, <1>2, <1>5, <2>1
  <2>3. QED
    BY <2>1, <2>2 DEF DoubledKnown
<1>6. QED
  BY <1>3, <1>4, <1>5

(* A departure is told to the others of the room and to nobody else.        *)
LEMMA DepartureTells ==
  ASSUME GatewayTypeOK, RoomBookkeeping, DoubledKnown,
         NEW s \in Sockets, Joined(s), viewersMap' = ViewersWithout(s),
         NEW x \in Sockets \ {s}, Joined(x), NEW r \in Rooms, r = socketMeta[x].room,
         outbox'[x] = Emit(OthersIn(socketMeta[s].room, s), UserLeft(socketMeta[s].userId))[x]
  PROVE  Tells(x, r)
<1>1. socketMeta[s].room \in Rooms /\ socketMeta[s].userId \in Users
  BY WithoutType
<1>2. x \in OthersIn(socketMeta[s].room, s) <=> socketMeta[s].room = r
  BY <1>1 DEF OthersIn, RoomBookkeeping
<1>3. outbox'[x] = IF socketMeta[s].room = r THEN Append(outbox[x], UserLeft(socketMeta[s].userId)) ELSE outbox[x]
  BY <1>2 DEF Emit
<1>4. QED
  BY <1>1, <1>3, DepartureViewers DEF Tells

(* A join is told to the others of the room, and the departure it may bring *)
(* with it to those of the room before.                                     *)
LEMMA JoinTells ==
  ASSUME GatewayTypeOK, RoomBookkeeping, DoubledKnown,
         NEW s \in Sockets, NEW u \in Users, NEW p \in Projects, HandleJoinProject(s, u, p),
         Joined(s) => socketMeta[s].userId = u,
         NEW x \in Sockets \ {s}, Joined(x), NEW r \in Rooms, r = socketMeta[x].room
  PROVE  Tells(x, r)
<1> DEFINE room    == Room(p, u)
           old     == socketMeta[s]
           leaving == Joined(s) /\ old.room # room
           left    == IF leaving THEN OthersIn(old.room, s) ELSE {}
           viewers == IF leaving THEN ViewersWithout(s) ELSE viewersMap
           told    == Emit(left, UserLeft(old.userId))
<1>1. room \in Rooms
  BY RoomType
<1>2. /\ viewersMap' = [viewers EXCEPT ![room][s] = u]
      /\ outbox'[x] = IF x \in OthersIn(room, s) THEN Append(told[x], UserViewing(u)) ELSE told[x]
  BY DEF HandleJoinProject
<1>3. viewers \in [Rooms -> [Sockets -> Users \cup {NoUser}]]
  BY WithoutType DEF GatewayTypeOK
<1>4. x \in OthersIn(room, s) <=> room = r
  BY <1>1 DEF OthersIn, RoomBookkeeping
<1>5. u # NoUser
  BY ConstantsAssumption
<1>6. Joined(s) => old.room \in Rooms /\ old.userId \in Users
  BY WithoutType
<1>7. told[x] = IF leaving /\ old.room = r THEN Append(outbox[x], UserLeft(u)) ELSE outbox[x]
  <2>1. CASE leaving
    <3>1. x \in left <=> old.room = r
      BY <1>6, <2>1 DEF OthersIn, RoomBookkeeping
    <3>2. QED
      BY <2>1, <3>1 DEF Emit
  <2>2. CASE ~leaving
    BY <2>2 DEF Emit
  <2>3. QED
    BY <2>1, <2>2
<1>8. \A q \in Rooms, y \in Sockets :
        viewersMap'[q][y] = IF q = room /\ y = s THEN u ELSE viewers[q][y]
  BY <1>1, <1>2, <1>3
<1>9. CASE r = room
  <2>1. \A y \in Sockets \ {s} : viewers[room][y] = viewersMap[room][y]
    BY <1>1, <1>6 DEF ViewersWithout, GatewayTypeOK
  <2>2. viewersMap[room][s] \in {NoUser, u}
    BY <1>1 DEF RoomBookkeeping
  <2>3. ViewersIn(r)' = ViewersIn(r) \cup {u}
    <3>1. \A y \in Sockets : viewersMap'[r][y] = IF y = s THEN u ELSE viewersMap[r][y]
      BY <1>1, <1>8, <1>9, <2>1
    <3>2. QED
      BY <1>5, <1>9, <2>2, <3>1 DEF ViewersIn
  <2>4. outbox'[x] = Append(outbox[x], UserViewing(u))
    BY <1>2, <1>4, <1>7, <1>9
  <2>5. QED
    BY <2>3, <2>4 DEF Tells
<1>10. CASE r # room /\ leaving /\ old.room = r
  <2>1. outbox'[x] = Append(outbox[x], UserLeft(u))
    BY <1>2, <1>4, <1>7, <1>10
  <2>2. viewersMap[r][s] = u
    BY <1>10 DEF RoomBookkeeping
  <2>3. \A y \in Sockets : viewersMap'[r][y] = IF y = s THEN NoUser ELSE viewersMap[r][y]
    BY <1>8, <1>10 DEF ViewersWithout, GatewayTypeOK
  <2>4. ViewersIn(r)' \subseteq ViewersIn(r) /\ ViewersIn(r) \ {u} \subseteq ViewersIn(r)'
    BY <2>2, <2>3 DEF ViewersIn
  <2>5. ASSUME u \in ViewersIn(r)' PROVE u \in doubled
    <3>1. PICK y \in Sockets : viewersMap'[r][y] = u
      BY <2>5 DEF ViewersIn
    <3>2. y # s /\ viewersMap[r][y] = u
      BY <1>5, <2>3, <3>1
    <3>3. QED
      BY <1>5, <2>2, <3>2 DEF DoubledKnown
  <2>6. QED
    BY <2>1, <2>4, <2>5 DEF Tells
<1>11. CASE r # room /\ ~(leaving /\ old.room = r)
  <2>1. outbox'[x] = outbox[x]
    BY <1>2, <1>4, <1>7, <1>11
  <2>2. \A y \in Sockets : viewersMap'[r][y] = viewersMap[r][y]
    BY <1>6, <1>8, <1>11 DEF ViewersWithout, GatewayTypeOK
  <2>3. ViewersIn(r)' = ViewersIn(r)
    BY <2>2 DEF ViewersIn
  <2>4. QED
    BY <2>1, <2>3 DEF Tells
<1>12. QED
  BY <1>9, <1>10, <1>11

(* A tab that only hears of others stays informed.                          *)
LEMMA StaysInformed ==
  ASSUME TypeOK, NEW t \in Tabs, Connected(t), Joined(sock[t]), InRoom(t), Informed(t),
         NEW x, x = sock[t], NEW r, r = socketMeta[x].room, Tells(x, r),
         sock'[t] = x, socketMeta'[x] = socketMeta[x],
         shown'[t] = shown[t], mounted'[t] = mounted[t], toServer'[t] = toServer[t],
         doubled \subseteq doubled'
  PROVE  InRoom(t)' /\ Informed(t)'
<1>1. x \in Sockets
  BY DEF TypeOK, Connected
<1>2. r \in Rooms
  BY <1>1, WithoutType DEF TypeOK
<1>3. ViewersIn(r) \in SUBSET Users /\ outbox[x] \in Seq(Message)
  BY <1>1, <1>2, ViewersKnown DEF TypeOK, GatewayTypeOK
<1>4. InRoom(t)'
  BY DEF InRoom, Connected, Joined
<1>5. PICK now : now = ViewersIn(r)'
  OBVIOUS
<1>6. /\ ShowsNoOther(outbox[x], shown[t], TabUser[t], ViewersIn(r))
           => ShowsNoOther(outbox'[x], shown[t], TabUser[t], now)
      /\ ShowsAll(outbox[x], shown[t], TabUser[t], ViewersIn(r), doubled)
           => ShowsAll(outbox'[x], shown[t], TabUser[t], now, doubled)
  <2>1. CASE outbox'[x] = outbox[x] /\ now = ViewersIn(r)
    BY <2>1
  <2>2. CASE \E v \in Users :
               /\ outbox'[x] = Append(outbox[x], UserLeft(v))
               /\ now \subseteq ViewersIn(r) /\ ViewersIn(r) \ {v} \subseteq now
               /\ v \in now => v \in doubled
    BY <1>3, <2>2, ShowsLeft
  <2>3. CASE \E v \in Users :
               outbox'[x] = Append(outbox[x], UserViewing(v)) /\ now = ViewersIn(r) \cup {v}
    <3>1. PICK v \in Users : outbox'[x] = Append(outbox[x], UserViewing(v)) /\ now = ViewersIn(r) \cup {v}
      BY <2>3
    <3>2. /\ ShowsNoOther(outbox[x], shown[t], TabUser[t], ViewersIn(r))
                => ShowsNoOther(Append(outbox[x], UserViewing(v)), shown[t], TabUser[t], ViewersIn(r) \cup {v})
          /\ ShowsAll(outbox[x], shown[t], TabUser[t], ViewersIn(r), doubled)
                => ShowsAll(Append(outbox[x], UserViewing(v)), shown[t], TabUser[t], ViewersIn(r) \cup {v}, doubled)
      BY <1>3, ShowsCame
    <3>3. QED
      BY <3>1, <3>2
  <2>4. QED
    BY <1>5, <2>1, <2>2, <2>3 DEF Tells
<1>7. /\ ShowsNoOther(outbox[x], shown[t], TabUser[t], ViewersIn(r))
      /\ toServer[t] = <<>> => ShowsAll(outbox[x], shown[t], TabUser[t], ViewersIn(r), doubled)
  BY DEF Informed
<1>8. /\ ShowsNoOther(outbox'[x], shown'[t], TabUser[t], now)
      /\ toServer'[t] = <<>> => ShowsAll(outbox'[x], shown'[t], TabUser[t], now, doubled')
  BY <1>6, <1>7 DEF ShowsAll
<1>9. sock'[t] = x /\ socketMeta'[sock'[t]].room = r
  OBVIOUS
<1>10. QED
  BY <1>4, <1>5, <1>8, <1>9 DEF Informed

-----------------------------------------------------------------------------
(* BoardPresence: the invariant, step by step.                              *)

(* Whatever the server does for one socket, tabs on other sockets stay      *)
(* informed.                                                                *)
LEMMA OthersInformed ==
  ASSUME TabsInv, NEW s \in Sockets,
         \/ HandleDisconnect(s)
         \/ HandleLeaveProject(s)
         \/ \E u \in Users, p \in Projects :
              HandleJoinProject(s, u, p) /\ (Joined(s) => socketMeta[s].userId = u),
         NEW t \in Tabs, sock[t] # s, sock'[t] = sock[t],
         shown'[t] = shown[t], mounted'[t] = mounted[t], toServer'[t] = toServer[t],
         doubled \subseteq doubled'
  PROVE  InRoom(t)' /\ Informed(t)'
<1>1. CASE ~Connected(t)
  BY <1>1 DEF InRoom, Informed, Connected
<1> SUFFICES ASSUME Connected(t) PROVE InRoom(t)' /\ Informed(t)'
  BY <1>1
<1>2. PICK x : x = sock[t]
  OBVIOUS
<1>3. /\ x \in Sockets \ {s} /\ GatewayTypeOK /\ RoomBookkeeping /\ DoubledKnown
      /\ InRoom(t) /\ Informed(t)
  BY <1>2 DEF TabsInv, TypeOK, Connected
<1>4. socketMeta'[x] = socketMeta[x]
  BY <1>3 DEF HandleDisconnect, HandleLeaveProject, HandleJoinProject, GatewayTypeOK, roomVars
<1>5. CASE ~Joined(x)
  <2>1. ~Joined(x)'
    BY <1>4, <1>5 DEF Joined
  <2>2. QED
    BY <1>2, <2>1 DEF InRoom, Informed, Joined
<1>6. CASE Joined(x)
  <2>1. PICK r : r = socketMeta[x].room
    OBVIOUS
  <2>2. r \in Rooms
    BY <1>3, <1>6, <2>1, WithoutType
  <2>3. CASE Joined(s) /\ (HandleDisconnect(s) \/ HandleLeaveProject(s))
    <3>1. viewersMap' = ViewersWithout(s)
      BY <2>3 DEF HandleDisconnect, HandleLeaveProject
    <3>2. PICK q : q = Emit(OthersIn(socketMeta[s].room, s), UserLeft(socketMeta[s].userId))
      OBVIOUS
    <3>3. outbox' = q \/ outbox' = [q EXCEPT ![s] = <<>>]
      BY <2>3, <3>2 DEF HandleDisconnect, HandleLeaveProject
    <3>4. DOMAIN q = Sockets
      BY <3>2 DEF Emit
    <3>5. outbox'[x] = q[x]
      BY <1>3, <3>3, <3>4
    <3>6. Tells(x, r)
      BY <1>3, <1>6, <2>1, <2>2, <2>3, <3>1, <3>2, <3>5, DepartureTells
    <3>7. QED
      BY <1>2, <1>3, <1>4, <1>6, <2>1, <3>6, StaysInformed DEF TabsInv
  <2>4. CASE ~Joined(s) /\ (HandleDisconnect(s) \/ HandleLeaveProject(s))
    <3>1. outbox'[x] = outbox[x] /\ viewersMap' = viewersMap
      BY <1>3, <2>4 DEF HandleDisconnect, HandleLeaveProject, GatewayTypeOK, roomVars
    <3>2. Tells(x, r)
      BY <3>1 DEF Tells, ViewersIn
    <3>3. QED
      BY <1>2, <1>3, <1>4, <1>6, <2>1, <3>2, StaysInformed DEF TabsInv
  <2>5. ASSUME NEW u \in Users, NEW p \in Projects, HandleJoinProject(s, u, p),
               Joined(s) => socketMeta[s].userId = u
        PROVE  InRoom(t)' /\ Informed(t)'
    <3>1. Tells(x, r)
      BY <1>3, <1>6, <2>1, <2>2, <2>5, JoinTells
    <3>2. QED
      BY <1>2, <1>3, <1>4, <1>6, <2>1, <3>1, StaysInformed DEF TabsInv
  <2>6. QED
    BY <2>3, <2>4, <2>5
<1>7. QED
  BY <1>5, <1>6

(* So do tabs whose socket is left alone.                                   *)
LEMMA UntouchedInformed ==
  ASSUME TabsInv, NEW t \in Tabs, sock'[t] = sock[t],
         shown'[t] = shown[t], mounted'[t] = mounted[t], toServer'[t] = toServer[t],
         UNCHANGED <<viewersMap, socketMeta, doubled>>,
         Connected(t) => outbox'[sock[t]] = outbox[sock[t]]
  PROVE  InRoom(t)' /\ Informed(t)'
<1>1. CASE ~Connected(t)
  BY <1>1 DEF InRoom, Informed, Connected
<1>2. CASE Connected(t)
  <2>1. PICK x : x = sock[t]
    OBVIOUS
  <2>2. PICK r : r = socketMeta[x].room
    OBVIOUS
  <2>3. CASE ~Joined(x)
    BY <2>1, <2>3 DEF InRoom, Informed, Joined
  <2>4. CASE Joined(x)
    <3>1. Tells(x, r)
      BY <1>2, <2>1 DEF Tells, ViewersIn
    <3>2. TypeOK /\ InRoom(t) /\ Informed(t)
      BY DEF TabsInv
    <3>3. QED
      BY <1>2, <2>1, <2>2, <2>4, <3>1, <3>2, StaysInformed
  <2>5. QED
    BY <2>3, <2>4
<1>3. QED
  BY <1>1, <1>2

(* And what a tab has asked for stays when neither it nor its board moves.  *)
LEMMA UntouchedAsked ==
  ASSUME TabsInv, NEW t \in Tabs,
         shown'[t] = shown[t], mounted'[t] = mounted[t], toServer'[t] = toServer[t]
  PROVE  BoardAsked(t)'
BY DEF TabsInv, BoardAsked

(* Of a queue that is taken from, the last command stays the last, or it    *)
(* is the one taken.                                                        *)
LEMMA LastStays ==
  ASSUME NEW q \in Seq(Commands), q # <<>>
  PROVE  /\ Tail(q) # <<>> => Tail(q)[Len(Tail(q))] = q[Len(q)]
         /\ Tail(q) = <<>> => Head(q) = q[Len(q)]
<1>1. /\ Len(q) \in Nat \ {0} /\ Tail(q) \in Seq(Commands)
      /\ Len(Tail(q)) = Len(q) - 1 /\ Head(q) = q[1]
      /\ \A n \in 1..(Len(q) - 1) : Tail(q)[n] = q[n + 1]
  OBVIOUS
<1>2. ASSUME Tail(q) # <<>> PROVE Tail(q)[Len(Tail(q))] = q[Len(q)]
  <2>1. Len(Tail(q)) \in 1..(Len(q) - 1)
    BY <1>1, <1>2
  <2>2. Tail(q)[Len(q) - 1] = q[(Len(q) - 1) + 1]
    BY <1>1, <2>1
  <2>3. (Len(q) - 1) + 1 = Len(q) /\ Len(Tail(q)) = Len(q) - 1
    BY <1>1
  <2>4. QED
    BY <2>2, <2>3
<1>3. ASSUME Tail(q) = <<>> PROVE Head(q) = q[Len(q)]
  <2>1. Len(q) = 1
    BY <1>1, <1>3
  <2>2. QED
    BY <1>1, <2>1
<1>4. QED
  BY <1>2, <1>3

(* A tab the server takes a command from has asked for its board still.     *)
LEMMA TakenAsked ==
  ASSUME TabsInv, NEW t \in Tabs, NEW cmd, Take(t, cmd),
         shown'[t] = shown[t], mounted'[t] = mounted[t]
  PROVE  /\ BoardAsked(t)'
         /\ \A x \in Tabs \ {t} : toServer'[x] = toServer[x]
         /\ toServer'[t] = <<>> =>
              Head(toServer[t]) = IF mounted[t] = NoProject THEN LeaveCmd ELSE JoinCmd(mounted[t])
<1>1. TypeOK /\ BoardAsked(t)
  BY DEF TabsInv
<1>2. /\ toServer[t] \in Seq(Commands) /\ toServer[t] # <<>>
      /\ toServer'[t] = Tail(toServer[t])
      /\ toServer' = [toServer EXCEPT ![t] = Tail(@)]
  BY <1>1, Taken
<1>3. \A x \in Tabs \ {t} : toServer'[x] = toServer[x]
  BY <1>1, <1>2 DEF TypeOK
<1>4. QED
  BY <1>1, <1>2, <1>3, LastStays DEF BoardAsked

(* DoubledKnown, for the steps that add no viewer.                          *)
LEMMA FewerDoubled ==
  ASSUME DoubledKnown, doubled' = doubled,
         \A r \in Rooms, x \in Sockets : viewersMap'[r][x] \in {viewersMap[r][x], NoUser}
  PROVE  DoubledKnown'
BY DEF DoubledKnown

(* Departures are among them.                                               *)
LEMMA DepartureDoubled ==
  ASSUME TabsInv, NEW s \in Sockets, HandleDisconnect(s) \/ HandleLeaveProject(s), doubled' = doubled
  PROVE  DoubledKnown'
<1>1. GatewayTypeOK /\ DoubledKnown
  BY DEF TabsInv, TypeOK
<1>2. CASE Joined(s)
  <2>1. viewersMap' = ViewersWithout(s)
    BY <1>2 DEF HandleDisconnect, HandleLeaveProject
  <2>2. socketMeta[s].room \in Rooms
    BY <1>1, <1>2, WithoutType
  <2>3. \A r \in Rooms, x \in Sockets : viewersMap'[r][x] \in {viewersMap[r][x], NoUser}
    BY <1>1, <2>1, <2>2 DEF ViewersWithout, GatewayTypeOK
  <2>4. QED
    BY <1>1, <2>3, FewerDoubled
<1>3. CASE ~Joined(s)
  <2>1. viewersMap' = viewersMap
    BY <1>3 DEF HandleDisconnect, HandleLeaveProject, roomVars
  <2>2. QED
    BY <1>1, <2>1, FewerDoubled
<1>4. QED
  BY <1>2, <1>3

-----------------------------------------------------------------------------

\* What each step has to keep besides the types and the gateway's records.
Kept ==
  /\ OwnSockets' /\ DoubledKnown'
  /\ \A t \in Tabs : BoardAsked(t)' /\ InRoom(t)' /\ Informed(t)'

(* A new connection is in no room yet.                                      *)
LEMMA ConnectKeeps ==
  ASSUME TabsInv, NEW t \in Tabs, Connect(t)
  PROVE  Kept
<1>1. PICK s \in Sockets \ conn :
        /\ HandleConnection(s, TabUser[t], TRUE)
        /\ sock' = [sock EXCEPT ![t] = s]
  <2>1. PICK s : s = CHOOSE x \in Sockets \ conn : TRUE
    OBVIOUS
  <2>2. s \in Sockets \ conn
    BY <2>1 DEF Connect
  <2>3. QED
    BY <2>1, <2>2 DEF Connect
<1>2. /\ sock \in [Tabs -> Sockets \cup {NoSocket}]
      /\ OwnSockets /\ DoubledKnown /\ RoomBookkeeping
  BY DEF TabsInv, TypeOK
<1>3. /\ UNCHANGED <<viewersMap, socketMeta, outbox, shown, mounted, toServer, doubled>>
      /\ conn' = conn \cup {s}
  BY <1>1 DEF Connect, HandleConnection, roomVars
<1>4. sock'[t] = s /\ \A x \in Tabs \ {t} : sock'[x] = sock[x]
  BY <1>1, <1>2
<1>5. OwnSockets'
  BY <1>1, <1>2, <1>3, <1>4 DEF OwnSockets, Connected
<1>6. DoubledKnown'
  BY <1>2, <1>3 DEF DoubledKnown
<1>7. ASSUME NEW x \in Tabs PROVE BoardAsked(x)' /\ InRoom(x)' /\ Informed(x)'
  <2>1. BoardAsked(x)'
    BY <1>3, UntouchedAsked
  <2>2. CASE x = t
    <3>1. ~Joined(s)'
      BY <1>1, <1>2, <1>3 DEF RoomBookkeeping, Joined
    <3>2. QED
      BY <1>4, <2>1, <2>2, <3>1 DEF InRoom, Informed, Joined
  <2>3. CASE x # t
    BY <1>3, <1>4, <2>1, <2>3, UntouchedInformed
  <2>4. QED
    BY <2>2, <2>3
<1>8. QED
  BY <1>5, <1>6, <1>7 DEF Kept

(* A board mounts or goes away: nothing is shown, and the last command is   *)
(* about the new board.                                                     *)
LEMMA BoardMoves ==
  ASSUME TabsInv, NEW t \in Tabs, UNCHANGED <<gatewayVars, sock, doubled>>,
         shown' = [shown EXCEPT ![t] = {}],
         \A x \in Tabs \ {t} : mounted'[x] = mounted[x] /\ toServer'[x] = toServer[x],
         toServer'[t] # <<>>,
         toServer'[t][Len(toServer'[t])] =
           IF mounted'[t] = NoProject THEN LeaveCmd ELSE JoinCmd(mounted'[t])
  PROVE  Kept
<1>1. /\ TypeOK /\ shown \in [Tabs -> SUBSET Users] /\ OwnSockets /\ DoubledKnown
      /\ InRoom(t) /\ Informed(t)
  BY DEF TabsInv, TypeOK
<1>2. UNCHANGED <<conn, viewersMap, socketMeta, outbox, sock, doubled>>
  BY DEF gatewayVars, roomVars
<1>3. OwnSockets' /\ DoubledKnown'
  BY <1>1, <1>2 DEF OwnSockets, DoubledKnown, Connected
<1>4. shown'[t] = {} /\ \A x \in Tabs \ {t} : shown'[x] = shown[x]
  BY <1>1
<1>5. BoardAsked(t)'
  BY <1>4 DEF BoardAsked
<1>6. InRoom(t)' /\ Informed(t)'
  <2>1. CASE ~(Connected(t) /\ Joined(sock[t]))
    BY <1>2, <2>1 DEF InRoom, Informed, Connected, Joined
  <2>2. CASE Connected(t) /\ Joined(sock[t])
    <3>1. PICK x : x = sock[t]
      OBVIOUS
    <3>2. PICK r : r = socketMeta[x].room
      OBVIOUS
    <3>3. ViewersIn(r)' = ViewersIn(r)
      BY <1>2 DEF ViewersIn
    <3>4. ShowsNoOther(outbox[x], shown[t], TabUser[t], ViewersIn(r))
      BY <1>1, <2>2, <3>1, <3>2 DEF Informed
    <3>5. ShowsNoOther(outbox[x], {}, TabUser[t], ViewersIn(r))
      BY <3>4, ShowsCleared
    <3>6. sock'[t] = x /\ socketMeta'[x].room = r /\ outbox'[x] = outbox[x] /\ shown'[t] = {}
      BY <1>2, <1>4, <3>1, <3>2
    <3>7. Informed(t)'
      BY <3>3, <3>5, <3>6 DEF Informed
    <3>8. InRoom(t)'
      BY <1>1, <1>2, <2>2 DEF InRoom
    <3>9. QED
      BY <3>7, <3>8
  <2>3. QED
    BY <2>1, <2>2
<1>7. ASSUME NEW x \in Tabs \ {t} PROVE BoardAsked(x)' /\ InRoom(x)' /\ Informed(x)'
  BY <1>2, <1>4, UntouchedAsked, UntouchedInformed
<1>8. QED
  BY <1>3, <1>5, <1>6, <1>7 DEF Kept

(* MountBoard is such a step,                                               *)
LEMMA MountKeeps ==
  ASSUME TabsInv, NEW t \in Tabs, NEW p \in Projects, MountBoard(t, p)
  PROVE  Kept
<1>1. /\ toServer \in [Tabs -> Seq(Commands)]
      /\ mounted \in [Tabs -> Projects \cup {NoProject}] /\ NoProject \notin Projects
  BY PresenceAssumption DEF TabsInv, TypeOK, Commands
<1>2. /\ mounted'[t] = p /\ \A x \in Tabs \ {t} : mounted'[x] = mounted[x]
      /\ \A x \in Tabs \ {t} : toServer'[x] = toServer[x]
      /\ toServer'[t] = IF mounted[t] = NoProject
                        THEN Append(toServer[t], JoinCmd(p)) ELSE toServer[t] \o <<LeaveCmd, JoinCmd(p)>>
  BY <1>1 DEF MountBoard
<1>3. \A q \in Seq(Commands) :
        /\ Append(q, JoinCmd(p)) # <<>> /\ Append(q, JoinCmd(p))[Len(Append(q, JoinCmd(p)))] = JoinCmd(p)
        /\ q \o <<LeaveCmd, JoinCmd(p)>> # <<>>
        /\ (q \o <<LeaveCmd, JoinCmd(p)>>)[Len(q \o <<LeaveCmd, JoinCmd(p)>>)] = JoinCmd(p)
  BY CommandKinds
<1>4. toServer'[t] # <<>> /\ toServer'[t][Len(toServer'[t])] = JoinCmd(p)
  BY <1>1, <1>2, <1>3
<1>5. QED
  BY <1>1, <1>2, <1>4, BoardMoves DEF MountBoard

(* and so is UnmountBoard.                                                  *)
LEMMA UnmountKeeps ==
  ASSUME TabsInv, NEW t \in Tabs, UnmountBoard(t)
  PROVE  Kept
<1>1. /\ toServer \in [Tabs -> Seq(Commands)] /\ mounted \in [Tabs -> Projects \cup {NoProject}]
  BY DEF TabsInv, TypeOK, Commands
<1>2. /\ mounted'[t] = NoProject /\ \A x \in Tabs \ {t} : mounted'[x] = mounted[x]
      /\ \A x \in Tabs \ {t} : toServer'[x] = toServer[x]
      /\ toServer'[t] = Append(toServer[t], LeaveCmd)
  BY <1>1 DEF UnmountBoard
<1>3. \A q \in Seq(Commands) :
        Append(q, LeaveCmd) # <<>> /\ Append(q, LeaveCmd)[Len(Append(q, LeaveCmd))] = LeaveCmd
  BY CommandKinds
<1>4. toServer'[t] # <<>> /\ toServer'[t][Len(toServer'[t])] = LeaveCmd
  BY <1>1, <1>2, <1>3
<1>5. QED
  BY <1>2, <1>4, BoardMoves DEF UnmountBoard

(* A tab gives its connection up, with what it had under way.               *)
LEMMA GivenUp ==
  ASSUME TabsInv, NEW t \in Tabs, SignOut(t) \/ LoseConnection(t)
  PROVE  Kept
<1>1. /\ TypeOK /\ OwnSockets /\ DoubledKnown /\ \A x \in Tabs : BoardAsked(x)
  BY DEF TabsInv
<1>2. UNCHANGED <<conn, viewersMap, socketMeta, outbox, doubled>>
  BY DEF SignOut, LoseConnection, gatewayVars, roomVars
<1>3. /\ sock'[t] = NoSocket /\ toServer'[t] = <<>>
      /\ \A x \in Tabs \ {t} : /\ sock'[x] = sock[x] /\ toServer'[x] = toServer[x]
                               /\ shown'[x] = shown[x] /\ mounted'[x] = mounted[x]
  BY <1>1 DEF SignOut, LoseConnection, TypeOK
<1>4. shown'[t] = {} \/ (shown'[t] = shown[t] /\ mounted'[t] = mounted[t])
  BY <1>1 DEF SignOut, LoseConnection, TypeOK
<1>5. OwnSockets'
  BY <1>1, <1>2, <1>3 DEF OwnSockets, Connected
<1>6. DoubledKnown'
  BY <1>1, <1>2 DEF DoubledKnown
<1>7. BoardAsked(t)' /\ InRoom(t)' /\ Informed(t)'
  BY <1>1, <1>3, <1>4 DEF BoardAsked, InRoom, Informed, Connected
<1>8. ASSUME NEW x \in Tabs \ {t} PROVE BoardAsked(x)' /\ InRoom(x)' /\ Informed(x)'
  BY <1>2, <1>3, UntouchedAsked, UntouchedInformed
<1>9. QED
  BY <1>5, <1>6, <1>7, <1>8 DEF Kept

(* A message arrives.                                                       *)
LEMMA ReceiveKeeps ==
  ASSUME TabsInv, NEW t \in Tabs, Receive(t)
  PROVE  Kept
<1>1. /\ TypeOK /\ OwnSockets /\ DoubledKnown /\ BoardAsked(t) /\ InRoom(t) /\ Informed(t)
  BY DEF TabsInv
<1>2. /\ UNCHANGED <<conn, viewersMap, roomMembers, socketMeta, sock, mounted, toServer, doubled>>
      /\ Connected(t)
      /\ outbox[sock[t]] # <<>>
      /\ outbox' = [outbox EXCEPT ![sock[t]] = Tail(@)]
      /\ shown' = IF mounted[t] = NoProject THEN shown
                  ELSE [shown EXCEPT ![t] = ShownAfter(t, Head(outbox[sock[t]]))]
  BY DEF Receive, Deliver, roomVars
<1>3. PICK s : s = sock[t]
  OBVIOUS
<1>4. s \in Sockets /\ outbox[s] \in Seq(Message) /\ outbox'[s] = Tail(outbox[s])
  BY <1>1, <1>2, <1>3 DEF TypeOK, GatewayTypeOK, Connected
<1>5. /\ \A x \in Tabs \ {t} : shown'[x] = shown[x]
      /\ shown'[t] = IF mounted[t] = NoProject THEN shown[t] ELSE ShownAfter(t, Head(outbox[s]))
      /\ shown[t] \subseteq Users
  BY <1>1, <1>2, <1>3 DEF TypeOK
<1>6. OwnSockets' /\ DoubledKnown'
  BY <1>1, <1>2 DEF OwnSockets, DoubledKnown, Connected
<1>7. BoardAsked(t)'
  <2>1. Head(outbox[s]) \in Message
    BY <1>2, <1>3, <1>4
  <2>2. ShownAfter(t, Head(outbox[s])) \subseteq Users \ {TabUser[t]}
    <3>1. TabUser[t] \notin ShownAfter(t, Head(outbox[s]))
      <4>1. TabUser[t] \notin shown[t]
        BY <1>1 DEF BoardAsked
      <4>2. QED
        BY <2>1, <4>1 DEF ShownAfter
    <3>2. QED
      BY <1>5, <2>1, <3>1, ShownAfterType
  <2>3. QED
    BY <1>1, <1>2, <1>5, <2>2 DEF BoardAsked
<1>8. InRoom(t)'
  BY <1>1, <1>2 DEF InRoom, Connected, Joined
<1>9. Informed(t)'
  <2>1. CASE ~Joined(s)
    BY <1>2, <1>3, <2>1 DEF Informed, Joined
  <2>2. CASE Joined(s)
    <3>1. PICK r : r = socketMeta[s].room
      OBVIOUS
    <3>2. PICK now : now = ViewersIn(r)
      OBVIOUS
    <3>3. ViewersIn(r)' = now
      BY <1>2, <3>2 DEF ViewersIn
    <3>4. now \in SUBSET Users
      BY <1>1, <1>4, <2>2, <3>1, <3>2, ViewersKnown, WithoutType DEF TypeOK
    <3>5. /\ ShowsNoOther(outbox[s], shown[t], TabUser[t], now)
          /\ toServer[t] = <<>> => ShowsAll(outbox[s], shown[t], TabUser[t], now, doubled)
      BY <1>1, <1>2, <1>3, <2>2, <3>1, <3>2 DEF Informed
    <3>6. /\ ShowsNoOther(Tail(outbox[s]), shown'[t], TabUser[t], now)
          /\ toServer[t] = <<>> => ShowsAll(Tail(outbox[s]), shown'[t], TabUser[t], now, doubled)
      <4>1. CASE mounted[t] = NoProject
        <5>1. shown[t] = {} /\ shown'[t] = {}
          BY <1>1, <1>5, <4>1 DEF BoardAsked
        <5>2. toServer[t] # <<>>
          <6>1. socketMeta[s].projectId \in Projects
            BY <1>1, <1>4, <2>2, WithoutType DEF TypeOK
          <6>2. QED
            BY <1>1, <1>2, <1>3, <2>2, <4>1, <6>1, PresenceAssumption DEF InRoom
        <5>3. QED
          BY <1>2, <1>3, <1>4, <3>5, <5>1, <5>2, ShowsUnread
      <4>2. CASE mounted[t] # NoProject
        <5>1. outbox[s] # <<>> /\ shown'[t] = ShownAfter(t, Head(outbox[s]))
          BY <1>2, <1>3, <1>5, <4>2
        <5>2. ShowsNoOther(Tail(outbox[s]), ShownAfter(t, Head(outbox[s])), TabUser[t], now)
          BY <1>4, <1>5, <3>4, <3>5, <5>1, ShowsHandled
        <5>3. toServer[t] = <<>> =>
                ShowsAll(Tail(outbox[s]), ShownAfter(t, Head(outbox[s])), TabUser[t], now, doubled)
          BY <1>4, <1>5, <3>4, <3>5, <5>1, ShowsHandled
        <5>4. QED
          BY <5>1, <5>2, <5>3
      <4>3. QED
        BY <4>1, <4>2
    <3>7. sock'[t] = s /\ socketMeta'[s].room = r /\ outbox'[s] = Tail(outbox[s])
          /\ toServer'[t] = toServer[t] /\ doubled' = doubled
      BY <1>2, <1>3, <1>4, <3>1
    <3>8. QED
      BY <3>3, <3>6, <3>7 DEF Informed
  <2>3. QED
    BY <2>1, <2>2
<1>10. ASSUME NEW x \in Tabs \ {t} PROVE BoardAsked(x)' /\ InRoom(x)' /\ Informed(x)'
  <2>1. Connected(x) => outbox'[sock[x]] = outbox[sock[x]]
    <3>1. sock[x] # sock[t]
      BY <1>1, <1>2 DEF OwnSockets
    <3>2. outbox \in [Sockets -> Seq(Message)] /\ sock[x] \in Sockets \cup {NoSocket}
      BY <1>1 DEF TypeOK, GatewayTypeOK
    <3>3. QED
      BY <1>2, <3>1, <3>2 DEF Connected
  <2>2. QED
    BY <1>2, <1>5, <2>1, UntouchedAsked, UntouchedInformed
<1>11. QED
  BY <1>6, <1>7, <1>8, <1>9, <1>10 DEF Kept

(* The board's room is joined: the tab gets the list of its viewers.        *)
LEMMA ServeJoinKeeps ==
  ASSUME TabsInv, TypeOK', NEW t \in Tabs, ServeJoin(t)
  PROVE  Kept
<1>1. /\ TypeOK /\ GatewayTypeOK /\ OwnSockets /\ DoubledKnown /\ RoomBookkeeping
      /\ BoardAsked(t) /\ InRoom(t)
  BY DEF TabsInv, TypeOK
<1>2. PICK s, u, p : s = sock[t] /\ u = TabUser[t] /\ p = Head(toServer[t]).project
  OBVIOUS
<1>3. /\ Take(t, "join:project") /\ HandleJoinProject(s, u, p) /\ NoteDoubled
      /\ UNCHANGED <<mounted, sock, shown>>
  BY <1>2 DEF ServeJoin
<1>4. /\ s \in Sockets /\ u \in Users /\ p \in Projects
      /\ Head(toServer[t]) = JoinCmd(p)
  BY <1>1, <1>2, <1>3, Taken, CommandKinds
<1>5. Joined(s) => socketMeta[s].userId = u
  BY <1>1, <1>2, <1>3 DEF InRoom, Take
<1>6. PICK r : r = Room(p, u)
  OBVIOUS
<1>7. PICK others : others = ViewersIn(r) \ {u}
  OBVIOUS
<1>8. r \in Rooms
  BY <1>4, <1>6, RoomType
<1>9. others \in SUBSET Users
  BY <1>1, <1>7, <1>8, ViewersKnown
<1>10. /\ conn' = conn
       /\ socketMeta' = [socketMeta EXCEPT ![s] = [room |-> r, userId |-> u, projectId |-> p]]
       /\ outbox'[s] = Append(outbox[s], ViewersInitial(others))
  BY <1>3, <1>4, <1>6, <1>7 DEF HandleJoinProject
<1>11. OwnSockets'
  BY <1>1, <1>3, <1>10 DEF OwnSockets, Connected
<1>12. doubled \subseteq doubled'
  BY <1>3 DEF NoteDoubled
<1>13. DoubledKnown'
  <2>1. SUFFICES ASSUME NEW q \in Rooms, NEW x \in Sockets, NEW y \in Sockets, x # y,
                        viewersMap'[q][x] # NoUser, viewersMap'[q][y] = viewersMap'[q][x]
                 PROVE  viewersMap'[q][x] \in doubled'
    BY DEF DoubledKnown
  <2>2. viewersMap'[q][x] \in Users
    BY <2>1 DEF TypeOK, GatewayTypeOK
  <2>3. QED
    BY <1>3, <2>1, <2>2 DEF NoteDoubled
<1>14. /\ BoardAsked(t)' /\ \A x \in Tabs \ {t} : toServer'[x] = toServer[x]
       /\ toServer'[t] = <<>> =>
            JoinCmd(p) = IF mounted[t] = NoProject THEN LeaveCmd ELSE JoinCmd(mounted[t])
  BY <1>3, <1>4, TakenAsked
<1>15. toServer'[t] = <<>> => p = mounted[t]
  <2>1. mounted[t] \in Projects \cup {NoProject} /\ LeaveCmd # JoinCmd(p)
    BY <1>1, <1>4, CommandKinds DEF TypeOK
  <2>2. JoinCmd(mounted[t]) = JoinCmd(p) => mounted[t] = p
    BY DEF JoinCmd
  <2>3. QED
    BY <1>14, <2>1, <2>2
<1>16. sock'[t] = s /\ socketMeta'[s] = [room |-> r, userId |-> u, projectId |-> p]
  BY <1>1, <1>2, <1>3, <1>4, <1>10 DEF GatewayTypeOK
<1>17. InRoom(t)'
  BY <1>2, <1>3, <1>15, <1>16 DEF InRoom
<1>18. Informed(t)'
  <2>1. ViewersIn(r)' = others \cup {u}
    <3>1. PICK viewers : viewers = IF Joined(s) /\ socketMeta[s].room # r
                                   THEN ViewersWithout(s) ELSE viewersMap
      OBVIOUS
    <3>2. viewersMap' = [viewers EXCEPT ![r][s] = u]
      BY <1>3, <1>6, <3>1 DEF HandleJoinProject
    <3>3. Joined(s) => socketMeta[s].room \in Rooms
      BY <1>1, <1>4, WithoutType
    <3>4. \A x \in Sockets : viewers[r][x] = viewersMap[r][x]
      BY <1>1, <1>8, <3>1, <3>3 DEF ViewersWithout, GatewayTypeOK
    <3>5. viewers \in [Rooms -> [Sockets -> Users \cup {NoUser}]]
      BY <1>1, <1>4, <3>1, WithoutType DEF GatewayTypeOK
    <3>6. \A x \in Sockets : viewersMap'[r][x] = IF x = s THEN u ELSE viewersMap[r][x]
      BY <1>4, <1>8, <3>2, <3>4, <3>5
    <3>7. viewersMap[r][s] \in {NoUser, u}
      BY <1>1, <1>4, <1>5, <1>8 DEF RoomBookkeeping
    <3>8. u # NoUser
      BY <1>4, ConstantsAssumption
    <3>9. QED
      BY <1>4, <1>7, <3>6, <3>7, <3>8 DEF ViewersIn
  <2>2. outbox[s] \in Seq(Message)
    BY <1>1, <1>4 DEF GatewayTypeOK
  <2>3. /\ ShowsNoOther(outbox'[s], shown'[t], u, others \cup {u})
        /\ ShowsAll(outbox'[s], shown'[t], u, others \cup {u}, doubled')
    <3>1. PICK q, sh, twice : q = outbox[s] /\ sh = shown'[t] /\ twice = doubled'
      OBVIOUS
    <3>2. ShowsNoOther(Append(q, ViewersInitial(others)), sh, u, others \cup {u})
      BY <1>9, <2>2, <3>1, ShowsListed
    <3>3. ShowsAll(Append(q, ViewersInitial(others)), sh, u, others \cup {u}, twice)
      BY <1>9, <2>2, <3>1, ShowsListed
    <3>4. QED
      BY <1>10, <3>1, <3>2, <3>3
  <2>4. socketMeta'[s].room = r
    BY <1>16
  <2>5. QED
    BY <1>2, <1>16, <2>1, <2>3, <2>4 DEF Informed
<1>19. ASSUME NEW x \in Tabs \ {t} PROVE BoardAsked(x)' /\ InRoom(x)' /\ Informed(x)'
  <2>1. sock[x] # s
    BY <1>1, <1>2, <1>3 DEF OwnSockets, Take
  <2>2. \E v \in Users, q \in Projects :
          HandleJoinProject(s, v, q) /\ (Joined(s) => socketMeta[s].userId = v)
    BY <1>3, <1>4, <1>5
  <2>3. sock'[x] = sock[x] /\ shown'[x] = shown[x] /\ mounted'[x] = mounted[x] /\ toServer'[x] = toServer[x]
    BY <1>3, <1>14
  <2>4. InRoom(x)' /\ Informed(x)'
    BY <1>4, <1>12, <2>1, <2>2, <2>3, OthersInformed
  <2>5. QED
    BY <2>3, <2>4, UntouchedAsked
<1>20. QED
  BY <1>11, <1>13, <1>14, <1>17, <1>18, <1>19 DEF Kept

(* A rejected join ends the connection of the tab.                          *)
LEMMA RejectionKeeps ==
  ASSUME TabsInv, NEW t \in Tabs, ServeJoinRejected(t)
  PROVE  Kept
<1>1. TypeOK /\ OwnSockets
  BY DEF TabsInv
<1>2. PICK s : s = sock[t]
  OBVIOUS
<1>3. /\ Take(t, "join:project") /\ HandleDisconnect(s)
      /\ sock' = [sock EXCEPT ![t] = NoSocket]
      /\ UNCHANGED <<mounted, shown, doubled>>
  BY <1>2 DEF ServeJoinRejected, HandleJoinRejected
<1>4. s \in Sockets
  BY <1>1, <1>2, <1>3, Taken
<1>5. sock'[t] = NoSocket /\ \A x \in Tabs \ {t} : sock'[x] = sock[x]
  BY <1>1, <1>3 DEF TypeOK
<1>6. \A x \in Tabs \ {t} : sock[x] # s
  BY <1>1, <1>2, <1>3 DEF OwnSockets, Take
<1>7. OwnSockets'
  BY <1>1, <1>3, <1>5, <1>6 DEF OwnSockets, Connected, HandleDisconnect
<1>8. DoubledKnown'
  BY <1>3, <1>4, DepartureDoubled
<1>9. BoardAsked(t)' /\ \A x \in Tabs \ {t} : toServer'[x] = toServer[x]
  BY <1>3, TakenAsked
<1>10. InRoom(t)' /\ Informed(t)'
  BY <1>5 DEF InRoom, Informed, Connected
<1>11. ASSUME NEW x \in Tabs \ {t} PROVE BoardAsked(x)' /\ InRoom(x)' /\ Informed(x)'
  <2>1. sock'[x] = sock[x] /\ shown'[x] = shown[x] /\ mounted'[x] = mounted[x] /\ toServer'[x] = toServer[x]
    BY <1>3, <1>5, <1>9
  <2>2. QED
    BY <1>3, <1>4, <1>6, <2>1, OthersInformed, UntouchedAsked
<1>12. QED
  BY <1>7, <1>8, <1>9, <1>10, <1>11 DEF Kept

(* After a leave the tab is in no room, as it may have been before.         *)
LEMMA ServeLeaveKeeps ==
  ASSUME TabsInv, NEW t \in Tabs, ServeLeave(t)
  PROVE  Kept
<1>1. TypeOK /\ GatewayTypeOK /\ OwnSockets /\ DoubledKnown
  BY DEF TabsInv, TypeOK
<1>2. PICK s : s = sock[t]
  OBVIOUS
<1>3. /\ Take(t, "leave:project")
      /\ HandleLeaveProject(s) \/ (~Joined(s) /\ UNCHANGED gatewayVars)
      /\ UNCHANGED <<mounted, sock, shown, doubled>>
  BY <1>2 DEF ServeLeave
<1>4. s \in Sockets
  BY <1>1, <1>2, <1>3, Taken
<1>5. conn' = conn /\ ~Joined(s)'
  BY <1>1, <1>3, <1>4 DEF HandleLeaveProject, gatewayVars, roomVars, Joined, GatewayTypeOK
<1>6. OwnSockets'
  BY <1>1, <1>3, <1>5 DEF OwnSockets, Connected
<1>7. DoubledKnown'
  <2>1. CASE HandleLeaveProject(s)
    BY <1>3, <1>4, <2>1, DepartureDoubled
  <2>2. CASE UNCHANGED gatewayVars
    BY <1>1, <1>3, <2>2 DEF DoubledKnown, gatewayVars, roomVars
  <2>3. QED
    BY <1>3, <2>1, <2>2
<1>8. BoardAsked(t)' /\ \A x \in Tabs \ {t} : toServer'[x] = toServer[x]
  BY <1>3, TakenAsked
<1>9. InRoom(t)' /\ Informed(t)'
  <2>1. sock'[t] = s
    BY <1>2, <1>3
  <2>2. QED
    BY <1>5, <2>1 DEF InRoom, Informed, Joined
<1>10. ASSUME NEW x \in Tabs \ {t} PROVE BoardAsked(x)' /\ InRoom(x)' /\ Informed(x)'
  <2>1. sock'[x] = sock[x] /\ shown'[x] = shown[x] /\ mounted'[x] = mounted[x] /\ toServer'[x] = toServer[x]
    BY <1>3, <1>8
  <2>2. sock[x] # s
    BY <1>1, <1>2, <1>3 DEF OwnSockets, Take
  <2>3. CASE HandleLeaveProject(s)
    BY <1>3, <1>4, <2>1, <2>2, <2>3, OthersInformed, UntouchedAsked
  <2>4. CASE UNCHANGED gatewayVars
    <3>1. UNCHANGED <<viewersMap, socketMeta, outbox, doubled>>
      BY <1>3, <2>4 DEF gatewayVars, roomVars
    <3>2. QED
      BY <2>1, <3>1, UntouchedInformed, UntouchedAsked
  <2>5. QED
    BY <1>3, <2>3, <2>4
<1>11. QED
  BY <1>6, <1>7, <1>8, <1>9, <1>10 DEF Kept

(* A connection nobody has is cleaned up.                                   *)
LEMMA DetectLossKeeps ==
  ASSUME TabsInv, NEW s \in Sockets, DetectLoss(s)
  PROVE  Kept
<1>1. /\ HandleDisconnect(s) /\ UNCHANGED <<mounted, sock, toServer, shown, doubled>>
      /\ \A t \in Tabs : sock[t] # s
  BY DEF DetectLoss, Orphans, tabVars
<1>2. OwnSockets'
  BY <1>1 DEF TabsInv, OwnSockets, Connected, HandleDisconnect
<1>3. DoubledKnown'
  BY <1>1, DepartureDoubled
<1>4. ASSUME NEW x \in Tabs PROVE BoardAsked(x)' /\ InRoom(x)' /\ Informed(x)'
  BY <1>1, OthersInformed, UntouchedAsked
<1>5. QED
  BY <1>2, <1>3, <1>4 DEF Kept

(* After a restart nobody is connected.                                     *)
LEMMA RestartKeeps ==
  ASSUME TabsInv, Restart
  PROVE  Kept
<1>1. /\ \A t \in Tabs : sock'[t] = NoSocket /\ toServer'[t] \in {<<>>, toServer[t]}
      /\ UNCHANGED <<mounted, shown, doubled>>
      /\ \A r \in Rooms, s \in Sockets : viewersMap'[r][s] = NoUser
  BY DEF Restart, GatewayRestart
<1>2. OwnSockets' /\ DoubledKnown'
  BY <1>1 DEF OwnSockets, DoubledKnown, Connected
<1>3. ASSUME NEW x \in Tabs PROVE BoardAsked(x)' /\ InRoom(x)' /\ Informed(x)'
  <2>1. BoardAsked(x)
    BY DEF TabsInv
  <2>2. BoardAsked(x)'
    BY <1>1, <2>1 DEF BoardAsked
  <2>3. QED
    BY <1>1, <2>2 DEF InRoom, Informed, Connected
<1>4. QED
  BY <1>2, <1>3 DEF Kept

(* Nothing at all happens.                                                  *)
LEMMA StutterKeeps ==
  ASSUME TabsInv, UNCHANGED vars
  PROVE  Kept
<1>1. UNCHANGED <<conn, viewersMap, socketMeta, outbox, mounted, sock, toServer, shown, doubled>>
  BY DEF vars, gatewayVars, roomVars, tabVars
<1>2. OwnSockets' /\ DoubledKnown'
  BY <1>1 DEF TabsInv, OwnSockets, DoubledKnown, Connected
<1>3. ASSUME NEW x \in Tabs PROVE BoardAsked(x)' /\ InRoom(x)' /\ Informed(x)'
  BY <1>1, UntouchedAsked, UntouchedInformed
<1>4. QED
  BY <1>2, <1>3 DEF Kept

-----------------------------------------------------------------------------

(* TabsInv holds at the beginning.                                          *)
LEMMA TabsBegin == Init => TabsInv
<1> SUFFICES ASSUME Init PROVE TabsInv
  OBVIOUS
<1>1. TypeOK
  BY TabsInit
<1>2. RoomBookkeeping /\ RegisteredRoomsInUse
  BY InitInv DEF Init, GatewayInv
<1>3. /\ \A t \in Tabs : ~Connected(t) /\ toServer[t] = <<>> /\ shown[t] = {}
      /\ \A r \in Rooms, s \in Sockets : viewersMap[r][s] = NoUser
  BY DEF Init, GatewayInit, Connected
<1>4. OwnSockets /\ DoubledKnown
  BY <1>3 DEF OwnSockets, DoubledKnown
<1>5. \A t \in Tabs : BoardAsked(t) /\ InRoom(t) /\ Informed(t)
  BY <1>3 DEF BoardAsked, InRoom, Informed
<1>6. QED
  BY <1>1, <1>2, <1>4, <1>5 DEF TabsInv

(* Every step of tabs, network and server keeps TabsInv.                    *)
LEMMA TabsStep == TabsInv /\ [Next]_vars => TabsInv'
<1> SUFFICES ASSUME TabsInv, [Next]_vars PROVE TabsInv'
  OBVIOUS
<1>1. TypeOK' /\ TypeOK
  BY TabsTypes DEF TabsInv
<1>2. RoomBookkeeping' /\ RegisteredRoomsInUse'
  <2>1. GatewayInv
    BY DEF TabsInv, TypeOK, GatewayInv
  <2>2. GatewayInv'
    BY <1>1, <2>1, StepIsGateway, NextInv
  <2>3. QED
    BY <2>2 DEF GatewayInv
<1>3. Kept
  <2>1. ASSUME NEW t \in Tabs, TabStep(t) PROVE Kept
    BY <2>1, ConnectKeeps, MountKeeps, UnmountKeeps, GivenUp DEF TabStep
  <2>2. ASSUME NEW t \in Tabs, ServerStep(t) PROVE Kept
    BY <1>1, <2>2, ServeJoinKeeps, RejectionKeeps, ServeLeaveKeeps DEF ServerStep
  <2>3. QED
    BY <2>1, <2>2, ReceiveKeeps, DetectLossKeeps, RestartKeeps, StutterKeeps DEF Next
<1>4. QED
  BY <1>1, <1>2, <1>3 DEF TabsInv, Kept

(* So it always holds.                                                      *)
LEMMA TabsAlways == Spec => []TabsInv
BY TabsBegin, TabsStep, PTL DEF Spec

(* What TabsInv says of a settled tab.                                      *)
LEMMA SettledTabs == TabsInv => PresenceInv /\ NoGhostViewers /\ ViewersShown
<1> SUFFICES ASSUME TabsInv PROVE PresenceInv /\ NoGhostViewers /\ ViewersShown
  OBVIOUS
<1>1. TypeOK /\ NoStrayRoom
  BY DEF TabsInv, NoStrayRoom, Settled, Quiet, InRoom
<1>2. ASSUME NEW t \in Tabs, Settled(t)
      PROVE  shown[t] \subseteq OthersViewing(t) /\ OthersViewing(t) \ doubled \subseteq shown[t]
  <2>1. PICK s : s = sock[t]
    OBVIOUS
  <2>2. PICK now : now = ViewersIn(socketMeta[s].room)
    OBVIOUS
  <2>3. /\ Connected(t) /\ Joined(s) /\ toServer[t] = <<>> /\ outbox[s] = <<>>
        /\ BoardAsked(t) /\ Informed(t)
    BY <1>2, <2>1 DEF Settled, Quiet, TabsInv
  <2>4. now \in SUBSET Users
    <3>1. s \in Sockets
      BY <1>1, <2>1, <2>3 DEF TypeOK, Connected
    <3>2. QED
      BY <1>1, <2>2, <2>3, <3>1, ViewersKnown, WithoutType DEF TypeOK
  <2>5. /\ ShowsNoOther(<<>>, shown[t], TabUser[t], now)
        /\ ShowsAll(<<>>, shown[t], TabUser[t], now, doubled)
    BY <2>1, <2>2, <2>3 DEF Informed
  <2>6. shown[t] \subseteq Users \ {TabUser[t]}
    BY <2>3 DEF BoardAsked
  <2>7. shown[t] \subseteq now \ {TabUser[t]}
    BY <2>4, <2>5, <2>6, ShowsNow
  <2>8. now \ ({TabUser[t]} \cup doubled) \subseteq shown[t]
    BY <2>4, <2>5, ShowsNow
  <2>9. OthersViewing(t) = now \ {TabUser[t]}
    BY <2>1, <2>2 DEF OthersViewing
  <2>10. QED
    BY <2>7, <2>8, <2>9
<1>3. QED
  BY <1>1, <1>2 DEF PresenceInv, NoGhostViewers, ViewersShown

-----------------------------------------------------------------------------

(* The tabs use the gateway as it is meant to be used: whatever they do and *)
(* whatever gets lost, the gateway's part is a behaviour of GatewaySpec.    *)
THEOREM TabsUseTheGateway == Spec => GatewaySpec
<1>1. Init => GatewayInit
  BY DEF Init
<1>2. TypeOK /\ [Next]_vars => [GatewayNext]_gatewayVars
  BY StepIsGateway
<1>3. TabsInv => TypeOK
  BY DEF TabsInv
<1>4. QED
  BY <1>1, <1>2, <1>3, TabsAlways, PTL DEF Spec, GatewaySpec

(* The room of a settled tab is that of its board (useProjectSocket's joins *)
(* and leaves), for any tabs, boards, sockets and faults.                   *)
THEOREM TabsAreWhereTheyShow == Spec => []PresenceInv
BY TabsAlways, SettledTabs, PTL

(* A settled tab shows nobody who is not in its room.                       *)
THEOREM NobodyIsShownInVain == Spec => []NoGhostViewers
BY TabsAlways, SettledTabs, PTL

(* It shows everybody there who never was there twice.                      *)
THEOREM EverybodyIsShown == Spec => []ViewersShown
BY TabsAlways, SettledTabs, PTL
=============================================================================
