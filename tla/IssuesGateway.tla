---------------------------- MODULE IssuesGateway ----------------------------
(***************************************************************************)
(* The Socket.IO gateway of the API                                        *)
(* (apps/api/src/modules/issues/issues.gateway.ts): the three maps it      *)
(* keeps in memory, the socket.io rooms it joins sockets to, and the       *)
(* messages it emits.  Node runs one handler at a time, so every handler   *)
(* is one action.  What is on its way to a socket is a FIFO queue, as on   *)
(* one WebSocket connection.                                               *)
(*                                                                         *)
(* This module is open: any connected socket may send any command in any   *)
(* order.  BoardPresence closes it with the browser tabs.                  *)
(***************************************************************************)
EXTENDS Sequences

CONSTANTS
  Sockets,      \* socket ids
  Users,
  Tenants,
  Projects,
  UserTenant,   \* [Users -> Tenants], the tenantId claim of a user's token
  NoUser,       \* "no entry for this socket" in a room of viewersMap
  NoMeta        \* "no entry for this socket" in socketMeta

VARIABLES
  conn,         \* sockets the server holds open
  roomMembers,  \* socket.io: project room -> sockets in it
  userRooms,    \* socket.io: user -> sockets in the room user:<id>:tenant:<t>
  viewersMap,   \* room -> socket -> user shown as a viewer
  projectRooms, \* project -> rooms a broadcast for it goes to
  socketMeta,   \* socket -> the room it joined, as whom, for which project
  outbox        \* socket -> messages emitted to it and not yet delivered

roomVars == <<roomMembers, viewersMap, projectRooms, socketMeta>>
gatewayVars == <<conn, userRooms, roomVars, outbox>>

\* The room name `project:P:tenant:T`.
Room(p, u) == <<p, UserTenant[u]>>
Rooms == Projects \X Tenants

Meta == [room : Rooms, userId : Users, projectId : Projects]

\* Mutant of UserLeft: the payload object where the id is meant.
UserLeftWhole(u) == [type |-> "user:left", user |-> [userId |-> u]]

ViewersInitial(us) == [type |-> "viewers:initial", users |-> us]
UserViewing(u)     == [type |-> "user:viewing", user |-> u]
UserLeft(u)        == [type |-> "user:left", user |-> u]
BoardEvent(p)      == [type |-> "board", project |-> p]
Notification       == [type |-> "notification:new"]

Message ==
  [type : {"viewers:initial"}, users : SUBSET Users]
    \cup [type : {"user:viewing", "user:left"}, user : Users]
    \cup [type : {"board"}, project : Projects]
    \cup [type : {"notification:new"}]

ASSUME ConstantsAssumption ==
  /\ UserTenant \in [Users -> Tenants]
  /\ NoUser \notin Users
  /\ NoMeta \notin Meta

GatewayTypeOK ==
  /\ conn \in SUBSET Sockets
  /\ roomMembers \in [Rooms -> SUBSET Sockets]
  /\ userRooms \in [Users -> SUBSET Sockets]
  /\ viewersMap \in [Rooms -> [Sockets -> Users \cup {NoUser}]]
  /\ projectRooms \in [Projects -> SUBSET Rooms]
  /\ socketMeta \in [Sockets -> Meta \cup {NoMeta}]
  /\ outbox \in [Sockets -> Seq(Message)]

GatewayInit ==
  /\ conn = {}
  /\ roomMembers = [r \in Rooms |-> {}]
  /\ userRooms = [u \in Users |-> {}]
  /\ viewersMap = [r \in Rooms |-> [s \in Sockets |-> NoUser]]
  /\ projectRooms = [p \in Projects |-> {}]
  /\ socketMeta = [s \in Sockets |-> NoMeta]
  /\ outbox = [s \in Sockets |-> <<>>]

-----------------------------------------------------------------------------
(* What the handlers share.                                                *)

Joined(s) == socketMeta[s] # NoMeta

ViewersIn(r) == {viewersMap[r][s] : s \in Sockets} \ {NoUser}

\* Mutant of OthersIn: client.emit where client.to(room).emit is meant.
SenderOnly(r, s) == {s}

\* Whom client.to(r) of socket s addresses.
OthersIn(r, s) == roomMembers[r] \ {s}

\* emit: append msg for every socket of `to`.
Emit(to, msg) ==
  [s \in Sockets |-> IF s \in to THEN Append(outbox[s], msg) ELSE outbox[s]]

\* Mutants: a clean-up that is forgotten.
MembersKept(s) == roomMembers
ProjectRoomsKept(s) == projectRooms

\* The maps once socket s, which has joined, is taken out of its room.  The
\* three places that do so (disconnect, auto-leave, leave) also drop the room
\* from projectRooms, whoever else is still in it.
ViewersWithout(s) == [viewersMap EXCEPT ![socketMeta[s].room][s] = NoUser]

MembersWithout(s) == [roomMembers EXCEPT ![socketMeta[s].room] = @ \ {s}]

ProjectRoomsWithout(s) ==
  [projectRooms EXCEPT ![socketMeta[s].projectId] = @ \ {socketMeta[s].room}]

-----------------------------------------------------------------------------
(* Handlers.                                                               *)

\* handleConnection: an invalid token leaves the socket open, with no room.
HandleConnection(s, u, tokenValid) ==
  /\ s \notin conn
  /\ conn' = conn \cup {s}
  /\ userRooms' = IF tokenValid
                  THEN [userRooms EXCEPT ![u] = @ \cup {s}]
                  ELSE userRooms
  /\ UNCHANGED <<roomVars, outbox>>

\* socket.io takes the socket out of its rooms and then calls
\* handleDisconnect, so USER_LEFT goes to the others of the room.
HandleDisconnect(s) ==
  /\ s \in conn
  /\ conn' = conn \ {s}
  /\ userRooms' = [u \in Users |-> userRooms[u] \ {s}]
  /\ IF Joined(s)
     THEN /\ viewersMap' = ViewersWithout(s)
          /\ roomMembers' = MembersWithout(s)
          /\ projectRooms' = ProjectRoomsWithout(s)
          /\ socketMeta' = [socketMeta EXCEPT ![s] = NoMeta]
          /\ outbox' = [Emit(OthersIn(socketMeta[s].room, s),
                             UserLeft(socketMeta[s].userId)) EXCEPT ![s] = <<>>]
     ELSE /\ outbox' = [outbox EXCEPT ![s] = <<>>]
          /\ UNCHANGED roomVars

\* join:project with a valid token of user u.
HandleJoinProject(s, u, p) ==
  LET room     == Room(p, u)
      old      == socketMeta[s]
      leaving  == Joined(s) /\ old.room # room
      left     == IF leaving THEN OthersIn(old.room, s) ELSE {}
      existing == ViewersIn(room) \ {u}
      viewers  == IF leaving THEN ViewersWithout(s) ELSE viewersMap
      members  == IF leaving THEN MembersWithout(s) ELSE roomMembers
      rooms    == IF leaving THEN ProjectRoomsWithout(s) ELSE projectRooms
      told     == Emit(left, UserLeft(old.userId))
  IN
  /\ s \in conn
  /\ viewersMap' = [viewers EXCEPT ![room][s] = u]
  /\ roomMembers' = [members EXCEPT ![room] = @ \cup {s}]
  /\ projectRooms' = [rooms EXCEPT ![p] = @ \cup {room}]
  /\ socketMeta' =
       [socketMeta EXCEPT ![s] = [room |-> room, userId |-> u, projectId |-> p]]
  /\ userRooms' = [userRooms EXCEPT ![u] = @ \cup {s}]
  /\ outbox' = [x \in Sockets |->
       IF x = s THEN Append(outbox[s], ViewersInitial(existing))
       ELSE IF x \in OthersIn(room, s) THEN Append(told[x], UserViewing(u))
       ELSE told[x]]
  /\ UNCHANGED conn

\* join:project with a token that fails to verify: client.disconnect().
HandleJoinRejected(s) == HandleDisconnect(s)

\* leave:project; without a socketMeta entry the handler returns at once.
HandleLeaveProject(s) ==
  /\ s \in conn
  /\ Joined(s)
  /\ viewersMap' = ViewersWithout(s)
  /\ roomMembers' = MembersWithout(s)
  /\ projectRooms' = ProjectRoomsWithout(s)
  /\ socketMeta' = [socketMeta EXCEPT ![s] = NoMeta]
  /\ outbox' = Emit(OthersIn(socketMeta[s].room, s),
                    UserLeft(socketMeta[s].userId))
  /\ UNCHANGED <<conn, userRooms>>

\* findProjectRooms, and the sockets in those rooms.  A socket is in one
\* project room (RoomBookkeeping), so each gets one copy of a broadcast.
FindProjectRooms(p) == projectRooms[p]

Audience(p) == UNION {roomMembers[r] : r \in FindProjectRooms(p)}

\* The eight @OnEvent listeners for issues and columns: emit to every room
\* registered for the project.
HandleBoardEvent(p) ==
  /\ outbox' = Emit(Audience(p), BoardEvent(p))
  /\ UNCHANGED <<conn, userRooms, roomVars>>

\* emitToUser, called by the notifications service.
EmitToUser(u) ==
  /\ outbox' = Emit(userRooms[u], Notification)
  /\ UNCHANGED <<conn, userRooms, roomVars>>

\* The network hands the oldest message to the browser.
Deliver(s) ==
  /\ outbox[s] # <<>>
  /\ outbox' = [outbox EXCEPT ![s] = Tail(@)]
  /\ UNCHANGED <<conn, userRooms, roomVars>>

\* The API process stops: the maps are in memory only.
GatewayRestart ==
  /\ conn' = {}
  /\ roomMembers' = [r \in Rooms |-> {}]
  /\ userRooms' = [u \in Users |-> {}]
  /\ viewersMap' = [r \in Rooms |-> [s \in Sockets |-> NoUser]]
  /\ projectRooms' = [p \in Projects |-> {}]
  /\ socketMeta' = [s \in Sockets |-> NoMeta]
  /\ outbox' = [s \in Sockets |-> <<>>]

GatewayNext ==
  \/ \E s \in Sockets, u \in Users, ok \in BOOLEAN : HandleConnection(s, u, ok)
  \/ \E s \in Sockets : HandleDisconnect(s) \/ HandleJoinRejected(s)
  \/ \E s \in Sockets, u \in Users, p \in Projects : HandleJoinProject(s, u, p)
  \/ \E s \in Sockets : HandleLeaveProject(s)
  \/ \E p \in Projects : HandleBoardEvent(p)
  \/ \E u \in Users : EmitToUser(u)
  \/ \E s \in Sockets : Deliver(s)
  \/ GatewayRestart

GatewaySpec == GatewayInit /\ [][GatewayNext]_gatewayVars

-----------------------------------------------------------------------------
(* Properties.                                                             *)

\* The four records of "socket s is viewing room r" agree after every order of
\* joins, re-joins, leaves and disconnects: the viewer list of the room, the
\* cleanup record of the socket, the socket.io room and the open connection.
\* A handler that cleans up one of them and not the others leaves a ghost
\* viewer, or a socket that hears two boards.
RoomBookkeeping ==
  \A s \in Sockets :
    /\ \A r \in Rooms :
         /\ viewersMap[r][s] # NoUser <=> Joined(s) /\ socketMeta[s].room = r
         /\ s \in roomMembers[r] <=> Joined(s) /\ socketMeta[s].room = r
    /\ Joined(s) =>
         /\ s \in conn
         /\ socketMeta[s].room = Room(socketMeta[s].projectId, socketMeta[s].userId)
         /\ viewersMap[socketMeta[s].room][s] = socketMeta[s].userId
         /\ s \in userRooms[socketMeta[s].userId]

\* projectRooms never grows stale: a room registered for a project's broadcasts
\* is a room of that project and somebody is in it.
RegisteredRoomsInUse ==
  \A p \in Projects : \A r \in projectRooms[p] :
    r[1] = p /\ roomMembers[r] # {}

\* What the comment on projectRooms promises ("for reliable broadcast"): the
\* room of every viewer is registered for its project, so that a broadcast
\* reaches all of them.
BroadcastReachesViewers ==
  \A s \in Sockets : Joined(s) => s \in Audience(socketMeta[s].projectId)
=============================================================================
