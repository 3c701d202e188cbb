---------------------------- MODULE BoardPresence ----------------------------
(***************************************************************************)
(* Browser tabs on the boards of projects, joined to the gateway: the hook *)
(* useProjectSocket (one mounted board per tab), the socket singleton of   *)
(* useSocket with its automatic reconnect, and IssuesGateway on the other  *)
(* end.  Commands and messages travel in FIFO order on each connection,    *)
(* both ways with any delay; a connection may be lost, and the server      *)
(* learns of it later (ping timeout).  Board events and notifications do   *)
(* not touch presence and are left to IssuesGateway.                       *)
(***************************************************************************)
EXTENDS IssuesGateway, Naturals

CONSTANTS
  Tabs,
  TabUser,      \* [Tabs -> Users], who is signed in
  NoSocket,     \* the tab's singleton is not connected
  NoProject,    \* no board is mounted in the tab
  MaxMoves,     \* bound: mounts and unmounts of a board, all tabs together
  MaxFaults,    \* bound: lost connections, rejected joins, restarts
  MaxInFlight   \* bound: a tab acts only while this few commands are queued

VARIABLES
  mounted,      \* tab -> project of the mounted board
  sock,         \* tab -> its connected socket
  halted,       \* tabs whose socket the server closed: no automatic reconnect
  toServer,     \* tab -> commands emitted and not yet handled
  shown,        \* tab -> `viewers`, the users the board shows
  doubled,      \* history: users who had two sockets in one room
  moves, faults \* counters of the bounds

tabVars == <<mounted, sock, halted, toServer, shown>>
counters == <<moves, faults>>
vars == <<gatewayVars, tabVars, doubled, counters>>

ASSUME PresenceAssumption ==
  /\ TabUser \in [Tabs -> Users]
  /\ NoSocket \notin Sockets /\ NoProject \notin Projects
  /\ MaxMoves \in Nat /\ MaxFaults \in Nat

JoinCmd(p) == [cmd |-> "join:project", project |-> p]
LeaveCmd   == [cmd |-> "leave:project"]

Init ==
  /\ GatewayInit
  /\ mounted = [t \in Tabs |-> NoProject]
  /\ sock = [t \in Tabs |-> NoSocket]
  /\ halted = {}
  /\ toServer = [t \in Tabs |-> <<>>]
  /\ shown = [t \in Tabs |-> {}]
  /\ doubled = {}
  /\ moves = 0 /\ faults = 0

Connected(t) == sock[t] # NoSocket

\* Sockets of connections the browser has given up and the server still holds.
Orphans == {s \in conn : \A t \in Tabs : sock[t] # s}

\* Users who, as of this step, have two sockets in one room.
NoteDoubled ==
  doubled' = doubled \cup
    {u \in Users : \E r \in Rooms, x \in Sockets, y \in Sockets :
       x # y /\ viewersMap'[r][x] = u /\ viewersMap'[r][y] = u}

-----------------------------------------------------------------------------
(* The tab.                                                                *)

\* socket.io connects, also after a loss.  The `connect` event does not run the
\* effect of useProjectSocket again.  Socket ids are opaque: any free one will
\* do.  Whether the handshake token still verifies decides only on the personal
\* room, which nothing here reads: IssuesGateway explores both cases.
Connect(t) ==
  /\ ~Connected(t) /\ t \notin halted
  /\ Sockets \ conn # {}
  /\ LET s == CHOOSE s \in Sockets \ conn : TRUE
     IN /\ HandleConnection(s, TabUser[t], TRUE)
        /\ sock' = [sock EXCEPT ![t] = s]
  /\ UNCHANGED <<mounted, halted, toServer, shown, doubled, counters>>

\* The board of project p mounts or replaces another: the cleanup of the old
\* effect emits leave:project, the new one join:project.  While there is no
\* connection they wait (in the hook for the socket, or in its send buffer).
MountBoard(t, p) ==
  /\ mounted[t] # p
  /\ moves < MaxMoves /\ Len(toServer[t]) < MaxInFlight
  /\ mounted' = [mounted EXCEPT ![t] = p]
  /\ toServer' = [toServer EXCEPT ![t] =
       IF mounted[t] = NoProject
       THEN Append(@, JoinCmd(p)) ELSE @ \o <<LeaveCmd, JoinCmd(p)>>]
  /\ shown' = [shown EXCEPT ![t] = {}]
  /\ moves' = moves + 1
  /\ UNCHANGED <<gatewayVars, sock, halted, doubled, faults>>

\* Mutant of UnmountBoard: the effect returns no leave:project.
UnmountSilently(t) ==
  /\ mounted[t] # NoProject
  /\ moves < MaxMoves
  /\ mounted' = [mounted EXCEPT ![t] = NoProject]
  /\ shown' = [shown EXCEPT ![t] = {}]
  /\ moves' = moves + 1
  /\ UNCHANGED <<gatewayVars, sock, halted, toServer, doubled, faults>>

\* The board unmounts: leave:project, handlers off, setViewers([]).
UnmountBoard(t) ==
  /\ mounted[t] # NoProject
  /\ moves < MaxMoves /\ Len(toServer[t]) < MaxInFlight
  /\ mounted' = [mounted EXCEPT ![t] = NoProject]
  /\ toServer' = [toServer EXCEPT ![t] = Append(@, LeaveCmd)]
  /\ shown' = [shown EXCEPT ![t] = {}]
  /\ moves' = moves + 1
  /\ UNCHANGED <<gatewayVars, sock, halted, doubled, faults>>

\* Sign-out: the token is cleared, the singleton is disconnected and dropped,
\* and the board page goes away.
SignOut(t) ==
  /\ Connected(t) \/ t \in halted \/ mounted[t] # NoProject
  /\ moves < MaxMoves
  /\ sock' = [sock EXCEPT ![t] = NoSocket]
  /\ halted' = halted \ {t}
  /\ mounted' = [mounted EXCEPT ![t] = NoProject]
  /\ toServer' = [toServer EXCEPT ![t] = <<>>]
  /\ shown' = [shown EXCEPT ![t] = {}]
  /\ moves' = moves + 1
  /\ UNCHANGED <<gatewayVars, doubled, faults>>

\* The connection is lost with what is in flight in both directions.
LoseConnection(t) ==
  /\ Connected(t) /\ faults < MaxFaults
  /\ sock' = [sock EXCEPT ![t] = NoSocket]
  /\ toServer' = [toServer EXCEPT ![t] = <<>>]
  /\ faults' = faults + 1
  /\ UNCHANGED <<gatewayVars, mounted, halted, shown, doubled, moves>>

\* Mutant of ShownAfter: the initial list is merged into what is shown.
ShownMerged(t, msg) ==
  CASE msg.type = "viewers:initial" -> shown[t] \cup (msg.users \ {TabUser[t]})
    [] msg.type = "user:viewing"    -> shown[t] \cup ({msg.user} \ {TabUser[t]})
    [] msg.type = "user:left"       -> shown[t] \ {msg.user}
    [] OTHER                        -> shown[t]

\* Mutant of ShownAfter: no handler for user:left.
ShownForever(t, msg) ==
  CASE msg.type = "viewers:initial" -> msg.users \ {TabUser[t]}
    [] msg.type = "user:viewing"    -> shown[t] \cup ({msg.user} \ {TabUser[t]})
    [] OTHER                        -> shown[t]

\* The handlers onViewersInitial, onViewing and onLeft.
ShownAfter(t, msg) ==
  CASE msg.type = "viewers:initial" -> msg.users \ {TabUser[t]}
    [] msg.type = "user:viewing"    -> shown[t] \cup ({msg.user} \ {TabUser[t]})
    [] msg.type = "user:left"       -> shown[t] \ {msg.user}
    [] OTHER                        -> shown[t]

\* One message arrives.  Without a mounted board no handler is registered; the
\* handlers of the mounted board take every message for their own.
Receive(t) ==
  /\ Connected(t)
  /\ Deliver(sock[t])
  /\ shown' = IF mounted[t] = NoProject THEN shown
              ELSE [shown EXCEPT ![t] = ShownAfter(t, Head(outbox[sock[t]]))]
  /\ UNCHANGED <<mounted, sock, halted, toServer, doubled, counters>>

-----------------------------------------------------------------------------
(* The server, driven by what the tabs sent.                               *)

Take(t, cmd) ==
  /\ Connected(t)
  /\ toServer[t] # <<>>
  /\ Head(toServer[t]).cmd = cmd
  /\ toServer' = [toServer EXCEPT ![t] = Tail(@)]

ServeJoin(t) ==
  /\ Take(t, "join:project")
  /\ HandleJoinProject(sock[t], TabUser[t], Head(toServer[t]).project)
  /\ NoteDoubled
  /\ UNCHANGED <<mounted, sock, halted, shown, counters>>

\* The token had expired.  The server closes the connection, and socket.io does
\* not reconnect after a close by the server.
ServeJoinRejected(t) ==
  /\ faults < MaxFaults
  /\ Take(t, "join:project")
  /\ HandleJoinRejected(sock[t])
  /\ sock' = [sock EXCEPT ![t] = NoSocket]
  /\ halted' = halted \cup {t}
  /\ faults' = faults + 1
  /\ UNCHANGED <<mounted, shown, doubled, moves>>

ServeLeave(t) ==
  /\ Take(t, "leave:project")
  /\ \/ HandleLeaveProject(sock[t])
     \/ ~Joined(sock[t]) /\ UNCHANGED gatewayVars
  /\ UNCHANGED <<mounted, sock, halted, shown, doubled, counters>>

\* The server notices that a connection is gone.
DetectLoss(s) ==
  /\ s \in Orphans
  /\ HandleDisconnect(s)
  /\ UNCHANGED <<tabVars, doubled, counters>>

Restart ==
  /\ faults < MaxFaults
  /\ GatewayRestart
  /\ sock' = [t \in Tabs |-> NoSocket]
  /\ toServer' = [t \in Tabs |-> IF Connected(t) THEN <<>> ELSE toServer[t]]
  /\ faults' = faults + 1
  /\ UNCHANGED <<mounted, halted, shown, doubled, moves>>

TabStep(t) ==
  \/ Connect(t)
  \/ \E p \in Projects : MountBoard(t, p)
  \/ UnmountBoard(t)
  \/ SignOut(t)
  \/ LoseConnection(t)

ServerStep(t) == ServeJoin(t) \/ ServeJoinRejected(t) \/ ServeLeave(t)

Next ==
  \/ \E t \in Tabs : TabStep(t) \/ ServerStep(t) \/ Receive(t)
  \/ \E s \in Sockets : DetectLoss(s)
  \/ Restart

\* What keeps running by itself: the network delivers, the server handles what
\* arrived and its ping timeout finds lost connections.  Nothing obliges a user
\* to open or leave a board, or a connection to come up.
Fairness ==
  /\ \A t \in Tabs : WF_vars(Receive(t)) /\ WF_vars(ServeJoin(t) \/ ServeLeave(t))
  /\ \A s \in Sockets : WF_vars(DetectLoss(s))

Spec == Init /\ [][Next]_vars /\ Fairness

-----------------------------------------------------------------------------
(* Properties.                                                             *)

TypeOK ==
  /\ GatewayTypeOK
  /\ mounted \in [Tabs -> Projects \cup {NoProject}]
  /\ sock \in [Tabs -> Sockets \cup {NoSocket}]
  /\ halted \in SUBSET Tabs
  /\ toServer \in [Tabs -> Seq({LeaveCmd} \cup {JoinCmd(p) : p \in Projects})]
  /\ shown \in [Tabs -> SUBSET Users]
  /\ doubled \in SUBSET Users
  /\ moves \in 0..MaxMoves /\ faults \in 0..MaxFaults

\* Nothing is under way between tab t and the server.
Quiet(t) == Connected(t) /\ toServer[t] = <<>> /\ outbox[sock[t]] = <<>>

\* Tab t is quiet and joined: what it shows is all it will learn by itself.
Settled(t) == Quiet(t) /\ Joined(sock[t])

OthersViewing(t) == ViewersIn(socketMeta[sock[t]].room) \ {TabUser[t]}

\* A quiet tab is joined to no other room than that of the board it shows: the
\* leave and join commands of quick navigation, with a loss, a buffered emit or
\* a restart anywhere between them, never leave it in the room of a board that
\* is closed.
NoStrayRoom ==
  \A t \in Tabs : Settled(t) => socketMeta[sock[t]].projectId = mounted[t]

\* The variables have their types, and NoStrayRoom: the room of a settled tab is its board's.
PresenceInv == TypeOK /\ NoStrayRoom

\* A settled tab shows nobody who is not in its room: presence messages of an
\* earlier board that arrive after the next one mounted do not survive.
NoGhostViewers ==
  \A t \in Tabs : Settled(t) => shown[t] \subseteq OthersViewing(t)

\* A settled tab shows every user of its room who never had two sockets in one
\* room, whatever was lost, rejected or delayed.
ViewersShown ==
  \A t \in Tabs : Settled(t) => OthersViewing(t) \ doubled \subseteq shown[t]

\* Once navigation and faults stop, users whose tabs are all gone from a board
\* disappear from the boards of the others, lost connections included.
DepartedDisappear ==
  <>[](\A t \in Tabs : Settled(t) =>
         \A u \in shown[t] : \E t2 \in Tabs :
           TabUser[t2] = u /\ Connected(t2) /\ mounted[t2] = mounted[t])
=============================================================================
