---------------------------- MODULE RoomSocket ----------------------------
(***************************************************************************)
(* The socket of a browser tab (WebSocketManager), the room of offer       *)
(* updates the offers page joins over it (useJoinRoom), and the rooms of   *)
(* the socket-service.  A socket that the manager closes may report its    *)
(* close much later, and the handler of that report belongs to the manager *)
(* and not to the socket.                                                  *)
(***************************************************************************)
EXTENDS Naturals, Sequences, FiniteSets

CONSTANTS
    MaxSockets,   \* the sockets of a run
    TabTurns      \* how often the tab of the page is switched

ASSUME SocketConstants == MaxSockets \in Nat \ {0} /\ TabTurns \in Nat

VARIABLES
    mgr,      \* WebSocketManager: its fields, and the connect() or timer under way
    sock,     \* the sockets, in the order of their creation
    posted,   \* the room messages on their way to the service, by socket
    rooms,    \* the service: the connections in the room of offer updates
    page      \* the tab of the page, useJoinRoom's joiningRef, the socket of its last join

socketVars == <<mgr, sock, posted, rooms, page>>

SocketIds == 1..MaxSockets
MaxReconnectAttempts == 5
NewManager == [ws |-> 0, connecting |-> FALSE, watch |-> FALSE, should |-> TRUE,
               attempts |-> 0, call |-> "token"]

\* AppProvider connects as soon as it finds a session.
SocketInit ==
    /\ mgr = NewManager
    /\ sock = [s \in SocketIds |-> "none"]
    /\ posted = [s \in SocketIds |-> <<>>]
    /\ rooms = {}
    /\ page = [tab |-> TRUE, joining |-> FALSE, on |-> 0, turns |-> TabTurns]

\* isConnected
IsConnected == mgr.ws # 0 /\ sock[mgr.ws] = "open"
Unused == {s \in SocketIds : sock[s] = "none"}
Lowest(S) == CHOOSE s \in S : \A t \in S : s <= t

----------------------------------------------------------------------------
(* WebSocketManager *)

\* connect() goes on with the token that the refresh has brought; nobody calls
\* it while the manager has a socket.
Connect ==
    /\ mgr.call = "token" /\ mgr.ws = 0 /\ ~mgr.connecting /\ Unused # {}
    /\ LET s == Lowest(Unused)
       IN /\ sock' = [sock EXCEPT ![s] = "connecting"]
          /\ mgr' = [mgr EXCEPT !.call = "none", !.connecting = TRUE, !.ws = s]
    /\ UNCHANGED <<posted, rooms, page>>

\* There is no token: nothing is connected, and nothing tries again.
NoToken ==
    /\ mgr.call = "token"
    /\ mgr' = [mgr EXCEPT !.call = "none"]
    /\ UNCHANGED <<sock, posted, rooms, page>>

\* A variant that goes on counting the attempts.
OpenedAfterRetry(s) ==
    /\ sock[s] = "connecting" /\ sock' = [sock EXCEPT ![s] = "open"]
    /\ mgr' = [mgr EXCEPT !.connecting = FALSE, !.should = TRUE, !.watch = TRUE]
    /\ UNCHANGED <<posted, rooms, page>>

\* onopen starts the heartbeat and the watch over its answers.
OnOpen(s) ==
    /\ sock[s] = "connecting" /\ sock' = [sock EXCEPT ![s] = "open"]
    /\ mgr' = [mgr EXCEPT !.connecting = FALSE, !.should = TRUE, !.attempts = 0, !.watch = TRUE]
    /\ UNCHANGED <<posted, rooms, page>>

\* A variant that keeps the manager's socket.
ClosedAndKept(s) ==
    /\ sock[s] \in {"connecting", "open", "closing"} /\ sock' = [sock EXCEPT ![s] = "closed"]
    /\ posted' = [posted EXCEPT ![s] = <<>>] /\ rooms' = rooms \ {s}
    /\ mgr' = [mgr EXCEPT !.connecting = FALSE, !.watch = FALSE]
    /\ UNCHANGED page

\* onclose, of whatever socket: the manager drops the one it has.
OnClose(s) ==
    /\ sock[s] \in {"connecting", "open", "closing"} /\ sock' = [sock EXCEPT ![s] = "closed"]
    /\ posted' = [posted EXCEPT ![s] = <<>>] /\ rooms' = rooms \ {s}
    /\ mgr' = [mgr EXCEPT !.connecting = FALSE, !.watch = FALSE, !.ws = 0]
    /\ UNCHANGED page

\* attemptReconnect
AttemptReconnect ==
    IF mgr.should /\ mgr.attempts < MaxReconnectAttempts
    THEN [mgr EXCEPT !.attempts = @ + 1, !.call = "timer", !.ws = 0, !.watch = FALSE, !.connecting = FALSE]
    ELSE [mgr EXCEPT !.ws = 0, !.watch = FALSE, !.connecting = FALSE]

\* A variant that forgets the old socket without closing it.
ReconnectBeside ==
    /\ mgr.watch /\ IsConnected
    /\ mgr' = AttemptReconnect
    /\ UNCHANGED <<sock, posted, rooms, page>>

\* No heartbeat_ack came before the deadline.
ForceReconnect ==
    /\ mgr.watch /\ IsConnected
    /\ sock' = [sock EXCEPT ![mgr.ws] = "closing"]
    /\ mgr' = AttemptReconnect
    /\ UNCHANGED <<posted, rooms, page>>

ReconnectTimer ==
    /\ mgr.call = "timer" /\ mgr' = [mgr EXCEPT !.call = "token"]
    /\ UNCHANGED <<sock, posted, rooms, page>>

----------------------------------------------------------------------------
(* useJoinRoom.  The service's acknowledgement is a string, which the manager *)
(* hands to the listeners of every event only: the page never learns it.      *)

\* sendRaw
SendRaw(queue, kind) == IF IsConnected THEN [queue EXCEPT ![mgr.ws] = Append(@, kind)] ELSE queue

\* doJoin, tried when the tab is opened and again every half second.
DoJoin ==
    /\ page.tab /\ ~page.joining /\ IsConnected
    /\ posted' = SendRaw(posted, "join_room")
    /\ page' = [page EXCEPT !.joining = TRUE, !.on = mgr.ws]
    /\ UNCHANGED <<mgr, sock, rooms>>

\* A variant that leaves no room behind it.
LeaveSilently ==
    /\ page.tab /\ page.turns > 0
    /\ page' = [page EXCEPT !.tab = FALSE, !.joining = FALSE, !.turns = @ - 1]
    /\ UNCHANGED <<mgr, sock, posted, rooms>>

\* Another tab: doLeave, which forgets the room whether it could be sent or not.
DoLeave ==
    /\ page.tab /\ page.turns > 0
    /\ posted' = IF page.joining THEN SendRaw(posted, "leave_room") ELSE posted
    /\ page' = [page EXCEPT !.tab = FALSE, !.joining = FALSE, !.turns = @ - 1]
    /\ UNCHANGED <<mgr, sock, rooms>>

OpenOffersTab ==
    /\ ~page.tab /\ page.turns > 0
    /\ page' = [page EXCEPT !.tab = TRUE, !.turns = @ - 1]
    /\ UNCHANGED <<mgr, sock, posted, rooms>>

\* The service reads a room message of a connection.
HandleWS(s) ==
    /\ posted[s] # <<>> /\ sock[s] \in {"open", "closing"}
    /\ posted' = [posted EXCEPT ![s] = Tail(@)]
    /\ rooms' = IF Head(posted[s]) = "join_room" THEN rooms \cup {s} ELSE rooms \ {s}
    /\ UNCHANGED <<mgr, sock, page>>

SocketNext ==
    \/ Connect \/ NoToken \/ ForceReconnect \/ ReconnectTimer
    \/ DoJoin \/ DoLeave \/ OpenOffersTab
    \/ \E s \in SocketIds : OnOpen(s) \/ OnClose(s) \/ HandleWS(s)

SocketSpec == SocketInit /\ [][SocketNext]_socketVars

----------------------------------------------------------------------------

\* Types of the state.  The count of attempts does not get past one: only a
\* connection that was open is replaced, and opening one resets it.
SocketTypeOK ==
    /\ mgr \in [ws : 0..MaxSockets, connecting : BOOLEAN, watch : BOOLEAN, should : BOOLEAN,
                attempts : 0..1, call : {"none", "token", "timer"}]
    /\ sock \in [SocketIds -> {"none", "connecting", "open", "closing", "closed"}]
    /\ posted \in [SocketIds -> Seq({"join_room", "leave_room"})]
    /\ rooms \subseteq SocketIds
    /\ page \in [tab : BOOLEAN, joining : BOOLEAN, on : 0..MaxSockets, turns : 0..TabTurns]

\* A tab has one connection that delivers, so that no event is handled twice,
\* also when the close of an old socket is reported late.
OneLine == Cardinality({s \in SocketIds : sock[s] \in {"connecting", "open"}}) <= 1

\* A connection that the manager counts on is watched: a late close of an older
\* socket stops the watch, but takes the socket with it.
WatchedWhileManaged == IsConnected => mgr.watch

\* As long as the connection is the one the page joined over, it is in the room
\* exactly while the offers are shown, however fast the tab is switched; a
\* connection the manager has is never in a room that the page has left.
RoomFollowsTheTab ==
    \A s \in SocketIds : sock[s] = "open" /\ posted[s] = <<>> =>
        /\ page.tab /\ page.joining /\ page.on = s => s \in rooms
        /\ ~page.tab /\ mgr.ws = s => s \notin rooms

\* The manager has the socket in hand: one line, watched, in the room of the tab,
\* though closes are late and reconnections cross a change of the tab.
SocketIsManaged == OneLine /\ WatchedWhileManaged /\ RoomFollowsTheTab
=============================================================================
