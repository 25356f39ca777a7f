------------------------------- MODULE Sockets -------------------------------
(***************************************************************************)
(* WsGateway: the sockets connected to the gateway process.  A token is    *)
(* checked while the socket is already open, so the socket may be gone     *)
(* when the check ends.                                                    *)
(***************************************************************************)
EXTENDS Naturals, FiniteSets

CONSTANT Wires    \* connections ever made

VARIABLES
  wire,        \* [state, user] of each connection
  clients,     \* pairs of socket and user
  userSockets, \* the sockets of each user, none when the map has no entry
  rooms,       \* pairs of socket and chat
  heard        \* history: [since: how many messages and notifications there
               \* were when the socket was entered in the maps, got: those
               \* emitted to it as new]

socketVars == <<wire, clients, userSockets, rooms, heard>>

SocketsInit(Users, nobody) ==
  /\ wire = [s \in Wires |-> [state |-> "new", user |-> nobody]]
  /\ clients = {} /\ rooms = {}
  /\ userSockets = [u \in Users |-> {}]
  /\ heard = [s \in Wires |-> [since |-> [messages |-> 0, notes |-> 0], got |-> {}]]

\* left: gone while being checked; ghost: entered after it had gone.
States == {"new", "checking", "left", "open", "gone", "ghost"}

SocketsTypeOK(Users, Chats) ==
  /\ \A s \in Wires : wire[s].state \in States /\ (wire[s].state # "new" => wire[s].user \in Users)
  /\ \A u \in Users : userSockets[u] = {s \in Wires : <<s, u>> \in clients}
  /\ clients = {<<s, wire[s].user>> : s \in {r \in Wires : wire[r].state \in {"open", "ghost"}}}
  /\ rooms \subseteq Wires \X Chats

SetState(s, state) == wire' = [wire EXCEPT ![s].state = state]
Talks(s) == wire[s].state \in {"checking", "open"}

\* handleConnection, up to the await of authConnection.
Connect(s, u) ==
  /\ wire[s].state = "new"
  /\ wire' = [wire EXCEPT ![s] = [state |-> "checking", user |-> u]]
  /\ UNCHANGED <<clients, userSockets, rooms, heard>>

\* Mutant: a connection replaces the user's others.
AcceptAlone(s, there) ==
  /\ wire[s].state \in {"checking", "left"}
  /\ SetState(s, IF wire[s].state = "left" THEN "ghost" ELSE "open")
  /\ clients' = clients \cup {<<s, wire[s].user>>}
  /\ userSockets' = [userSockets EXCEPT ![wire[s].user] = {s}]
  /\ heard' = [heard EXCEPT ![s].since = there]
  /\ UNCHANGED rooms

\* The rest of handleConnection.  A socket that has left by now, whose
\* disconnection found nothing to clear, is entered for good.
Accept(s, there) ==
  /\ wire[s].state \in {"checking", "left"}
  /\ SetState(s, IF wire[s].state = "left" THEN "ghost" ELSE "open")
  /\ clients' = clients \cup {<<s, wire[s].user>>}
  /\ userSockets' = [userSockets EXCEPT ![wire[s].user] = @ \cup {s}]
  /\ heard' = [heard EXCEPT ![s].since = there]
  /\ UNCHANGED rooms

\* Mutant: the socket stays among those of its user.
clearHalf(s) ==
  /\ clients' = {p \in clients : p[1] # s}
  /\ UNCHANGED userSockets

clearClient(s) ==
  /\ clients' = {p \in clients : p[1] # s}
  /\ userSockets' = [u \in DOMAIN userSockets |->
       IF <<s, u>> \in clients THEN userSockets[u] \ {s} ELSE userSockets[u]]

\* forceDisconnect: its user is banned, or the check failed.
Refuse(s) ==
  /\ wire[s].state \in {"checking", "left"}
  /\ SetState(s, "gone")
  /\ clearClient(s)
  /\ rooms' = {r \in rooms : r[1] # s}
  /\ UNCHANGED heard

\* handleDisconnect; it leaves its rooms.
Disconnect(s) ==
  /\ Talks(s)
  /\ SetState(s, IF wire[s].state = "checking" THEN "left" ELSE "gone")
  /\ clearClient(s)
  /\ rooms' = {r \in rooms : r[1] # s}
  /\ UNCHANGED heard

\* The process stops: its maps are lost, its sockets closed.
SocketsStop ==
  /\ wire' = [s \in Wires |-> IF wire[s].state = "new" THEN wire[s]
                              ELSE [wire[s] EXCEPT !.state = "gone"]]
  /\ clients' = {} /\ rooms' = {}
  /\ userSockets' = [u \in DOMAIN userSockets |-> {}]
  /\ UNCHANGED heard

isJoined(s, chat) == <<s, chat>> \in rooms

joinRoom(s, chat) ==
  /\ rooms' = IF Talks(s) THEN rooms \cup {<<s, chat>>} ELSE rooms
  /\ UNCHANGED <<wire, clients, userSockets, heard>>

leaveRoom(s, chat) ==
  /\ rooms' = rooms \ {<<s, chat>>}
  /\ UNCHANGED <<wire, clients, userSockets, heard>>

InRoom(chat) == {s \in Wires : isJoined(s, chat)}

\* emitMessageByUserId, emitToRoom: the sockets that are there get m.
Emit(S, m) ==
  /\ heard' = [s \in Wires |-> IF s \in S /\ Talks(s) THEN [heard[s] EXCEPT !.got = @ \cup {m}]
                              ELSE heard[s]]
  /\ UNCHANGED <<wire, clients, userSockets, rooms>>
==============================================================================
