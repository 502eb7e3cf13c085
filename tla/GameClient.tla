----------------------------- MODULE GameClient -----------------------------
(***************************************************************************)
(* A live match seen from outside: the sockets of GameGateway on one       *)
(* instance, the handlers of game:join and of a lost socket, the broadcast *)
(* of new states, and the pages that show them (connectToGame of           *)
(* game.store.ts).                                                         *)
(*                                                                         *)
(* A view is the number of the room's saved state: 0 before the clock      *)
(* runs, Final when the game is over and its room removed.  GameRoom models *)
(* what happens between two of them.  A client is one connectToGame.  A    *)
(* socket delivers in order and a page answers no view by itself, so a     *)
(* message is received with its sending; a broken socket loses what comes. *)
(***************************************************************************)
EXTENDS Naturals, Sequences, FiniteSets

CONSTANTS
  Clients,   \* pages that open the match
  Owner,     \* per client, its user
  Seated,    \* the users who have a seat
  Final,      \* the number of the final state
  NoView,    \* not a view
  MaxDrops   \* how many connections break, fail or are closed

(* What the proofs ask of the constants: among others, that a game does not
   end with the start of its clock. *)
ConstantsOK ==
  Final \in Nat /\ Final > 1 /\ NoView \notin 0..Final /\ MaxDrops \in Nat

VARIABLES
  version,   \* the newest saved state
  unsent,    \* it has been saved and not broadcast yet: its section goes on
  online,    \* game:online: the users marked online
  sock,      \* per client: off, connecting, on, down
  room,      \* the clients whose present socket is in the match room
  join,      \* per client, the handler of its game:join: [at, view]
  bye,       \* per client, handleDisconnect of a socket it lost: none, srem, emit
  page,      \* per client: [status, view, online] of the store
  drops,
  cut,       \* history: clients whose socket broke or closed
  overtaken  \* history: clients to whom an older view was sent after a newer one

vars == <<version, unsent, online, sock, room, join, bye, page, drops, cut, overtaken>>
server == <<version, unsent, online>>

NoJoin == [at |-> "none", view |-> NoView]
Idle == [status |-> "idle", view |-> NoView, online |-> {}]

Init ==
  /\ version = 0
  /\ unsent = FALSE
  /\ online = {}
  /\ sock = [c \in Clients |-> "off"]
  /\ room = {}
  /\ join = [c \in Clients |-> NoJoin]
  /\ bye = [c \in Clients |-> "none"]
  /\ page = [c \in Clients |-> Idle]
  /\ drops = 0
  /\ cut = {}
  /\ overtaken = {}

(***************************************************************************)
(* Messages                                                                *)
(***************************************************************************)

(* game:state, and an acknowledgement that is ok; one that is not. *)
Shows(c, v) == [page EXCEPT ![c].view = v, ![c].status = "playing"]
Fails(c) == [page EXCEPT ![c].status = "error"]

(* Events to the room. *)
Broadcast(v) == page' = [c \in Clients |-> IF c \in room THEN Shows(c, v)[c] ELSE page[c]]
TellPresence == page' = [c \in Clients |-> IF c \in room THEN [page[c] EXCEPT !.online = online] ELSE page[c]]

(***************************************************************************)
(* The page                                                                *)
(***************************************************************************)

(* connectToGame: a socket is made, game:join waits for it. *)
ConnectToGame(c) ==
  /\ page[c].status = "idle" /\ sock[c] = "off" /\ c \notin cut
  /\ page' = [page EXCEPT ![c].status = "connecting"]
  /\ sock' = [sock EXCEPT ![c] = "connecting"]
  /\ UNCHANGED <<server, room, join, bye, drops, cut, overtaken>>

(* The socket opens and sends the join that waits. *)
Open(c) ==
  /\ sock[c] = "connecting"
  /\ sock' = [sock EXCEPT ![c] = "on"]
  /\ join' = [join EXCEPT ![c].at = "room"]
  /\ UNCHANGED <<server, room, bye, page, drops, cut, overtaken>>

(* connect_error: an attempt fails; socket.io tries again. *)
ConnectError(c) ==
  /\ sock[c] \in {"connecting", "down"}
  /\ drops < MaxDrops
  /\ drops' = drops + 1
  /\ page' = [page EXCEPT ![c].status = "error"]
  /\ UNCHANGED <<server, sock, room, join, bye, cut, overtaken>>

(* The server side of a socket that is gone. *)
Gone(c) ==
  /\ room' = room \ {c}
  /\ bye' = [bye EXCEPT ![c] = IF c \in room THEN "srem" ELSE @]
  /\ cut' = cut \union {c}

(* The connection breaks. *)
Drop(c) ==
  /\ sock[c] = "on"
  /\ drops < MaxDrops
  /\ drops' = drops + 1
  /\ sock' = [sock EXCEPT ![c] = "down"]
  /\ Gone(c)
  /\ UNCHANGED <<server, join, page, overtaken>>

(* socket.io connects again.  Nothing joins the room a second time. *)
Reconnect(c) ==
  /\ sock[c] = "down" /\ bye[c] = "none"
  /\ sock' = [sock EXCEPT ![c] = "on"]
  /\ UNCHANGED <<server, room, join, bye, page, drops, cut, overtaken>>

(* leave: the socket is closed. *)
Leave(c) ==
  /\ page[c].status \in {"playing", "error"}
  /\ drops < MaxDrops
  /\ drops' = drops + 1
  /\ page' = [page EXCEPT ![c] = Idle]
  /\ sock' = [sock EXCEPT ![c] = "off"]
  /\ Gone(c)
  /\ UNCHANGED <<server, join, overtaken>>

(***************************************************************************)
(* onJoin                                                                  *)
(***************************************************************************)

GoTo(c, at) == join' = [join EXCEPT ![c].at = at]

(* Mutant of EnterRoom: the socket is not put in the room. *)
EnterRoom_Outside(c) ==
  /\ join[c].at = "room"
  /\ GoTo(c, IF version = Final THEN "ack" ELSE IF Owner[c] \in Seated THEN "clock" ELSE "read")
  /\ UNCHANGED <<server, sock, room, bye, page, drops, cut, overtaken>>

(* client.join, the match is noted on the socket, and getView tells the seat. *)
EnterRoom(c) ==
  /\ join[c].at = "room"
  /\ room' = IF c \in cut THEN room ELSE room \union {c}
  /\ GoTo(c, IF version = Final THEN "ack" ELSE IF Owner[c] \in Seated THEN "clock" ELSE "read")
  /\ UNCHANGED <<server, sock, bye, page, drops, cut, overtaken>>

(* startClock: the first one saves and broadcasts. *)
StartClock(c) ==
  /\ join[c].at = "clock"
  /\ ~unsent
  /\ IF version = 0 THEN version' = 1 /\ unsent' = TRUE ELSE UNCHANGED <<version, unsent>>
  /\ GoTo(c, "mark")
  /\ UNCHANGED <<online, sock, room, bye, page, drops, cut, overtaken>>

(* markOnline: SADD ... *)
MarkOnline(c) ==
  /\ join[c].at = "mark"
  /\ ~(version = 1 /\ unsent)
  /\ online' = online \union {Owner[c]}
  /\ GoTo(c, "members")
  /\ UNCHANGED <<version, unsent, sock, room, bye, page, drops, cut, overtaken>>

(* Mutant of EmitPresence: only the player who joins is told. *)
EmitPresence_OnlySelf(c) ==
  /\ join[c].at = "members"
  /\ page' = [page EXCEPT ![c].online = IF c \in room THEN online ELSE @]
  /\ GoTo(c, "read")
  /\ UNCHANGED <<server, sock, room, bye, drops, cut, overtaken>>

(* ... SMEMBERS, and game:presence to the room. *)
EmitPresence(c) ==
  /\ join[c].at = "members"
  /\ TellPresence
  /\ GoTo(c, "read")
  /\ UNCHANGED <<server, sock, room, bye, drops, cut, overtaken>>

(* getView, for the answer; there is none when the room has been removed. *)
ReadView(c) ==
  /\ join[c].at = "read"
  /\ join' = [join EXCEPT ![c] = [at |-> "ack", view |-> IF version = Final THEN NoView ELSE version]]
  /\ UNCHANGED <<server, sock, room, bye, page, drops, cut, overtaken>>

(* The answer; one to a socket that is gone is lost. *)
Answer(c) ==
  /\ join[c].at = "ack"
  /\ join' = [join EXCEPT ![c] = NoJoin]
  /\ page' = CASE c \in cut -> page
               [] c \notin cut /\ join[c].view = NoView -> Fails(c)
               [] OTHER -> Shows(c, join[c].view)
  /\ overtaken' = IF page[c].view # NoView /\ join[c].view # page[c].view
                  THEN overtaken \union {c} ELSE overtaken
  /\ UNCHANGED <<server, sock, room, bye, drops, cut>>

(***************************************************************************)
(* handleDisconnect                                                        *)
(***************************************************************************)

(* Mutant of MarkOffline: the whole set is deleted. *)
MarkOffline_Everyone(c) ==
  /\ bye[c] = "srem"
  /\ online' = {}
  /\ bye' = [bye EXCEPT ![c] = "emit"]
  /\ UNCHANGED <<version, unsent, sock, room, join, page, drops, cut, overtaken>>

(* SREM, then SMEMBERS and game:presence. *)
MarkOffline(c) ==
  /\ bye[c] = "srem"
  /\ online' = online \ {Owner[c]}
  /\ bye' = [bye EXCEPT ![c] = "emit"]
  /\ UNCHANGED <<version, unsent, sock, room, join, page, drops, cut, overtaken>>

EmitAbsence(c) ==
  /\ bye[c] = "emit"
  /\ TellPresence
  /\ bye' = [bye EXCEPT ![c] = "none"]
  /\ UNCHANGED <<server, sock, room, join, drops, cut, overtaken>>

(***************************************************************************)
(* The room goes on                                                        *)
(***************************************************************************)

(* An intent, an AI step or a forfeit is saved; the last one removes the room. *)
Commit ==
  /\ version \in 1..(Final - 1)
  /\ ~unsent
  /\ version' = version + 1
  /\ unsent' = TRUE
  /\ online' = IF version + 1 = Final THEN {} ELSE online
  /\ UNCHANGED <<sock, room, join, bye, page, drops, cut, overtaken>>

(* Mutant of OnStateChanged: the state before the change is sent. *)
OnStateChanged_Before ==
  /\ unsent
  /\ unsent' = FALSE
  /\ Broadcast(IF version > 0 THEN version - 1 ELSE version)
  /\ UNCHANGED <<version, online, sock, room, join, bye, drops, cut, overtaken>>

(* onStateChanged. *)
OnStateChanged ==
  /\ unsent
  /\ unsent' = FALSE
  /\ Broadcast(version)
  /\ UNCHANGED <<version, online, sock, room, join, bye, drops, cut, overtaken>>

Next ==
  \/ \E c \in Clients :
       \/ ConnectToGame(c) \/ Open(c) \/ ConnectError(c)
       \/ Drop(c) \/ Reconnect(c) \/ Leave(c)
       \/ EnterRoom(c) \/ StartClock(c) \/ MarkOnline(c)
       \/ EmitPresence(c) \/ ReadView(c) \/ Answer(c)
       \/ MarkOffline(c) \/ EmitAbsence(c)
  \/ Commit \/ OnStateChanged

Spec == Init /\ [][Next]_vars

(***************************************************************************)
(* Properties                                                              *)
(***************************************************************************)

Views == 0..Final
OrNone(S) == S \union {NoView}

TypeOK ==
  /\ version \in Views
  /\ unsent \in BOOLEAN
  /\ online \subseteq {Owner[c] : c \in Clients} \intersect Seated
  /\ sock \in [Clients -> {"off", "connecting", "on", "down"}]
  /\ room \subseteq {c \in Clients : sock[c] = "on"}
  /\ join \in [Clients -> [at : {"none", "room", "clock", "mark", "members", "read", "ack"},
                           view : OrNone(Views)]]
  /\ bye \in [Clients -> {"none", "srem", "emit"}]
  /\ page \in [Clients -> [status : {"idle", "connecting", "playing", "error"},
                           view : OrNone(Views), online : SUBSET Seated]]
  /\ cut \subseteq Clients
  /\ overtaken \subseteq Clients

Quiet ==
  /\ ~unsent
  /\ \A c \in Clients : join[c].at = "none" /\ bye[c] = "none"

(* When nothing is under way a page that plays shows the newest state, however
   its join ran into the moves of the others: it entered the room before it
   read the view.  Not if its socket broke, and not if the answer to its join
   was overtaken by a broadcast. *)
ShowsNewest ==
  Quiet => \A c \in Clients \ (cut \union overtaken) :
    page[c].status = "playing" => page[c].view = version

(* What the gateway says of a client that has been dropped: it resumes. *)
ResumesAfterDrop ==
  Quiet => \A c \in Clients :
    sock[c] = "on" /\ page[c].status = "playing" => page[c].view = version

(* Only the answer to a join can be overtaken, so a page goes back to an older
   state at most while it is still joining. *)
BackOnlyByJoin ==
  [][\A c \in Clients :
       page'[c].view # NoView /\ page[c].view # NoView /\ page'[c].view < page[c].view
         => join[c].at = "ack" /\ join'[c].at = "none"]_vars

(* When nothing is under way all players in the room have been told the same
   list of who is online, and it is the one the server keeps, until the room is
   removed. *)
PresenceAgrees ==
  Quiet /\ version < Final => \A c \in room : Owner[c] \in Seated => page[c].online = online

(* A player whose only connection has not broken in the middle of its join is
   online exactly while it lasts. *)
OnlineWhileJoined ==
  Quiet /\ version < Final => \A c \in Clients :
    (\A d \in Clients \ {c} : Owner[d] = Owner[c] => sock[d] = "off" /\ d \notin cut)
      /\ c \notin cut /\ Owner[c] \in Seated
      => (Owner[c] \in online <=> c \in room)

(* The lists of who is online agree with each other and with the sockets. *)
RosterOK == TypeOK /\ PresenceAgrees /\ OnlineWhileJoined
=============================================================================
