------------------------------- MODULE Invite -------------------------------
(***************************************************************************)
(* Playing with a friend: InviteService and its codes in Redis, the host   *)
(* who waits on the matchmaking socket (createFriendGame, cancelSearch of  *)
(* game.store.ts), and friends who redeem a code they were sent.           *)
(*                                                                         *)
(* A call is one handler; its actions are its remote steps.                *)
(***************************************************************************)
EXTENDS Naturals, FiniteSets

CONSTANTS
  Friends,    \* slots for POST /games/invite/:code/accept under way
  NoCode,     \* not a code
  MaxHosting, \* how often the host opens a lobby
  MaxFaults   \* how many connections break and createGames fail

ASSUME InviteAssumption == MaxHosting \in Nat /\ MaxFaults \in Nat

VARIABLES
  invite,    \* the codes that are in Redis
  host,      \* [status, code, lobbies] of the client store
  post,      \* the host's POST /games/invite: at idle, sent or answered, and its code
  wait,      \* invite:wait: off, sent, parked (in the room), acked, dropped
  shared,    \* the codes that friends have been sent
  accept,    \* per slot: [at, code, late]
  cancel,    \* DELETE /games/invite/:code: [at, code]
  games,     \* per code: how many matches it has made
  faults,
  gone,      \* history: codes that were cancelled, as the server has confirmed
  ghost      \* history: a match made by a friend who came after that

Codes == 1..MaxHosting

vars == <<invite, host, post, wait, shared, accept, cancel, games, faults, gone, ghost>>

Init ==
  /\ invite = {}
  /\ host = [status |-> "idle", code |-> NoCode, lobbies |-> 0]
  /\ post = [at |-> "idle", code |-> NoCode]
  /\ wait = "off"
  /\ shared = {}
  /\ accept = [f \in Friends |-> [at |-> "idle", code |-> NoCode, late |-> FALSE]]
  /\ cancel = [at |-> "idle", code |-> NoCode]
  /\ games = [c \in Codes |-> 0]
  /\ faults = 0
  /\ gone = {}
  /\ ghost = FALSE

Fault == faults < MaxFaults /\ faults' = faults + 1

(***************************************************************************)
(* The host opens a lobby                                                  *)
(***************************************************************************)

CreateFriendGame ==
  /\ host.status = "idle"
  /\ cancel.at = "idle"
  /\ host.lobbies < MaxHosting
  /\ host' = [status |-> "connecting", code |-> NoCode, lobbies |-> host.lobbies + 1]
  /\ post' = [at |-> "sent", code |-> NoCode]
  /\ UNCHANGED <<invite, wait, shared, accept, cancel, games, faults, gone, ghost>>

(* create: SET NX with a random code, again with another one if it is taken;
   the code is nobody else's, and here it is named after the lobby. *)
Create ==
  /\ post.at = "sent"
  /\ invite' = invite \union {host.lobbies}
  /\ post' = [at |-> "answered", code |-> host.lobbies]
  /\ UNCHANGED <<host, wait, shared, accept, cancel, games, faults, gone, ghost>>

(* Mutant of Created: the code is shown before the wait is acknowledged. *)
Created_ShowsCode ==
  /\ post.at = "answered"
  /\ wait' = "sent"
  /\ host' = [host EXCEPT !.status = "inviting", !.code = post.code]
  /\ post' = [post EXCEPT !.at = "code"]
  /\ UNCHANGED <<invite, shared, accept, cancel, games, faults, gone, ghost>>

(* The answer: open the matchmaking socket and emit invite:wait. *)
Created ==
  /\ post.at = "answered"
  /\ wait' = "sent"
  /\ post' = [post EXCEPT !.at = "code"]
  /\ UNCHANGED <<invite, host, shared, accept, cancel, games, faults, gone, ghost>>

(* onInviteWait: the socket joins the room of its user. *)
OnInviteWait ==
  /\ wait = "sent"
  /\ wait' = "parked"
  /\ UNCHANGED <<invite, host, post, shared, accept, cancel, games, faults, gone, ghost>>

(* The acknowledgement: the lobby shows the code. *)
WaitAcked ==
  /\ wait = "parked"
  /\ post.at = "code"
  /\ wait' = "acked"
  /\ host' = [host EXCEPT !.status = "inviting", !.code = post.code]
  /\ post' = [at |-> "idle", code |-> NoCode]
  /\ UNCHANGED <<invite, shared, accept, cancel, games, faults, gone, ghost>>

(* The host sends the code to friends. *)
Share ==
  /\ host.status = "inviting"
  /\ host.code \notin shared
  /\ shared' = shared \union {host.code}
  /\ UNCHANGED <<invite, host, post, wait, accept, cancel, games, faults, gone, ghost>>

(* cancelSearch in the lobby: leave, DELETE the code, close the sockets. *)
CancelSearch ==
  /\ host.status = "inviting"
  /\ cancel' = [at |-> "get", code |-> host.code]
  /\ wait' = "off"
  /\ host' = [host EXCEPT !.status = "idle", !.code = NoCode]
  /\ UNCHANGED <<invite, post, shared, accept, games, faults, gone, ghost>>

(* InviteService.cancel: read the invite, then delete it. *)
CancelGet ==
  /\ cancel.at = "get"
  /\ cancel' = [cancel EXCEPT !.at = IF cancel.code \in invite THEN "del" ELSE "done"]
  /\ UNCHANGED <<invite, host, post, wait, shared, accept, games, faults, gone, ghost>>

(* Mutant of CancelDel: the code stays. *)
CancelDel_KeepsCode ==
  /\ cancel.at = "del"
  /\ cancel' = [cancel EXCEPT !.at = "done"]
  /\ UNCHANGED <<invite, host, post, wait, shared, accept, games, faults, gone, ghost>>

CancelDel ==
  /\ cancel.at = "del"
  /\ invite' = invite \ {cancel.code}
  /\ cancel' = [cancel EXCEPT !.at = "done"]
  /\ UNCHANGED <<host, post, wait, shared, accept, games, faults, gone, ghost>>

Cancelled ==
  /\ cancel.at = "done"
  /\ gone' = gone \union {cancel.code}
  /\ cancel' = [at |-> "idle", code |-> NoCode]
  /\ UNCHANGED <<invite, host, post, wait, shared, accept, games, faults, ghost>>

(* The host's socket breaks.  socket.io connects it again, but nothing emits
   invite:wait a second time. *)
HostDrops ==
  /\ wait \in {"parked", "acked"}
  /\ Fault
  /\ wait' = "dropped"
  /\ UNCHANGED <<invite, host, post, shared, accept, cancel, games, gone, ghost>>

(* An attempt to connect fails.  What was emitted stays buffered. *)
ConnectError ==
  /\ wait \in {"sent", "dropped"}
  /\ host.status \in {"connecting", "inviting"}
  /\ Fault
  /\ host' = [host EXCEPT !.status = "error"]
  /\ UNCHANGED <<invite, post, wait, shared, accept, cancel, games, gone, ghost>>

(* leave: back from the error screen or from the game.  The code is not
   cancelled. *)
Leave ==
  /\ host.status \in {"error", "playing"}
  /\ host' = [host EXCEPT !.status = "idle", !.code = NoCode]
  /\ wait' = "off"
  /\ post' = [at |-> "idle", code |-> NoCode]
  /\ UNCHANGED <<invite, shared, accept, cancel, games, faults, gone, ghost>>

(***************************************************************************)
(* A friend redeems a code                                                 *)
(***************************************************************************)

At(f, at) == accept[f].at = at
GoTo(f, at) == accept' = [accept EXCEPT ![f].at = at]
Rejected(f) == accept' = [accept EXCEPT ![f] = [at |-> "idle", code |-> NoCode, late |-> FALSE]]

JoinFriendByCode(f) ==
  /\ At(f, "idle")
  /\ \E c \in shared : accept' = [accept EXCEPT ![f] = [at |-> "get", code |-> c, late |-> c \in gone]]
  /\ UNCHANGED <<invite, host, post, wait, shared, cancel, games, faults, gone, ghost>>

(* accept: the code is looked up *)
AcceptGet(f) ==
  /\ At(f, "get")
  /\ IF accept[f].code \in invite THEN GoTo(f, "del") ELSE Rejected(f)
  /\ UNCHANGED <<invite, host, post, wait, shared, cancel, games, faults, gone, ghost>>

(* Mutant of AcceptDel: whoever has seen the invite goes on. *)
AcceptDel_AnyCaller(f) ==
  /\ At(f, "del")
  /\ invite' = invite \ {accept[f].code}
  /\ GoTo(f, "create")
  /\ UNCHANGED <<host, post, wait, shared, cancel, games, faults, gone, ghost>>

(* ... consumed, by one caller only *)
AcceptDel(f) ==
  /\ At(f, "del")
  /\ invite' = invite \ {accept[f].code}
  /\ IF accept[f].code \in invite THEN GoTo(f, "create") ELSE Rejected(f)
  /\ UNCHANGED <<host, post, wait, shared, cancel, games, faults, gone, ghost>>

(* ... the match is created, or creating it fails and the code is gone *)
CreateGame(f) ==
  /\ At(f, "create")
  /\ \/ /\ games' = [games EXCEPT ![accept[f].code] = @ + 1]
        /\ ghost' = (ghost \/ accept[f].late)
        /\ GoTo(f, "notify")
        /\ UNCHANGED faults
     \/ Fault /\ Rejected(f) /\ UNCHANGED <<games, ghost>>
  /\ UNCHANGED <<invite, host, post, wait, shared, cancel, gone>>

(* ... and INVITE_ACCEPTED is pushed to the room of the host: a client that
   waits there closes the lobby and connects to the game. *)
OnInviteAccepted(f) ==
  /\ At(f, "notify")
  /\ IF wait \in {"parked", "acked"}
     THEN /\ host' = [host EXCEPT !.status = "playing"]
          /\ wait' = "off"
          /\ post' = [at |-> "idle", code |-> NoCode]
     ELSE UNCHANGED <<host, wait, post>>
  /\ Rejected(f)
  /\ UNCHANGED <<invite, shared, cancel, games, faults, gone, ghost>>

(* An hour has passed. *)
CodeExpires ==
  /\ Fault
  /\ \E c \in invite : invite' = invite \ {c}
  /\ UNCHANGED <<host, post, wait, shared, accept, cancel, games, gone, ghost>>

(***************************************************************************)
(* The specification                                                       *)
(***************************************************************************)

Accepting(f) == AcceptGet(f) \/ AcceptDel(f) \/ CreateGame(f) \/ OnInviteAccepted(f)
Hosting == Create \/ Created \/ OnInviteWait \/ WaitAcked \/ CancelGet \/ CancelDel \/ Cancelled

Next ==
  \/ CreateFriendGame \/ Create \/ Created \/ OnInviteWait \/ WaitAcked \/ Share
  \/ CancelSearch \/ CancelGet \/ CancelDel \/ Cancelled \/ HostDrops
  \/ ConnectError \/ Leave
  \/ \E f \in Friends : \/ JoinFriendByCode(f) \/ AcceptGet(f) \/ AcceptDel(f)
                        \/ CreateGame(f) \/ OnInviteAccepted(f)
  \/ CodeExpires

Spec == Init /\ [][Next]_vars

(* Calls are served, and the answers of the host's calls arrive. *)
FairSpec ==
  /\ Spec
  /\ WF_vars(Hosting)
  /\ \A f \in Friends : WF_vars(Accepting(f))

(***************************************************************************)
(* Properties                                                              *)
(***************************************************************************)

NullOr(S) == S \union {NoCode}

TypeOK ==
  /\ invite \subseteq Codes
  /\ host \in [status : {"idle", "connecting", "inviting", "error", "playing"},
              code : NullOr(Codes), lobbies : 0..MaxHosting]
  /\ post \in [at : {"idle", "sent", "answered", "code"}, code : NullOr(Codes)]
  /\ wait \in {"off", "sent", "parked", "acked", "dropped"}
  /\ shared \subseteq Codes
  /\ accept \in [Friends -> [at : {"idle", "get", "del", "create", "notify"},
                            code : NullOr(Codes), late : BOOLEAN]]
  /\ cancel \in [at : {"idle", "get", "del", "done"}, code : NullOr(Codes)]
  /\ games \in [Codes -> Nat]
  /\ faults \in 0..MaxFaults
  /\ host.status = "inviting" => host.code \in Codes /\ wait \in {"acked", "dropped"}

(* An invite makes one match at most, whoever redeems it at the same time. *)
OneGamePerInvite == \A c \in Codes : games[c] <= 1

(* Once the host's cancel has been confirmed, a friend who comes after it
   makes no match out of the code. *)
NoGhostGame == ~ghost

(* What an invite is for: one match, and none once it is cancelled. *)
InviteOK == TypeOK /\ OneGamePerInvite /\ NoGhostGame

(* The match that the code on show has made. *)
Redeemed == host.status = "inviting" /\ games[host.code] = 1

(* A lobby that is being shown is told of the match its code has made, if its
   socket stays up: it does not stand there for ever. *)
HostTold == Redeemed ~> ~Redeemed \/ wait = "dropped"

(* What the gateway says, without the condition: the host of a redeemed invite
   joins the game. *)
HostJoins == Redeemed ~> ~Redeemed
=============================================================================
