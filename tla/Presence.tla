------------------------------ MODULE Presence ------------------------------
(***************************************************************************)
(* Who is online: the connection counter and the online set in Redis, kept *)
(* by RealtimeGateway and PresenceService for one user with many sockets.  *)
(*                                                                         *)
(* A node talks to Redis over one connection.  Its commands are executed   *)
(* in the order in which they were sent, and a handler sends its next one  *)
(* when it has the reply; commands of different nodes interleave freely.   *)
(***************************************************************************)
EXTENDS Integers, Sequences, FiniteSets, SequencesExt

CONSTANTS
  Nodes,       \* API instances
  Sockets,     \* connections the user opens, each once
  NoNode       \* not a node: the socket is not open yet

(* What the proofs ask of the constants. *)
ConstantsOK == IsFiniteSet(Sockets) /\ NoNode \notin Nodes

VARIABLES
  socket,    \* per socket: [node, state], state in new, open, closed
  queue,     \* per node: the commands sent to Redis and not executed yet
  count,     \* presence:conn:<user>: [set, value, ttl]
  online,    \* whether presence:online contains the user
  crossed,   \* history: an INCR ran between the last DECR and its DEL
  stale,     \* history: the counter still counts sockets of a dead node
  expired,   \* history: a connection outlived the counter
  crashed    \* history: a node died; at most one does

vars == <<socket, queue, count, online, crossed, stale, expired, crashed>>

Command(op, s) == [op |-> op, socket |-> s]
Absent == [set |-> FALSE, value |-> 0, ttl |-> FALSE]

Init ==
  /\ socket = [s \in Sockets |-> [node |-> NoNode, state |-> "new"]]
  /\ queue = [n \in Nodes |-> <<>>]
  /\ count = Absent
  /\ online = FALSE
  /\ crossed = FALSE
  /\ stale = FALSE
  /\ expired = FALSE
  /\ crashed = FALSE

(***************************************************************************)
(* Sockets                                                                 *)
(***************************************************************************)

(* handleConnection of s on node n: addConnection sends its INCR. *)
Connect(s, n) ==
  /\ socket[s].state = "new"
  /\ socket' = [socket EXCEPT ![s] = [node |-> n, state |-> "open"]]
  /\ queue' = [queue EXCEPT ![n] = Append(@, Command("INCR", s))]
  /\ UNCHANGED <<count, online, crossed, stale, expired, crashed>>

(* handleDisconnect, which may run while handleConnection is still waiting. *)
Disconnect(s) ==
  /\ socket[s].state = "open"
  /\ socket' = [socket EXCEPT ![s].state = "closed"]
  /\ queue' = [queue EXCEPT ![socket[s].node] = Append(@, Command("DECR", s))]
  /\ UNCHANGED <<count, online, crossed, stale, expired, crashed>>

(***************************************************************************)
(* Redis executes the oldest command of node n; the handler that sent it   *)
(* sends its next one.                                                     *)
(***************************************************************************)

Sent(op) == \E n \in Nodes : \E i \in DOMAIN queue[n] : queue[n][i].op = op

Executes(n, op) == queue[n] # <<>> /\ Head(queue[n]).op = op
Replied(n) == queue' = [queue EXCEPT ![n] = Tail(@)]
ThenSend(n, op) ==
  queue' = [queue EXCEPT ![n] = Append(Tail(@), Command(op, Head(@).socket))]

(* Mutant of Incr: every connection but the first is added to the online set. *)
Incr_NotFirst(n) ==
  /\ Executes(n, "INCR")
  /\ count' = [count EXCEPT !.set = TRUE, !.value = @ + 1]
  /\ crossed' = (crossed \/ Sent("DEL"))
  /\ ThenSend(n, IF count.value = 1 THEN "EXPIRE_SADD" ELSE "EXPIRE")
  /\ UNCHANGED <<socket, online, stale, expired, crashed>>

(* addConnection: const count = await incr *)
Incr(n) ==
  /\ Executes(n, "INCR")
  /\ count' = [count EXCEPT !.set = TRUE, !.value = @ + 1]
  /\ crossed' = (crossed \/ Sent("DEL"))
  /\ ThenSend(n, IF count.value + 1 = 1 THEN "EXPIRE_SADD" ELSE "EXPIRE")
  /\ UNCHANGED <<socket, online, stale, expired, crashed>>

(* addConnection: expire, and the online set for the first connection. *)
Expire(n) ==
  /\ Executes(n, "EXPIRE") \/ Executes(n, "EXPIRE_SADD")
  /\ count' = IF count.set THEN [count EXCEPT !.ttl = TRUE] ELSE count
  /\ IF Executes(n, "EXPIRE") THEN Replied(n) ELSE ThenSend(n, "SADD")
  /\ UNCHANGED <<socket, online, crossed, stale, expired, crashed>>

SAdd(n) ==
  /\ Executes(n, "SADD")
  /\ online' = TRUE
  /\ Replied(n)
  /\ UNCHANGED <<socket, count, crossed, stale, expired, crashed>>

(* Mutants of Decr: the counter is removed below zero only, or not counted down
   when it is the last. *)
Decr_BelowZero(n) ==
  /\ Executes(n, "DECR")
  /\ count' = [count EXCEPT !.set = TRUE, !.value = @ - 1]
  /\ IF count.value - 1 < 0 THEN ThenSend(n, "DEL") ELSE Replied(n)
  /\ UNCHANGED <<socket, online, crossed, stale, expired, crashed>>

Decr_OnlyLast(n) ==
  /\ Executes(n, "DECR")
  /\ IF count.value <= 1
     THEN count' = [count EXCEPT !.set = TRUE, !.value = @ - 1] /\ ThenSend(n, "DEL")
     ELSE UNCHANGED count /\ Replied(n)
  /\ UNCHANGED <<socket, online, crossed, stale, expired, crashed>>

(* removeConnection: const count = await decr *)
Decr(n) ==
  /\ Executes(n, "DECR")
  /\ count' = [count EXCEPT !.set = TRUE, !.value = @ - 1]
  /\ IF count.value - 1 <= 0 THEN ThenSend(n, "DEL") ELSE Replied(n)
  /\ UNCHANGED <<socket, online, crossed, stale, expired, crashed>>

(* removeConnection of the last connection. *)
Del(n) ==
  /\ Executes(n, "DEL")
  /\ count' = Absent
  /\ stale' = FALSE
  /\ ThenSend(n, "SREM")
  /\ UNCHANGED <<socket, online, crossed, expired, crashed>>

SRem(n) ==
  /\ Executes(n, "SREM")
  /\ online' = FALSE
  /\ Replied(n)
  /\ UNCHANGED <<socket, count, crossed, stale, expired, crashed>>

(***************************************************************************)
(* Faults                                                                  *)
(***************************************************************************)

(* Node n dies: its sockets close without a handler, its commands are lost. *)
Crash(n) ==
  /\ ~crashed
  /\ crashed' = TRUE
  /\ stale' = TRUE
  /\ queue' = [queue EXCEPT ![n] = <<>>]
  /\ socket' = [s \in Sockets |-> IF socket[s].node = n
                                  THEN [socket[s] EXCEPT !.state = "closed"] ELSE socket[s]]
  /\ UNCHANGED <<count, online, crossed, expired>>

(* An hour after the last connection the counter expires. *)
KeyExpires ==
  /\ count.ttl
  /\ expired' = TRUE
  /\ count' = Absent
  /\ stale' = FALSE
  /\ UNCHANGED <<socket, queue, online, crossed, crashed>>

Next ==
  \/ \E s \in Sockets : (\E n \in Nodes : Connect(s, n)) \/ Disconnect(s)
  \/ \E n \in Nodes : Incr(n) \/ Expire(n) \/ SAdd(n) \/ Decr(n) \/ Del(n) \/ SRem(n) \/ Crash(n)
  \/ KeyExpires

Spec == Init /\ [][Next]_vars

(***************************************************************************)
(* Properties                                                              *)
(***************************************************************************)

Ops == {"INCR", "EXPIRE", "EXPIRE_SADD", "SADD", "DECR", "DEL", "SREM"}

TypeOK ==
  /\ socket \in [Sockets -> [node : Nodes \union {NoNode}, state : {"new", "open", "closed"}]]
  /\ queue \in [Nodes -> Seq([op : Ops, socket : Sockets])]
  /\ count \in [set : BOOLEAN, value : Int, ttl : BOOLEAN]
  /\ ~count.set => count = Absent
  /\ {online, crossed, stale, expired, crashed} \subseteq BOOLEAN

Quiet == \A n \in Nodes : queue[n] = <<>>
Connected == {s \in Sockets : socket[s].state = "open"}

(* Sockets whose INCR Redis has executed and whose DECR it has not. *)
Pending(op) == {s \in Sockets : \E n \in Nodes : \E i \in DOMAIN queue[n] : queue[n][i] = Command(op, s)}
Counted == {s \in Sockets : socket[s].state = "open" \/ s \in Pending("DECR")} \ Pending("INCR")

(* addConnection and removeConnection never count a connection that is not
   there, in whatever order their commands run; what a dead node leaves over
   is gone once the key has expired. *)
NeverOvercounts == ~stale => count.value <= Cardinality(Counted)

(* The user has met one instance only. *)
OneNode == \E n \in Nodes : \A s \in Sockets : socket[s].node \in {n, NoNode}

(* On a single instance that does not die, who has closed every connection is
   offline when the handlers are done. *)
GoneIsOffline == Quiet /\ Connected = {} /\ OneNode /\ ~crashed => ~online

(* There, who has a connection is online, as long as no connection was opened
   in the middle of the removal of the last one and none outlived the counter. *)
ConnectedIsOnline ==
  Quiet /\ Connected # {} /\ OneNode /\ ~crossed /\ ~expired /\ ~crashed => online

(* The counter and the online set follow the sockets. *)
PresenceOK == TypeOK /\ NeverOvercounts /\ GoneIsOffline /\ ConnectedIsOnline

(* What PresenceService says: it is correct across a fleet of instances.  No
   node dies and no counter expires here. *)
CorrectAcrossFleet == Quiet /\ ~crossed /\ ~expired /\ ~crashed => (online <=> Connected # {})
=============================================================================
