----------------------------- MODULE MCServices -----------------------------
(***************************************************************************)
(* The services around the match room, together.  They share no state, so  *)
(* a behaviour is one of one service: part says of which, and the          *)
(* variables of the others stay as they are.                               *)
(***************************************************************************)
EXTENDS Invite, Integers, Sequences

CONSTANTS
  Tabs, Calls, MaxExpiries, MaxTrouble, NoTab, NoToken,                      \* Session
  Nodes, Sockets, NoNode,                                                    \* Presence
  NoUser, Season, SoloSeason,                                                \* Progression
  Intents, MAX_INTENTS_PER_SECOND, VIOLATION_THRESHOLD, Windows,             \* IntentGuard
  Requests, AUTH_CACHE_TTL, MaxLatency, Lifetime, MaxTime                    \* AuthCache

VARIABLES
  part,
  rows, stored, tab, call, expiries, trouble, overlap, reuse,      \* Session
  socket, queue, count, online, crossed, stale, expired, crashed,  \* Presence
  stats, rating, locks, tx, delta, overlapped,                     \* Progression
  key, intent, flagged, died,                                      \* IntentGuard
  now, status, changed, token, cache, request, late                \* AuthCache

(***************************************************************************)
(* The instances                                                           *)
(***************************************************************************)

Session == INSTANCE Session
Presence == INSTANCE Presence
Guard == INSTANCE IntentGuard WITH crashed <- died
Account == INSTANCE AuthCache

(* The matches of a season with their seats, the ranked and the private ones. *)
Progression ==
  INSTANCE ProgressionProofs WITH
    Users <- Season.users, Matches <- DOMAIN Season.seats, Seats <- Season.seats,
    Ranked <- Season.ranked, Private <- Season.private, overlap <- overlapped
Solo ==
  INSTANCE ProgressionProofs WITH
    Users <- SoloSeason.users, Matches <- DOMAIN SoloSeason.seats, Seats <- SoloSeason.seats,
    Ranked <- SoloSeason.ranked, Private <- SoloSeason.private, overlap <- overlapped

(* What the proofs about these services assume of them. *)
ASSUME ServicesAssumption ==
  /\ Session!ConstantsOK /\ Presence!ConstantsOK /\ Guard!ConstantsOK /\ Account!ConstantsOK
  /\ Progression!ConstantsOK /\ Solo!ConstantsOK

(* The windows of the small instance. *)
TwoTicks == [rate |-> 2, violations |-> 2]

(* Two players meet twice in exchanged seats and one of them plays a third
   player twice; or one plays against the AI and against another player. *)
Rivals ==
  [users |-> {"a", "b", "c"},
   seats |-> [m1 |-> <<"a", "b">>, m2 |-> <<"b", "a">>, m3 |-> <<"a", "c">>, m4 |-> <<"a", "c">>],
   ranked |-> {"m1", "m2"}, private |-> {"m3", "m4"}]
Beginners ==
  [users |-> {"a", "b"}, seats |-> [m1 |-> <<"a">>, m2 |-> <<"a", "b">>, m3 |-> <<"b">>],
   ranked |-> {"m2"}, private |-> {}]

(***************************************************************************)
(* One of them runs                                                        *)
(***************************************************************************)

sessionVars == <<rows, stored, tab, call, expiries, trouble, overlap, reuse>>
presenceVars == <<socket, queue, count, online, crossed, stale, expired, crashed>>
progressionVars == <<stats, rating, locks, tx, delta, overlapped>>
guardVars == <<key, intent, flagged, died>>
accountVars == <<now, status, changed, token, cache, request, late>>

Parts == {"invite", "session", "presence", "progression", "solo", "guard", "account"}

Start ==
  /\ part \in Parts
  /\ Init /\ Session!Init /\ Presence!Init /\ Guard!Init /\ Account!Init
  /\ IF part = "solo" THEN Solo!Init ELSE Progression!Init
  /\ part # "account" => status = "ACTIVE"

Idle ==
  /\ IF part = "invite" THEN TRUE ELSE UNCHANGED vars
  /\ IF part = "session" THEN TRUE ELSE UNCHANGED sessionVars
  /\ IF part = "presence" THEN TRUE ELSE UNCHANGED presenceVars
  /\ IF part \in {"progression", "solo"} THEN TRUE ELSE UNCHANGED progressionVars
  /\ IF part = "guard" THEN TRUE ELSE UNCHANGED guardVars
  /\ IF part = "account" THEN TRUE ELSE UNCHANGED accountVars

Step ==
  /\ UNCHANGED part
  /\ Idle
  /\ \/ part = "invite" /\ Next
     \/ part = "session" /\ Session!Next
     \/ part = "presence" /\ Presence!Next
     \/ part = "progression" /\ Progression!Next
     \/ part = "solo" /\ Solo!Next
     \/ part = "guard" /\ Guard!Next
     \/ part = "account" /\ Account!Next

(* The fairness of each service, for the behaviours that are its own. *)
InviteFair ==
  /\ WF_vars(part = "invite" /\ Hosting)
  /\ \A f \in Friends : WF_vars(part = "invite" /\ Accepting(f))
SessionFair ==
  /\ \A t \in Tabs : WF_sessionVars(part = "session" /\ Session!ServeTab(t))
  /\ \A c \in Calls : WF_sessionVars(part = "session" /\ Session!ServeCall(c))
GuardFair ==
  /\ WF_guardVars(part = "guard" /\ Guard!Tick)
  /\ \A i \in Intents : WF_guardVars(part = "guard" /\ Guard!Handle(i))

allVars == <<part, vars, sessionVars, presenceVars, progressionVars, guardVars, accountVars>>

Services == Start /\ [][Step]_allVars /\ InviteFair /\ SessionFair /\ GuardFair

(***************************************************************************)
(* The properties of the services; those of Invite come with it            *)
(***************************************************************************)

SessionOK == part = "session" => Session!SessionOK
SplashEnds == Session!SplashEnds

PresenceOK == part = "presence" => Presence!PresenceOK

RecordsOK ==
  /\ part = "progression" => Progression!RecordsOK
  /\ part = "solo" => Solo!RecordsOK

GuardOK == part = "guard" => Guard!GuardOK
CountersForget == Guard!CountersForget

AccountOK == part = "account" => Account!AccountOK
=============================================================================
