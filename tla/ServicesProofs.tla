--------------------------- MODULE ServicesProofs ---------------------------
(***************************************************************************)
(* Proofs about the services around the match room, as they stand in       *)
(* MCServices: for any number of friends, nodes, sockets, requests, tabs   *)
(* and pages.                                                              *)
(***************************************************************************)
EXTENDS MCServices, FiniteSetTheorems, SequenceTheorems, TLAPS

(***************************************************************************)
(* Invite                                                                  *)
(***************************************************************************)

(***************************************************************************)
(* The inductive invariant                                                 *)
(***************************************************************************)

Slot == [at : {"idle", "get", "del", "create", "notify"}, code : NullOr(Codes), late : BOOLEAN]

(* The code of the present lobby before it has been made, or of a later one. *)
Fresh(c) == host.lobbies < c \/ (host.lobbies = c /\ post.at = "sent")

(* No friend has taken the invite away from the others. *)
Unclaimed(c) == games[c] = 0 /\ \A f \in Friends : At(f, "create") => accept[f].code # c

(* An invite is there, or one friend is about to make its match, or the match
   is made; what comes later only ever happens once. *)
InvitesOK ==
  /\ \A c \in invite : Unclaimed(c) /\ ~Fresh(c)
  /\ \A c \in Codes : Fresh(c) => Unclaimed(c)
  /\ \A c \in Codes : games[c] <= 1
ClaimsOK ==
  /\ \A f \in Friends : At(f, "create") => accept[f].code \notin invite /\ games[accept[f].code] = 0
  /\ \A f, g \in Friends :
       At(f, "create") /\ At(g, "create") /\ accept[f].code = accept[g].code => f = g

(* A code that is gone is not made again, and who comes after that finds none. *)
GoneOK ==
  /\ \A c \in gone : c \in Codes /\ c \notin invite /\ ~Fresh(c)
  /\ \A f \in Friends : accept[f].late => At(f, "get") /\ accept[f].code \in gone
  /\ ~ghost

(* The host's calls are about the code of the lobby. *)
HostOK ==
  /\ post.at # "idle" => host.lobbies \in Codes
  /\ post.at \in {"answered", "code"} => post.code = host.lobbies
  /\ host.status = "inviting" => post.at = "idle" /\ host.code <= host.lobbies
  /\ cancel.at # "idle" => post.at = "idle" /\ cancel.code \in Codes /\ cancel.code <= host.lobbies
  /\ cancel.at = "done" => cancel.code \notin invite
  /\ \A f \in Friends : ~At(f, "idle") => accept[f].code \in Codes

InviteInv == TypeOK /\ InvitesOK /\ ClaimsOK /\ GoneOK /\ HostOK

LEMMA InviteInit == Init => InviteInv
BY InviteAssumption
   DEF Init, InviteInv, TypeOK, InvitesOK, ClaimsOK, GoneOK, HostOK, Fresh, Unclaimed, At, Codes, NullOr

LEMMA CodesAreNumbers == \A c \in Codes : c \in Nat
BY DEF Codes

(* A slot moves on, and the others stay as they are. *)
LEMMA InviteSlotMoves ==
  ASSUME TypeOK, NEW f \in Friends, NEW q \in Slot, accept' = [accept EXCEPT ![f] = q]
  PROVE  /\ accept' \in [Friends -> Slot]
         /\ accept'[f] = q
         /\ \A g \in Friends \ {f} : accept'[g] = accept[g]
BY DEF TypeOK, Slot

LEMMA GoToMoves ==
  ASSUME TypeOK, NEW f \in Friends,
         NEW at \in {"idle", "get", "del", "create", "notify"}, GoTo(f, at)
  PROVE  /\ accept' \in [Friends -> Slot]
         /\ accept'[f].at = at /\ accept'[f].code = accept[f].code /\ accept'[f].late = accept[f].late
         /\ \A g \in Friends \ {f} : accept'[g] = accept[g]
BY DEF TypeOK, Slot, GoTo

LEMMA RejectedMoves ==
  ASSUME TypeOK, NEW f \in Friends, Rejected(f)
  PROVE  /\ accept' \in [Friends -> Slot]
         /\ accept'[f].at = "idle" /\ ~accept'[f].late
         /\ \A g \in Friends \ {f} : accept'[g] = accept[g]
<1> DEFINE q == [at |-> "idle", code |-> NoCode, late |-> FALSE]
<1>1. q \in Slot
  BY DEF Slot, NullOr
<1>2. accept' = [accept EXCEPT ![f] = q]
  BY DEF Rejected
<1> HIDE DEF q
<1>3. QED BY <1>1, <1>2, InviteSlotMoves DEF q

LEMMA HostSteps ==
  ASSUME InviteInv,
         \/ CreateFriendGame \/ Create \/ Created \/ OnInviteWait \/ WaitAcked \/ Share
         \/ CancelSearch \/ CancelGet \/ CancelDel \/ Cancelled \/ HostDrops
         \/ ConnectError \/ Leave \/ CodeExpires
  PROVE  InviteInv'
<1> USE InviteAssumption, CodesAreNumbers
        DEF InviteInv, InvitesOK, ClaimsOK, GoneOK, HostOK, Fresh, Unclaimed, At
<1>1. CASE CreateFriendGame
  BY <1>1 DEF CreateFriendGame, TypeOK, NullOr, Codes
<1>2. CASE Create
  <2>1. host.lobbies \in Codes /\ cancel.at = "idle" /\ post.at = "sent" /\ host.status # "inviting"
    BY <1>2 DEF Create, TypeOK
  <2>2. /\ invite' = invite \union {host.lobbies}
        /\ post'.at = "answered" /\ post'.code = host.lobbies
        /\ UNCHANGED <<host, wait, shared, accept, cancel, games, faults, gone, ghost>>
    BY <1>2 DEF Create
  <2>3. TypeOK'
    BY <1>2, <2>1, <2>2 DEF Create, TypeOK, NullOr
  <2>4. InvitesOK' /\ ClaimsOK'
    BY <2>1, <2>2 DEF TypeOK
  <2>5. GoneOK' /\ HostOK'
    BY <2>1, <2>2 DEF TypeOK
  <2>6. QED BY <2>3, <2>4, <2>5
<1>3. CASE Created
  BY <1>3 DEF Created, TypeOK, NullOr
<1>4. CASE OnInviteWait
  BY <1>4 DEF OnInviteWait, TypeOK, NullOr
<1>5. CASE WaitAcked
  <2>1. host.lobbies \in Codes /\ post.code = host.lobbies /\ post.at = "code" /\ wait = "parked"
    BY <1>5 DEF WaitAcked
  <2>2. host.status # "inviting" /\ cancel.at = "idle"
    BY <2>1 DEF TypeOK
  <2>3. /\ host' = [host EXCEPT !.status = "inviting", !.code = post.code]
        /\ post' = [at |-> "idle", code |-> NoCode] /\ wait' = "acked"
        /\ UNCHANGED <<invite, shared, accept, cancel, games, faults, gone, ghost>>
    BY <1>5 DEF WaitAcked
  <2>4. /\ host'.status = "inviting" /\ host'.code = host.lobbies /\ host'.lobbies = host.lobbies
        /\ post'.at = "idle"
    BY <2>1, <2>3 DEF TypeOK
  <2>5. TypeOK'
    BY <2>1, <2>3, <2>4 DEF TypeOK, NullOr
  <2>6. InvitesOK' /\ ClaimsOK' /\ GoneOK' /\ HostOK'
    BY <2>1, <2>2, <2>3, <2>4 DEF TypeOK
  <2>7. QED BY <2>5, <2>6
<1>6. CASE Share
  BY <1>6 DEF Share, TypeOK, NullOr
<1>7. CASE CancelSearch
  BY ZenonT(60), <1>7 DEF CancelSearch, TypeOK, NullOr
<1>8. CASE CancelGet
  BY <1>8 DEF CancelGet, TypeOK, NullOr
<1>9. CASE CancelDel
  BY <1>9 DEF CancelDel, TypeOK, NullOr
<1>10. CASE Cancelled
  BY <1>10 DEF Cancelled, TypeOK, NullOr
<1>11. CASE HostDrops
  BY <1>11 DEF HostDrops, Fault, TypeOK, NullOr
<1>12. CASE ConnectError
  BY <1>12 DEF ConnectError, Fault, TypeOK, NullOr
<1>13. CASE Leave
  BY ZenonT(60), <1>13 DEF Leave, TypeOK, NullOr
<1>14. CASE CodeExpires
  BY <1>14 DEF CodeExpires, Fault, TypeOK, NullOr
<1>15. QED BY <1>1, <1>2, <1>3, <1>4, <1>5, <1>6, <1>7, <1>8, <1>9, <1>10, <1>11, <1>12,
              <1>13, <1>14

LEMMA FriendSteps ==
  ASSUME InviteInv, NEW f \in Friends,
         \/ JoinFriendByCode(f) \/ AcceptGet(f) \/ AcceptDel(f)
         \/ CreateGame(f) \/ OnInviteAccepted(f)
  PROVE  InviteInv'
<1> USE InviteAssumption, CodesAreNumbers
        DEF InviteInv, InvitesOK, ClaimsOK, GoneOK, HostOK, Fresh, Unclaimed, At
<1>1. CASE JoinFriendByCode(f)
  <2>1. PICK c \in shared :
          accept' = [accept EXCEPT ![f] = [at |-> "get", code |-> c, late |-> c \in gone]]
    BY <1>1 DEF JoinFriendByCode
  <2>2. [at |-> "get", code |-> c, late |-> c \in gone] \in Slot
    BY DEF Slot, NullOr, TypeOK
  <2>3. /\ accept' \in [Friends -> Slot]
        /\ accept'[f] = [at |-> "get", code |-> c, late |-> c \in gone]
        /\ \A g \in Friends \ {f} : accept'[g] = accept[g]
    BY <2>1, <2>2, InviteSlotMoves
  <2>4. TypeOK'
    BY <1>1, <2>3 DEF JoinFriendByCode, TypeOK, Slot
  <2>5. InvitesOK' /\ ClaimsOK' /\ GoneOK' /\ HostOK'
    BY <1>1, <2>3 DEF JoinFriendByCode, TypeOK
  <2>6. QED BY <2>4, <2>5
<1>2. CASE AcceptGet(f)
  <2>1. CASE accept[f].code \in invite
    <3>1. GoTo(f, "del") /\ UNCHANGED <<invite, host, post, wait, shared, cancel, games, faults, gone, ghost>>
      BY <1>2, <2>1 DEF AcceptGet
    <3>2. TypeOK'
      BY <3>1, GoToMoves DEF TypeOK, Slot
    <3>3. InvitesOK' /\ ClaimsOK' /\ GoneOK' /\ HostOK'
      BY <1>2, <2>1, <3>1, GoToMoves DEF AcceptGet, TypeOK
    <3>4. QED BY <3>2, <3>3
  <2>2. CASE accept[f].code \notin invite
    <3>1. Rejected(f) /\ UNCHANGED <<invite, host, post, wait, shared, cancel, games, faults, gone, ghost>>
      BY <1>2, <2>2 DEF AcceptGet
    <3>2. TypeOK'
      BY <3>1, RejectedMoves DEF TypeOK, Slot
    <3>3. InvitesOK' /\ ClaimsOK' /\ GoneOK' /\ HostOK'
      BY <3>1, RejectedMoves DEF TypeOK
    <3>4. QED BY <3>2, <3>3
  <2>3. QED BY <2>1, <2>2
<1>3. CASE AcceptDel(f)
  <2>1. CASE accept[f].code \in invite
    <3>1. /\ GoTo(f, "create") /\ invite' = invite \ {accept[f].code} /\ At(f, "del")
          /\ UNCHANGED <<host, post, wait, shared, cancel, games, faults, gone, ghost>>
      BY <1>3, <2>1 DEF AcceptDel
    <3>2. TypeOK'
      BY <3>1, GoToMoves DEF TypeOK, Slot
    <3>3. InvitesOK' /\ ClaimsOK' /\ GoneOK' /\ HostOK'
      BY <2>1, <3>1, GoToMoves DEF TypeOK
    <3>4. QED BY <3>2, <3>3
  <2>2. CASE accept[f].code \notin invite
    <3>1. /\ Rejected(f) /\ invite' = invite
          /\ UNCHANGED <<host, post, wait, shared, cancel, games, faults, gone, ghost>>
      BY <1>3, <2>2 DEF AcceptDel
    <3>2. TypeOK'
      BY <3>1, RejectedMoves DEF TypeOK, Slot
    <3>3. InvitesOK' /\ ClaimsOK' /\ GoneOK' /\ HostOK'
      BY <3>1, RejectedMoves DEF TypeOK
    <3>4. QED BY <3>2, <3>3
  <2>3. QED BY <2>1, <2>2
<1>4. CASE CreateGame(f)
  <2>1. CASE /\ games' = [games EXCEPT ![accept[f].code] = @ + 1]
             /\ ghost' = (ghost \/ accept[f].late)
             /\ GoTo(f, "notify")
             /\ UNCHANGED faults
    <3>1. /\ At(f, "create") /\ accept[f].code \in Codes /\ games[accept[f].code] = 0
          /\ ~accept[f].late /\ accept[f].code \notin invite /\ ~Fresh(accept[f].code)
          /\ UNCHANGED <<invite, host, post, wait, shared, cancel, gone>>
      BY <1>4 DEF CreateGame, TypeOK
    <3>2. /\ games' \in [Codes -> Nat]
          /\ games'[accept[f].code] = 1
          /\ \A c \in Codes : c # accept[f].code => games'[c] = games[c]
      BY <2>1, <3>1 DEF TypeOK
    <3>3. ~ghost'
      BY <2>1, <3>1
    <3>4. TypeOK'
      BY <2>1, <3>1, <3>2, GoToMoves DEF TypeOK, Slot
    <3>5. InvitesOK' /\ ClaimsOK' /\ GoneOK' /\ HostOK'
      BY SMTT(30), <2>1, <3>1, <3>2, <3>3, GoToMoves DEF TypeOK
    <3>6. QED BY <3>4, <3>5
  <2>2. CASE Fault /\ Rejected(f) /\ UNCHANGED <<games, ghost>>
    <3>1. /\ faults' \in 0..MaxFaults
          /\ UNCHANGED <<invite, host, post, wait, shared, cancel, gone, games, ghost>>
      BY <1>4, <2>2 DEF CreateGame, Fault, TypeOK
    <3>2. TypeOK'
      BY <2>2, <3>1, RejectedMoves DEF TypeOK, Slot
    <3>3. InvitesOK' /\ ClaimsOK' /\ GoneOK' /\ HostOK'
      BY <2>2, <3>1, RejectedMoves DEF TypeOK
    <3>4. QED BY <3>2, <3>3
  <2>3. QED BY <1>4, <2>1, <2>2 DEF CreateGame
<1>5. CASE OnInviteAccepted(f)
  <2>1. /\ Rejected(f)
        /\ UNCHANGED <<invite, shared, cancel, games, faults, gone, ghost>>
    BY <1>5 DEF OnInviteAccepted
  <2>2. CASE wait \in {"parked", "acked"}
    <3>1. /\ host' = [host EXCEPT !.status = "playing"] /\ wait' = "off"
          /\ post' = [at |-> "idle", code |-> NoCode]
      BY <1>5, <2>2 DEF OnInviteAccepted
    <3>2. TypeOK'
      BY <2>1, <3>1, RejectedMoves DEF TypeOK, Slot, NullOr
    <3>3. InvitesOK' /\ ClaimsOK' /\ GoneOK' /\ HostOK'
      BY <2>1, <3>1, RejectedMoves DEF TypeOK
    <3>4. QED BY <3>2, <3>3
  <2>3. CASE wait \notin {"parked", "acked"}
    <3>1. UNCHANGED <<host, wait, post>>
      BY <1>5, <2>3 DEF OnInviteAccepted
    <3>2. TypeOK'
      BY <2>1, <3>1, RejectedMoves DEF TypeOK, Slot
    <3>3. InvitesOK' /\ ClaimsOK' /\ GoneOK' /\ HostOK'
      BY <2>1, <3>1, RejectedMoves DEF TypeOK
    <3>4. QED BY <3>2, <3>3
  <2>4. QED BY <2>2, <2>3
<1>6. QED BY <1>1, <1>2, <1>3, <1>4, <1>5

(***************************************************************************)
(* However many friends redeem a code at the same time, whatever connection*)
(* breaks and whichever creation of a match fails: an invite makes at most *)
(* one match, and none for a friend who comes after a confirmed cancel.    *)
(***************************************************************************)
THEOREM InviteMakesOneGame == Spec => []InviteOK
<1>1. Init => InviteInv
  BY InviteInit
<1>2. InviteInv /\ [Next]_vars => InviteInv'
  <2>1. ASSUME InviteInv, Next PROVE InviteInv'
    BY <2>1, HostSteps, FriendSteps DEF Next
  <2>2. ASSUME InviteInv, UNCHANGED vars PROVE InviteInv'
    BY <2>2 DEF vars, InviteInv, TypeOK, InvitesOK, ClaimsOK, GoneOK, HostOK, Fresh, Unclaimed, At
  <2>3. QED BY <2>1, <2>2
<1>3. InviteInv => InviteOK
  BY DEF InviteInv, InvitesOK, GoneOK, InviteOK, OneGamePerInvite, NoGhostGame
<1>4. QED BY <1>1, <1>2, <1>3, PTL DEF Spec

(***************************************************************************)
(* AuthCache                                                               *)
(***************************************************************************)

(***************************************************************************)
(* The inductive invariant: how old what the cache and the lookups hold    *)
(* can be                                                                  *)
(***************************************************************************)

(* The entry is the user's status, or the one that the status had at most
   a lookup before it was written. *)
CacheAge ==
  cache.status # Account!Nobody =>
    /\ cache.until <= now + AUTH_CACHE_TTL
    /\ cache.status # status => cache.until <= changed + AUTH_CACHE_TTL + MaxLatency

(* A lookup that has found a status found it in the database, after it began,
   or in the cache. *)
LookupAge(r) ==
  LET q == request[r]
  IN  /\ q.at # "idle" => now <= q.since + MaxLatency
      /\ q.at = "set" => q.seen \in Account!Statuses /\ (q.seen # status => q.since <= changed)
      /\ q.at = "decide" =>
           /\ q.seen \in Account!Statuses
           /\ q.seen # status => q.since < changed + AUTH_CACHE_TTL + MaxLatency

AccountInv == Account!TypeOK /\ CacheAge /\ (\A r \in Requests : LookupAge(r)) /\ Account!StatusIsRecent

LEMMA AccountInit == ASSUME Account!ConstantsOK, Account!Init PROVE AccountInv
BY DEF Account!ConstantsOK, Account!Init, AccountInv, Account!TypeOK, CacheAge, LookupAge, Account!StatusIsRecent, Account!NoRequest,
       Account!Known, Account!Statuses, Account!Nobody

(* One slot moves on, and the others stay as they are. *)
LEMMA RequestMoves ==
  ASSUME Account!TypeOK, NEW r \in Requests, NEW q,
         q \in [at : {"idle", "get", "find", "set", "decide"}, since : 0..now, seen : Account!Known],
         request' = [request EXCEPT ![r] = q]
  PROVE  /\ request' \in [Requests -> [at : {"idle", "get", "find", "set", "decide"},
                                       since : 0..now, seen : Account!Known]]
         /\ request'[r] = q
         /\ \A u \in Requests \ {r} : request'[u] = request[u]
BY DEF Account!TypeOK

LEMMA AccountNext == ASSUME Account!ConstantsOK, AccountInv, Account!Next PROVE AccountInv'
<1> USE DEF Account!ConstantsOK, AccountInv
<1>1. ASSUME Account!SetStatus PROVE AccountInv'
  BY <1>1 DEF Account!SetStatus, Account!TypeOK, CacheAge, LookupAge, Account!StatusIsRecent
<1>2. ASSUME Account!Refresh PROVE AccountInv'
  BY <1>2 DEF Account!Refresh, Account!TypeOK, CacheAge, LookupAge, Account!StatusIsRecent
<1>3. ASSUME Account!Tick PROVE AccountInv'
  <2>1. Account!TypeOK'
    <3>1. cache' \in [status : Account!Known, until : 0..(MaxTime + AUTH_CACHE_TTL)]
      BY <1>3 DEF Account!Tick, Account!TypeOK, Account!Known, Account!Nobody
    <3>2. cache'.status # Account!Nobody => now' < cache'.until
      BY <1>3 DEF Account!Tick, Account!TypeOK, Account!Nobody
    <3>3. QED BY <1>3, <3>1, <3>2 DEF Account!Tick, Account!TypeOK
  <2>2. CacheAge'
    BY <1>3 DEF Account!Tick, Account!TypeOK, CacheAge, Account!Nobody
  <2>3. (\A r \in Requests : LookupAge(r))'
    BY <1>3 DEF Account!Tick, Account!TypeOK, LookupAge
  <2>4. QED BY <1>3, <2>1, <2>2, <2>3 DEF Account!Tick, Account!StatusIsRecent
<1>4. ASSUME NEW r \in Requests, Account!Verify(r) PROVE AccountInv'
  <2> DEFINE q == [at |-> "get", since |-> now, seen |-> Account!Nobody]
  <2>1. q \in [at : {"idle", "get", "find", "set", "decide"}, since : 0..now, seen : Account!Known]
    BY DEF Account!TypeOK, Account!Known
  <2>2. request' = [request EXCEPT ![r] = q]
    BY <1>4 DEF Account!Verify
  <2>3. LookupAge(r)'
    BY <1>4, <2>1, <2>2, RequestMoves DEF Account!Verify, LookupAge, Account!TypeOK
  <2>4. \A u \in Requests \ {r} : LookupAge(u)'
    BY <1>4, <2>1, <2>2, RequestMoves DEF Account!Verify, LookupAge
  <2>5. QED BY <1>4, <2>1, <2>2, <2>3, <2>4, RequestMoves
            DEF Account!Verify, Account!TypeOK, CacheAge, Account!StatusIsRecent
<1>5. ASSUME NEW r \in Requests, Account!GetCached(r) PROVE AccountInv'
  <2> DEFINE q == [request[r] EXCEPT !.at = IF cache.status = Account!Nobody THEN "find" ELSE "decide",
                                     !.seen = cache.status]
  <2>1. q \in [at : {"idle", "get", "find", "set", "decide"}, since : 0..now, seen : Account!Known]
    BY DEF Account!TypeOK
  <2>2. request' = [request EXCEPT ![r] = q]
    BY <1>5 DEF Account!GetCached, Account!TypeOK
  <2> HIDE DEF q
  <2>3. LookupAge(r)'
    BY <1>5, <2>1, <2>2, RequestMoves
       DEF q, Account!GetCached, LookupAge, Account!TypeOK, CacheAge, Account!Known, Account!Nobody
  <2>4. \A u \in Requests \ {r} : LookupAge(u)'
    BY ZenonT(60), <1>5, <2>1, <2>2, RequestMoves DEF Account!GetCached, LookupAge
  <2>5. QED BY <1>5, <2>1, <2>2, <2>3, <2>4, RequestMoves
            DEF Account!GetCached, Account!TypeOK, CacheAge, Account!StatusIsRecent
<1>6. ASSUME NEW r \in Requests, Account!FindById(r) PROVE AccountInv'
  <2> DEFINE q == [request[r] EXCEPT !.at = "set", !.seen = status]
  <2>1. q \in [at : {"idle", "get", "find", "set", "decide"}, since : 0..now, seen : Account!Known]
    BY DEF Account!TypeOK, Account!Known
  <2>2. request' = [request EXCEPT ![r] = q]
    BY <1>6 DEF Account!FindById, Account!TypeOK
  <2>3. LookupAge(r)'
    BY <1>6, <2>1, <2>2, RequestMoves DEF Account!FindById, LookupAge, Account!TypeOK
  <2>4. \A u \in Requests \ {r} : LookupAge(u)'
    BY ZenonT(60), <1>6, <2>1, <2>2, RequestMoves DEF Account!FindById, LookupAge
  <2>5. QED BY <1>6, <2>1, <2>2, <2>3, <2>4, RequestMoves
            DEF Account!FindById, Account!TypeOK, CacheAge, Account!StatusIsRecent
<1>7. ASSUME NEW r \in Requests, Account!SetCached(r) PROVE AccountInv'
  <2> DEFINE q == [request[r] EXCEPT !.at = "decide"]
  <2>1. q \in [at : {"idle", "get", "find", "set", "decide"}, since : 0..now, seen : Account!Known]
    BY DEF Account!TypeOK
  <2>2. request' = [request EXCEPT ![r] = q]
    BY <1>7 DEF Account!SetCached, Account!TypeOK
  <2>3. LookupAge(r)'
    BY SMTT(30), <1>7, <2>1, <2>2, RequestMoves DEF Account!SetCached, LookupAge, Account!TypeOK
  <2>4. \A u \in Requests \ {r} : LookupAge(u)'
    BY <1>7, <2>1, <2>2, RequestMoves DEF Account!SetCached, LookupAge
  <2>5. CacheAge'
    BY <1>7 DEF Account!SetCached, CacheAge, LookupAge, Account!TypeOK
  <2>6. /\ cache' \in [status : Account!Known, until : 0..(MaxTime + AUTH_CACHE_TTL)]
        /\ now < cache'.until
    BY <1>7 DEF Account!SetCached, Account!TypeOK, LookupAge
  <2>7. QED BY <1>7, <2>1, <2>2, <2>3, <2>4, <2>5, <2>6, RequestMoves
            DEF Account!SetCached, Account!TypeOK, Account!StatusIsRecent
<1>8. ASSUME NEW r \in Requests, Account!Decide(r) PROVE AccountInv'
  <2>1. Account!NoRequest \in [at : {"idle", "get", "find", "set", "decide"}, since : 0..now, seen : Account!Known]
    BY DEF Account!NoRequest, Account!TypeOK, Account!Known
  <2>2. request' = [request EXCEPT ![r] = Account!NoRequest]
    BY <1>8 DEF Account!Decide
  <2>3. LookupAge(r)'
    BY <1>8, <2>1, <2>2, RequestMoves DEF Account!Decide, LookupAge, Account!NoRequest
  <2>4. \A u \in Requests \ {r} : LookupAge(u)'
    BY <1>8, <2>1, <2>2, RequestMoves DEF Account!Decide, LookupAge
  <2>5. late' \in 0..MaxTime /\ Account!StatusIsRecent'
    BY <1>8 DEF Account!Decide, Account!StatusIsRecent, LookupAge, Account!TypeOK
  <2>6. QED BY <1>8, <2>1, <2>2, <2>3, <2>4, <2>5, RequestMoves DEF Account!Decide, Account!TypeOK, CacheAge
<1>9. QED BY <1>1, <1>2, <1>3, <1>4, <1>5, <1>6, <1>7, <1>8 DEF Account!Next

(***************************************************************************)
(* Whoever fills the cache and however lookups, changes of the status and  *)
(* expiries interleave: a request is let in or refused by a status that    *)
(* the user had less than the life of the cache and two lookups ago.       *)
(***************************************************************************)
THEOREM StatusTakesEffect == ASSUME Account!ConstantsOK PROVE Account!Spec => []Account!AccountOK
<1>1. Account!Init => AccountInv
  BY AccountInit
<1>2. AccountInv /\ [Account!Next]_(Account!vars) => AccountInv'
  <2>1. ASSUME AccountInv, UNCHANGED Account!vars PROVE AccountInv'
    BY <2>1 DEF Account!vars, AccountInv, Account!TypeOK, CacheAge, LookupAge, Account!StatusIsRecent
  <2>2. QED BY <2>1, AccountNext
<1>3. AccountInv => Account!AccountOK
  BY DEF AccountInv, Account!AccountOK
<1>4. QED BY <1>1, <1>2, <1>3, PTL DEF Account!Spec

(***************************************************************************)
(* IntentGuard                                                             *)
(***************************************************************************)

Places == {"idle", "sent", "pexpire", "apply", "rejected", "expire"}

(***************************************************************************)
(* The inductive invariant                                                 *)
(***************************************************************************)

(* The type invariant, one counter at a time. *)
CounterOK(k) ==
  /\ key[k].count <= Guard!Limit(k) + 1
  /\ key[k].ttl <= Windows[k]
  /\ key[k].count = 0 => key[k].ttl = 0
KeyOK == key \in [Guard!Counters -> [count : Nat, ttl : Nat]] /\ \A k \in Guard!Counters : CounterOK(k)

(* Whoever counted the first violation gives the counter its time to live:
   until then the counter stays, and nobody else is about to. *)
FirstExpires ==
  /\ \A i \in Intents : intent[i] = "expire" =>
       key["violations"].count > 0 /\ key["violations"].ttl = 0
  /\ \A i, j \in Intents : intent[i] = "expire" /\ intent[j] = "expire" => i = j

GuardInv ==
  /\ KeyOK
  /\ intent \in [Intents -> Places]
  /\ flagged \in BOOLEAN
  /\ died \in BOOLEAN
  /\ FirstExpires
  /\ Guard!FlagNeedsThreshold

LEMMA InvType == GuardInv => Guard!TypeOK
BY DEF GuardInv, KeyOK, CounterOK, Guard!TypeOK, Places

(***************************************************************************)
(* The counters                                                            *)
(***************************************************************************)

LEMMA CountersAre ==
  /\ "rate" \in Guard!Counters /\ "violations" \in Guard!Counters
  /\ \A k \in Guard!Counters : k = "rate" \/ k = "violations"
BY DEF Guard!Counters

LEMMA LimitType == ASSUME Guard!ConstantsOK, NEW k \in Guard!Counters PROVE Guard!Limit(k) \in Nat \ {0}
BY DEF Guard!ConstantsOK, Guard!Limit

(* Counting stays within the limit, and counts the first only once. *)
LEMMA CountedBounds ==
  ASSUME Guard!ConstantsOK, KeyOK, NEW k \in Guard!Counters
  PROVE  /\ Guard!Counted(k) \in 1..(Guard!Limit(k) + 1)
         /\ Guard!Counted(k) = 1 <=> key[k].count = 0
         /\ Guard!Counted(k) >= key[k].count
BY LimitType DEF KeyOK, CounterOK, Guard!Counted

LEMMA CountingKeeps ==
  ASSUME Guard!ConstantsOK, KeyOK, NEW k \in Guard!Counters, Guard!Incr(k)
  PROVE  /\ KeyOK'
         /\ key'[k].count = Guard!Counted(k)
         /\ key'[k].ttl = key[k].ttl
         /\ \A c \in Guard!Counters \ {k} : key'[c] = key[c]
<1>1. key[k] \in [count : Nat, ttl : Nat]
  BY DEF KeyOK
<1>2. key'[k] = [key[k] EXCEPT !.count = Guard!Counted(k)] /\ \A c \in Guard!Counters \ {k} : key'[c] = key[c]
  BY DEF Guard!Incr, KeyOK
<1>3. Guard!Counted(k) \in Nat /\ Guard!Counted(k) <= Guard!Limit(k) + 1 /\ Guard!Counted(k) # 0
  BY CountedBounds, LimitType
<1>4. key'[k].count = Guard!Counted(k) /\ key'[k].ttl = key[k].ttl
  BY <1>1, <1>2
<1>5. key' \in [Guard!Counters -> [count : Nat, ttl : Nat]]
  BY <1>3 DEF Guard!Incr, KeyOK
<1>6. CounterOK(k)'
  BY <1>3, <1>4 DEF KeyOK, CounterOK, Guard!Limit
<1>7. ASSUME NEW c \in Guard!Counters \ {k} PROVE CounterOK(c)'
  BY <1>2 DEF KeyOK, CounterOK, Guard!Limit
<1>8. QED BY <1>2, <1>4, <1>5, <1>6, <1>7 DEF KeyOK

LEMMA ExpiringKeeps ==
  ASSUME Guard!ConstantsOK, KeyOK, NEW k \in Guard!Counters, Guard!Expire(k)
  PROVE  /\ KeyOK'
         /\ key'[k].count = key[k].count
         /\ \A c \in Guard!Counters \ {k} : key'[c] = key[c]
<1>1. CASE key[k].count = 0
  BY <1>1 DEF Guard!Expire, KeyOK, CounterOK, Guard!Limit
<1>2. CASE key[k].count # 0
  <2>1. key[k] \in [count : Nat, ttl : Nat] /\ Windows[k] \in Nat
    BY DEF KeyOK, Guard!ConstantsOK
  <2>2. key' = [key EXCEPT ![k].ttl = Windows[k]]
    BY <1>2, <2>1 DEF Guard!Expire
  <2>3. key'[k] = [key[k] EXCEPT !.ttl = Windows[k]] /\ \A c \in Guard!Counters \ {k} : key'[c] = key[c]
    BY <2>2 DEF KeyOK
  <2>4. key'[k].count = key[k].count /\ key'[k].ttl = Windows[k]
    BY <2>1, <2>3
  <2>5. key' \in [Guard!Counters -> [count : Nat, ttl : Nat]]
    BY <2>1, <2>2 DEF KeyOK
  <2>6. CounterOK(k)'
    BY <1>2, <2>1, <2>4 DEF KeyOK, CounterOK, Guard!Limit
  <2>7. ASSUME NEW c \in Guard!Counters \ {k} PROVE CounterOK(c)'
    BY <2>3 DEF KeyOK, CounterOK, Guard!Limit
  <2>8. QED BY <2>3, <2>4, <2>5, <2>6, <2>7 DEF KeyOK
<1>3. QED BY <1>1, <1>2

LEMMA TickKeeps ==
  ASSUME Guard!ConstantsOK, KeyOK, Guard!Tick
  PROVE  /\ KeyOK'
         /\ \A k \in Guard!Counters : key[k].ttl = 0 => key'[k] = key[k]
<1>1. \A k \in Guard!Counters :
        /\ key[k].ttl = 0 => key'[k] = key[k]
        /\ key[k].ttl = 1 => key'[k] = [count |-> 0, ttl |-> 0]
        /\ key[k].ttl \notin {0, 1} => key'[k] = [key[k] EXCEPT !.ttl = @ - 1]
  BY DEF Guard!Tick
<1>2. ASSUME NEW k \in Guard!Counters PROVE key'[k] \in [count : Nat, ttl : Nat] /\ CounterOK(k)'
  <2>1. key[k] \in [count : Nat, ttl : Nat] /\ CounterOK(k) /\ Guard!Limit(k) \in Nat
    BY LimitType DEF KeyOK
  <2>2. CASE key[k].ttl = 0
    BY <1>1, <2>1, <2>2 DEF CounterOK, Guard!Limit
  <2>3. CASE key[k].ttl = 1
    <3>0. key'[k] = [count |-> 0, ttl |-> 0]
      BY <1>1, <2>3
    <3>1. key'[k].count = 0 /\ key'[k].ttl = 0 /\ key'[k] \in [count : Nat, ttl : Nat]
      BY <3>0
    <3>2. Windows[k] \in Nat
      BY DEF Guard!ConstantsOK
    <3>3. QED BY <2>1, <3>1, <3>2 DEF CounterOK, Guard!Limit
  <2>4. CASE key[k].ttl \notin {0, 1}
    <3>0. key'[k] = [key[k] EXCEPT !.ttl = @ - 1]
      BY <1>1, <2>4
    <3>1. /\ key'[k] \in [count : Nat, ttl : Nat]
          /\ key'[k].count = key[k].count /\ key'[k].ttl = key[k].ttl - 1
      BY <2>1, <2>4, <3>0
    <3>2. Windows[k] \in Nat
      BY DEF Guard!ConstantsOK
    <3>3. QED BY <2>1, <2>4, <3>1, <3>2 DEF CounterOK, Guard!Limit
  <2>5. QED BY <2>2, <2>3, <2>4
<1>3. key' \in [Guard!Counters -> [count : Nat, ttl : Nat]]
  <2>1. key' = [k \in Guard!Counters |-> key'[k]]
    BY DEF Guard!Tick
  <2>2. QED BY <1>2, <2>1
<1>4. QED BY <1>1, <1>2, <1>3 DEF KeyOK

LEMMA IntentGoes ==
  ASSUME intent \in [Intents -> Places], NEW i \in Intents, NEW at \in Places, Guard!GoTo(i, at)
  PROVE  /\ intent' \in [Intents -> Places]
         /\ intent'[i] = at
         /\ \A j \in Intents \ {i} : intent'[j] = intent[j]
BY DEF Guard!GoTo

(* A step of a slot to another place than "expire" that leaves the violations
   alone, but for counting one on. *)
LEMMA FirstExpiresKept ==
  ASSUME FirstExpires, intent \in [Intents -> Places],
         NEW i \in Intents, NEW at \in Places \ {"expire"}, Guard!GoTo(i, at),
         key'["violations"].ttl = key["violations"].ttl,
         key["violations"].count > 0 => key'["violations"].count > 0
  PROVE  FirstExpires'
BY IntentGoes DEF FirstExpires

(***************************************************************************)
(* The invariant is inductive                                              *)
(***************************************************************************)

LEMMA GuardInit == ASSUME Guard!ConstantsOK, Guard!Init PROVE GuardInv
<1>1. \A k \in Guard!Counters : key[k] = [count |-> 0, ttl |-> 0] /\ Guard!Limit(k) \in Nat /\ Windows[k] \in Nat
  BY LimitType DEF Guard!Init, Guard!ConstantsOK
<1>2. key \in [Guard!Counters -> [count : Nat, ttl : Nat]]
  BY DEF Guard!Init
<1>3. KeyOK
  BY <1>1, <1>2 DEF KeyOK, CounterOK
<1>4. FirstExpires /\ Guard!FlagNeedsThreshold
  BY DEF Guard!Init, FirstExpires, Guard!FlagNeedsThreshold
<1>5. intent \in [Intents -> Places]
  BY DEF Guard!Init, Places
<1>6. QED BY <1>3, <1>4, <1>5 DEF Guard!Init, GuardInv

LEMMA GuardNext == ASSUME Guard!ConstantsOK, GuardInv, Guard!Next PROVE GuardInv'
<1>0. /\ KeyOK /\ FirstExpires /\ Guard!FlagNeedsThreshold
      /\ intent \in [Intents -> Places] /\ flagged \in BOOLEAN /\ died \in BOOLEAN
  BY DEF GuardInv
<1>1. ASSUME NEW i \in Intents, Guard!Send(i) PROVE GuardInv'
  <2>1. Guard!GoTo(i, "sent") /\ "sent" \in Places \ {"expire"} /\ UNCHANGED key
    BY <1>1 DEF Guard!Send, Places
  <2>2. KeyOK' /\ FirstExpires' /\ intent' \in [Intents -> Places]
    BY <1>0, <2>1, IntentGoes, FirstExpiresKept DEF KeyOK, CounterOK, Guard!Limit
  <2>3. Guard!FlagNeedsThreshold' /\ flagged' \in BOOLEAN /\ died' \in BOOLEAN
    BY <1>0, <1>1 DEF Guard!Send, Guard!FlagNeedsThreshold
  <2>4. QED BY <2>2, <2>3 DEF GuardInv
<1>2. ASSUME NEW i \in Intents, Guard!AllowIntent(i) PROVE GuardInv'
  <2> DEFINE at == IF Guard!Counted("rate") = 1 THEN "pexpire" ELSE Guard!Verdict(Guard!Counted("rate"))
  <2>1. at \in Places \ {"expire"} /\ Guard!GoTo(i, at) /\ Guard!Incr("rate")
    BY <1>2 DEF Guard!AllowIntent, Guard!Verdict, Places
  <2> HIDE DEF at
  <2>2. KeyOK' /\ key'["violations"] = key["violations"]
    BY <1>0, <2>1, CountingKeeps, CountersAre
  <2>3. FirstExpires' /\ intent' \in [Intents -> Places]
    BY <1>0, <2>1, <2>2, IntentGoes, FirstExpiresKept
  <2>4. Guard!FlagNeedsThreshold' /\ flagged' \in BOOLEAN /\ died' \in BOOLEAN
    BY <1>0, <1>2, <2>2 DEF Guard!AllowIntent, Guard!FlagNeedsThreshold
  <2>5. QED BY <2>2, <2>3, <2>4 DEF GuardInv
<1>3. ASSUME NEW i \in Intents, Guard!PExpire(i) PROVE GuardInv'
  <2>1. Guard!Verdict(1) \in Places \ {"expire"} /\ Guard!GoTo(i, Guard!Verdict(1)) /\ Guard!Expire("rate")
    BY <1>3 DEF Guard!PExpire, Guard!Verdict, Places
  <2>2. KeyOK' /\ key'["violations"] = key["violations"]
    BY <1>0, <2>1, ExpiringKeeps, CountersAre
  <2>3. FirstExpires' /\ intent' \in [Intents -> Places]
    BY <1>0, <2>1, <2>2, IntentGoes, FirstExpiresKept
  <2>4. Guard!FlagNeedsThreshold' /\ flagged' \in BOOLEAN /\ died' \in BOOLEAN
    BY <1>0, <1>3, <2>2 DEF Guard!PExpire, Guard!FlagNeedsThreshold
  <2>5. QED BY <2>2, <2>3, <2>4 DEF GuardInv
<1>4. ASSUME NEW i \in Intents, Guard!ApplyIntent(i) PROVE GuardInv'
  <2>1. PICK to \in {"idle", "rejected"} : Guard!GoTo(i, to)
    BY <1>4 DEF Guard!ApplyIntent
  <2>2. to \in Places \ {"expire"} /\ UNCHANGED key
    BY <1>4 DEF Guard!ApplyIntent, Places
  <2>3. KeyOK' /\ FirstExpires' /\ intent' \in [Intents -> Places]
    BY <1>0, <2>1, <2>2, IntentGoes, FirstExpiresKept DEF KeyOK, CounterOK, Guard!Limit
  <2>4. Guard!FlagNeedsThreshold' /\ flagged' \in BOOLEAN /\ died' \in BOOLEAN
    BY <1>0, <1>4 DEF Guard!ApplyIntent, Guard!FlagNeedsThreshold
  <2>5. QED BY <2>3, <2>4 DEF GuardInv
<1>5. ASSUME NEW i \in Intents, Guard!RecordViolation(i) PROVE GuardInv'
  <2> DEFINE at == IF Guard!Counted("violations") = 1 THEN "expire" ELSE "idle"
  <2>1. at \in Places /\ Guard!GoTo(i, at) /\ Guard!Incr("violations")
    BY <1>5 DEF Guard!RecordViolation, Places
  <2>2. /\ at = "expire" <=> key["violations"].count = 0
        /\ Guard!Counted("violations") \in Nat /\ Guard!Counted("violations") >= key["violations"].count
        /\ Guard!Counted("violations") # 0
    BY <1>0, CountedBounds, CountersAre, LimitType
  <2>3. flagged' = (flagged \/ (Guard!Counted("violations") >= VIOLATION_THRESHOLD /\ Guard!Counted("violations") # 1))
    BY <1>5 DEF Guard!RecordViolation
  <2> HIDE DEF at
  <2>4. /\ KeyOK'
        /\ key'["violations"].count = Guard!Counted("violations")
        /\ key'["violations"].ttl = key["violations"].ttl
    BY <1>0, <2>1, CountingKeeps, CountersAre
  <2>5. intent' \in [Intents -> Places] /\ intent'[i] = at /\ \A j \in Intents \ {i} : intent'[j] = intent[j]
    BY <1>0, <2>1, IntentGoes
  <2>6. key["violations"].count = 0 => key["violations"].ttl = 0
    BY <1>0, CountersAre DEF KeyOK, CounterOK
  <2>7. key["violations"].count \in Nat /\ VIOLATION_THRESHOLD \in Nat
    BY <1>0, CountersAre DEF KeyOK, Guard!ConstantsOK
  <2>8. FirstExpires'
    <3>1. CASE key["violations"].count = 0
      BY <1>0, <2>2, <2>4, <2>5, <2>6, <3>1 DEF FirstExpires
    <3>2. CASE key["violations"].count # 0
      BY <1>0, <2>2, <2>4, <2>5, <2>7, <3>2 DEF FirstExpires
    <3>3. QED BY <3>1, <3>2
  <2>9. Guard!FlagNeedsThreshold'
    <3>1. CASE flagged
      BY <1>0, <2>2, <2>4, <2>7, <3>1 DEF Guard!FlagNeedsThreshold
    <3>2. CASE ~flagged
      BY <2>3, <2>4, <3>2 DEF Guard!FlagNeedsThreshold
    <3>3. QED BY <3>1, <3>2
  <2>10. flagged' \in BOOLEAN /\ died' \in BOOLEAN
    BY <1>0, <1>5, <2>3 DEF Guard!RecordViolation
  <2>11. QED BY <2>4, <2>5, <2>8, <2>9, <2>10 DEF GuardInv
<1>6. ASSUME NEW i \in Intents, Guard!ExpireViolations(i) PROVE GuardInv'
  <2>1. "idle" \in Places \ {"expire"} /\ Guard!GoTo(i, "idle") /\ Guard!Expire("violations")
    BY <1>6 DEF Guard!ExpireViolations, Places
  <2>2. KeyOK' /\ key'["violations"].count = key["violations"].count
    BY <1>0, <2>1, ExpiringKeeps, CountersAre
  <2>3. intent' \in [Intents -> Places] /\ \A j \in Intents : intent'[j] # "expire"
    BY <1>0, <1>6, <2>1, IntentGoes DEF Guard!ExpireViolations, FirstExpires
  <2>4. flagged' = (flagged \/ VIOLATION_THRESHOLD = 1) /\ UNCHANGED died
    BY <1>6 DEF Guard!ExpireViolations
  <2>5. key["violations"].count \in Nat /\ key["violations"].count > 0
    BY <1>0, <1>6, CountersAre DEF Guard!ExpireViolations, FirstExpires, KeyOK
  <2>6. Guard!FlagNeedsThreshold'
    <3>1. CASE flagged
      BY <1>0, <2>2, <3>1 DEF Guard!FlagNeedsThreshold
    <3>2. CASE ~flagged
      <4>1. flagged' => VIOLATION_THRESHOLD = 1
        BY <2>4, <3>2
      <4>2. QED BY <2>2, <2>5, <4>1 DEF Guard!FlagNeedsThreshold
    <3>3. QED BY <3>1, <3>2
  <2>7. FirstExpires'
    BY <2>3 DEF FirstExpires
  <2>8. flagged' \in BOOLEAN /\ died' \in BOOLEAN
    BY <1>0, <2>4
  <2>9. QED BY <2>2, <2>3, <2>6, <2>7, <2>8 DEF GuardInv
<1>7. ASSUME Guard!Tick PROVE GuardInv'
  <2>1. KeyOK' /\ (key["violations"].ttl = 0 => key'["violations"] = key["violations"])
    BY <1>0, <1>7, TickKeeps, CountersAre
  <2>2. FirstExpires' /\ intent' \in [Intents -> Places]
    BY <1>0, <1>7, <2>1 DEF Guard!Tick, FirstExpires
  <2>3. flagged' = (flagged /\ key'["violations"].count > 0) /\ UNCHANGED died
    BY <1>7 DEF Guard!Tick
  <2>4. key'["violations"].count \in {0, key["violations"].count}
    BY <1>7, CountersAre DEF Guard!Tick
  <2>5. Guard!FlagNeedsThreshold'
    <3>1. flagged' => flagged /\ key'["violations"].count > 0
      BY <2>3
    <3>2. QED BY <1>0, <2>4, <3>1 DEF Guard!FlagNeedsThreshold
  <2>6. flagged' \in BOOLEAN /\ died' \in BOOLEAN
    BY <1>0, <2>3
  <2>7. QED BY <2>1, <2>2, <2>5, <2>6 DEF GuardInv
<1>8. ASSUME Guard!Crash PROVE GuardInv'
  <2>1. KeyOK' /\ FirstExpires' /\ intent' \in [Intents -> Places]
    BY <1>0, <1>8 DEF Guard!Crash, KeyOK, CounterOK, Guard!Limit, FirstExpires, Places
  <2>2. Guard!FlagNeedsThreshold' /\ flagged' \in BOOLEAN /\ died' \in BOOLEAN
    BY <1>0, <1>8 DEF Guard!Crash, Guard!FlagNeedsThreshold
  <2>3. QED BY <2>1, <2>2 DEF GuardInv
<1>9. QED BY <1>1, <1>2, <1>3, <1>4, <1>5, <1>6, <1>7, <1>8 DEF Guard!Next

(***************************************************************************)
(* The counters stay well-formed -- one that exists without a time to live *)
(* is waiting for the handler that counted first, or outlived a crash --   *)
(* and a player is flagged only while the violations of the window reach   *)
(* the threshold, however the pages' intents interleave with the clock.    *)
(***************************************************************************)
THEOREM FlaggedRightly == ASSUME Guard!ConstantsOK PROVE Guard!Spec => []Guard!GuardOK
<1>1. Guard!Init => GuardInv
  BY GuardInit
<1>2. GuardInv /\ [Guard!Next]_(Guard!vars) => GuardInv'
  <2>1. ASSUME GuardInv, UNCHANGED Guard!vars PROVE GuardInv'
    BY <2>1 DEF Guard!vars, GuardInv, KeyOK, CounterOK, Guard!Limit, FirstExpires, Guard!FlagNeedsThreshold
  <2>2. QED BY <2>1, GuardNext
<1>3. GuardInv => Guard!GuardOK
  BY InvType DEF GuardInv, Guard!GuardOK
<1>4. QED BY <1>1, <1>2, <1>3, PTL DEF Guard!Spec

(***************************************************************************)
(* Presence                                                                *)
(***************************************************************************)

Cell == [op : Presence!Ops, socket : Sockets]

(* The commands of a node stand in the order in which the sockets sent them. *)
Lined(n) ==
  /\ \A i \in 1..Len(queue[n]) : LET c == queue[n][i] IN
       /\ socket[c.socket].node = n
       /\ c.op = "DECR" => socket[c.socket].state = "closed"
       /\ c.op = "INCR" /\ socket[c.socket].state = "closed" =>
            \E j \in 1..Len(queue[n]) : queue[n][j] = [op |-> "DECR", socket |-> c.socket]
  /\ \A i, j \in 1..Len(queue[n]) :
       queue[n][i].socket = queue[n][j].socket =>
         /\ queue[n][i].op = queue[n][j].op /\ queue[n][i].op \in {"INCR", "DECR"} => i = j
         /\ queue[n][i].op = "INCR" /\ queue[n][j].op = "DECR" => i < j

Basic ==
  /\ Presence!TypeOK
  /\ \A s \in Sockets : socket[s].node = NoNode <=> socket[s].state = "new"
  /\ \A n \in Nodes : Lined(n)

Only(n) == \A s \in Sockets : socket[s].node \in {n, NoNode}

(* The user will be taken off the set, after everything that puts it there. *)
Closing(n) ==
  \E j \in 1..Len(queue[n]) :
    \/ /\ queue[n][j].op = "DEL"
       /\ \A i \in 1..Len(queue[n]) : queue[n][i].op = "EXPIRE_SADD" => i < j
    \/ /\ queue[n][j].op = "SREM"
       /\ \A i \in 1..Len(queue[n]) :
            queue[n][i].op # "EXPIRE_SADD" /\ (queue[n][i].op = "SADD" => i < j)

NotOpening(n) == \A i \in 1..Len(queue[n]) : queue[n][i].op \notin {"EXPIRE_SADD", "SADD"}

Leaves(n) ==
  Only(n) /\ ~crashed /\ Presence!Counted = {} => Closing(n) \/ (~online /\ NotOpening(n))

Opening(n) ==
  \/ \E i \in 1..Len(queue[n]) : queue[n][i].op = "EXPIRE_SADD"
  \/ \E i \in 1..Len(queue[n]) :
       queue[n][i].op = "SADD" /\ \A j \in 1..Len(queue[n]) : queue[n][j].op = "SREM" => j < i
  \/ online /\ \A j \in 1..Len(queue[n]) : queue[n][j].op # "SREM"

Smooth == ~crossed /\ ~expired /\ ~crashed

Stays(n) == Only(n) /\ Smooth /\ Presence!Counted # {} => Opening(n)

Counts ==
  /\ stale => crashed
  /\ ~stale => count.value <= Cardinality(Presence!Counted)
  /\ Smooth => count.value = Cardinality(Presence!Counted)
  /\ Smooth /\ Presence!Counted # {} => ~Presence!Sent("DEL")

PresenceInv == Basic /\ Counts /\ \A n \in Nodes : Leaves(n) /\ Stays(n)

(***************************************************************************)
(* What a step does to the queues                                          *)
(***************************************************************************)

LEMMA QueueType == ASSUME Presence!TypeOK, NEW n \in Nodes PROVE queue[n] \in Seq(Cell) /\ Len(queue[n]) \in Nat
<1>1. queue[n] \in Seq(Cell)
  BY DEF Presence!TypeOK, Cell
<1>. QED BY <1>1

(* A handler sends its first command. *)
LEMMA Sending ==
  ASSUME Presence!TypeOK, NEW n \in Nodes, NEW c \in Cell, queue' = [queue EXCEPT ![n] = Append(queue[n], c)]
  PROVE  /\ queue' \in [Nodes -> Seq(Cell)]
         /\ \A m \in Nodes \ {n} : queue'[m] = queue[m]
         /\ Len(queue'[n]) = Len(queue[n]) + 1
         /\ \A i \in 1..Len(queue[n]) : queue'[n][i] = queue[n][i]
         /\ queue'[n][Len(queue[n]) + 1] = c
<1>1. queue[n] \in Seq(Cell)
  BY QueueType
<1>2. Append(queue[n], c) \in Seq(Cell)
  BY <1>1
<1>3. queue'[n] = Append(queue[n], c) /\ \A m \in Nodes \ {n} : queue'[m] = queue[m]
  BY DEF Presence!TypeOK
<1>4. queue' \in [Nodes -> Seq(Cell)]
  BY <1>2 DEF Presence!TypeOK, Cell
<1>. QED BY <1>1, <1>3, <1>4

(* A reply: the oldest command goes and at most one, not of a new handler, comes. *)
Moves(n) ==
  /\ queue' \in [Nodes -> Seq(Cell)]
  /\ \A m \in Nodes \ {n} : queue'[m] = queue[m]
  /\ Len(queue[n]) >= 1
  /\ Len(queue'[n]) \in {Len(queue[n]) - 1, Len(queue[n])}
  /\ \A i \in 1..Len(queue[n]) - 1 : queue'[n][i] = queue[n][i + 1]
Follows(n) == Len(queue'[n]) = Len(queue[n]) /\ queue'[n][Len(queue[n])].socket = queue[n][1].socket

LEMMA Replying ==
  ASSUME Presence!TypeOK, NEW n \in Nodes, queue[n] # <<>>, Presence!Replied(n)
  PROVE  Moves(n) /\ Len(queue'[n]) = Len(queue[n]) - 1
<1>1. queue[n] \in Seq(Cell)
  BY QueueType
<1>2. /\ Tail(queue[n]) \in Seq(Cell) /\ Len(queue[n]) >= 1 /\ Len(Tail(queue[n])) = Len(queue[n]) - 1
      /\ \A i \in 1..Len(queue[n]) - 1 : Tail(queue[n])[i] = queue[n][i + 1]
  BY <1>1
<1>3. queue'[n] = Tail(queue[n]) /\ \A m \in Nodes \ {n} : queue'[m] = queue[m]
  BY DEF Presence!TypeOK, Presence!Replied
<1>4. queue' \in [Nodes -> Seq(Cell)]
  BY <1>2 DEF Presence!TypeOK, Cell, Presence!Replied
<1>. QED BY <1>2, <1>3, <1>4 DEF Moves

LEMMA SendingNext ==
  ASSUME Presence!TypeOK, NEW n \in Nodes, queue[n] # <<>>, NEW op \in Presence!Ops, Presence!ThenSend(n, op)
  PROVE  Moves(n) /\ Follows(n) /\ queue'[n][Len(queue[n])].op = op
<1>1. queue[n] \in Seq(Cell)
  BY QueueType
<1>2. /\ Tail(queue[n]) \in Seq(Cell) /\ Len(queue[n]) >= 1 /\ Len(Tail(queue[n])) = Len(queue[n]) - 1
      /\ \A i \in 1..Len(queue[n]) - 1 : Tail(queue[n])[i] = queue[n][i + 1]
      /\ Head(queue[n]) = queue[n][1] /\ queue[n][1] \in Cell
  BY <1>1
<1> DEFINE q == Tail(queue[n])
           c == [op |-> op, socket |-> queue[n][1].socket]
<1>3. c \in Cell
  BY <1>2 DEF Cell
<1>4. queue' = [queue EXCEPT ![n] = Append(q, c)]
  BY <1>2 DEF Presence!ThenSend, Presence!Command
<1>5. q \in Seq(Cell) /\ Len(q) = Len(queue[n]) - 1 /\ Len(queue[n]) \in Nat
      /\ \A i \in 1..Len(queue[n]) - 1 : q[i] = queue[n][i + 1]
  BY <1>1, <1>2
<1>6. c.op = op /\ c.socket = queue[n][1].socket
  OBVIOUS
<1> HIDE DEF q, c
<1>7. /\ Append(q, c) \in Seq(Cell) /\ Len(Append(q, c)) = Len(q) + 1 /\ Append(q, c)[Len(q) + 1] = c
      /\ \A i \in 1..Len(q) : Append(q, c)[i] = q[i]
  BY <1>3, <1>5
<1>8. queue'[n] = Append(q, c) /\ \A m \in Nodes \ {n} : queue'[m] = queue[m]
  BY <1>4 DEF Presence!TypeOK
<1>9. queue' \in [Nodes -> Seq(Cell)]
  BY <1>4, <1>7 DEF Presence!TypeOK, Cell
<1>. QED BY <1>2, <1>5, <1>6, <1>7, <1>8, <1>9 DEF Moves, Follows

(* The command that is executed. *)
LEMMA First ==
  ASSUME Presence!TypeOK, NEW n \in Nodes, NEW op \in Presence!Ops, Presence!Executes(n, op)
  PROVE  /\ queue[n] # <<>> /\ Len(queue[n]) >= 1 /\ Len(queue[n]) \in Nat
         /\ queue[n][1].op = op /\ queue[n][1].socket \in Sockets /\ queue[n][1] = [op |-> op, socket |-> queue[n][1].socket]
<1>1. queue[n] \in Seq(Cell)
  BY QueueType
<1>2. Len(queue[n]) >= 1 /\ Head(queue[n]) = queue[n][1] /\ queue[n][1] \in Cell
  BY <1>1 DEF Presence!Executes
<1>3. queue[n][1].op = op
  BY <1>2 DEF Presence!Executes
<1>. QED BY <1>1, <1>2, <1>3 DEF Presence!Executes, Cell

(* Nothing of a new handler is sent. *)
Continues(n) ==
  /\ Moves(n)
  /\ \/ Len(queue'[n]) = Len(queue[n]) - 1
     \/ Follows(n) /\ queue'[n][Len(queue[n])].op \notin {"INCR", "DECR"}

LEMMA StaysLined ==
  ASSUME Basic, NEW n \in Nodes, Continues(n), socket' = socket
  PROVE  \A m \in Nodes : Lined(m)'
<1> DEFINE L == Len(queue[n])
<1>1. L \in Nat /\ L >= 1 /\ \A i \in 1..L : queue[n][i] \in Cell
  <2>1. queue[n] \in Seq(Cell)
    BY QueueType DEF Basic
  <2>. QED BY <2>1 DEF Continues, Moves
<1>2. Len(queue'[n]) \in Nat /\ Len(queue'[n]) <= L /\ Len(queue'[n]) >= L - 1
  BY <1>1 DEF Continues, Moves
<1>3. ASSUME NEW i \in 1..Len(queue'[n])
      PROVE  \/ i \in 1..L - 1 /\ i + 1 \in 1..L /\ queue'[n][i] = queue[n][i + 1]
             \/ i = L /\ queue'[n][i].socket = queue[n][1].socket /\ queue'[n][i].op \notin {"INCR", "DECR"}
  <2>1. i \in Nat /\ 1 <= i /\ i <= Len(queue'[n])
    BY <1>2
  <2>2. i \in 1..L - 1 \/ (i = L /\ Len(queue'[n]) = L)
    BY <1>1, <1>2, <2>1
  <2>3. CASE i \in 1..L - 1
    <3>1. i + 1 \in 1..L
      BY <1>1, <2>3
    <3>. QED BY <2>3, <3>1 DEF Continues, Moves
  <2>4. CASE i = L /\ Len(queue'[n]) = L
    <3>1. Len(queue'[n]) # L - 1
      BY <1>1, <2>4
    <3>. QED BY <2>4, <3>1 DEF Continues, Follows
  <2>. QED BY <2>2, <2>3, <2>4
<1>4. \A i \in 1..L - 1 : i \in 1..Len(queue'[n]) /\ queue'[n][i] = queue[n][i + 1]
  BY <1>1, <1>2 DEF Continues, Moves
<1>5. Lined(n)
  BY DEF Basic
<1> HIDE DEF L
<1>6. ASSUME NEW i \in 1..Len(queue'[n])
      PROVE  LET c == queue'[n][i] IN
               /\ socket[c.socket].node = n
               /\ c.op = "DECR" => socket[c.socket].state = "closed"
               /\ c.op = "INCR" /\ socket[c.socket].state = "closed" =>
                    \E j \in 1..Len(queue'[n]) : queue'[n][j] = [op |-> "DECR", socket |-> c.socket]
  <2>1. CASE i \in 1..L - 1 /\ i + 1 \in 1..L /\ queue'[n][i] = queue[n][i + 1]
    <3>1. /\ socket[queue'[n][i].socket].node = n
          /\ queue'[n][i].op = "DECR" => socket[queue'[n][i].socket].state = "closed"
      BY <1>5, <2>1 DEF Lined, L
    <3>2. ASSUME queue'[n][i].op = "INCR", socket[queue'[n][i].socket].state = "closed"
          PROVE  \E j \in 1..Len(queue'[n]) : queue'[n][j] = [op |-> "DECR", socket |-> queue'[n][i].socket]
      <4>1. PICK j \in 1..L : queue[n][j] = [op |-> "DECR", socket |-> queue[n][i + 1].socket]
        BY <1>5, <2>1, <3>2 DEF Lined, L
      <4>2. i + 1 < j
        BY <1>5, <2>1, <3>2, <4>1 DEF Lined, L
      <4>3. j - 1 \in 1..L - 1 /\ (j - 1) + 1 = j
        BY <1>1, <4>2
      <4>. QED BY <1>4, <2>1, <4>1, <4>3
    <3>. QED BY <3>1, <3>2
  <2>2. CASE i = L /\ queue'[n][i].socket = queue[n][1].socket /\ queue'[n][i].op \notin {"INCR", "DECR"}
    <3>1. 1 \in 1..L
      BY <1>1
    <3>. QED BY <1>5, <2>2, <3>1 DEF Lined, L
  <2>. QED BY <1>3, <2>1, <2>2
<1>7. ASSUME NEW i \in 1..Len(queue'[n]), NEW j \in 1..Len(queue'[n]), queue'[n][i].socket = queue'[n][j].socket
      PROVE  /\ queue'[n][i].op = queue'[n][j].op /\ queue'[n][i].op \in {"INCR", "DECR"} => i = j
             /\ queue'[n][i].op = "INCR" /\ queue'[n][j].op = "DECR" => i < j
  <2>1. CASE queue'[n][i].op \in {"INCR", "DECR"} /\ queue'[n][j].op \in {"INCR", "DECR"}
    <3>1. /\ i + 1 \in 1..L /\ queue'[n][i] = queue[n][i + 1]
          /\ j + 1 \in 1..L /\ queue'[n][j] = queue[n][j + 1]
      BY <1>3, <2>1
    <3>2. /\ queue'[n][i].op = queue'[n][j].op => i + 1 = j + 1
          /\ queue'[n][i].op = "INCR" /\ queue'[n][j].op = "DECR" => i + 1 < j + 1
      BY <1>5, <1>7, <2>1, <3>1 DEF Lined, L
    <3>. QED BY <1>2, <3>2
  <2>. QED BY <2>1
<1>8. Lined(n)'
  BY <1>6, <1>7 DEF Lined
<1>9. ASSUME NEW m \in Nodes \ {n} PROVE Lined(m)'
  <2>1. queue'[m] = queue[m] /\ Lined(m)
    BY DEF Continues, Moves, Basic
  <2>. QED BY <2>1 DEF Lined
<1>. QED BY <1>8, <1>9

LEMMA PendingAfter ==
  ASSUME Basic, NEW n \in Nodes, Continues(n), NEW op \in {"INCR", "DECR"}
  PROVE  Presence!Pending(op)' = Presence!Pending(op) \ (IF queue[n][1].op = op THEN {queue[n][1].socket} ELSE {})
<1>0. \A m \in Nodes : DOMAIN queue[m] = 1..Len(queue[m]) /\ Len(queue[m]) \in Nat /\ \A i \in 1..Len(queue[m]) : queue[m][i] \in Cell
  <2>1. \A m \in Nodes : queue[m] \in Seq(Cell)
    BY QueueType DEF Basic
  <2>. QED BY <2>1
<1>1. \A m \in Nodes : DOMAIN queue'[m] = 1..Len(queue'[m]) /\ Len(queue'[m]) \in Nat
  <2>1. \A m \in Nodes : queue'[m] \in Seq(Cell)
    BY DEF Continues, Moves
  <2>. QED BY <2>1
<1>2. ASSUME NEW s \in Sockets, NEW m \in Nodes, NEW i \in 1..Len(queue'[m]), queue'[m][i] = [op |-> op, socket |-> s]
      PROVE  s \in Presence!Pending(op) /\ (queue[n][1].op = op => s # queue[n][1].socket)
  <2>1. CASE m = n
    <3>1. i + 1 \in 1..Len(queue[n]) /\ queue'[n][i] = queue[n][i + 1] /\ 1 \in 1..Len(queue[n]) /\ 1 # i + 1
      BY <1>0, <1>1, <1>2, <2>1 DEF Continues, Moves, Follows
    <3>2. queue[n][1].op = op => s # queue[n][1].socket
      BY <1>2, <2>1, <3>1 DEF Basic, Lined
    <3>. QED BY <1>0, <1>2, <2>1, <3>1, <3>2 DEF Presence!Pending, Presence!Command
  <2>2. CASE m # n
    <3>1. queue'[m] = queue[m] /\ 1 \in 1..Len(queue[n])
      BY <1>0, <2>2 DEF Continues, Moves
    <3>2. socket[s].node = m /\ socket[queue[n][1].socket].node = n
      <4>1. Lined(m) /\ Lined(n) /\ queue[m][i].socket = s /\ i \in 1..Len(queue[m])
        BY <1>2, <3>1 DEF Basic
      <4>. QED BY <3>1, <4>1 DEF Lined
    <3>. QED BY <1>0, <1>2, <2>2, <3>1, <3>2 DEF Presence!Pending, Presence!Command
  <2>. QED BY <2>1, <2>2
<1>3. ASSUME NEW s \in Sockets, NEW m \in Nodes, NEW i \in 1..Len(queue[m]), queue[m][i] = [op |-> op, socket |-> s],
             queue[n][1].op = op => s # queue[n][1].socket
      PROVE  s \in Presence!Pending(op)'
  <2>1. CASE m = n
    <3>1. i # 1
      BY <1>3, <2>1
    <3>2. i - 1 \in 1..Len(queue'[n]) /\ queue'[n][i - 1] = queue[n][i]
      BY <1>0, <1>1, <2>1, <3>1 DEF Continues, Moves
    <3>. QED BY <1>1, <1>3, <2>1, <3>2 DEF Presence!Pending, Presence!Command
  <2>2. CASE m # n
    <3>1. queue'[m] = queue[m]
      BY <2>2 DEF Continues, Moves
    <3>. QED BY <1>1, <1>3, <3>1 DEF Presence!Pending, Presence!Command
  <2>. QED BY <2>1, <2>2
<1>4. \A s \in Presence!Pending(op)' : s \in Presence!Pending(op) /\ (queue[n][1].op = op => s # queue[n][1].socket)
  BY <1>1, <1>2 DEF Presence!Pending, Presence!Command
<1>5. \A s \in Presence!Pending(op) : (queue[n][1].op = op => s # queue[n][1].socket) => s \in Presence!Pending(op)'
  BY <1>0, <1>3 DEF Presence!Pending, Presence!Command
<1>. QED BY <1>4, <1>5

(* Redis counts a connection up and down as the commands of its socket say. *)
LEMMA CountedAfter ==
  ASSUME Basic, Presence!ConstantsOK, NEW n \in Nodes, Continues(n), socket' = socket
  PROVE  /\ queue[n][1].op = "INCR" => Presence!Counted' = Presence!Counted \union {queue[n][1].socket} /\ queue[n][1].socket \notin Presence!Counted
         /\ queue[n][1].op = "DECR" => Presence!Counted' = Presence!Counted \ {queue[n][1].socket} /\ queue[n][1].socket \in Presence!Counted
         /\ queue[n][1].op \notin {"INCR", "DECR"} => Presence!Counted' = Presence!Counted
<1>0. DOMAIN queue[n] = 1..Len(queue[n]) /\ 1 \in 1..Len(queue[n]) /\ queue[n][1] \in Cell
  <2>1. queue[n] \in Seq(Cell)
    BY QueueType DEF Basic
  <2>. QED BY <2>1 DEF Continues, Moves
<1>1. /\ Presence!Pending("INCR")' = Presence!Pending("INCR") \ (IF queue[n][1].op = "INCR" THEN {queue[n][1].socket} ELSE {})
      /\ Presence!Pending("DECR")' = Presence!Pending("DECR") \ (IF queue[n][1].op = "DECR" THEN {queue[n][1].socket} ELSE {})
  BY PendingAfter
<1> DEFINE s == queue[n][1].socket
<1>s. s \in Sockets /\ queue[n][1] = [op |-> queue[n][1].op, socket |-> s]
  BY <1>0 DEF Cell
<1>2. CASE queue[n][1].op = "INCR"
  <2>1. s \in Presence!Pending("INCR")
    BY <1>0, <1>s, <1>2 DEF Presence!Pending, Presence!Command
  <2>2. socket[s].state # "open" => s \in Presence!Pending("DECR")
    <3>1. socket[s].node = n
      BY <1>0 DEF Basic, Lined
    <3>2. socket[s].state # "new"
      BY <1>s, <3>1 DEF Basic, Presence!ConstantsOK
    <3>3. socket[s].state \in {"new", "open", "closed"}
      BY <1>s DEF Basic, Presence!TypeOK
    <3>4. socket[s].state = "closed" => \E j \in 1..Len(queue[n]) : queue[n][j] = [op |-> "DECR", socket |-> s]
      BY <1>0, <1>2 DEF Basic, Lined
    <3>. QED BY <1>0, <1>s, <3>2, <3>3, <3>4 DEF Presence!Pending, Presence!Command
  <2>. QED BY <1>s, <1>1, <1>2, <2>1, <2>2 DEF Presence!Counted
<1>3. CASE queue[n][1].op = "DECR"
  <2>1. s \in Presence!Pending("DECR") /\ socket[s].state = "closed"
    BY <1>0, <1>s, <1>3 DEF Presence!Pending, Presence!Command, Basic, Lined
  <2>2. s \notin Presence!Pending("INCR")
    <3>1. SUFFICES ASSUME NEW m \in Nodes, NEW i \in DOMAIN queue[m], queue[m][i] = [op |-> "INCR", socket |-> s] PROVE FALSE
      BY DEF Presence!Pending, Presence!Command
    <3>2. queue[m] \in Seq(Cell)
      BY QueueType DEF Basic
    <3>3. i \in 1..Len(queue[m]) /\ i \in Nat /\ i >= 1
      BY <3>2
    <3>4. m = n
      <4>1. Lined(m) /\ Lined(n) /\ queue[m][i].socket = s
        BY <3>1 DEF Basic
      <4>2. socket[s].node = m
        BY <3>3, <4>1 DEF Lined
      <4>3. socket[s].node = n
        BY <1>0, <4>1 DEF Lined
      <4>. QED BY <4>2, <4>3
    <3>5. i < 1
      BY <1>0, <1>3, <3>1, <3>3, <3>4 DEF Basic, Lined
    <3>. QED BY <3>3, <3>5
  <2>. QED BY <1>s, <1>1, <1>3, <2>1, <2>2 DEF Presence!Counted
<1>4. CASE queue[n][1].op \notin {"INCR", "DECR"}
  BY <1>1, <1>4 DEF Presence!Counted
<1>. QED BY <1>2, <1>3, <1>4

(* The instance of FiniteSets within Presence is the one used here. *)
LEMMA SameFinite ==
  ASSUME NEW S
  PROVE  Presence!IsFiniteSet(S) <=> IsFiniteSet(S)
  BY DEF Presence!IsFiniteSet, IsFiniteSet

LEMMA SameCardinality ==
  ASSUME NEW S
  PROVE  Presence!Cardinality(S) = Cardinality(S)
  BY DEF Presence!Cardinality, Cardinality

LEMMA Cardinal ==
  ASSUME Presence!ConstantsOK
  PROVE  /\ IsFiniteSet(Presence!Counted) /\ Cardinality(Presence!Counted) \in Nat
         /\ Presence!Counted = {} <=> Cardinality(Presence!Counted) = 0
         /\ \A s \in Presence!Counted : Cardinality(Presence!Counted \ {s}) = Cardinality(Presence!Counted) - 1
         /\ \A s : s \notin Presence!Counted => Cardinality(Presence!Counted \union {s}) = Cardinality(Presence!Counted) + 1
<1>1. Presence!Counted \subseteq Sockets
  BY DEF Presence!Counted
<1>2. IsFiniteSet(Presence!Counted)
  <2>1. IsFiniteSet(Sockets)
    BY SameFinite DEF Presence!ConstantsOK
  <2>. QED BY <1>1, <2>1, FS_Subset
<1>. QED BY <1>2, FS_CardinalityType, FS_EmptySet, FS_AddElement, FS_RemoveElement

(* Where the commands stand after a reply. *)
LEMMA Shifting ==
  ASSUME Presence!TypeOK, NEW n \in Nodes, Moves(n)
  PROVE  /\ Len(queue[n]) \in Nat /\ Len(queue[n]) >= 1 /\ Len(queue'[n]) \in Nat
         /\ Len(queue'[n]) = Len(queue[n]) - 1 \/ Len(queue'[n]) = Len(queue[n])
         /\ \A i \in 1..Len(queue[n]) - 1 : i \in 1..Len(queue'[n]) /\ queue'[n][i] = queue[n][i + 1]
         /\ \A i \in 1..Len(queue'[n]) :
              \/ i \in 1..Len(queue[n]) - 1 /\ i + 1 \in 1..Len(queue[n]) /\ queue'[n][i] = queue[n][i + 1]
              \/ i = Len(queue[n]) /\ Len(queue'[n]) = Len(queue[n])
<1>1. Len(queue[n]) \in Nat /\ Len(queue[n]) >= 1 /\ Len(queue'[n]) \in {Len(queue[n]) - 1, Len(queue[n])}
  BY QueueType DEF Moves
<1>. QED BY <1>1 DEF Moves

(* The last command, if a handler goes on with one. *)
Ends(n, op) == Len(queue'[n]) = Len(queue[n]) /\ queue'[n][Len(queue[n])].op = op
Popped(n) == Len(queue'[n]) = Len(queue[n]) - 1

LEMMA DelMoves ==
  ASSUME Presence!TypeOK, NEW n \in Nodes, Moves(n), Popped(n) \/ ~Ends(n, "EXPIRE_SADD"),
         NEW j \in 1..Len(queue[n]), j # 1, queue[n][j].op = "DEL",
         \A i \in 1..Len(queue[n]) : queue[n][i].op = "EXPIRE_SADD" => i < j
  PROVE  /\ j - 1 \in 1..Len(queue'[n]) /\ queue'[n][j - 1].op = "DEL"
         /\ \A i \in 1..Len(queue'[n]) : queue'[n][i].op = "EXPIRE_SADD" => i < j - 1
<1>0. /\ Len(queue[n]) \in Nat /\ Len(queue[n]) >= 1 /\ Len(queue'[n]) \in Nat
      /\ Len(queue'[n]) = Len(queue[n]) - 1 \/ Len(queue'[n]) = Len(queue[n])
  BY Shifting
<1>1. ASSUME NEW k \in 1..Len(queue'[n])
      PROVE  \/ k \in 1..Len(queue[n]) - 1 /\ k + 1 \in 1..Len(queue[n]) /\ queue'[n][k] = queue[n][k + 1]
             \/ k = Len(queue[n]) /\ Len(queue'[n]) = Len(queue[n])
  BY Shifting
<1>2. ASSUME NEW k \in 1..Len(queue'[n]), queue'[n][k].op = "EXPIRE_SADD"
      PROVE  k < j - 1
  <2>1. CASE k \in 1..Len(queue[n]) - 1 /\ k + 1 \in 1..Len(queue[n]) /\ queue'[n][k] = queue[n][k + 1]
    <3>1. k + 1 < j
      BY <1>2, <2>1
    <3>. QED BY <1>0, <2>1, <3>1
  <2>2. CASE k = Len(queue[n]) /\ Len(queue'[n]) = Len(queue[n])
    BY <1>0, <1>2, <2>2 DEF Ends, Popped
  <2>. QED BY <1>1, <2>1, <2>2
<1>3. j - 1 \in 1..Len(queue'[n]) /\ queue'[n][j - 1] = queue[n][j]
  <2>1. j - 1 \in 1..Len(queue[n]) - 1 /\ (j - 1) + 1 = j
    BY <1>0
  <2>. QED BY <2>1, Shifting
<1>. QED BY <1>2, <1>3

LEMMA DelDone ==
  ASSUME Presence!TypeOK, NEW n \in Nodes, Moves(n), Ends(n, "SREM"),
         \A i \in 1..Len(queue[n]) : queue[n][i].op = "EXPIRE_SADD" => i < 1
  PROVE  /\ Len(queue[n]) \in 1..Len(queue'[n]) /\ queue'[n][Len(queue[n])].op = "SREM"
         /\ \A i \in 1..Len(queue'[n]) :
              queue'[n][i].op # "EXPIRE_SADD" /\ (queue'[n][i].op = "SADD" => i < Len(queue[n]))
<1>0. /\ Len(queue[n]) \in Nat /\ Len(queue[n]) >= 1 /\ Len(queue'[n]) \in Nat
      /\ Len(queue'[n]) = Len(queue[n]) - 1 \/ Len(queue'[n]) = Len(queue[n])
  BY Shifting
<1>1. ASSUME NEW k \in 1..Len(queue'[n])
      PROVE  \/ k \in 1..Len(queue[n]) - 1 /\ k + 1 \in 1..Len(queue[n]) /\ queue'[n][k] = queue[n][k + 1]
             \/ k = Len(queue[n]) /\ Len(queue'[n]) = Len(queue[n])
  BY Shifting

<1>2. ASSUME NEW k \in 1..Len(queue'[n])
      PROVE  queue'[n][k].op # "EXPIRE_SADD" /\ (queue'[n][k].op = "SADD" => k < Len(queue[n]))
  <2>1. CASE k \in 1..Len(queue[n]) - 1 /\ k + 1 \in 1..Len(queue[n]) /\ queue'[n][k] = queue[n][k + 1]
    BY <1>0, <2>1
  <2>2. CASE k = Len(queue[n]) /\ Len(queue'[n]) = Len(queue[n])
    BY <2>2 DEF Ends
  <2>. QED BY <1>1, <2>1, <2>2
<1>. QED BY <1>0, <1>2 DEF Ends

LEMMA SRemMoves ==
  ASSUME Presence!TypeOK, NEW n \in Nodes, Moves(n), Popped(n) \/ (~Ends(n, "EXPIRE_SADD") /\ ~Ends(n, "SADD")),
         NEW j \in 1..Len(queue[n]), j # 1, queue[n][j].op = "SREM",
         \A i \in 1..Len(queue[n]) : queue[n][i].op # "EXPIRE_SADD" /\ (queue[n][i].op = "SADD" => i < j)
  PROVE  /\ j - 1 \in 1..Len(queue'[n]) /\ queue'[n][j - 1].op = "SREM"
         /\ \A i \in 1..Len(queue'[n]) :
              queue'[n][i].op # "EXPIRE_SADD" /\ (queue'[n][i].op = "SADD" => i < j - 1)
<1>0. /\ Len(queue[n]) \in Nat /\ Len(queue[n]) >= 1 /\ Len(queue'[n]) \in Nat
      /\ Len(queue'[n]) = Len(queue[n]) - 1 \/ Len(queue'[n]) = Len(queue[n])
  BY Shifting
<1>1. ASSUME NEW k \in 1..Len(queue'[n])
      PROVE  \/ k \in 1..Len(queue[n]) - 1 /\ k + 1 \in 1..Len(queue[n]) /\ queue'[n][k] = queue[n][k + 1]
             \/ k = Len(queue[n]) /\ Len(queue'[n]) = Len(queue[n])
  BY Shifting

<1>2. ASSUME NEW k \in 1..Len(queue'[n])
      PROVE  queue'[n][k].op # "EXPIRE_SADD" /\ (queue'[n][k].op = "SADD" => k < j - 1)
  <2>1. CASE k \in 1..Len(queue[n]) - 1 /\ k + 1 \in 1..Len(queue[n]) /\ queue'[n][k] = queue[n][k + 1]
    <3>1. queue[n][k + 1].op # "EXPIRE_SADD" /\ (queue[n][k + 1].op = "SADD" => k + 1 < j)
      BY <2>1
    <3>. QED BY <1>0, <2>1, <3>1
  <2>2. CASE k = Len(queue[n]) /\ Len(queue'[n]) = Len(queue[n])
    BY <1>0, <2>2 DEF Ends, Popped
  <2>. QED BY <1>1, <2>1, <2>2
<1>3. j - 1 \in 1..Len(queue'[n]) /\ queue'[n][j - 1] = queue[n][j]
  <2>1. j - 1 \in 1..Len(queue[n]) - 1 /\ (j - 1) + 1 = j
    BY <1>0
  <2>. QED BY <2>1, Shifting
<1>. QED BY <1>2, <1>3

LEMMA NotOpeningMoves ==
  ASSUME Presence!TypeOK, NEW n \in Nodes, Moves(n), Popped(n) \/ (~Ends(n, "EXPIRE_SADD") /\ ~Ends(n, "SADD")),
         \A i \in 1..Len(queue[n]) - 1 : queue[n][i + 1].op \notin {"EXPIRE_SADD", "SADD"}
  PROVE  \A i \in 1..Len(queue'[n]) : queue'[n][i].op \notin {"EXPIRE_SADD", "SADD"}
BY Shifting DEF Ends, Popped

(* What follows a reply leads off the set, or stays off it, as before. *)
LEMMA ClosingMoves ==
  ASSUME Presence!TypeOK, NEW n \in Nodes, Moves(n),
         \/ Popped(n) /\ queue[n][1].op # "DEL"
         \/ /\ ~Ends(n, "EXPIRE_SADD")
            /\ Ends(n, "SADD") => queue[n][1].op = "EXPIRE_SADD"
            /\ queue[n][1].op = "DEL" => Ends(n, "SREM")
  PROVE  /\ NotOpening(n) => NotOpening(n)'
         /\ Closing(n) => Closing(n)' \/ (NotOpening(n)' /\ queue[n][1].op = "SREM")
<1>0. Len(queue[n]) \in Nat /\ 1 \in 1..Len(queue[n])
  BY Shifting
<1>1. ASSUME NotOpening(n) PROVE NotOpening(n)'
  <2>1. \A i \in 1..Len(queue[n]) : queue[n][i].op \notin {"EXPIRE_SADD", "SADD"}
    BY <1>1 DEF NotOpening
  <2>2. \A i \in 1..Len(queue[n]) - 1 : queue[n][i + 1].op \notin {"EXPIRE_SADD", "SADD"}
    BY ONLY <1>0, <2>1
  <2>3. Popped(n) \/ (~Ends(n, "EXPIRE_SADD") /\ ~Ends(n, "SADD"))
    BY <1>0, <2>1
  <2>. QED BY <1>1, <2>2, <2>3, NotOpeningMoves DEF NotOpening
<1>2. ASSUME NEW j \in 1..Len(queue[n]), queue[n][j].op = "DEL",
             \A i \in 1..Len(queue[n]) : queue[n][i].op = "EXPIRE_SADD" => i < j
      PROVE  Closing(n)'
  <2>1. CASE j = 1
    BY <1>2, <2>1, DelDone DEF Closing
  <2>2. CASE j # 1
    <3>1. /\ j - 1 \in 1..Len(queue'[n]) /\ queue'[n][j - 1].op = "DEL"
          /\ \A i \in 1..Len(queue'[n]) : queue'[n][i].op = "EXPIRE_SADD" => i < j - 1
      BY <1>2, <2>2, DelMoves
    <3>. QED BY <3>1 DEF Closing
  <2>. QED BY <2>1, <2>2
<1>3. ASSUME NEW j \in 1..Len(queue[n]), queue[n][j].op = "SREM",
             \A i \in 1..Len(queue[n]) : queue[n][i].op # "EXPIRE_SADD" /\ (queue[n][i].op = "SADD" => i < j)
      PROVE  Closing(n)' \/ (NotOpening(n)' /\ queue[n][1].op = "SREM")
  <2>0. Popped(n) \/ (~Ends(n, "EXPIRE_SADD") /\ ~Ends(n, "SADD"))
    BY <1>0, <1>3
  <2>1. CASE j = 1
    <3>1. \A i \in 1..Len(queue[n]) - 1 : queue[n][i + 1].op \notin {"EXPIRE_SADD", "SADD"}
      BY ONLY <1>0, <1>3, <2>1
    <3>. QED BY <1>3, <2>0, <2>1, <3>1, NotOpeningMoves DEF NotOpening
  <2>2. CASE j # 1
    <3>1. /\ j - 1 \in 1..Len(queue'[n]) /\ queue'[n][j - 1].op = "SREM"
          /\ \A i \in 1..Len(queue'[n]) :
               queue'[n][i].op # "EXPIRE_SADD" /\ (queue'[n][i].op = "SADD" => i < j - 1)
      BY <1>3, <2>0, <2>2, SRemMoves
    <3>. QED BY <3>1 DEF Closing
  <2>. QED BY <2>1, <2>2
<1>4. ASSUME Closing(n) PROVE Closing(n)' \/ (NotOpening(n)' /\ queue[n][1].op = "SREM")
  BY <1>2, <1>3, <1>4 DEF Closing
<1>. QED BY <1>1, <1>4

LEMMA SAddMoves ==
  ASSUME Presence!TypeOK, NEW n \in Nodes, Moves(n), Popped(n) \/ ~Ends(n, "SREM"),
         NEW i \in 1..Len(queue[n]), queue[n][i].op = "SADD",
         \A j \in 1..Len(queue[n]) : queue[n][j].op = "SREM" => j < i
  PROVE  /\ i # 1 => i - 1 \in 1..Len(queue'[n]) /\ queue'[n][i - 1].op = "SADD"
         /\ \A j \in 1..Len(queue'[n]) : queue'[n][j].op = "SREM" => j < i - 1
<1>0. /\ Len(queue[n]) \in Nat /\ Len(queue[n]) >= 1 /\ Len(queue'[n]) \in Nat
      /\ Len(queue'[n]) = Len(queue[n]) - 1 \/ Len(queue'[n]) = Len(queue[n])
  BY Shifting
<1>1. ASSUME NEW k \in 1..Len(queue'[n])
      PROVE  \/ k \in 1..Len(queue[n]) - 1 /\ k + 1 \in 1..Len(queue[n]) /\ queue'[n][k] = queue[n][k + 1]
             \/ k = Len(queue[n]) /\ Len(queue'[n]) = Len(queue[n])
  BY Shifting

<1>2. ASSUME NEW k \in 1..Len(queue'[n]), queue'[n][k].op = "SREM"
      PROVE  k < i - 1
  <2>1. CASE k \in 1..Len(queue[n]) - 1 /\ k + 1 \in 1..Len(queue[n]) /\ queue'[n][k] = queue[n][k + 1]
    <3>1. k + 1 < i
      BY <1>2, <2>1
    <3>. QED BY <1>0, <2>1, <3>1
  <2>2. CASE k = Len(queue[n]) /\ Len(queue'[n]) = Len(queue[n])
    BY <1>0, <1>2, <2>2 DEF Ends, Popped
  <2>. QED BY <1>1, <2>1, <2>2
<1>3. ASSUME i # 1 PROVE i - 1 \in 1..Len(queue'[n]) /\ queue'[n][i - 1] = queue[n][i]
  <2>1. i - 1 \in 1..Len(queue[n]) - 1 /\ (i - 1) + 1 = i
    BY <1>0, <1>3
  <2>. QED BY <2>1, Shifting
<1>. QED BY <1>2, <1>3

LEMMA NoSRemMoves ==
  ASSUME Presence!TypeOK, NEW n \in Nodes, Moves(n), Popped(n) \/ ~Ends(n, "SREM"),
         \A j \in 1..Len(queue[n]) : queue[n][j].op # "SREM"
  PROVE  \A j \in 1..Len(queue'[n]) : queue'[n][j].op # "SREM"
BY Shifting DEF Ends, Popped

LEMMA LastSAdd ==
  ASSUME Presence!TypeOK, NEW n \in Nodes, Moves(n), Ends(n, "SADD")
  PROVE  /\ Len(queue[n]) \in 1..Len(queue'[n]) /\ queue'[n][Len(queue[n])].op = "SADD"
         /\ \A j \in 1..Len(queue'[n]) : queue'[n][j].op = "SREM" => j < Len(queue[n])
BY Shifting DEF Ends

LEMMA NoneBelow ==
  ASSUME Presence!TypeOK, NEW n \in Nodes, Moves(n), \A j \in 1..Len(queue'[n]) : queue'[n][j].op = "SREM" => j < 1 - 1
  PROVE  \A j \in 1..Len(queue'[n]) : queue'[n][j].op # "SREM"
BY Shifting

(* What follows a reply leads into the set, or stays in it, as before. *)
LEMMA OpeningMoves ==
  ASSUME Presence!TypeOK, NEW n \in Nodes, Moves(n), Opening(n),
         \/ Popped(n) /\ queue[n][1].op # "EXPIRE_SADD"
         \/ ~Ends(n, "SREM") /\ (queue[n][1].op = "EXPIRE_SADD" => Ends(n, "SADD")),
         queue[n][1].op = "SADD" => online' = TRUE,
         queue[n][1].op \notin {"SREM", "SADD"} => online' = online
  PROVE  Opening(n)'
<1>0. Len(queue[n]) \in Nat /\ 1 \in 1..Len(queue[n])
  BY Shifting
<1>4. ASSUME NEW i \in 1..Len(queue[n]), queue[n][i].op = "EXPIRE_SADD" PROVE Opening(n)'
  <2>1. CASE i = 1
    BY <1>4, <2>1, LastSAdd DEF Opening
  <2>2. CASE i # 1
    <3>0. i - 1 \in 1..Len(queue[n]) - 1 /\ (i - 1) + 1 = i
      BY ONLY <1>0, <2>2, i \in 1..Len(queue[n])
    <3>1. i - 1 \in 1..Len(queue'[n]) /\ queue'[n][i - 1] = queue[n][i]
      BY <3>0, Shifting
    <3>. QED BY <1>4, <3>1 DEF Opening
  <2>. QED BY <2>1, <2>2
<1>5. ASSUME NEW i \in 1..Len(queue[n]), queue[n][i].op = "SADD",
             \A j \in 1..Len(queue[n]) : queue[n][j].op = "SREM" => j < i
      PROVE  Opening(n)'
  <2>1. /\ i # 1 => i - 1 \in 1..Len(queue'[n]) /\ queue'[n][i - 1].op = "SADD"
        /\ \A j \in 1..Len(queue'[n]) : queue'[n][j].op = "SREM" => j < i - 1
    BY <1>5, SAddMoves
  <2>2. CASE i = 1
    <3>1. \A j \in 1..Len(queue'[n]) : queue'[n][j].op # "SREM"
      BY <2>1, <2>2, NoneBelow
    <3>. QED BY <1>5, <2>2, <3>1 DEF Opening
  <2>3. CASE i # 1
    BY <2>1, <2>3 DEF Opening
  <2>. QED BY <2>2, <2>3
<1>6. ASSUME online, \A j \in 1..Len(queue[n]) : queue[n][j].op # "SREM" PROVE Opening(n)'
  <2>1. \A j \in 1..Len(queue'[n]) : queue'[n][j].op # "SREM"
    BY <1>6, NoSRemMoves
  <2>2. queue[n][1].op # "SREM"
    BY <1>0, <1>6
  <2>3. online'
    BY <1>6, <2>2
  <2>. QED BY <2>1, <2>3 DEF Opening
<1>. QED BY <1>4, <1>5, <1>6 DEF Opening

LEMMA SentMoves ==
  ASSUME Presence!TypeOK, NEW n \in Nodes, Moves(n),
         Len(queue'[n]) = Len(queue[n]) - 1 \/ queue'[n][Len(queue[n])].op # "DEL",
         Presence!Sent("DEL")'
  PROVE  Presence!Sent("DEL")
<1>0. PICK m \in Nodes : \E i \in DOMAIN queue'[m] : queue'[m][i].op = "DEL"
  BY DEF Presence!Sent
<1>1. PICK i \in DOMAIN queue'[m] : queue'[m][i].op = "DEL"
  BY <1>0
<1>2. queue'[m] \in Seq(Cell) /\ queue[m] \in Seq(Cell)
  BY QueueType DEF Moves
<1>3. CASE m = n
  <2>1. i + 1 \in 1..Len(queue[n]) /\ queue'[n][i] = queue[n][i + 1]
    BY <1>1, <1>2, <1>3 DEF Moves
  <2>. QED BY <1>1, <1>2, <1>3, <2>1 DEF Presence!Sent
<1>4. CASE m # n
  <2>1. queue'[m] = queue[m]
    BY <1>4 DEF Moves
  <2>. QED BY <1>1, <2>1 DEF Presence!Sent
<1>. QED BY <1>3, <1>4

(***************************************************************************)
(* The steps                                                               *)
(***************************************************************************)

(* The parts of the invariant that a step of Redis can disturb in the queue of
   another node, or when the user has met several. *)
LEMMA OneMet ==
  ASSUME Basic, Presence!ConstantsOK, NEW n \in Nodes, NEW m \in Nodes \ {n}, queue[n] # <<>>, Only(m)
  PROVE  FALSE
<1>1. queue[n] \in Seq(Cell)
  BY QueueType DEF Basic
<1>2. 1 \in 1..Len(queue[n]) /\ queue[n][1] \in Cell
  BY <1>1
<1>3. socket[queue[n][1].socket].node = n /\ queue[n][1].socket \in Sockets
  BY <1>2 DEF Basic, Lined, Cell
<1>. QED BY <1>3 DEF Only, Presence!ConstantsOK

Rest == UNCHANGED <<expired, crashed>>

(* A step of Redis that counts nothing. *)
LEMMA Uncounted ==
  ASSUME PresenceInv, Presence!ConstantsOK, NEW n \in Nodes, Continues(n), Presence!TypeOK',
         UNCHANGED <<socket, expired, crashed>>, crossed' = crossed, queue[n] # <<>>,
         queue[n][1].op \notin {"INCR", "DECR"},
         \/ count'.value = count.value /\ stale' = stale
         \/ count'.value = 0 /\ stale' = FALSE /\ queue[n][1].op = "DEL",
         ~Ends(n, "DEL"),
         Closing(n) \/ (~online /\ NotOpening(n)) => Closing(n)' \/ (~online' /\ NotOpening(n)'),
         queue[n][1].op # "DEL" /\ Opening(n) => Opening(n)'
  PROVE  PresenceInv'
<1> USE DEF PresenceInv
<1>1. Presence!Counted' = Presence!Counted
  BY CountedAfter
<1>2. Basic'
  <2>1. \A m \in Nodes : Lined(m)'
    BY StaysLined
  <2>. QED BY <2>1 DEF Basic
<1>3. Presence!Sent("DEL")' => Presence!Sent("DEL")
  <2>1. Popped(n) \/ queue'[n][Len(queue[n])].op # "DEL"
    BY DEF Continues, Ends, Moves, Popped
  <2>. QED BY <2>1, SentMoves DEF Continues, Basic, Popped
<1>4. queue[n][1].op = "DEL" => Presence!Sent("DEL")
  <2>1. queue[n] \in Seq(Cell)
    BY QueueType DEF Basic
  <2>2. 1 \in DOMAIN queue[n]
    BY <2>1
  <2>. QED BY <2>2 DEF Presence!Sent
<1>5. (Smooth' => Smooth) /\ (Only(n)' => Only(n))
  BY DEF Smooth, Only
<1>6. Counts'
  <2>1. Cardinality(Presence!Counted) \in Nat /\ (Presence!Counted = {} <=> Cardinality(Presence!Counted) = 0)
    BY Cardinal
  <2>2. stale' => crashed'
    BY DEF Counts
  <2>3. ~stale' => count'.value <= Cardinality(Presence!Counted)
    BY <2>1 DEF Counts
  <2>4. Smooth' => count'.value = Cardinality(Presence!Counted)
    BY <1>4, <1>5, <2>1 DEF Counts
  <2>. QED BY <1>1, <1>3, <1>5, <2>2, <2>3, <2>4 DEF Counts
<1>7. Leaves(n)'
  BY <1>1, <1>5 DEF Leaves
<1>8. Stays(n)'
  BY <1>1, <1>4, <1>5 DEF Stays, Counts
<1>9. ASSUME NEW m \in Nodes \ {n} PROVE Leaves(m)' /\ Stays(m)'
  <2>1. ~Only(m)
    BY OneMet
  <2>2. ~Only(m)'
    BY <2>1 DEF Only
  <2>. QED BY <2>2 DEF Leaves, Stays
<1>. QED BY <1>2, <1>6, <1>7, <1>8, <1>9

LEMMA QueueTypeAfter ==
  ASSUME Presence!TypeOK, queue' \in [Nodes -> Seq(Cell)], socket' = socket,
         count' \in [set : BOOLEAN, value : Int, ttl : BOOLEAN], ~count'.set => count' = Presence!Absent,
         online' \in BOOLEAN, crossed' \in BOOLEAN, stale' \in BOOLEAN, UNCHANGED <<expired, crashed>>
  PROVE  Presence!TypeOK'
<1>1. queue' \in [Nodes -> Seq([op : Presence!Ops, socket : Sockets])]
  BY DEF Cell
<1>2. {online', crossed', stale', expired', crashed'} \subseteq BOOLEAN
  <2>1. {online, crossed, stale, expired, crashed} \subseteq BOOLEAN
    BY DEF Presence!TypeOK
  <2>. QED BY <2>1
<1>3. socket' \in [Sockets -> [node : Nodes \union {NoNode}, state : {"new", "open", "closed"}]]
  BY DEF Presence!TypeOK
<1>. QED BY <1>1, <1>2, <1>3 DEF Presence!TypeOK, Presence!Absent

LEMMA Flags ==
  ASSUME Presence!TypeOK
  PROVE  /\ online \in BOOLEAN /\ crossed \in BOOLEAN /\ stale \in BOOLEAN /\ expired \in BOOLEAN /\ crashed \in BOOLEAN
         /\ count \in [set : BOOLEAN, value : Int, ttl : BOOLEAN] /\ (~count.set => count = Presence!Absent)
BY DEF Presence!TypeOK, Presence!Absent

LEMMA Distinct ==
  ASSUME NEW n \in Nodes, NEW a, NEW b, Ends(n, a), a # b PROVE ~Ends(n, b)
BY DEF Ends

LEMMA ExpireKeeps == ASSUME PresenceInv, Presence!ConstantsOK, NEW n \in Nodes, Presence!Expire(n) PROVE PresenceInv'
<1> USE DEF PresenceInv, Basic
<1>1. Presence!TypeOK
  OBVIOUS
<1>2. /\ count' \in [set : BOOLEAN, value : Int, ttl : BOOLEAN] /\ count'.value = count.value
      /\ ~count'.set => count' = Presence!Absent
  BY <1>1, Flags DEF Presence!Expire, Presence!Absent
<1>3. UNCHANGED <<socket, online, crossed, stale, expired, crashed>>
  BY DEF Presence!Expire
<1>o. online' <=> online
  BY <1>3
<1>4. CASE Presence!Executes(n, "EXPIRE")
  <2>1. queue[n] # <<>> /\ queue[n][1].op = "EXPIRE"
    BY <1>4, First DEF Presence!Ops
  <2>2. Presence!Replied(n)
    BY <1>4 DEF Presence!Expire
  <2>3. Moves(n) /\ Popped(n) /\ Continues(n)
    BY <2>1, <2>2, Replying DEF Popped, Continues
  <2>4. ~Ends(n, "DEL")
    BY <2>3 DEF Popped, Ends, Moves
  <2>5. (NotOpening(n) => NotOpening(n)') /\ (Closing(n) => Closing(n)')
    BY <2>1, <2>3, ClosingMoves
  <2>6. Opening(n) => Opening(n)'
    BY <1>3, <2>1, <2>3, OpeningMoves
  <2>7. Presence!TypeOK'
    BY <1>2, <1>3, <2>3, Flags, QueueTypeAfter DEF Moves
  <2>8. Closing(n) \/ (~online /\ NotOpening(n)) => Closing(n)' \/ (~online' /\ NotOpening(n)')
    BY <1>o, <2>5
  <2>. QED BY <1>2, <1>3, <2>1, <2>3, <2>4, <2>6, <2>7, <2>8, Uncounted
<1>5. CASE Presence!Executes(n, "EXPIRE_SADD")
  <2>1. queue[n] # <<>> /\ queue[n][1].op = "EXPIRE_SADD"
    BY <1>5, First DEF Presence!Ops
  <2>2. Presence!ThenSend(n, "SADD")
    BY <1>5, <2>1 DEF Presence!Expire, Presence!Executes
  <2>3. Moves(n) /\ Follows(n) /\ Ends(n, "SADD")
    BY <2>1, <2>2, SendingNext DEF Ends, Follows, Presence!Ops
  <2>c. Continues(n)
    BY <2>3 DEF Continues, Ends
  <2>4. ~Ends(n, "DEL") /\ ~Ends(n, "SREM") /\ ~Ends(n, "EXPIRE_SADD")
    BY <2>3 DEF Ends
  <2>5. (NotOpening(n) => NotOpening(n)') /\ (Closing(n) => Closing(n)')
    BY <2>1, <2>3, <2>4, ClosingMoves
  <2>6. Opening(n) => Opening(n)'
    BY <1>3, <2>1, <2>3, <2>4, OpeningMoves
  <2>7. Presence!TypeOK'
    BY <1>2, <1>3, <2>3, Flags, QueueTypeAfter DEF Moves
  <2>8. Closing(n) \/ (~online /\ NotOpening(n)) => Closing(n)' \/ (~online' /\ NotOpening(n)')
    BY <1>o, <2>5
  <2>. QED BY <1>2, <1>3, <2>1, <2>c, <2>4, <2>6, <2>7, <2>8, Uncounted
<1>. QED BY <1>4, <1>5 DEF Presence!Expire

LEMMA SAddKeeps == ASSUME PresenceInv, Presence!ConstantsOK, NEW n \in Nodes, Presence!SAdd(n) PROVE PresenceInv'
<1> USE DEF PresenceInv, Basic
<1>3. UNCHANGED <<socket, count, crossed, stale, expired, crashed>> /\ online' = TRUE
  BY DEF Presence!SAdd
<1>1. queue[n] # <<>> /\ queue[n][1].op = "SADD" /\ 1 \in 1..Len(queue[n])
  <2>1. queue[n] # <<>> /\ queue[n][1].op = "SADD" /\ Len(queue[n]) >= 1 /\ Len(queue[n]) \in Nat
    BY First DEF Presence!Ops, Presence!SAdd
  <2>. QED BY <2>1
<1>2. Presence!Replied(n)
  BY DEF Presence!SAdd
<1>4. Moves(n) /\ Popped(n) /\ Continues(n)
  BY <1>1, <1>2, Replying DEF Popped, Continues
<1>5. ~Ends(n, "DEL")
  BY <1>4 DEF Popped, Ends, Moves
<1>6. ~NotOpening(n)
  BY <1>1 DEF NotOpening
<1>7. Closing(n) => Closing(n)'
  BY <1>1, <1>4, <1>6, ClosingMoves
<1>8. Opening(n) => Opening(n)'
  BY <1>1, <1>3, <1>4, OpeningMoves
<1>9. Presence!TypeOK'
  BY <1>3, <1>4, Flags, QueueTypeAfter DEF Moves
<1>a. Closing(n) \/ (~online /\ NotOpening(n)) => Closing(n)' \/ (~online' /\ NotOpening(n)')
  BY <1>6, <1>7
<1>. QED BY <1>1, <1>3, <1>4, <1>5, <1>8, <1>9, <1>a, Uncounted

LEMMA SRemKeeps == ASSUME PresenceInv, Presence!ConstantsOK, NEW n \in Nodes, Presence!SRem(n) PROVE PresenceInv'
<1> USE DEF PresenceInv, Basic
<1>3. UNCHANGED <<socket, count, crossed, stale, expired, crashed>> /\ online' = FALSE
  BY DEF Presence!SRem
<1>1. queue[n] # <<>> /\ queue[n][1].op = "SREM"
  BY First DEF Presence!Ops, Presence!SRem
<1>2. Presence!Replied(n)
  BY DEF Presence!SRem
<1>4. Moves(n) /\ Popped(n) /\ Continues(n)
  BY <1>1, <1>2, Replying DEF Popped, Continues
<1>5. ~Ends(n, "DEL")
  BY <1>4 DEF Popped, Ends, Moves
<1>7. (NotOpening(n) => NotOpening(n)') /\ (Closing(n) => Closing(n)' \/ NotOpening(n)')
  BY <1>1, <1>4, ClosingMoves
<1>8. Opening(n) => Opening(n)'
  BY <1>1, <1>4, OpeningMoves
<1>9. Presence!TypeOK'
  BY <1>3, <1>4, Flags, QueueTypeAfter DEF Moves
<1>a. Closing(n) \/ (~online /\ NotOpening(n)) => Closing(n)' \/ (~online' /\ NotOpening(n)')
  BY <1>3, <1>7
<1>. QED BY <1>1, <1>3, <1>4, <1>5, <1>8, <1>9, <1>a, Uncounted

LEMMA DelKeeps == ASSUME PresenceInv, Presence!ConstantsOK, NEW n \in Nodes, Presence!Del(n) PROVE PresenceInv'
<1> USE DEF PresenceInv, Basic
<1>3. UNCHANGED <<socket, online, crossed, expired, crashed>> /\ count' = Presence!Absent /\ stale' = FALSE
  BY DEF Presence!Del
<1>o. online' <=> online
  BY <1>3
<1>1. queue[n] # <<>> /\ queue[n][1].op = "DEL"
  BY First DEF Presence!Ops, Presence!Del
<1>2. Presence!ThenSend(n, "SREM")
  BY DEF Presence!Del
<1>4. Moves(n) /\ Follows(n) /\ Ends(n, "SREM")
  BY <1>1, <1>2, SendingNext DEF Ends, Follows, Presence!Ops
<1>c. Continues(n)
  BY <1>4 DEF Continues, Ends
<1>5. ~Ends(n, "DEL") /\ ~Ends(n, "SADD") /\ ~Ends(n, "EXPIRE_SADD")
  BY <1>4 DEF Ends
<1>7. (NotOpening(n) => NotOpening(n)') /\ (Closing(n) => Closing(n)')
  BY <1>1, <1>4, <1>5, ClosingMoves
<1>9. Presence!TypeOK'
  <2>1. Presence!Absent \in [set : BOOLEAN, value : Int, ttl : BOOLEAN]
    BY DEF Presence!Absent
  <2>. QED BY <1>3, <1>4, <2>1, Flags, QueueTypeAfter DEF Moves
<1>a. Closing(n) \/ (~online /\ NotOpening(n)) => Closing(n)' \/ (~online' /\ NotOpening(n)')
  BY <1>o, <1>7
<1>b. count'.value = 0
  BY <1>3 DEF Presence!Absent
<1>. QED BY <1>1, <1>3, <1>c, <1>5, <1>9, <1>a, <1>b, Uncounted

LEMMA IncrKeeps == ASSUME PresenceInv, Presence!ConstantsOK, NEW n \in Nodes, Presence!Incr(n) PROVE PresenceInv'
<1> USE DEF PresenceInv, Basic
<1> DEFINE s == queue[n][1].socket
<1> DEFINE op == IF count.value + 1 = 1 THEN "EXPIRE_SADD" ELSE "EXPIRE"
<1>3. /\ UNCHANGED <<socket, online, stale, expired, crashed>>
      /\ count' = [count EXCEPT !.set = TRUE, !.value = count.value + 1]
  BY DEF Presence!Incr
<1>x. crossed' = (crossed \/ Presence!Sent("DEL"))
  BY DEF Presence!Incr
<1>1. queue[n] # <<>> /\ queue[n][1].op = "INCR" /\ Len(queue[n]) \in Nat /\ Len(queue[n]) >= 1
  BY First DEF Presence!Ops, Presence!Incr
<1>2. Presence!ThenSend(n, op)
  BY DEF Presence!Incr
<1>p. op \in {"EXPIRE_SADD", "EXPIRE"} /\ (count.value = 0 => op = "EXPIRE_SADD")
  OBVIOUS
<1> HIDE DEF op
<1>4. Moves(n) /\ Follows(n) /\ Ends(n, op)
  BY <1>1, <1>2, <1>p, SendingNext DEF Ends, Follows, Presence!Ops
<1>c. Continues(n)
  BY <1>4, <1>p DEF Continues, Ends
<1>5. ~Ends(n, "DEL") /\ ~Ends(n, "SADD") /\ ~Ends(n, "SREM")
  BY <1>4, <1>p DEF Ends
<1>6. Presence!Counted' = Presence!Counted \union {s} /\ s \notin Presence!Counted
  BY <1>1, <1>3, <1>c, CountedAfter
<1>v. /\ count' \in [set : BOOLEAN, value : Int, ttl : BOOLEAN] /\ count'.value = count.value + 1 /\ count'.set = TRUE
      /\ count.value \in Int
  <2>1. count \in [set : BOOLEAN, value : Int, ttl : BOOLEAN]
    BY Flags
  <2>2. count' = [set |-> TRUE, value |-> count.value + 1, ttl |-> count.ttl]
    BY <1>3, <2>1
  <2>3. count.value + 1 \in Int /\ count.ttl \in BOOLEAN /\ count.value \in Int
    BY <2>1
  <2>. QED BY <2>2, <2>3
<1>7. Presence!TypeOK'
  <2>1. crossed' \in BOOLEAN /\ stale' \in BOOLEAN /\ online' \in BOOLEAN
    BY <1>3, <1>x, Flags
  <2>. QED BY <1>3, <1>4, <1>v, <2>1, QueueTypeAfter DEF Moves
<1>8. Basic'
  <2>1. \A m \in Nodes : Lined(m)'
    BY <1>3, <1>c, StaysLined
  <2>. QED BY <1>3, <1>7, <2>1
<1>9. Smooth' => Smooth /\ ~Presence!Sent("DEL")
  BY <1>3, <1>x DEF Smooth
<1>s. Presence!Sent("DEL")' => Presence!Sent("DEL")
  <2>1. Popped(n) \/ queue'[n][Len(queue[n])].op # "DEL"
    BY <1>4, <1>5 DEF Ends
  <2>. QED BY <1>4, <2>1, SentMoves DEF Popped
<1>a. Counts'
  <2>1. Cardinality(Presence!Counted) \in Nat /\ Cardinality(Presence!Counted') = Cardinality(Presence!Counted) + 1
    BY <1>6, Cardinal
  <2>2. stale' => crashed'
    BY <1>3 DEF Counts
  <2>3. ~stale' => count'.value <= Cardinality(Presence!Counted')
    BY <1>3, <1>v, <2>1 DEF Counts
  <2>4. Smooth' => count'.value = Cardinality(Presence!Counted')
    BY <1>v, <1>9, <2>1 DEF Counts
  <2>. QED BY <1>9, <1>s, <2>2, <2>3, <2>4 DEF Counts
<1>b. Leaves(n)'
  BY <1>6 DEF Leaves
<1>d. Stays(n)'
  <2>1. SUFFICES ASSUME Only(n), Smooth, Only(n)', Smooth' PROVE Opening(n)'
    BY <1>3, <1>9 DEF Stays, Only
  <2>2. CASE Presence!Counted = {}
    <3>1. count.value = 0
      BY <2>1, <2>2, Cardinal DEF Counts
    <3>2. op = "EXPIRE_SADD"
      BY <1>p, <3>1
    <3>3. Len(queue[n]) \in 1..Len(queue'[n]) /\ queue'[n][Len(queue[n])].op = "EXPIRE_SADD"
      BY <1>1, <1>4, <3>2 DEF Ends
    <3>. QED BY <3>3 DEF Opening
  <2>3. CASE Presence!Counted # {}
    <3>1. Opening(n)
      BY <2>1, <2>3 DEF Stays
    <3>. QED BY <1>1, <1>3, <1>4, <1>5, <3>1, OpeningMoves
  <2>. QED BY <2>2, <2>3
<1>e. ASSUME NEW m \in Nodes \ {n} PROVE Leaves(m)' /\ Stays(m)'
  <2>1. ~Only(m)
    BY <1>1, OneMet
  <2>2. ~Only(m)'
    BY <1>3, <2>1 DEF Only
  <2>. QED BY <2>2 DEF Leaves, Stays
<1>. QED BY <1>8, <1>a, <1>b, <1>d, <1>e

LEMMA DecrKeeps == ASSUME PresenceInv, Presence!ConstantsOK, NEW n \in Nodes, Presence!Decr(n) PROVE PresenceInv'
<1> USE DEF PresenceInv, Basic
<1> DEFINE s == queue[n][1].socket
<1>3. /\ UNCHANGED <<socket, online, crossed, stale, expired, crashed>>
      /\ count' = [count EXCEPT !.set = TRUE, !.value = count.value - 1]
  BY DEF Presence!Decr
<1>1. queue[n] # <<>> /\ queue[n][1].op = "DECR" /\ Len(queue[n]) \in Nat /\ Len(queue[n]) >= 1
  BY First DEF Presence!Ops, Presence!Decr
<1>2. /\ count.value - 1 <= 0 => Presence!ThenSend(n, "DEL")
      /\ ~(count.value - 1 <= 0) => Presence!Replied(n)
  BY DEF Presence!Decr
<1>4. /\ count.value - 1 <= 0 => Moves(n) /\ Follows(n) /\ Ends(n, "DEL")
      /\ ~(count.value - 1 <= 0) => Moves(n) /\ Popped(n)
  BY <1>1, <1>2, SendingNext, Replying DEF Ends, Follows, Popped, Presence!Ops
<1>c. Moves(n) /\ Continues(n)
  BY <1>4 DEF Continues, Ends, Popped
<1>6. Presence!Counted' = Presence!Counted \ {s} /\ s \in Presence!Counted
  BY <1>1, <1>3, <1>c, CountedAfter
<1>v. /\ count' \in [set : BOOLEAN, value : Int, ttl : BOOLEAN] /\ count'.value = count.value - 1 /\ count'.set = TRUE
      /\ count.value \in Int
  <2>1. count \in [set : BOOLEAN, value : Int, ttl : BOOLEAN]
    BY Flags
  <2>2. count' = [set |-> TRUE, value |-> count.value - 1, ttl |-> count.ttl]
    BY <1>3, <2>1
  <2>3. count.value - 1 \in Int /\ count.ttl \in BOOLEAN /\ count.value \in Int
    BY <2>1
  <2>. QED BY <2>2, <2>3
<1>7. Presence!TypeOK'
  <2>1. crossed' \in BOOLEAN /\ stale' \in BOOLEAN /\ online' \in BOOLEAN
    BY <1>3, Flags
  <2>. QED BY <1>3, <1>c, <1>v, <2>1, QueueTypeAfter DEF Moves
<1>8. Basic'
  <2>1. \A m \in Nodes : Lined(m)'
    BY <1>3, <1>c, StaysLined
  <2>. QED BY <1>3, <1>7, <2>1
<1>9. Smooth' => Smooth
  BY <1>3 DEF Smooth
<1>k. /\ Cardinality(Presence!Counted) \in Nat /\ Cardinality(Presence!Counted') = Cardinality(Presence!Counted) - 1
      /\ Presence!Counted' = {} <=> Cardinality(Presence!Counted') = 0
  <2>1. Presence!Counted' = {} <=> Presence!Counted = {s}
    BY <1>6
  <2>2. Cardinality({s}) = 1
    BY FS_Singleton
  <2>3. Cardinality(Presence!Counted') = 0 => Presence!Counted' = {}
    <3>1. IsFiniteSet(Presence!Counted')
      BY <1>6, Cardinal, FS_Subset
    <3>. QED BY <3>1, FS_EmptySet
  <2>4. Cardinality(Presence!Counted) \in Nat /\ Cardinality(Presence!Counted \ {s}) = Cardinality(Presence!Counted) - 1
    BY <1>6, Cardinal
  <2>5. Presence!Counted' = {} => Cardinality(Presence!Counted') = 0
    BY FS_EmptySet
  <2>. QED BY <1>6, <2>3, <2>4, <2>5
<1>a. Counts'
  <2>2. stale' => crashed'
    BY <1>3 DEF Counts
  <2>3. ~stale' => count'.value <= Cardinality(Presence!Counted')
    BY <1>3, <1>v, <1>k DEF Counts
  <2>4. Smooth' => count'.value = Cardinality(Presence!Counted')
    BY <1>v, <1>9, <1>k DEF Counts
  <2>5. ASSUME Smooth', Presence!Counted' # {} PROVE ~Presence!Sent("DEL")'
    <3>1. Smooth /\ Presence!Counted # {}
      BY <1>6, <1>9, <2>5
    <3>2. Cardinality(Presence!Counted') \in Nat /\ Cardinality(Presence!Counted') # 0
      BY <1>k, <2>5, Cardinal, <1>6
    <3>3. ~(count.value - 1 <= 0)
      BY <1>k, <1>v, <3>1, <3>2 DEF Counts
    <3>. QED BY <1>4, <3>1, <3>3, SentMoves DEF Counts, Popped
  <2>. QED BY <2>2, <2>3, <2>4, <2>5 DEF Counts
<1>b. Leaves(n)'
  <2>1. SUFFICES ASSUME Presence!Counted' = {}, ~crashed' PROVE Closing(n)'
    BY DEF Leaves
  <2>2. count.value <= Cardinality(Presence!Counted)
    BY <1>3, <2>1 DEF Counts
  <2>3. count.value - 1 <= 0
    BY <1>k, <1>v, <2>1, <2>2
  <2>4. Len(queue'[n]) = Len(queue[n]) /\ queue'[n][Len(queue[n])].op = "DEL"
    BY <1>4, <2>3 DEF Ends
  <2>5. \A i \in 1..Len(queue'[n]) : queue'[n][i].op = "EXPIRE_SADD" => i < Len(queue[n])
    BY <1>1, <2>4
  <2>6. Len(queue[n]) \in 1..Len(queue'[n])
    BY <1>1, <2>4
  <2>. QED BY <2>4, <2>5, <2>6 DEF Closing
<1>d. Stays(n)'
  <2>1. SUFFICES ASSUME Only(n), Smooth, Presence!Counted' # {} PROVE Opening(n)'
    BY <1>3, <1>9 DEF Stays, Only
  <2>2. Cardinality(Presence!Counted') \in Nat /\ Cardinality(Presence!Counted') # 0
    BY <1>k, <2>1, Cardinal, <1>6
  <2>3. ~(count.value - 1 <= 0)
    BY <1>k, <1>v, <2>1, <2>2 DEF Counts
  <2>4. Opening(n)
    BY <1>6, <2>1 DEF Stays
  <2>. QED BY <1>1, <1>3, <1>4, <2>3, <2>4, OpeningMoves
<1>e. ASSUME NEW m \in Nodes \ {n} PROVE Leaves(m)' /\ Stays(m)'
  <2>1. ~Only(m)
    BY <1>1, OneMet
  <2>2. ~Only(m)'
    BY <1>3, <2>1 DEF Only
  <2>. QED BY <2>2 DEF Leaves, Stays
<1>. QED BY <1>8, <1>a, <1>b, <1>d, <1>e

(* A handler that sends its first command changes what is counted later only. *)
LEMMA Unanswered ==
  ASSUME PresenceInv, Presence!ConstantsOK, NEW n \in Nodes, NEW c \in Cell,
         queue' = [queue EXCEPT ![n] = Append(queue[n], c)], c.op \in {"INCR", "DECR"},
         UNCHANGED <<count, online, crossed, stale, expired, crashed>>,
         \A m \in Nodes : Only(m)' => Only(m) /\ m = n, Presence!Counted' = Presence!Counted, Basic'
  PROVE  PresenceInv'
<1> USE DEF PresenceInv
<1>1. /\ queue' \in [Nodes -> Seq(Cell)]
      /\ \A m \in Nodes \ {n} : queue'[m] = queue[m]
      /\ Len(queue'[n]) = Len(queue[n]) + 1
      /\ \A i \in 1..Len(queue[n]) : queue'[n][i] = queue[n][i]
      /\ queue'[n][Len(queue[n]) + 1] = c
      /\ Len(queue[n]) \in Nat
  BY Sending, QueueType DEF Basic
<1>2. ASSUME NEW i \in 1..Len(queue'[n])
      PROVE  \/ i \in 1..Len(queue[n]) /\ queue'[n][i] = queue[n][i]
             \/ i = Len(queue[n]) + 1 /\ queue'[n][i] = c
  BY <1>1
<1>3. \A i \in 1..Len(queue[n]) : i \in 1..Len(queue'[n])
  BY <1>1
<1>4. Presence!Sent("DEL")' => Presence!Sent("DEL")
  <2>1. SUFFICES ASSUME NEW m \in Nodes, NEW i \in DOMAIN queue'[m], queue'[m][i].op = "DEL" PROVE Presence!Sent("DEL")
    BY DEF Presence!Sent
  <2>2. queue'[m] \in Seq(Cell) /\ queue[m] \in Seq(Cell)
    BY <1>1, QueueType DEF Basic
  <2>3. i \in 1..Len(queue'[m])
    BY <2>2
  <2>4. i \in 1..Len(queue[m]) /\ queue'[m][i] = queue[m][i]
    BY <1>1, <1>2, <2>1, <2>3
  <2>5. i \in DOMAIN queue[m]
    BY <2>2, <2>4
  <2>. QED BY <2>1, <2>4, <2>5 DEF Presence!Sent
<1>5. Counts'
  BY <1>4 DEF Counts, Smooth
<1>6. NotOpening(n) => NotOpening(n)'
  BY <1>2 DEF NotOpening
<1>7. Closing(n) => Closing(n)'
  <2>1. ASSUME NEW j \in 1..Len(queue[n]), queue[n][j].op = "DEL",
               \A i \in 1..Len(queue[n]) : queue[n][i].op = "EXPIRE_SADD" => i < j
        PROVE  Closing(n)'
    <3>1. \A i \in 1..Len(queue'[n]) : queue'[n][i].op = "EXPIRE_SADD" => i < j
      BY <1>2, <2>1
    <3>2. j \in 1..Len(queue'[n]) /\ queue'[n][j].op = "DEL"
      BY <1>1, <1>3, <2>1
    <3>. QED BY <3>1, <3>2 DEF Closing
  <2>2. ASSUME NEW j \in 1..Len(queue[n]), queue[n][j].op = "SREM",
               \A i \in 1..Len(queue[n]) : queue[n][i].op # "EXPIRE_SADD" /\ (queue[n][i].op = "SADD" => i < j)
        PROVE  Closing(n)'
    <3>1. \A i \in 1..Len(queue'[n]) : queue'[n][i].op # "EXPIRE_SADD" /\ (queue'[n][i].op = "SADD" => i < j)
      BY <1>2, <2>2
    <3>2. j \in 1..Len(queue'[n]) /\ queue'[n][j].op = "SREM"
      BY <1>1, <1>3, <2>2
    <3>. QED BY <3>1, <3>2 DEF Closing
  <2>. QED BY <2>1, <2>2 DEF Closing
<1>8. Opening(n) => Opening(n)'
  <2>1. ASSUME NEW i \in 1..Len(queue[n]), queue[n][i].op = "EXPIRE_SADD" PROVE Opening(n)'
    <3>1. i \in 1..Len(queue'[n]) /\ queue'[n][i].op = "EXPIRE_SADD"
      BY <1>1, <1>3, <2>1
    <3>. QED BY <3>1 DEF Opening
  <2>2. ASSUME NEW i \in 1..Len(queue[n]), queue[n][i].op = "SADD",
               \A j \in 1..Len(queue[n]) : queue[n][j].op = "SREM" => j < i
        PROVE  Opening(n)'
    <3>1. \A j \in 1..Len(queue'[n]) : queue'[n][j].op = "SREM" => j < i
      BY <1>2, <2>2
    <3>2. i \in 1..Len(queue'[n]) /\ queue'[n][i].op = "SADD"
      BY <1>1, <1>3, <2>2
    <3>. QED BY <3>1, <3>2 DEF Opening
  <2>3. ASSUME online, \A j \in 1..Len(queue[n]) : queue[n][j].op # "SREM" PROVE Opening(n)'
    <3>1. \A j \in 1..Len(queue'[n]) : queue'[n][j].op # "SREM"
      BY <1>2, <2>3
    <3>2. online'
      BY <2>3
    <3>. QED BY <3>1, <3>2 DEF Opening
  <2>. QED BY <2>1, <2>2, <2>3 DEF Opening
<1>9. ASSUME NEW m \in Nodes PROVE Leaves(m)' /\ Stays(m)'
  <2>1. ASSUME Only(m)' PROVE Leaves(m)' /\ Stays(m)'
    <3>1. Only(n) /\ m = n
      BY <2>1
    <3>2. online' <=> online
      OBVIOUS
    <3>3. (Smooth' => Smooth) /\ (crashed' <=> crashed)
      BY DEF Smooth
    <3>4. Leaves(n)'
      BY <1>6, <1>7, <3>1, <3>2, <3>3 DEF Leaves
    <3>5. Stays(n)'
      BY <1>8, <3>1, <3>3 DEF Stays
    <3>. QED BY <3>1, <3>4, <3>5
  <2>2. ASSUME ~Only(m)' PROVE Leaves(m)' /\ Stays(m)'
    BY <2>2 DEF Leaves, Stays
  <2>. QED BY <2>1, <2>2
<1>. QED BY <1>5, <1>9

(* What is pending once more is sent. *)
LEMMA PendingMore ==
  ASSUME Presence!TypeOK, NEW n \in Nodes, NEW c \in Cell,
         queue' = [queue EXCEPT ![n] = Append(queue[n], c)], NEW op \in {"INCR", "DECR"}
  PROVE  Presence!Pending(op)' = Presence!Pending(op) \union (IF c.op = op THEN {c.socket} ELSE {})
<1>1. /\ queue' \in [Nodes -> Seq(Cell)]
      /\ \A m \in Nodes \ {n} : queue'[m] = queue[m]
      /\ Len(queue'[n]) = Len(queue[n]) + 1
      /\ \A i \in 1..Len(queue[n]) : queue'[n][i] = queue[n][i]
      /\ queue'[n][Len(queue[n]) + 1] = c
      /\ Len(queue[n]) \in Nat
  BY Sending, QueueType
<1>2. \A m \in Nodes : DOMAIN queue[m] = 1..Len(queue[m]) /\ Len(queue[m]) \in Nat
  <2>1. \A m \in Nodes : queue[m] \in Seq(Cell)
    BY QueueType
  <2>. QED BY <2>1
<1>3. \A m \in Nodes : DOMAIN queue'[m] = 1..Len(queue'[m])
  <2>1. \A m \in Nodes : queue'[m] \in Seq(Cell)
    BY <1>1
  <2>. QED BY <2>1
<1>4. ASSUME NEW s \in Sockets, NEW m \in Nodes, NEW i \in 1..Len(queue'[m]), queue'[m][i] = [op |-> op, socket |-> s]
      PROVE  s \in Presence!Pending(op) \union (IF c.op = op THEN {c.socket} ELSE {})
  <2>1. CASE m = n /\ i = Len(queue[n]) + 1
    BY <1>1, <1>4, <2>1
  <2>2. CASE ~(m = n /\ i = Len(queue[n]) + 1)
    <3>1. i \in 1..Len(queue[m]) /\ queue[m][i] = [op |-> op, socket |-> s]
      BY <1>1, <1>4, <2>2
    <3>. QED BY <1>2, <3>1 DEF Presence!Pending, Presence!Command
  <2>. QED BY <2>1, <2>2
<1>5. Presence!Pending(op)' \subseteq Presence!Pending(op) \union (IF c.op = op THEN {c.socket} ELSE {})
  BY <1>3, <1>4 DEF Presence!Pending, Presence!Command
<1>6. ASSUME NEW s \in Sockets, NEW m \in Nodes, NEW i \in 1..Len(queue[m]), queue[m][i] = [op |-> op, socket |-> s]
      PROVE  s \in Presence!Pending(op)'
  <2>1. i \in 1..Len(queue'[m]) /\ queue'[m][i] = [op |-> op, socket |-> s]
    BY <1>1, <1>6
  <2>. QED BY <1>3, <2>1 DEF Presence!Pending, Presence!Command
<1>7. c.op = op => c.socket \in Presence!Pending(op)'
  <2>1. c.op = op => c = [op |-> op, socket |-> c.socket] /\ c.socket \in Sockets
    BY DEF Cell
  <2>2. Len(queue[n]) + 1 \in 1..Len(queue'[n])
    BY <1>1
  <2>. QED BY <1>1, <1>3, <2>1, <2>2 DEF Presence!Pending, Presence!Command
<1>. QED BY <1>2, <1>5, <1>6, <1>7 DEF Presence!Pending, Presence!Command

(* No command of a socket that has not been opened, no DECR of one that is open. *)
LEMMA Silent ==
  ASSUME Basic, Presence!ConstantsOK, NEW s \in Sockets, NEW m \in Nodes, NEW i \in 1..Len(queue[m]), queue[m][i].socket = s
  PROVE  /\ socket[s].node = m /\ socket[s].state # "new"
         /\ queue[m][i].op = "DECR" => socket[s].state = "closed"
<1>1. Lined(m) /\ (socket[s].state = "new" => socket[s].node = NoNode)
  BY DEF Basic
<1>2. socket[s].node = m /\ (queue[m][i].op = "DECR" => socket[s].state = "closed")
  BY <1>1 DEF Lined
<1>. QED BY <1>1, <1>2 DEF Presence!ConstantsOK

LEMMA ConnectKeeps ==
  ASSUME PresenceInv, Presence!ConstantsOK, NEW s \in Sockets, NEW n \in Nodes, Presence!Connect(s, n) PROVE PresenceInv'
<1> USE DEF PresenceInv
<1> DEFINE c == [op |-> "INCR", socket |-> s]
<1>1. c \in Cell /\ c.op = "INCR" /\ c.socket = s
  BY DEF Cell, Presence!Ops
<1>2. /\ UNCHANGED <<count, online, crossed, stale, expired, crashed>> /\ socket[s].state = "new"
      /\ queue' = [queue EXCEPT ![n] = Append(queue[n], c)]
      /\ socket' = [socket EXCEPT ![s] = [node |-> n, state |-> "open"]]
  BY DEF Presence!Connect, Presence!Command
<1> HIDE DEF c
<1>3. /\ socket'[s].node = n /\ socket'[s].state = "open" /\ \A t \in Sockets \ {s} : socket'[t] = socket[t]
      /\ socket' \in [Sockets -> [node : Nodes \union {NoNode}, state : {"new", "open", "closed"}]]
      /\ socket[s].node = NoNode
  BY <1>2 DEF Basic, Presence!TypeOK
<1>4. /\ queue' \in [Nodes -> Seq(Cell)]
      /\ \A m \in Nodes \ {n} : queue'[m] = queue[m]
      /\ Len(queue'[n]) = Len(queue[n]) + 1
      /\ \A i \in 1..Len(queue[n]) : queue'[n][i] = queue[n][i]
      /\ queue'[n][Len(queue[n]) + 1] = c
      /\ Len(queue[n]) \in Nat
  BY <1>1, <1>2, Sending, QueueType DEF Basic
<1>5. \A m \in Nodes : \A i \in 1..Len(queue[m]) : queue[m][i] \in Cell /\ queue[m][i].socket # s
  <2>1. \A m \in Nodes : queue[m] \in Seq(Cell)
    BY QueueType DEF Basic
  <2>2. ASSUME NEW m \in Nodes, NEW i \in 1..Len(queue[m]) PROVE queue[m][i] \in Cell /\ queue[m][i].socket # s
    <3>1. queue[m][i] \in Cell
      BY <2>1
    <3>. QED BY <1>2, <3>1, Silent
  <2>. QED BY <2>2
<1>6. Presence!TypeOK'
  BY <1>2, <1>3, <1>4 DEF Basic, Presence!TypeOK, Cell, Presence!Absent
<1>7. ASSUME NEW m \in Nodes \ {n} PROVE Lined(m)'
  <2>1. queue'[m] = queue[m] /\ Lined(m)
    BY <1>4 DEF Basic
  <2>2. \A i \in 1..Len(queue[m]) : queue[m][i].socket \in Sockets \ {s}
    BY <1>5 DEF Cell
  <2>. QED BY <1>3, <2>1, <2>2 DEF Lined
<1>8. ASSUME NEW i \in 1..Len(queue'[n])
      PROVE  \/ i \in 1..Len(queue[n]) /\ queue'[n][i] = queue[n][i] /\ queue[n][i].socket \in Sockets \ {s}
             \/ i = Len(queue[n]) + 1 /\ queue'[n][i] = c
  BY <1>4, <1>5 DEF Cell
<1>9. Lined(n)
  BY DEF Basic
<1>a. ASSUME NEW i \in 1..Len(queue'[n])
      PROVE  LET d == queue'[n][i] IN
               /\ socket'[d.socket].node = n
               /\ d.op = "DECR" => socket'[d.socket].state = "closed"
               /\ d.op = "INCR" /\ socket'[d.socket].state = "closed" =>
                    \E j \in 1..Len(queue'[n]) : queue'[n][j] = [op |-> "DECR", socket |-> d.socket]
  <2>1. CASE i \in 1..Len(queue[n]) /\ queue'[n][i] = queue[n][i] /\ queue[n][i].socket \in Sockets \ {s}
    <3>1. \A j \in 1..Len(queue[n]) : j \in 1..Len(queue'[n]) /\ queue'[n][j] = queue[n][j]
      BY <1>4
    <3>. QED BY <1>3, <1>9, <2>1, <3>1 DEF Lined
  <2>2. CASE i = Len(queue[n]) + 1 /\ queue'[n][i] = c
    BY <1>1, <1>3, <2>2
  <2>. QED BY <1>8, <2>1, <2>2
<1>b. ASSUME NEW i \in 1..Len(queue'[n]), NEW j \in 1..Len(queue'[n]), queue'[n][i].socket = queue'[n][j].socket
      PROVE  /\ queue'[n][i].op = queue'[n][j].op /\ queue'[n][i].op \in {"INCR", "DECR"} => i = j
             /\ queue'[n][i].op = "INCR" /\ queue'[n][j].op = "DECR" => i < j
  <2>1. CASE i \in 1..Len(queue[n]) /\ j \in 1..Len(queue[n])
    <3>1. queue'[n][i] = queue[n][i] /\ queue'[n][j] = queue[n][j]
      BY <1>4, <2>1
    <3>2. queue[n][i].socket = queue[n][j].socket
      BY <1>b, <3>1
    <3>. QED BY <1>9, <2>1, <3>1, <3>2 DEF Lined
  <2>2. CASE i = Len(queue[n]) + 1 \/ j = Len(queue[n]) + 1
    <3>1. i = j
      BY <1>1, <1>8, <1>b, <2>2
    <3>. QED BY <3>1
  <2>. QED BY <1>8, <2>1, <2>2
<1>c. Lined(n)'
  BY <1>a, <1>b DEF Lined
<1>d. Basic'
  <2>1. \A t \in Sockets : socket'[t].node = NoNode <=> socket'[t].state = "new"
    BY <1>3 DEF Basic, Presence!ConstantsOK
  <2>. QED BY <1>6, <1>7, <1>c, <2>1 DEF Basic
<1>e. Presence!Counted' = Presence!Counted
  <2>1. Presence!Pending("INCR")' = Presence!Pending("INCR") \union {s} /\ Presence!Pending("DECR")' = Presence!Pending("DECR")
    BY <1>1, <1>2, PendingMore DEF Basic
  <2>2. s \notin Presence!Pending("DECR")
    <3>1. \A m \in Nodes : DOMAIN queue[m] = 1..Len(queue[m])
      <4>1. \A m \in Nodes : queue[m] \in Seq(Cell)
        BY QueueType DEF Basic
      <4>. QED BY <4>1
    <3>. QED BY <1>5, <3>1 DEF Presence!Pending, Presence!Command
  <2>. QED BY <1>2, <1>3, <2>1, <2>2 DEF Presence!Counted
<1>f. \A m \in Nodes : Only(m)' => Only(m) /\ m = n
  BY <1>3 DEF Only, Presence!ConstantsOK
<1>. QED BY <1>1, <1>2, <1>d, <1>e, <1>f, Unanswered

LEMMA DisconnectKeeps ==
  ASSUME PresenceInv, Presence!ConstantsOK, NEW s \in Sockets, Presence!Disconnect(s) PROVE PresenceInv'
<1> USE DEF PresenceInv
<1> DEFINE c == [op |-> "DECR", socket |-> s]
<1>1. c \in Cell /\ c.op = "DECR" /\ c.socket = s
  BY DEF Cell, Presence!Ops
<1>n. PICK n \in Nodes : n = socket[s].node
  BY DEF Presence!Disconnect, Basic, Presence!TypeOK
<1>2. /\ UNCHANGED <<count, online, crossed, stale, expired, crashed>> /\ socket[s].state = "open"
      /\ queue' = [queue EXCEPT ![n] = Append(queue[n], c)]
      /\ socket' = [socket EXCEPT ![s].state = "closed"]
  BY <1>n DEF Presence!Disconnect, Presence!Command
<1> HIDE DEF c
<1>3. /\ socket'[s].node = socket[s].node /\ socket'[s].state = "closed" /\ \A t \in Sockets \ {s} : socket'[t] = socket[t]
      /\ socket' \in [Sockets -> [node : Nodes \union {NoNode}, state : {"new", "open", "closed"}]]
  BY <1>2 DEF Basic, Presence!TypeOK
<1>4. /\ queue' \in [Nodes -> Seq(Cell)]
      /\ \A m \in Nodes \ {n} : queue'[m] = queue[m]
      /\ Len(queue'[n]) = Len(queue[n]) + 1
      /\ \A i \in 1..Len(queue[n]) : queue'[n][i] = queue[n][i]
      /\ queue'[n][Len(queue[n]) + 1] = c
      /\ Len(queue[n]) \in Nat
  <2>1. Presence!TypeOK /\ queue' = [queue EXCEPT ![n] = Append(queue[n], c)]
    BY <1>2 DEF Basic
  <2>2. Len(queue[n]) \in Nat
    BY <2>1, QueueType
  <2>. QED BY <1>1, <2>1, <2>2, Sending
<1>5. ASSUME NEW m \in Nodes, NEW i \in 1..Len(queue[m])
      PROVE  queue[m][i] \in Cell /\ (queue[m][i].socket = s => m = n /\ queue[m][i].op # "DECR")
  <2>1. queue[m] \in Seq(Cell)
    BY QueueType DEF Basic
  <2>2. queue[m][i] \in Cell
    BY <2>1
  <2>. QED BY <1>n, <1>2, <2>2, Silent
<1>s. socket[s].node = n
  BY <1>n
<1>6. Presence!TypeOK'
  BY <1>2, <1>3, <1>4 DEF Basic, Presence!TypeOK, Cell, Presence!Absent
<1>7. ASSUME NEW m \in Nodes \ {n} PROVE Lined(m)'
  <2>1. queue'[m] = queue[m] /\ Lined(m)
    BY <1>4 DEF Basic
  <2>2. \A i \in 1..Len(queue[m]) : queue[m][i].socket \in Sockets \ {s}
    BY <1>5 DEF Cell
  <2>. QED BY <1>3, <2>1, <2>2 DEF Lined
<1>8. ASSUME NEW i \in 1..Len(queue'[n])
      PROVE  \/ i \in 1..Len(queue[n]) /\ queue'[n][i] = queue[n][i] /\ queue[n][i].socket \in Sockets
             \/ i = Len(queue[n]) + 1 /\ queue'[n][i] = c
  BY <1>n, <1>4, <1>5 DEF Cell
<1>9. Lined(n)
  BY <1>n DEF Basic
<1>a. ASSUME NEW i \in 1..Len(queue'[n])
      PROVE  LET d == queue'[n][i] IN
               /\ socket'[d.socket].node = n
               /\ d.op = "DECR" => socket'[d.socket].state = "closed"
               /\ d.op = "INCR" /\ socket'[d.socket].state = "closed" =>
                    \E j \in 1..Len(queue'[n]) : queue'[n][j] = [op |-> "DECR", socket |-> d.socket]
  <2>1. CASE i \in 1..Len(queue[n]) /\ queue'[n][i] = queue[n][i] /\ queue[n][i].socket \in Sockets
    <3>1. \A j \in 1..Len(queue[n]) : j \in 1..Len(queue'[n]) /\ queue'[n][j] = queue[n][j]
      BY <1>4
    <3>2. CASE queue[n][i].socket # s
      BY <1>3, <1>9, <2>1, <3>1, <3>2 DEF Lined
    <3>3. CASE queue[n][i].socket = s
      <4>1. Len(queue[n]) + 1 \in 1..Len(queue'[n]) /\ queue'[n][Len(queue[n]) + 1] = [op |-> "DECR", socket |-> s]
        BY <1>4 DEF c
      <4>. QED BY <1>3, <1>s, <2>1, <3>3, <4>1
    <3>. QED BY <3>2, <3>3
  <2>2. CASE i = Len(queue[n]) + 1 /\ queue'[n][i] = c
    BY <1>1, <1>3, <1>s, <2>2
  <2>. QED BY <1>8, <2>1, <2>2
<1>b. ASSUME NEW i \in 1..Len(queue'[n]), NEW j \in 1..Len(queue'[n]), queue'[n][i].socket = queue'[n][j].socket
      PROVE  /\ queue'[n][i].op = queue'[n][j].op /\ queue'[n][i].op \in {"INCR", "DECR"} => i = j
             /\ queue'[n][i].op = "INCR" /\ queue'[n][j].op = "DECR" => i < j
  <2>1. CASE i \in 1..Len(queue[n]) /\ j \in 1..Len(queue[n])
    <3>1. queue'[n][i] = queue[n][i] /\ queue'[n][j] = queue[n][j]
      BY <1>4, <2>1
    <3>2. queue[n][i].socket = queue[n][j].socket
      BY <1>b, <3>1
    <3>. QED BY <1>9, <2>1, <3>1, <3>2 DEF Lined
  <2>2. CASE i = Len(queue[n]) + 1 /\ j \in 1..Len(queue[n])
    <3>1. queue'[n][i] = c /\ queue'[n][j] = queue[n][j]
      BY <1>4, <2>2
    <3>2. queue[n][j].socket = s
      BY <1>1, <1>b, <3>1
    <3>3. queue[n][j].op # "DECR"
      BY <1>n, <1>5, <2>2, <3>2
    <3>. QED BY <1>1, <3>1, <3>3
  <2>3. CASE i \in 1..Len(queue[n]) /\ j = Len(queue[n]) + 1
    <3>1. queue'[n][j] = c /\ queue'[n][i] = queue[n][i]
      BY <1>4, <2>3
    <3>2. queue[n][i].socket = s
      BY <1>1, <1>b, <3>1
    <3>3. queue[n][i].op # "DECR"
      BY <1>n, <1>5, <2>3, <3>2
    <3>4. i < j
      BY <1>4, <2>3
    <3>. QED BY <1>1, <3>1, <3>3, <3>4
  <2>4. CASE i = Len(queue[n]) + 1 /\ j = Len(queue[n]) + 1
    BY <1>1, <1>4, <2>4
  <2>. QED BY <1>8, <2>1, <2>2, <2>3, <2>4
<1>c. Lined(n)'
  BY <1>a, <1>b DEF Lined
<1>d. Basic'
  <2>1. \A t \in Sockets : socket'[t].node = NoNode <=> socket'[t].state = "new"
    BY <1>2, <1>3 DEF Basic
  <2>. QED BY <1>6, <1>7, <1>c, <2>1 DEF Basic
<1>e. Presence!Counted' = Presence!Counted
  <2>1. Presence!Pending("DECR")' = Presence!Pending("DECR") \union {s} /\ Presence!Pending("INCR")' = Presence!Pending("INCR")
    BY <1>n, <1>1, <1>2, PendingMore DEF Basic
  <2>. QED BY <1>2, <1>3, <2>1 DEF Presence!Counted
<1>f. \A m \in Nodes : Only(m)' => Only(m) /\ m = n
  BY <1>3, <1>s, <1>n DEF Only, Presence!ConstantsOK
<1>. QED BY <1>n, <1>1, <1>2, <1>d, <1>e, <1>f, Unanswered

LEMMA CrashKeeps == ASSUME PresenceInv, Presence!ConstantsOK, NEW n \in Nodes, Presence!Crash(n) PROVE PresenceInv'
<1> USE DEF PresenceInv
<1>1. /\ UNCHANGED <<count, online, crossed, expired>> /\ crashed' = TRUE /\ stale' = TRUE
      /\ queue' = [queue EXCEPT ![n] = <<>>]
      /\ socket' = [s \in Sockets |-> IF socket[s].node = n THEN [socket[s] EXCEPT !.state = "closed"] ELSE socket[s]]
  BY DEF Presence!Crash
<1>2. \A s \in Sockets : /\ socket[s].node = n => socket'[s] = [node |-> n, state |-> "closed"]
                         /\ socket[s].node # n => socket'[s] = socket[s]
  BY <1>1 DEF Basic, Presence!TypeOK
<1>3. queue' \in [Nodes -> Seq(Cell)] /\ queue'[n] = <<>> /\ \A m \in Nodes \ {n} : queue'[m] = queue[m]
  <2>1. <<>> \in Seq(Cell)
    OBVIOUS
  <2>. QED BY <1>1, <2>1 DEF Basic, Presence!TypeOK, Cell
<1>4. Presence!TypeOK'
  <2>1. socket' \in [Sockets -> [node : Nodes \union {NoNode}, state : {"new", "open", "closed"}]]
    <3>1. \A s \in Sockets : socket'[s] \in [node : Nodes \union {NoNode}, state : {"new", "open", "closed"}]
      BY <1>2 DEF Basic, Presence!TypeOK
    <3>2. socket' = [s \in Sockets |-> socket'[s]]
      BY <1>1
    <3>. QED BY <3>1, <3>2
  <2>2. {online', crossed', stale', expired', crashed'} \subseteq BOOLEAN
    BY <1>1, Flags DEF Basic
  <2>3. queue' \in [Nodes -> Seq([op : Presence!Ops, socket : Sockets])]
    BY <1>3 DEF Cell
  <2>. QED BY <1>1, <2>1, <2>2, <2>3 DEF Basic, Presence!TypeOK, Presence!Absent
<1>5. \A s \in Sockets : socket'[s].node = NoNode <=> socket'[s].state = "new"
  BY <1>2 DEF Basic, Presence!ConstantsOK
<1>6. Lined(n)'
  <2>1. Len(queue'[n]) = 0
    BY <1>3
  <2>. QED BY <2>1 DEF Lined
<1>7. ASSUME NEW m \in Nodes \ {n} PROVE Lined(m)'
  <2>1. queue'[m] = queue[m] /\ Lined(m) /\ queue[m] \in Seq(Cell)
    BY <1>3, QueueType DEF Basic
  <2>2. ASSUME NEW i \in 1..Len(queue[m]) PROVE queue[m][i].socket \in Sockets
    <3>1. queue[m][i] \in Cell
      BY <2>1
    <3>. QED BY <3>1 DEF Cell
  <2>3. \A i \in 1..Len(queue[m]) : socket[queue[m][i].socket].node = m
    BY <2>1 DEF Lined
  <2>4. \A i \in 1..Len(queue[m]) : socket'[queue[m][i].socket] = socket[queue[m][i].socket]
    BY <1>2, <2>2, <2>3
  <2>. QED BY <2>1, <2>4 DEF Lined
<1>8. Counts'
  BY <1>1 DEF Counts, Smooth
<1>9. \A m \in Nodes : Leaves(m)' /\ Stays(m)'
  BY <1>1 DEF Leaves, Stays, Smooth
<1>. QED BY <1>4, <1>5, <1>6, <1>7, <1>8, <1>9 DEF Basic

LEMMA KeyExpiresKeeps == ASSUME PresenceInv, Presence!ConstantsOK, Presence!KeyExpires PROVE PresenceInv'
<1> USE DEF PresenceInv
<1>1. UNCHANGED <<socket, queue, online, crossed, crashed>> /\ count' = Presence!Absent /\ stale' = FALSE /\ expired' = TRUE
  BY DEF Presence!KeyExpires
<1>2. Presence!TypeOK'
  <2>1. {online', crossed', stale', expired', crashed'} \subseteq BOOLEAN
    BY <1>1, Flags DEF Basic
  <2>2. Presence!Absent \in [set : BOOLEAN, value : Int, ttl : BOOLEAN]
    BY DEF Presence!Absent
  <2>. QED BY <1>1, <2>1, <2>2 DEF Basic, Presence!TypeOK, Presence!Absent
<1>3. Basic'
  <2>1. \A m \in Nodes : Lined(m)'
    BY <1>1 DEF Basic, Lined
  <2>. QED BY <1>1, <1>2, <2>1 DEF Basic
<1>4. Presence!Counted' = Presence!Counted
  BY <1>1 DEF Presence!Counted, Presence!Pending
<1>5. Counts'
  <2>1. count'.value = 0
    BY <1>1 DEF Presence!Absent
  <2>2. Cardinality(Presence!Counted) \in Nat
    BY Cardinal
  <2>3. ~Smooth'
    BY <1>1 DEF Smooth
  <2>. QED BY <1>1, <1>4, <2>1, <2>2, <2>3 DEF Counts
<1>6. ASSUME NEW m \in Nodes PROVE Leaves(m)'
  <2>1. (Only(m)' <=> Only(m)) /\ (Closing(m)' <=> Closing(m)) /\ (NotOpening(m)' <=> NotOpening(m)) /\ (online' <=> online)
        /\ (crashed' <=> crashed)
    BY <1>1 DEF Only, Closing, NotOpening
  <2>. QED BY <1>4, <2>1 DEF Leaves
<1>7. ASSUME NEW m \in Nodes PROVE Stays(m)'
  BY <1>1 DEF Stays, Smooth
<1>. QED BY <1>3, <1>5, <1>6, <1>7

LEMMA PresenceStutter == ASSUME PresenceInv, UNCHANGED Presence!vars PROVE PresenceInv'
<1> USE DEF PresenceInv
<1>1. UNCHANGED <<socket, queue, count, online, crossed, stale, expired, crashed>>
  BY DEF Presence!vars
<1>2. Presence!Counted' = Presence!Counted
  BY <1>1 DEF Presence!Counted, Presence!Pending
<1>t. Presence!TypeOK'
  BY <1>1, Flags, QueueTypeAfter DEF Basic, Presence!TypeOK, Cell
<1>3. Basic'
  BY <1>1, <1>t DEF Basic, Lined
<1>4. (Presence!Sent("DEL")' <=> Presence!Sent("DEL")) /\ (Smooth' <=> Smooth) /\ (stale' <=> stale) /\ (crashed' <=> crashed) /\ count' = count
  BY <1>1 DEF Presence!Sent, Smooth
<1>5. Counts'
  BY <1>2, <1>4 DEF Counts
<1>6. ASSUME NEW m \in Nodes PROVE Leaves(m)' /\ Stays(m)'
  <2>1. (Only(m)' <=> Only(m)) /\ (Closing(m)' <=> Closing(m)) /\ (NotOpening(m)' <=> NotOpening(m)) /\ (online' <=> online)
        /\ (Opening(m)' <=> Opening(m))
    BY <1>1 DEF Only, Closing, NotOpening, Opening
  <2>. QED BY <1>2, <1>4, <2>1 DEF Leaves, Stays
<1>. QED BY <1>3, <1>5, <1>6

LEMMA PresenceNext == ASSUME PresenceInv, Presence!ConstantsOK, [Presence!Next]_(Presence!vars) PROVE PresenceInv'
BY ConnectKeeps, DisconnectKeeps, IncrKeeps, ExpireKeeps, SAddKeeps, DecrKeeps, DelKeeps, SRemKeeps, CrashKeeps,
   KeyExpiresKeeps, PresenceStutter DEF Presence!Next

LEMMA PresenceInit == ASSUME Presence!ConstantsOK, Presence!Init PROVE PresenceInv
<1>1. socket = [s \in Sockets |-> [node |-> NoNode, state |-> "new"]] /\ queue = [n \in Nodes |-> <<>>] /\ count = Presence!Absent
      /\ online = FALSE /\ crossed = FALSE /\ stale = FALSE /\ expired = FALSE /\ crashed = FALSE
  BY DEF Presence!Init
<1>2. Presence!TypeOK
  <2>1. <<>> \in Seq([op : Presence!Ops, socket : Sockets])
    OBVIOUS
  <2>2. {online, crossed, stale, expired, crashed} \subseteq BOOLEAN
    BY <1>1
  <2>3. Presence!Absent \in [set : BOOLEAN, value : Int, ttl : BOOLEAN]
    BY DEF Presence!Absent
  <2>4. queue \in [Nodes -> Seq([op : Presence!Ops, socket : Sockets])]
    BY <1>1, <2>1
  <2>. QED BY <1>1, <2>2, <2>3, <2>4 DEF Presence!TypeOK, Presence!Absent
<1>3. \A n \in Nodes : Len(queue[n]) = 0 /\ queue[n] = <<>> /\ DOMAIN queue[n] = {}
  BY <1>1
<1>4. Basic
  <2>1. \A n \in Nodes : Lined(n)
    BY <1>3 DEF Lined
  <2>. QED BY <1>1, <1>2, <2>1 DEF Basic
<1>5. Presence!Counted = {}
  BY <1>1, <1>3 DEF Presence!Counted, Presence!Pending
<1>6. Cardinality(Presence!Counted) = 0
  BY <1>5, Cardinal
<1>7. Counts
  BY <1>1, <1>5, <1>6 DEF Counts, Presence!Absent
<1>8. \A n \in Nodes : Leaves(n) /\ Stays(n)
  BY <1>1, <1>3, <1>5 DEF Leaves, Stays, NotOpening
<1>. QED BY <1>4, <1>7, <1>8 DEF PresenceInv

LEMMA PresenceAlways == ASSUME Presence!ConstantsOK PROVE Presence!Spec => []PresenceInv
<1>1. Presence!Init => PresenceInv
  BY PresenceInit
<1>2. PresenceInv /\ [Presence!Next]_(Presence!vars) => PresenceInv'
  BY PresenceNext
<1>. QED BY <1>1, <1>2, PTL DEF Presence!Spec

LEMMA PresenceFollows == ASSUME PresenceInv, Presence!ConstantsOK PROVE Presence!PresenceOK
<1> USE DEF PresenceInv
<1>1. Presence!NeverOvercounts
  <2>1. ~stale => count.value <= Cardinality(Presence!Counted)
    BY DEF Counts
  <2>. QED BY <2>1, SameCardinality DEF Presence!NeverOvercounts
<1>2. ASSUME Presence!Quiet PROVE Presence!Counted = Presence!Connected /\ \A n \in Nodes : Len(queue[n]) = 0
  <2>1. \A n \in Nodes : queue[n] = <<>> /\ DOMAIN queue[n] = {} /\ Len(queue[n]) = 0
    BY <1>2 DEF Presence!Quiet
  <2>2. Presence!Pending("INCR") = {} /\ Presence!Pending("DECR") = {}
    BY <2>1 DEF Presence!Pending
  <2>. QED BY <2>1, <2>2 DEF Presence!Counted, Presence!Connected
<1>3. Presence!GoneIsOffline
  <2>1. SUFFICES ASSUME Presence!Quiet, Presence!Connected = {}, Presence!OneNode, ~crashed PROVE ~online
    BY DEF Presence!GoneIsOffline
  <2>2. PICK n \in Nodes : Only(n)
    BY <2>1 DEF Presence!OneNode, Only
  <2>3. Presence!Counted = {} /\ Len(queue[n]) = 0
    BY <1>2, <2>1
  <2>4. ~Closing(n)
    BY <2>3 DEF Closing
  <2>. QED BY <2>1, <2>2, <2>3, <2>4 DEF Leaves
<1>4. Presence!ConnectedIsOnline
  <2>1. SUFFICES ASSUME Presence!Quiet, Presence!Connected # {}, Presence!OneNode, ~crossed, ~expired, ~crashed PROVE online
    BY DEF Presence!ConnectedIsOnline
  <2>2. PICK n \in Nodes : Only(n)
    BY <2>1 DEF Presence!OneNode, Only
  <2>3. Presence!Counted # {} /\ Len(queue[n]) = 0
    BY <1>2, <2>1
  <2>4. Opening(n)
    BY <2>1, <2>2, <2>3 DEF Stays, Smooth
  <2>. QED BY <2>3, <2>4 DEF Opening
<1>. QED BY <1>1, <1>3, <1>4 DEF Presence!PresenceOK, Basic

(* Of presence alone, with whatever nodes and sockets: the counter and the
   online set follow the sockets (PresenceOK). *)
THEOREM PresenceFollowsTheSockets == ASSUME Presence!ConstantsOK PROVE Presence!Spec => []Presence!PresenceOK
<1>1. PresenceInv => Presence!PresenceOK
  BY PresenceFollows
<1>. QED BY <1>1, PresenceAlways, PTL

(***************************************************************************)
(* Session                                                                 *)
(***************************************************************************)

(***************************************************************************)
(* The inductive invariant                                                 *)
(***************************************************************************)

Row == [family : Nat \ {0}, live : BOOLEAN]
Page == [at : {"closed", "refreshing", "profile", "login", "ready", "stranded"},
         why : {"boot", "request"},
         status : {"loading", "anon", "authed"},
         access : {"none", "good", "expired"}]
Rotation == [at : {"idle", "sent", "found", "reused", "rotated", "refused"},
             owner : Tabs \union {NoTab},
             token : Session!Tokens \union {NoToken},
             new : Session!Tokens \union {NoToken}]

Kinds == {"reload", "error", "logout", "refused", "lost"}

CallAt(c, at) == call[c].at = at

(* A family is named after its first token, so the next one has a new name. *)
FamiliesOK == \A i \in Session!Tokens : rows[i].family <= Len(rows)

Alone == ~overlap => \A c, d \in Calls : ~CallAt(c, "idle") /\ ~CallAt(d, "idle") => c = d

(* What a call has looked up or made is still so, if no other call is under way. *)
CallsOK ==
  \A c \in Calls :
    /\ CallAt(c, "rotated") => call[c].new \in Session!Tokens /\ (~overlap => rows[call[c].new].live)
    /\ CallAt(c, "found") /\ ~overlap => rows[call[c].token].live

(* As long as no answer was lost and no two refreshes overlapped, a call that
   was sent carries a usable token, and the stored one is usable or is being
   replaced. *)
Undisturbed == ~overlap /\ ~Session!Lost
StraightOK ==
  Undisturbed =>
    /\ \A c \in Calls : /\ ~CallAt(c, "idle") => call[c].owner # NoTab
                        /\ ~CallAt(c, "reused")
                        /\ CallAt(c, "sent") => rows[call[c].token].live
    /\ stored \in Session!Tokens =>
         rows[stored].live \/ \E c \in Calls : CallAt(c, "rotated") /\ call[c].token = stored
    /\ ~reuse

(* When nothing has gone wrong at all, no refresh is refused. *)
LoggedInOK ==
  Session!Calm =>
    /\ \A c \in Calls : ~CallAt(c, "refused")
    /\ \A t \in Tabs : tab[t].status = "authed" \/ tab[t].at = "profile" => stored \in Session!Tokens

SessionInv ==
  /\ Session!TypeOK /\ trouble \in Seq(Kinds)
  /\ FamiliesOK /\ Alone /\ CallsOK /\ Session!OneLivePerFamily /\ StraightOK /\ LoggedInOK

LEMMA SessionInit == Session!Init => SessionInv
<1> SUFFICES ASSUME Session!Init PROVE SessionInv
  OBVIOUS
<1>0. rows = <<>> /\ trouble = <<>>
  BY DEF Session!Init
<1>1. rows = <<>> /\ Len(rows) = 0 /\ Session!Tokens = {} /\ rows \in Seq(Row) /\ trouble \in Seq(Kinds)
  BY <1>0, EmptySeq DEF Session!Tokens
<1>2. Session!TypeOK
  BY <1>1 DEF Session!Init, Session!TypeOK, Session!NoCall, Session!Closed, Row
<1>3. FamiliesOK /\ Session!OneLivePerFamily
  BY <1>1 DEF FamiliesOK, Session!OneLivePerFamily
<1>4. Alone /\ CallsOK /\ StraightOK /\ LoggedInOK
  BY <1>1 DEF Session!Init, Session!NoCall, Session!Closed, Alone, CallsOK, StraightOK, LoggedInOK, CallAt
<1>5. QED BY <1>1, <1>2, <1>3, <1>4 DEF SessionInv

(***************************************************************************)
(* How the variables move                                                  *)
(***************************************************************************)

LEMMA RowFacts ==
  ASSUME rows \in Seq(Row)
  PROVE  /\ Len(rows) \in Nat
         /\ Session!Tokens = 1..Len(rows)
         /\ \A i \in Session!Tokens : i \in Nat /\ rows[i] \in Row
BY DEF Session!Tokens

LEMMA TroubleGrows ==
  ASSUME trouble \in Seq(Kinds), NEW kind \in Kinds, Session!Trouble(kind)
  PROVE  /\ trouble' \in Seq(Kinds) /\ trouble' # <<>>
         /\ Session!Lost => Session!Lost'
         /\ kind \in {"lost", "reload"} => Session!Lost'
<1>1. trouble' = Append(trouble, kind)
  BY DEF Session!Trouble
<1>2. /\ trouble' \in Seq(Kinds) /\ Len(trouble') = Len(trouble) + 1 /\ Len(trouble) \in Nat
      /\ DOMAIN trouble = 1..Len(trouble) /\ DOMAIN trouble' = 1..Len(trouble')
      /\ \A i \in 1..Len(trouble) : trouble'[i] = trouble[i]
      /\ trouble'[Len(trouble) + 1] = kind
  <2>1. Append(trouble, kind) \in Seq(Kinds) /\ Len(Append(trouble, kind)) = Len(trouble) + 1
        /\ Append(trouble, kind)[Len(trouble) + 1] = kind
        /\ \A i \in 1..Len(trouble) : Append(trouble, kind)[i] = trouble[i]
    BY AppendProperties
  <2>2. QED BY <1>1, <2>1
<1>3. QED BY <1>2 DEF Session!Lost

(* A new family. *)
LEMMA FamilyAdded ==
  ASSUME rows \in Seq(Row), rows' = Session!NewFamily
  PROVE  /\ rows' \in Seq(Row)
         /\ Len(rows') = Len(rows) + 1 /\ Session!Tokens' = 1..(Len(rows) + 1)
         /\ Session!Tokens \subseteq Session!Tokens'
         /\ \A i \in Session!Tokens : rows'[i] = rows[i]
         /\ rows'[Len(rows) + 1] = [family |-> Len(rows) + 1, live |-> TRUE]
<1> DEFINE r == [family |-> Len(rows) + 1, live |-> TRUE]
<1>1. r \in Row
  BY DEF Row
<1>2. rows' = Append(rows, r)
  BY DEF Session!NewFamily
<1> HIDE DEF r
<1>3. rows' \in Seq(Row) /\ Len(rows') = Len(rows) + 1 /\ rows'[Len(rows) + 1] = r
      /\ \A i \in 1..Len(rows) : rows'[i] = rows[i]
  BY <1>1, <1>2
<1>4. DOMAIN rows' = 1..(Len(rows) + 1) /\ DOMAIN rows = 1..Len(rows) /\ Len(rows) \in Nat
  BY <1>3
<1>5. QED BY <1>3, <1>4 DEF r, Session!Tokens

(* A token is replaced by the next one of its family. *)
LEMMA TokenReplaced ==
  ASSUME rows \in Seq(Row), NEW k \in Session!Tokens,
         rows' = Append([rows EXCEPT ![k].live = FALSE], [family |-> rows[k].family, live |-> TRUE])
  PROVE  /\ rows' \in Seq(Row)
         /\ Len(rows') = Len(rows) + 1 /\ Session!Tokens' = 1..(Len(rows) + 1)
         /\ Session!Tokens \subseteq Session!Tokens'
         /\ \A i \in Session!Tokens \ {k} : rows'[i] = rows[i]
         /\ rows'[k].family = rows[k].family /\ ~rows'[k].live
         /\ rows'[Len(rows) + 1].family = rows[k].family /\ rows'[Len(rows) + 1].live
<1> DEFINE r == [family |-> rows[k].family, live |-> TRUE]
           old == [rows EXCEPT ![k].live = FALSE]
<1>0. rows[k] \in Row /\ DOMAIN rows = 1..Len(rows) /\ Len(rows) \in Nat /\ k \in 1..Len(rows)
  BY DEF Session!Tokens
<1>1. r \in Row /\ r.family = rows[k].family /\ r.live
  BY <1>0 DEF Row
<1>2. old \in Seq(Row) /\ Len(old) = Len(rows)
      /\ (\A i \in 1..Len(rows) : i # k => old[i] = rows[i])
      /\ old[k].family = rows[k].family /\ ~old[k].live
  <2>1. [rows[k] EXCEPT !.live = FALSE] \in Row
    BY <1>0 DEF Row
  <2>2. old = [rows EXCEPT ![k] = [rows[k] EXCEPT !.live = FALSE]]
    BY <1>0
  <2>3. old \in Seq(Row) /\ Len(old) = Len(rows)
    BY <1>0, <2>1, <2>2
  <2>4. QED BY <1>0, <2>2, <2>3 DEF Row
<1>3. rows' = Append(old, r)
  OBVIOUS
<1> HIDE DEF r, old
<1>4. rows' \in Seq(Row) /\ Len(rows') = Len(rows) + 1 /\ rows'[Len(rows) + 1] = r
      /\ \A i \in 1..Len(rows) : rows'[i] = old[i]
  <2>1. Append(old, r) \in Seq(Row) /\ Len(Append(old, r)) = Len(old) + 1
        /\ Append(old, r)[Len(old) + 1] = r
        /\ \A i \in 1..Len(old) : Append(old, r)[i] = old[i]
    BY <1>1, <1>2, AppendProperties
  <2>2. QED BY <1>2, <1>3, <2>1
<1>5. DOMAIN rows' = 1..(Len(rows) + 1)
  BY <1>4
<1>6. QED BY <1>0, <1>1, <1>2, <1>4, <1>5 DEF Session!Tokens

(* One call moves on, and the others stay as they are. *)
LEMMA CallMoves ==
  ASSUME call \in [Calls -> Rotation], NEW c \in Calls, NEW q \in Rotation,
         call' = [call EXCEPT ![c] = q]
  PROVE  /\ call' \in [Calls -> Rotation]
         /\ call'[c] = q
         /\ \A d \in Calls \ {c} : call'[d] = call[d]
OBVIOUS

(***************************************************************************)
(* The actions of the tabs                                                 *)
(***************************************************************************)

(* A step of one tab that leaves the tokens and the calls alone. *)
LEMMA TabStep ==
  ASSUME Session!ConstantsOK, SessionInv, tab' \in [Tabs -> Page], trouble' \in Seq(Kinds),
         Session!Lost => Session!Lost', trouble' = <<>> => trouble = <<>>,
         UNCHANGED <<rows, call, overlap, reuse>>, stored' \in {stored, NoToken},
         Session!Calm' => \A t \in Tabs : tab'[t].status = "authed" \/ tab'[t].at = "profile" => stored' \in Session!Tokens
  PROVE  SessionInv'
<1>1. Session!Tokens' = Session!Tokens
  BY DEF Session!Tokens
<1>2. Session!TypeOK'
  BY <1>1 DEF SessionInv, Session!TypeOK, Page
<1>3. Undisturbed' => Undisturbed
  BY DEF Undisturbed
<1>4. Session!Calm' => Session!Calm
  BY DEF Session!Calm
<1>5. FamiliesOK' /\ Session!OneLivePerFamily'
  BY <1>1 DEF SessionInv, FamiliesOK, Session!OneLivePerFamily
<1>6. Alone' /\ CallsOK'
  BY <1>1 DEF SessionInv, Alone, CallsOK, CallAt
<1>7. NoToken \notin Session!Tokens
  BY RowFacts DEF SessionInv, Session!TypeOK, Row, Session!ConstantsOK
<1>8. StraightOK'
  BY <1>1, <1>3, <1>7 DEF SessionInv, StraightOK, CallAt
<1>9. LoggedInOK'
  BY <1>1, <1>4 DEF SessionInv, LoggedInOK, CallAt
<1>10. QED BY <1>2, <1>5, <1>6, <1>8, <1>9 DEF SessionInv

LEMMA WithoutSessionMoves ==
  ASSUME tab \in [Tabs -> Page], NEW t \in Tabs, tab' \in Session!WithoutSession(t)
  PROVE  /\ tab' \in [Tabs -> Page]
         /\ tab'[t].at \in {"login", "ready"}
         /\ tab'[t].status = "authed" => tab[t].status = "authed"
         /\ \A u \in Tabs \ {t} : tab'[u] = tab[u]
BY DEF Session!WithoutSession, Page

(* The steps that change neither tokens nor calls. *)
LEMMA TabActions ==
  ASSUME Session!ConstantsOK, SessionInv, NEW t \in Tabs,
         Session!Profile(t) \/ Session!Logout(t) \/ Session!AccessExpires(t)
  PROVE  SessionInv'
<1> USE DEF SessionInv
<1>0. tab \in [Tabs -> Page] /\ Session!Tokens = DOMAIN rows
  BY DEF Session!TypeOK, Page, Session!Tokens
<1>1. CASE Session!Profile(t)
  <2>1. CASE tab' = [tab EXCEPT ![t].at = "ready", ![t].status = "authed"] /\ UNCHANGED trouble
    <3>1. tab' \in [Tabs -> Page]
      BY ZenonT(60), <1>0, <2>1 DEF Page
    <3>2. Session!Calm => \A u \in Tabs : tab'[u].status = "authed" \/ tab'[u].at = "profile" => stored \in Session!Tokens
      BY <1>0, <1>1, <2>1 DEF Session!Profile, LoggedInOK
    <3>3. Session!Calm' => Session!Calm
      BY <1>1, <2>1 DEF Session!Profile, Session!Calm
    <3>4. Session!Lost' = Session!Lost
      BY <2>1 DEF Session!Lost
    <3>5. QED BY <1>1, <2>1, <3>1, <3>2, <3>3, <3>4, TabStep DEF Session!Profile
  <2>2. CASE tab' \in Session!WithoutSession(t) /\ Session!Trouble("error")
    <3>1. /\ tab' \in [Tabs -> Page]
          /\ UNCHANGED <<rows, stored, call, overlap, reuse>>
      BY <1>0, <1>1, <2>2, WithoutSessionMoves DEF Session!Profile
    <3>2. trouble' \in Seq(Kinds) /\ trouble' # <<>> /\ (Session!Lost => Session!Lost')
      BY <2>2, TroubleGrows DEF Kinds
    <3>3. QED BY <3>1, <3>2, TabStep DEF Session!Calm
  <2>3. QED BY <1>1, <2>1, <2>2 DEF Session!Profile
<1>2. CASE Session!Logout(t)
  <2>1. tab' \in [Tabs -> Page]
    <3>1. tab' = [tab EXCEPT ![t].status = "anon", ![t].access = "none"]
      BY <1>2 DEF Session!Logout
    <3>2. QED BY ZenonT(60), <1>0, <3>1 DEF Page
  <2>2. trouble' \in Seq(Kinds) /\ trouble' # <<>> /\ (Session!Lost => Session!Lost')
    BY <1>2, TroubleGrows DEF Session!Logout, Kinds
  <2>3. QED BY <1>2, <2>1, <2>2, TabStep DEF Session!Logout, Session!Calm
<1>3. CASE Session!AccessExpires(t)
  <2>1. tab' \in [Tabs -> Page]
    <3>1. tab' = [tab EXCEPT ![t].access = "expired"]
      BY <1>3 DEF Session!AccessExpires
    <3>2. QED BY <1>0, <3>1 DEF Page
  <2>2. Session!Calm' = Session!Calm /\ Session!Lost' = Session!Lost
    BY <1>3 DEF Session!AccessExpires, Session!Calm, Session!Lost
  <2>3. \A u \in Tabs : tab'[u].status = tab[u].status /\ tab'[u].at = tab[u].at
    BY <1>0, <1>3 DEF Session!AccessExpires, Page
  <2>4. QED BY <1>3, <2>1, <2>2, <2>3, TabStep DEF Session!AccessExpires, LoggedInOK
<1>4. QED BY <1>1, <1>2, <1>3

(* The page is gone: its calls answer nobody. *)
LEMMA ReloadStep == ASSUME SessionInv, NEW t \in Tabs, Session!Reload(t) PROVE SessionInv'
<1> USE DEF SessionInv
<1>0. /\ tab \in [Tabs -> Page] /\ call \in [Calls -> Rotation] /\ Session!Tokens' = Session!Tokens
      /\ rows \in Seq(Row)
  BY DEF Session!TypeOK, Page, Rotation, Row, Session!Tokens, Session!Reload
<1>1. trouble' \in Seq(Kinds) /\ trouble' # <<>> /\ Session!Lost'
  BY TroubleGrows DEF Session!Reload, Kinds
<1>2. ~Session!Calm' /\ ~Undisturbed'
  BY <1>1 DEF Session!Calm, Undisturbed
<1>3. call' \in [Calls -> Rotation]
  BY <1>0 DEF Session!Reload, Rotation
<1>4. \A c \in Calls : /\ call'[c].at = call[c].at
                       /\ call'[c].token = call[c].token /\ call'[c].new = call[c].new
  BY <1>0 DEF Session!Reload, Rotation
<1>5. tab' \in [Tabs -> Page]
  BY <1>0 DEF Session!Reload, Session!Closed, Page
<1>6. Session!TypeOK'
  <2>1. call' \in [Calls -> Rotation]'
    BY <1>0, <1>3 DEF Rotation
  <2>2. QED BY <1>0, <1>4, <1>5, <2>1 DEF Session!TypeOK, Session!Reload, Page, Rotation, Row
<1>7. Alone' /\ CallsOK'
  BY <1>0, <1>4 DEF Alone, CallsOK, CallAt, Session!Reload
<1>8. FamiliesOK' /\ Session!OneLivePerFamily'
  BY <1>0 DEF FamiliesOK, Session!OneLivePerFamily, Session!Reload
<1>9. QED BY <1>1, <1>2, <1>6, <1>7, <1>8 DEF StraightOK, LoggedInOK

(* refreshSession sends the stored token. *)
LEMMA SendRefreshStep ==
  ASSUME Session!ConstantsOK, SessionInv, NEW t \in Tabs, NEW why \in {"boot", "request"},
         NEW access \in {"none", "good", "expired"},
         stored # NoToken, Session!SendRefresh(t, why, access),
         UNCHANGED <<rows, stored, expiries, trouble, reuse>>
  PROVE  SessionInv'
<1> USE DEF SessionInv
<1>0. /\ tab \in [Tabs -> Page] /\ call \in [Calls -> Rotation] /\ Session!Tokens' = Session!Tokens
      /\ rows \in Seq(Row) /\ stored \in Session!Tokens
  BY DEF Session!TypeOK, Page, Rotation, Row, Session!Tokens
<1>1. PICK c \in Calls :
        /\ CallAt(c, "idle")
        /\ call' = [call EXCEPT ![c] = [at |-> "sent", owner |-> t, token |-> stored, new |-> NoToken]]
  BY DEF Session!SendRefresh, CallAt
<1>2. /\ overlap' = (overlap \/ \E d \in Calls : call[d].at # "idle")
      /\ tab' = [tab EXCEPT ![t].at = "refreshing", ![t].why = why, ![t].access = access]
  BY DEF Session!SendRefresh
<1> DEFINE q == [at |-> "sent", owner |-> t, token |-> stored, new |-> NoToken]
<1>3. q \in Rotation /\ q.at = "sent" /\ q.owner = t /\ q.token = stored
  BY <1>0 DEF Rotation
<1>4. call' = [call EXCEPT ![c] = q]
  BY <1>1
<1> HIDE DEF q
<1>5. /\ call' \in [Calls -> Rotation] /\ call'[c] = q
      /\ \A d \in Calls \ {c} : call'[d] = call[d]
  BY <1>0, <1>3, <1>4, CallMoves
<1>6. /\ tab' \in [Tabs -> Page] /\ tab'[t].at = "refreshing" /\ tab'[t].status = tab[t].status
      /\ \A u \in Tabs \ {t} : tab'[u] = tab[u]
  BY ZenonT(60), <1>0, <1>2 DEF Page
<1>7. Session!TypeOK'
  <2>1. (call \in [Calls -> Rotation])'
    BY <1>0, <1>5 DEF Rotation
  <2>2. \A d \in Calls : call'[d].at # "idle" => call'[d].token \in Session!Tokens
    BY <1>0, <1>3, <1>5 DEF Session!TypeOK
  <2>3. overlap' \in BOOLEAN
    BY <1>2 DEF Session!TypeOK
  <2>4. QED BY <1>0, <1>6, <2>1, <2>2, <2>3 DEF Session!TypeOK, Page, Rotation, Row
<1>8. ~overlap' => ~overlap /\ \A d \in Calls : CallAt(d, "idle")
  BY <1>2 DEF CallAt
<1>9. Alone' /\ CallsOK'
  <2>1. Alone'
    BY <1>5, <1>8 DEF Alone, CallAt
  <2>2. CallsOK'
    BY <1>0, <1>3, <1>5, <1>8 DEF CallsOK, CallAt
  <2>3. QED BY <2>1, <2>2
<1>10. FamiliesOK' /\ Session!OneLivePerFamily'
  BY <1>0, <1>8 DEF FamiliesOK, Session!OneLivePerFamily
<1>11. Session!Lost' = Session!Lost /\ (Session!Calm' => Session!Calm)
  BY <1>8 DEF Session!Lost, Session!Calm
<1>12. StraightOK'
  <2>1. SUFFICES ASSUME Undisturbed' PROVE StraightOK'
    BY DEF StraightOK
  <2>2. Undisturbed /\ \A d \in Calls : CallAt(d, "idle")
    BY <1>8, <1>11, <2>1 DEF Undisturbed
  <2>3. rows[stored].live /\ ~reuse
    BY <1>0, <2>2 DEF StraightOK, CallAt
  <2>4. \A d \in Calls : ~CallAt(d, "idle")' => d = c
    BY <1>5, <2>2 DEF CallAt
  <2>5. t # NoTab
    BY DEF Session!ConstantsOK
  <2>6. QED BY <1>0, <1>3, <1>5, <2>2, <2>3, <2>4, <2>5 DEF StraightOK, CallAt
<1>13. LoggedInOK'
  BY <1>0, <1>3, <1>5, <1>6, <1>11 DEF LoggedInOK, CallAt
<1>14. QED BY <1>7, <1>9, <1>10, <1>12, <1>13

LEMMA RefreshActions ==
  ASSUME Session!ConstantsOK, SessionInv, NEW t \in Tabs, Session!Open(t) \/ Session!Request(t)
  PROVE  SessionInv'
<1> USE DEF SessionInv
<1>0. tab \in [Tabs -> Page]
  BY DEF Session!TypeOK, Page
<1>1. CASE Session!Open(t)
  <2>1. CASE stored # NoToken /\ Session!SendRefresh(t, "boot", "none")
    BY <1>1, <2>1, SendRefreshStep DEF Session!Open
  <2>2. CASE tab' \in Session!WithoutSession(t) /\ UNCHANGED <<call, overlap>>
    <3>1. /\ tab' \in [Tabs -> Page] /\ UNCHANGED <<rows, stored, call, overlap, trouble, reuse>>
          /\ \A u \in Tabs : tab'[u].status = "authed" \/ tab'[u].at = "profile"
                             => tab[u].status = "authed" \/ tab[u].at = "profile"
      BY <1>0, <1>1, <2>2, WithoutSessionMoves DEF Session!Open
    <3>2. Session!Lost' = Session!Lost /\ Session!Calm' = Session!Calm /\ Session!Tokens' = Session!Tokens
      BY <3>1 DEF Session!Lost, Session!Calm, Session!Tokens
    <3>3. QED BY <3>1, <3>2, TabStep DEF LoggedInOK
  <2>3. QED BY <1>1, <2>1, <2>2 DEF Session!Open
<1>2. CASE Session!Request(t)
  <2>1. CASE stored # NoToken /\ Session!SendRefresh(t, "request", "expired")
    BY <1>2, <2>1, SendRefreshStep DEF Session!Request
  <2>2. CASE /\ tab' = [tab EXCEPT ![t].status = "anon", ![t].access = "none"]
             /\ UNCHANGED <<call, overlap>>
    <3>1. /\ tab' \in [Tabs -> Page] /\ UNCHANGED <<rows, stored, call, overlap, trouble, reuse>>
          /\ \A u \in Tabs : tab'[u].status = "authed" \/ tab'[u].at = "profile"
                             => tab[u].status = "authed" \/ tab[u].at = "profile"
      BY <1>0, <1>2, <2>2 DEF Session!Request, Page
    <3>2. Session!Lost' = Session!Lost /\ Session!Calm' = Session!Calm /\ Session!Tokens' = Session!Tokens
      BY <3>1 DEF Session!Lost, Session!Calm, Session!Tokens
    <3>3. QED BY <3>1, <3>2, TabStep DEF LoggedInOK
  <2>3. QED BY <1>2, <2>1, <2>2 DEF Session!Request
<1>3. QED BY <1>1, <1>2

(* A login makes a family; what it was before stays. *)
LEMMA LoginStep ==
  ASSUME Session!ConstantsOK, SessionInv, rows' = Session!NewFamily, stored' \in {stored, Len(rows) + 1},
         tab' \in [Tabs -> Page], trouble' \in Seq(Kinds), Session!Lost => Session!Lost',
         UNCHANGED <<call, overlap, reuse>>,
         Session!Calm' => trouble = <<>> /\ stored' = Len(rows) + 1
  PROVE  SessionInv'
<1> USE DEF SessionInv
<1>0. /\ call \in [Calls -> Rotation] /\ rows \in Seq(Row)
      /\ Session!Tokens = 1..Len(rows) /\ Len(rows) \in Nat
      /\ stored \in Session!Tokens \union {NoToken} /\ NoToken \notin Session!Tokens'
      /\ \A i \in Session!Tokens : rows[i].family \in Nat
  <2>1. rows \in Seq(Row) /\ call \in [Calls -> Rotation] /\ stored \in Session!Tokens \union {NoToken}
    BY DEF Session!TypeOK, Row, Rotation, Session!Tokens
  <2>2. QED BY <2>1, RowFacts, FamilyAdded DEF Session!ConstantsOK, Row
<1>1. /\ rows' \in Seq(Row)
      /\ Len(rows') = Len(rows) + 1 /\ Session!Tokens' = 1..(Len(rows) + 1)
      /\ Session!Tokens \subseteq Session!Tokens'
      /\ \A i \in Session!Tokens : rows'[i] = rows[i]
      /\ rows'[Len(rows) + 1] = [family |-> Len(rows) + 1, live |-> TRUE]
  BY <1>0, FamilyAdded
<1>2. Session!TypeOK'
  <2>1. (call \in [Calls -> Rotation])'
    BY <1>0, <1>1 DEF Rotation
  <2>2. stored' \in ({NoToken} \union Session!Tokens)'
    BY <1>0, <1>1
  <2>3. \A c \in Calls : call'[c].at # "idle" => call'[c].token \in Session!Tokens'
    BY <1>1 DEF Session!TypeOK
  <2>4. QED BY <1>1, <2>1, <2>2, <2>3 DEF Session!TypeOK, Row, Rotation, Page
<1>3. \A i \in Session!Tokens' : i \in Session!Tokens \/ i = Len(rows) + 1
  BY <1>0, <1>1
<1>4. FamiliesOK'
  <2>1. SUFFICES ASSUME NEW i \in Session!Tokens' PROVE rows'[i].family <= Len(rows) + 1
    BY <1>1 DEF FamiliesOK
  <2>2. CASE i \in Session!Tokens
    <3>1. rows[i].family \in Nat /\ rows[i].family <= Len(rows)
      BY <1>0, <2>2 DEF FamiliesOK
    <3>2. QED BY <1>0, <1>1, <2>2, <3>1
  <2>3. CASE i = Len(rows) + 1
    BY <1>0, <1>1, <2>3
  <2>4. QED BY <1>3, <2>2, <2>3
<1>5. Session!OneLivePerFamily'
  <2>1. ASSUME NEW i \in Session!Tokens PROVE rows'[i].family # rows'[Len(rows) + 1].family
    <3>1. rows[i].family \in Nat /\ rows[i].family <= Len(rows)
      BY <1>0, <2>1 DEF FamiliesOK
    <3>2. rows'[i].family = rows[i].family /\ rows'[Len(rows) + 1].family = Len(rows) + 1
      BY <1>1, <2>1
    <3>3. QED BY <1>0, <3>1, <3>2
  <2>2. QED BY <1>1, <1>3, <2>1 DEF Session!OneLivePerFamily
<1>6. Alone'
  BY DEF Alone, CallAt
<1>7. CallsOK'
  BY <1>1 DEF CallsOK, CallAt, Session!TypeOK
<1>8. StraightOK'
  <2>1. SUFFICES ASSUME Undisturbed' PROVE StraightOK'
    BY DEF StraightOK
  <2>2. Undisturbed
    BY <2>1 DEF Undisturbed
  <2>3. \A c \in Calls : CallAt(c, "sent") => rows'[call[c].token].live
    BY <1>1, <2>2 DEF StraightOK, CallAt, Session!TypeOK
  <2>4. stored' \in Session!Tokens' =>
          rows'[stored'].live \/ \E c \in Calls : CallAt(c, "rotated") /\ call[c].token = stored'
    <3>1. CASE stored' = Len(rows) + 1
      BY <1>1, <3>1
    <3>2. CASE stored' = stored
      BY <1>0, <1>1, <2>2, <3>2 DEF StraightOK
    <3>3. QED BY <3>1, <3>2
  <2>5. QED BY <2>2, <2>3, <2>4 DEF StraightOK, CallAt
<1>9. LoggedInOK'
  BY <1>0, <1>1 DEF LoggedInOK, Session!Calm, CallAt
<1>10. QED BY <1>1, <1>2, <1>4, <1>5, <1>6, <1>7, <1>8, <1>9

LEMMA LoginActions ==
  ASSUME Session!ConstantsOK, SessionInv, NEW t \in Tabs, Session!LoginTelegram(t) \/ Session!DevLogin(t)
  PROVE  SessionInv'
<1> USE DEF SessionInv
<1>0. tab \in [Tabs -> Page] /\ UNCHANGED <<call, overlap, reuse>>
  BY DEF Session!TypeOK, Page, Session!LoginTelegram, Session!DevLogin
<1>1. CASE Session!ApplySession(t)
  <2>1. tab' \in [Tabs -> Page]
    BY <1>0, <1>1 DEF Session!ApplySession, Page
  <2>2. trouble' \in Seq(Kinds) /\ Session!Lost' = Session!Lost /\ (Session!Calm' => trouble = <<>>)
    BY <1>1 DEF Session!ApplySession, Session!Lost, Session!Calm
  <2>3. QED BY <1>0, <1>1, <2>1, <2>2, LoginStep DEF Session!ApplySession
<1>2. CASE /\ Session!Trouble("error")
           /\ rows' \in {rows, Session!NewFamily}
           /\ tab' = [tab EXCEPT ![t].at = "ready", ![t].status = "anon"]
           /\ UNCHANGED stored
  <2>1. tab' \in [Tabs -> Page]
    BY ZenonT(60), <1>0, <1>2 DEF Page
  <2>2. trouble' \in Seq(Kinds) /\ trouble' # <<>> /\ (Session!Lost => Session!Lost')
    BY <1>2, TroubleGrows DEF Kinds
  <2>3. CASE rows' = rows
    BY <1>0, <1>2, <2>1, <2>2, <2>3, TabStep DEF Session!Calm
  <2>4. CASE rows' = Session!NewFamily
    BY <1>0, <1>2, <2>1, <2>2, <2>4, LoginStep DEF Session!Calm
  <2>5. QED BY <1>2, <2>3, <2>4
<1>3. QED BY <1>1, <1>2 DEF Session!LoginTelegram, Session!DevLogin

(***************************************************************************)
(* The actions of the calls                                                *)
(***************************************************************************)

(* A step of one call that leaves the tokens alone and asks little of what it
   was about: a lookup, a refusal, an answer or a broken connection. *)
LEMMA CallStep ==
  ASSUME Session!ConstantsOK, SessionInv, NEW c \in Calls, NEW q \in Rotation, ~CallAt(c, "idle"),
         call' = [call EXCEPT ![c] = q],
         q.at # "idle" => q.token = call[c].token,
         q.at \notin {"rotated", "sent"} \/ (q.at = call[c].at /\ q.new = call[c].new),
         q.at = "found" => rows[q.token].live \/ CallAt(c, "found"),
         tab' \in [Tabs -> Page], trouble' \in Seq(Kinds), Session!Lost => Session!Lost',
         UNCHANGED <<rows, overlap>>, reuse' \in BOOLEAN, stored' \in Session!Tokens \union {NoToken},
         Undisturbed' =>
           /\ q.at # "idle" => q.owner # NoTab
           /\ q.at # "reused"
           /\ stored' \in Session!Tokens => rows[stored'].live \/ (q.at = "rotated" /\ q.token = stored')
           /\ ~reuse',
         Session!Calm' =>
           /\ q.at # "refused" /\ Session!Calm
           /\ \A t \in Tabs : tab'[t].status = "authed" \/ tab'[t].at = "profile" => stored' \in Session!Tokens
  PROVE  SessionInv'
<1> USE DEF SessionInv
<1>0. /\ call \in [Calls -> Rotation] /\ rows \in Seq(Row) /\ Session!Tokens' = Session!Tokens
  BY DEF Session!TypeOK, Row, Rotation, Session!Tokens
<1>1. /\ call' \in [Calls -> Rotation] /\ call'[c] = q
      /\ \A d \in Calls \ {c} : call'[d] = call[d]
  BY <1>0, CallMoves
<1>2. Session!TypeOK'
  <2>1. (call \in [Calls -> Rotation])'
    BY <1>0, <1>1 DEF Rotation
  <2>2. \A d \in Calls : call'[d].at # "idle" => call'[d].token \in Session!Tokens
    BY <1>1 DEF Session!TypeOK, CallAt
  <2>3. QED BY <1>0, <2>1, <2>2 DEF Session!TypeOK, Page, Row, Rotation
<1>3. FamiliesOK' /\ Session!OneLivePerFamily'
  BY <1>0 DEF FamiliesOK, Session!OneLivePerFamily
<1>4. Alone'
  BY <1>1 DEF Alone, CallAt
<1>5. CallsOK'
  BY <1>0, <1>1 DEF CallsOK, CallAt
<1>6. StraightOK'
  <2>1. SUFFICES ASSUME Undisturbed' PROVE StraightOK'
    BY DEF StraightOK
  <2>2. Undisturbed
    BY <2>1 DEF Undisturbed
  <2>3. QED BY <1>0, <1>1, <2>1, <2>2 DEF StraightOK, CallAt
<1>7. LoggedInOK'
  BY <1>0, <1>1 DEF LoggedInOK, CallAt
<1>8. QED BY <1>2, <1>3, <1>4, <1>5, <1>6, <1>7

(* What is known of a call under way and of the stored token. *)
LEMMA CallFacts ==
  ASSUME SessionInv, NEW c \in Calls, ~CallAt(c, "idle")
  PROVE  /\ call[c] \in Rotation /\ call[c].token \in Session!Tokens
         /\ tab \in [Tabs -> Page] /\ rows \in Seq(Row)
         /\ stored \in Session!Tokens \union {NoToken}
         /\ Undisturbed =>
              /\ call[c].owner # NoTab /\ ~reuse
              /\ stored \in Session!Tokens =>
                   rows[stored].live \/ (CallAt(c, "rotated") /\ call[c].token = stored)
<1>1. /\ call[c] \in Rotation /\ call[c].token \in Session!Tokens
      /\ tab \in [Tabs -> Page] /\ rows \in Seq(Row)
      /\ stored \in Session!Tokens \union {NoToken}
  BY DEF SessionInv, Session!TypeOK, Rotation, Page, Row, CallAt
<1>2. ASSUME Undisturbed
      PROVE  /\ call[c].owner # NoTab /\ ~reuse
             /\ stored \in Session!Tokens =>
                  rows[stored].live \/ (CallAt(c, "rotated") /\ call[c].token = stored)
  <2>1. \A d \in Calls : ~CallAt(d, "idle") => d = c
    BY <1>2 DEF SessionInv, Alone, Undisturbed
  <2>2. QED BY <1>2, <2>1 DEF SessionInv, StraightOK, CallAt
<1>3. QED BY <1>1, <1>2

LEMMA FindStep == ASSUME Session!ConstantsOK, SessionInv, NEW c \in Calls, Session!Find(c) PROVE SessionInv'
<1> DEFINE q == [call[c] EXCEPT !.at = IF rows[call[c].token].live THEN "found" ELSE "reused"]
<1>0. CallAt(c, "sent") /\ ~CallAt(c, "idle")
  BY DEF Session!Find, CallAt
<1>1. /\ q \in Rotation /\ q.token = call[c].token /\ q.owner = call[c].owner
      /\ q.at = IF rows[call[c].token].live THEN "found" ELSE "reused"
  BY <1>0, CallFacts DEF Rotation
<1>2. call' = [call EXCEPT ![c] = q]
  BY <1>0, CallFacts DEF Session!Find, SessionInv, Session!TypeOK, Rotation
<1> HIDE DEF q
<1>3. reuse' = (reuse \/ ~rows[call[c].token].live)
  BY DEF Session!Find
<1>4. UNCHANGED <<rows, stored, tab, trouble, overlap>>
  BY DEF Session!Find
<1>5. Undisturbed' => Undisturbed /\ rows[call[c].token].live
  BY <1>0, <1>4 DEF Undisturbed, Session!Lost, SessionInv, StraightOK
<1>6. reuse' \in BOOLEAN
  BY <1>3
<1>7. Undisturbed' => ~reuse'
  BY <1>0, <1>3, <1>5, CallFacts
<1>8. \A t \in Tabs : Session!Calm' => (tab[t].status = "authed" \/ tab[t].at = "profile" => stored \in Session!Tokens)
  BY <1>4 DEF Session!Calm, SessionInv, LoggedInOK
<1>9. Session!Calm' = Session!Calm /\ Session!Lost' = Session!Lost /\ trouble \in Seq(Kinds)
  BY <1>4 DEF Session!Calm, Session!Lost, SessionInv
<1>10. Undisturbed' => q.owner # NoTab /\ (stored \in Session!Tokens => rows[stored].live)
  BY <1>0, <1>1, <1>5, CallFacts DEF CallAt
<1>11. q.at \in {"found", "reused"} /\ (q.at = "found" => rows[q.token].live)
       /\ (Undisturbed' => q.at # "reused")
  BY <1>1, <1>5
<1>12. QED BY <1>0, <1>1, <1>2, <1>4, <1>6, <1>7, <1>8, <1>9, <1>10, <1>11, CallFacts, CallStep

LEMMA RefuseStep == ASSUME Session!ConstantsOK, SessionInv, NEW c \in Calls, Session!Refuse(c) PROVE SessionInv'
<1> DEFINE q == [call[c] EXCEPT !.at = "refused"]
<1>0. CallAt(c, "sent") /\ ~CallAt(c, "idle")
  BY DEF Session!Refuse, CallAt
<1>1. /\ q \in Rotation /\ q.token = call[c].token /\ q.owner = call[c].owner
      /\ q.at = "refused"
  BY <1>0, CallFacts DEF Rotation
<1>2. call' = [call EXCEPT ![c] = q]
  BY <1>0, CallFacts DEF Session!Refuse, SessionInv, Session!TypeOK, Rotation
<1> HIDE DEF q
<1>3. UNCHANGED <<rows, stored, tab, overlap, reuse>>
  BY DEF Session!Refuse
<1>4. trouble' \in Seq(Kinds) /\ trouble' # <<>> /\ (Session!Lost => Session!Lost')
  BY TroubleGrows DEF Session!Refuse, SessionInv, Kinds
<1>5. ~Session!Calm' /\ (Undisturbed' => Undisturbed) /\ reuse' \in BOOLEAN
  BY <1>3, <1>4 DEF Session!Calm, Undisturbed, SessionInv, Session!TypeOK
<1>6. Undisturbed' => q.owner # NoTab /\ ~reuse' /\ (stored \in Session!Tokens => rows[stored].live)
  BY <1>0, <1>1, <1>3, <1>5, CallFacts DEF CallAt
<1>7. QED BY <1>0, <1>1, <1>2, <1>3, <1>4, <1>5, <1>6, CallFacts, CallStep

LEMMA AnswerStep == ASSUME Session!ConstantsOK, SessionInv, NEW c \in Calls, Session!Answer(c) PROVE SessionInv'
<1>0. ~CallAt(c, "idle") /\ (CallAt(c, "rotated") \/ CallAt(c, "refused"))
  BY DEF Session!Answer, CallAt
<1>1. Session!NoCall \in Rotation /\ Session!NoCall.at = "idle" /\ call' = [call EXCEPT ![c] = Session!NoCall]
  BY DEF Session!NoCall, Rotation, Session!Answer
<1>2. UNCHANGED <<rows, trouble, overlap, reuse>> /\ trouble \in Seq(Kinds)
  BY DEF Session!Answer, SessionInv
<1>3. Session!Calm' = Session!Calm /\ Undisturbed' = Undisturbed /\ Session!Lost' = Session!Lost /\ reuse' \in BOOLEAN
  BY <1>2 DEF Session!Calm, Undisturbed, Session!Lost, SessionInv, Session!TypeOK
<1>4. Session!Calm => Undisturbed
  BY <1>2, LenProperties DEF Session!Calm, Undisturbed, Session!Lost
<1>5. Session!Calm => ~CallAt(c, "refused")
  BY DEF SessionInv, LoggedInOK
<1>6. Session!Calm => \A t \in Tabs : tab[t].status = "authed" \/ tab[t].at = "profile" => stored \in Session!Tokens
  BY DEF SessionInv, LoggedInOK
<1>7. CallAt(c, "rotated") => call[c].new \in Session!Tokens /\ (Undisturbed => rows[call[c].new].live)
  BY DEF SessionInv, CallsOK, Undisturbed
<1>8. /\ tab' \in [Tabs -> Page] /\ stored' \in Session!Tokens \union {NoToken}
      /\ Undisturbed => (stored' \in Session!Tokens => rows[stored'].live)
      /\ Session!Calm => \A t \in Tabs : tab'[t].status = "authed" \/ tab'[t].at = "profile" => stored' \in Session!Tokens
  <2>1. CASE call[c].owner = NoTab
    <3>1. UNCHANGED <<stored, tab>> /\ ~Undisturbed
      BY <1>0, <2>1, CallFacts DEF Session!Answer
    <3>2. QED BY <1>0, <1>4, <3>1, CallFacts
  <2>2. CASE call[c].owner # NoTab
    <3> DEFINE t == call[c].owner
    <3>0. t \in Tabs
      BY <1>0, <2>2, CallFacts DEF Rotation
    <3>1. CASE Session!Refreshed(c, t)
      <4>1. tab' \in [Tabs -> Page]
        BY <1>0, <3>0, <3>1, CallFacts DEF Session!Refreshed, Page
      <4>2. stored' = call[c].new /\ stored' \in Session!Tokens
        BY <1>7, <3>1 DEF Session!Refreshed, CallAt
      <4>3. QED BY <1>7, <3>1, <4>1, <4>2 DEF Session!Refreshed, CallAt
    <3>2. CASE Session!NotRefreshed(c, t)
      <4>1. CallAt(c, "refused") /\ stored' = NoToken
        BY <3>2 DEF Session!NotRefreshed, CallAt
      <4>2. tab' \in [Tabs -> Page]
        <5>1. CASE tab' \in Session!WithoutSession(t)
          BY <1>0, <3>0, <5>1, CallFacts, WithoutSessionMoves
        <5>2. CASE tab' = [tab EXCEPT ![t].at = "ready", ![t].status = "anon", ![t].access = "none"]
          BY <1>0, <3>0, <5>2, CallFacts DEF Page
        <5>3. QED BY <3>2, <5>1, <5>2 DEF Session!NotRefreshed
      <4>3. NoToken \notin Session!Tokens
        BY <1>0, CallFacts, RowFacts DEF Session!ConstantsOK
      <4>4. QED BY <1>5, <4>1, <4>2, <4>3
    <3>3. QED BY <2>2, <3>1, <3>2 DEF Session!Answer
  <2>3. QED BY <2>1, <2>2
<1>9. Undisturbed => ~reuse'
  BY <1>0, <1>2, CallFacts
<1>10. QED BY <1>0, <1>1, <1>2, <1>3, <1>8, <1>9, CallStep

LEMMA ConnectionStep == ASSUME Session!ConstantsOK, SessionInv, NEW c \in Calls, Session!ConnectionFails(c) PROVE SessionInv'
<1>0. ~CallAt(c, "idle") /\ call[c].owner # NoTab
  BY DEF Session!ConnectionFails, CallAt
<1>1. UNCHANGED <<rows, stored, overlap, reuse>> /\ reuse' \in BOOLEAN
  BY DEF Session!ConnectionFails, SessionInv, Session!TypeOK
<1>2. trouble' \in Seq(Kinds) /\ trouble' # <<>> /\ Session!Lost'
  BY TroubleGrows DEF Session!ConnectionFails, SessionInv, Kinds
<1>3. ~Session!Calm' /\ ~Undisturbed'
  BY <1>2 DEF Session!Calm, Undisturbed
<1>4. tab' \in [Tabs -> Page]
  <2>1. call[c].owner \in Tabs
    BY <1>0, CallFacts DEF Rotation
  <2>2. QED BY <1>0, <2>1, CallFacts DEF Session!ConnectionFails, Page
<1>5. CASE call' = [call EXCEPT ![c].owner = NoTab]
  <2> DEFINE q == [call[c] EXCEPT !.owner = NoTab]
  <2>1. /\ q \in Rotation /\ q.at = call[c].at /\ q.token = call[c].token /\ q.new = call[c].new
    BY <1>0, CallFacts DEF Rotation
  <2>2. call' = [call EXCEPT ![c] = q]
    BY <1>5, CallFacts, <1>0 DEF SessionInv, Session!TypeOK, Rotation
  <2> HIDE DEF q
  <2>3. q.at = "found" => CallAt(c, "found")
    BY <2>1 DEF CallAt
  <2>4. QED BY <1>0, <1>1, <1>2, <1>3, <1>4, <2>1, <2>2, <2>3, CallFacts, CallStep
<1>6. CASE call' = [call EXCEPT ![c] = Session!NoCall]
  <2>1. Session!NoCall \in Rotation /\ Session!NoCall.at = "idle"
    BY DEF Session!NoCall, Rotation
  <2>2. QED BY <1>0, <1>1, <1>2, <1>3, <1>4, <1>6, <2>1, CallFacts, CallStep
<1>7. QED BY <1>5, <1>6 DEF Session!ConnectionFails

(* A family is revoked: nothing becomes usable. *)
LEMMA RevokeStep == ASSUME Session!ConstantsOK, SessionInv, NEW c \in Calls, Session!RevokeFamily(c) PROVE SessionInv'
<1> DEFINE q == [call[c] EXCEPT !.at = "refused"]
<1>0. CallAt(c, "reused") /\ ~CallAt(c, "idle")
  BY DEF Session!RevokeFamily, CallAt
<1>1. /\ q \in Rotation /\ q.token = call[c].token /\ q.at = "refused"
  BY <1>0, CallFacts DEF Rotation
<1>2. call' = [call EXCEPT ![c] = q]
  BY <1>0, CallFacts DEF Session!RevokeFamily, SessionInv, Session!TypeOK, Rotation
<1> HIDE DEF q
<1>3. /\ call' \in [Calls -> Rotation] /\ call'[c] = q
      /\ \A d \in Calls \ {c} : call'[d] = call[d]
  <2>1. call \in [Calls -> Rotation]
    BY DEF SessionInv, Session!TypeOK, Rotation
  <2>2. QED BY <1>1, <1>2, <2>1, CallMoves
<1>4. UNCHANGED <<stored, tab, trouble, overlap, reuse>>
  BY DEF Session!RevokeFamily
<1>5. ~Undisturbed' /\ ~Session!Calm'
  <2>1. ~Undisturbed
    BY <1>0 DEF SessionInv, StraightOK
  <2>2. Undisturbed' = Undisturbed /\ Session!Calm' = Session!Calm
    BY <1>4 DEF Undisturbed, Session!Lost, Session!Calm
  <2>3. Session!Calm => Undisturbed
    BY LenProperties DEF Session!Calm, Undisturbed, Session!Lost, SessionInv
  <2>4. QED BY <2>1, <2>2, <2>3
<1>6. /\ rows' \in Seq(Row) /\ Len(rows') = Len(rows) /\ Session!Tokens' = Session!Tokens
      /\ \A i \in Session!Tokens : rows'[i].family = rows[i].family /\ (rows'[i].live => rows[i].live)
  <2>1. rows \in Seq(Row) /\ Session!Tokens = 1..Len(rows) /\ Len(rows) \in Nat
        /\ \A i \in Session!Tokens : rows[i] \in Row
    BY RowFacts DEF SessionInv, Session!TypeOK, Row
  <2>2. \A i \in Session!Tokens :
          (IF rows[i].family = rows[call[c].token].family
           THEN [rows[i] EXCEPT !.live = FALSE] ELSE rows[i]) \in Row
    BY <2>1 DEF Row
  <2>3. rows' \in [1..Len(rows) -> Row]
    BY <2>1, <2>2 DEF Session!RevokeFamily
  <2>4. rows' \in Seq(Row) /\ Len(rows') = Len(rows) /\ DOMAIN rows' = 1..Len(rows)
    BY <2>1, <2>3
  <2>5. \A i \in Session!Tokens : rows'[i].family = rows[i].family /\ (rows'[i].live => rows[i].live)
    BY <2>1 DEF Session!RevokeFamily, Row
  <2>6. QED BY <2>1, <2>4, <2>5 DEF Session!Tokens
<1>7. Session!TypeOK'
  <2>1. (call \in [Calls -> Rotation])'
    BY <1>3, <1>6 DEF Rotation
  <2>2. \A d \in Calls : call'[d].at # "idle" => call'[d].token \in Session!Tokens
    BY <1>0, <1>1, <1>3 DEF SessionInv, Session!TypeOK, CallAt
  <2>3. QED BY <1>4, <1>6, <2>1, <2>2 DEF SessionInv, Session!TypeOK, Page, Row, Rotation
<1>8. FamiliesOK' /\ Session!OneLivePerFamily'
  BY <1>4, <1>6 DEF SessionInv, FamiliesOK, Session!OneLivePerFamily
<1>9. Alone'
  BY <1>0, <1>3, <1>4 DEF SessionInv, Alone, CallAt
<1>10. CallsOK'
  <2>1. \A d \in Calls : CallAt(d, "rotated")' => call'[d].new \in Session!Tokens'
    BY <1>1, <1>3, <1>6 DEF SessionInv, CallsOK, CallAt
  <2>2. ~overlap' => \A d \in Calls : ~CallAt(d, "idle")' => d = c
    BY <1>0, <1>3, <1>4 DEF SessionInv, Alone, CallAt
  <2>3. ~CallAt(c, "found")' /\ ~CallAt(c, "rotated")'
    BY <1>1, <1>3 DEF CallAt
  <2>4. QED BY <2>1, <2>2, <2>3 DEF CallsOK, CallAt
<1>11. QED BY <1>4, <1>5, <1>7, <1>8, <1>9, <1>10 DEF SessionInv, StraightOK, LoggedInOK

(* A token is replaced: its successor is the only usable one of the family. *)
LEMMA ReplaceStep == ASSUME Session!ConstantsOK, SessionInv, NEW c \in Calls, Session!Replace(c) PROVE SessionInv'
<1> DEFINE k == call[c].token
           q == [call[c] EXCEPT !.at = "rotated", !.new = Len(rows) + 1]
<1>0. CallAt(c, "found") /\ ~CallAt(c, "idle") /\ k \in Session!Tokens
  BY CallFacts DEF Session!Replace, CallAt
<1>1. rows \in Seq(Row) /\ Session!Tokens = 1..Len(rows) /\ Len(rows) \in Nat
      /\ \A i \in Session!Tokens : i \in Nat /\ rows[i] \in Row /\ rows[i].family \in Nat
  BY RowFacts DEF SessionInv, Session!TypeOK, Row
<1>2. /\ rows' \in Seq(Row)
      /\ Len(rows') = Len(rows) + 1 /\ Session!Tokens' = 1..(Len(rows) + 1)
      /\ Session!Tokens \subseteq Session!Tokens'
      /\ \A i \in Session!Tokens \ {k} : rows'[i] = rows[i]
      /\ rows'[k].family = rows[k].family /\ ~rows'[k].live
      /\ rows'[Len(rows) + 1].family = rows[k].family /\ rows'[Len(rows) + 1].live
  BY <1>0, <1>1, TokenReplaced DEF Session!Replace
<1>3. /\ q \in Rotation' /\ q.token = k /\ q.at = "rotated" /\ q.new = Len(rows) + 1
      /\ q.owner = call[c].owner
  <2>1. call[c] \in Rotation /\ Len(rows) + 1 \in Session!Tokens'
    BY <1>0, <1>1, <1>2, CallFacts
  <2>2. q \in Rotation'
    BY <1>2, <2>1 DEF Rotation
  <2>3. QED BY <2>1, <2>2 DEF Rotation
<1>4. call' = [call EXCEPT ![c] = q]
  BY <1>0, CallFacts DEF Session!Replace, SessionInv, Session!TypeOK, Rotation
<1>5. UNCHANGED <<stored, tab, trouble, overlap, reuse>>
  BY DEF Session!Replace
<1>6. \A i \in Session!Tokens' : i \in Session!Tokens \/ i = Len(rows) + 1
  BY <1>1, <1>2
<1> HIDE DEF k, q
<1>7. /\ (call \in [Calls -> Rotation])' /\ call'[c] = q
      /\ \A d \in Calls \ {c} : call'[d] = call[d]
  <2>1. call \in [Calls -> Rotation] /\ Rotation \subseteq Rotation'
    BY <1>2 DEF SessionInv, Session!TypeOK, Rotation
  <2>2. QED BY <1>3, <1>4, <2>1
<1>8. Session!TypeOK'
  <2>1. \A d \in Calls : call'[d].at # "idle" => call'[d].token \in Session!Tokens'
    BY <1>0, <1>2, <1>3, <1>7 DEF SessionInv, Session!TypeOK, CallAt
  <2>2. QED BY <1>2, <1>5, <1>7, <2>1 DEF SessionInv, Session!TypeOK, Page, Row, Rotation
<1>9. FamiliesOK'
  <2>1. \A i \in Session!Tokens : rows'[i].family = rows[i].family
    BY <1>2
  <2>2. \A i \in Session!Tokens : rows[i].family <= Len(rows)
    BY DEF SessionInv, FamiliesOK
  <2>3. QED BY <1>0, <1>1, <1>2, <1>6, <2>1, <2>2 DEF FamiliesOK
<1>10. Session!OneLivePerFamily'
  <2> SUFFICES ASSUME ~overlap,
                      NEW i \in Session!Tokens', NEW j \in Session!Tokens',
                      rows'[i].live, rows'[j].live, rows'[i].family = rows'[j].family
               PROVE  i = j
    BY <1>5 DEF Session!OneLivePerFamily
  <2>1. rows[k].live
    BY <1>0 DEF SessionInv, CallsOK, k
  <2>2. \A m \in Session!Tokens : rows'[m].live => m # k /\ rows[m].live /\ rows[m].family = rows'[m].family
    BY <1>2
  <2>3. \A m \in Session!Tokens : rows'[m].live => rows'[m].family # rows[k].family
    BY <1>0, <2>1, <2>2 DEF SessionInv, Session!OneLivePerFamily
  <2>4. CASE i \in Session!Tokens /\ j \in Session!Tokens
    BY <2>2, <2>4 DEF SessionInv, Session!OneLivePerFamily
  <2>5. CASE i = Len(rows) + 1 \/ j = Len(rows) + 1
    BY <1>2, <1>6, <2>3, <2>5
  <2>6. QED BY <1>6, <2>4, <2>5
<1>11. Alone'
  BY <1>0, <1>5, <1>7 DEF SessionInv, Alone, CallAt
<1>12. ~overlap => \A d \in Calls : ~CallAt(d, "idle") => d = c
  BY <1>0 DEF SessionInv, Alone
<1>13. CallsOK'
  <2>1. \A d \in Calls \ {c} : CallAt(d, "rotated")' => call'[d].new \in Session!Tokens'
    BY <1>2, <1>7 DEF SessionInv, CallsOK, CallAt
  <2>2. call'[c].new \in Session!Tokens' /\ rows'[call'[c].new].live /\ CallAt(c, "rotated")'
    BY <1>1, <1>2, <1>3, <1>7 DEF CallAt
  <2>3. ~overlap' => \A d \in Calls \ {c} : CallAt(d, "idle")'
    BY <1>5, <1>7, <1>12 DEF CallAt
  <2>4. QED BY <2>1, <2>2, <2>3 DEF CallsOK, CallAt
<1>14. StraightOK'
  <2>1. SUFFICES ASSUME Undisturbed' PROVE StraightOK'
    BY DEF StraightOK
  <2>2. Undisturbed
    BY <1>5, <2>1 DEF Undisturbed, Session!Lost
  <2>3. \A d \in Calls \ {c} : CallAt(d, "idle")'
    BY <1>7, <1>12, <2>2 DEF CallAt, Undisturbed
  <2>4. q.owner # NoTab /\ ~reuse'
    BY <1>0, <1>3, <1>5, <2>2, CallFacts
  <2>5. CallAt(c, "rotated")' /\ call'[c].owner = q.owner /\ call'[c].token = k
    BY <1>3, <1>7 DEF CallAt
  <2>6. stored' \in Session!Tokens' =>
          rows'[stored'].live \/ (CallAt(c, "rotated")' /\ call'[c].token = stored')
    <3>1. NoToken \notin Session!Tokens'
      BY <1>1, <1>2 DEF Session!ConstantsOK
    <3>2. stored' = stored /\ (stored \in Session!Tokens' => stored \in Session!Tokens)
      BY <1>0, <1>5, <3>1, CallFacts
    <3>3. stored \in Session!Tokens => rows[stored].live
      BY <1>0, <2>2, CallFacts DEF CallAt
    <3>4. CASE stored = k
      BY <2>5, <3>2, <3>4
    <3>5. CASE stored # k
      BY <1>2, <3>2, <3>3, <3>5
    <3>6. QED BY <3>4, <3>5
  <2>7. QED BY <2>3, <2>4, <2>5, <2>6 DEF StraightOK, CallAt
<1>15. LoggedInOK'
  <2>1. Session!Calm' = Session!Calm
    BY <1>5 DEF Session!Calm
  <2>2. QED BY <1>2, <1>3, <1>5, <1>7, <2>1 DEF SessionInv, LoggedInOK, CallAt
<1>16. QED BY <1>2, <1>5, <1>8, <1>9, <1>10, <1>11, <1>13, <1>14, <1>15 DEF SessionInv

LEMMA SessionNext == ASSUME Session!ConstantsOK, SessionInv, [Session!Next]_(Session!vars) PROVE SessionInv'
<1>1. ASSUME NEW t \in Tabs,
             \/ Session!Open(t) \/ Session!Reload(t) \/ Session!Profile(t) \/ Session!LoginTelegram(t) \/ Session!DevLogin(t)
             \/ Session!Request(t) \/ Session!Logout(t) \/ Session!AccessExpires(t)
      PROVE  SessionInv'
  BY <1>1, TabActions, ReloadStep, RefreshActions, LoginActions
<1>2. ASSUME NEW c \in Calls,
             \/ Session!Find(c) \/ Session!RevokeFamily(c) \/ Session!Replace(c) \/ Session!Refuse(c)
             \/ Session!Answer(c) \/ Session!ConnectionFails(c)
      PROVE  SessionInv'
  BY <1>2, FindStep, RevokeStep, ReplaceStep, RefuseStep, AnswerStep, ConnectionStep
<1>3. CASE UNCHANGED Session!vars
  BY <1>3 DEF Session!vars, SessionInv, Session!TypeOK, FamiliesOK, Alone, CallsOK, Session!OneLivePerFamily, StraightOK,
              LoggedInOK, Session!Tokens, CallAt, Session!Calm, Undisturbed, Session!Lost
<1>4. QED BY <1>1, <1>2, <1>3 DEF Session!Next

(* Under Inv the session of the user is kept. *)
LEMMA SessionFollows == ASSUME SessionInv PROVE Session!SessionOK
<1>1. Session!ReuseNeedsARace
  BY DEF SessionInv, StraightOK, Undisturbed, Session!ReuseNeedsARace
<1>2. Session!SessionKept
  <2> SUFFICES ASSUME Session!Calm, NEW t \in Tabs, tab[t].status = "authed"
               PROVE  /\ stored \in Session!Tokens
                      /\ \/ rows[stored].live
                         \/ \E c \in Calls : /\ call[c].at = "rotated"
                                             /\ call[c].owner # NoTab
                                             /\ call[c].token = stored
                                             /\ rows[call[c].new].live
    BY DEF Session!SessionKept
  <2>1. Undisturbed /\ ~overlap
    BY LenProperties DEF Session!Calm, Undisturbed, Session!Lost, SessionInv
  <2>2. stored \in Session!Tokens
    BY DEF SessionInv, LoggedInOK
  <2>3. CASE ~rows[stored].live
    <3>1. PICK c \in Calls : CallAt(c, "rotated") /\ call[c].token = stored
      BY <2>1, <2>2, <2>3 DEF SessionInv, StraightOK
    <3>2. call[c].owner # NoTab
      BY <2>1, <3>1 DEF SessionInv, StraightOK, CallAt
    <3>3. rows[call[c].new].live
      BY <2>1, <3>1 DEF SessionInv, CallsOK
    <3>4. QED BY <2>2, <3>1, <3>2, <3>3 DEF CallAt
  <2>4. QED BY <2>2, <2>3
<1>3. QED BY <1>1, <1>2 DEF SessionInv, Session!SessionOK

(***************************************************************************)
(* However tabs, refreshes, logins, failures and reloads interleave:       *)
(* rotation leaves one usable token in a family as long as refreshes do    *)
(* not overlap, an honest user meets the reuse detection only after they   *)
(* did or an answer was lost, and stays logged in if nothing went wrong.   *)
(***************************************************************************)
THEOREM RotationKeepsSession == ASSUME Session!ConstantsOK PROVE Session!Spec => []Session!SessionOK
<1>1. SessionInv /\ [Session!Next]_(Session!vars) => SessionInv'
  BY SessionNext
<1>2. SessionInv => Session!SessionOK
  BY SessionFollows
<1>3. QED BY SessionInit, <1>1, <1>2, PTL DEF Session!Spec

(***************************************************************************)
(* The services together                                                   *)
(***************************************************************************)

(* A behaviour of the services is one of the service it is of: it starts as
   that one does, and only its steps change its variables. *)
LEMMA SessionRuns == part = "session" /\ [Step]_allVars => (part = "session")' /\ [Session!Next]_(Session!vars)
  BY DEF Step, Idle, allVars, sessionVars, Session!vars

LEMMA PresenceRuns == part = "presence" /\ [Step]_allVars => (part = "presence")' /\ [Presence!Next]_(Presence!vars)
  BY DEF Step, Idle, allVars, presenceVars, Presence!vars

LEMMA GuardRuns == part = "guard" /\ [Step]_allVars => (part = "guard")' /\ [Guard!Next]_(Guard!vars)
  BY DEF Step, Idle, allVars, guardVars, Guard!vars

LEMMA AccountRuns == part = "account" /\ [Step]_allVars => (part = "account")' /\ [Account!Next]_(Account!vars)
  BY DEF Step, Idle, allVars, accountVars, Account!vars

LEMMA ProgressionRuns ==
  part = "progression" /\ [Step]_allVars => (part = "progression")' /\ [Progression!Next]_(Progression!vars)
  BY DEF Step, Idle, allVars, progressionVars, Progression!vars

LEMMA SoloRuns == part = "solo" /\ [Step]_allVars => (part = "solo")' /\ [Solo!Next]_(Solo!vars)
  BY DEF Step, Idle, allVars, progressionVars, Solo!vars

(* Which service it is of does not change. *)
LEMMA PartStays == [Step]_allVars => part' = part
  BY DEF Step, allVars

(*****************************************************************************)
(* Of the tabs of a browser, however they interleave with the answers:     *)
(* rotation leaves one usable token in a family as long as refreshes do    *)
(* not overlap, an honest user meets the reuse detection only after they   *)
(* did or an answer was lost, and stays logged in if nothing went wrong.   *)
(*****************************************************************************)
THEOREM SessionsAreKept == Services => []SessionOK
<1>1. Start => Session!Init
  BY DEF Start
<1>2. Session!Spec => []Session!SessionOK
  BY RotationKeepsSession, ServicesAssumption
<1>3. part = "session" /\ [Step]_allVars => (part = "session")' /\ [Session!Next]_(Session!vars)
  BY SessionRuns
<1>4. ~(part = "session") /\ [Step]_allVars => ~(part = "session")'
  BY PartStays
<1>5. (part = "session") /\ Services => []Session!SessionOK
  BY <1>1, <1>2, <1>3, PTL DEF Services, Session!Spec
<1>6. ~(part = "session") /\ Services => []~(part = "session")
  BY <1>4, PTL DEF Services
<1>7. (~(part = "session") => SessionOK) /\ (Session!SessionOK => SessionOK)
  BY DEF SessionOK
<1>. QED BY <1>5, <1>6, <1>7, PTL

(*****************************************************************************)
(* Of any number of sockets on any number of nodes: the counter of a user  *)
(* never exceeds the sockets that are counted, except for what a dead node *)
(* left over; on a single instance that does not die, who has closed every *)
(* connection is offline when the handlers are done, and who has one is    *)
(* online, unless it was opened in the middle of the removal of the last   *)
(* or outlived the counter.                                                *)
(*****************************************************************************)
THEOREM PresenceIsRight == Services => []PresenceOK
<1>1. Start => Presence!Init
  BY DEF Start
<1>2. Presence!Spec => []Presence!PresenceOK
  BY PresenceFollowsTheSockets, ServicesAssumption
<1>3. part = "presence" /\ [Step]_allVars => (part = "presence")' /\ [Presence!Next]_(Presence!vars)
  BY PresenceRuns
<1>4. ~(part = "presence") /\ [Step]_allVars => ~(part = "presence")'
  BY PartStays
<1>5. (part = "presence") /\ Services => []Presence!PresenceOK
  BY <1>1, <1>2, <1>3, PTL DEF Services, Presence!Spec
<1>6. ~(part = "presence") /\ Services => []~(part = "presence")
  BY <1>4, PTL DEF Services
<1>7. (~(part = "presence") => PresenceOK) /\ (Presence!PresenceOK => PresenceOK)
  BY DEF PresenceOK
<1>. QED BY <1>5, <1>6, <1>7, PTL

(*****************************************************************************)
(* Of any number of intents: a player is flagged only while the violations *)
(* of the window reach the threshold, and a counter without a time to live *)
(* is about to get one or outlived a crash.                                *)
(*****************************************************************************)
THEOREM FlagsAreRight == Services => []GuardOK
<1>1. Start => Guard!Init
  BY DEF Start
<1>2. Guard!Spec => []Guard!GuardOK
  BY FlaggedRightly, ServicesAssumption
<1>3. part = "guard" /\ [Step]_allVars => (part = "guard")' /\ [Guard!Next]_(Guard!vars)
  BY GuardRuns
<1>4. ~(part = "guard") /\ [Step]_allVars => ~(part = "guard")'
  BY PartStays
<1>5. (part = "guard") /\ Services => []Guard!GuardOK
  BY <1>1, <1>2, <1>3, PTL DEF Services, Guard!Spec
<1>6. ~(part = "guard") /\ Services => []~(part = "guard")
  BY <1>4, PTL DEF Services
<1>7. (~(part = "guard") => GuardOK) /\ (Guard!GuardOK => GuardOK)
  BY DEF GuardOK
<1>. QED BY <1>5, <1>6, <1>7, PTL

(*****************************************************************************)
(* Of any number of requests: each is let in or refused by a status that   *)
(* the user had less than the life of the cache and two lookups ago.       *)
(*****************************************************************************)
THEOREM StatusesAreRecent == Services => []AccountOK
<1>1. Start => Account!Init
  BY DEF Start
<1>2. Account!Spec => []Account!AccountOK
  BY StatusTakesEffect, ServicesAssumption
<1>3. part = "account" /\ [Step]_allVars => (part = "account")' /\ [Account!Next]_(Account!vars)
  BY AccountRuns
<1>4. ~(part = "account") /\ [Step]_allVars => ~(part = "account")'
  BY PartStays
<1>5. (part = "account") /\ Services => []Account!AccountOK
  BY <1>1, <1>2, <1>3, PTL DEF Services, Account!Spec
<1>6. ~(part = "account") /\ Services => []~(part = "account")
  BY <1>4, PTL DEF Services
<1>7. (~(part = "account") => AccountOK) /\ (Account!AccountOK => AccountOK)
  BY DEF AccountOK
<1>. QED BY <1>5, <1>6, <1>7, PTL

(*****************************************************************************)
(* Of any seasons of games, between two players or against the computer:   *)
(* each is counted once for each of its players, however the transactions  *)
(* overlap, and what friends are shown of each other agrees with that.     *)
(*****************************************************************************)
THEOREM RecordsAreRight == Services => []RecordsOK
<1>1. (part = "progression" /\ Start => Progression!Init) /\ (part = "solo" /\ Start => Solo!Init)
  BY DEF Start
<1>2. Progression!Spec => []Progression!RecordsOK
  BY Progression!RecordsAgree, ServicesAssumption
<1>3. Solo!Spec => []Solo!RecordsOK
  BY Solo!RecordsAgree, ServicesAssumption
<1>4. ~(part = "progression") /\ [Step]_allVars => ~(part = "progression")'
  BY PartStays
<1>5. ~(part = "solo") /\ [Step]_allVars => ~(part = "solo")'
  BY PartStays
<1>6. (part = "progression") /\ Services => []Progression!RecordsOK /\ [](part = "progression")
  BY <1>1, <1>2, ProgressionRuns, PTL DEF Services, Progression!Spec
<1>7. (part = "solo") /\ Services => []Solo!RecordsOK /\ [](part = "solo")
  BY <1>1, <1>3, SoloRuns, PTL DEF Services, Solo!Spec
<1>8. ~(part = "progression") /\ Services => []~(part = "progression")
  BY <1>4, PTL DEF Services
<1>9. ~(part = "solo") /\ Services => []~(part = "solo")
  BY <1>5, PTL DEF Services
<1>10. /\ ~(part = "progression") /\ ~(part = "solo") => RecordsOK
       /\ part = "progression" /\ Progression!RecordsOK => RecordsOK
       /\ part = "solo" /\ Solo!RecordsOK => RecordsOK
  BY DEF RecordsOK
<1>. QED BY <1>6, <1>7, <1>8, <1>9, <1>10, PTL

(*****************************************************************************)
(* Among the services as by itself, an invitation makes at most one game:  *)
(* the properties of Invite are also those of Services.                    *)
(*****************************************************************************)
THEOREM InvitesMakeOneGame == Services => []InviteOK
<1>1. Start => Init
  BY DEF Start
<1>2. [Step]_allVars => [Next]_vars
  BY DEF Step, Idle, allVars, vars
<1>. QED BY <1>1, <1>2, InviteMakesOneGame, PTL DEF Services, Spec
=============================================================================
