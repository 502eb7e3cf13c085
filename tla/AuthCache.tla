------------------------------ MODULE AuthCache ------------------------------
(***************************************************************************)
(* The live account status of one user behind every request: JwtAuthGuard  *)
(* and WsAuthService ask UsersService.getAuthContext, which keeps what the *)
(* database said in Redis for AUTH_CACHE_TTL.  Nothing in the program      *)
(* calls invalidateAuthContext, so a change of the status waits for it.    *)
(***************************************************************************)
EXTENDS Naturals

CONSTANTS
  Requests,        \* slots for requests and socket handshakes under way
  AUTH_CACHE_TTL,  \* in ticks
  MaxLatency,      \* how many ticks the commands of one lookup take together
  Lifetime,        \* of an access token, in ticks
  MaxTime          \* the last tick

(* What the proofs ask of the constants. *)
ConstantsOK ==
  /\ AUTH_CACHE_TTL \in Nat \ {0}
  /\ MaxLatency \in Nat
  /\ Lifetime \in Nat
  /\ MaxTime \in Nat

Statuses == {"ACTIVE", "BANNED"}
Nobody == "nobody"

VARIABLES
  now,
  status,    \* users.status
  changed,   \* history: when it last changed
  token,     \* when the user's access token expires
  cache,     \* auth:user:<id>: [status, until], status Nobody if there is none
  request,   \* per slot: [at, since, seen]
  late       \* how old the status was that the last decision missed, if it missed one

vars == <<now, status, changed, token, cache, request, late>>

NoRequest == [at |-> "idle", since |-> 0, seen |-> Nobody]

Init ==
  /\ now = 0
  /\ status \in Statuses
  /\ changed = 0
  /\ token = Lifetime
  /\ cache = [status |-> Nobody, until |-> 0]
  /\ request = [r \in Requests |-> NoRequest]
  /\ late = 0

(* Moderation bans the user, or lifts the ban, in the database. *)
SetStatus ==
  /\ status' \in Statuses \ {status}
  /\ changed' = now
  /\ UNCHANGED <<now, token, cache, request, late>>

(* rotate signs a new access token without a look at the status. *)
Refresh ==
  /\ token < now + Lifetime
  /\ token' = now + Lifetime
  /\ UNCHANGED <<now, status, changed, cache, request, late>>

(* canActivate, and authenticate of a handshake: the token is verified. *)
Verify(r) ==
  /\ request[r].at = "idle"
  /\ now < token
  /\ request' = [request EXCEPT ![r] = [at |-> "get", since |-> now, seen |-> Nobody]]
  /\ UNCHANGED <<now, status, changed, token, cache, late>>

(* Mutant of GetCached: a hit renews the entry. *)
GetCached_Renews(r) ==
  /\ request[r].at = "get"
  /\ request' = [request EXCEPT ![r].at = IF cache.status = Nobody THEN "find" ELSE "decide",
                                ![r].seen = cache.status]
  /\ cache' = IF cache.status = Nobody THEN cache ELSE [cache EXCEPT !.until = now + AUTH_CACHE_TTL]
  /\ UNCHANGED <<now, status, changed, token, late>>

(* getAuthContext: GET *)
GetCached(r) ==
  /\ request[r].at = "get"
  /\ request' = [request EXCEPT ![r].at = IF cache.status = Nobody THEN "find" ELSE "decide",
                                ![r].seen = cache.status]
  /\ UNCHANGED <<now, status, changed, token, cache, late>>

(* ... findById *)
FindById(r) ==
  /\ request[r].at = "find"
  /\ request' = [request EXCEPT ![r].at = "set", ![r].seen = status]
  /\ UNCHANGED <<now, status, changed, token, cache, late>>

(* ... SET EX. *)
SetCached(r) ==
  /\ request[r].at = "set"
  /\ cache' = [status |-> request[r].seen, until |-> now + AUTH_CACHE_TTL]
  /\ request' = [request EXCEPT ![r].at = "decide"]
  /\ UNCHANGED <<now, status, changed, token, late>>

(* The request is let in, or refused, by the status that was found. *)
Decide(r) ==
  /\ request[r].at = "decide"
  /\ late' = IF request[r].seen = status THEN 0 ELSE now - changed
  /\ request' = [request EXCEPT ![r] = NoRequest]
  /\ UNCHANGED <<now, status, changed, token, cache>>

(* Time passes; no lookup is slower than MaxLatency. *)
Tick ==
  /\ now < MaxTime
  /\ \A r \in Requests : request[r].at # "idle" => now < request[r].since + MaxLatency
  /\ now' = now + 1
  /\ cache' = IF now' < cache.until THEN cache ELSE [status |-> Nobody, until |-> 0]
  /\ UNCHANGED <<status, changed, token, request, late>>

Next ==
  \/ SetStatus \/ Refresh \/ Tick
  \/ \E r \in Requests : Verify(r) \/ GetCached(r) \/ FindById(r) \/ SetCached(r) \/ Decide(r)

Spec == Init /\ [][Next]_vars

(***************************************************************************)
(* Properties                                                              *)
(***************************************************************************)

Known == Statuses \union {Nobody}

TypeOK ==
  /\ now \in 0..MaxTime
  /\ status \in Statuses
  /\ changed \in 0..now
  /\ token \in 0..(MaxTime + Lifetime)
  /\ cache \in [status : Known, until : 0..(MaxTime + AUTH_CACHE_TTL)]
  /\ cache.status # Nobody => now < cache.until
  /\ request \in [Requests -> [at : {"idle", "get", "find", "set", "decide"},
                               since : 0..now, seen : Known]]
  /\ late \in 0..MaxTime

(* A decision rests on the status the user has, or on one the user had until
   less than the life of the cache and two lookups ago: a ban, and its end,
   take effect within that time, whoever fills the cache. *)
StatusIsRecent == late < AUTH_CACHE_TTL + 2 * MaxLatency

AccountOK == TypeOK /\ StatusIsRecent
=============================================================================
