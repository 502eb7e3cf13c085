------------------------------ MODULE Session ------------------------------
(***************************************************************************)
(* The session of one user: refresh tokens in the database, rotated in     *)
(* families by TokenService, and the browser tabs that share the stored    *)
(* refresh token (api.ts, auth.store.ts, useBootstrap.ts).                 *)
(*                                                                         *)
(* A token is its index in rows.  Every client here is honest: a token     *)
(* presented twice was presented by tabs of the same user.                 *)
(***************************************************************************)
EXTENDS Naturals, Sequences, FiniteSets

CONSTANTS
  Tabs,         \* browser tabs of the user
  Calls,        \* slots for POST /auth/refresh under way
  NoTab,        \* not a tab: the caller has gone
  NoToken,      \* not a token: nothing is stored
  MaxExpiries,  \* how often an access token expires
  MaxTrouble    \* how many failures, reloads and logouts there are

(* What the proofs need to know of the constants. *)
ConstantsOK == NoTab \notin Tabs /\ NoToken \notin Nat

VARIABLES
  rows,      \* refresh_tokens: [family, live], in order of creation
  stored,    \* localStorage: the refresh token all tabs share
  tab,       \* per tab: [at, why, status, access]
  call,      \* per slot: [at, owner, token, new]
  expiries,  \* how many access tokens have expired
  trouble,   \* what went wrong, as a sequence of kinds
  overlap,   \* history: two refreshes were under way at once
  reuse      \* history: a revoked token was presented

vars == <<rows, stored, tab, call, expiries, trouble, overlap, reuse>>

Tokens == DOMAIN rows
NoCall == [at |-> "idle", owner |-> NoTab, token |-> NoToken, new |-> NoToken]
Closed == [at |-> "closed", why |-> "boot", status |-> "loading", access |-> "none"]

Init ==
  /\ rows = <<>>
  /\ stored = NoToken
  /\ tab = [t \in Tabs |-> Closed]
  /\ call = [c \in Calls |-> NoCall]
  /\ expiries = 0
  /\ trouble = <<>>
  /\ overlap = FALSE
  /\ reuse = FALSE

(* A failure, a reload or a logout, counted. *)
Trouble(kind) ==
  /\ Len(trouble) < MaxTrouble
  /\ trouble' = Append(trouble, kind)

Calm == trouble = <<>> /\ ~overlap
Lost == \E i \in DOMAIN trouble : trouble[i] \in {"lost", "reload"}

(***************************************************************************)
(* The tabs                                                                *)
(***************************************************************************)

(* refreshSession of tab t, up to its fetch. *)
SendRefresh(t, why, access) ==
  \E c \in Calls :
    /\ call[c].at = "idle"
    /\ call' = [call EXCEPT ![c] = [at |-> "sent", owner |-> t, token |-> stored, new |-> NoToken]]
    /\ overlap' = (overlap \/ \E d \in Calls : call[d].at # "idle")
    /\ tab' = [tab EXCEPT ![t].at = "refreshing", ![t].why = why, ![t].access = access]

(* The bootstrap of t goes on without a session to restore: it logs in with
   the Telegram init data if there is any. *)
WithoutSession(t) ==
  {[tab EXCEPT ![t].at = "login"],
   [tab EXCEPT ![t].at = "ready", ![t].status = "anon"]}

(* The page is loaded: useBootstrap runs up to its first await. *)
Open(t) ==
  /\ tab[t].at = "closed"
  /\ \/ stored # NoToken /\ SendRefresh(t, "boot", "none")
     \/ stored = NoToken /\ tab' \in WithoutSession(t) /\ UNCHANGED <<call, overlap>>
  /\ UNCHANGED <<rows, stored, expiries, trouble, reuse>>

(* The page is closed or loaded again: what it waits for answers nobody. *)
Reload(t) ==
  /\ tab[t].at # "closed"
  /\ Trouble("reload")
  /\ tab' = [tab EXCEPT ![t] = Closed]
  /\ call' = [c \in Calls |-> IF call[c].owner = t THEN [call[c] EXCEPT !.owner = NoTab] ELSE call[c]]
  /\ UNCHANGED <<rows, stored, expiries, overlap, reuse>>

(* getProfile in the bootstrap, after a refresh. *)
Profile(t) ==
  /\ tab[t].at = "profile"
  /\ \/ tab' = [tab EXCEPT ![t].at = "ready", ![t].status = "authed"] /\ UNCHANGED trouble
     \/ tab' \in WithoutSession(t) /\ Trouble("error")
  /\ UNCHANGED <<rows, stored, call, expiries, overlap, reuse>>

(* issueTokens: the first token of a new family. *)
NewFamily == Append(rows, [family |-> Len(rows) + 1, live |-> TRUE])

(* Mutant of ApplySession: the refresh token is not stored. *)
ApplySession_NotStored(t) ==
  /\ rows' = NewFamily
  /\ tab' = [tab EXCEPT ![t] = [at |-> "ready", why |-> "boot", status |-> "authed", access |-> "good"]]
  /\ UNCHANGED <<stored, trouble>>

(* A login of t succeeds: applySession. *)
ApplySession(t) ==
  /\ rows' = NewFamily
  /\ stored' = Len(rows) + 1
  /\ tab' = [tab EXCEPT ![t] = [at |-> "ready", why |-> "boot", status |-> "authed", access |-> "good"]]
  /\ UNCHANGED trouble

LoginTelegram(t) ==
  /\ tab[t].at = "login"
  /\ \/ ApplySession(t)
     \/ /\ Trouble("error")
        /\ rows' \in {rows, NewFamily}
        /\ tab' = [tab EXCEPT ![t].at = "ready", ![t].status = "anon"]
        /\ UNCHANGED stored
  /\ UNCHANGED <<call, expiries, overlap, reuse>>

(* onDevLogin on the login screen, which every anonymous page shows. *)
DevLogin(t) ==
  /\ tab[t].at = "ready"
  /\ tab[t].status = "anon"
  /\ ApplySession(t)
  /\ UNCHANGED <<call, expiries, overlap, reuse>>

(* A request of an open page whose access token has expired gets a 401. *)
Request(t) ==
  /\ tab[t].at = "ready"
  /\ tab[t].status = "authed"
  /\ tab[t].access = "expired"
  /\ \/ stored # NoToken /\ SendRefresh(t, "request", "expired")
     \/ /\ stored = NoToken
        /\ tab' = [tab EXCEPT ![t].status = "anon", ![t].access = "none"]
        /\ UNCHANGED <<call, overlap>>
  /\ UNCHANGED <<rows, stored, expiries, trouble, reuse>>

(* The user presses log out: the store forgets, the server is not told. *)
Logout(t) ==
  /\ tab[t].at \in {"ready", "refreshing"}
  /\ tab[t].status = "authed"
  /\ Trouble("logout")
  /\ stored' = NoToken
  /\ tab' = [tab EXCEPT ![t].status = "anon", ![t].access = "none"]
  /\ UNCHANGED <<rows, call, expiries, overlap, reuse>>

AccessExpires(t) ==
  /\ tab[t].access = "good"
  /\ tab[t].at = "ready"
  /\ expiries < MaxExpiries
  /\ expiries' = expiries + 1
  /\ tab' = [tab EXCEPT ![t].access = "expired"]
  /\ UNCHANGED <<rows, stored, call, trouble, overlap, reuse>>

(***************************************************************************)
(* TokenService.rotate                                                     *)
(***************************************************************************)

(* findUnique. *)
Find(c) ==
  /\ call[c].at = "sent"
  /\ LET live == rows[call[c].token].live IN
       /\ call' = [call EXCEPT ![c].at = IF live THEN "found" ELSE "reused"]
       /\ reuse' = (reuse \/ ~live)
  /\ UNCHANGED <<rows, stored, tab, expiries, trouble, overlap>>

(* revokeFamily. *)
RevokeFamily(c) ==
  /\ call[c].at = "reused"
  /\ rows' = [i \in Tokens |->
                IF rows[i].family = rows[call[c].token].family
                THEN [rows[i] EXCEPT !.live = FALSE] ELSE rows[i]]
  /\ call' = [call EXCEPT ![c].at = "refused"]
  /\ UNCHANGED <<stored, tab, expiries, trouble, overlap, reuse>>

(* Mutant of Replace: the old token is left as it is. *)
Replace_KeepsOld(c) ==
  /\ call[c].at = "found"
  /\ rows' = Append(rows, [family |-> rows[call[c].token].family, live |-> TRUE])
  /\ call' = [call EXCEPT ![c].at = "rotated", ![c].new = Len(rows) + 1]
  /\ UNCHANGED <<stored, tab, expiries, trouble, overlap, reuse>>

(* The transaction: the replacement is created and the old one revoked. *)
Replace(c) ==
  /\ call[c].at = "found"
  /\ rows' = Append([rows EXCEPT ![call[c].token].live = FALSE],
                    [family |-> rows[call[c].token].family, live |-> TRUE])
  /\ call' = [call EXCEPT ![c].at = "rotated", ![c].new = Len(rows) + 1]
  /\ UNCHANGED <<stored, tab, expiries, trouble, overlap, reuse>>

(* The token has reached its own end, or the request is throttled. *)
Refuse(c) ==
  /\ call[c].at = "sent"
  /\ Trouble("refused")
  /\ call' = [call EXCEPT ![c].at = "refused"]
  /\ UNCHANGED <<rows, stored, tab, expiries, overlap, reuse>>

(***************************************************************************)
(* The answer                                                              *)
(***************************************************************************)

(* Mutant of Refreshed: the new refresh token is not stored. *)
Refreshed_NotStored(c, t) ==
  /\ call[c].at = "rotated"
  /\ tab' = [tab EXCEPT ![t].access = "good",
                        ![t].at = IF tab[t].why = "boot" THEN "profile" ELSE "ready"]
  /\ UNCHANGED stored

(* The caller of c goes on with a new pair.  A logout meanwhile is not seen. *)
Refreshed(c, t) ==
  /\ call[c].at = "rotated"
  /\ stored' = call[c].new
  /\ tab' = [tab EXCEPT ![t].access = "good",
                        ![t].at = IF tab[t].why = "boot" THEN "profile" ELSE "ready"]

(* Mutant of NotRefreshed: a bootstrap that is refused does nothing more. *)
NotRefreshed_NoFallback(c, t) ==
  /\ call[c].at = "refused"
  /\ stored' = NoToken
  /\ tab' \in IF tab[t].why = "boot" THEN {tab}
              ELSE {[tab EXCEPT ![t].at = "ready", ![t].status = "anon", ![t].access = "none"]}

(* The caller of c is told 401: the stored token is dropped, whoever stored it. *)
NotRefreshed(c, t) ==
  /\ call[c].at = "refused"
  /\ stored' = NoToken
  /\ tab' \in IF tab[t].why = "boot" THEN WithoutSession(t)
              ELSE {[tab EXCEPT ![t].at = "ready", ![t].status = "anon", ![t].access = "none"]}

Answer(c) ==
  /\ call[c].at \in {"rotated", "refused"}
  /\ call' = [call EXCEPT ![c] = NoCall]
  /\ IF call[c].owner = NoTab THEN UNCHANGED <<stored, tab>>
     ELSE Refreshed(c, call[c].owner) \/ NotRefreshed(c, call[c].owner)
  /\ UNCHANGED <<rows, expiries, trouble, overlap, reuse>>

(* The connection breaks: fetch rejects, and the server carries on or never
   hears of it.  A request fails; the bootstrap has no handler for it. *)
ConnectionFails(c) ==
  /\ call[c].at # "idle"
  /\ call[c].owner # NoTab
  /\ Trouble("lost")
  /\ LET t == call[c].owner IN
       tab' = [tab EXCEPT ![t].at = IF tab[t].why = "boot" THEN "stranded" ELSE "ready"]
  /\ \/ call' = [call EXCEPT ![c].owner = NoTab]
     \/ call[c].at = "sent" /\ call' = [call EXCEPT ![c] = NoCall]
  /\ UNCHANGED <<rows, stored, expiries, overlap, reuse>>

(***************************************************************************)
(* The specification                                                       *)
(***************************************************************************)

Next ==
  \/ \E t \in Tabs : Open(t) \/ Reload(t) \/ Profile(t) \/ LoginTelegram(t) \/ DevLogin(t)
                     \/ Request(t) \/ Logout(t) \/ AccessExpires(t)
  \/ \E c \in Calls : Find(c) \/ RevokeFamily(c) \/ Replace(c) \/ Refuse(c)
                      \/ Answer(c) \/ ConnectionFails(c)

Spec == Init /\ [][Next]_vars

(* Calls are served and answered, and a page goes on when it is answered. *)
ServeTab(t) == Profile(t) \/ LoginTelegram(t)
ServeCall(c) == Find(c) \/ RevokeFamily(c) \/ Replace(c) \/ Answer(c)
Fairness ==
  /\ \A t \in Tabs : WF_vars(ServeTab(t))
  /\ \A c \in Calls : WF_vars(ServeCall(c))

FairSpec == Spec /\ Fairness

(***************************************************************************)
(* Properties                                                              *)
(***************************************************************************)

TypeOK ==
  /\ rows \in Seq([family : Nat \ {0}, live : BOOLEAN])
  /\ stored \in {NoToken} \union Tokens
  /\ tab \in [Tabs -> [at : {"closed", "refreshing", "profile", "login", "ready", "stranded"},
                       why : {"boot", "request"},
                       status : {"loading", "anon", "authed"},
                       access : {"none", "good", "expired"}]]
  /\ call \in [Calls -> [at : {"idle", "sent", "found", "reused", "rotated", "refused"},
                         owner : Tabs \union {NoTab},
                         token : Tokens \union {NoToken},
                         new : Tokens \union {NoToken}]]
  /\ \A c \in Calls : call[c].at # "idle" => call[c].token \in Tokens
  /\ overlap \in BOOLEAN
  /\ reuse \in BOOLEAN

(* As long as refreshes do not overlap, rotation leaves at most one usable
   token in a family, whatever else fails on the way: two cannot be replayed. *)
OneLivePerFamily ==
  ~overlap =>
    \A i, j \in Tokens :
      rows[i].live /\ rows[j].live /\ rows[i].family = rows[j].family => i = j

(* rotate takes a revoked token for a stolen one.  An honest user meets that
   only after two refreshes overlapped or an answer did not arrive. *)
ReuseNeedsARace == reuse => overlap \/ Lost

(* A user whose refreshes neither overlap nor fail stays logged in: the shared
   storage holds the usable token, or its successor is on the way to it. *)
SessionKept ==
  Calm => \A t \in Tabs : tab[t].status = "authed" =>
    /\ stored \in Tokens
    /\ \/ rows[stored].live
       \/ \E c \in Calls : /\ call[c].at = "rotated"
                           /\ call[c].owner # NoTab
                           /\ call[c].token = stored
                           /\ rows[call[c].new].live

(* Rotation keeps the session of an honest user, and only that. *)
SessionOK == TypeOK /\ OneLivePerFamily /\ ReuseNeedsARace /\ SessionKept

(* useBootstrap ends: every page leaves the splash screen, unless the
   connection broke under its first refresh. *)
SplashEnds ==
  \A t \in Tabs :
    tab[t].at \notin {"closed", "ready", "stranded"} /\ tab[t].status = "loading"
      ~> tab[t].status # "loading" \/ tab[t].at \in {"closed", "stranded"}

(* What useBootstrap.ts promises: restore, log in, or fall back to anonymous. *)
FallsBackToAnonymous ==
  \A t \in Tabs : tab[t].at = "refreshing" ~> tab[t].status # "loading" \/ tab[t].at = "closed"

(* What TokenService says of a token presented again: it was stolen.  Here
   nobody steals. *)
ReuseMeansTheft == ~reuse
=============================================================================
