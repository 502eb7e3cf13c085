----------------------------- MODULE IntentGuard -----------------------------
(***************************************************************************)
(* AntiCheatService in front of the intents of one player in one match:    *)
(* two expiring counters in Redis, the rate of intents and the rejected    *)
(* ones, and handleIntent of the gateway, which consults them.             *)
(***************************************************************************)
EXTENDS Naturals

CONSTANTS
  Intents,              \* slots for intents under way
  MAX_INTENTS_PER_SECOND,
  VIOLATION_THRESHOLD,
  Windows               \* per counter, its time to live in ticks

Counters == {"rate", "violations"}

(* What the proofs ask of the constants. *)
ConstantsOK ==
  /\ MAX_INTENTS_PER_SECOND \in Nat \ {0}
  /\ VIOLATION_THRESHOLD \in Nat \ {0}
  /\ Windows \in [Counters -> Nat \ {0}]

VARIABLES
  key,      \* per counter: [count, ttl]; count 0: there is no key, ttl 0: it does not expire
  intent,   \* per slot: idle, sent, pexpire, apply, rejected, expire
  flagged,  \* ANTICHEAT_FLAGGED has been emitted since the violations were last forgotten
  crashed   \* history: a process died

vars == <<key, intent, flagged, crashed>>

Init ==
  /\ key = [k \in Counters |-> [count |-> 0, ttl |-> 0]]
  /\ intent = [i \in Intents |-> "idle"]
  /\ flagged = FALSE
  /\ crashed = FALSE

(* A count is compared with one and with its limit only: it stops one above. *)
Limit(k) == IF k = "rate" THEN MAX_INTENTS_PER_SECOND ELSE VIOLATION_THRESHOLD
Counted(k) == IF key[k].count > Limit(k) THEN key[k].count ELSE key[k].count + 1

(* Mutant of Incr: every count renews the time to live. *)
Incr_Slides(k) ==
  key' = [key EXCEPT ![k] = [count |-> Counted(k), ttl |-> IF key[k].ttl > 0 THEN Windows[k] ELSE 0]]

(* INCR; PEXPIRE or EXPIRE. *)
Incr(k) == key' = [key EXCEPT ![k].count = Counted(k)]
Expire(k) == key' = IF key[k].count > 0 THEN [key EXCEPT ![k].ttl = Windows[k]] ELSE key

GoTo(i, at) == intent' = [intent EXCEPT ![i] = at]

(* The player's page, or two of them, sends an intent. *)
Send(i) ==
  /\ intent[i] = "idle"
  /\ GoTo(i, "sent")
  /\ UNCHANGED <<key, flagged, crashed>>

(* allowIntent: INCR, and PEXPIRE by whoever was the first to count. *)
Verdict(count) == IF count <= MAX_INTENTS_PER_SECOND THEN "apply" ELSE "idle"

AllowIntent(i) ==
  /\ intent[i] = "sent"
  /\ Incr("rate")
  /\ GoTo(i, IF Counted("rate") = 1 THEN "pexpire" ELSE Verdict(Counted("rate")))
  /\ UNCHANGED <<flagged, crashed>>

PExpire(i) ==
  /\ intent[i] = "pexpire"
  /\ Expire("rate")
  /\ GoTo(i, Verdict(1))
  /\ UNCHANGED <<flagged, crashed>>

(* applyIntent accepts the intent or rejects it. *)
ApplyIntent(i) ==
  /\ intent[i] = "apply"
  /\ \E to \in {"idle", "rejected"} : GoTo(i, to)
  /\ UNCHANGED <<key, flagged, crashed>>

(* Mutant of RecordViolation: the flag comes one rejection early. *)
RecordViolation_TooEarly(i) ==
  /\ intent[i] = "rejected"
  /\ Incr("violations")
  /\ GoTo(i, IF Counted("violations") = 1 THEN "expire" ELSE "idle")
  /\ flagged' = (flagged \/ Counted("violations") >= VIOLATION_THRESHOLD - 1)
  /\ UNCHANGED crashed

(* recordViolation: INCR, EXPIRE by the first, the flag from the threshold on. *)
RecordViolation(i) ==
  /\ intent[i] = "rejected"
  /\ Incr("violations")
  /\ GoTo(i, IF Counted("violations") = 1 THEN "expire" ELSE "idle")
  /\ flagged' = (flagged \/ (Counted("violations") >= VIOLATION_THRESHOLD /\ Counted("violations") # 1))
  /\ UNCHANGED crashed

ExpireViolations(i) ==
  /\ intent[i] = "expire"
  /\ Expire("violations")
  /\ GoTo(i, "idle")
  /\ flagged' = (flagged \/ VIOLATION_THRESHOLD = 1)
  /\ UNCHANGED crashed

(* Time passes: counters that have an expiry come nearer to it. *)
Tick ==
  /\ \E k \in Counters : key[k].ttl > 0
  /\ key' = [k \in Counters |->
               CASE key[k].ttl = 0 -> key[k]
                 [] key[k].ttl = 1 -> [count |-> 0, ttl |-> 0]
                 [] OTHER -> [key[k] EXCEPT !.ttl = @ - 1]]
  /\ flagged' = (flagged /\ key'["violations"].count > 0)
  /\ UNCHANGED <<intent, crashed>>

(* The process dies, once, between two commands of a handler. *)
Crash ==
  /\ ~crashed
  /\ crashed' = TRUE
  /\ intent' = [i \in Intents |-> "idle"]
  /\ UNCHANGED <<key, flagged>>

Handle(i) ==
  AllowIntent(i) \/ PExpire(i) \/ ApplyIntent(i) \/ RecordViolation(i) \/ ExpireViolations(i)

Next ==
  \/ \E i \in Intents : \/ Send(i) \/ AllowIntent(i) \/ PExpire(i) \/ ApplyIntent(i)
                        \/ RecordViolation(i) \/ ExpireViolations(i)
  \/ Tick \/ Crash

Spec == Init /\ [][Next]_vars

(* Handlers go on and time passes; nobody has to send. *)
FairSpec == Spec /\ WF_vars(Tick) /\ \A i \in Intents : WF_vars(Handle(i))

(***************************************************************************)
(* Properties                                                              *)
(***************************************************************************)

TypeOK ==
  /\ key \in [Counters -> [count : Nat, ttl : Nat]]
  /\ \A k \in Counters : key[k].count <= Limit(k) + 1 /\ key[k].ttl <= Windows[k]
  /\ \A k \in Counters : key[k].count = 0 => key[k].ttl = 0
  /\ intent \in [Intents -> {"idle", "sent", "pexpire", "apply", "rejected", "expire"}]
  /\ flagged \in BOOLEAN
  /\ crashed \in BOOLEAN

(* A player who is throttled or flagged is let off when the window is over,
   however hard the pages go on sending; only a crash between INCR and its
   EXPIRE leaves a counter for ever. *)
CountersForget == \A k \in Counters : key[k].count > 0 ~> key[k].count = 0 \/ crashed

(* Who has been flagged is above the threshold in the present window. *)
FlagNeedsThreshold == flagged => key["violations"].count >= VIOLATION_THRESHOLD

(* The counters are well-formed, and nobody is flagged too early. *)
GuardOK == TypeOK /\ FlagNeedsThreshold
=============================================================================
