----------------------------- MODULE LoginLimiter -----------------------------
(***************************************************************************)
(* The limit on failed logins: rateLimiter of http/middleware.go around    *)
(* the login of the API, and its twin htmlRateLimiter in                   *)
(* http/html/server.go inside the login of the web page.  Each counts, for *)
(* every address, the failures since the first of a window, in memory.     *)
(*                                                                         *)
(* The two share nothing and addresses do not meet, so the model has one   *)
(* address at one of the two doors.  An attempt asks allow, spends a while *)
(* on bcrypt and the database, and calls record when it has failed; other  *)
(* attempts run in between.                                                *)
(***************************************************************************)
EXTENDS Clock, Integers, FiniteSets, Sequences

CONSTANTS
  Attempt,      \* handlers of login requests that may run at once
  MaxAttempts,  \* failures allowed, 5
  Window        \* length of a window, a minute

ASSUME LimiterAssumption ==
  /\ IsFiniteSet(Attempt)
  /\ MaxAttempts \in Nat \ {0}
  /\ Window \in Nat \ {0}

VARIABLES
  door,       \* "api" or "web"
  count,      \* count of the entry for the address; 0 if there is none
  windowEnd,  \* windowEnd of that entry
  phase,      \* phase[a]: "idle", "checking", "failed"
  blocked,    \* history: the last thing that happened is a refusal
  log         \* history: the times at which failures were recorded, in order

limiterVars == <<door, now, count, windowEnd, phase, blocked, log>>

LimiterInit ==
  /\ door \in {"api", "web"}
  /\ now = 0
  /\ count = 0
  /\ windowEnd = 0
  /\ phase = [a \in Attempt |-> "idle"]
  /\ blocked = FALSE
  /\ log = <<>>

Expired == now > windowEnd

(* The limiter of the API removes an expired entry, the other leaves it to *)
(* cleanup and record.                                                     *)
Allow(a) ==
  /\ phase[a] = "idle"
  /\ count = 0 \/ Expired \/ count < MaxAttempts
  /\ count' = IF door = "api" /\ Expired THEN 0 ELSE count
  /\ phase' = [phase EXCEPT ![a] = "checking"]
  /\ blocked' = FALSE
  /\ UNCHANGED <<door, now, windowEnd, log>>

(* 429, or the login page with "Too many failed attempts".                 *)
Block(a) ==
  /\ phase[a] = "idle"
  /\ count >= MaxAttempts /\ ~Expired
  /\ blocked' = TRUE
  /\ UNCHANGED <<door, now, count, windowEnd, phase, log>>

(* Wrong name or password; on the web page also a session that could not   *)
(* be created.                                                             *)
Reject(a) ==
  /\ phase[a] = "checking"
  /\ phase' = [phase EXCEPT ![a] = "failed"]
  /\ blocked' = FALSE
  /\ UNCHANGED <<door, now, count, windowEnd, log>>

(* The login succeeds, or the API answers with an error other than 401.    *)
Pass(a) ==
  /\ phase[a] = "checking"
  /\ phase' = [phase EXCEPT ![a] = "idle"]
  /\ blocked' = FALSE
  /\ UNCHANGED <<door, now, count, windowEnd, log>>

(* Mistake to detect: each failure begins the window anew.                 *)
RecordExtending(a) ==
  /\ phase[a] = "failed"
  /\ phase' = [phase EXCEPT ![a] = "idle"]
  /\ count' = IF count = 0 \/ Expired THEN 1 ELSE count + 1
  /\ windowEnd' = now + Window
  /\ blocked' = FALSE
  /\ log' = Append(log, now)
  /\ UNCHANGED <<door, now>>

Record(a) ==
  /\ phase[a] = "failed"
  /\ phase' = [phase EXCEPT ![a] = "idle"]
  /\ IF count = 0 \/ Expired
     THEN count' = 1 /\ windowEnd' = now + Window
     ELSE count' = count + 1 /\ UNCHANGED windowEnd
  /\ blocked' = FALSE
  /\ log' = Append(log, now)
  /\ UNCHANGED <<door, now>>

(* The goroutine of the limiter removes expired entries.                   *)
LimiterCleanup ==
  /\ count > 0 /\ Expired
  /\ count' = 0
  /\ blocked' = FALSE
  /\ UNCHANGED <<door, now, windowEnd, phase, log>>

LimiterTick ==
  /\ TimePasses
  /\ blocked' = FALSE
  /\ UNCHANGED <<door, count, windowEnd, phase, log>>

LimiterNext ==
  \/ \E a \in Attempt : Allow(a) \/ Block(a) \/ Reject(a) \/ Pass(a) \/ Record(a)
  \/ LimiterCleanup
  \/ LimiterTick

LimiterSpec == LimiterInit /\ [][LimiterNext]_limiterVars

-------------------------------------------------------------------------------
(* Failures recorded since Window ago.                                     *)
Recent == Cardinality({k \in DOMAIN log : log[k] >= now - Window})

(* No window counts more than the failures allowed and the attempts that   *)
(* were under way when the last of them was recorded.                      *)
OverrunBounded == count <= MaxAttempts - 1 + Cardinality(Attempt)

(* "After maxAttempts failures within window, further attempts are         *)
(* rejected ... for the remainder of the window" (http/middleware.go:148): *)
(* nobody is turned away without so many failures in the last Window, and  *)
(* attempts under way pass the limit by no more than their number.         *)
LimitKept == OverrunBounded /\ (blocked => Recent >= MaxAttempts)
===============================================================================
