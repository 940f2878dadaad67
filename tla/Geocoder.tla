------------------------------- MODULE Geocoder -------------------------------
(***************************************************************************)
(* geocode/geocode.go: the cache and the rate limit that uploads and       *)
(* regeocoding handlers share when they ask Nominatim for the place of a   *)
(* photo.  A call of ReverseGeocode looks into the cache under the mutex,  *)
(* takes a turn under the mutex, sleeps without it, asks, and stores what  *)
(* it learnt under the mutex; other calls run between these steps.         *)
(***************************************************************************)
EXTENDS Integers

CONSTANTS
  Lookup,    \* calls of ReverseGeocode, numbered
  CallerOf,  \* CallerOf[l]: the handler that makes l, one call after the other
  Point,     \* coordinates
  Key,       \* cache keys
  CacheKey,  \* CacheKey[p]: the rounded coordinates of p
  PlaceOf,   \* PlaceOf[p]: what Nominatim says of p
  Place,     \* the places it knows
  Nowhere,   \* its answer for coordinates without a place; ENOTFOUND
  Failed,    \* EINTERNAL: no answer, or one that is neither
  Interval,  \* minRequestInterval, in ticks of the clock
  MaxTime,   \* bound of the model on the clock
  None

ASSUME GeocoderAssumption ==
  /\ Lookup \subseteq Nat
  /\ CacheKey \in [Point -> Key]
  /\ PlaceOf \in [Point -> Place \cup {Nowhere}]
  /\ Interval \in Nat \ {0}
  /\ MaxTime \in Nat
  /\ None \notin Int \cup Point \cup Place \cup {Nowhere, Failed}
  /\ Failed \notin Place \cup {Nowhere}

VARIABLES
  now,          \* the clock
  cache,        \* cache[k]: a place, Nowhere for a nil location, or None
  lastRequest,  \* when the last call took its turn
  pc,           \* pc[l]: "idle", "limit", "asleep", "sent" or "done"
  point,        \* point[l]: the coordinates l is asked about
  wakeAt,       \* wakeAt[l]: when the sleep of rateLimit ends
  answer,       \* answer[l]: what l returned
  known,        \* history: known[l], the keys answered for when l started
  taken,        \* history: the number of turns taken so far
  turn,         \* history: turn[l], the number of the turn of l, or 0
  takenAt,      \* history: takenAt[l], when l took it
  sentAt        \* history: sentAt[l], when the request of l went out

limitVars == <<lastRequest, wakeAt, taken, turn, takenAt>>
vars == <<now, cache, lastRequest, pc, point, wakeAt, answer, known, taken, turn,
          takenAt, sentAt>>

(* lastRequest starts as the zero time, long ago.                          *)
Init ==
  /\ now = 0
  /\ cache = [k \in Key |-> None]
  /\ lastRequest = -Interval
  /\ pc = [l \in Lookup |-> "idle"]
  /\ point = [l \in Lookup |-> None]
  /\ wakeAt = [l \in Lookup |-> None]
  /\ answer = [l \in Lookup |-> None]
  /\ known = [l \in Lookup |-> {}]
  /\ taken = 0
  /\ turn = [l \in Lookup |-> 0]
  /\ takenAt = [l \in Lookup |-> None]
  /\ sentAt = [l \in Lookup |-> None]

-------------------------------------------------------------------------------
Return(l, what) ==
  /\ pc' = [pc EXCEPT ![l] = "done"]
  /\ answer' = [answer EXCEPT ![l] = what]

Answered(l) == answer[l] \notin {None, Failed}

(* An entry is returned, also the nil one, as ENOTFOUND.  A handler looks  *)
(* up its photos in a loop.  Bound of the model: a call starts while the   *)
(* clock leaves it time to sleep and ask.                                  *)
Begin(l, p) ==
  /\ pc[l] = "idle"
  /\ \A m \in Lookup : CallerOf[m] = CallerOf[l] /\ m < l => pc[m] = "done"
  /\ now + Interval <= MaxTime
  /\ point' = [point EXCEPT ![l] = p]
  /\ known' = [known EXCEPT ![l] = {CacheKey[point[m]] : m \in {n \in Lookup : Answered(n)}}]
  /\ \/ /\ cache[CacheKey[p]] # None
        /\ Return(l, cache[CacheKey[p]])
     \/ /\ cache[CacheKey[p]] = None
        /\ pc' = [pc EXCEPT ![l] = "limit"]
        /\ UNCHANGED answer
  /\ UNCHANGED <<now, cache, limitVars, sentAt>>

(* Mistake to detect: the time of the last request is not kept.            *)
TakeTurnUnrecorded(l) ==
  /\ pc[l] = "limit"
  /\ wakeAt' = [wakeAt EXCEPT ![l] = IF lastRequest + Interval > now
                                       THEN lastRequest + Interval ELSE now]
  /\ UNCHANGED lastRequest
  /\ taken' = taken + 1
  /\ turn' = [turn EXCEPT ![l] = taken']
  /\ takenAt' = [takenAt EXCEPT ![l] = now]
  /\ pc' = [pc EXCEPT ![l] = "asleep"]
  /\ UNCHANGED <<now, cache, point, answer, known, sentAt>>

(* rateLimit sleeps until an interval after the last turn was taken, and   *)
(* records this moment, not the one it will wake at.                       *)
TakeTurn(l) ==
  /\ pc[l] = "limit"
  /\ wakeAt' = [wakeAt EXCEPT ![l] = IF lastRequest + Interval > now
                                       THEN lastRequest + Interval ELSE now]
  /\ lastRequest' = now
  /\ taken' = taken + 1
  /\ turn' = [turn EXCEPT ![l] = taken']
  /\ takenAt' = [takenAt EXCEPT ![l] = now]
  /\ pc' = [pc EXCEPT ![l] = "asleep"]
  /\ UNCHANGED <<now, cache, point, answer, known, sentAt>>

(* The request goes out when the sleep is over; Sleep may last longer.     *)
Send(l) ==
  /\ pc[l] = "asleep"
  /\ now >= wakeAt[l]
  /\ pc' = [pc EXCEPT ![l] = "sent"]
  /\ sentAt' = [sentAt EXCEPT ![l] = now]
  /\ UNCHANGED <<now, cache, limitVars, point, answer, known>>

(* Mistakes to detect: only places are stored; every error is stored as a  *)
(* nil location.                                                           *)
StorePlaceOnly(l, what) ==
  cache' = IF what \in {Failed, Nowhere} THEN cache
           ELSE [cache EXCEPT ![CacheKey[point[l]]] = what]

StoreErrors(l, what) ==
  cache' = [cache EXCEPT ![CacheKey[point[l]]] = IF what = Failed THEN Nowhere ELSE what]

(* store: a place or Nowhere.  "Don't cache transient HTTP errors."        *)
Store(l, what) ==
  cache' = IF what = Failed THEN cache
           ELSE [cache EXCEPT ![CacheKey[point[l]]] = what]

(* Nominatim answers for the exact coordinates, or the request fails: no   *)
(* connection, a timeout, a cancelled context, an unexpected status or a   *)
(* body that does not decode.                                              *)
Receive(l) ==
  /\ pc[l] = "sent"
  /\ \E what \in {PlaceOf[point[l]], Failed} : Store(l, what) /\ Return(l, what)
  /\ UNCHANGED <<now, limitVars, point, known, sentAt>>

Tick ==
  /\ now < MaxTime
  /\ now' = now + 1
  /\ UNCHANGED <<cache, limitVars, pc, point, answer, known, sentAt>>

Next ==
  \/ \E l \in Lookup, p \in Point : Begin(l, p)
  \/ \E l \in Lookup : TakeTurn(l) \/ Send(l) \/ Receive(l)
  \/ Tick

Spec == Init /\ [][Next]_vars

-------------------------------------------------------------------------------
(* Every variable has its type.                                            *)
TypeOK ==
  /\ now \in 0 .. MaxTime
  /\ cache \in [Key -> Place \cup {Nowhere, None}]
  /\ lastRequest \in Int
  /\ pc \in [Lookup -> {"idle", "limit", "asleep", "sent", "done"}]
  /\ point \in [Lookup -> Point \cup {None}]
  /\ wakeAt \in [Lookup -> Int \cup {None}]
  /\ answer \in [Lookup -> Place \cup {Nowhere, Failed, None}]
  /\ known \in [Lookup -> SUBSET Key]
  /\ taken \in Nat
  /\ turn \in [Lookup -> Nat]
  /\ takenAt \in [Lookup -> Int \cup {None}]
  /\ sentAt \in [Lookup -> Int \cup {None}]

Learnt(k, what) ==
  \E l \in Lookup : /\ pc[l] = "done" /\ sentAt[l] # None
                    /\ CacheKey[point[l]] = k
                    /\ answer[l] = what /\ what = PlaceOf[point[l]]

(* Whatever answers, failures and cache hits are mixed, what the cache     *)
(* holds and what a call returns without an error is what Nominatim said   *)
(* of coordinates with that key: a transient error is never remembered as  *)
(* "no place", nor does an answer land under another key.                  *)
AnswersTrue ==
  /\ \A k \in Key : cache[k] # None => Learnt(k, cache[k])
  /\ \A l \in Lookup : Answered(l) => Learnt(CacheKey[point[l]], answer[l])

(* "also cached to avoid repeating failed lookups" (geocode.go:43): once a *)
(* call was answered, with a place or with ENOTFOUND, no call that starts  *)
(* later sends a request for the same key, whichever handler makes it.     *)
NoRepeat ==
  \A l \in Lookup : sentAt[l] # None => CacheKey[point[l]] \notin known[l]

(* What the rate limit does guarantee: of three calls that take turns one  *)
(* after the other, if the first has asked by the time the second takes    *)
(* its turn, then the third asks at least an interval after the first.     *)
(* Two requests may share an interval, but no caller that asks one after   *)
(* the other brings three into it.                                         *)
NoThreeInInterval ==
  \A a, b, c \in Lookup :
    /\ 0 < turn[a] /\ turn[a] < turn[b] /\ turn[b] < turn[c]
    /\ sentAt[a] # None /\ sentAt[c] # None
    /\ sentAt[a] <= takenAt[b]
    => sentAt[c] >= sentAt[a] + Interval

(* "A maximum of 1 request per second.  The Geocoder enforces the rate     *)
(* limit automatically" (geocode.go:7-9): a caller that looks up one photo *)
(* after the other asks at most once per interval, at least if no sleep    *)
(* lasts longer than it was asked to.  The code does not keep it.          *)
OnePerInterval ==
  \A l, m \in Lookup :
    /\ CallerOf[l] = CallerOf[m] /\ l < m
    /\ sentAt[l] # None /\ sentAt[m] # None
    /\ sentAt[l] = wakeAt[l]
    => sentAt[m] >= sentAt[l] + Interval
===============================================================================
