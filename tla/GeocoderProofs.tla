---------------------------- MODULE GeocoderProofs ----------------------------
(***************************************************************************)
(* Proofs about Geocoder, for any calls, callers, points and keys.  Stages *)
(* says what a call at each step of ReverseGeocode has recorded, Cached    *)
(* ties the answers to the cache, and Turns orders the turns of the rate   *)
(* limit by the clock.                                                     *)
(***************************************************************************)
EXTENDS Geocoder, TLAPS

(* What a call has recorded at each of its steps.                          *)
Stages ==
  \A l \in Lookup :
    /\ pc[l] = "idle" =>
         answer[l] = None /\ sentAt[l] = None /\ turn[l] = 0
    /\ pc[l] # "idle" => point[l] \in Point
    /\ pc[l] = "limit" => answer[l] = None /\ sentAt[l] = None /\ turn[l] = 0
    /\ pc[l] = "asleep" => answer[l] = None /\ sentAt[l] = None
    /\ pc[l] = "sent" => answer[l] = None /\ sentAt[l] # None
    /\ pc[l] = "asleep" => turn[l] > 0
    /\ sentAt[l] # None => turn[l] > 0

(* What has been learnt from Nominatim, pairs of a key and an answer, and  *)
(* that cache and calls hold nothing else.                                 *)
Heard == {l \in Lookup : pc[l] = "done" /\ sentAt[l] # None /\ answer[l] = PlaceOf[point[l]]}
Facts == {<<CacheKey[point[l]], answer[l]>> : l \in Heard}

FactsOnly ==
  /\ \A k \in Key : cache[k] # None => <<k, cache[k]>> \in Facts
  /\ \A l \in Lookup : Answered(l) => <<CacheKey[point[l]], answer[l]>> \in Facts

(* An answer stays in the cache, and a call that is to ask has not been    *)
(* answered before.                                                        *)
Cached ==
  /\ \A l \in Lookup : Answered(l) => cache[CacheKey[point[l]]] # None
  /\ \A l \in Lookup :
       pc[l] \in {"limit", "asleep", "sent"} \/ sentAt[l] # None =>
         CacheKey[point[l]] \notin known[l]

(* A turn is taken no later than the next, and a call sleeps until an      *)
(* interval after every earlier turn.                                      *)
Turns ==
  /\ lastRequest <= now
  /\ \A l \in Lookup :
       turn[l] > 0 => /\ turn[l] <= taken
                      /\ takenAt[l] \in Int /\ takenAt[l] <= lastRequest
                      /\ wakeAt[l] \in Int
  /\ \A b, c \in Lookup :
       0 < turn[b] /\ turn[b] < turn[c] => wakeAt[c] >= takenAt[b] + Interval
  /\ \A l \in Lookup : sentAt[l] # None => sentAt[l] \in Int /\ sentAt[l] >= wakeAt[l]

IInv == TypeOK /\ Stages /\ FactsOnly /\ Cached /\ Turns

-------------------------------------------------------------------------------
LEMMA InitTypeOK == Init => TypeOK
  BY GeocoderAssumption DEF Init, TypeOK

LEMMA InitIInv == Init => IInv
<1> SUFFICES ASSUME Init PROVE IInv
  OBVIOUS
<1>1. TypeOK
  BY InitTypeOK
<1>2. Stages /\ FactsOnly /\ Cached
  BY DEF Init, Stages, FactsOnly, Cached, Answered
<1>3. Turns
  BY GeocoderAssumption DEF Init, Turns
<1>4. QED
  BY <1>1, <1>2, <1>3 DEF IInv

LEMMA BeginKeeps ==
  ASSUME IInv, NEW l \in Lookup, NEW p \in Point, Begin(l, p)
  PROVE  IInv'
<1> USE GeocoderAssumption DEF IInv, TypeOK, Begin, Return, limitVars
<1>1. TypeOK'
  <2>1. \A m \in Lookup : Answered(m) => CacheKey[point[m]] \in Key
    BY DEF Stages, Answered
  <2>2. {CacheKey[point[m]] : m \in {n \in Lookup : Answered(n)}} \in SUBSET Key
    BY <2>1
  <2>3. known' \in [Lookup -> SUBSET Key]
    BY <2>2
  <2>4. answer' \in [Lookup -> Place \cup {Nowhere, Failed, None}]
    OBVIOUS
  <2>5. QED
    BY <2>3, <2>4
<1>2. Stages'
  BY DEF Stages
<1>3. Facts \subseteq Facts'
  <2>1. Heard \subseteq Heard' /\ l \notin Heard
    BY DEF Heard, Stages
  <2>2. QED
    BY <2>1 DEF Facts, Heard
<1>4. FactsOnly'
  <2>1. \A m \in Lookup \ {l} :
          Answered(m)' => <<CacheKey[point'[m]], answer'[m]>> \in Facts
    BY DEF FactsOnly, Answered
  <2>2. Answered(l)' => <<CacheKey[point'[l]], answer'[l]>> \in Facts
    BY DEF FactsOnly, Answered, Stages
  <2>3. QED
    BY <1>3, <2>1, <2>2 DEF FactsOnly
<1>5. Cached'
  <2>1. \A m \in Lookup : Answered(m)' => cache'[CacheKey[point'[m]]] # None
    BY DEF Cached, Answered, Stages
  <2>2. cache[CacheKey[p]] = None => CacheKey[p] \notin known'[l]
    BY DEF Cached
  <2>3. \A m \in Lookup :
          pc'[m] \in {"limit", "asleep", "sent"} \/ sentAt'[m] # None =>
            CacheKey[point'[m]] \notin known'[m]
    BY <2>2 DEF Cached, Stages
  <2>4. QED
    BY <2>1, <2>3 DEF Cached
<1>6. Turns'
  BY DEF Turns
<1>7. QED
  BY <1>1, <1>2, <1>4, <1>5, <1>6

LEMMA TakeTurnKeeps ==
  ASSUME IInv, NEW l \in Lookup, TakeTurn(l)
  PROVE  IInv'
<1> USE GeocoderAssumption DEF IInv, TypeOK, TakeTurn
<1>1. /\ now \in Int /\ lastRequest \in Int /\ Interval \in Nat /\ taken \in Nat
      /\ turn \in [Lookup -> Nat] /\ None \notin Int
  OBVIOUS
<1>2. TypeOK'
  <2>1. wakeAt' \in [Lookup -> Int \cup {None}] /\ takenAt' \in [Lookup -> Int \cup {None}]
    BY <1>1
  <2>2. taken' \in Nat /\ turn' \in [Lookup -> Nat]
    BY <1>1
  <2>3. QED
    BY <2>1, <2>2
<1>3. Stages'
  BY <1>1 DEF Stages
<1>4. FactsOnly' /\ Cached'
  <2>1. Facts' = Facts
    <3>1. Heard' = Heard
      BY DEF Heard
    <3>2. QED
      BY <3>1 DEF Facts
  <2>2. FactsOnly'
    BY <2>1 DEF FactsOnly, Answered
  <2>3. QED
    BY <2>2 DEF Cached, Answered
<1>5. Turns'
  <2>1. wakeAt'[l] \in Int /\ wakeAt'[l] >= lastRequest + Interval /\ turn'[l] = taken + 1
        /\ takenAt'[l] = now /\ lastRequest' = now /\ lastRequest <= now /\ taken' = taken + 1
        /\ turn[l] = 0 /\ sentAt[l] = None
    BY <1>1 DEF Turns, Stages
  <2>2. \A m \in Lookup \ {l} : turn'[m] = turn[m] /\ takenAt'[m] = takenAt[m] /\ wakeAt'[m] = wakeAt[m]
    OBVIOUS
  <2>3. \A m \in Lookup : turn'[m] > 0 => /\ turn'[m] <= taken'
                                         /\ takenAt'[m] \in Int /\ takenAt'[m] <= lastRequest'
                                         /\ wakeAt'[m] \in Int
    BY <1>1, <2>1, <2>2 DEF Turns
  <2>4. ASSUME NEW b \in Lookup, NEW c \in Lookup, 0 < turn'[b], turn'[b] < turn'[c]
        PROVE  wakeAt'[c] >= takenAt'[b] + Interval
    <3>1. b # l
      BY <1>1, <2>1, <2>2, <2>4 DEF Turns
    <3>2. CASE c = l
      BY <1>1, <2>1, <2>2, <2>4, <3>1, <3>2 DEF Turns
    <3>3. CASE c # l
      BY <2>2, <2>4, <3>1, <3>3 DEF Turns
    <3>4. QED
      BY <3>2, <3>3
  <2>5. \A m \in Lookup : sentAt'[m] # None => sentAt'[m] \in Int /\ sentAt'[m] >= wakeAt'[m]
    BY <2>1, <2>2 DEF Turns
  <2>6. QED
    BY <1>1, <2>1, <2>3, <2>4, <2>5 DEF Turns
<1>6. QED
  BY <1>2, <1>3, <1>4, <1>5

LEMMA SendKeeps ==
  ASSUME IInv, NEW l \in Lookup, Send(l)
  PROVE  IInv'
<1> USE GeocoderAssumption DEF IInv, TypeOK, Send, limitVars
<1>1. now \in Int /\ None \notin Int
  OBVIOUS
<1>2. TypeOK' /\ Stages'
  BY <1>1 DEF Stages
<1>3. FactsOnly' /\ Cached'
  <2>1. Facts' = Facts
    <3>1. Heard' = Heard
      BY DEF Heard
    <3>2. QED
      BY <3>1 DEF Facts, Heard
  <2>2. FactsOnly'
    BY <2>1 DEF FactsOnly, Answered
  <2>3. QED
    BY <2>2 DEF Cached, Answered
<1>4. Turns'
  BY <1>1 DEF Turns, Stages
<1>5. QED
  BY <1>2, <1>3, <1>4

LEMMA ReceiveKeeps ==
  ASSUME IInv, NEW l \in Lookup, Receive(l)
  PROVE  IInv'
<1> USE GeocoderAssumption DEF IInv, TypeOK, Receive
<1>1. PICK what \in {PlaceOf[point[l]], Failed} : Store(l, what) /\ Return(l, what)
  OBVIOUS
<1>2. /\ point[l] \in Point /\ CacheKey[point[l]] \in Key
      /\ PlaceOf[point[l]] \in Place \cup {Nowhere} /\ answer[l] = None /\ sentAt[l] # None
  BY DEF Stages
<1>3. TypeOK' /\ Stages'
  BY <1>1, <1>2 DEF Store, Return, Stages, limitVars
<1>4. Facts \subseteq Facts'
  <2>1. l \notin Heard /\ Heard \subseteq Heard'
    BY <1>1, <1>2 DEF Heard, Return
  <2>2. \A m \in Heard : answer'[m] = answer[m] /\ point'[m] = point[m]
    BY <1>1, <2>1 DEF Heard, Return
  <2>3. QED
    BY <2>1, <2>2 DEF Facts
<1>5. what # Failed => <<CacheKey[point[l]], what>> \in Facts'
  <2> SUFFICES ASSUME what # Failed PROVE <<CacheKey[point[l]], what>> \in Facts'
    OBVIOUS
  <2>1. l \in Heard' /\ answer'[l] = what /\ point'[l] = point[l]
    BY <1>1, <1>2 DEF Heard, Return
  <2>2. QED
    BY <2>1 DEF Facts
<1>6. FactsOnly'
  <2>1. \A k \in Key : cache'[k] # None => <<k, cache'[k]>> \in Facts'
    BY <1>1, <1>2, <1>4, <1>5 DEF FactsOnly, Store
  <2>2. \A m \in Lookup \ {l} : Answered(m)' => <<CacheKey[point'[m]], answer'[m]>> \in Facts
    BY <1>1 DEF FactsOnly, Answered, Return
  <2>3. Answered(l)' => <<CacheKey[point'[l]], answer'[l]>> \in Facts'
    BY <1>1, <1>5 DEF Answered, Return
  <2>4. QED
    BY <1>4, <2>1, <2>2, <2>3 DEF FactsOnly
<1>7. Cached'
  <2>1. \A m \in Lookup : Answered(m)' => cache'[CacheKey[point'[m]]] # None
    BY <1>1, <1>2 DEF Cached, Answered, Store, Return, Stages
  <2>2. QED
    BY <1>1, <1>2, <2>1 DEF Cached, Return
<1>8. Turns'
  BY DEF Turns, limitVars
<1>9. QED
  BY <1>3, <1>6, <1>7, <1>8

LEMMA NextIInv == IInv /\ [Next]_vars => IInv'
<1> SUFFICES ASSUME IInv, [Next]_vars PROVE IInv'
  OBVIOUS
<1>1. CASE Tick \/ UNCHANGED vars
  <2> USE GeocoderAssumption DEF IInv, TypeOK, Tick, vars, limitVars
  <2>1. TypeOK' /\ Stages' /\ Cached' /\ Turns'
    BY <1>1 DEF Stages, Cached, Answered, Turns
  <2>2. Heard' = Heard
    BY <1>1 DEF Heard
  <2>3. Facts' = Facts
    BY <1>1, <2>2 DEF Facts
  <2>4. FactsOnly'
    BY <1>1, <2>3 DEF FactsOnly, Answered
  <2>5. QED
    BY <2>1, <2>4
<1>2. QED
  BY <1>1, BeginKeeps, TakeTurnKeeps, SendKeeps, ReceiveKeeps DEF Next

-------------------------------------------------------------------------------
(* The theorems.                                                           *)
THEOREM GeocoderInvariant == Spec => []IInv
  BY InitIInv, NextIInv, PTL DEF Spec

(* Cache and answers are what Nominatim said of some coordinates with the  *)
(* key (store, and the lookup at the start of ReverseGeocode).             *)
THEOREM AnswersAlwaysTrue == Spec => []AnswersTrue
<1>1. IInv => AnswersTrue
  <2> SUFFICES ASSUME IInv PROVE AnswersTrue
    OBVIOUS
  <2>1. \A k, what : <<k, what>> \in Facts => Learnt(k, what)
    BY DEF Facts, Heard, Learnt
  <2>2. QED
    BY <2>1 DEF IInv, FactsOnly, AnswersTrue
<1>2. QED
  BY <1>1, GeocoderInvariant, PTL

(* What has been answered is not asked again (the cache of geocode.go).    *)
THEOREM NeverRepeats == Spec => []NoRepeat
<1>1. IInv => NoRepeat
  BY DEF IInv, Cached, NoRepeat
<1>2. QED
  BY <1>1, GeocoderInvariant, PTL

(* What rateLimit delivers, for any number of callers and any clock.       *)
THEOREM NeverThreeInInterval == Spec => []NoThreeInInterval
<1>1. IInv => NoThreeInInterval
  <2> SUFFICES ASSUME IInv, NEW a \in Lookup, NEW b \in Lookup, NEW c \in Lookup,
                      0 < turn[a], turn[a] < turn[b], turn[b] < turn[c],
                      sentAt[a] # None, sentAt[c] # None, sentAt[a] <= takenAt[b]
               PROVE  sentAt[c] >= sentAt[a] + Interval
    BY DEF NoThreeInInterval
  <2>1. turn[a] \in Nat /\ turn[b] \in Nat /\ turn[c] \in Nat /\ Interval \in Nat
    BY GeocoderAssumption DEF IInv, TypeOK
  <2>2. 0 < turn[b] /\ 0 < turn[c]
    BY <2>1
  <2>3. /\ wakeAt[c] >= takenAt[b] + Interval /\ sentAt[c] >= wakeAt[c]
        /\ takenAt[b] \in Int /\ wakeAt[c] \in Int /\ sentAt[a] \in Int /\ sentAt[c] \in Int
    BY <2>2 DEF IInv, Turns
  <2>4. QED
    BY <2>1, <2>3
<1>2. QED
  BY <1>1, GeocoderInvariant, PTL
===============================================================================
