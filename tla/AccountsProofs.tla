---------------------------- MODULE AccountsProofs ----------------------------
(***************************************************************************)
(* Proofs about the three ways in, LoginLimiter, Sessions and              *)
(* Registration, each for itself: they share the clock and nothing else.   *)
(***************************************************************************)
EXTENDS LoginLimiter, Sessions, Registration, FiniteSetTheorems, TLAPS

-------------------------------------------------------------------------------
(* The limiter, for any number of attempts at a time.  That a window never *)
(* counts too much is not inductive by itself: an attempt that passed the  *)
(* check adds to the counter later.  What no step raises above the bound,  *)
(* while a window lasts, is the counter and the attempts under way         *)
(* together (Room).  That nobody is turned away too early needs the other  *)
(* direction: the counter never says more than the log of the failures     *)
(* (Logged).                                                               *)
LimiterTypeOK ==
  /\ count \in Nat /\ now \in Nat /\ windowEnd \in Nat
  /\ log \in Seq(Nat)
  /\ phase \in [Attempt -> {"idle", "checking", "failed"}]

UnderWay == {a \in Attempt : phase[a] # "idle"}

(* A window that is over does not count: the next failure begins a new one.*)
Room == ~Expired => count + Cardinality(UnderWay) <= MaxAttempts - 1 + Cardinality(Attempt)

Bounded == LimiterTypeOK /\ OverrunBounded /\ Room

(* The counter stands for the last entries of the log, all of them made in *)
(* the window that it counts.                                              *)
Logged ==
  /\ windowEnd <= now + Window
  /\ count <= Len(log)
  /\ \A k \in Len(log) - count + 1 .. Len(log) : log[k] >= windowEnd - Window

(* No time passes between a refusal and the step after it.                 *)
Refused == blocked => count >= MaxAttempts /\ ~Expired

LimiterInv == Bounded /\ Logged /\ Refused

LEMMA Sizes ==
  /\ Cardinality(Attempt) \in Nat
  /\ IsFiniteSet(UnderWay) /\ Cardinality(UnderWay) \in Nat
  /\ Cardinality(UnderWay) <= Cardinality(Attempt)
<1>1. UnderWay \subseteq Attempt /\ IsFiniteSet(Attempt)
  BY LimiterAssumption DEF UnderWay
<1>2. QED
  BY <1>1, FS_Subset, FS_CardinalityType

LEMMA InitBounded == LimiterInit => Bounded
<1> SUFFICES ASSUME LimiterInit PROVE Bounded
  OBVIOUS
<1>1. LimiterTypeOK
  BY DEF LimiterInit, LimiterTypeOK
<1>2. /\ count = 0 /\ MaxAttempts \in Nat \ {0} /\ Cardinality(Attempt) \in Nat
      /\ Cardinality(UnderWay) \in Nat /\ Cardinality(UnderWay) <= Cardinality(Attempt)
  BY Sizes, LimiterAssumption DEF LimiterInit
<1>3. QED
  BY <1>1, <1>2 DEF Bounded, OverrunBounded, Room

(* An attempt comes to be under way, or is no longer.                      *)
LEMMA Coming ==
  ASSUME LimiterTypeOK, NEW a \in Attempt, phase[a] = "idle",
         phase' = [phase EXCEPT ![a] = "checking"]
  PROVE  Cardinality(UnderWay') \in Nat /\ Cardinality(UnderWay') <= Cardinality(Attempt)
<1>1. UnderWay' \subseteq Attempt /\ IsFiniteSet(Attempt)
  BY LimiterAssumption DEF UnderWay
<1>2. QED
  BY <1>1, FS_Subset, FS_CardinalityType

LEMMA Leaving ==
  ASSUME LimiterTypeOK, NEW a \in Attempt, phase[a] # "idle",
         phase' = [phase EXCEPT ![a] = "idle"]
  PROVE  /\ Cardinality(UnderWay') \in Nat
         /\ Cardinality(UnderWay') = Cardinality(UnderWay) - 1
<1>1. UnderWay' = UnderWay \ {a} /\ a \in UnderWay
  BY DEF UnderWay, LimiterTypeOK
<1>2. IsFiniteSet(UnderWay)
  BY Sizes
<1>3. Cardinality(UnderWay \ {a}) = Cardinality(UnderWay) - 1 /\ IsFiniteSet(UnderWay \ {a})
  BY <1>1, <1>2, FS_RemoveElement
<1>4. QED
  BY <1>1, <1>3, FS_CardinalityType

LEMMA NextBounded == Bounded /\ [LimiterNext]_limiterVars => Bounded'
<1> SUFFICES ASSUME Bounded, [LimiterNext]_limiterVars PROVE Bounded'
  OBVIOUS
<1> USE LimiterAssumption DEF Bounded, LimiterTypeOK, Expired
<1>1. /\ Cardinality(Attempt) \in Nat /\ MaxAttempts \in Nat \ {0} /\ Window \in Nat
      /\ Cardinality(UnderWay) \in Nat /\ Cardinality(UnderWay) <= Cardinality(Attempt)
  BY Sizes
<1>2. ASSUME NEW a \in Attempt, Allow(a)
      PROVE  Bounded'
  <2>1. Cardinality(UnderWay') \in Nat /\ Cardinality(UnderWay') <= Cardinality(Attempt)
    BY <1>2, Coming DEF Allow
  <2>2. LimiterTypeOK' /\ OverrunBounded'
    BY <1>1, <1>2 DEF Allow, OverrunBounded
  <2>3. Room'
    BY <1>1, <1>2, <2>1 DEF Allow, Room
  <2>4. QED
    BY <2>2, <2>3
<1>3. ASSUME NEW a \in Attempt, Reject(a)
      PROVE  Bounded'
  <2>1. UnderWay' = UnderWay
    BY <1>3 DEF Reject, UnderWay
  <2>2. QED
    BY <1>3, <2>1 DEF Reject, OverrunBounded, Room
<1>4. ASSUME NEW a \in Attempt, Pass(a)
      PROVE  Bounded'
  <2>1. Cardinality(UnderWay') \in Nat /\ Cardinality(UnderWay') = Cardinality(UnderWay) - 1
    BY <1>4, Leaving DEF Pass
  <2>2. LimiterTypeOK' /\ OverrunBounded'
    BY <1>4 DEF Pass, OverrunBounded
  <2>3. Room'
    BY <1>1, <1>4, <2>1 DEF Pass, Room
  <2>4. QED
    BY <2>2, <2>3
<1>5. ASSUME NEW a \in Attempt, Record(a)
      PROVE  Bounded'
  <2>1. Cardinality(UnderWay') \in Nat /\ Cardinality(UnderWay') = Cardinality(UnderWay) - 1
    BY <1>5, Leaving DEF Record
  <2>2. LimiterTypeOK'
    BY <1>1, <1>5 DEF Record
  <2>3. CASE count = 0 \/ Expired
    BY <1>1, <1>5, <2>1, <2>2, <2>3 DEF Record, OverrunBounded, Room
  <2>4. CASE ~(count = 0 \/ Expired)
    BY <1>1, <1>5, <2>1, <2>2, <2>4 DEF Record, OverrunBounded, Room
  <2>5. QED
    BY <2>3, <2>4
<1>6. CASE LimiterCleanup
  <2>1. UnderWay' = UnderWay
    BY <1>6 DEF LimiterCleanup, UnderWay
  <2>2. QED
    BY <1>1, <1>6, <2>1 DEF LimiterCleanup, OverrunBounded, Room
<1>7. CASE LimiterTick
  <2>1. UnderWay' = UnderWay
    BY <1>7 DEF LimiterTick, TimePasses, UnderWay
  <2>2. QED
    BY <1>7, <2>1 DEF LimiterTick, TimePasses, OverrunBounded, Room
<1>8. CASE UNCHANGED <<now, count, windowEnd, phase, log>>
  <2>1. UnderWay' = UnderWay
    BY <1>8 DEF UnderWay
  <2>2. QED
    BY <1>8, <2>1 DEF OverrunBounded, Room
<1>9. QED
  BY <1>2, <1>3, <1>4, <1>5, <1>6, <1>7, <1>8 DEF LimiterNext, Block, limiterVars

LEMMA RecordLogs ==
  ASSUME LimiterTypeOK, Logged, NEW a \in Attempt, Record(a)
  PROVE  Logged'
<1> USE LimiterAssumption DEF LimiterTypeOK, Record, Expired
<1>1. /\ Len(log') = Len(log) + 1 /\ Len(log) \in Nat
      /\ \A k \in 1 .. Len(log) : log'[k] = log[k]
      /\ log'[Len(log) + 1] = now
  OBVIOUS
<1>2. /\ count \in Nat /\ now \in Nat /\ windowEnd \in Nat /\ Window \in Nat /\ now' = now
      /\ windowEnd <= now + Window /\ count <= Len(log)
      /\ \A k \in Len(log) - count + 1 .. Len(log) : log[k] >= windowEnd - Window
  BY DEF Logged
<1>3. CASE count = 0 \/ Expired
  <2>1. count' = 1 /\ windowEnd' = now + Window
    BY <1>3
  <2>2. \A k \in Len(log') - count' + 1 .. Len(log') : k = Len(log) + 1
    BY <1>1, <2>1
  <2>3. QED
    BY <1>1, <1>2, <2>1, <2>2 DEF Logged
<1>4. CASE ~(count = 0 \/ Expired)
  <2>1. count' = count + 1 /\ windowEnd' = windowEnd
    BY <1>4
  <2>2. ASSUME NEW k \in Len(log') - count' + 1 .. Len(log')
        PROVE  log'[k] >= windowEnd' - Window
    <3>1. k = Len(log) + 1 \/ (k \in 1 .. Len(log) /\ k \in Len(log) - count + 1 .. Len(log))
      BY <1>1, <1>2, <2>1
    <3>2. QED
      BY <1>1, <1>2, <2>1, <3>1
  <2>3. QED
    BY <1>1, <1>2, <2>1, <2>2 DEF Logged
<1>5. QED
  BY <1>3, <1>4

LEMMA NextLogged ==
  LimiterTypeOK /\ Logged /\ Refused /\ [LimiterNext]_limiterVars
    => Logged' /\ Refused'
<1> SUFFICES ASSUME LimiterTypeOK, Logged, Refused, [LimiterNext]_limiterVars
             PROVE Logged' /\ Refused'
  OBVIOUS
<1> USE LimiterAssumption DEF LimiterTypeOK, Expired, Refused
<1>1. ASSUME NEW a \in Attempt, Allow(a)
      PROVE  Logged' /\ Refused'
  BY <1>1 DEF Allow, Logged
<1>2. ASSUME NEW a \in Attempt, Block(a)
      PROVE  Logged' /\ Refused'
  BY <1>2 DEF Block, Logged
<1>3. ASSUME NEW a \in Attempt, Record(a)
      PROVE  Logged' /\ Refused'
  BY <1>3, RecordLogs DEF Record
<1>4. CASE LimiterCleanup
  BY <1>4 DEF LimiterCleanup, Logged
<1>5. CASE LimiterTick
  BY <1>5 DEF LimiterTick, TimePasses, Logged
<1>6. CASE UNCHANGED <<now, count, windowEnd, log>> /\ (blocked' = FALSE \/ UNCHANGED blocked)
  BY <1>6 DEF Logged
<1>7. QED
  BY <1>1, <1>2, <1>3, <1>4, <1>5, <1>6 DEF LimiterNext, Reject, Pass, limiterVars

(* Whoever is turned away, so many failures lie in the last Window: the    *)
(* ones that the counter stands for.                                       *)
LEMMA RefusedRightly == LimiterInv /\ blocked => Recent >= MaxAttempts
<1> SUFFICES ASSUME LimiterInv, blocked PROVE Recent >= MaxAttempts
  OBVIOUS
<1> USE LimiterAssumption DEF LimiterInv, Bounded, LimiterTypeOK
<1> DEFINE Last == Len(log) - count + 1 .. Len(log)
           Late == {k \in DOMAIN log : log[k] >= now - Window}
<1>1. /\ count \in Nat /\ now \in Nat /\ windowEnd \in Nat /\ Window \in Nat
      /\ Len(log) \in Nat /\ count <= Len(log) /\ now <= windowEnd /\ count >= MaxAttempts
      /\ DOMAIN log = 1 .. Len(log) /\ \A k \in 1 .. Len(log) : log[k] \in Nat
  BY DEF Logged, Refused, Expired
<1>2. Last \subseteq Late
  <2>1. \A k \in Last : k \in 1 .. Len(log) /\ log[k] >= windowEnd - Window
    BY <1>1 DEF Logged
  <2>2. \A k \in Last : k \in DOMAIN log /\ log[k] >= now - Window
    BY <1>1, <2>1
  <2>3. QED
    BY <2>2
<1>3. IsFiniteSet(Late)
  <2>1. IsFiniteSet(1 .. Len(log))
    BY <1>1, FS_Interval
  <2>2. QED
    BY <1>1, <2>1, FS_Subset
<1>4. Cardinality(Last) = count
  <2>1. Cardinality(Last) = IF Len(log) - count + 1 > Len(log)
                            THEN 0 ELSE Len(log) - (Len(log) - count + 1) + 1
    BY <1>1, FS_Interval
  <2>2. QED
    BY <1>1, <2>1
<1>5. Cardinality(Last) <= Cardinality(Late) /\ Cardinality(Late) \in Nat
  BY <1>2, <1>3, FS_Subset, FS_CardinalityType
<1>6. QED
  BY <1>1, <1>4, <1>5 DEF Recent

LEMMA LimiterInvInit == LimiterInit => LimiterInv
<1>1. LimiterInit => Logged /\ Refused
  BY LimiterAssumption DEF LimiterInit, Logged, Refused
<1>2. QED
  BY <1>1, InitBounded DEF LimiterInv

LEMMA LimiterInvKept == LimiterInv /\ [LimiterNext]_limiterVars => LimiterInv'
  BY NextBounded, NextLogged DEF LimiterInv, Bounded

(* Nobody is turned away without so many failures in the last Window, and  *)
(* however many attempts are under way, a window counts at most so many    *)
(* failures more than are allowed (allow, record of the limiter).          *)
THEOREM LimitAlwaysKept == LimiterSpec => []LimitKept
<1>1. LimiterInv => LimitKept
  BY RefusedRightly DEF LimiterInv, Bounded, LimitKept
<1>2. QED
  BY <1>1, LimiterInvInit, LimiterInvKept, PTL DEF LimiterSpec

-------------------------------------------------------------------------------
(* Sessions, for any users, sessions and requests to log out, any lifetime *)
(* of tokens and any time between the issue of a token and its row.  Three *)
(* facts carry them: a token is made before its row, live rows have        *)
(* different tokens (token_hash UNIQUE, CreateSession), and a row that a   *)
(* logout has found holds the token it was shown (token and id of a row    *)
(* never change).                                                          *)
TokenMade == \A s \in Session : status[s] # "new" => token[s] \in Token

OneRowPerToken ==
  \A s, r \in Session :
    status[s] = "live" /\ status[r] = "live" /\ token[s] = token[r] => s = r

FoundIsShown ==
  \A l \in Logout :
    found[l] # None =>
      /\ found[l] \in Session /\ status[found[l]] \in {"live", "gone"}
      /\ token[found[l]] = shown[l] /\ shown[l] # None

SessionsInv == TypeOK /\ TokenMade /\ OneRowPerToken /\ FoundIsShown

-------------------------------------------------------------------------------
LEMMA SessionsInvInit == Init => SessionsInv
<1> SUFFICES ASSUME Init PROVE SessionsInv
  OBVIOUS
<1>1. TypeOK
  BY SessionsAssumption, ClockAssumption DEF Init, TypeOK
<1>2. TokenMade /\ OneRowPerToken /\ FoundIsShown
  BY DEF Init, TokenMade, OneRowPerToken, FoundIsShown
<1>3. QED
  BY <1>1, <1>2 DEF SessionsInv

LEMMA IssueKeeps ==
  ASSUME SessionsInv, NEW s \in Session, NEW u \in User, IssueJWT(s, u)
  PROVE  SessionsInv'
<1> USE SessionsAssumption, ClockAssumption DEF SessionsInv, TypeOK, IssueJWT, logoutVars
<1>1. <<u, IssueTime>> \in Token
  BY DEF Token, IssueTime
<1>2. TypeOK' /\ TokenMade'
  BY <1>1 DEF TokenMade
<1>3. OneRowPerToken'
  BY DEF OneRowPerToken
<1>4. FoundIsShown'
  BY DEF FoundIsShown
<1>5. QED
  BY <1>2, <1>3, <1>4

LEMMA CreateSessionKeeps ==
  ASSUME SessionsInv, NEW s \in Session, CreateSession(s)
  PROVE  SessionsInv'
<1> USE SessionsAssumption, ClockAssumption DEF SessionsInv, TypeOK, CreateSession, logoutVars
<1>1. expires' \in [Session -> Nat]
  <2>1. token[s][2] \in Nat
    BY DEF TokenMade, Token
  <2>2. \A at \in token[s][2] .. now : at + TTL \in Nat
    BY <2>1
  <2>3. QED
    BY <2>2
<1>2. TypeOK' /\ TokenMade'
  BY <1>1 DEF TokenMade
<1>3. OneRowPerToken'
  BY DEF OneRowPerToken, HasRow, Holds
<1>4. FoundIsShown'
  BY DEF FoundIsShown
<1>5. QED
  BY <1>2, <1>3, <1>4

LEMMA SessionsInvKept == SessionsInv /\ [Next]_vars => SessionsInv'
<1> SUFFICES ASSUME SessionsInv, [Next]_vars PROVE SessionsInv'
  OBVIOUS
<1> USE SessionsAssumption, ClockAssumption DEF SessionsInv, TypeOK, sessionVars, logoutVars
<1>1. ASSUME NEW l \in Logout, NEW t \in Token, BeginLogout(l, t)
      PROVE  SessionsInv'
  BY <1>1 DEF BeginLogout, TokenMade, OneRowPerToken, FoundIsShown
<1>2. ASSUME NEW l \in Logout, FindSession(l)
      PROVE  SessionsInv'
  BY <1>2 DEF FindSession, Reply, Holds, TokenMade, OneRowPerToken, FoundIsShown
<1>3. ASSUME NEW l \in Logout, DeleteSession(l)
      PROVE  SessionsInv'
  BY <1>3 DEF DeleteSession, Reply, TokenMade, OneRowPerToken, FoundIsShown
<1>4. CASE Cleanup
  BY <1>4 DEF Cleanup, TokenMade, OneRowPerToken, FoundIsShown
<1>5. CASE Tick
  BY <1>5 DEF Tick, TimePasses, TokenMade, OneRowPerToken, FoundIsShown
<1>6. CASE UNCHANGED vars
  BY <1>6 DEF vars, TokenMade, OneRowPerToken, FoundIsShown
<1>7. QED
  BY <1>1, <1>2, <1>3, <1>4, <1>5, <1>6, IssueKeeps, CreateSessionKeeps
     DEF Next

(* Every variable has its type.                                            *)
THEOREM SessionsTypeCorrect == Spec => []TypeOK
<1>1. SessionsInv => TypeOK
  BY DEF SessionsInv
<1>2. QED
  BY <1>1, SessionsInvInit, SessionsInvKept, PTL DEF Spec

-------------------------------------------------------------------------------
(* A live row goes because it has expired, or by the logout that found it. *)
LEMMA EndsRightly ==
  ASSUME SessionsInv, [Next]_vars, NEW s \in Session, status[s] = "live", status'[s] # "live"
  PROVE  \/ ~Accepted(token[s])
         \/ \E l \in Logout : shown[l] = token[s] /\ answer[l] = "none" /\ answer'[l] = "ok"
<1>1. ASSUME NEW l \in Logout, DeleteSession(l)
      PROVE  shown[l] = token[s] /\ answer[l] = "none" /\ answer'[l] = "ok"
  BY <1>1 DEF DeleteSession, Reply, SessionsInv, TypeOK, FoundIsShown
<1>2. CASE Cleanup
  <2>1. expires[s] < now /\ expires[s] \in Nat /\ now \in Nat
    BY <1>2, SessionsAssumption, ClockAssumption DEF Cleanup, SessionsInv, TypeOK
  <2>2. ~Accepted(token[s])
    BY <2>1 DEF Accepted, Holds, SessionsInv, OneRowPerToken
  <2>3. QED
    BY <2>2
<1>3. ASSUME NEW r \in Session, NEW u \in User, IssueJWT(r, u)
      PROVE  FALSE
  BY <1>3 DEF IssueJWT, SessionsInv, TypeOK
<1>4. ASSUME NEW r \in Session, CreateSession(r)
      PROVE  FALSE
  BY <1>4 DEF CreateSession, SessionsInv, TypeOK
<1>5. QED
  BY <1>1, <1>2, <1>3, <1>4 DEF Next, BeginLogout, FindSession, Tick, TimePasses, vars, sessionVars

LEMMA EndsStep ==
  SessionsInv /\ [Next]_vars =>
    \A s \in Session :
      status[s] = "live" /\ status'[s] # "live" =>
        \/ ~Accepted(token[s])
        \/ \E l \in Logout : shown[l] = token[s] /\ answer[l] = "none" /\ answer'[l] = "ok"
  BY EndsRightly

(* Only expiry and the logout of its own token end a session (Cleanup,     *)
(* DeleteSession by id).                                                   *)
THEOREM SessionsEndRightly == Spec => SessionEndsRightly
  BY SessionsInvInit, SessionsInvKept, EndsStep, PTL DEF Spec, SessionEndsRightly

LEMMA OkLeavesNoRow ==
  SessionsInv /\ [Next]_vars =>
    \A l \in Logout \ WebLogout :
      answer[l] = "none" /\ answer'[l] = "ok" => ~HasRow(shown[l])'
<1> SUFFICES ASSUME SessionsInv, [Next]_vars, NEW l \in Logout \ WebLogout,
                    answer[l] = "none", answer'[l] = "ok"
             PROVE  ~HasRow(shown[l])'
  OBVIOUS
<1> USE DEF SessionsInv, TypeOK
<1>1. ASSUME NEW k \in Logout, FindSession(k)
      PROVE  ~HasRow(shown[l])'
  <2>1. k = l /\ ~HasRow(shown[l])
    BY <1>1 DEF FindSession, Reply
  <2>2. QED
    BY <1>1, <2>1 DEF FindSession, HasRow, Holds, sessionVars
<1>2. ASSUME NEW k \in Logout, DeleteSession(k)
      PROVE  ~HasRow(shown[l])'
  <2>1. k = l /\ status[found[l]] = "live" /\ status' = [status EXCEPT ![found[l]] = "gone"]
    BY <1>2, SessionsAssumption, ClockAssumption DEF DeleteSession, Reply
  <2>2. found[l] \in Session /\ token[found[l]] = shown[l]
    BY <1>2, <2>1 DEF DeleteSession, FoundIsShown
  <2>3. QED
    BY <1>2, <2>1, <2>2 DEF DeleteSession, HasRow, Holds, OneRowPerToken
<1>3. CASE answer' = answer
  BY <1>3
<1>4. QED
  BY <1>1, <1>2, <1>3 DEF Next, IssueJWT, CreateSession, BeginLogout, Cleanup, Tick, TimePasses, vars, logoutVars

(* A logout that the API has answered with success leaves no row for the   *)
(* token (handleLogout).                                                   *)
THEOREM LogoutsInvalidate == Spec => LogoutInvalidates
  BY SessionsInvInit, SessionsInvKept, OkLeavesNoRow, PTL DEF Spec, LogoutInvalidates

-------------------------------------------------------------------------------
(* A token without a row stays so, once the second of its issue is over    *)
(* and nobody waits to store it.                                           *)
Past(t) == now > t[2] /\ ~Waiting(t) /\ ~HasRow(t)

LEMMA PastStays ==
  ASSUME NEW t \in Token
  PROVE  SessionsInv /\ Past(t) /\ [Next]_vars => Past(t)'
<1> SUFFICES ASSUME SessionsInv, Past(t), [Next]_vars PROVE Past(t)'
  OBVIOUS
<1> USE SessionsAssumption, ClockAssumption DEF SessionsInv, TypeOK, sessionVars
<1>1. t[2] \in Nat /\ now \in Nat /\ now > t[2]
  BY DEF Token, Past
<1>2. ASSUME NEW s \in Session, NEW u \in User, IssueJWT(s, u)
      PROVE  Past(t)'
  <2>1. <<u, now>> # t
    BY <1>1
  <2>2. QED
    BY <1>1, <1>2, <2>1 DEF Past, IssueJWT, IssueTime, Waiting, HasRow, Holds
<1>3. ASSUME NEW s \in Session, CreateSession(s)
      PROVE  Past(t)'
  <2>1. token[s] # t
    BY <1>3 DEF CreateSession, Past, Waiting
  <2>2. QED
    BY <1>1, <1>3, <2>1 DEF Past, CreateSession, Waiting, HasRow, Holds
<1>4. CASE Tick
  <2>1. now' = now + 1 /\ now' > t[2]
    BY <1>1, <1>4 DEF Tick, TimePasses
  <2>2. QED
    BY <1>4, <2>1 DEF Past, Tick, TimePasses, Waiting, HasRow, Holds
<1>5. ASSUME NEW l \in Logout, DeleteSession(l)
      PROVE  Past(t)'
  BY <1>5 DEF Past, DeleteSession, Waiting, HasRow, Holds
<1>6. CASE Cleanup
  BY <1>6 DEF Past, Cleanup, Waiting, HasRow, Holds
<1>7. CASE UNCHANGED <<status, token, now>>
  BY <1>7 DEF Past, Waiting, HasRow, Holds
<1>8. QED
  BY <1>2, <1>3, <1>4, <1>5, <1>6, <1>7 DEF Next, BeginLogout, FindSession, vars

(* However long a login waits to store its token, one that is logged out   *)
(* is not accepted again after its second, unless such a login was under   *)
(* way (issueJWT, createSession, requireAuth).                             *)
THEOREM NeverResurrected == Spec => NoResurrection
<1> SUFFICES ASSUME NEW t \in Token
             PROVE  Spec => [](now > t[2] /\ ~Waiting(t) /\ ~HasRow(t) => []~Accepted(t))
  BY DEF NoResurrection
<1>1. Past(t) => ~Accepted(t)
  BY DEF Past, Accepted, HasRow
<1>2. now > t[2] /\ ~Waiting(t) /\ ~HasRow(t) => Past(t)
  BY DEF Past
<1>3. SessionsInv /\ Past(t) /\ [Next]_vars => Past(t)'
  BY PastStays
<1>4. QED
  BY <1>1, <1>2, <1>3, SessionsInvInit, SessionsInvKept, PTL DEF Spec

-------------------------------------------------------------------------------
(* Registration, for any registrations, names, invites and lifetimes,      *)
(* whether calls fail or not.  Stages says what a registration at each     *)
(* link of its chain has done, Invites what the rows of invites record of  *)
(* those that are through.                                                 *)
Stages ==
  \A g \in Registration :
    /\ pc[g] \in {"idle", "counted"} => ticket[g] = Nobody /\ ~first[g]
    /\ pc[g] \in {"idle", "counted", "admitted"} => g \notin users
    /\ pc[g] \in {"created", "settled"} => g \in users
    /\ g \in admins => first[g]

Invites ==
  \A i \in Invite :
    /\ i \in issued => inviteExpires[i] # 0
    /\ usedBy[i] # Nobody =>
         /\ i \in issued
         /\ usedBy[i] \in users
         /\ pc[usedBy[i]] \in {"settled", "done"}
         /\ ticket[usedBy[i]] = i

RegistrationInv == RegistrationTypeOK /\ Stages /\ Invites

-------------------------------------------------------------------------------
LEMMA RegistrationInvInit == RegistrationInit => RegistrationInv
<1> SUFFICES ASSUME RegistrationInit PROVE RegistrationInv
  OBVIOUS
<1>1. RegistrationTypeOK
  BY RegistrationAssumption, ClockAssumption DEF RegistrationInit, RegistrationTypeOK
<1>2. Stages /\ Invites
  BY DEF RegistrationInit, Stages, Invites
<1>3. QED
  BY <1>1, <1>2 DEF RegistrationInv

LEMMA RegisterKeeps ==
  ASSUME RegistrationInv, NEW g \in Registration, Register(g)
  PROVE  RegistrationInv'
<1> USE RegistrationAssumption, ClockAssumption DEF RegistrationInv, RegistrationTypeOK,
   Goto, Answer, userVars, inviteVars
<1>1. CASE Count(g)
  <2>1. first' \in [Registration -> BOOLEAN]
    BY <1>1 DEF Count
  <2>2. RegistrationTypeOK'
    BY <1>1, <2>1 DEF Count
  <2>3. Stages'
    BY <1>1 DEF Count, Stages
  <2>4. Invites'
    BY <1>1 DEF Count, Invites
  <2>5. QED
    BY <2>2, <2>3, <2>4
<1>2. ASSUME NEW i \in Invite, CheckInvite(g, i)
      PROVE  RegistrationInv'
  BY <1>2 DEF CheckInvite, Stages, Invites
<1>3. CASE Refuse(g)
  BY <1>3 DEF Refuse, Stages, Invites
<1>4. CASE CreateUser(g)
  BY <1>4 DEF CreateUser, Stages, Invites
<1>5. CASE CreateUserFails(g)
  BY <1>5 DEF CreateUserFails, Stages, Invites
<1>6. CASE MarkInviteUsed(g)
  BY <1>6 DEF MarkInviteUsed, Markable, IsValid, Stages, Invites
<1>7. CASE SignIn(g)
  BY <1>7 DEF SignIn, Stages, Invites
<1>8. QED
  BY <1>1, <1>2, <1>3, <1>4, <1>5, <1>6, <1>7 DEF Register

LEMMA RegistrationInvKept ==
  RegistrationInv /\ [RegistrationNext]_registrationVars
    => RegistrationInv'
<1> SUFFICES ASSUME RegistrationInv, [RegistrationNext]_registrationVars PROVE RegistrationInv'
  OBVIOUS
<1> USE RegistrationAssumption, ClockAssumption DEF RegistrationInv, RegistrationTypeOK,
   requestVars, userVars, inviteVars
<1>1. ASSUME NEW i \in Invite, NEW ttl \in Lifetime, CreateInvite(i, ttl)
      PROVE  RegistrationInv'
  <2>1. now + ttl \in Nat /\ now + ttl # 0
    OBVIOUS
  <2>2. RegistrationTypeOK'
    BY <1>1, <2>1 DEF CreateInvite
  <2>3. Stages' /\ Invites'
    BY <1>1, <2>1 DEF CreateInvite, Stages, Invites
  <2>4. QED
    BY <2>2, <2>3
<1>2. ASSUME NEW i \in Invite, RevokeInvite(i)
      PROVE  RegistrationInv'
  BY <1>2 DEF RevokeInvite, Stages, Invites
<1>3. CASE RegistrationTick
  BY <1>3 DEF RegistrationTick, TimePasses, Stages, Invites
<1>4. CASE UNCHANGED registrationVars
  BY <1>4 DEF registrationVars, Stages, Invites
<1>5. QED
  BY <1>1, <1>2, <1>3, <1>4, RegisterKeeps DEF RegistrationNext

(* Every variable has its type, and every admin is a user.                 *)
THEOREM RegistrationTypeCorrect == RegistrationSpec => []RegistrationTypeOK
<1>1. RegistrationInv => RegistrationTypeOK
  BY DEF RegistrationInv
<1>2. QED
  BY <1>1, RegistrationInvInit, RegistrationInvKept, PTL DEF RegistrationSpec

-------------------------------------------------------------------------------
LEMMA UsageStep ==
  RegistrationInv /\ [RegistrationNext]_registrationVars =>
    \A i \in Invite :
      usedBy[i] # Nobody =>
        /\ usedBy'[i] = usedBy[i]
        /\ i \in issued'
        /\ usedBy[i] \in users /\ ticket[usedBy[i]] = i
<1> SUFFICES ASSUME RegistrationInv, [RegistrationNext]_registrationVars,
                    NEW i \in Invite, usedBy[i] # Nobody
             PROVE  usedBy'[i] = usedBy[i] /\ i \in issued'
  BY DEF RegistrationInv, Invites
<1>1. i \in issued
  BY DEF RegistrationInv, Invites
<1>2. ASSUME NEW g \in Registration, MarkInviteUsed(g)
      PROVE  usedBy'[i] = usedBy[i] /\ i \in issued'
  BY <1>1, <1>2 DEF MarkInviteUsed, Markable, IsValid, RegistrationInv, RegistrationTypeOK
<1>3. ASSUME NEW j \in Invite, RevokeInvite(j)
      PROVE  usedBy'[i] = usedBy[i] /\ i \in issued'
  BY <1>1, <1>3 DEF RevokeInvite
<1>4. ASSUME NEW j \in Invite, NEW ttl \in Lifetime, CreateInvite(j, ttl)
      PROVE  usedBy'[i] = usedBy[i] /\ i \in issued'
  BY <1>1, <1>4 DEF CreateInvite
<1>5. CASE UNCHANGED inviteVars
  BY <1>1, <1>5 DEF inviteVars
<1>6. QED
  BY <1>2, <1>3, <1>4, <1>5 DEF RegistrationNext, Register, Count, CheckInvite, Refuse,
     CreateUser, CreateUserFails, SignIn, RegistrationTick, registrationVars, inviteVars

(* The record of an invite's use is true and final (MarkInviteUsed,        *)
(* DeleteInvite).                                                          *)
THEOREM UsageAlwaysFinal == RegistrationSpec => UsageIsFinal
  BY RegistrationInvInit, RegistrationInvKept, UsageStep, PTL DEF RegistrationSpec, UsageIsFinal

-------------------------------------------------------------------------------
(* An invite that is shut stays shut, and nobody new comes by it.          *)
ShutOut(g, i) == Shut(i) /\ ticket[g] # i

LEMMA ShutStays ==
  ASSUME NEW i \in Invite
  PROVE  RegistrationInv /\ Shut(i) /\ [RegistrationNext]_registrationVars => Shut(i)'
<1> SUFFICES ASSUME RegistrationInv, Shut(i), [RegistrationNext]_registrationVars PROVE Shut(i)'
  OBVIOUS
<1> USE RegistrationAssumption, ClockAssumption DEF RegistrationInv, RegistrationTypeOK, Shut
<1>1. ASSUME NEW g \in Registration, MarkInviteUsed(g)
      PROVE  Shut(i)'
  BY <1>1 DEF MarkInviteUsed, Markable, IsValid
<1>2. ASSUME NEW j \in Invite, RevokeInvite(j)
      PROVE  Shut(i)'
  BY <1>2 DEF RevokeInvite
<1>3. ASSUME NEW j \in Invite, NEW ttl \in Lifetime, CreateInvite(j, ttl)
      PROVE  Shut(i)'
  <2>1. j # i
    BY <1>3 DEF CreateInvite
  <2>2. QED
    BY <1>3, <2>1 DEF CreateInvite
<1>4. CASE RegistrationTick
  <2>1. now' = now + 1 /\ now \in Nat /\ inviteExpires[i] \in Nat
    BY <1>4 DEF RegistrationTick, TimePasses
  <2>2. now >= inviteExpires[i] => now' >= inviteExpires[i]
    BY <2>1
  <2>3. QED
    BY <1>4, <2>2 DEF RegistrationTick, TimePasses, inviteVars
<1>5. CASE UNCHANGED <<now, inviteVars>>
  BY <1>5 DEF inviteVars
<1>6. QED
  BY <1>1, <1>2, <1>3, <1>4, <1>5 DEF RegistrationNext, Register, Count, CheckInvite,
     Refuse, CreateUser, CreateUserFails, SignIn, registrationVars, inviteVars

LEMMA ShutOutStays ==
  ASSUME NEW g \in Registration, NEW i \in Invite
  PROVE  RegistrationInv /\ ShutOut(g, i) /\ [RegistrationNext]_registrationVars
           => ShutOut(g, i)'
<1> SUFFICES ASSUME RegistrationInv, ShutOut(g, i), [RegistrationNext]_registrationVars
             PROVE ShutOut(g, i)'
  OBVIOUS
<1>1. Shut(i)'
  BY ShutStays DEF ShutOut
<1>2. ASSUME NEW h \in Registration, NEW j \in Invite, CheckInvite(h, j)
      PROVE  ticket'[g] # i
  <2>1. /\ now \in Nat /\ inviteExpires[i] \in Nat
        /\ ticket \in [Registration -> Invite \cup {Nobody}]
    BY DEF RegistrationInv, RegistrationTypeOK
  <2>2. j # i
    BY <1>2, <2>1 DEF CheckInvite, IsValid, ShutOut, Shut
  <2>3. QED
    BY <1>2, <2>1, <2>2 DEF CheckInvite, ShutOut
<1>3. ASSUME UNCHANGED ticket
      PROVE  ticket'[g] # i
  BY <1>3 DEF ShutOut
<1>4. ticket'[g] # i
  BY <1>2, <1>3 DEF RegistrationNext, Register, Count, Refuse, CreateUser, CreateUserFails,
     MarkInviteUsed, SignIn, CreateInvite, RevokeInvite, RegistrationTick, requestVars,
     registrationVars
<1>5. QED
  BY <1>1, <1>4 DEF ShutOut

(* Who has not read the invite before it was used, revoked or expired does *)
(* not get in with it (handleRegister, IsValid).                           *)
THEOREM NobodyLateAdmitted == RegistrationSpec => NoLateAdmission
<1> SUFFICES ASSUME NEW g \in Registration, NEW i \in Invite
             PROVE  RegistrationSpec => [](Shut(i) /\ pc[g] = "idle" => [](ticket[g] # i))
  BY DEF NoLateAdmission
<1>1. RegistrationInv /\ Shut(i) /\ pc[g] = "idle" => ShutOut(g, i)
  BY RegistrationAssumption, ClockAssumption DEF RegistrationInv, Stages, ShutOut
<1>2. ShutOut(g, i) => ticket[g] # i
  BY DEF ShutOut
<1>3. RegistrationInv /\ ShutOut(g, i) /\ [RegistrationNext]_registrationVars => ShutOut(g, i)'
  BY ShutOutStays
<1>4. QED
  BY <1>1, <1>2, <1>3, RegistrationInvInit, RegistrationInvKept, PTL DEF RegistrationSpec

(* A registration that has not counted the users yet, or found some.       *)
NotFirst(g) == users # {} /\ ~first[g] /\ g \notin admins

LEMMA NotFirstStays ==
  ASSUME NEW g \in Registration
  PROVE  RegistrationInv /\ NotFirst(g) /\ [RegistrationNext]_registrationVars => NotFirst(g)'
<1> SUFFICES ASSUME RegistrationInv, NotFirst(g), [RegistrationNext]_registrationVars
             PROVE NotFirst(g)'
  OBVIOUS
<1> USE DEF NotFirst
<1>1. ASSUME NEW h \in Registration, Count(h)
      PROVE  NotFirst(g)'
  BY <1>1 DEF Count, userVars
<1>2. ASSUME NEW h \in Registration, CreateUser(h)
      PROVE  NotFirst(g)'
  BY <1>2 DEF CreateUser
<1>3. CASE UNCHANGED <<first, userVars>>
  BY <1>3 DEF userVars
<1>4. QED
  BY <1>1, <1>2, <1>3 DEF RegistrationNext, Register, CheckInvite, Refuse, CreateUserFails,
     MarkInviteUsed, SignIn, CreateInvite, RevokeInvite, RegistrationTick, requestVars,
     userVars, registrationVars

(* Only who counted before there was a user can become an admin by         *)
(* registering (CountUsers, isFirstUser).                                  *)
THEOREM NobodyLateAdmin == RegistrationSpec => NoLateAdmin
<1> SUFFICES ASSUME NEW g \in Registration
             PROVE  RegistrationSpec => [](users # {} /\ pc[g] = "idle" => [](g \notin admins))
  BY DEF NoLateAdmin
<1>1. RegistrationInv /\ users # {} /\ pc[g] = "idle" => NotFirst(g)
  BY DEF RegistrationInv, Stages, NotFirst
<1>2. NotFirst(g) => g \notin admins
  BY DEF NotFirst
<1>3. RegistrationInv /\ NotFirst(g) /\ [RegistrationNext]_registrationVars => NotFirst(g)'
  BY NotFirstStays
<1>4. QED
  BY <1>1, <1>2, <1>3, RegistrationInvInit, RegistrationInvKept, PTL DEF RegistrationSpec
===============================================================================
