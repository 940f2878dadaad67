------------------------------- MODULE Sessions -------------------------------
(***************************************************************************)
(* Sessions: http/auth.go (login, logout, requireAuth), their twins in     *)
(* http/html, sqlite/session.go and the hourly cleanup of http/server.go.  *)
(*                                                                         *)
(* A token is a JWT over a user id and two times in whole seconds, so the  *)
(* pair of user and second is the token: two logins in one second get the  *)
(* same one.  The database keeps its hash in a row of sessions, and a      *)
(* request is let in only while the JWT and the row are both unexpired.    *)
(* The unit of the clock is a second.                                      *)
(***************************************************************************)
EXTENDS Clock, Integers, FiniteSets

CONSTANTS
  User,       \* users who may log in
  Session,    \* ids of rows of sessions, never reused
  Logout,     \* requests to log out
  WebLogout,  \* those of them that come through the web page
  TTL,        \* TokenTTL, in seconds
  None        \* no session, no token

ASSUME SessionsAssumption ==
  /\ WebLogout \subseteq Logout
  /\ TTL \in Nat \ {0}
  /\ None \notin Session \cup (User \X Nat)

VARIABLES
  status,   \* status[s]: "new", "issued", then a row ("live"), or "gone"
  token,    \* token[s]: the token issued for session s, <<user, iat>>
  expires,  \* sessions.expires_at
  shown,    \* shown[l]: the token request l came with
  found,    \* found[l]: the row that FindSessionByTokenHash returned to l
  answer    \* answer[l]: what l was told

sessionVars == <<status, token, expires>>
logoutVars == <<shown, found, answer>>
vars == <<now, status, token, expires, shown, found, answer>>

Token == User \X (0 .. MaxTime)

Init ==
  /\ now = 0
  /\ status = [s \in Session |-> "new"]
  /\ token = [s \in Session |-> None]
  /\ expires = [s \in Session |-> 0]
  /\ shown = [l \in Logout |-> None]
  /\ found = [l \in Logout |-> None]
  /\ answer = [l \in Logout |-> "none"]

Holds(s, t) == status[s] = "live" /\ token[s] = t
HasRow(t) == \E s \in Session : Holds(s, t)
Waiting(t) == \E s \in Session : status[s] = "issued" /\ token[s] = t

(* requireAuth: verifyJWT compares whole seconds, and IsExpired compares   *)
(* the running clock with the start of the second the row says.            *)
Accepted(t) ==
  /\ now <= t[2] + TTL
  /\ \E s \in Session : Holds(s, t) /\ now < expires[s]

-------------------------------------------------------------------------------
(* Mistake to detect: iat in coarser units than seconds.                   *)
IssueTimeCoarse == now - (now % 2)

(* IssuedAt: now.Unix().                                                   *)
IssueTime == now

(* A login or a registration makes the token of the session it will create.*)
IssueJWT(s, u) ==
  /\ status[s] = "new"
  /\ status' = [status EXCEPT ![s] = "issued"]
  /\ token' = [token EXCEPT ![s] = <<u, IssueTime>>]
  /\ UNCHANGED <<now, expires, logoutVars>>

(* Mistake to detect: token_hash is not UNIQUE.                            *)
CreateSessionUnchecked(s) ==
  /\ status[s] = "issued"
  /\ status' = [status EXCEPT ![s] = "live"]
  /\ \E at \in token[s][2] .. now : expires' = [expires EXCEPT ![s] = at + TTL]
  /\ UNCHANGED <<now, token, logoutVars>>

(* CreateSession inserts the row, whose expiry was computed at some moment *)
(* since the issue.  It waits for the only connection before, for as long  *)
(* as that takes.  If the user has a row for this token already,           *)
(* token_hash UNIQUE refuses the row; the call may fail otherwise, too.    *)
CreateSession(s) ==
  /\ status[s] = "issued"
  /\ \/ /\ ~HasRow(token[s])
        /\ status' = [status EXCEPT ![s] = "live"]
        /\ \E at \in token[s][2] .. now : expires' = [expires EXCEPT ![s] = at + TTL]
     \/ /\ status' = [status EXCEPT ![s] = "gone"]
        /\ UNCHANGED expires
  /\ UNCHANGED <<now, token, logoutVars>>

-------------------------------------------------------------------------------
(* DELETE /api/v1/logout passes requireAuth; the page takes any cookie.    *)
BeginLogout(l, t) ==
  /\ shown[l] = None
  /\ l \in WebLogout \/ Accepted(t)
  /\ shown' = [shown EXCEPT ![l] = t]
  /\ UNCHANGED <<now, sessionVars, found, answer>>

Reply(l, what) == answer' = [answer EXCEPT ![l] = what]

(* Mistake to detect: the token is kept where the id of the row belongs.   *)
FindSessionToken(l) ==
  /\ shown[l] # None /\ found[l] = None /\ answer[l] = "none"
  /\ HasRow(shown[l])
  /\ found' = [found EXCEPT ![l] = shown[l]]
  /\ UNCHANGED <<now, sessionVars, shown, answer>>

(* handleLogout looks the session up; "Already gone - treat as success."   *)
(* covers every error, also one that says nothing of the session: the      *)
(* model calls that answer "assumed".                                      *)
FindSession(l) ==
  /\ shown[l] # None /\ found[l] = None /\ answer[l] = "none"
  /\ \/ /\ Reply(l, IF HasRow(shown[l]) THEN "assumed" ELSE "ok")
        /\ UNCHANGED found
     \/ \E s \in Session :
          /\ Holds(s, shown[l])
          /\ found' = [found EXCEPT ![l] = s]
          /\ UNCHANGED answer
  /\ UNCHANGED <<now, sessionVars, shown>>

(* DeleteSession, by the id of the row: ENOTFOUND if it is gone by now,    *)
(* or the call fails.  The page ignores both.                              *)
DeleteSession(l) ==
  /\ found[l] # None /\ answer[l] = "none"
  /\ \/ /\ status[found[l]] = "live"
        /\ status' = [status EXCEPT ![found[l]] = "gone"]
        /\ Reply(l, "ok")
     \/ /\ Reply(l, IF l \in WebLogout THEN "assumed"
                    ELSE IF status[found[l]] = "live" THEN "error" ELSE "notfound")
        /\ UNCHANGED status
  /\ UNCHANGED <<now, token, expires, shown, found>>

(* Mistakes to detect: the comparison the other way round; only sessions   *)
(* that expired this very second.                                          *)
CleanupBackwards ==
  /\ \E s \in Session : status[s] = "live" /\ expires[s] > now
  /\ status' = [s \in Session |->
                  IF status[s] = "live" /\ expires[s] > now THEN "gone" ELSE status[s]]
  /\ UNCHANGED <<now, token, expires, logoutVars>>

CleanupThisSecond ==
  /\ \E s \in Session : status[s] = "live" /\ expires[s] = now
  /\ status' = [s \in Session |->
                  IF status[s] = "live" /\ expires[s] = now THEN "gone" ELSE status[s]]
  /\ UNCHANGED <<now, token, expires, logoutVars>>

(* DeleteExpiredSessions: DELETE ... WHERE expires_at < now.               *)
Cleanup ==
  /\ \E s \in Session : status[s] = "live" /\ expires[s] < now
  /\ status' = [s \in Session |->
                  IF status[s] = "live" /\ expires[s] < now THEN "gone" ELSE status[s]]
  /\ UNCHANGED <<now, token, expires, logoutVars>>

Tick ==
  /\ TimePasses
  /\ UNCHANGED <<sessionVars, logoutVars>>

Next ==
  \/ \E s \in Session, u \in User : IssueJWT(s, u)
  \/ \E s \in Session : CreateSession(s)
  \/ \E l \in Logout, t \in Token : BeginLogout(l, t)
  \/ \E l \in Logout : FindSession(l) \/ DeleteSession(l)
  \/ Cleanup
  \/ Tick

Spec == Init /\ [][Next]_vars

(* The ticker of cleanupSessions fires every hour while the server runs.   *)
FairSpec == Spec /\ WF_vars(Cleanup)

-------------------------------------------------------------------------------
(* Every variable has its type.                                            *)
TypeOK ==
  /\ now \in 0 .. MaxTime
  /\ status \in [Session -> {"new", "issued", "live", "gone"}]
  /\ token \in [Session -> Token \cup {None}]
  /\ expires \in [Session -> Nat]
  /\ shown \in [Logout -> Token \cup {None}]
  /\ found \in [Logout -> Session \cup {None}]
  /\ answer \in [Logout -> {"none", "ok", "assumed", "notfound", "error"}]

(* A session ends by its expiry or by a logout that came with its token:   *)
(* neither the cleanup nor the logout of another token takes it.           *)
SessionEndsRightly ==
  [][\A s \in Session :
       status[s] = "live" /\ status'[s] # "live" =>
         \/ ~Accepted(token[s])
         \/ \E l \in Logout :
              shown[l] = token[s] /\ answer[l] = "none" /\ answer'[l] = "ok"]_vars

(* "supports logout invalidation" (http/auth.go:140): when the API answers *)
(* a logout with success, no row is left for the token, although tokens of *)
(* one second are equal and rows are deleted by their id.  Where a failed   *)
(* lookup is taken for success, that is not promised.                      *)
LogoutInvalidates ==
  [][\A l \in Logout \ WebLogout :
       answer[l] = "none" /\ answer'[l] = "ok" => ~HasRow(shown[l])']_vars

(* A token that is logged out stays so: once the second of its issue is    *)
(* over and no login that was given this token is still waiting to store   *)
(* it, a token without a row is never accepted again.                      *)
NoResurrection ==
  \A t \in Token :
    [](now > t[2] /\ ~Waiting(t) /\ ~HasRow(t) => []~Accepted(t))

(* Rows that have expired go away: "Called periodically by the server"     *)
(* (session.go:40).                                                        *)
ExpiredSessionsGo ==
  \A s \in Session : status[s] = "live" /\ expires[s] < now ~> status[s] = "gone"
===============================================================================
