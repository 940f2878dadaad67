----------------------------- MODULE Registration -----------------------------
(***************************************************************************)
(* Registration by invite: http/auth.go handleRegister, its twin           *)
(* http/html/auth.go handleRegisterPost, and the invites of http/admin.go. *)
(*                                                                         *)
(* A registration is a chain of transactions: it counts the users, reads   *)
(* the invite, hashes the password, inserts the user, and only then marks  *)
(* the invite used.  Nothing holds the chain together, so registrations    *)
(* and revocations interleave between any two links.                       *)
(*                                                                         *)
(* A registration and the user it may create are one element here: the     *)
(* user has a fresh kid.                                                   *)
(***************************************************************************)
EXTENDS Clock, FiniteSets

CONSTANTS
  Registration,  \* requests to register, and the users they may create
  Username,      \* email addresses, up to the case of their letters
  NameOf,        \* NameOf[g]: the address that g registers
  Invite,        \* invite tokens
  Lifetime,      \* the lifetimes an admin gives invites, in units of the clock
  CallsMayFail,  \* database calls may fail (a cancelled request, a full disk)
  Nobody         \* no invite, nobody

ASSUME RegistrationAssumption ==
  /\ NameOf \in [Registration -> Username]
  /\ Lifetime \subseteq Nat \ {0}
  /\ CallsMayFail \in BOOLEAN
  /\ Nobody \notin Registration \cup Invite

VARIABLES
  pc,             \* pc[g]: where the handler of g is
  first,          \* first[g]: isFirstUser, as g computed it
  ticket,         \* ticket[g]: the invite g has read and found valid
  users,          \* the rows of users
  admins,         \* those with is_admin = 1
  reply,          \* reply[g]: what g was told
  issued,         \* invites with a row
  inviteExpires,  \* invites.expires_at
  usedBy          \* invites.used_by, set together with used_at

requestVars == <<pc, first, ticket, reply>>
userVars == <<users, admins>>
inviteVars == <<issued, inviteExpires, usedBy>>
registrationVars == <<now, pc, first, ticket, users, admins, reply, issued, inviteExpires, usedBy>>

RegistrationInit ==
  /\ now = 0
  /\ pc = [g \in Registration |-> "idle"]
  /\ first = [g \in Registration |-> FALSE]
  /\ ticket = [g \in Registration |-> Nobody]
  /\ users = {}
  /\ admins = {}
  /\ reply = [g \in Registration |-> "none"]
  /\ issued = {}
  /\ inviteExpires = [i \in Invite |-> 0]
  /\ usedBy = [i \in Invite |-> Nobody]

Goto(g, from, to) == pc[g] = from /\ pc' = [pc EXCEPT ![g] = to]

(* The handler answers and ends.                                           *)
Answer(g, from, what) ==
  /\ Goto(g, from, "done")
  /\ reply' = [reply EXCEPT ![g] = what]

(* Mistake to detect: used invites still pass.                             *)
UnexpiredOnly(i) == i \in issued /\ now < inviteExpires[i]

(* Invite.IsValid of the row that FindInviteByToken returns.               *)
IsValid(i) == i \in issued /\ usedBy[i] = Nobody /\ now < inviteExpires[i]

-------------------------------------------------------------------------------
(* CountUsers: on an empty table the registration needs no invite.         *)
Count(g) ==
  /\ \/ users = {} /\ Goto(g, "idle", "admitted") /\ first' = [first EXCEPT ![g] = TRUE]
     \/ users # {} /\ Goto(g, "idle", "counted") /\ UNCHANGED first
  /\ UNCHANGED <<now, ticket, reply, userVars, inviteVars>>

(* FindInviteByToken, then IsValid on the row it returned.                 *)
CheckInvite(g, i) ==
  /\ Goto(g, "counted", "admitted")
  /\ IsValid(i)
  /\ ticket' = [ticket EXCEPT ![g] = i]
  /\ UNCHANGED <<now, first, reply, userVars, inviteVars>>

(* No token, a wrong one, an invite that is used or expired.               *)
Refuse(g) ==
  /\ Answer(g, "counted", "forbidden")
  /\ UNCHANGED <<now, first, ticket, userVars, inviteVars>>

NameTaken(g) == \E u \in users : NameOf[u] = NameOf[g]

(* Mistake to detect: the users are counted again, and off by one.         *)
CreateUserCountAgain(g) ==
  /\ Goto(g, "admitted", "created")
  /\ ~NameTaken(g)
  /\ users' = users \cup {g}
  /\ admins' = IF Cardinality(users) <= 1 THEN admins \cup {g} ELSE admins
  /\ UNCHANGED <<now, first, ticket, reply, inviteVars>>

(* CreateUser inserts the row; users.username is UNIQUE COLLATE NOCASE.    *)
CreateUser(g) ==
  /\ Goto(g, "admitted", "created")
  /\ ~NameTaken(g)
  /\ users' = users \cup {g}
  /\ admins' = IF first[g] THEN admins \cup {g} ELSE admins
  /\ UNCHANGED <<now, first, ticket, reply, inviteVars>>

(* The name is taken, or the call fails.                                   *)
CreateUserFails(g) ==
  /\ NameTaken(g) \/ CallsMayFail
  /\ Answer(g, "admitted", "error")
  /\ UNCHANGED <<now, first, ticket, userVars, inviteVars>>

(* Mistake to detect: the invite is marked without looking at it again.    *)
MarkInviteUsedUnchecked(g) ==
  /\ Goto(g, "created", "settled")
  /\ \/ /\ ticket[g] \in issued
        /\ usedBy' = [usedBy EXCEPT ![ticket[g]] = g]
     \/ UNCHANGED usedBy
  /\ UNCHANGED <<now, first, ticket, reply, userVars, issued, inviteExpires>>

Markable(g) == ticket[g] # Nobody /\ IsValid(ticket[g])

(* MarkInviteUsed looks at the invite again in its own transaction.  If it *)
(* is used, revoked or expired by now, or the call fails, that is logged   *)
(* and the registration goes on.                                           *)
MarkInviteUsed(g) ==
  /\ Goto(g, "created", "settled")
  /\ \/ /\ Markable(g)
        /\ usedBy' = [usedBy EXCEPT ![ticket[g]] = g]
     \/ /\ ~Markable(g) \/ CallsMayFail
        /\ UNCHANGED usedBy
  /\ UNCHANGED <<now, first, ticket, reply, userVars, issued, inviteExpires>>

(* createSession succeeds or fails; the account stays either way.          *)
SignIn(g) ==
  /\ \/ Answer(g, "settled", "created")
     \/ CallsMayFail /\ Answer(g, "settled", "error")
  /\ UNCHANGED <<now, first, ticket, userVars, inviteVars>>

-------------------------------------------------------------------------------
(* Mistake to detect: the lifetime is taken off the clock.                 *)
CreateInviteInThePast(i, ttl) ==
  /\ admins # {}
  /\ i \notin issued /\ inviteExpires[i] = 0
  /\ issued' = issued \cup {i}
  /\ inviteExpires' = [inviteExpires EXCEPT ![i] = now - ttl]
  /\ UNCHANGED <<now, requestVars, userVars, usedBy>>

(* handleCreateInvite, behind requireAdmin.                                *)
CreateInvite(i, ttl) ==
  /\ admins # {}
  /\ i \notin issued /\ inviteExpires[i] = 0
  /\ issued' = issued \cup {i}
  /\ inviteExpires' = [inviteExpires EXCEPT ![i] = now + ttl]
  /\ UNCHANGED <<now, requestVars, userVars, usedBy>>

(* handleRevokeInvite: DELETE ... AND used_at IS NULL.                     *)
RevokeInvite(i) ==
  /\ i \in issued
  /\ usedBy[i] = Nobody
  /\ issued' = issued \ {i}
  /\ UNCHANGED <<now, requestVars, userVars, inviteExpires, usedBy>>

RegistrationTick ==
  /\ TimePasses
  /\ UNCHANGED <<requestVars, userVars, inviteVars>>

Register(g) ==
  \/ Count(g) \/ Refuse(g) \/ CreateUser(g) \/ CreateUserFails(g)
  \/ MarkInviteUsed(g) \/ SignIn(g)
  \/ \E i \in Invite : CheckInvite(g, i)

RegistrationNext ==
  \/ \E g \in Registration : Register(g)
  \/ \E i \in Invite, ttl \in Lifetime : CreateInvite(i, ttl)
  \/ \E i \in Invite : RevokeInvite(i)
  \/ RegistrationTick

RegistrationSpec == RegistrationInit /\ [][RegistrationNext]_registrationVars

-------------------------------------------------------------------------------
(* Every variable has its type.                                            *)
RegistrationTypeOK ==
  /\ now \in 0 .. MaxTime
  /\ pc \in [Registration -> {"idle", "counted", "admitted", "created", "settled", "done"}]
  /\ first \in [Registration -> BOOLEAN]
  /\ ticket \in [Registration -> Invite \cup {Nobody}]
  /\ users \subseteq Registration
  /\ admins \subseteq users
  /\ reply \in [Registration -> {"none", "forbidden", "error", "created"}]
  /\ issued \subseteq Invite
  /\ inviteExpires \in [Invite -> Nat]
  /\ usedBy \in [Invite -> Registration \cup {Nobody}]

(* The record of who used an invite is true and final: it names a user who *)
(* came in with this invite, no later registration or revocation changes   *)
(* it, whatever the order in which they find the invite valid.             *)
UsageIsFinal ==
  [][\A i \in Invite :
       usedBy[i] # Nobody =>
         /\ usedBy'[i] = usedBy[i]
         /\ i \in issued'
         /\ usedBy[i] \in users /\ ticket[usedBy[i]] = i]_registrationVars

(* Once an invite is used, revoked or expired the door is shut: a          *)
(* registration that has not read the invite yet never gets in with it,    *)
(* however many that read it before are still on their way.                *)
Shut(i) == inviteExpires[i] # 0 /\ (i \notin issued \/ usedBy[i] # Nobody \/ now >= inviteExpires[i])

NoLateAdmission ==
  \A g \in Registration, i \in Invite :
    [](Shut(i) /\ pc[g] = "idle" => [](ticket[g] # i))

(* An empty database makes admins; a database with a user never again      *)
(* does for a registration that starts now.                                *)
NoLateAdmin ==
  \A g \in Registration :
    [](users # {} /\ pc[g] = "idle" => [](g \notin admins))

(* "single-use token that permits one registration" (invite.go:10): no two *)
(* users came in with the same invite.  The code does not keep it.         *)
InviteSingleUse ==
  \A u, v \in users : ticket[u] # Nobody /\ ticket[u] = ticket[v] => u = v
===============================================================================
