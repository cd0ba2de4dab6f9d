------------------------------ MODULE Accounts ------------------------------
(***************************************************************************)
(* Admin accounts and their sessions (auth.py, users.py, security.py).     *)
(* No handler here opens a transaction: every statement commits by itself, *)
(* so a request is split at each statement that writes, and a failure      *)
(* (statement timeout, lost connection, crash) leaves what it wrote.       *)
(* A request authenticates first; role and user are the ones read then.    *)
(* verify_email is left out: no code issues a 'verify_email' token.        *)
(***************************************************************************)
EXTENDS Naturals, FiniteSets

CONSTANTS
  Users,     \* ids that admin_users can hand out (a bound)
  Tokens,    \* session tokens (a bound)
  Links,     \* password-reset tokens (a bound)
  Reqs,      \* requests in flight at once (a bound)
  MaxPwd,    \* passwords set for one account (a bound)
  CanFail,   \* whether a request may fail between two statements
  NoUser, NoToken, NoLink, NoAcct, NoSession

Roles == {"super_admin", "regular_admin"}
Statuses == {"active", "suspended", "pending_verification"}

(***************************************************************************)
(* pwd counts the passwords an account has had (0: password_hash is NULL), *)
(* must is must_change_password.  temp is history: the password is one the *)
(* server generated.                                                       *)
(***************************************************************************)
Account == [role : Roles, status : Statuses, pwd : 0..MaxPwd,
            must : BOOLEAN, temp : BOOLEAN]

(* proof is history: the latest password its holder has shown to know. *)
Session == [user : Users, expired : BOOLEAN, proof : 0..MaxPwd]
(* spent is history: a password has been set with the link. *)
Link == [user : Users, used : BOOLEAN, expired : BOOLEAN, spent : BOOLEAN]

ASSUME MaxPwdAssumption == MaxPwd \in Nat \ {0}
ASSUME NoUserAssumption == NoUser \notin Users
ASSUME NoTokenAssumption == NoToken \notin Tokens
ASSUME NoLinkAssumption == NoLink \notin Links
ASSUME NoAcctAssumption == NoAcct \notin Account
ASSUME NoSessionAssumption == NoSession \notin Session
ASSUME CanFailAssumption == CanFail \in BOOLEAN

VARIABLES
  acct,      \* admin_users, NoAcct when there is no row
  invited,   \* ids ever given to an account
  sessions,  \* admin_sessions
  links,     \* admin_auth_tokens with purpose password_reset, a set of Link
             \* per token: empty before it is issued
  req,       \* the request each connection is serving
  cutoff     \* history: the latest password a session purge of the account was for

vars == <<acct, invited, sessions, links, req, cutoff>>

Stages == {"idle", "checked", "purged", "authed", "changing", "changed",
           "killing", "confirming", "confirmed", "recording"}
Req == [at : Stages, user : Users \cup {NoUser}, role : Roles,
        token : Tokens \cup {NoToken}, target : Users \cup {NoUser},
        link : Links \cup {NoLink}, pwd : 0..MaxPwd]
NoReq == [at |-> "idle", user |-> NoUser, role |-> "regular_admin",
          token |-> NoToken, target |-> NoUser, link |-> NoLink, pwd |-> 0]

Exists(u) == acct[u] # NoAcct
Live(t) == sessions[t] # NoSession
ActiveSuperAdmins == {u \in Users : /\ Exists(u)
                                    /\ acct[u].role = "super_admin"
                                    /\ acct[u].status = "active"}

(* The demo users of init_db, or a first Super Admin inserted by hand. *)
Seeds == {a \in Account : /\ ~a.must /\ ~a.temp
                          /\ a.pwd = IF a.status = "pending_verification" THEN 0 ELSE 1
                          /\ a.status = "pending_verification" => a.role = "regular_admin"}

Init == /\ acct \in [Users -> Seeds \cup {NoAcct}]
        /\ ActiveSuperAdmins # {}
        /\ invited = {u \in Users : Exists(u)}
        /\ sessions = [t \in Tokens |-> NoSession]
        /\ links = [l \in Links |-> {}]
        /\ req = [r \in Reqs |-> NoReq]
        /\ cutoff = [u \in Users |-> 0]

-----------------------------------------------------------------------------
Go(r, q) == req' = [req EXCEPT ![r] = q]
Finish(r) == Go(r, NoReq)
To(r, stage) == req' = [req EXCEPT ![r].at = stage]
Drop(T) == sessions' = [t \in Tokens |-> IF t \in T THEN NoSession ELSE sessions[t]]
SessionsOf(u) == {t \in Tokens : Live(t) /\ sessions[t].user = u}
Later(m, n) == IF m < n THEN n ELSE m
Purged(u, p) == cutoff' = [cutoff EXCEPT ![u] = Later(@, p)]

-----------------------------------------------------------------------------
(* login: the account is read once, before the session exists *)

CheckPassword(r, u) ==
  /\ req[r].at = "idle"
  /\ Exists(u)
  /\ acct[u].pwd > 0
  /\ acct[u].status = "active"
  /\ \E t \in Tokens : ~Live(t)
  /\ Go(r, [NoReq EXCEPT !.at = "checked", !.target = u, !.pwd = acct[u].pwd])
  /\ UNCHANGED <<acct, invited, sessions, links, cutoff>>

DropExpired(r) ==
  /\ req[r].at = "checked"
  /\ Drop({t \in SessionsOf(req[r].target) : sessions[t].expired})
  /\ req' = [req EXCEPT ![r].at = "purged"]
  /\ UNCHANGED <<acct, invited, links, cutoff>>

(* A token is random: never one that a request in flight still carries. *)
OpenSession(r, t) ==
  /\ req[r].at = "purged"
  /\ ~Live(t)
  /\ \A q \in Reqs : req[q].token # t
  /\ sessions' = [sessions EXCEPT ![t] =
                    [user |-> req[r].target, expired |-> FALSE, proof |-> req[r].pwd]]
  /\ To(r, "recording")
  /\ UNCHANGED <<acct, invited, links, cutoff>>

-----------------------------------------------------------------------------
(* get_current_user, then the handlers of a signed-in user *)

Authenticate(r, t) ==
  /\ req[r].at = "idle"
  /\ Live(t)
  /\ ~sessions[t].expired
  /\ LET u == sessions[t].user
     IN  /\ Exists(u)
         /\ acct[u].status # "suspended"
         /\ Go(r, [NoReq EXCEPT !.at = "authed", !.user = u, !.token = t,
                                !.role = acct[u].role])
  /\ UNCHANGED <<acct, invited, sessions, links, cutoff>>

Logout(r) ==
  /\ req[r].at = "authed"
  /\ Drop({req[r].token})
  /\ Finish(r)
  /\ UNCHANGED <<acct, invited, links, cutoff>>

(* UPDATE admin_users ... WHERE id = u: nothing when u has been removed.   *)
Update(u, a) == acct' = IF Exists(u) THEN [acct EXCEPT ![u] = a] ELSE acct
Room(u) == Exists(u) => acct[u].pwd < MaxPwd

(* change_password: the hash is read and verified here, replaced later. *)
VerifyCurrent(r) ==
  /\ req[r].at = "authed"
  /\ Exists(req[r].user)
  /\ acct[req[r].user].pwd \in 1..MaxPwd - 1
  /\ req' = [req EXCEPT ![r].at = "changing"]
  /\ UNCHANGED <<acct, invited, sessions, links, cutoff>>

ChangePassword(r) ==
  LET u == req[r].user IN
  /\ req[r].at = "changing"
  /\ Room(u)
  /\ Update(u, [acct[u] EXCEPT !.pwd = @ + 1, !.must = FALSE, !.temp = FALSE])
  /\ req' = [req EXCEPT ![r].at = "changed",
                        ![r].pwd = IF Exists(u) THEN acct[u].pwd + 1 ELSE 0]
  /\ UNCHANGED <<invited, sessions, links, cutoff>>

OthersInverted(r) == SessionsOf(req[r].user) \cap {req[r].token}        \* mutant
Others(r) == SessionsOf(req[r].user) \ {req[r].token}

(* The session that made the change stays: its holder knows the password. *)
DropOthers(r) ==
  LET u == req[r].user  t == req[r].token IN
  /\ req[r].at = "changed"
  /\ sessions' = [s \in Tokens |->
                    IF s \in Others(r) THEN NoSession
                    ELSE IF s = t /\ Live(t) THEN [sessions[t] EXCEPT !.proof = Later(@, req[r].pwd)]
                    ELSE sessions[s]]
  /\ Purged(u, req[r].pwd)
  /\ Finish(r)
  /\ UNCHANGED <<acct, invited, links>>

-----------------------------------------------------------------------------
(* users.py: every handler requires the role super_admin *)

IsSuperAdmin(r) == req[r].at = "authed" /\ req[r].role = "super_admin"

InviteUser(r, u, role) ==
  /\ IsSuperAdmin(r)
  /\ u \notin invited
  /\ invited' = invited \cup {u}
  /\ acct' = [acct EXCEPT ![u] = [role |-> role, status |-> "active", pwd |-> 1,
                                  must |-> TRUE, temp |-> TRUE]]
  /\ To(r, "recording")
  /\ UNCHANGED <<sessions, links, cutoff>>

SetRole(r, u, role) ==
  /\ IsSuperAdmin(r)
  /\ Exists(u)
  /\ acct' = [acct EXCEPT ![u].role = role]
  /\ To(r, "recording")
  /\ UNCHANGED <<invited, sessions, links, cutoff>>

Anyone(r, u) == u \in Users        \* mutant
SomeoneElse(r, u) == u # req[r].user

SuspendOnly(r, u) ==        \* mutant
  /\ IsSuperAdmin(r)
  /\ SomeoneElse(r, u)
  /\ Exists(u)
  /\ acct' = [acct EXCEPT ![u].status = "suspended"]
  /\ To(r, "recording")
  /\ UNCHANGED <<invited, sessions, links, cutoff>>

SuspendUser(r, u) ==
  /\ IsSuperAdmin(r)
  /\ SomeoneElse(r, u)
  /\ Exists(u)
  /\ acct' = [acct EXCEPT ![u].status = "suspended"]
  /\ req' = [req EXCEPT ![r].at = "killing", ![r].target = u, ![r].pwd = acct[u].pwd]
  /\ UNCHANGED <<invited, sessions, links, cutoff>>

ReinstateUser(r, u) ==
  /\ IsSuperAdmin(r)
  /\ Exists(u)
  /\ acct' = [acct EXCEPT ![u].status = "active"]
  /\ To(r, "recording")
  /\ UNCHANGED <<invited, sessions, links, cutoff>>

(* A temporary password, to be changed at the next login. *)
RegeneratedMisspelt(a) ==        \* mutant
  [a EXCEPT !.pwd = @ + 1, !.must = TRUE, !.temp = TRUE, !.status = "activated"]
RegeneratedUnflagged(a) == [a EXCEPT !.pwd = @ + 1, !.temp = TRUE, !.status = "active"]        \* mutant
Regenerated(a) == [a EXCEPT !.pwd = @ + 1, !.must = TRUE, !.temp = TRUE, !.status = "active"]

ResetPassword(r, u) ==
  /\ IsSuperAdmin(r)
  /\ Exists(u)
  /\ acct[u].pwd < MaxPwd
  /\ acct' = [acct EXCEPT ![u] = Regenerated(acct[u])]
  /\ req' = [req EXCEPT ![r].at = "killing", ![r].target = u, ![r].pwd = acct[u].pwd + 1]
  /\ UNCHANGED <<invited, sessions, links, cutoff>>

(* The DELETE that follows the UPDATE of suspend_user and reset_password. *)
KillSessions(r) ==
  LET u == req[r].target IN
  /\ req[r].at = "killing"
  /\ Drop(SessionsOf(u))
  /\ Purged(u, req[r].pwd)
  /\ req' = [req EXCEPT ![r].at = "recording"]
  /\ UNCHANGED <<acct, invited, links>>

RemoveUser(r, u) ==
  /\ IsSuperAdmin(r)
  /\ SomeoneElse(r, u)
  /\ Exists(u)
  /\ acct' = [acct EXCEPT ![u] = NoAcct]
  /\ To(r, "recording")
  /\ UNCHANGED <<invited, sessions, links, cutoff>>

-----------------------------------------------------------------------------
(* Password reset by a mailed link; no session is needed *)

RequestReset(r, u, l) ==
  /\ req[r].at = "idle"
  /\ Exists(u)
  /\ links[l] = {}
  /\ links' = [links EXCEPT ![l] = {[user |-> u, used |-> FALSE, expired |-> FALSE,
                                         spent |-> FALSE]}]
  /\ UNCHANGED <<acct, invited, sessions, req, cutoff>>

Unexpired(k) == ~k.expired        \* mutant
Usable(k) == ~k.used /\ ~k.expired

CheckLink(r, l) ==
  /\ req[r].at = "idle"
  /\ \E k \in links[l] :
       /\ Usable(k)
       /\ Room(k.user)
       /\ Go(r, [NoReq EXCEPT !.at = "confirming", !.link = l, !.target = k.user])
  /\ UNCHANGED <<acct, invited, sessions, links, cutoff>>

ConfirmReset(r) ==
  LET u == req[r].target IN
  /\ req[r].at = "confirming"
  /\ Room(u)
  /\ Update(u, [acct[u] EXCEPT !.pwd = @ + 1, !.status = "active", !.temp = FALSE])
  /\ links' = [links EXCEPT ![req[r].link] = {[k EXCEPT !.spent = TRUE] : k \in @}]
  /\ To(r, "confirmed")
  /\ UNCHANGED <<invited, sessions, cutoff>>

UseLink(r) ==
  /\ req[r].at = "confirmed"
  /\ links' = [links EXCEPT ![req[r].link] = {[k EXCEPT !.used = TRUE] : k \in @}]
  /\ Finish(r)
  /\ UNCHANGED <<acct, invited, sessions, cutoff>>

-----------------------------------------------------------------------------
(* audit.record, the last statement of login and of every handler of users.py *)
Record(r) ==
  /\ req[r].at = "recording"
  /\ Finish(r)
  /\ UNCHANGED <<acct, invited, sessions, links, cutoff>>

(* A request ends early: an error status, a timeout, a lost connection. *)
Fail(r) ==
  /\ CanFail \/ req[r].at = "authed"
  /\ req[r].at # "idle"
  /\ Finish(r)
  /\ UNCHANGED <<acct, invited, sessions, links, cutoff>>

(* expires_at passes. *)
Expire(t) ==
  /\ Live(t)
  /\ ~sessions[t].expired
  /\ sessions' = [sessions EXCEPT ![t].expired = TRUE]
  /\ UNCHANGED <<acct, invited, links, req, cutoff>>

ExpireLink(l) ==
  /\ \E k \in links[l] : Usable(k)
  /\ links' = [links EXCEPT ![l] = {[k EXCEPT !.expired = TRUE] : k \in @}]
  /\ UNCHANGED <<acct, invited, sessions, req, cutoff>>

Next ==
  \/ \E r \in Reqs :
       \/ DropExpired(r) \/ Logout(r) \/ VerifyCurrent(r) \/ ChangePassword(r)
       \/ DropOthers(r) \/ KillSessions(r) \/ ConfirmReset(r) \/ UseLink(r)
       \/ Record(r) \/ Fail(r)
       \/ \E t \in Tokens : OpenSession(r, t) \/ Authenticate(r, t)
       \/ \E l \in Links : CheckLink(r, l) \/ \E u \in Users : RequestReset(r, u, l)
       \/ \E u \in Users :
            \/ CheckPassword(r, u) \/ SuspendUser(r, u) \/ ReinstateUser(r, u)
            \/ ResetPassword(r, u) \/ RemoveUser(r, u)
            \/ \E role \in Roles : InviteUser(r, u, role) \/ SetRole(r, u, role)
  \/ \E t \in Tokens : Expire(t)
  \/ \E l \in Links : ExpireLink(l)

Spec == Init /\ [][Next]_vars

-----------------------------------------------------------------------------
(* What may overlap.  Every statement commits by itself, and the           *)
(* properties below but for the types and TemporaryPasswordIsFlagged hold  *)
(* only as far as the statements of others stay out of a request that has  *)
(* read and not yet written.  Each restriction says what has to stay out;  *)
(* all other overlaps and failures are allowed.                            *)

LoggingIn(r) == req[r].at \in {"checked", "purged"}

(* No purge for a newer password than a login has verified runs before the *)
(* login has its session.                                                  *)
NoLaterPurge ==
  \A r, q \in Reqs : LoggingIn(r) =>
     /\ KillSessions(q) /\ req[q].target = req[r].target => req[q].pwd <= req[r].pwd
     /\ DropOthers(q) /\ req[q].user = req[r].target => req[q].pwd <= req[r].pwd

(* No purge of a suspended account runs before a login that has verified   *)
(* the account while it was active has its session.                        *)
NoKillInLogin ==
  \A r, q \in Reqs :
     LoggingIn(r) /\ KillSessions(q) /\ req[q].target = req[r].target /\ Exists(req[q].target)
       => acct[req[q].target].status # "suspended"

(* A request is not cut off between an UPDATE and the statement that has   *)
(* to follow it: the purge, or the mark on the link.                       *)
PurgesRun == \A r \in Reqs : req[r].at = "killing" => ~Fail(r)
MarksRun == \A r \in Reqs : req[r].at = "confirmed" => ~Fail(r)

(* No two confirmations of one link overlap. *)
LinkHeldOnce ==
  \A r, q \in Reqs : /\ r # q
                     /\ req[r].at \in {"confirming", "confirmed"}
                     /\ req[q].at \in {"confirming", "confirmed"}
                    => req[r].link # req[q].link

(* Nobody takes role, status or account from a Super Admin whose request   *)
(* has been let in and has not yet written.                                *)
CallersStay ==
  \A r \in Reqs : IsSuperAdmin(r) /\ req'[r] = req[r] /\ req[r].user \in ActiveSuperAdmins
                    => req[r].user \in ActiveSuperAdmins'

SessionsNext == Next /\ NoLaterPurge /\ NoKillInLogin /\ PurgesRun /\ CallersStay
LinksNext == Next /\ MarksRun /\ LinkHeldOnce'
SessionsSpec == Init /\ [][SessionsNext]_vars
LinksSpec == Init /\ [][LinksNext]_vars

-----------------------------------------------------------------------------
(* Properties *)

(***************************************************************************)
(* Every variable stays within its type.  Accounts and ids agree: an id is *)
(* handed out once and a removed account never comes back.                 *)
(***************************************************************************)
TypeOK == /\ acct \in [Users -> Account \cup {NoAcct}]
          /\ invited \subseteq Users
          /\ sessions \in [Tokens -> Session \cup {NoSession}]
          /\ links \in [Links -> SUBSET Link]
          /\ req \in [Reqs -> Req]
          /\ cutoff \in [Users -> 0..MaxPwd]
          /\ \A u \in Users : Exists(u) => u \in invited

(***************************************************************************)
(* reset_password, users.py:187: "Invalidate any live sessions so the old  *)
(* password can't keep a session open", and the same promise of            *)
(* change_password (auth.py:193): after the purge no session of the        *)
(* account rests on a password older than the one the purge was for.       *)
(***************************************************************************)
OldPasswordKeepsNoSession ==
  \A t \in Tokens : Live(t) => sessions[t].proof >= cutoff[sessions[t].user]

(***************************************************************************)
(* suspend_user, users.py:148: "Kill their live sessions immediately."     *)
(* A suspended account has no session, once its suspension has run.        *)
(***************************************************************************)
BeingSuspended(u) == \E r \in Reqs : req[r].at = "killing" /\ req[r].target = u
SuspendedHasNoSession ==
  \A u \in Users : Exists(u) /\ acct[u].status = "suspended" /\ ~BeingSuspended(u)
                     => SessionsOf(u) = {}

(***************************************************************************)
(* "You cannot suspend yourself", "You cannot remove yourself": the step   *)
(* that suspends or removes an account leaves a Super Admin who can act.   *)
(***************************************************************************)
ASuperAdminRemains ==
  [][(\E u \in Users : /\ Exists(u)
                       /\ \/ ~Exists(u)'
                          \/ acct[u].status # "suspended" /\ acct'[u].status = "suspended")
       => ActiveSuperAdmins' # {}]_vars

(***************************************************************************)
(* A reset link sets one password (confirm_password_reset, auth.py:139):   *)
(* none is set with a link that one has already been set with.             *)
(***************************************************************************)
LinkSetsOnePassword ==
  [][\A r \in Reqs : req[r].at = "confirming" /\ req'[r].at = "confirmed"
       => \A k \in links[req[r].link] : ~k.spent]_vars

(***************************************************************************)
(* A password the server generated (invite_user, reset_password) is always *)
(* flagged must_change_password, whatever other requests write meanwhile.  *)
(***************************************************************************)
TemporaryPasswordIsFlagged ==
  \A u \in Users : Exists(u) /\ acct[u].temp => acct[u].must

=============================================================================
