---------------------------- MODULE Accounts_proofs ----------------------------
(***************************************************************************)
(* Proofs about Accounts, for any number of accounts, sessions, links and  *)
(* concurrent requests, with failures, under the restrictions that each    *)
(* theorem names; the last one says that requests one after another meet   *)
(* them all.                                                               *)
(***************************************************************************)
EXTENDS Accounts, TLAPS

(* What a request holds at each stage: TypeOK alone is not inductive, for  *)
(* a handler writes to the account, session and link it has read before.   *)
Holds(q) ==
  /\ q.at \in {"checked", "purged", "killing", "confirming", "confirmed"} => q.target \in Users
  /\ q.at \in {"authed", "changing", "changed"} => q.user \in Users /\ q.token \in Tokens
  /\ q.at \in {"confirming", "confirmed"} => q.link \in Links
RequestsHold == \A r \in Reqs : Holds(req[r])
Typing == TypeOK /\ RequestsHold

LEMMA NoReqType == NoReq \in Req /\ Holds(NoReq)
  BY MaxPwdAssumption DEF NoReq, Req, Stages, Roles, Holds

LEMMA TypeInit == Init => Typing
<1> SUFFICES ASSUME Init PROVE Typing
  OBVIOUS
<1>1. acct \in [Users -> Account \cup {NoAcct}]
  BY DEF Init, Seeds
<1>2. cutoff \in [Users -> 0..MaxPwd] /\ invited \subseteq Users
  BY MaxPwdAssumption DEF Init
<1>3. req \in [Reqs -> Req] /\ RequestsHold
  BY NoReqType DEF Init, RequestsHold
<1> QED  BY <1>1, <1>2, <1>3 DEF Init, Typing, TypeOK, Exists

(* A counter of passwords below its bound can be advanced. *)
LEMMA NextPassword == \A n \in 0..MaxPwd : n < MaxPwd => n + 1 \in 0..MaxPwd
  BY MaxPwdAssumption

LEMMA LaterIsLater ==
  \A m, n \in 0..MaxPwd : /\ Later(m, n) \in 0..MaxPwd
                          /\ Later(m, n) >= m /\ Later(m, n) >= n
                          /\ Later(m, n) = m \/ Later(m, n) = n
  BY MaxPwdAssumption DEF Later

LEMMA MarkedLink ==
  ASSUME NEW k \in Link
  PROVE  /\ [k EXCEPT !.used = TRUE] \in Link
         /\ [k EXCEPT !.expired = TRUE] \in Link
         /\ [k EXCEPT !.spent = TRUE] \in Link
  BY DEF Link

(* The requests stay well typed when one of them changes to such a request. *)
LEMMA TypeOfReq ==
  ASSUME Typing, NEW r \in Reqs, NEW q \in Req, Holds(q), req' = [req EXCEPT ![r] = q]
  PROVE  req' \in [Reqs -> Req] /\ RequestsHold'
  BY DEF Typing, TypeOK, RequestsHold, Holds

LEMMA TypeStep == Typing /\ [Next]_vars => Typing'
<1> SUFFICES ASSUME Typing, [Next]_vars PROVE Typing'
  OBVIOUS
<1> USE MaxPwdAssumption, NoReqType
<1> DEFINE Quiet == UNCHANGED acct /\ UNCHANGED invited
<1>1. ASSUME NEW r \in Reqs PROVE req[r] \in Req /\ Holds(req[r])
  BY DEF Typing, TypeOK, RequestsHold
<1>2. ASSUME NEW r \in Reqs, NEW u \in Users, CheckPassword(r, u) PROVE Typing'
  <2>1. [NoReq EXCEPT !.at = "checked", !.target = u, !.pwd = acct[u].pwd] \in Req
    BY <1>2 DEF CheckPassword, Typing, TypeOK, Exists, Account, Req, NoReq, Stages
  <2> QED  BY <1>2, <2>1, TypeOfReq DEF CheckPassword, Go, Typing, TypeOK, Exists, Holds, NoReq
<1>3. ASSUME NEW r \in Reqs, DropExpired(r) PROVE Typing'
  <2>1. [req[r] EXCEPT !.at = "purged"] \in Req
    BY <1>1 DEF Req, Stages
  <2>2. Holds([req[r] EXCEPT !.at = "purged"])
    BY <1>1, <1>3 DEF Req, Holds, DropExpired
  <2> QED  BY <1>3, <2>1, <2>2, TypeOfReq DEF DropExpired, Drop, Typing, TypeOK, Exists
<1>4. ASSUME NEW r \in Reqs, NEW t \in Tokens, OpenSession(r, t) PROVE Typing'
  <2>1. [req[r] EXCEPT !.at = "recording"] \in Req
    BY <1>1 DEF Req, Stages
  <2>2. Holds([req[r] EXCEPT !.at = "recording"])
    BY <1>1 DEF Req, Holds
  <2>3. [user |-> req[r].target, expired |-> FALSE, proof |-> req[r].pwd] \in Session
    BY <1>1, <1>4 DEF Session, Req, Holds, OpenSession
  <2> QED  BY <1>4, <2>1, <2>2, <2>3, TypeOfReq DEF OpenSession, To, Typing, TypeOK, Exists
<1>5. ASSUME NEW r \in Reqs, NEW t \in Tokens, Authenticate(r, t) PROVE Typing'
  <2> DEFINE u == sessions[t].user
             q == [NoReq EXCEPT !.at = "authed", !.user = u, !.token = t, !.role = acct[u].role]
  <2>1. u \in Users
    BY <1>5 DEF Authenticate, Live, Typing, TypeOK, Session
  <2>2. q \in Req /\ Holds(q)
    BY <1>5, <2>1 DEF Authenticate, Exists, Typing, TypeOK, Account, Req, NoReq, Stages, Holds
  <2> QED  BY <1>5, <2>2, TypeOfReq DEF Authenticate, Go, Typing, TypeOK, Exists
<1>6. ASSUME NEW r \in Reqs, Logout(r) PROVE Typing'
  BY <1>6, TypeOfReq DEF Logout, Drop, Finish, Go, Typing, TypeOK, Exists
<1>7. ASSUME NEW r \in Reqs, VerifyCurrent(r) PROVE Typing'
  <2>1. /\ [req[r] EXCEPT !.at = "changing"] \in Req
        /\ Holds([req[r] EXCEPT !.at = "changing"])
    BY <1>1, <1>7 DEF VerifyCurrent, Req, Stages, Holds
  <2> QED  BY <1>7, <2>1, TypeOfReq DEF VerifyCurrent, Typing, TypeOK, Exists
<1>8. ASSUME NEW u \in Users, Exists(u), NEW a \in Account, Update(u, a)
      PROVE  acct' \in [Users -> Account \cup {NoAcct}] /\ \A v \in Users : Exists(v)' => Exists(v)
  BY <1>8 DEF Update, Exists, Typing, TypeOK
<1>9. ASSUME NEW u \in Users, ~Exists(u), NEW a, Update(u, a) PROVE UNCHANGED acct
  BY <1>9 DEF Update
<1>10. ASSUME NEW r \in Reqs, ChangePassword(r) PROVE Typing'
  <2> DEFINE u == req[r].user
             q == [req[r] EXCEPT !.at = "changed",
                                 !.pwd = IF Exists(u) THEN acct[u].pwd + 1 ELSE 0]
  <2>1. u \in Users
    BY <1>1, <1>10 DEF ChangePassword, Holds
  <2>2. q \in Req /\ Holds(q)
    <3>1. Exists(u) => acct[u].pwd + 1 \in 0..MaxPwd
      BY <1>10, <2>1, NextPassword DEF ChangePassword, Exists, Room, Typing, TypeOK, Account
    <3>2. (IF Exists(u) THEN acct[u].pwd + 1 ELSE 0) \in 0..MaxPwd
      BY <3>1
    <3>3. req[r].user \in Users /\ req[r].token \in Tokens
      BY <1>1, <1>10 DEF ChangePassword, Holds
    <3> HIDE DEF u
    <3> QED  BY <1>1, <3>2, <3>3 DEF Req, Stages, Holds
  <2>3. acct' \in [Users -> Account \cup {NoAcct}] /\ \A v \in Users : Exists(v)' => Exists(v)
    <3>1. CASE Exists(u)
      <4>1. [acct[u] EXCEPT !.pwd = acct[u].pwd + 1, !.must = FALSE, !.temp = FALSE] \in Account
        <5>1. acct[u] \in Account /\ acct[u].pwd < MaxPwd
          BY <1>10, <2>1, <3>1 DEF ChangePassword, Room, Exists, Typing, TypeOK
        <5>2. acct[u].pwd + 1 \in 0..MaxPwd
          BY <5>1, NextPassword DEF Account
        <5> QED  BY <5>1, <5>2 DEF Account
      <4> QED  BY <1>10, <2>1, <3>1, <4>1, <1>8 DEF ChangePassword
    <3>2. CASE ~Exists(u)
      BY <1>10, <2>1, <3>2, <1>9 DEF ChangePassword, Typing, TypeOK, Exists
    <3> QED  BY <3>1, <3>2
  <2> QED  BY <1>10, <2>2, <2>3, TypeOfReq DEF ChangePassword, Typing, TypeOK
<1>11. ASSUME NEW r \in Reqs, DropOthers(r) PROVE Typing'
  <2>1. req[r].pwd \in 0..MaxPwd
    BY <1>1 DEF Req
  <2>2. \A t \in Tokens : Live(t) =>
          [sessions[t] EXCEPT !.proof = Later(sessions[t].proof, req[r].pwd)] \in Session
    BY <2>1, LaterIsLater DEF Live, Typing, TypeOK, Session
  <2>3. sessions' \in [Tokens -> Session \cup {NoSession}]
    BY <1>11, <2>2 DEF DropOthers, Typing, TypeOK
  <2>4. cutoff' \in [Users -> 0..MaxPwd]
    BY <1>11, <2>1, LaterIsLater DEF DropOthers, Purged, Typing, TypeOK
  <2> QED  BY <1>11, <2>3, <2>4, TypeOfReq DEF DropOthers, Finish, Go, Typing, TypeOK, Exists
(* The step from "authed" that leaves an entry for the audit log. *)
<1>12. ASSUME NEW r \in Reqs
       PROVE  LET q == [req[r] EXCEPT !.at = "recording"]
              IN  q \in Req /\ Holds(q)
  BY <1>1 DEF Req, Stages, Holds
<1>13. ASSUME NEW r \in Reqs, NEW u \in Users, NEW role \in Roles, InviteUser(r, u, role)
       PROVE  Typing'
  <2>1. [role |-> role, status |-> "active", pwd |-> 1, must |-> TRUE, temp |-> TRUE] \in Account
    BY DEF Account, Statuses
  <2> QED  BY <1>12, <1>13, <2>1, TypeOfReq DEF InviteUser, To, Typing, TypeOK, Exists
<1>14. ASSUME NEW r \in Reqs, NEW u \in Users, NEW role \in Roles, SetRole(r, u, role)
       PROVE  Typing'
  <2>1. [acct[u] EXCEPT !.role = role] \in Account
    BY <1>14 DEF SetRole, Exists, Typing, TypeOK, Account
  <2> QED  BY <1>12, <1>14, <2>1, TypeOfReq DEF SetRole, To, Typing, TypeOK, Exists
<1>15. ASSUME NEW r \in Reqs, NEW u \in Users, SuspendUser(r, u) PROVE Typing'
  <2> DEFINE q == [req[r] EXCEPT !.at = "killing", !.target = u, !.pwd = acct[u].pwd]
  <2>1. [acct[u] EXCEPT !.status = "suspended"] \in Account /\ acct[u].pwd \in 0..MaxPwd
    BY <1>15 DEF SuspendUser, Exists, Typing, TypeOK, Account, Statuses
  <2>2. q \in Req /\ Holds(q)
    BY <1>1, <2>1 DEF Req, Stages, Holds
  <2> QED  BY <1>15, <2>1, <2>2, TypeOfReq DEF SuspendUser, Typing, TypeOK, Exists
<1>16. ASSUME NEW r \in Reqs, NEW u \in Users, ReinstateUser(r, u) PROVE Typing'
  <2>1. [acct[u] EXCEPT !.status = "active"] \in Account
    BY <1>16 DEF ReinstateUser, Exists, Typing, TypeOK, Account, Statuses
  <2> QED  BY <1>12, <1>16, <2>1, TypeOfReq DEF ReinstateUser, To, Typing, TypeOK, Exists
<1>17. ASSUME NEW r \in Reqs, NEW u \in Users, ResetPassword(r, u) PROVE Typing'
  <2> DEFINE q == [req[r] EXCEPT !.at = "killing", !.target = u, !.pwd = acct[u].pwd + 1]
  <2>1. Regenerated(acct[u]) \in Account /\ acct[u].pwd + 1 \in 0..MaxPwd
    <3>1. acct[u] \in Account /\ acct[u].pwd < MaxPwd
      BY <1>17 DEF ResetPassword, Exists, Typing, TypeOK
    <3>2. acct[u].pwd + 1 \in 0..MaxPwd
      BY <3>1, NextPassword DEF Account
    <3> QED  BY <3>1, <3>2 DEF Regenerated, Account, Statuses
  <2>2. q \in Req /\ Holds(q)
    BY <1>1, <2>1 DEF Req, Stages, Holds
  <2> QED  BY <1>17, <2>1, <2>2, TypeOfReq DEF ResetPassword, Typing, TypeOK, Exists
<1>18. ASSUME NEW r \in Reqs, KillSessions(r) PROVE Typing'
  <2>1. LET q == [req[r] EXCEPT !.at = "recording"] IN q \in Req /\ Holds(q)
    BY <1>1 DEF Req, Stages, Holds
  <2>2. req[r].pwd \in 0..MaxPwd
    BY <1>1 DEF Req
  <2>3. cutoff' \in [Users -> 0..MaxPwd]
    BY <1>18, <2>2, LaterIsLater DEF KillSessions, Purged, Typing, TypeOK
  <2> QED  BY <1>18, <2>1, <2>3, TypeOfReq DEF KillSessions, Drop, Typing, TypeOK, Exists
<1>19. ASSUME NEW r \in Reqs, NEW u \in Users, RemoveUser(r, u) PROVE Typing'
  BY <1>12, <1>19, TypeOfReq DEF RemoveUser, To, Typing, TypeOK, Exists
<1>20. ASSUME NEW r \in Reqs, NEW u \in Users, NEW l \in Links, RequestReset(r, u, l)
       PROVE  Typing'
  BY <1>20 DEF RequestReset, Typing, TypeOK, Link, Exists, RequestsHold, Holds
<1>21. ASSUME NEW r \in Reqs, NEW l \in Links, CheckLink(r, l) PROVE Typing'
  <2>1. PICK k \in links[l] : Go(r, [NoReq EXCEPT !.at = "confirming", !.link = l,
                                                  !.target = k.user])
    BY <1>21 DEF CheckLink
  <2>2. k.user \in Users
    BY <2>1 DEF Typing, TypeOK, Link
  <2>3. LET q == [NoReq EXCEPT !.at = "confirming", !.link = l, !.target = k.user]
        IN  q \in Req /\ Holds(q)
    BY <2>2 DEF Req, NoReq, Stages, Holds
  <2> QED  BY <1>21, <2>1, <2>3, TypeOfReq DEF CheckLink, Go, Typing, TypeOK, Exists
<1>22. ASSUME NEW r \in Reqs, ConfirmReset(r) PROVE Typing'
  <2> DEFINE u == req[r].target
             q == [req[r] EXCEPT !.at = "confirmed"]
  <2>1. u \in Users
    BY <1>1, <1>22 DEF ConfirmReset, Holds
  <2>2. q \in Req /\ Holds(q)
    BY <1>1, <1>22 DEF ConfirmReset, Req, Stages, Holds
  <2>3. acct' \in [Users -> Account \cup {NoAcct}] /\ \A v \in Users : Exists(v)' => Exists(v)
    <3>1. CASE Exists(u)
      <4>1. [acct[u] EXCEPT !.pwd = acct[u].pwd + 1, !.status = "active", !.temp = FALSE] \in Account
        <5>1. acct[u] \in Account /\ acct[u].pwd < MaxPwd
          BY <1>22, <2>1, <3>1 DEF ConfirmReset, Room, Exists, Typing, TypeOK
        <5>2. acct[u].pwd + 1 \in 0..MaxPwd
          BY <5>1, NextPassword DEF Account
        <5> QED  BY <5>1, <5>2 DEF Account, Statuses
      <4> QED  BY <1>22, <2>1, <3>1, <4>1, <1>8 DEF ConfirmReset
    <3>2. CASE ~Exists(u)
      BY <1>22, <2>1, <3>2, <1>9 DEF ConfirmReset, Typing, TypeOK, Exists
    <3> QED  BY <3>1, <3>2
  <2>4. links' \in [Links -> SUBSET Link]
    <3>1. req[r].link \in Links
      BY <1>1, <1>22 DEF ConfirmReset, Holds
    <3>2. \A k \in links[req[r].link] : [k EXCEPT !.spent = TRUE] \in Link
      BY <3>1, MarkedLink DEF Typing, TypeOK
    <3> QED  BY <1>22, <3>1, <3>2 DEF ConfirmReset, Typing, TypeOK
  <2> QED  BY <1>22, <2>2, <2>3, <2>4, TypeOfReq DEF ConfirmReset, To, Typing, TypeOK
<1>23. ASSUME NEW r \in Reqs, UseLink(r) PROVE Typing'
  <2>1. req[r].link \in Links
    BY <1>1, <1>23 DEF UseLink, Holds
  <2>2. \A k \in links[req[r].link] : [k EXCEPT !.used = TRUE] \in Link
    BY <2>1, MarkedLink DEF Typing, TypeOK
  <2>3. links' \in [Links -> SUBSET Link]
    BY <1>23, <2>1, <2>2 DEF UseLink, Typing, TypeOK
  <2> QED  BY <1>23, <2>3, TypeOfReq DEF UseLink, Finish, Go, Typing, TypeOK, Exists
<1>24. ASSUME NEW r \in Reqs, Record(r) \/ Fail(r) PROVE Typing'
  BY <1>24, TypeOfReq DEF Record, Fail, Finish, Go, Typing, TypeOK, Exists
<1>25. ASSUME NEW t \in Tokens, Expire(t) PROVE Typing'
  <2>1. [sessions[t] EXCEPT !.expired = TRUE] \in Session
    BY <1>25 DEF Expire, Live, Typing, TypeOK, Session
  <2> QED  BY <1>25, <2>1 DEF Expire, Typing, TypeOK, Exists, RequestsHold, Holds
<1>26. ASSUME NEW l \in Links, ExpireLink(l) PROVE Typing'
  <2>1. \A k \in links[l] : [k EXCEPT !.expired = TRUE] \in Link
    BY MarkedLink DEF Typing, TypeOK
  <2> QED  BY <1>26, <2>1 DEF ExpireLink, Typing, TypeOK, Exists, RequestsHold, Holds
<1>27. ASSUME UNCHANGED vars PROVE Typing'
  BY <1>27 DEF vars, Typing, TypeOK, Exists, RequestsHold, Holds
<1> QED
  BY <1>2, <1>3, <1>4, <1>5, <1>6, <1>7, <1>10, <1>11, <1>13, <1>14, <1>15, <1>16, <1>17,
     <1>18, <1>19, <1>20, <1>21, <1>22, <1>23, <1>24, <1>25, <1>26, <1>27 DEF Next

(***************************************************************************)
(* Every variable keeps its type and an id is never handed out twice, for  *)
(* every number of accounts, sessions, links and requests (auth.py,        *)
(* users.py).                                                              *)
(***************************************************************************)
THEOREM TypeCorrect == Spec => []TypeOK
<1>1. Typing => TypeOK
  BY DEF Typing
<1> QED  BY TypeInit, TypeStep, <1>1, PTL DEF Spec

(***************************************************************************)
(* A password the server generated stays flagged must_change_password      *)
(* until its holder replaces it: invite_user and reset_password set the    *)
(* flag in the statement that sets the password, and only change_password  *)
(* clears it, in the statement that replaces the password.                 *)
(***************************************************************************)
THEOREM TemporaryPasswordsStayFlagged == Spec => []TemporaryPasswordIsFlagged
<1>1. Init => TemporaryPasswordIsFlagged
  BY NoAcctAssumption DEF Init, Seeds, TemporaryPasswordIsFlagged, Exists
<1>2. Typing /\ TemporaryPasswordIsFlagged /\ [Next]_vars => TemporaryPasswordIsFlagged'
  <2> SUFFICES ASSUME Typing, TemporaryPasswordIsFlagged, [Next]_vars
               PROVE  TemporaryPasswordIsFlagged'
    OBVIOUS
  <2> DEFINE Good(a) == a # NoAcct /\ a.temp => a.must
  <2>1. \A u \in Users : Good(acct[u])
    BY DEF TemporaryPasswordIsFlagged, Exists
  <2>2. \A u \in Users : Exists(u) => acct[u] \in Account
    BY DEF Typing, TypeOK, Exists
  <2>3. ASSUME NEW r \in Reqs, ChangePassword(r) PROVE TemporaryPasswordIsFlagged'
    BY <2>1, <2>2, <2>3 DEF ChangePassword, Update, TemporaryPasswordIsFlagged, Exists, Account,
       Typing, TypeOK
  <2>4. ASSUME NEW r \in Reqs, ConfirmReset(r) PROVE TemporaryPasswordIsFlagged'
    BY <2>1, <2>2, <2>4 DEF ConfirmReset, Update, TemporaryPasswordIsFlagged, Exists, Account,
       Typing, TypeOK
  <2>5. ASSUME NEW r \in Reqs, NEW u \in Users, NEW role \in Roles,
               InviteUser(r, u, role) \/ SetRole(r, u, role)
        PROVE  TemporaryPasswordIsFlagged'
    BY <2>1, <2>2, <2>5 DEF InviteUser, SetRole, TemporaryPasswordIsFlagged, Exists, Account,
       Typing, TypeOK
  <2>6. ASSUME NEW r \in Reqs, NEW u \in Users, SuspendUser(r, u)
        PROVE  TemporaryPasswordIsFlagged'
    BY <2>1, <2>2, <2>6
    DEF SuspendUser, TemporaryPasswordIsFlagged, Exists, Account, Typing, TypeOK
  <2>7. ASSUME NEW r \in Reqs, NEW u \in Users, ReinstateUser(r, u)
        PROVE  TemporaryPasswordIsFlagged'
    BY <2>1, <2>2, <2>7
    DEF ReinstateUser, TemporaryPasswordIsFlagged, Exists, Account, Typing, TypeOK
  <2>8. ASSUME NEW r \in Reqs, NEW u \in Users, ResetPassword(r, u)
        PROVE  TemporaryPasswordIsFlagged'
    BY <2>1, <2>2, <2>8
    DEF ResetPassword, Regenerated, TemporaryPasswordIsFlagged, Exists, Account, Typing, TypeOK
  <2>9. ASSUME NEW r \in Reqs, NEW u \in Users, RemoveUser(r, u)
        PROVE  TemporaryPasswordIsFlagged'
    BY <2>1, <2>2, <2>9
    DEF RemoveUser, TemporaryPasswordIsFlagged, Exists, Account, Typing, TypeOK
  <2>10. CASE UNCHANGED acct
    BY <2>10 DEF TemporaryPasswordIsFlagged, Exists
  <2> QED
    BY <2>3, <2>4, <2>5, <2>6, <2>7, <2>8, <2>9, <2>10
    DEF Next, vars, CheckPassword, DropExpired, OpenSession, Authenticate, Logout, VerifyCurrent,
        DropOthers, KillSessions, RequestReset, CheckLink, UseLink, Record, Fail, Expire, ExpireLink
<1> QED  BY TypeInit, TypeStep, <1>1, <1>2, PTL DEF Spec
-----------------------------------------------------------------------------
(* What a step does to the accounts. *)

(* Suspending and removing are the statements of suspend_user and of       *)
(* remove_user; every other statement leaves accounts and only changes the *)
(* status of one to "active".                                              *)
Lost(u) == /\ Exists(u)
           /\ \/ ~Exists(u)'
              \/ acct[u].status # "suspended" /\ acct'[u].status = "suspended"

LEMMA OnlyTheseLose ==
  ASSUME Typing, [Next]_vars, NEW u \in Users, Lost(u)
  PROVE  \E r \in Reqs : SuspendUser(r, u) \/ RemoveUser(r, u)
<1>1. acct[u] \in Account /\ acct' # acct
  BY DEF Lost, Exists, Typing, TypeOK
<1>2. \A v \in Users : acct'[v] \in Account => acct'[v] # NoAcct
  BY NoAcctAssumption
<1>3. ASSUME NEW r \in Reqs, NEW v \in Users, NEW role \in Roles,
             InviteUser(r, v, role) \/ SetRole(r, v, role)
      PROVE  FALSE
  <2>1. \/ acct'[u] = acct[u]
        \/ acct'[u] = [role |-> role, status |-> "active", pwd |-> 1, must |-> TRUE, temp |-> TRUE]
        \/ acct'[u] = [acct[u] EXCEPT !.role = role]
    BY <1>3 DEF InviteUser, SetRole, Typing, TypeOK
  <2>2. [role |-> role, status |-> "active", pwd |-> 1, must |-> TRUE, temp |-> TRUE] \in Account
    BY MaxPwdAssumption DEF Account, Statuses
  <2>3. [acct[u] EXCEPT !.role = role] \in Account
        /\ [acct[u] EXCEPT !.role = role].status = acct[u].status
    BY <1>1 DEF Account
  <2>4. CASE acct'[u] = [role |-> role, status |-> "active", pwd |-> 1, must |-> TRUE, temp |-> TRUE]
    <3>1. acct'[u] # NoAcct
      BY <2>2, <2>4, NoAcctAssumption
    <3>2. acct'[u].status = "active"
      BY <2>4
    <3> QED  BY <3>1, <3>2 DEF Lost, Exists
  <2>5. CASE acct'[u] = [acct[u] EXCEPT !.role = role]
    <3>1. acct'[u] # NoAcct /\ acct'[u].status = acct[u].status
      BY <2>3, <2>5, NoAcctAssumption
    <3> QED  BY <3>1 DEF Lost, Exists
  <2>6. CASE acct'[u] = acct[u]
    BY <2>6 DEF Lost, Exists
  <2> QED  BY <2>1, <2>4, <2>5, <2>6
<1>4. ASSUME NEW r \in Reqs, NEW v \in Users, ReinstateUser(r, v) \/ ResetPassword(r, v) PROVE FALSE
  <2>1. \/ acct'[u] = acct[u]
        \/ acct'[u] = [acct[u] EXCEPT !.status = "active"]
        \/ acct'[u] = Regenerated(acct[u]) /\ acct[u].pwd < MaxPwd
    BY <1>4 DEF ReinstateUser, ResetPassword, Typing, TypeOK
  <2>2. [acct[u] EXCEPT !.status = "active"] \in Account
    BY <1>1 DEF Account, Statuses
  <2>3. acct[u].pwd < MaxPwd => Regenerated(acct[u]) \in Account
    <3>1. acct[u].pwd < MaxPwd => acct[u].pwd + 1 \in 0..MaxPwd
      BY <1>1, NextPassword DEF Account
    <3> QED  BY <1>1, <3>1 DEF Regenerated, Account, Statuses
  <2> QED  BY <1>1, <1>2, <2>1, <2>2, <2>3 DEF Lost, Exists, Account, Regenerated
<1>5. ASSUME NEW r \in Reqs, ChangePassword(r) \/ ConfirmReset(r) PROVE FALSE
  <2>1. \/ acct'[u] = acct[u]
        \/ /\ acct[u].pwd < MaxPwd
           /\ \/ acct'[u] = [acct[u] EXCEPT !.pwd = acct[u].pwd + 1, !.must = FALSE, !.temp = FALSE]
              \/ acct'[u] = [acct[u] EXCEPT !.pwd = acct[u].pwd + 1, !.status = "active", !.temp = FALSE]
    BY <1>5 DEF ChangePassword, ConfirmReset, Update, Room, Typing, TypeOK
  <2>2. acct[u].pwd < MaxPwd =>
          /\ [acct[u] EXCEPT !.pwd = acct[u].pwd + 1, !.must = FALSE, !.temp = FALSE] \in Account
          /\ [acct[u] EXCEPT !.pwd = acct[u].pwd + 1, !.status = "active", !.temp = FALSE] \in Account
    <3>1. acct[u].pwd < MaxPwd => acct[u].pwd + 1 \in 0..MaxPwd
      BY <1>1, NextPassword DEF Account
    <3> QED  BY <1>1, <3>1 DEF Account, Statuses
  <2> QED  BY <1>1, <1>2, <2>1, <2>2 DEF Lost, Exists, Account
<1>6. ASSUME NEW r \in Reqs, NEW v \in Users, SuspendUser(r, v) \/ RemoveUser(r, v) PROVE v = u
  BY <1>6 DEF SuspendUser, RemoveUser, Lost, Exists, Typing, TypeOK
<1> QED
  BY <1>1, <1>3, <1>4, <1>5, <1>6
  DEF Next, vars, CheckPassword, DropExpired, OpenSession, Authenticate, Logout, VerifyCurrent,
      DropOthers, KillSessions, RequestReset, CheckLink, UseLink, Record, Fail, Expire, ExpireLink

(* What a step does to the sessions. *)

(* A session is opened, marked, dropped or left alone.                     *)
LEMMA SessionSteps ==
  ASSUME Typing, [Next]_vars
  PROVE  \/ \E r \in Reqs, t \in Tokens : OpenSession(r, t)
         \/ \E r \in Reqs : DropOthers(r) \/ KillSessions(r)
         \/ /\ UNCHANGED cutoff
            /\ \A t \in Tokens : Live(t)' => /\ Live(t)
                                             /\ sessions'[t].user = sessions[t].user
                                             /\ sessions'[t].proof = sessions[t].proof
<1> DEFINE Fewer == /\ UNCHANGED cutoff
                    /\ \A t \in Tokens : Live(t)' => /\ Live(t)
                                                     /\ sessions'[t].user = sessions[t].user
                                                     /\ sessions'[t].proof = sessions[t].proof
<1>1. ASSUME NEW r \in Reqs, DropExpired(r) \/ Logout(r) PROVE Fewer
  BY <1>1 DEF DropExpired, Logout, Drop, Live
<1>2. ASSUME NEW t \in Tokens, Expire(t) PROVE Fewer
  <2>1. /\ [sessions[t] EXCEPT !.expired = TRUE].user = sessions[t].user
        /\ [sessions[t] EXCEPT !.expired = TRUE].proof = sessions[t].proof
    BY <1>2 DEF Expire, Live, Typing, TypeOK, Session
  <2> QED  BY <1>2, <2>1 DEF Expire, Live, Typing, TypeOK
<1>3. CASE UNCHANGED <<sessions, cutoff>>
  BY <1>3 DEF Live
<1> HIDE DEF Fewer
<1>4. ASSUME NEW r \in Reqs, NEW u \in Users,
             \/ CheckPassword(r, u) \/ SuspendUser(r, u) \/ ReinstateUser(r, u)
             \/ ResetPassword(r, u) \/ RemoveUser(r, u)
             \/ \E role \in Roles : InviteUser(r, u, role) \/ SetRole(r, u, role)
             \/ \E l \in Links : RequestReset(r, u, l)
      PROVE  UNCHANGED <<sessions, cutoff>>
  BY <1>4 DEF CheckPassword, SuspendUser, ReinstateUser, ResetPassword, RemoveUser, InviteUser,
     SetRole, RequestReset
<1>5. ASSUME NEW r \in Reqs,
             \/ VerifyCurrent(r) \/ ChangePassword(r) \/ ConfirmReset(r) \/ UseLink(r)
             \/ Record(r) \/ Fail(r)
             \/ (\E t \in Tokens : Authenticate(r, t)) \/ (\E l \in Links : CheckLink(r, l))
      PROVE  UNCHANGED <<sessions, cutoff>>
  BY <1>5 DEF VerifyCurrent, ChangePassword, ConfirmReset, UseLink, Record, Fail, Authenticate,
     CheckLink
<1>6. ASSUME NEW l \in Links, ExpireLink(l) PROVE UNCHANGED <<sessions, cutoff>>
  BY <1>6 DEF ExpireLink
<1>7. UNCHANGED vars => UNCHANGED <<sessions, cutoff>>
  BY DEF vars
<1>8. UNCHANGED <<sessions, cutoff>> => Fewer
  BY DEF Fewer, Live
<1> QED  BY <1>1, <1>2, <1>4, <1>5, <1>6, <1>7, <1>8 DEF Next, Fewer

(* A statement that writes an account writes a password no older.          *)
LEMMA PasswordsAdvance ==
  ASSUME Typing, [Next]_vars, NEW u \in Users, Exists(u)'
  PROVE  /\ u \in invited'
         /\ \/ Exists(u) /\ acct'[u].pwd >= acct[u].pwd
            \/ u \notin invited /\ UNCHANGED cutoff
<1>1. Typing'
  BY TypeStep
<1>2. Exists(u) => acct[u] \in Account /\ acct[u].pwd \in Nat
  BY MaxPwdAssumption DEF Exists, Typing, TypeOK, Account
<1>3. ASSUME UNCHANGED acct PROVE Exists(u) /\ acct'[u].pwd >= acct[u].pwd
  BY <1>2, <1>3 DEF Exists
<1>4. ASSUME NEW r \in Reqs, NEW v \in Users, NEW role \in Roles, InviteUser(r, v, role)
      PROVE  \/ Exists(u) /\ acct'[u].pwd >= acct[u].pwd
             \/ u \notin invited /\ UNCHANGED cutoff
  BY <1>2, <1>4 DEF InviteUser, Exists, Typing, TypeOK
<1>5. ASSUME NEW r \in Reqs, NEW v \in Users, RemoveUser(r, v)
      PROVE  Exists(u) /\ acct'[u].pwd >= acct[u].pwd
  BY <1>2, <1>5 DEF RemoveUser, Exists, Typing, TypeOK
<1>6. ASSUME NEW r \in Reqs, NEW v \in Users,
             \/ \E role \in Roles : SetRole(r, v, role)
             \/ SuspendUser(r, v) \/ ReinstateUser(r, v)
      PROVE  Exists(u) /\ acct'[u].pwd >= acct[u].pwd
  <2>1. Exists(u)
    BY <1>6 DEF SetRole, SuspendUser, ReinstateUser, Exists, Typing, TypeOK
  <2>2. \/ \E role \in Roles : acct'[u] = [acct[u] EXCEPT !.role = role]
        \/ \E s \in Statuses : acct'[u] = [acct[u] EXCEPT !.status = s]
        \/ acct'[u] = acct[u]
    BY <1>6 DEF SetRole, SuspendUser, ReinstateUser, Statuses, Typing, TypeOK
  <2>3. acct'[u].pwd = acct[u].pwd
    BY <1>2, <2>1, <2>2 DEF Account
  <2> QED  BY <1>2, <2>1, <2>3
<1>7. ASSUME NEW r \in Reqs, NEW v \in Users, ResetPassword(r, v)
      PROVE  Exists(u) /\ acct'[u].pwd >= acct[u].pwd
  <2>1. Exists(u)
    BY <1>7 DEF ResetPassword, Exists, Typing, TypeOK
  <2>2. acct'[u] = acct[u] \/ acct'[u] = Regenerated(acct[u])
    BY <1>7 DEF ResetPassword, Typing, TypeOK
  <2>3. Regenerated(acct[u]).pwd = acct[u].pwd + 1
    BY <1>2, <2>1 DEF Regenerated, Account
  <2>4. acct'[u].pwd = acct[u].pwd \/ acct'[u].pwd = acct[u].pwd + 1
    BY <2>2, <2>3
  <2> QED  BY <1>2, <2>1, <2>4
<1>8. ASSUME NEW r \in Reqs, ChangePassword(r) \/ ConfirmReset(r)
      PROVE  Exists(u) /\ acct'[u].pwd >= acct[u].pwd
  <2>1. Exists(u)
    BY <1>8 DEF ChangePassword, ConfirmReset, Update, Exists, Typing, TypeOK
  <2>2. \/ acct'[u] = acct[u]
        \/ acct'[u] = [acct[u] EXCEPT !.pwd = acct[u].pwd + 1, !.must = FALSE, !.temp = FALSE]
        \/ acct'[u] = [acct[u] EXCEPT !.pwd = acct[u].pwd + 1, !.status = "active", !.temp = FALSE]
    BY <1>8 DEF ChangePassword, ConfirmReset, Update, Typing, TypeOK
  <2>3. acct'[u].pwd = acct[u].pwd \/ acct'[u].pwd = acct[u].pwd + 1
    BY <1>2, <2>1, <2>2 DEF Account
  <2> QED  BY <1>2, <2>1, <2>3
<1>9. u \in invited'
  BY <1>1 DEF Typing, TypeOK
<1> QED
  BY <1>3, <1>4, <1>5, <1>6, <1>7, <1>8, <1>9
  DEF Next, vars, CheckPassword, DropExpired, OpenSession, Authenticate, Logout, VerifyCurrent,
      DropOthers, KillSessions, RequestReset, CheckLink, UseLink, Record, Fail, Expire, ExpireLink

LEMMA CutoffSteps ==
  ASSUME Typing, [Next]_vars
  PROVE  \/ UNCHANGED cutoff
         \/ \E r \in Reqs : DropOthers(r) \/ KillSessions(r)
  BY SessionSteps DEF OpenSession

LEMMA IdsKept == [Next]_vars => invited \subseteq invited'
<1> SUFFICES ASSUME [Next]_vars PROVE invited \subseteq invited'
  OBVIOUS
<1>1. ASSUME NEW r \in Reqs, NEW u \in Users, NEW role \in Roles, InviteUser(r, u, role)
      PROVE  invited \subseteq invited'
  BY <1>1 DEF InviteUser
<1>2. ASSUME NEW r \in Reqs, NEW u \in Users,
             \/ CheckPassword(r, u) \/ SuspendUser(r, u) \/ ReinstateUser(r, u)
             \/ ResetPassword(r, u) \/ RemoveUser(r, u)
             \/ \E role \in Roles : SetRole(r, u, role)
             \/ \E l \in Links : RequestReset(r, u, l)
      PROVE  UNCHANGED invited
  BY <1>2 DEF CheckPassword, SuspendUser, ReinstateUser, ResetPassword, RemoveUser, SetRole,
     RequestReset
<1>3. ASSUME NEW r \in Reqs,
             \/ DropExpired(r) \/ Logout(r) \/ VerifyCurrent(r) \/ ChangePassword(r)
             \/ DropOthers(r) \/ KillSessions(r) \/ ConfirmReset(r) \/ UseLink(r)
             \/ Record(r) \/ Fail(r)
             \/ (\E t \in Tokens : OpenSession(r, t) \/ Authenticate(r, t))
             \/ (\E l \in Links : CheckLink(r, l))
      PROVE  UNCHANGED invited
  BY <1>3 DEF DropExpired, Logout, VerifyCurrent, ChangePassword, DropOthers, KillSessions,
     ConfirmReset, UseLink, Record, Fail, OpenSession, Authenticate, CheckLink
<1>4. (\E t \in Tokens : Expire(t)) \/ (\E l \in Links : ExpireLink(l)) \/ UNCHANGED vars
        => UNCHANGED invited
  BY DEF Expire, ExpireLink, vars
<1> QED  BY <1>1, <1>2, <1>3, <1>4 DEF Next

(* A new account is active.                                                *)
LEMMA OnlyInvited ==
  ASSUME Typing, [Next]_vars, NEW u \in Users, Exists(u)', ~Exists(u)
  PROVE  acct'[u].status = "active"
<1>1. ASSUME NEW r \in Reqs, NEW v \in Users, NEW role \in Roles, InviteUser(r, v, role)
      PROVE  acct'[u].status = "active"
  BY <1>1 DEF InviteUser, Exists, Typing, TypeOK
<1>2. ASSUME NEW r \in Reqs, NEW v \in Users,
             \/ \E role \in Roles : SetRole(r, v, role)
             \/ SuspendUser(r, v) \/ ReinstateUser(r, v) \/ ResetPassword(r, v) \/ RemoveUser(r, v)
      PROVE  FALSE
  BY <1>2 DEF SetRole, SuspendUser, ReinstateUser, ResetPassword, RemoveUser, Exists, Typing, TypeOK
<1>3. ASSUME NEW r \in Reqs, ChangePassword(r) \/ ConfirmReset(r) PROVE FALSE
  BY <1>3 DEF ChangePassword, ConfirmReset, Update, Exists, Typing, TypeOK
<1> QED
  BY <1>1, <1>2, <1>3
  DEF Next, vars, CheckPassword, DropExpired, OpenSession, Authenticate, Logout, VerifyCurrent,
      DropOthers, KillSessions, RequestReset, CheckLink, UseLink, Record, Fail, Expire, ExpireLink,
      Exists

LEMMA Advanced ==
  ASSUME Typing, NEW r \in Reqs, NEW s, To(r, s)
  PROVE  /\ req'[r].at = s /\ req'[r].user = req[r].user /\ req'[r].role = req[r].role
         /\ req'[r].token = req[r].token /\ req'[r].target = req[r].target
         /\ req'[r].link = req[r].link /\ req'[r].pwd = req[r].pwd
  BY DEF To, Typing, TypeOK, Req

LEMMA Finished ==
  ASSUME Typing, NEW r \in Reqs, Finish(r)
  PROVE  req'[r].at = "idle"
  BY DEF Finish, Go, NoReq, Typing, TypeOK

(***************************************************************************)
(* What a step does to one request: nothing, or it is a step of its own.   *)
(***************************************************************************)
RequestStep(r) ==
  \/ DropExpired(r) \/ Logout(r) \/ VerifyCurrent(r) \/ ChangePassword(r)
  \/ DropOthers(r) \/ KillSessions(r) \/ ConfirmReset(r) \/ UseLink(r)
  \/ Record(r) \/ Fail(r)
  \/ \E t \in Tokens : OpenSession(r, t) \/ Authenticate(r, t)
  \/ \E l \in Links : CheckLink(r, l)
  \/ \E u \in Users :
       \/ CheckPassword(r, u) \/ SuspendUser(r, u) \/ ReinstateUser(r, u)
       \/ ResetPassword(r, u) \/ RemoveUser(r, u)
       \/ \E role \in Roles : InviteUser(r, u, role) \/ SetRole(r, u, role)

LEMMA OwnSteps ==
  ASSUME Typing, [Next]_vars, NEW r \in Reqs
  PROVE  req'[r] = req[r] \/ RequestStep(r)
<1>1. ASSUME NEW q \in Reqs, q # r, RequestStep(q) PROVE req'[r] = req[r]
  <2>1. CASE \/ DropExpired(q) \/ Logout(q) \/ VerifyCurrent(q) \/ ChangePassword(q)
             \/ DropOthers(q) \/ KillSessions(q) \/ ConfirmReset(q) \/ UseLink(q)
             \/ Record(q) \/ Fail(q)
    BY <1>1, <2>1 DEF DropExpired, Logout, VerifyCurrent, ChangePassword, DropOthers, KillSessions,
       ConfirmReset, UseLink, Record, Fail, To, Finish, Go, Typing, TypeOK
  <2>2. CASE \/ \E t \in Tokens : OpenSession(q, t) \/ Authenticate(q, t)
             \/ \E l \in Links : CheckLink(q, l)
    BY <1>1, <2>2 DEF OpenSession, Authenticate, CheckLink, To, Go, Typing, TypeOK
  <2>3. CASE \E u \in Users :
               \/ CheckPassword(q, u) \/ SuspendUser(q, u) \/ ReinstateUser(q, u)
               \/ ResetPassword(q, u) \/ RemoveUser(q, u)
               \/ \E role \in Roles : InviteUser(q, u, role) \/ SetRole(q, u, role)
    BY <1>1, <2>3 DEF CheckPassword, SuspendUser, ReinstateUser, ResetPassword, RemoveUser,
       InviteUser, SetRole, To, Go, Typing, TypeOK
  <2> QED  BY <1>1, <2>1, <2>2, <2>3 DEF RequestStep
<1>2. ASSUME NEW q \in Reqs, NEW l \in Links, NEW u \in Users, RequestReset(q, u, l)
      PROVE  req'[r] = req[r]
  BY <1>2 DEF RequestReset
<1>3. (\E t \in Tokens : Expire(t)) \/ (\E l \in Links : ExpireLink(l)) \/ UNCHANGED vars
        => req'[r] = req[r]
  BY DEF Expire, ExpireLink, vars
<1>4. ASSUME Next
      PROVE  \/ \E q \in Reqs : RequestStep(q)
             \/ \E q \in Reqs, l \in Links, u \in Users : RequestReset(q, u, l)
             \/ (\E t \in Tokens : Expire(t)) \/ (\E l \in Links : ExpireLink(l))
  BY <1>4 DEF Next, RequestStep
<1> QED  BY <1>1, <1>2, <1>3, <1>4

(* The steps after which a request still has to write. *)
GoesOn(r) ==
  \/ \E u \in Users : CheckPassword(r, u) \/ SuspendUser(r, u) \/ ResetPassword(r, u)
  \/ \E t \in Tokens : Authenticate(r, t)
  \/ \E l \in Links : CheckLink(r, l)
  \/ DropExpired(r) \/ VerifyCurrent(r) \/ ChangePassword(r) \/ ConfirmReset(r)

LEMMA Moves ==
  ASSUME Typing, [Next]_vars, NEW r \in Reqs
  PROVE  req'[r] = req[r] \/ GoesOn(r) \/ req'[r].at \in {"idle", "recording"}
<1>1. CASE Logout(r) \/ DropOthers(r) \/ UseLink(r) \/ Record(r) \/ Fail(r)
  BY <1>1, Finished DEF Logout, DropOthers, UseLink, Record, Fail
<1>2. CASE KillSessions(r) \/ \E t \in Tokens : OpenSession(r, t)
  BY <1>2, Advanced DEF KillSessions, OpenSession, To
<1>3. CASE \E u \in Users :
             \/ ReinstateUser(r, u) \/ RemoveUser(r, u)
             \/ \E role \in Roles : InviteUser(r, u, role) \/ SetRole(r, u, role)
  BY <1>3, Advanced DEF ReinstateUser, RemoveUser, InviteUser, SetRole
<1> QED  BY <1>1, <1>2, <1>3, OwnSteps DEF RequestStep, GoesOn

LEMMA KillingMoves ==
  ASSUME Typing, [Next]_vars, NEW r \in Reqs, req[r].at = "killing"
  PROVE  req'[r] = req[r] \/ KillSessions(r) \/ Fail(r)
<1>1. RequestStep(r) => KillSessions(r) \/ Fail(r)
  BY DEF RequestStep, DropExpired, Logout, VerifyCurrent, ChangePassword, DropOthers, ConfirmReset,
     UseLink, Record, OpenSession, Authenticate, CheckLink, CheckPassword, SuspendUser,
     ReinstateUser, ResetPassword, RemoveUser, InviteUser, SetRole, IsSuperAdmin
<1> QED  BY <1>1, OwnSteps

(* What a request holds after each of these steps. *)
LEMMA LoginMoves ==
  ASSUME Typing, NEW r \in Reqs
  PROVE  /\ \A u \in Users : CheckPassword(r, u) =>
              req'[r].at = "checked" /\ req'[r].target = u /\ req'[r].pwd = acct[u].pwd
         /\ DropExpired(r) =>
              req'[r].at = "purged" /\ req'[r].target = req[r].target /\ req'[r].pwd = req[r].pwd
<1>1. ASSUME NEW u \in Users, CheckPassword(r, u)
      PROVE  req'[r].at = "checked" /\ req'[r].target = u /\ req'[r].pwd = acct[u].pwd
  BY <1>1 DEF CheckPassword, Go, NoReq, Typing, TypeOK
<1> QED  BY <1>1, Advanced DEF DropExpired, To

LEMMA OwnMoves ==
  ASSUME Typing, NEW r \in Reqs
  PROVE  /\ \A t \in Tokens : Authenticate(r, t) =>
              /\ req'[r].at = "authed" /\ req'[r].user = sessions[t].user
              /\ req'[r].role = acct[sessions[t].user].role
         /\ VerifyCurrent(r) => req'[r].at = "changing" /\ req'[r].user = req[r].user
         /\ ChangePassword(r) =>
              /\ req'[r].at = "changed" /\ req'[r].user = req[r].user
              /\ req'[r].pwd = IF Exists(req[r].user) THEN acct[req[r].user].pwd + 1 ELSE 0
<1>1. ASSUME NEW t \in Tokens, Authenticate(r, t)
      PROVE  /\ req'[r].at = "authed" /\ req'[r].user = sessions[t].user
             /\ req'[r].role = acct[sessions[t].user].role
  BY <1>1 DEF Authenticate, Go, NoReq, Typing, TypeOK
<1>2. VerifyCurrent(r) => req'[r].at = "changing" /\ req'[r].user = req[r].user
  BY Advanced DEF VerifyCurrent, To
<1>3. ASSUME ChangePassword(r)
      PROVE  /\ req'[r].at = "changed" /\ req'[r].user = req[r].user
             /\ req'[r].pwd = IF Exists(req[r].user) THEN acct[req[r].user].pwd + 1 ELSE 0
  BY <1>3 DEF ChangePassword, Typing, TypeOK, Req
<1> QED  BY <1>1, <1>2, <1>3

LEMMA AdminMoves ==
  ASSUME Typing, NEW r \in Reqs, NEW u \in Users
  PROVE  /\ SuspendUser(r, u) =>
              req'[r].at = "killing" /\ req'[r].target = u /\ req'[r].pwd = acct[u].pwd
         /\ ResetPassword(r, u) =>
              req'[r].at = "killing" /\ req'[r].target = u /\ req'[r].pwd = acct[u].pwd + 1
  BY DEF SuspendUser, ResetPassword, Typing, TypeOK, Req

LEMMA LinkMoves ==
  ASSUME Typing, NEW r \in Reqs
  PROVE  /\ \A l \in Links : CheckLink(r, l) => req'[r].at = "confirming" /\ req'[r].link = l
         /\ ConfirmReset(r) => req'[r].at = "confirmed" /\ req'[r].link = req[r].link
<1>1. ASSUME NEW l \in Links, CheckLink(r, l) PROVE req'[r].at = "confirming" /\ req'[r].link = l
  <2>1. PICK k \in links[l] : Go(r, [NoReq EXCEPT !.at = "confirming", !.link = l,
                                                  !.target = k.user])
    BY <1>1 DEF CheckLink
  <2> QED  BY <2>1 DEF Go, NoReq, Typing, TypeOK
<1> QED  BY <1>1, Advanced DEF ConfirmReset

-----------------------------------------------------------------------------
(***************************************************************************)
(* Super Admins, for any number of requests.  Nobody signs in before the   *)
(* account is verified, so that whoever is let in has an active account;   *)
(* and a Super Admin who is let in stays one until the request has         *)
(* written, as far as others let them.                                     *)
(***************************************************************************)
Awaiting(u) == Exists(u) /\ acct[u].status = "pending_verification"
Verified == /\ \A t \in Tokens : Live(t) => ~Awaiting(sessions[t].user)
            /\ \A r \in Reqs : LoggingIn(r) => ~Awaiting(req[r].target)
CallersAct == \A r \in Reqs : IsSuperAdmin(r) => req[r].user \in ActiveSuperAdmins

LEMMA VerifiedInit == Init => Verified /\ CallersAct
  BY DEF Init, Verified, CallersAct, Live, LoggingIn, IsSuperAdmin, NoReq

(* No statement makes an account wait for verification. *)
LEMMA NoneAwaits ==
  ASSUME Typing, [Next]_vars, NEW u \in Users, Awaiting(u)'
  PROVE  Awaiting(u)
<1>1. Exists(u) => acct[u] \in Account
  BY DEF Exists, Typing, TypeOK
<1>2. ASSUME NEW r \in Reqs, NEW v \in Users, NEW role \in Roles, InviteUser(r, v, role)
      PROVE  Awaiting(u)
  BY <1>2 DEF InviteUser, Awaiting, Exists, Typing, TypeOK
<1>3. ASSUME NEW r \in Reqs, NEW v \in Users, NEW role \in Roles, SetRole(r, v, role)
      PROVE  Awaiting(u)
  BY <1>1, <1>3 DEF SetRole, Awaiting, Exists, Typing, TypeOK, Account
<1>4. ASSUME NEW r \in Reqs, NEW v \in Users, SuspendUser(r, v) PROVE Awaiting(u)
  BY <1>1, <1>4 DEF SuspendUser, Awaiting, Exists, Typing, TypeOK, Account
<1>5. ASSUME NEW r \in Reqs, NEW v \in Users, ReinstateUser(r, v) PROVE Awaiting(u)
  BY <1>1, <1>5 DEF ReinstateUser, Awaiting, Exists, Typing, TypeOK, Account
<1>6. ASSUME NEW r \in Reqs, NEW v \in Users, ResetPassword(r, v) PROVE Awaiting(u)
  BY <1>1, <1>6 DEF ResetPassword, Regenerated, Awaiting, Exists, Typing, TypeOK, Account
<1>7. ASSUME NEW r \in Reqs, NEW v \in Users, RemoveUser(r, v) PROVE Awaiting(u)
  BY <1>7 DEF RemoveUser, Awaiting, Exists, Typing, TypeOK
<1>8. ASSUME NEW r \in Reqs, ChangePassword(r) PROVE Awaiting(u)
  BY <1>1, <1>8 DEF ChangePassword, Update, Awaiting, Exists, Typing, TypeOK, Account
<1>9. ASSUME NEW r \in Reqs, ConfirmReset(r) PROVE Awaiting(u)
  BY <1>1, <1>9 DEF ConfirmReset, Update, Awaiting, Exists, Typing, TypeOK, Account
<1>10. CASE UNCHANGED acct
  BY <1>10 DEF Awaiting, Exists
<1> QED
  BY <1>2, <1>3, <1>4, <1>5, <1>6, <1>7, <1>8, <1>9, <1>10
  DEF Next, vars, CheckPassword, DropExpired, OpenSession, Authenticate, Logout, VerifyCurrent,
      DropOthers, KillSessions, RequestReset, CheckLink, UseLink, Record, Fail, Expire, ExpireLink

(* The purges keep sessions as whose they are. *)
LEMMA PurgedSessions ==
  ASSUME Typing, NEW r \in Reqs, DropOthers(r) \/ KillSessions(r), NEW t \in Tokens, Live(t)'
  PROVE  Live(t) /\ sessions'[t].user = sessions[t].user
<1>1. CASE DropOthers(r)
  <2>1. sessions[t] # NoSession /\ sessions[t] \in Session
    BY <1>1 DEF DropOthers, Live, Typing, TypeOK
  <2>2. \/ sessions'[t] = sessions[t]
        \/ sessions'[t] = [sessions[t] EXCEPT !.proof = Later(sessions[t].proof, req[r].pwd)]
    BY <1>1 DEF DropOthers, Live
  <2> QED  BY <2>1, <2>2 DEF Live, Session
<1>2. CASE KillSessions(r)
  BY <1>2 DEF KillSessions, Drop, Live
<1> QED  BY <1>1, <1>2

LEMMA VerifiedStep == Typing /\ Verified /\ [Next]_vars => Verified'
<1> SUFFICES ASSUME Typing, Verified, [Next]_vars PROVE Verified'
  OBVIOUS
<1>0. \A t \in Tokens : Live(t) => sessions[t].user \in Users
  BY DEF Live, Typing, TypeOK, Session
<1>1. ASSUME NEW t \in Tokens, Live(t)' PROVE ~Awaiting(sessions[t].user)'
  <2>1. CASE Live(t) /\ sessions'[t].user = sessions[t].user
    <3>1. ~Awaiting(sessions[t].user) /\ sessions[t].user \in Users
      BY <1>0, <2>1 DEF Verified
    <3> QED  BY <2>1, <3>1, NoneAwaits DEF Awaiting, Exists
  <2>2. ASSUME NEW r \in Reqs, NEW s \in Tokens, OpenSession(r, s),
               ~(Live(t) /\ sessions'[t].user = sessions[t].user)
        PROVE  ~Awaiting(sessions[t].user)'
    <3>1. s = t
      BY <1>1, <2>2 DEF OpenSession, Live, Typing, TypeOK
    <3>2. sessions'[t].user = req[r].target /\ req[r].target \in Users /\ LoggingIn(r)
      BY <2>2, <3>1 DEF OpenSession, LoggingIn, Typing, TypeOK, RequestsHold, Holds
    <3>3. ~Awaiting(req[r].target)
      BY <3>2 DEF Verified
    <3> QED  BY <3>2, <3>3, NoneAwaits DEF Awaiting, Exists
  <2> QED  BY <1>1, <2>1, <2>2, SessionSteps, PurgedSessions
<1>2. ASSUME NEW r \in Reqs, LoggingIn(r)' PROVE ~Awaiting(req[r].target)'
  <2>1. CASE req'[r] = req[r] \/ DropExpired(r)
    <3>1. LoggingIn(r) /\ req'[r].target = req[r].target
      BY <1>2, <2>1, LoginMoves DEF LoggingIn, DropExpired
    <3>2. req[r].target \in Users /\ ~Awaiting(req[r].target)
      BY <3>1 DEF LoggingIn, Verified, Typing, RequestsHold, Holds
    <3> QED  BY <3>1, <3>2, NoneAwaits DEF Awaiting, Exists
  <2>2. ASSUME NEW u \in Users, CheckPassword(r, u) PROVE ~Awaiting(req[r].target)'
    <3>1. req'[r].target = u /\ ~Awaiting(u)
      BY <2>2, LoginMoves DEF CheckPassword, Awaiting
    <3> QED  BY <3>1, NoneAwaits DEF Awaiting, Exists
  <2>3. GoesOn(r) => DropExpired(r) \/ \E u \in Users : CheckPassword(r, u)
    BY <1>2, OwnMoves, AdminMoves, LinkMoves DEF GoesOn, LoggingIn
  <2> QED  BY <1>2, <2>1, <2>2, <2>3, Moves DEF LoggingIn
<1> QED  BY <1>1, <1>2 DEF Verified

LEMMA CallersActStep ==
  Typing /\ Verified /\ CallersAct /\ [Next /\ CallersStay]_vars => CallersAct'
<1> SUFFICES ASSUME Typing, Verified, CallersAct, [Next /\ CallersStay]_vars,
                    NEW r \in Reqs, IsSuperAdmin(r)'
             PROVE  req'[r].user \in ActiveSuperAdmins'
  BY DEF CallersAct
<1>0. [Next]_vars
  OBVIOUS
<1>1. CASE req'[r] = req[r]
  <2>1. IsSuperAdmin(r) /\ req[r].user \in ActiveSuperAdmins
    BY <1>1 DEF IsSuperAdmin, CallersAct
  <2>2. CASE UNCHANGED vars
    BY <2>1, <2>2 DEF vars, ActiveSuperAdmins, Exists
  <2>3. CASE CallersStay
    BY <1>1, <2>1, <2>3 DEF CallersStay
  <2> QED  BY <1>1, <2>2, <2>3
<1>2. ASSUME NEW t \in Tokens, Authenticate(r, t) PROVE req'[r].user \in ActiveSuperAdmins'
  <2> DEFINE u == sessions[t].user
  <2>1. u \in Users /\ Exists(u) /\ acct[u] \in Account /\ acct[u].status # "suspended"
    BY <1>2 DEF Authenticate, Live, Exists, Typing, TypeOK, Session
  <2>2. ~Awaiting(u)
    BY <1>2 DEF Authenticate, Verified
  <2>3. acct[u].status = "active"
    BY <2>1, <2>2 DEF Awaiting, Account, Statuses
  <2>4. req'[r].user = u /\ acct[u].role = "super_admin"
    BY <1>2, OwnMoves DEF IsSuperAdmin
  <2>5. UNCHANGED acct
    BY <1>2 DEF Authenticate
  <2> QED  BY <2>1, <2>3, <2>4, <2>5 DEF ActiveSuperAdmins, Exists
<1>3. GoesOn(r) => \E t \in Tokens : Authenticate(r, t)
  BY LoginMoves, OwnMoves, AdminMoves, LinkMoves DEF GoesOn, IsSuperAdmin
<1> QED  BY <1>0, <1>1, <1>2, <1>3, Moves DEF IsSuperAdmin

(***************************************************************************)
(* As long as nobody takes role, status or account from a Super Admin      *)
(* whose request has been let in and has not yet written, suspending or    *)
(* removing an account leaves a Super Admin who can act: the caller, who   *)
(* is somebody else (users.py: "You cannot suspend yourself", "You cannot  *)
(* remove yourself").                                                      *)
(***************************************************************************)
THEOREM SuperAdminRemains == Spec /\ [][CallersStay]_vars => ASuperAdminRemains
<1>1. ASSUME Typing, CallersAct, [Next]_vars, NEW u \in Users, Lost(u)
      PROVE  ActiveSuperAdmins' # {}
  <2>1. PICK r \in Reqs : SuspendUser(r, u) \/ RemoveUser(r, u)
    BY <1>1, OnlyTheseLose
  <2>2. req[r].user \in ActiveSuperAdmins /\ req[r].user \in Users /\ req[r].user # u
    BY <1>1, <2>1 DEF SuspendUser, RemoveUser, CallersAct, SomeoneElse, ActiveSuperAdmins
  <2>3. acct'[req[r].user] = acct[req[r].user]
    BY <1>1, <2>1, <2>2 DEF SuspendUser, RemoveUser, Typing, TypeOK
  <2>4. req[r].user \in ActiveSuperAdmins'
    BY <2>2, <2>3 DEF ActiveSuperAdmins, Exists
  <2> QED  BY <2>4
<1>2. Typing /\ CallersAct /\ [Next]_vars =>
        ((\E u \in Users : /\ Exists(u)
                           /\ \/ ~Exists(u)'
                              \/ acct[u].status # "suspended" /\ acct'[u].status = "suspended")
         => ActiveSuperAdmins' # {})
  BY <1>1 DEF Lost
<1>3. Typing /\ Verified /\ CallersAct /\ [Next]_vars /\ [CallersStay]_vars
        => Verified' /\ CallersAct'
  <2>1. [Next]_vars /\ [CallersStay]_vars => [Next /\ CallersStay]_vars
    OBVIOUS
  <2> QED  BY <2>1, VerifiedStep, CallersActStep
<1> QED  BY TypeInit, TypeStep, VerifiedInit, <1>2, <1>3, PTL DEF ASuperAdminRemains, Spec

-----------------------------------------------------------------------------
(***************************************************************************)
(* Old passwords, for any number of requests and with failures.  No purge  *)
(* was for a password the account has not had; the purge that a request    *)
(* still owes will not be either; and what a login has verified is no      *)
(* older than the last purge, as far as others let it.                     *)
(***************************************************************************)
Cutoffs == \A u \in Users : /\ Exists(u) => acct[u].pwd >= cutoff[u]
                            /\ u \notin invited => cutoff[u] = 0
Owes(r, u) ==
  \/ req[r].at = "killing" /\ req[r].target = u
  \/ req[r].at = "changed" /\ req[r].user = u
Owed == \A r \in Reqs, u \in Users :
          Owes(r, u) => u \in invited /\ (Exists(u) => req[r].pwd <= acct[u].pwd)
UsersKnown == \A r \in Reqs :
                req[r].at \in {"authed", "changing"} => req[r].user \in invited
TargetsKnown == \A r \in Reqs : LoggingIn(r) => req[r].target \in invited
LoginsFresh == \A r \in Reqs : LoggingIn(r) => req[r].pwd >= cutoff[req[r].target]

LEMMA OwedInit == Init => Cutoffs /\ Owed /\ UsersKnown /\ TargetsKnown /\ LoginsFresh
<1> SUFFICES ASSUME Init PROVE Cutoffs /\ Owed /\ UsersKnown /\ TargetsKnown /\ LoginsFresh
  OBVIOUS
<1>1. \A u \in Users : cutoff[u] = 0 /\ (Exists(u) => acct[u].pwd \in Nat)
  BY MaxPwdAssumption DEF Init, Exists, Seeds, Account
<1>2. \A r \in Reqs : req[r].at = "idle"
  BY DEF Init, NoReq
<1> QED  BY <1>1, <1>2 DEF Cutoffs, Owed, Owes, UsersKnown, TargetsKnown, LoginsFresh, LoggingIn

LEMMA KnownStep ==
  Typing /\ UsersKnown /\ TargetsKnown /\ [Next]_vars => UsersKnown' /\ TargetsKnown'
<1> SUFFICES ASSUME Typing, UsersKnown, TargetsKnown, [Next]_vars, NEW r \in Reqs
             PROVE  /\ req'[r].at \in {"authed", "changing"} => req'[r].user \in invited'
                    /\ LoggingIn(r)' => req'[r].target \in invited'
  BY DEF UsersKnown, TargetsKnown
<1>0. invited \subseteq invited' /\ \A u \in Users : Exists(u) => u \in invited
  BY IdsKept DEF Typing, TypeOK
<1>1. ASSUME req[r].at \in {"authed", "changing"} PROVE req[r].user \in invited
  BY <1>1 DEF UsersKnown
<1>2. CASE req'[r] = req[r]
  BY <1>0, <1>1, <1>2 DEF TargetsKnown, LoggingIn
<1>3. ASSUME NEW u \in Users, CheckPassword(r, u) PROVE LoggingIn(r)' => req'[r].target \in invited'
  BY <1>0, <1>3, LoginMoves DEF CheckPassword
<1>4. ASSUME DropExpired(r) PROVE LoggingIn(r)' => req'[r].target \in invited'
  BY <1>0, <1>4, LoginMoves DEF DropExpired, TargetsKnown, LoggingIn
<1>5. ASSUME NEW t \in Tokens, Authenticate(r, t) PROVE req'[r].user \in invited'
  <2>1. sessions[t].user \in Users /\ Exists(sessions[t].user)
    BY <1>5 DEF Authenticate, Live, Typing, TypeOK, Session
  <2> QED  BY <1>0, <1>5, <2>1, OwnMoves
<1>6. ASSUME VerifyCurrent(r) PROVE req'[r].user \in invited'
  BY <1>0, <1>1, <1>6, OwnMoves DEF VerifyCurrent
<1>7. ASSUME GoesOn(r),
             ~(\E u \in Users : CheckPassword(r, u)), ~DropExpired(r),
             ~(\E t \in Tokens : Authenticate(r, t)), ~VerifyCurrent(r)
      PROVE  req'[r].at \notin {"authed", "changing", "checked", "purged"}
  BY <1>7, OwnMoves, AdminMoves, LinkMoves DEF GoesOn
<1>8. GoesOn(r) /\ req'[r].at \in {"authed", "changing"} => req'[r].user \in invited'
  BY <1>5, <1>6, <1>7, LoginMoves
<1>9. GoesOn(r) /\ LoggingIn(r)' => req'[r].target \in invited'
  BY <1>3, <1>4, <1>7, OwnMoves DEF LoggingIn
<1> QED  BY <1>2, <1>8, <1>9, Moves DEF LoggingIn

LEMMA PwdTypes ==
  ASSUME Typing
  PROVE  /\ \A r \in Reqs : req[r].pwd \in 0..MaxPwd
         /\ \A u \in Users : /\ cutoff[u] \in 0..MaxPwd
                             /\ Exists(u) => acct[u] \in Account /\ acct[u].pwd \in 0..MaxPwd
         /\ \A t \in Tokens : Live(t) => sessions[t].proof \in 0..MaxPwd /\ sessions[t].user \in Users
         /\ 0..MaxPwd \subseteq Nat
  BY MaxPwdAssumption DEF Typing, TypeOK, Req, Account, Session, Exists, Live

LEMMA OwedStep == Typing /\ UsersKnown /\ Owed /\ [Next]_vars => Owed'
<1> SUFFICES ASSUME Typing, UsersKnown, Owed, [Next]_vars, NEW r \in Reqs, NEW u \in Users,
                    Owes(r, u)'
             PROVE  u \in invited' /\ (Exists(u)' => req'[r].pwd <= acct'[u].pwd)
  BY DEF Owed
<1>0. invited \subseteq invited' /\ \A v \in Users : Exists(v) => v \in invited
  BY IdsKept DEF Typing, TypeOK
<1>t. Typing'
  BY TypeStep
<1>1. CASE req'[r] = req[r]
  <2>1. u \in invited /\ (Exists(u) => req[r].pwd <= acct[u].pwd)
    BY <1>1 DEF Owed, Owes
  <2>2. Exists(u)' => Exists(u) /\ acct'[u].pwd >= acct[u].pwd
    BY <2>1, PasswordsAdvance
  <2>3. Exists(u)' /\ Exists(u) => acct'[u].pwd \in Nat /\ acct[u].pwd \in Nat /\ req[r].pwd \in Nat
    BY <1>t, PwdTypes, MaxPwdAssumption DEF Typing, TypeOK, Exists, Account
  <2> QED  BY <1>0, <1>1, <2>1, <2>2, <2>3
<1>2. ASSUME NEW v \in Users, SuspendUser(r, v)
      PROVE  u \in invited' /\ (Exists(u)' => req'[r].pwd <= acct'[u].pwd)
  <2>0. req'[r].at = "killing" /\ req'[r].target = v /\ req'[r].pwd = acct[v].pwd
    BY <1>2, AdminMoves
  <2>1. v = u /\ Exists(u) /\ req'[r].pwd = acct[u].pwd
    BY <1>2, <2>0 DEF Owes, SuspendUser
  <2>2. acct'[u].pwd = acct[u].pwd /\ acct[u].pwd \in Nat
    BY <1>2, <2>1, PwdTypes DEF SuspendUser, Typing, TypeOK, Account
  <2> QED  BY <1>0, <2>1, <2>2
<1>3. ASSUME NEW v \in Users, ResetPassword(r, v)
      PROVE  u \in invited' /\ (Exists(u)' => req'[r].pwd <= acct'[u].pwd)
  <2>0. req'[r].at = "killing" /\ req'[r].target = v /\ req'[r].pwd = acct[v].pwd + 1
    BY <1>3, AdminMoves
  <2>1. v = u /\ Exists(u) /\ req'[r].pwd = acct[u].pwd + 1
    BY <1>3, <2>0 DEF Owes, ResetPassword
  <2>2. acct'[u].pwd = acct[u].pwd + 1 /\ acct[u].pwd \in Nat
    BY <1>3, <2>1, PwdTypes DEF ResetPassword, Regenerated, Typing, TypeOK, Account
  <2> QED  BY <1>0, <2>1, <2>2
<1>4. ASSUME ChangePassword(r)
      PROVE  u \in invited' /\ (Exists(u)' => req'[r].pwd <= acct'[u].pwd)
  <2>1. req[r].user = u /\ u \in invited
    BY <1>0, <1>4, OwnMoves DEF ChangePassword, UsersKnown, Owes
  <2>2. CASE Exists(u)
    <3>1. req'[r].pwd = acct[u].pwd + 1 /\ acct[u].pwd \in Nat
      BY <1>4, <2>1, <2>2, OwnMoves, PwdTypes
    <3>2. acct'[u].pwd = acct[u].pwd + 1
      BY <1>4, <2>1, <2>2, PwdTypes DEF ChangePassword, Update, Typing, TypeOK, Account
    <3> QED  BY <1>0, <2>1, <3>1, <3>2
  <2>3. CASE ~Exists(u)
    BY <1>0, <1>4, <2>1, <2>3 DEF ChangePassword, Update, Exists
  <2> QED  BY <2>2, <2>3
<1>5. GoesOn(r) => \/ \E v \in Users : SuspendUser(r, v) \/ ResetPassword(r, v)
                   \/ ChangePassword(r)
  BY LoginMoves, OwnMoves, LinkMoves DEF GoesOn, Owes
<1> QED  BY <1>1, <1>2, <1>3, <1>4, <1>5, Moves DEF Owes

(* The two statements that purge: whose sessions, and for which password.  *)
LEMMA Purges ==
  ASSUME Typing, NEW r \in Reqs, DropOthers(r) \/ KillSessions(r)
  PROVE  \E u \in Users : /\ Owes(r, u)
                          /\ Purged(u, req[r].pwd)
                          /\ UNCHANGED <<acct, invited>>
                          /\ \A t \in Tokens : Live(t)' =>
                               IF sessions[t].user = u
                                 THEN sessions'[t].proof = Later(sessions[t].proof, req[r].pwd)
                                 ELSE sessions'[t].proof >= sessions[t].proof
<1>1. CASE DropOthers(r)
  <2> DEFINE u == req[r].user
             p == req[r].token
  <2>1. u \in Users /\ Owes(r, u) /\ Purged(u, req[r].pwd) /\ UNCHANGED <<acct, invited>>
    BY <1>1 DEF DropOthers, Owes, Typing, RequestsHold, Holds
  <2>2. ASSUME NEW t \in Tokens, Live(t)'
        PROVE  IF sessions[t].user = u
                 THEN sessions'[t].proof = Later(sessions[t].proof, req[r].pwd)
                 ELSE sessions'[t].proof >= sessions[t].proof
    <3>0. t \notin Others(r) /\ Live(t) /\ sessions[t] \in Session
      BY <1>1, <2>2, PurgedSessions DEF DropOthers, Live, Typing, TypeOK
    <3>1. sessions[t].proof \in 0..MaxPwd /\ req[r].pwd \in 0..MaxPwd /\ 0..MaxPwd \subseteq Nat
      BY <3>0, PwdTypes
    <3>2. CASE t = p
      <4>1. sessions'[t] = [sessions[t] EXCEPT !.proof = Later(sessions[t].proof, req[r].pwd)]
        BY <1>1, <3>0, <3>2 DEF DropOthers
      <4>2. sessions'[t].proof = Later(sessions[t].proof, req[r].pwd)
        BY <3>0, <4>1 DEF Session
      <4> QED  BY <3>1, <4>2, LaterIsLater
    <3>3. CASE t # p
      <4>1. sessions'[t] = sessions[t]
        BY <1>1, <3>0, <3>3 DEF DropOthers
      <4>2. sessions[t].user # u
        BY <3>0, <3>3 DEF Others, SessionsOf
      <4> QED  BY <3>1, <4>1, <4>2
    <3> QED  BY <3>2, <3>3
  <2> QED  BY <2>1, <2>2
<1>2. CASE KillSessions(r)
  <2>1. \A t \in Tokens : Live(t)' => /\ sessions'[t] = sessions[t] /\ sessions[t].user # req[r].target
                                      /\ sessions[t].proof \in Nat
    BY <1>2, PwdTypes DEF KillSessions, Drop, SessionsOf, Live
  <2>2. /\ req[r].target \in Users /\ Owes(r, req[r].target)
        /\ Purged(req[r].target, req[r].pwd) /\ UNCHANGED <<acct, invited>>
    BY <1>2 DEF KillSessions, Owes, Typing, RequestsHold, Holds
  <2> QED  BY <2>1, <2>2
<1> QED  BY <1>1, <1>2

LEMMA CutoffsStep == Typing /\ Owed /\ Cutoffs /\ [Next]_vars => Cutoffs'
<1> SUFFICES ASSUME Typing, Owed, Cutoffs, [Next]_vars, NEW u \in Users
             PROVE  /\ Exists(u)' => acct'[u].pwd >= cutoff'[u]
                    /\ u \notin invited' => cutoff'[u] = 0
  BY DEF Cutoffs
<1>0. /\ Exists(u) => acct[u].pwd \in Nat
      /\ Exists(u)' => acct'[u].pwd \in Nat
      /\ cutoff[u] \in Nat /\ cutoff'[u] \in Nat
  BY TypeStep, MaxPwdAssumption DEF Exists, Typing, TypeOK, Account
<1>1. CASE UNCHANGED cutoff
  <2>1. u \notin invited' => u \notin invited
    BY IdsKept
  <2>2. Exists(u)' => \/ Exists(u) /\ acct'[u].pwd >= acct[u].pwd
                      \/ u \notin invited
    BY PasswordsAdvance
  <2> QED  BY <1>0, <1>1, <2>1, <2>2 DEF Cutoffs
<1>2. CASE \E r \in Reqs : DropOthers(r) \/ KillSessions(r)
  <2>1. PICK r \in Reqs, v \in Users : Owes(r, v) /\ Purged(v, req[r].pwd) /\ UNCHANGED <<acct, invited>>
    BY <1>2, Purges
  <2>2. v \in invited /\ (Exists(v) => req[r].pwd <= acct[v].pwd)
    BY <2>1 DEF Owed
  <2>3. CASE u = v
    <3>1. cutoff'[u] = Later(cutoff[u], req[r].pwd)
      BY <2>1, <2>3 DEF Purged, Typing, TypeOK
    <3>2. cutoff'[u] = cutoff[u] \/ cutoff'[u] = req[r].pwd
      BY <3>1, PwdTypes, LaterIsLater
    <3> QED  BY <2>1, <2>2, <2>3, <3>2 DEF Cutoffs, Exists
  <2>4. CASE u # v
    <3>1. cutoff'[u] = cutoff[u]
      BY <2>1, <2>4 DEF Purged, Typing, TypeOK
    <3> QED  BY <2>1, <3>1 DEF Cutoffs, Exists
  <2> QED  BY <2>3, <2>4
<1> QED  BY <1>1, <1>2, CutoffSteps

LEMMA LoginsFreshStep ==
  Typing /\ Cutoffs /\ LoginsFresh /\ [Next /\ NoLaterPurge]_vars => LoginsFresh'
<1> SUFFICES ASSUME Typing, Cutoffs, LoginsFresh, [Next /\ NoLaterPurge]_vars, NEW r \in Reqs,
                    LoggingIn(r)'
             PROVE  req'[r].pwd >= cutoff'[req'[r].target]
  BY DEF LoginsFresh
<1>0. [Next]_vars
  OBVIOUS
<1>1. CASE req'[r] = req[r]
  <2> DEFINE u == req[r].target
  <2>1. LoggingIn(r) /\ req[r].pwd >= cutoff[u] /\ u \in Users
    BY <1>1 DEF LoggingIn, LoginsFresh, Typing, RequestsHold, Holds
  <2>2. CASE UNCHANGED cutoff
    BY <1>1, <2>1, <2>2
  <2>3. ASSUME NEW q \in Reqs, DropOthers(q) \/ KillSessions(q), cutoff' # cutoff
        PROVE  req[r].pwd >= cutoff'[u]
    <3>1. NoLaterPurge
      BY <2>3 DEF vars
    <3>2. PICK v \in Users : Owes(q, v) /\ Purged(v, req[q].pwd)
      BY <2>3, Purges
    <3>3. CASE v = u
      <4>1. req[q].pwd <= req[r].pwd
        BY <2>1, <2>3, <3>1, <3>2, <3>3 DEF NoLaterPurge, Owes, DropOthers, KillSessions
      <4>2. cutoff'[u] = cutoff[u] \/ cutoff'[u] = req[q].pwd
        <5>1. cutoff'[u] = Later(cutoff[u], req[q].pwd)
          BY <2>1, <3>2, <3>3 DEF Purged, Typing, TypeOK
        <5> QED  BY <2>1, <5>1, PwdTypes, LaterIsLater
      <4>3. req[q].pwd \in Nat /\ req[r].pwd \in Nat
        BY PwdTypes
      <4> QED  BY <2>1, <4>1, <4>2, <4>3
    <3>4. CASE v # u
      BY <2>1, <3>2, <3>4 DEF Purged, Typing, TypeOK
    <3> QED  BY <3>3, <3>4
  <2> QED  BY <1>0, <1>1, <2>2, <2>3, CutoffSteps
<1>2. ASSUME NEW u \in Users, CheckPassword(r, u) PROVE req'[r].pwd >= cutoff'[req'[r].target]
  BY <1>2, LoginMoves DEF CheckPassword, Cutoffs
<1>3. ASSUME DropExpired(r) PROVE req'[r].pwd >= cutoff'[req'[r].target]
  BY <1>3, LoginMoves DEF DropExpired, LoggingIn, LoginsFresh
<1>4. GoesOn(r) => DropExpired(r) \/ \E u \in Users : CheckPassword(r, u)
  BY OwnMoves, AdminMoves, LinkMoves DEF GoesOn, LoggingIn
<1> QED  BY <1>0, <1>1, <1>2, <1>3, <1>4, Moves DEF LoggingIn

(***************************************************************************)
(* As long as no purge for a newer password falls between the verification *)
(* of a login and its session, no session rests on a password older than   *)
(* any that its account's sessions were purged for (users.py: "so the old  *)
(* password can't keep a session open"), for any number of requests, and   *)
(* with failures: a reset or a change that is cut off has purged nothing.  *)
(***************************************************************************)
THEOREM OldPasswordsKeepNoSession ==
  Spec /\ [][NoLaterPurge]_vars => []OldPasswordKeepsNoSession
<1>1. Init => OldPasswordKeepsNoSession
  BY DEF Init, OldPasswordKeepsNoSession, Live
<1>2. Typing /\ LoginsFresh /\ OldPasswordKeepsNoSession /\ [Next]_vars => OldPasswordKeepsNoSession'
  <2> SUFFICES ASSUME Typing, LoginsFresh, OldPasswordKeepsNoSession, [Next]_vars,
                      NEW t \in Tokens, Live(t)'
               PROVE  sessions'[t].proof >= cutoff'[sessions'[t].user]
    BY DEF OldPasswordKeepsNoSession
  <2>1. ASSUME NEW r \in Reqs, NEW s \in Tokens, OpenSession(r, s)
        PROVE  sessions'[t].proof >= cutoff'[sessions'[t].user]
    <3>1. CASE s = t
      <4>1. sessions'[t].proof = req[r].pwd /\ sessions'[t].user = req[r].target
        BY <2>1, <3>1 DEF OpenSession, Typing, TypeOK
      <4> QED  BY <2>1, <4>1 DEF OpenSession, LoginsFresh, LoggingIn
    <3>2. CASE s # t
      <4>1. sessions'[t] = sessions[t] /\ UNCHANGED cutoff /\ Live(t)
        BY <2>1, <3>2 DEF OpenSession, Live, Typing, TypeOK
      <4> QED  BY <4>1 DEF OldPasswordKeepsNoSession
    <3> QED  BY <3>1, <3>2
  <2>2. ASSUME NEW r \in Reqs, DropOthers(r) \/ KillSessions(r)
        PROVE  sessions'[t].proof >= cutoff'[sessions'[t].user]
    <3> DEFINE w == sessions[t].user
    <3>1. PICK u \in Users : /\ Purged(u, req[r].pwd)
                             /\ IF w = u
                                  THEN sessions'[t].proof = Later(sessions[t].proof, req[r].pwd)
                                  ELSE sessions'[t].proof >= sessions[t].proof
      BY <2>2, Purges
    <3>2. Live(t) /\ sessions'[t].user = w
      BY <2>2, PurgedSessions
    <3>3. /\ sessions[t].proof \in 0..MaxPwd /\ cutoff[w] \in 0..MaxPwd /\ w \in Users
          /\ req[r].pwd \in 0..MaxPwd /\ 0..MaxPwd \subseteq Nat
      BY <3>2, PwdTypes
    <3>4. sessions[t].proof >= cutoff[w]
      BY <3>2 DEF OldPasswordKeepsNoSession
    <3>5. CASE w = u
      <4>1. cutoff'[w] = Later(cutoff[w], req[r].pwd)
        BY <3>1, <3>3, <3>5 DEF Purged, Typing, TypeOK
      <4>2. /\ sessions'[t].proof \in Nat /\ cutoff'[w] \in Nat
            /\ sessions'[t].proof >= sessions[t].proof /\ sessions'[t].proof >= req[r].pwd
            /\ cutoff'[w] = cutoff[w] \/ cutoff'[w] = req[r].pwd
        BY <3>1, <3>3, <3>5, <4>1, LaterIsLater
      <4> QED  BY <3>2, <3>3, <3>4, <4>2
    <3>6. CASE w # u
      <4>1. cutoff'[w] = cutoff[w]
        BY <3>1, <3>3, <3>6 DEF Purged, Typing, TypeOK
      <4>2. Typing'
        BY TypeStep
      <4>3. sessions'[t].proof \in Nat
        BY <4>2, MaxPwdAssumption DEF Typing, TypeOK, Session, Live
      <4> QED  BY <3>1, <3>2, <3>3, <3>4, <3>6, <4>1, <4>3
    <3> QED  BY <3>5, <3>6
  <2>3. CASE /\ UNCHANGED cutoff
             /\ \A s \in Tokens : Live(s)' => /\ Live(s)
                                              /\ sessions'[s].user = sessions[s].user
                                              /\ sessions'[s].proof = sessions[s].proof
    BY <2>3 DEF OldPasswordKeepsNoSession
  <2> QED  BY <2>1, <2>2, <2>3, SessionSteps
<1>3. Typing /\ UsersKnown /\ TargetsKnown /\ Owed /\ Cutoffs /\ LoginsFresh
        /\ [Next]_vars /\ [NoLaterPurge]_vars
        => UsersKnown' /\ TargetsKnown' /\ Owed' /\ Cutoffs' /\ LoginsFresh'
  <2>1. [Next]_vars /\ [NoLaterPurge]_vars => [Next /\ NoLaterPurge]_vars
    OBVIOUS
  <2> QED  BY <2>1, KnownStep, OwedStep, CutoffsStep, LoginsFreshStep
<1> QED  BY TypeInit, TypeStep, OwedInit, <1>1, <1>2, <1>3, PTL DEF Spec

-----------------------------------------------------------------------------
(***************************************************************************)
(* Suspended accounts, for any number of requests.  A login that has       *)
(* verified an account which is suspended by now meets a suspension that   *)
(* has yet to purge, as far as others let it.                              *)
(***************************************************************************)
LoginsWatched ==
  \A r \in Reqs : /\ LoggingIn(r)
                  /\ Exists(req[r].target) /\ acct[req[r].target].status = "suspended"
                 => BeingSuspended(req[r].target)

(* A suspended account has been one, or is just being suspended.           *)
LEMMA Suspensions ==
  ASSUME Typing, [Next]_vars, NEW u \in Users, Exists(u)', acct'[u].status = "suspended"
  PROVE  (Exists(u) /\ acct[u].status = "suspended") \/ BeingSuspended(u)'
<1>1. ASSUME Lost(u) PROVE BeingSuspended(u)'
  <2>1. PICK r \in Reqs : SuspendUser(r, u) \/ RemoveUser(r, u)
    BY <1>1, OnlyTheseLose
  <2>2. ~RemoveUser(r, u)
    BY DEF RemoveUser, Exists, Typing, TypeOK
  <2> QED  BY <2>1, <2>2, AdminMoves DEF BeingSuspended
<1> QED  BY <1>1, OnlyInvited DEF Lost

LEMMA LoginsWatchedStep ==
  Typing /\ TargetsKnown /\ LoginsWatched /\ [Next /\ NoKillInLogin /\ PurgesRun]_vars
    => LoginsWatched'
<1> SUFFICES ASSUME Typing, TargetsKnown, LoginsWatched, [Next /\ NoKillInLogin /\ PurgesRun]_vars,
                    NEW r \in Reqs, LoggingIn(r)',
                    Exists(req[r].target)', acct'[req'[r].target].status = "suspended",
                    ~BeingSuspended(req[r].target)'
             PROVE  FALSE
  BY DEF LoginsWatched
<1>0. [Next]_vars
  OBVIOUS
<1>1. CASE req'[r] = req[r]
  <2> DEFINE u == req[r].target
  <2>0. LoggingIn(r) /\ u \in Users
    BY <1>1 DEF LoggingIn, Typing, RequestsHold, Holds
  <2>1. Exists(u) /\ acct[u].status = "suspended"
    BY <1>0, <1>1, <2>0, Suspensions DEF Exists, BeingSuspended
  <2>2. PICK q \in Reqs : req[q].at = "killing" /\ req[q].target = u
    BY <2>0, <2>1 DEF LoginsWatched, BeingSuspended
  <2>3. req'[q] # req[q]
    BY <1>1, <2>2 DEF BeingSuspended
  <2>4. NoKillInLogin /\ PurgesRun
    BY <2>3 DEF vars
  <2>5. KillSessions(q)
    BY <1>0, <2>2, <2>3, <2>4, KillingMoves DEF PurgesRun
  <2> QED  BY <2>0, <2>1, <2>2, <2>4, <2>5 DEF NoKillInLogin
<1>2. ASSUME NEW u \in Users, CheckPassword(r, u) PROVE FALSE
  BY <1>2, LoginMoves DEF CheckPassword
<1>3. ASSUME DropExpired(r) PROVE FALSE
  <2>1. LoggingIn(r) /\ req'[r].target = req[r].target /\ UNCHANGED acct
    BY <1>3, LoginMoves DEF DropExpired, LoggingIn
  <2>2. PICK q \in Reqs : req[q].at = "killing" /\ req[q].target = req[r].target
    BY <2>1 DEF LoginsWatched, BeingSuspended, Exists
  <2>3. q # r
    BY <2>1, <2>2 DEF LoggingIn
  <2>4. req'[q] = req[q]
    BY <1>3, <2>3 DEF DropExpired, Typing, TypeOK
  <2> QED  BY <2>1, <2>2, <2>4 DEF BeingSuspended
<1>4. GoesOn(r) => DropExpired(r) \/ \E u \in Users : CheckPassword(r, u)
  BY OwnMoves, AdminMoves, LinkMoves DEF GoesOn, LoggingIn
<1> QED  BY <1>0, <1>1, <1>2, <1>3, <1>4, Moves DEF LoggingIn

(***************************************************************************)
(* As long as no login is under way when a suspension purges, and no purge *)
(* is cut off, a suspended account has no session once its suspension has  *)
(* run (users.py: "Kill their live sessions immediately").  A login that   *)
(* meets only the UPDATE of the suspension does no harm: its session is    *)
(* there when the purge runs.                                              *)
(***************************************************************************)
THEOREM SuspendedHaveNoSession ==
  Spec /\ [][NoKillInLogin /\ PurgesRun]_vars => []SuspendedHasNoSession
<1>1. Init => SuspendedHasNoSession /\ LoginsWatched
  BY DEF Init, SuspendedHasNoSession, SessionsOf, Live, LoginsWatched, LoggingIn, NoReq
<1>2. Typing /\ LoginsWatched /\ SuspendedHasNoSession /\ [Next /\ NoKillInLogin /\ PurgesRun]_vars
        => SuspendedHasNoSession'
  <2> SUFFICES ASSUME Typing, LoginsWatched, SuspendedHasNoSession,
                      [Next /\ NoKillInLogin /\ PurgesRun]_vars, NEW u \in Users,
                      Exists(u)', acct'[u].status = "suspended", ~BeingSuspended(u)'
               PROVE  SessionsOf(u)' = {}
    BY DEF SuspendedHasNoSession
  <2>0. [Next]_vars
    OBVIOUS
  <2>1. Exists(u) /\ acct[u].status = "suspended"
    BY <2>0, Suspensions
  <2>2. CASE BeingSuspended(u)
    <3>1. PICK r \in Reqs : req[r].at = "killing" /\ req[r].target = u
      BY <2>2 DEF BeingSuspended
    <3>2. req'[r] # req[r]
      BY <3>1 DEF BeingSuspended
    <3>3. PurgesRun
      BY <3>2 DEF vars
    <3>4. KillSessions(r)
      BY <2>0, <3>1, <3>2, <3>3, KillingMoves DEF PurgesRun
    <3> QED  BY <3>1, <3>4 DEF KillSessions, Drop, SessionsOf, Live
  <2>3. CASE ~BeingSuspended(u)
    <3>1. \A t \in Tokens : ~(Live(t) /\ sessions[t].user = u)
      BY <2>1, <2>3 DEF SuspendedHasNoSession, SessionsOf
    <3>2. ASSUME NEW r \in Reqs, NEW t \in Tokens, OpenSession(r, t) PROVE SessionsOf(u)' = {}
      <4>1. req[r].target # u
        BY <2>1, <2>3, <3>2 DEF OpenSession, LoginsWatched, LoggingIn
      <4> QED  BY <3>1, <3>2, <4>1 DEF OpenSession, SessionsOf, Live, Typing, TypeOK
    <3>3. ASSUME NEW r \in Reqs, DropOthers(r) \/ KillSessions(r) PROVE SessionsOf(u)' = {}
      <4>1. \A t \in Tokens : Live(t)' => Live(t) /\ sessions'[t].user = sessions[t].user
        BY <3>3, PurgedSessions
      <4> QED  BY <3>1, <4>1 DEF SessionsOf
    <3>4. CASE \A t \in Tokens : Live(t)' => Live(t) /\ sessions'[t].user = sessions[t].user
      BY <3>1, <3>4 DEF SessionsOf
    <3> QED  BY <2>0, <3>2, <3>3, <3>4, SessionSteps
  <2> QED  BY <2>2, <2>3
<1>3. Typing /\ UsersKnown /\ TargetsKnown /\ LoginsWatched /\ SuspendedHasNoSession
        /\ [Next]_vars /\ [NoKillInLogin /\ PurgesRun]_vars
        => UsersKnown' /\ TargetsKnown' /\ LoginsWatched' /\ SuspendedHasNoSession'
  <2>1. [Next]_vars /\ [NoKillInLogin /\ PurgesRun]_vars => [Next /\ NoKillInLogin /\ PurgesRun]_vars
    OBVIOUS
  <2> QED  BY <2>1, <1>2, KnownStep, LoginsWatchedStep
<1> QED  BY TypeInit, TypeStep, OwedInit, <1>1, <1>3, PTL DEF Spec

-----------------------------------------------------------------------------
(***************************************************************************)
(* The specification of the sessions run, whose steps are restricted as    *)
(* the theorems above ask, has all three properties of sessions and users. *)
(***************************************************************************)
THEOREM UndisturbedSessionsAreRight ==
  SessionsSpec => /\ []OldPasswordKeepsNoSession
                  /\ []SuspendedHasNoSession
                  /\ ASuperAdminRemains
<1>1. [SessionsNext]_vars =>
        [Next]_vars /\ [NoLaterPurge]_vars /\ [NoKillInLogin /\ PurgesRun]_vars /\ [CallersStay]_vars
  BY DEF SessionsNext
<1>2. SessionsSpec => Spec /\ [][NoLaterPurge]_vars /\ [][NoKillInLogin /\ PurgesRun]_vars
                           /\ [][CallersStay]_vars
  BY <1>1, PTL DEF SessionsSpec, Spec
<1> QED  BY <1>2, OldPasswordsKeepNoSession, SuspendedHaveNoSession, SuperAdminRemains

(* Requests one after another. *)
Alone == \A r, q \in Reqs : r = q

LEMMA AloneSteps ==
  ASSUME Alone, ~CanFail, Typing, Next
  PROVE  SessionsNext /\ LinksNext
<1>a. \A r, q \in Reqs : r = q
  BY DEF Alone
<1>1. NoLaterPurge /\ NoKillInLogin
  BY <1>a DEF NoLaterPurge, NoKillInLogin, LoggingIn, KillSessions, DropOthers
<1>2. PurgesRun /\ MarksRun
  BY DEF PurgesRun, MarksRun, Fail
<1>3. LinkHeldOnce'
  BY <1>a DEF LinkHeldOnce
<1>4. ASSUME NEW r \in Reqs, IsSuperAdmin(r), req'[r] = req[r], req[r].user \in ActiveSuperAdmins
      PROVE  req[r].user \in ActiveSuperAdmins'
  <2>1. ~RequestStep(r)
    <3>1. req[r].at = "authed" /\ req'[r].at = "authed"
      BY <1>4 DEF IsSuperAdmin
    <3>2. ~(\E u \in Users, role \in Roles : InviteUser(r, u, role) \/ SetRole(r, u, role))
          /\ ~(\E u \in Users : ReinstateUser(r, u) \/ RemoveUser(r, u))
      BY <3>1, Advanced DEF InviteUser, SetRole, ReinstateUser, RemoveUser
    <3>3. ~(\E u \in Users : SuspendUser(r, u) \/ ResetPassword(r, u)) /\ ~VerifyCurrent(r)
      BY <3>1, AdminMoves, OwnMoves
    <3>4. ~Logout(r) /\ ~Fail(r)
      BY <3>1, Finished DEF Logout, Fail
    <3> QED  BY <3>1, <3>2, <3>3, <3>4
             DEF RequestStep, DropExpired, ChangePassword, DropOthers, KillSessions, ConfirmReset,
                 UseLink, Record, OpenSession, Authenticate, CheckLink, CheckPassword
  <2>2. \/ \E l \in Links, u \in Users : RequestReset(r, u, l)
        \/ (\E t \in Tokens : Expire(t)) \/ (\E l \in Links : ExpireLink(l))
    BY <1>a, <2>1 DEF Next, RequestStep
  <2>3. UNCHANGED acct
    BY <2>2 DEF RequestReset, Expire, ExpireLink
  <2> QED  BY <1>4, <2>3 DEF ActiveSuperAdmins, Exists
<1>5. CallersStay
  BY <1>4 DEF CallersStay
<1> QED  BY <1>1, <1>2, <1>3, <1>5 DEF SessionsNext, LinksNext

(***************************************************************************)
(* Requests one after another, none of which is cut off between two        *)
(* statements, meet none of what the theorems above keep out: the handlers *)
(* of auth.py and users.py are right by themselves.                        *)
(***************************************************************************)
THEOREM AloneIsUndisturbed == ASSUME Alone, ~CanFail PROVE Spec => SessionsSpec /\ LinksSpec
<1>1. Typing /\ [Next]_vars => [SessionsNext]_vars /\ [LinksNext]_vars
  BY AloneSteps
<1> QED  BY <1>1, TypeInit, TypeStep, PTL DEF Spec, SessionsSpec, LinksSpec

================================================================================
