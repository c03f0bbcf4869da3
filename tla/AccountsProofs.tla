---------------------------- MODULE AccountsProofs ----------------------------
(***************************************************************************)
(* Proofs about Accounts, for any number of accounts and requests and any  *)
(* mapping of roles: what it takes to lose the last administrator, what a  *)
(* disabled account still holds, and who enables one.                      *)
(***************************************************************************)
EXTENDS Accounts, TLAPS

-----------------------------------------------------------------------------
(* The inductive invariant *)

SignIns == {"login", "sso"}

\* What a request has read, as far as it still counts: a sign-in that was not overtaken by
\* a revocation has not read an account as active whose disabling has ended; whoever is
\* about to write a row knows that it exists, and writes no row away.
CallOK(k) ==
    /\ k.op \in SignIns /\ ~k.late /\ ended[k.user] => k.before.status # "active"
    /\ k.pc \in {"hash", "issue", "role"} => k.op \in SignIns /\ k.before.status = "active"
    /\ k.pc \in {"link", "provision", "identity", "claim"} => k.op = "sso"
    /\ k.pc \in {"write", "revoke"} => k.op = "save"
    /\ k.pc = "write" => k.after.status # "none"
    /\ k.pc \in {"write", "revoke", "hash", "link", "identity", "claim", "role"} => Exists(k.user)

LinkedExist == \A u \in Users : linked[u] => Exists(u)

\* A disabling that ran to its end: the row says so still, and no session is left.
EndedOK == \A u \in Users : ended[u] => ~Active(u) /\ Exists(u) /\ "live" \notin sess[u]

IInv ==
    /\ TypeOK
    /\ AdminsLostOnlyByUnguardedWrite
    /\ LinkedExist /\ EndedOK
    /\ \A c \in Calls : CallOK(call[c])

-----------------------------------------------------------------------------
(* Requests *)

LEMMA IdleType ==
    Idle \in CallStates /\ Idle.op = "none" /\ Idle.pc = "idle" /\ ~Idle.late /\ Idle.user = First
BY AccountsAssumption DEF Idle, CallStates, Rows, NoRow, Roles, Statuses

LEMMA IdleOK == CallOK(Idle)
BY IdleType DEF CallOK, SignIns

\* A step that leaves the account rows and the history alone.
LEMMA CallStep ==
    ASSUME IInv, UNCHANGED <<row, cause, ended>>, NEW c \in Calls, NEW n \in CallStates,
           CallOK(n), call' = [call EXCEPT ![c] = n], begun' \in 0..MaxCall,
           linked' \in [Users -> BOOLEAN], \A u \in Users : linked'[u] => Exists(u),
           sess' \in [Users -> SUBSET {"live", "late"}],
           \A u \in Users : ended[u] => "live" \notin sess'[u]
    PROVE  IInv'
<1>1. TypeOK'
  BY DEF IInv, TypeOK
<1>2. \A d \in Calls : CallOK(call'[d])
  BY DEF IInv, TypeOK
<1>3. \A d \in Calls : CallOK(call[d])'
  BY <1>2 DEF CallOK, Exists
<1> QED
  BY <1>1, <1>3 DEF IInv, AdminsLostOnlyByUnguardedWrite, Admins, LinkedExist, EndedOK, Exists, Active

\* A request begins.
LEMMA BeginStep ==
    ASSUME IInv, NEW c \in Calls, NEW n \in CallStates, CallOK(n), Begin(c, n),
           UNCHANGED <<row, linked, sess, cause, ended>>
    PROVE  IInv'
<1>1. begun' \in 0..MaxCall
  BY AccountsAssumption DEF Begin, IInv, TypeOK
<1> QED
  BY <1>1, CallStep DEF Begin, IInv, TypeOK, LinkedExist, EndedOK

\* A request goes on or returns.
LEMMA HoldStep ==
    ASSUME IInv, NEW c \in Calls, NEW n \in CallStates, CallOK(n), Hold(c, n),
           UNCHANGED <<row, linked, sess, cause, ended>>
    PROVE  IInv'
<1>1. begun' \in 0..MaxCall
  BY DEF Hold, IInv, TypeOK
<1> QED
  BY <1>1, CallStep DEF Hold, IInv, TypeOK, LinkedExist, EndedOK

\* Users.Update: the row written exists before and after, and an account that is active
\* afterwards counts as disabled no more.
LEMMA UpdateStep ==
    ASSUME IInv, NEW c \in Calls, NEW n \in CallStates, NEW r \in Rows, NEW why \in SUBSET {"mapped"},
           Update(call[c], r, why), Hold(c, n), UNCHANGED <<linked, sess>>,
           Exists(call[c].user), r.status # "none", CallOK(n)',
           AdminsLostOnlyByUnguardedWrite'
    PROVE  IInv'
<1> DEFINE u == call[c].user
<1>1. u \in Users /\ call[c] \in CallStates
  BY DEF IInv, TypeOK, CallStates
<1>2. /\ row' = [row EXCEPT ![u] = r] /\ row' \in [Users -> Rows]
      /\ ended' = [ended EXCEPT ![u] = ended[u] /\ r.status # "active"]
      /\ ended' \in [Users -> BOOLEAN]
      /\ call' = [call EXCEPT ![c] = n] /\ begun' = begun
  BY <1>1 DEF Update, Hold, IInv, TypeOK
<1>3. cause' \subseteq {"mapped", "outdated"}
  BY DEF Update, IInv, TypeOK
<1>4. TypeOK'
  BY <1>2, <1>3 DEF IInv, TypeOK
<1>5. \A v \in Users : (Exists(v) => Exists(v)') /\ (ended'[v] => ended[v])
  BY <1>1, <1>2 DEF Exists, IInv, TypeOK
<1>6. \A d \in Calls : call[d].user \in Users
  BY DEF IInv, TypeOK, CallStates
<1>7. \A d \in Calls : CallOK(call[d])'
  <2> SUFFICES ASSUME NEW d \in Calls PROVE CallOK(call[d])'
    OBVIOUS
  <2>1. CASE d = c
    BY <1>2, <2>1 DEF CallOK, Exists, IInv, TypeOK
  <2>2. CASE d # c
    <3>1. call'[d] = call[d] /\ CallOK(call[d])
      BY <1>2, <2>2 DEF IInv, TypeOK
    <3> QED
      BY <3>1, <1>5, <1>6 DEF CallOK
  <2> QED
    BY <2>1, <2>2
<1>8. EndedOK'
  <2> SUFFICES ASSUME NEW v \in Users, ended'[v]
               PROVE  ~Active(v)' /\ Exists(v)' /\ "live" \notin sess'[v]
    BY DEF EndedOK
  <2>1. ended[v] /\ ~Active(v) /\ Exists(v)' /\ "live" \notin sess[v]
    BY <1>5 DEF IInv, EndedOK
  <2>2. ~Active(v)'
    BY <2>1, <1>1, <1>2 DEF Active, IInv, TypeOK
  <2> QED
    BY <2>1, <2>2
<1>9. LinkedExist'
  BY <1>5 DEF LinkedExist, IInv
<1> QED
  BY <1>4, <1>7, <1>8, <1>9 DEF IInv

\* Reading a row of its own user, and writing it while it is still the row that was read.
LEMMA Current ==
    ASSUME TypeOK, NEW c \in Calls, ~Outdated(call[c])
    PROVE  row[call[c].user] = call[c].before
<1>1. row[call[c].user] \in Rows /\ call[c].before \in Rows
  BY DEF TypeOK, CallStates
<1> QED
  BY <1>1 DEF Outdated, Rows

-----------------------------------------------------------------------------
(* Edits *)

LEMMA ReadAsAdminInv ==
    ASSUME IInv, NEW c \in Calls, NEW u \in Users, NEW r \in Rows, ReadAsAdmin(c, u, r)
    PROVE  IInv'
<1> DEFINE n == [Idle EXCEPT !.op = "save", !.pc = "write", !.user = u, !.before = row[u], !.after = r]
<1>1. row[u] \in Rows
  BY DEF IInv, TypeOK
<1>2. n \in CallStates
  BY <1>1, IdleType DEF CallStates
<1>3. CallOK(n)
  BY IdleType DEF CallOK, SignIns, ReadAsAdmin, CallStates
<1> QED
  BY <1>2, <1>3, BeginStep DEF ReadAsAdmin

LEMMA ReadSelfInv ==
    ASSUME IInv, NEW c \in Calls, NEW u \in Users, ReadSelf(c, u)
    PROVE  IInv'
<1> DEFINE n == [Idle EXCEPT !.op = "save", !.pc = "write", !.user = u, !.before = row[u], !.after = row[u]]
<1>1. row[u] \in Rows
  BY DEF IInv, TypeOK
<1>2. n \in CallStates
  BY <1>1, IdleType DEF CallStates
<1>3. CallOK(n)
  BY IdleType DEF CallOK, SignIns, ReadSelf, CallStates, Active, Exists
<1> QED
  BY <1>2, <1>3, BeginStep DEF ReadSelf

\* The guard is enough for a row nobody changed since it was read.
LEMMA GuardedWrite ==
    ASSUME TypeOK, AdminsLostOnlyByUnguardedWrite, NEW c \in Calls,
           Update(call[c], call[c].after, {}), LastAdminGuard(call[c])
    PROVE  AdminsLostOnlyByUnguardedWrite'
<1> DEFINE k == call[c]
           u == call[c].user
<1> SUFFICES ASSUME cause' = {} PROVE Admins(row') # {}
  BY DEF AdminsLostOnlyByUnguardedWrite
<1>1. cause = {} /\ ~Outdated(k)
  BY DEF Update
<1>2. u \in Users /\ row[u] = k.before
  BY <1>1, Current DEF TypeOK, CallStates
<1>3. row' = [row EXCEPT ![u] = k.after] /\ row \in [Users -> Rows]
  BY DEF Update, TypeOK
<1>4. CASE WouldRemoveAnAdmin(k)
  BY <1>3, <1>4 DEF LastAdminGuard
<1>5. CASE ~WouldRemoveAnAdmin(k)
  <2>1. PICK a \in Users : IsAdmin(row[a])
    BY <1>1 DEF AdminsLostOnlyByUnguardedWrite, Admins
  <2>2. IsAdmin(row'[a])
    BY <1>2, <1>3, <1>5, <2>1 DEF WouldRemoveAnAdmin
  <2> QED
    BY <2>2 DEF Admins
<1> QED
  BY <1>4, <1>5

LEMMA SaveAccountInv ==
    ASSUME IInv, NEW c \in Calls, SaveAccount(c)
    PROVE  IInv'
<1> DEFINE k == call[c]
<1>1. k \in CallStates /\ CallOK(k) /\ k.pc = "write"
  BY DEF IInv, TypeOK, SaveAccount
<1>2. k.op = "save" /\ k.after.status # "none" /\ Exists(k.user) /\ k.after \in Rows
  BY <1>1 DEF CallOK, CallStates
<1>3. CASE ~LastAdminGuard(k)
  BY <1>3, IdleType, IdleOK, HoldStep DEF SaveAccount, Return
<1>4. CASE LastAdminGuard(k)
  <2>1. Update(k, k.after, {}) /\ UNCHANGED <<linked, sess>>
    BY <1>4 DEF SaveAccount
  <2>2. AdminsLostOnlyByUnguardedWrite'
    BY <1>4, <2>1, GuardedWrite DEF IInv
  <2>3. ASSUME NEW n \in CallStates, Hold(c, n), CallOK(n)' PROVE IInv'
    BY <1>2, <2>1, <2>2, <2>3, UpdateStep
  <2>4. CASE Return(c)
    <3>1. CallOK(Idle)'
      BY IdleType DEF CallOK, SignIns
    <3> QED
      BY <2>3, <2>4, <3>1, IdleType DEF Return
  <2>5. CASE Goto(c, "revoke")
    <3>1. [k EXCEPT !.pc = "revoke"] \in CallStates
      BY <1>1 DEF CallStates
    <3>2. PICK n \in CallStates : n = [k EXCEPT !.pc = "revoke"]
      BY <3>1
    <3>3. n.op = "save" /\ n.pc = "revoke" /\ n.user = k.user /\ n.user \in Users
      BY <1>1, <1>2, <3>2 DEF CallStates
    <3>4. Exists(n.user)'
      BY <1>2, <2>1, <3>3 DEF Update, Exists, IInv, TypeOK
    <3>5. CallOK(n)'
      BY <3>3, <3>4 DEF CallOK, SignIns
    <3> QED
      BY <2>3, <2>5, <3>2, <3>5 DEF Goto
  <2> QED
    BY <1>4, <2>4, <2>5 DEF SaveAccount
<1> QED
  BY <1>3, <1>4

\* The sessions go, and the sign-ins under way are late from now on.
LEMMA RevokeAllInv ==
    ASSUME IInv, NEW c \in Calls, RevokeAll(c)
    PROVE  IInv'
<1> DEFINE u == call[c].user
<1>1. u \in Users /\ Exists(u)
  BY DEF IInv, TypeOK, CallStates, CallOK, RevokeAll
<1>2. /\ UNCHANGED <<row, linked, cause, begun>>
      /\ sess' = [sess EXCEPT ![u] = {}]
      /\ ended' = [ended EXCEPT ![u] = ~Active(u)]
  BY DEF RevokeAll, SetLate, Active
<1>3. /\ sess' \in [Users -> SUBSET {"live", "late"}]
      /\ ended' \in [Users -> BOOLEAN]
  BY <1>2 DEF IInv, TypeOK
<1>4. \A d \in Calls : call'[d] \in CallStates /\ CallOK(call[d])'
  <2> SUFFICES ASSUME NEW d \in Calls PROVE call'[d] \in CallStates /\ CallOK(call[d])'
    OBVIOUS
  <2>1. call[d] \in CallStates /\ CallOK(call[d])
    BY DEF IInv, TypeOK
  <2>2. CASE d = c
    <3>1. call'[d] = Idle
      BY <2>2 DEF RevokeAll, SetLate
    <3> QED
      BY <3>1, IdleType DEF CallOK, SignIns
  <2>3. CASE d # c /\ call[d].user = u /\ call[d].op \in SignIns
    <3>1. call'[d] = [call[d] EXCEPT !.late = TRUE]
      BY <2>3 DEF RevokeAll, SetLate, SignIns
    <3>2. /\ call'[d] \in CallStates /\ call'[d].late
          /\ call'[d].pc = call[d].pc /\ call'[d].op = call[d].op /\ call'[d].user = call[d].user
          /\ call'[d].before = call[d].before /\ call'[d].after = call[d].after
      BY <2>1, <3>1 DEF CallStates
    <3> QED
      BY <1>2, <2>1, <3>2 DEF CallOK, Exists
  <2>4. CASE d # c /\ ~(call[d].user = u /\ call[d].op \in SignIns)
    <3>1. call'[d] = call[d]
      BY <2>4 DEF RevokeAll, SetLate, SignIns
    <3>2. call[d].op \in SignIns => ended'[call[d].user] = ended[call[d].user]
      BY <1>2, <2>4 DEF IInv, TypeOK
    <3> QED
      BY <1>2, <2>1, <3>1, <3>2 DEF CallOK, Exists
  <2> QED
    BY <2>2, <2>3, <2>4
<1>5. call' \in [Calls -> CallStates]
  BY <1>4 DEF RevokeAll, SetLate
<1>6. TypeOK'
  BY <1>2, <1>3, <1>5 DEF IInv, TypeOK
<1>7. EndedOK'
  BY <1>1, <1>2 DEF IInv, EndedOK, TypeOK, Active, Exists
<1> QED
  BY <1>2, <1>4, <1>6, <1>7 DEF IInv, AdminsLostOnlyByUnguardedWrite, Admins, LinkedExist, Exists

LEMMA RevokeSessionsInv ==
    ASSUME IInv, NEW u \in Users, RevokeAccountSessions(u)
    PROVE  IInv'
<1>1. /\ UNCHANGED <<row, linked, call, begun, cause, ended>>
      /\ sess' = [sess EXCEPT ![u] = {}]
  BY DEF RevokeAccountSessions
<1>2. TypeOK' /\ EndedOK'
  BY <1>1 DEF IInv, TypeOK, EndedOK, Active, Exists
<1> QED
  BY <1>1, <1>2 DEF IInv, CallOK, AdminsLostOnlyByUnguardedWrite, Admins, LinkedExist, Exists

\* A row that did not exist was no administrator's, nobody's session and nobody's link.
LEMMA NewRow ==
    ASSUME IInv, NEW u \in Users, NEW r \in Rows, ~Exists(u), r.status # "none",
           row' = [row EXCEPT ![u] = r], UNCHANGED <<linked, sess, cause, ended>>
    PROVE  /\ row' \in [Users -> Rows]
           /\ AdminsLostOnlyByUnguardedWrite' /\ LinkedExist' /\ EndedOK'
           /\ \A v \in Users : Exists(v) => Exists(v)'
           /\ ~ended[u]
<1>1. row' \in [Users -> Rows] /\ \A v \in Users : Exists(v) => v # u /\ row'[v] = row[v]
  BY DEF IInv, TypeOK, Exists
<1>2. \A v \in Users : Exists(v) => Exists(v)'
  BY <1>1 DEF Exists
<1>3. ~ended[u]
  BY DEF IInv, EndedOK
<1>4. EndedOK'
  BY <1>1, <1>2 DEF IInv, EndedOK, Active
<1>5. LinkedExist'
  BY <1>2 DEF IInv, LinkedExist
<1>6. AdminsLostOnlyByUnguardedWrite'
  <2>1. \A v \in Users : IsAdmin(row[v]) => IsAdmin(row'[v])
    BY <1>1 DEF IsAdmin, Exists
  <2> QED
    BY <2>1 DEF IInv, AdminsLostOnlyByUnguardedWrite, Admins
<1> QED
  BY <1>1, <1>2, <1>3, <1>4, <1>5, <1>6

LEMMA CreateAccountInv ==
    ASSUME IInv, NEW u \in Users, NEW r \in Rows, CreateAccount(u, r)
    PROVE  IInv'
<1>1. /\ ~Exists(u) /\ r.status # "none" /\ row' = [row EXCEPT ![u] = r]
      /\ UNCHANGED <<linked, sess, call, begun, cause, ended>>
  BY DEF CreateAccount
<1>2. /\ row' \in [Users -> Rows]
      /\ AdminsLostOnlyByUnguardedWrite' /\ LinkedExist' /\ EndedOK'
      /\ \A v \in Users : Exists(v) => Exists(v)'
  BY <1>1, NewRow
<1>3. TypeOK'
  BY <1>1, <1>2 DEF IInv, TypeOK
<1>4. \A d \in Calls : CallOK(call[d])'
  BY <1>1, <1>2 DEF IInv, TypeOK, CallStates, CallOK
<1> QED
  BY <1>2, <1>3, <1>4 DEF IInv

-----------------------------------------------------------------------------
(* Sign-ins *)

LEMMA LoginInv ==
    ASSUME IInv, NEW c \in Calls, NEW u \in Users, Login(c, u)
    PROVE  IInv'
<1>1. PICK l \in {"hash", "issue"} :
         Begin(c, [Idle EXCEPT !.op = "login", !.pc = l, !.user = u, !.before = row[u]])
  BY DEF Login
<1> DEFINE n == [Idle EXCEPT !.op = "login", !.pc = l, !.user = u, !.before = row[u]]
<1>2. row[u] \in Rows /\ row[u].status = "active" /\ ~ended[u] /\ Exists(u)
  BY DEF IInv, TypeOK, Login, Active, Exists, EndedOK
<1>3. n \in CallStates
  BY <1>2, IdleType DEF CallStates
<1>4. n.op = "login" /\ n.pc = l /\ n.user = u /\ n.before = row[u]
  BY IdleType DEF CallStates
<1>5. CallOK(n)
  BY <1>2, <1>4 DEF CallOK, SignIns
<1> QED
  BY <1>1, <1>3, <1>5, BeginStep DEF Login

LEMMA FederatedUserInv ==
    ASSUME IInv, NEW c \in Calls, NEW u \in Users, NEW v \in BOOLEAN, NEW m \in Mapped \cup {"none"},
           FederatedUser(c, u, v, m)
    PROVE  IInv'
<1> DEFINE l == IF linked[u] THEN "claim" ELSE IF Exists(u) /\ v THEN "link" ELSE "provision"
           n == [Idle EXCEPT !.op = "sso", !.user = u, !.before = row[u], !.role = m, !.pc = l]
<1>1. /\ row[u] \in Rows /\ m \in Roles \cup {"none"}
      /\ ended[u] => row[u].status # "active"
      /\ l \in {"claim", "link"} => Exists(u)
      /\ l \in {"claim", "link", "provision"}
  BY AccountsAssumption DEF IInv, TypeOK, Active, EndedOK, LinkedExist
<1>2. n \in CallStates
  BY <1>1, IdleType DEF CallStates
<1>3. n.op = "sso" /\ n.user = u /\ n.before = row[u] /\ n.pc = l
  BY IdleType DEF CallStates
<1> HIDE DEF l
<1>4. CallOK(n)
  BY <1>1, <1>3 DEF CallOK, SignIns
<1> QED
  BY <1>2, <1>4, BeginStep DEF FederatedUser, l

LEMMA UpgradeHashInv ==
    ASSUME IInv, NEW c \in Calls, UpgradeHash(c)
    PROVE  IInv'
<1> DEFINE k == call[c]
<1>1. k \in CallStates /\ CallOK(k) /\ k.pc = "hash"
  BY DEF IInv, TypeOK, UpgradeHash
<1>2. /\ k.op \in SignIns /\ k.before.status = "active" /\ Exists(k.user)
      /\ k.before \in Rows /\ k.user \in Users
  BY <1>1 DEF CallOK, CallStates
<1>3. Update(k, k.before, {}) /\ UNCHANGED <<linked, sess>> /\ Goto(c, "issue")
  BY DEF UpgradeHash
<1>4. [k EXCEPT !.pc = "issue"] \in CallStates
  BY <1>1 DEF CallStates
<1>5. PICK n \in CallStates : n = [k EXCEPT !.pc = "issue"]
  BY <1>4
<1>6. n.op = k.op /\ n.pc = "issue" /\ n.user = k.user /\ n.before = k.before
  BY <1>1, <1>5 DEF CallStates
<1>7. ~ended'[n.user]
  BY <1>2, <1>3, <1>6 DEF Update, IInv, TypeOK
<1>8. CallOK(n)'
  BY <1>2, <1>6, <1>7 DEF CallOK
<1>9. AdminsLostOnlyByUnguardedWrite'
  <2> SUFFICES ASSUME cause' = {} PROVE Admins(row') # {}
    BY DEF AdminsLostOnlyByUnguardedWrite
  <2>1. cause = {} /\ row[k.user] = k.before
    BY <1>3, Current DEF Update, IInv
  <2>2. row' = row
    BY <1>2, <1>3, <2>1 DEF Update, IInv, TypeOK
  <2> QED
    BY <2>1, <2>2 DEF IInv, AdminsLostOnlyByUnguardedWrite
<1> QED
  BY <1>2, <1>3, <1>5, <1>8, <1>9, UpdateStep DEF Goto

LEMMA IssueInv ==
    ASSUME IInv, NEW c \in Calls, Issue(c)
    PROVE  IInv'
<1> DEFINE k == call[c]
<1>1. k \in CallStates /\ CallOK(k) /\ k.pc = "issue" /\ k.user \in Users
  BY DEF IInv, TypeOK, Issue, CallStates
<1>2. ended[k.user] => k.late
  BY <1>1 DEF CallOK
<1>3. sess' = [sess EXCEPT ![k.user] = sess[k.user] \cup {IF k.late THEN "late" ELSE "live"}]
  BY DEF Issue
<1>4. sess' \in [Users -> SUBSET {"live", "late"}]
  BY <1>1, <1>3 DEF IInv, TypeOK
<1>5. \A u \in Users : ended[u] => "live" \notin sess'[u]
  BY <1>1, <1>2, <1>3 DEF IInv, TypeOK, EndedOK
<1>6. begun' \in 0..MaxCall /\ linked' = linked /\ linked \in [Users -> BOOLEAN]
  BY DEF Issue, Return, Hold, IInv, TypeOK
<1> QED
  BY <1>4, <1>5, <1>6, IdleType, IdleOK, CallStep DEF Issue, Return, Hold, IInv, LinkedExist

LEMMA LinkInv ==
    ASSUME IInv, NEW c \in Calls, Link(c)
    PROVE  IInv'
<1> DEFINE k == call[c]
<1>1. k \in CallStates /\ CallOK(k) /\ k.pc \in {"link", "identity"} /\ k.user \in Users
  BY DEF IInv, TypeOK, Link, CallStates
<1>2. k.op = "sso" /\ Exists(k.user)
  BY <1>1 DEF CallOK
<1>3. linked' = [linked EXCEPT ![k.user] = TRUE] /\ UNCHANGED <<row, sess, cause, ended>>
  BY DEF Link
<1>4. linked' \in [Users -> BOOLEAN] /\ \A u \in Users : linked'[u] => Exists(u)
  BY <1>2, <1>3 DEF IInv, TypeOK, LinkedExist
<1>5. ASSUME NEW n \in CallStates, CallOK(n), Hold(c, n) PROVE IInv'
  <2>1. begun' \in 0..MaxCall /\ sess \in [Users -> SUBSET {"live", "late"}]
    BY <1>5 DEF Hold, IInv, TypeOK
  <2> QED
    BY <1>3, <1>4, <1>5, <2>1, CallStep DEF Hold, IInv, EndedOK
<1>6. CASE Return(c)
  BY <1>5, <1>6, IdleType, IdleOK DEF Return
<1>7. CASE Goto(c, "claim")
  <2> DEFINE n == [k EXCEPT !.pc = "claim"]
  <2>1. /\ n \in CallStates /\ n.op = k.op /\ n.pc = "claim" /\ n.user = k.user
        /\ n.before = k.before /\ n.late = k.late
    BY <1>1 DEF CallStates
  <2> HIDE DEF n
  <2>2. CallOK(n)
    BY <1>1, <1>2, <2>1 DEF CallOK
  <2> QED
    BY <1>5, <1>7, <2>1, <2>2 DEF Goto, n
<1> QED
  BY <1>6, <1>7 DEF Link

LEMMA ProvisionInv ==
    ASSUME IInv, NEW c \in Calls, Provision(c)
    PROVE  IInv'
<1> DEFINE k == call[c]
           r == [role |-> IF k.role = "none" THEN "member" ELSE k.role, status |-> "active"]
<1>1. k \in CallStates /\ CallOK(k) /\ k.pc = "provision" /\ k.user \in Users
  BY DEF IInv, TypeOK, Provision, CallStates
<1>2. CASE Return(c) /\ UNCHANGED row
  BY <1>2, IdleType, IdleOK, HoldStep DEF Provision, Return
<1>3. CASE /\ ~Exists(k.user) /\ row' = [row EXCEPT ![k.user] = r]
           /\ Hold(c, [k EXCEPT !.pc = "identity", !.before = r])
  <2>1. k.op = "sso" /\ r \in Rows /\ r.status = "active"
    BY <1>1 DEF CallOK, CallStates, Rows, Roles, Statuses
  <2>2. [k EXCEPT !.pc = "identity", !.before = r] \in CallStates
    BY <1>1, <2>1 DEF CallStates
  <2>3. PICK n \in CallStates : n = [k EXCEPT !.pc = "identity", !.before = r]
    BY <2>2
  <2>4. n.op = "sso" /\ n.pc = "identity" /\ n.user = k.user /\ n.user \in Users
    BY <1>1, <2>1, <2>3 DEF CallStates
  <2>5. /\ row' \in [Users -> Rows]
        /\ AdminsLostOnlyByUnguardedWrite' /\ LinkedExist' /\ EndedOK'
        /\ \A v \in Users : Exists(v) => Exists(v)'
        /\ ~ended[k.user]
    BY <1>1, <1>3, <2>1, NewRow DEF Provision
  <2>6. Exists(n.user)'
    BY <1>3, <2>1, <2>4 DEF Exists, IInv, TypeOK
  <2>7. ~ended'[n.user]
    BY <2>4, <2>5 DEF Provision
  <2>8. call' = [call EXCEPT ![c] = n] /\ UNCHANGED <<begun, linked, sess, cause, ended>>
    BY <1>3, <2>3 DEF Hold, Provision
  <2>9. TypeOK'
    BY <2>5, <2>8 DEF IInv, TypeOK
  <2>10. \A d \in Calls : CallOK(call[d])'
    <3> SUFFICES ASSUME NEW d \in Calls PROVE CallOK(call[d])'
      OBVIOUS
    <3>1. CASE d = c
      <4>1. call'[d] = n
        BY <2>8, <3>1 DEF IInv, TypeOK
      <4> QED
        BY <2>4, <2>6, <2>7, <4>1 DEF CallOK
    <3>2. CASE d # c
      <4>1. call'[d] = call[d] /\ CallOK(call[d]) /\ call[d].user \in Users
        BY <2>8, <3>2 DEF IInv, TypeOK, CallStates
      <4> QED
        BY <2>5, <2>8, <4>1 DEF CallOK
    <3> QED
      BY <3>1, <3>2
  <2> QED
    BY <2>5, <2>9, <2>10 DEF IInv
<1> QED
  BY <1>2, <1>3 DEF Provision

LEMMA ClaimInv ==
    ASSUME IInv, NEW c \in Calls, Claim(c)
    PROVE  IInv'
<1> DEFINE k == call[c]
<1>1. k \in CallStates /\ CallOK(k) /\ k.pc = "claim" /\ k.user \in Users /\ k.before \in Rows
  BY DEF IInv, TypeOK, Claim, CallStates
<1>2. k.op = "sso" /\ Exists(k.user)
  BY <1>1 DEF CallOK
<1>3. CASE k.before.status = "invited"
  <2> DEFINE r == [k.before EXCEPT !.status = "active"]
  <2>1. r \in Rows /\ r.status = "active"
    BY <1>1 DEF Rows, Statuses
  <2>2. [k EXCEPT !.pc = "role", !.before.status = "active"] \in CallStates
    BY <1>1, <2>1 DEF CallStates
  <2>3. PICK n \in CallStates : n = [k EXCEPT !.pc = "role", !.before.status = "active"]
    BY <2>2
  <2>4. n.op = "sso" /\ n.pc = "role" /\ n.user = k.user /\ n.before.status = "active"
    BY <1>1, <1>2, <2>3 DEF CallStates, Rows
  <2>5. Update(k, r, {}) /\ Hold(c, n) /\ UNCHANGED <<linked, sess>>
    BY <1>3, <2>3 DEF Claim
  <2> HIDE DEF r
  <2>6. ~ended'[n.user] /\ Exists(n.user)'
    BY <1>1, <2>1, <2>4, <2>5 DEF Update, Exists, IInv, TypeOK
  <2>7. CallOK(n)'
    BY <2>4, <2>6 DEF CallOK, SignIns
  <2>8. AdminsLostOnlyByUnguardedWrite'
    <3> SUFFICES ASSUME cause' = {} PROVE Admins(row') # {}
      BY DEF AdminsLostOnlyByUnguardedWrite
    <3>1. cause = {} /\ row[k.user] = k.before
      BY <2>5, Current DEF Update, IInv
    <3>2. PICK a \in Users : IsAdmin(row[a])
      BY <3>1 DEF IInv, AdminsLostOnlyByUnguardedWrite, Admins
    <3>3. a # k.user
      BY <1>3, <3>1, <3>2 DEF IsAdmin
    <3>4. row'[a] = row[a]
      BY <2>5, <3>3 DEF Update, IInv, TypeOK
    <3> QED
      BY <3>2, <3>4 DEF Admins
  <2> QED
    BY <1>2, <2>1, <2>5, <2>7, <2>8, UpdateStep
<1>4. CASE k.before.status = "active"
  <2> DEFINE n == [k EXCEPT !.pc = "role"]
  <2>1. /\ n \in CallStates /\ n.op = k.op /\ n.pc = "role" /\ n.user = k.user
        /\ n.before = k.before /\ n.late = k.late
    BY <1>1 DEF CallStates
  <2>2. Hold(c, n) /\ UNCHANGED <<row, linked, sess, cause, ended>>
    BY <1>4 DEF Claim, Goto
  <2> HIDE DEF n
  <2>3. CallOK(n)
    BY <1>1, <1>2, <1>4, <2>1 DEF CallOK, SignIns
  <2> QED
    BY <2>1, <2>2, <2>3, HoldStep
<1>5. CASE k.before.status \notin {"invited", "active"}
  BY <1>5, IdleType, IdleOK, HoldStep DEF Claim, Return
<1> QED
  BY <1>3, <1>4, <1>5

LEMMA ApplyMappedRoleInv ==
    ASSUME IInv, NEW c \in Calls, ApplyMappedRole(c)
    PROVE  IInv'
<1> DEFINE k == call[c]
<1>1. k \in CallStates /\ CallOK(k) /\ k.pc = "role" /\ k.user \in Users /\ k.before \in Rows
  BY DEF IInv, TypeOK, ApplyMappedRole, CallStates
<1>2. k.op \in SignIns /\ Exists(k.user) /\ k.before.status = "active"
  BY <1>1 DEF CallOK
<1>3. [k EXCEPT !.pc = "issue"] \in CallStates
  BY <1>1 DEF CallStates
<1>4. PICK n \in CallStates : n = [k EXCEPT !.pc = "issue"]
  BY <1>3
<1>5. n.op = k.op /\ n.pc = "issue" /\ n.user = k.user /\ n.before = k.before /\ n.late = k.late
  BY <1>1, <1>4 DEF CallStates
<1>6. Hold(c, n) /\ UNCHANGED <<linked, sess>>
  BY <1>4 DEF ApplyMappedRole, Goto
<1>7. CASE k.role \in {"none", k.before.role}
  <2>1. CallOK(n)
    BY <1>1, <1>2, <1>5 DEF CallOK
  <2> QED
    BY <1>6, <1>7, <2>1, HoldStep DEF ApplyMappedRole
<1>8. CASE k.role \notin {"none", k.before.role}
  <2> DEFINE r == [k.before EXCEPT !.role = k.role]
  <2>1. r \in Rows /\ r.status = "active"
    BY <1>1, <1>2, <1>8 DEF Rows, CallStates
  <2>2. Update(k, r, {"mapped"})
    BY <1>8 DEF ApplyMappedRole
  <2> HIDE DEF r
  <2>3. ~ended'[n.user]
    BY <1>1, <1>5, <2>1, <2>2 DEF Update, IInv, TypeOK
  <2>4. CallOK(n)'
    BY <1>2, <1>5, <2>3 DEF CallOK
  <2>5. AdminsLostOnlyByUnguardedWrite'
    BY <2>2 DEF Update, AdminsLostOnlyByUnguardedWrite
  <2> QED
    BY <1>2, <1>6, <2>1, <2>2, <2>4, <2>5, UpdateStep
<1> QED
  BY <1>7, <1>8

-----------------------------------------------------------------------------
(* Theorems *)

LEMMA InitInv == ASSUME Init PROVE IInv
<1>1. TypeOK
  BY AccountsAssumption, IdleType DEF Init, TypeOK, Rows, NoRow, Roles, Statuses
<1>2. IsAdmin(row[First]) /\ First \in Users
  BY AccountsAssumption DEF Init, IsAdmin
<1>3. \A c \in Calls : CallOK(call[c])
  BY IdleOK DEF Init
<1> QED
  BY <1>1, <1>2, <1>3 DEF IInv, Init, AdminsLostOnlyByUnguardedWrite, Admins, LinkedExist, EndedOK

LEMMA NextInv == ASSUME IInv, [Next]_vars PROVE IInv'
<1>1. CASE UNCHANGED vars
  BY <1>1 DEF vars, IInv, TypeOK, AdminsLostOnlyByUnguardedWrite, Admins, LinkedExist, EndedOK,
              CallOK, Exists, Active
<1>2. ASSUME NEW c \in Calls, NEW u \in Users, NEW r \in Rows, ReadAsAdmin(c, u, r) PROVE IInv'
  BY <1>2, ReadAsAdminInv
<1>3. ASSUME NEW c \in Calls, NEW u \in Users, ReadSelf(c, u) \/ Login(c, u) PROVE IInv'
  BY <1>3, ReadSelfInv, LoginInv
<1>4. ASSUME NEW c \in Calls, NEW u \in Users, NEW v \in BOOLEAN, NEW m \in Mapped \cup {"none"},
             FederatedUser(c, u, v, m) PROVE IInv'
  BY <1>4, FederatedUserInv
<1>5. ASSUME NEW c \in Calls, SaveAccount(c) \/ RevokeAll(c) \/ UpgradeHash(c) \/ Issue(c) PROVE IInv'
  BY <1>5, SaveAccountInv, RevokeAllInv, UpgradeHashInv, IssueInv
<1>6. ASSUME NEW c \in Calls, Link(c) \/ Provision(c) \/ Claim(c) \/ ApplyMappedRole(c) PROVE IInv'
  BY <1>6, LinkInv, ProvisionInv, ClaimInv, ApplyMappedRoleInv
<1>7. ASSUME NEW c \in Calls, Fail(c) PROVE IInv'
  BY <1>7, IdleType, IdleOK, HoldStep DEF Fail, Return
<1>8. ASSUME NEW u \in Users, RevokeAccountSessions(u) PROVE IInv'
  BY <1>8, RevokeSessionsInv
<1>9. ASSUME NEW u \in Users, NEW r \in Rows, CreateAccount(u, r) PROVE IInv'
  BY <1>9, CreateAccountInv
<1> QED
  BY <1>1, <1>2, <1>3, <1>4, <1>5, <1>6, <1>7, <1>8, <1>9 DEF Next

\* The inductive invariant, over every interleaving of edits and sign-ins (saveAccount,
\* Login, SignInWithFederatedIdentity).
THEOREM Invariance == Spec => []IInv
BY InitInv, NextInv, PTL DEF Spec

\* Every variable keeps its type.
THEOREM TypeCorrect == Spec => []TypeOK
BY Invariance, PTL DEF IInv

\* lastAdminGuard, which counts in the writing transaction, keeps an administrator through
\* any number of concurrent edits; the installation loses the last one only by a mapped role or
\* by a write of outdated columns.
THEOREM AdministratorKept == Spec => []AdminsLostOnlyByUnguardedWrite
BY Invariance, PTL DEF IInv

\* A disabled account whose sessions were revoked (RevokeAll) holds none but those of sign-ins
\* that were under way.
THEOREM DisabledIsSignedOut == Spec => []DisabledHoldsNoSession
<1>1. IInv => DisabledHoldsNoSession
  BY DEF IInv, EndedOK, DisabledHoldsNoSession
<1> QED
  BY <1>1, Invariance, PTL

\* Update is the only step that enables a disabled account, and then by an edit, or because
\* what it writes back is outdated.
LEMMA EnablingUpdate ==
    ASSUME IInv, NEW c \in Calls, NEW r \in Rows, NEW why, Update(call[c], r, why),
           NEW u \in Users, row[u].status = "disabled", row'[u].status = "active"
    PROVE  call[c].user = u
BY DEF Update, IInv, TypeOK

LEMMA EnablingStep ==
    ASSUME IInv, [Next]_vars,
           NEW u \in Users, row[u].status = "disabled", row'[u].status = "active"
    PROVE  \E c \in Calls : call[c].user = u /\ (call[c].op = "save" \/ Outdated(call[c]))
<1> DEFINE Goal == \E c \in Calls : call[c].user = u /\ (call[c].op = "save" \/ Outdated(call[c]))
<1>1. row' # row
  OBVIOUS
<1>2. \A c \in Calls : call[c] \in CallStates /\ CallOK(call[c])
  BY DEF IInv, TypeOK
<1>3. \A c \in Calls : call[c].user = u /\ call[c].before.status # "disabled" => Outdated(call[c])
  BY DEF Outdated
<1>4. ASSUME NEW c \in Calls, SaveAccount(c) PROVE Goal
  <2>1. call[c].op = "save" /\ call[c].after \in Rows
    BY <1>2, <1>4 DEF SaveAccount, CallOK, CallStates
  <2>2. Update(call[c], call[c].after, {})
    BY <1>1, <1>4 DEF SaveAccount
  <2> QED
    BY <2>1, <2>2, EnablingUpdate
<1>5. ASSUME NEW c \in Calls, UpgradeHash(c) PROVE Goal
  <2>1. call[c].before.status = "active" /\ call[c].before \in Rows
    BY <1>2, <1>5 DEF UpgradeHash, CallOK, CallStates
  <2>2. call[c].user = u
    BY <1>5, <2>1, EnablingUpdate DEF UpgradeHash
  <2> QED
    BY <1>3, <2>1, <2>2
<1>6. ASSUME NEW c \in Calls, Claim(c) PROVE Goal
  <2>1. call[c].before.status = "invited" /\ [call[c].before EXCEPT !.status = "active"] \in Rows
    BY <1>1, <1>2, <1>6 DEF Claim, CallStates, Rows, Statuses
  <2>2. call[c].user = u
    BY <1>6, <2>1, EnablingUpdate DEF Claim
  <2> QED
    BY <1>3, <2>1, <2>2
<1>7. ASSUME NEW c \in Calls, ApplyMappedRole(c) PROVE Goal
  <2>1. /\ call[c].before.status = "active" /\ call[c].role \notin {"none", call[c].before.role}
        /\ [call[c].before EXCEPT !.role = call[c].role] \in Rows
    BY <1>1, <1>2, <1>7 DEF ApplyMappedRole, CallOK, CallStates, Rows
  <2>2. call[c].user = u
    BY <1>7, <2>1, EnablingUpdate DEF ApplyMappedRole
  <2> QED
    BY <1>3, <2>1, <2>2
<1>8. ASSUME NEW c \in Calls, Provision(c) PROVE FALSE
  BY <1>1, <1>2, <1>8 DEF Provision, Exists, IInv, TypeOK, CallStates
<1>9. ASSUME NEW v \in Users, NEW r \in Rows, CreateAccount(v, r) PROVE FALSE
  BY <1>9 DEF CreateAccount, Exists, IInv, TypeOK
<1> QED
  BY <1>1, <1>4, <1>5, <1>6, <1>7, <1>8, <1>9
     DEF Next, vars, ReadAsAdmin, ReadSelf, Login, FederatedUser, RevokeAll, Issue, Link, Fail,
         RevokeAccountSessions

\* Whoever was disabled becomes active on purpose (SetAccountStatus, UpdateAccount), or by a
\* write that puts an outdated status back; claimInvitation lets no disabled account in.
THEOREM OnlyEditsEnable == Spec => EnabledOnPurpose
<1>1. IInv /\ [Next]_vars =>
        [\A u \in Users : row[u].status = "disabled" /\ row'[u].status = "active" =>
            \E c \in Calls : call[c].user = u /\ (call[c].op = "save" \/ Outdated(call[c]))]_vars
  BY EnablingStep
<1> QED
  BY <1>1, Invariance, PTL DEF Spec, EnabledOnPurpose
=============================================================================
