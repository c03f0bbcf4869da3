------------------------------- MODULE Accounts -------------------------------
(***************************************************************************)
(* The account rows of an installation (internal/authn/{users,federated,   *)
(* service}.go over store/identity/users.go): administrative edits, a      *)
(* person's own edits, the hash upgrade of a login, and federated sign-ins *)
(* that link, provision, claim and re-map an account.  Every one of them   *)
(* reads the row, changes some columns of what it read, and writes the     *)
(* whole row (Users.Update); the guard for the last administrator runs     *)
(* inside the writing transaction, and only when the row that was read     *)
(* was an administrator's.  Ending the sessions of a disabled account is a *)
(* transaction of its own.                                                 *)
(***************************************************************************)
EXTENDS Integers

CONSTANTS
    Users,         \* addresses: each has at most one account and one provider subject
    First,         \* the administrator that bootstrap created
    Mapped,        \* platform roles the identity provider's groups are mapped to
    Calls,         \* concurrent requests; each serves one call after another
    MaxCall        \* bound: calls served

Roles == {"admin", "member"}
ASSUME AccountsAssumption == First \in Users /\ Mapped \subseteq Roles /\ MaxCall \in Nat

VARIABLES
    row,        \* user rows: platform_role, status ("none": no row)
    linked,     \* user_identity rows
    sess,       \* what sessions are live: "live" ones, and "late" ones (see late)
    call,       \* each request: the call it serves and what that call has read
    begun,      \* calls begun so far
    cause,      \* history: the writes that were not a guarded edit of the current row
    ended       \* history: a disable of the account ran to the end of RevokeAll

vars == <<row, linked, sess, call, begun, cause, ended>>

Statuses == {"none", "invited", "active", "disabled"}
\* The display name, the MFA flag and the password hash are columns no property reads: an
\* edit of those alone writes back the role and the status it read.
Rows == [role : Roles, status : Statuses]
NoRow == [role |-> "member", status |-> "none"]

\* "late": the account's sessions have been revoked since the call read the row.
Idle == [pc |-> "idle", op |-> "none", user |-> First, before |-> NoRow, after |-> NoRow,
         role |-> "none", late |-> FALSE]
CallStates ==
    [pc : {"idle", "write", "revoke", "link", "provision", "identity", "claim", "role", "hash", "issue"},
     op : {"none", "save", "login", "sso"}, user : Users, before : Rows, after : Rows,
     role : Roles \cup {"none"}, late : BOOLEAN]

TypeOK ==
    /\ row \in [Users -> Rows] /\ linked \in [Users -> BOOLEAN]
    /\ sess \in [Users -> SUBSET {"live", "late"}]
    /\ call \in [Calls -> CallStates] /\ begun \in 0..MaxCall
    /\ cause \subseteq {"mapped", "outdated"} /\ ended \in [Users -> BOOLEAN]

Init ==
    /\ row = [u \in Users |-> IF u = First THEN [role |-> "admin", status |-> "active"]
                              ELSE NoRow]
    /\ linked = [u \in Users |-> FALSE] /\ sess = [u \in Users |-> {}]
    /\ call = [c \in Calls |-> Idle] /\ begun = 0
    /\ cause = {} /\ ended = [u \in Users |-> FALSE]

Exists(u) == row[u].status # "none"
Active(u) == row[u].status = "active"
IsAdmin(r) == r.role = "admin" /\ r.status = "active"
Admins(rows) == {u \in Users : IsAdmin(rows[u])}

Begin(c, r) ==
    /\ call[c].pc = "idle" /\ begun < MaxCall
    /\ begun' = begun + 1 /\ call' = [call EXCEPT ![c] = r]
Hold(c, r) == call' = [call EXCEPT ![c] = r] /\ UNCHANGED begun
Goto(c, l) == Hold(c, [call[c] EXCEPT !.pc = l])
Return(c) == Hold(c, Idle)

\* Users.Update: every column of the row that was read, with the changes.
Outdated(k) == row[k.user].role # k.before.role \/ row[k.user].status # k.before.status
Update(k, r, why) ==
    /\ row' = [row EXCEPT ![k.user] = r]
    /\ cause' = cause \cup why \cup (IF Outdated(k) THEN {"outdated"} ELSE {})
    /\ ended' = [ended EXCEPT ![k.user] = @ /\ r.status # "active"]

-----------------------------------------------------------------------------
(* UpdateAccount, SetAccountStatus, RenameSelf and saveAccount *)

\* An administrator edits any column of any account ...
ReadAsAdmin(c, u, r) ==
    /\ Admins(row) # {} /\ Exists(u) /\ r.status # "none"
    /\ Begin(c, [Idle EXCEPT !.op = "save", !.pc = "write", !.user = u, !.before = row[u], !.after = r])
    /\ UNCHANGED <<row, linked, sess, cause, ended>>

\* ... anybody signed in their own name.
ReadSelf(c, u) ==
    /\ Active(u) /\ sess[u] # {}
    /\ Begin(c, [Idle EXCEPT !.op = "save", !.pc = "write", !.user = u, !.before = row[u], !.after = row[u]])
    /\ UNCHANGED <<row, linked, sess, cause, ended>>

\* [mutant] disabling an administrator does not count.
WouldDemoteAnAdmin(k) == IsAdmin(k.before) /\ k.after.role # "admin"
WouldRemoveAnAdmin(k) == IsAdmin(k.before) /\ ~IsAdmin(k.after)

\* lastAdminGuard: counted after the write, in its transaction, which rolls back.
LastAdminGuard(k) == WouldRemoveAnAdmin(k) => Admins([row EXCEPT ![k.user] = k.after]) # {}

\* saveAccount: the sessions follow when an active account stopped being one.
SaveAccount(c) ==
    LET k == call[c] IN
    /\ k.pc = "write"
    /\ IF LastAdminGuard(k)
       THEN /\ Update(k, k.after, {})
            /\ IF k.after.status # "active" /\ k.before.status = "active" THEN Goto(c, "revoke")
               ELSE Return(c)
       ELSE Return(c) /\ UNCHANGED <<row, cause, ended>>
    /\ UNCHANGED <<linked, sess>>

\* Sign-ins of this account that are still to issue a session run across it.
SetLate(c, u) ==
    /\ UNCHANGED begun
    /\ call' = [d \in Calls |->
          IF d = c THEN Idle
          ELSE IF call[d].user = u /\ call[d].op \in {"login", "sso"} THEN [call[d] EXCEPT !.late = TRUE]
          ELSE call[d]]

RevokeAll(c) ==
    LET u == call[c].user IN
    /\ call[c].pc = "revoke"
    /\ sess' = [sess EXCEPT ![u] = {}]
    /\ ended' = [ended EXCEPT ![u] = row[u].status # "active"]
    /\ SetLate(c, u)
    /\ UNCHANGED <<row, linked, cause>>

\* RevokeAccountSessions, and Logout.
RevokeAccountSessions(u) ==
    /\ sess[u] # {}
    /\ sess' = [sess EXCEPT ![u] = {}]
    /\ UNCHANGED <<row, linked, call, begun, cause, ended>>

\* CreateAccount: active with a password, invited without one.
CreateAccount(u, r) ==
    /\ Admins(row) # {} /\ ~Exists(u) /\ r.status \in {"active", "invited"}
    /\ row' = [row EXCEPT ![u] = r]
    /\ UNCHANGED <<linked, sess, call, begun, cause, ended>>

-----------------------------------------------------------------------------
(* Login: the password was right *)

\* [mutant] the status is not consulted.
LoginAnyStatus(c, u) ==
    /\ Exists(u)
    /\ \E l \in {"hash", "issue"} :
          Begin(c, [Idle EXCEPT !.op = "login", !.pc = l, !.user = u, !.before = row[u]])
    /\ UNCHANGED <<row, linked, sess, cause, ended>>

\* Accounts that are not active are refused; the hash may need an upgrade.
Login(c, u) ==
    /\ Active(u)
    /\ \E l \in {"hash", "issue"} :
          Begin(c, [Idle EXCEPT !.op = "login", !.pc = l, !.user = u, !.before = row[u]])
    /\ UNCHANGED <<row, linked, sess, cause, ended>>

\* upgradeHash; ChangePassword writes its new hash the same way.
UpgradeHash(c) ==
    LET k == call[c] IN
    /\ k.pc = "hash"
    /\ Update(k, k.before, {})
    /\ Goto(c, "issue")
    /\ UNCHANGED <<linked, sess>>

\* issueSession
Issue(c) ==
    LET k == call[c] IN
    /\ k.pc = "issue"
    /\ sess' = [sess EXCEPT ![k.user] = @ \cup {IF k.late THEN "late" ELSE "live"}]
    /\ Return(c)
    /\ UNCHANGED <<row, linked, cause, ended>>

-----------------------------------------------------------------------------
(* SignInWithFederatedIdentity *)

\* federatedUser: by subject, by verified address, or by provisioning.
FederatedUser(c, u, verified, m) ==
    /\ Begin(c, [Idle EXCEPT !.op = "sso", !.user = u, !.before = row[u], !.role = m,
                   !.pc = IF linked[u] THEN "claim"
                          ELSE IF Exists(u) /\ verified THEN "link" ELSE "provision"])
    /\ UNCHANGED <<row, linked, sess, cause, ended>>

\* identities.Create: a subject that was linked meanwhile is a conflict.
Link(c) ==
    LET u == call[c].user IN
    /\ call[c].pc \in {"link", "identity"}
    /\ IF linked[u] THEN Return(c) ELSE Goto(c, "claim")
    /\ linked' = [linked EXCEPT ![u] = TRUE]
    /\ UNCHANGED <<row, sess, cause, ended>>

\* provision: refused when auto-provisioning is off, a conflict when the address is taken.
Provision(c) ==
    LET k == call[c]
        r == [role |-> IF k.role = "none" THEN "member" ELSE k.role, status |-> "active"] IN
    /\ k.pc = "provision"
    /\ \/ Return(c) /\ UNCHANGED row
       \/ /\ ~Exists(k.user)
          /\ row' = [row EXCEPT ![k.user] = r]
          /\ Hold(c, [k EXCEPT !.pc = "identity", !.before = r])
    /\ UNCHANGED <<linked, sess, cause, ended>>

\* [mutant] whoever the provider vouches for is let in.
ClaimAnybody(c) ==
    LET k == call[c] IN
    /\ k.pc = "claim"
    /\ IF k.before.status # "active"
       THEN /\ Update(k, [k.before EXCEPT !.status = "active"], {})
            /\ Hold(c, [k EXCEPT !.pc = "role", !.before.status = "active"])
       ELSE Goto(c, "role") /\ UNCHANGED <<row, cause, ended>>
    /\ UNCHANGED <<linked, sess>>

\* claimInvitation: an invited account becomes active, a disabled one is refused.
Claim(c) ==
    LET k == call[c] IN
    /\ k.pc = "claim"
    /\ IF k.before.status = "invited"
       THEN /\ Update(k, [k.before EXCEPT !.status = "active"], {})
            /\ Hold(c, [k EXCEPT !.pc = "role", !.before.status = "active"])
       ELSE /\ IF k.before.status = "active" THEN Goto(c, "role") ELSE Return(c)
            /\ UNCHANGED <<row, cause, ended>>
    /\ UNCHANGED <<linked, sess>>

\* applyMappedRole: unguarded, demotion out of admin included.
ApplyMappedRole(c) ==
    LET k == call[c] IN
    /\ k.pc = "role"
    /\ IF k.role \in {"none", k.before.role} THEN UNCHANGED <<row, cause, ended>>
       ELSE Update(k, [k.before EXCEPT !.role = k.role], {"mapped"})
    /\ Goto(c, "issue")
    /\ UNCHANGED <<linked, sess>>

\* The request is cancelled, or its next statement fails.
Fail(c) ==
    /\ call[c].pc # "idle"
    /\ Return(c)
    /\ UNCHANGED <<row, linked, sess, cause, ended>>

Next ==
    \/ \E c \in Calls :
          \/ \E u \in Users, r \in Rows : ReadAsAdmin(c, u, r)
          \/ \E u \in Users : ReadSelf(c, u) \/ Login(c, u)
          \/ \E u \in Users, v \in BOOLEAN, m \in Mapped \cup {"none"} : FederatedUser(c, u, v, m)
          \/ SaveAccount(c) \/ RevokeAll(c) \/ UpgradeHash(c) \/ Issue(c)
          \/ Link(c) \/ Provision(c) \/ Claim(c) \/ ApplyMappedRole(c) \/ Fail(c)
    \/ \E u \in Users : RevokeAccountSessions(u)
    \/ \E u \in Users, r \in Rows : CreateAccount(u, r)

Spec == Init /\ [][Next]_vars

-----------------------------------------------------------------------------
(* Properties *)

\* Guarded edits alone, two administrators demoting each other included, never leave the
\* installation without an administrator who can sign in: that takes a role mapped by the
\* identity provider, or a write that put outdated columns back.
AdminsLostOnlyByUnguardedWrite == Admins(row) = {} => cause # {}

\* An account whose disabling ran to its end holds no session, unless a sign-in that had
\* read it as active issued one afterwards: re-enabling it hands back no browser.
DisabledHoldsNoSession ==
    \A u \in Users : ended[u] => "live" \notin sess[u]

\* A disabled account becomes active only by an edit that says so, or by a write that puts
\* an outdated status back; a federated sign-in that finds it disabled never does it.
EnabledOnPurpose ==
    [][\A u \in Users : row[u].status = "disabled" /\ row'[u].status = "active" =>
          \E c \in Calls : call[c].user = u /\ (call[c].op = "save" \/ Outdated(call[c]))]_vars

\* "An installation must never end up with no administrator, and the only way to be sure
\* of that is to make the change, count inside the same transaction, and roll back if the
\* answer is zero" (CountActiveAdmins).
AnAdminRemains == Admins(row) # {}

=============================================================================
