-------------------------------- MODULE SignIn --------------------------------
(***************************************************************************)
(* Signing in to one account that has a local password: the password, the  *)
(* pending challenge, the authenticator (TOTP) enrolment, the recovery     *)
(* codes and the sessions (internal/authn/{service,mfa,recovery}.go over   *)
(* authn/{challenge,session} and store/identity), and the edits of the     *)
(* account that write its password hash with the rest of the row           *)
(* (internal/authn/{users,federated}.go).  A request reads rows    *)
(* through the read pool, decides, and writes one transaction after        *)
(* another; each read that decides something and each write is a step, and *)
(* a request may fail before any of them.  Token values, hashes and the    *)
(* identifiers of other accounts are abstracted: a secret, a password, a   *)
(* challenge and a recovery code are numbered in the order of minting.     *)
(***************************************************************************)
EXTENDS Integers

CONSTANTS
    Calls,          \* concurrent requests; each serves one call after another
    Skew,           \* totp.Skew: steps accepted around the current one
    MaxStep,        \* bound: TOTP steps
    MaxPw,          \* bound: passwords the account has had
    MaxSecret,      \* bound: authenticator secrets generated
    MaxCode,        \* bound: recovery codes minted
    MaxChallenge,   \* bound: challenges opened
    MaxSession,     \* bound: sessions issued
    MaxCall         \* bound: calls served

ASSUME SignInAssumption ==
    /\ Skew \in Nat /\ MaxStep \in Nat /\ MaxPw \in Nat \ {0} /\ MaxSecret \in Nat \ {0}
    /\ MaxCode \in Nat \ {0} /\ MaxChallenge \in Nat /\ MaxSession \in Nat /\ MaxCall \in Nat

VARIABLES
    pw, rehash,    \* user row: the current password; its hash has outdated parameters
    totp,          \* user_totp row: secret (0: no row), confirmed, last_used_step
    codes,         \* unused recovery codes
    chal,          \* the mfa_challenge row: id (0: none), consumed
    sess,          \* session rows
    clock,         \* the current TOTP step
    nPw, nSecret, nCode, nChal, nSess,   \* how many of each exist
    call,          \* each request: the call it serves and what that call has read
    begun,         \* calls begun so far
    signedOut,     \* history: the newest password whose change ran to Discard
    revived,       \* history: an outdated row was written, and its password with it
    retired        \* history: secrets whose removal ran to its end

counters == <<nPw, nSecret, nCode, nChal, nSess>>
userRow == <<pw, rehash>>
factor == <<totp, codes>>
history == <<signedOut, revived, retired>>
vars == <<userRow, factor, chal, sess, clock, counters, call, begun, history>>

Code(k, n, t) == [kind |-> k, of |-> n, step |-> t]
NoCode == Code("none", 0, 0)
Codes == [kind : {"none", "totp", "recovery"}, of : Nat, step : Nat]

NoTOTP == [secret |-> 0, confirmed |-> FALSE, last |-> 0]
NoChallenge == [id |-> 0, spent |-> FALSE, pw |-> 0, late |-> FALSE]
Spent(h) == [id |-> h, spent |-> TRUE, pw |-> 0, late |-> FALSE]
NoSession == [live |-> FALSE, mfa |-> FALSE, via |-> NoCode, chal |-> 0, pw |-> 0, late |-> FALSE]

Ended(r) == [NoSession EXCEPT !.via = r.via, !.chal = r.chal]

SessionIds == 1..MaxSession
Events == {"password", "factor"}
PCs == {"idle", "upgrade", "enrolled", "open", "issue", "present", "accept", "use", "spend",
        "read", "enrol", "mint", "satisfy", "delete", "codes", "update", "revoke", "discard", "edit"}
Ops == {"none", "login", "totp", "recovery", "enroll", "confirm", "disable", "regenerate",
        "password", "edit"}

(* What a request holds: its session, challenge, code; the secret, the password and
   the parameters of its hash (old) it read; the changes of credentials ("late")
   that were being completed while it ran. *)
Idle == [pc |-> "idle", op |-> "none", sid |-> 0, chal |-> 0, code |-> NoCode, secret |-> 0,
         pw |-> 0, old |-> FALSE, late |-> {}]
CallStates == [pc : PCs, op : Ops, sid : SessionIds \cup {0}, chal : Nat, code : Codes,
               secret : Nat, pw : Nat, old : BOOLEAN, late : SUBSET Events]

TypeOK ==
    /\ pw \in 1..MaxPw /\ rehash \in BOOLEAN /\ revived \in BOOLEAN
    /\ totp \in [secret : Nat, confirmed : BOOLEAN, last : Nat]
    /\ codes \subseteq [n : Nat, secret : Nat, late : BOOLEAN]
    /\ chal \in [id : Nat, spent : BOOLEAN, pw : Nat, late : BOOLEAN]
    /\ sess \in [SessionIds -> [live : BOOLEAN, mfa : BOOLEAN, via : Codes, chal : Nat, pw : Nat,
                                late : BOOLEAN]]
    /\ clock \in Nat
    /\ nPw \in 1..MaxPw /\ nSecret \in 0..MaxSecret /\ nCode \in 0..MaxCode
    /\ nChal \in 0..MaxChallenge /\ nSess \in 0..MaxSession
    /\ call \in [Calls -> CallStates] /\ begun \in 0..MaxCall
    /\ signedOut \in Nat /\ retired \subseteq Nat

\* An account with a password, and with nothing else or with the enrolment and the
\* codes that a confirmation in step 1 has left.
Init ==
    /\ pw = 1 /\ rehash \in BOOLEAN
    /\ \/ totp = NoTOTP /\ codes = {} /\ nSecret = 0 /\ nCode = 0
       \/ /\ totp = [secret |-> 1, confirmed |-> TRUE, last |-> 1]
          /\ codes = {[n |-> 1, secret |-> 1, late |-> FALSE]}
          /\ nSecret = 1 /\ nCode = 1
    /\ chal = NoChallenge
    /\ sess = [s \in SessionIds |-> NoSession]
    /\ clock = 1 /\ nPw = 1 /\ nChal = 0 /\ nSess = 0
    /\ call = [c \in Calls |-> Idle] /\ begun = 0
    /\ signedOut = 0 /\ revived = FALSE /\ retired = {}

\* Changes of credentials between their two invalidating writes.
Completing == {e \in Events : \E d \in Calls :
                  call[d].pc = IF e = "password" THEN "discard" ELSE "codes"}
Leaves(o) == IF o \in {"login", "totp", "recovery"} THEN {"password"}
             ELSE IF o \in {"confirm", "regenerate"} THEN {"factor"} ELSE {}
Begin(c, r) ==
    /\ call[c].pc = "idle" /\ begun < MaxCall
    /\ begun' = begun + 1
    /\ call' = [call EXCEPT ![c] = [r EXCEPT !.late = @ \cup (Completing \cap Leaves(r.op))]]
Hold(c, r) == call' = [call EXCEPT ![c] = r] /\ UNCHANGED begun
Goto(c, l) == Hold(c, [call[c] EXCEPT !.pc = l])
Return(c) == Hold(c, Idle)
At(c, o, l) == call[c].op = o /\ call[c].pc = l
\* Every other request in flight that leaves something behind runs across event e.
MarkLate(c, f, e) ==
    /\ UNCHANGED begun
    /\ call' = [d \in Calls |-> IF d = c THEN f
                                ELSE [call[d] EXCEPT !.late = @ \cup ({e} \cap Leaves(call[d].op))]]

-----------------------------------------------------------------------------
(* Login with the right password, and completeSignIn *)

Login(c) ==
    /\ Begin(c, [Idle EXCEPT !.op = "login", !.pc = IF rehash THEN "upgrade" ELSE "enrolled",
                             !.pw = pw])
    /\ UNCHANGED <<userRow, factor, chal, sess, clock, counters, history>>

\* Users.Update writes the whole row read before; its failure is swallowed.
UpgradeHash(c) ==
    /\ At(c, "login", "upgrade")
    /\ \/ pw' = call[c].pw /\ rehash' = FALSE /\ revived' = (revived \/ pw # call[c].pw)
       \/ UNCHANGED <<userRow, revived>>
    /\ Goto(c, "enrolled")
    /\ UNCHANGED <<factor, chal, sess, clock, counters, signedOut, retired>>

\* decideLogin: a confirmed authenticator is asked for whatever the policy; without one a
\* session follows, which a policy confines at Authenticate.
DecideLogin(c) ==
    /\ At(c, "login", "enrolled")
    /\ Goto(c, IF totp.confirmed THEN "open" ELSE "issue")
    /\ UNCHANGED <<userRow, factor, chal, sess, clock, counters, history>>

\* Open: the account's other challenges are deleted in the same transaction.
OpenChallenge(c) ==
    /\ At(c, "login", "open") /\ nChal < MaxChallenge
    /\ nChal' = nChal + 1
    /\ chal' = [id |-> nChal + 1, spent |-> FALSE, pw |-> call[c].pw, late |-> "password" \in call[c].late]
    /\ Return(c)
    /\ UNCHANGED <<userRow, factor, sess, clock, nPw, nSecret, nCode, nSess, history>>

\* Sessions.Issue, then SetLastLoginAt, whose failure leaves the row behind.  A
\* sign-in through VerifyTOTP or VerifyRecoveryCode has satisfied MFA.
Issue(c) ==
    /\ call[c].pc = "issue" /\ nSess < MaxSession
    /\ nSess' = nSess + 1
    /\ sess' = [sess EXCEPT ![nSess + 1] =
                  [live |-> TRUE, mfa |-> call[c].op # "login", via |-> call[c].code,
                   chal |-> call[c].chal, pw |-> call[c].pw, late |-> "password" \in call[c].late]]
    /\ Return(c)
    /\ UNCHANGED <<userRow, factor, chal, clock, nPw, nSecret, nCode, nChal, history>>

-----------------------------------------------------------------------------
(* VerifyTOTP and VerifyRecoveryCode *)

\* challenges.Resolve: neither spent nor expired (a challenge that expires is one nobody
\* resolves any more; Spend does not look at expires_at).
Resolve(c, o) ==
    /\ chal.id # 0 /\ ~chal.spent
    /\ Begin(c, [Idle EXCEPT !.op = o, !.pc = "present", !.chal = chal.id, !.pw = chal.pw,
                             !.late = IF chal.late THEN {"password"} ELSE {}])
    /\ UNCHANGED <<userRow, factor, chal, sess, clock, counters, history>>

\* totp.Validate: the steps around now that are later than the last one used.
Window == {t \in 1..MaxStep : t >= clock - Skew /\ t <= clock + Skew}
Validate(t) == t \in Window /\ t > totp.last

\* confirmedTOTP is read and the presented code matched against it.
PresentTOTP(c) ==
    /\ At(c, "totp", "present")
    /\ IF totp.confirmed
       THEN \E t \in 1..MaxStep :
              /\ Validate(t)
              /\ Hold(c, [call[c] EXCEPT !.pc = "accept", !.secret = totp.secret,
                                         !.code = Code("totp", totp.secret, t)])
       ELSE Return(c)
    /\ UNCHANGED <<userRow, factor, chal, sess, clock, counters, history>>

\* UPDATE ... WHERE user_id = ? AND last_used_step < ?: whichever secret the row now
\* holds.  No row is an error, a spent step a refusal.
Acceptable(k) == totp.secret # 0 /\ totp.last < k.step
Accepted(k) == [totp EXCEPT !.last = k.step, !.confirmed = TRUE]

Accept(c) ==
    LET k == call[c].code IN
    /\ call[c].pc = "accept"
    /\ IF Acceptable(k)
       THEN totp' = Accepted(k) /\ Goto(c, IF call[c].op = "totp" THEN "spend" ELSE "mint")
       ELSE UNCHANGED totp /\ Return(c)
    /\ UNCHANGED <<userRow, codes, chal, sess, clock, counters, history>>

\* The unused codes are read and one matches.
PresentRecovery(c) ==
    /\ At(c, "recovery", "present")
    /\ IF codes # {}
       THEN \E k \in codes :
              Hold(c, [call[c] EXCEPT !.pc = "use", !.code = Code("recovery", k.n, 0)])
       ELSE Return(c)
    /\ UNCHANGED <<userRow, factor, chal, sess, clock, counters, history>>

\* UPDATE ... WHERE id = ? AND used_at IS NULL
UseCode(c) ==
    LET used == {k \in codes : k.n = call[c].code.of} IN
    /\ call[c].pc = "use"
    /\ codes' = codes \ used
    /\ IF used # {} THEN Goto(c, "spend") ELSE Return(c)
    /\ UNCHANGED <<userRow, totp, chal, sess, clock, counters, history>>

\* [mutant] the challenge is marked spent without looking.
SpendBlindly(c) ==
    /\ call[c].pc = "spend"
    /\ chal' = IF chal.id = call[c].chal THEN Spent(chal.id) ELSE chal
    /\ Goto(c, "issue")
    /\ UNCHANGED <<userRow, factor, sess, clock, counters, history>>

\* challenges.Spend: of the requests on one challenge one goes on; a challenge that was
\* superseded or discarded is gone.
Spend(c) ==
    /\ call[c].pc = "spend"
    /\ IF chal.id = call[c].chal /\ ~chal.spent
       THEN chal' = Spent(chal.id) /\ Goto(c, "issue")
       ELSE UNCHANGED chal /\ Return(c)
    /\ UNCHANGED <<userRow, factor, sess, clock, counters, history>>

-----------------------------------------------------------------------------
(* Calls on a session: Authenticate, then EnrollTOTP, ConfirmTOTP, DisableTOTP,
   RegenerateRecoveryCodes or ChangePassword *)

\* Authenticate and confineToEnrolment.  An administrator may turn the MFA policy on or
\* off at any time, so what it says when it is read is a free choice: an unsatisfied
\* session is let through, confined to the enrolment endpoints, or refused.
Usable(s, o) ==
    /\ sess[s].live
    /\ \E required \in BOOLEAN :
          sess[s].mfa \/ ~required \/ (~totp.confirmed /\ o \in {"enroll", "confirm"})
    /\ o = "regenerate" => sess[s].mfa

Authenticate(c, s, o) ==
    /\ Usable(s, o)
    /\ Begin(c, [Idle EXCEPT !.op = o, !.pc = "read", !.sid = s])
    /\ UNCHANGED <<userRow, factor, chal, sess, clock, counters, history>>

\* EnrollTOTP refuses while a confirmed enrolment is read ...
EnrollRead(c) ==
    /\ At(c, "enroll", "read")
    /\ IF totp.confirmed THEN Return(c) ELSE Goto(c, "enrol")
    /\ UNCHANGED <<userRow, factor, chal, sess, clock, counters, history>>

\* ... and replaces whatever row there is by then.
Enroll(c) ==
    /\ call[c].pc = "enrol" /\ nSecret < MaxSecret
    /\ nSecret' = nSecret + 1
    /\ totp' = [secret |-> nSecret + 1, confirmed |-> FALSE, last |-> 0]
    /\ Return(c)
    /\ UNCHANGED <<userRow, codes, chal, sess, clock, nPw, nCode, nChal, nSess, history>>

\* ConfirmTOTP: the row is read and the code checked against it.
ConfirmRead(c) ==
    /\ At(c, "confirm", "read")
    /\ IF totp.secret # 0
       THEN \E t \in 1..MaxStep :
              /\ Validate(t)
              /\ Hold(c, [call[c] EXCEPT !.pc = "accept", !.secret = totp.secret,
                                         !.code = Code("totp", totp.secret, t)])
       ELSE Return(c)
    /\ UNCHANGED <<userRow, factor, chal, sess, clock, counters, history>>

\* issueRecoveryCodes: the account's codes are replaced.  One code stands for the set.
MintCodes(c) ==
    /\ call[c].pc = "mint" /\ nCode < MaxCode
    /\ nCode' = nCode + 1
    /\ codes' = {[n |-> nCode + 1, secret |-> call[c].secret, late |-> "factor" \in call[c].late]}
    /\ IF call[c].op = "confirm" THEN Goto(c, "satisfy") ELSE Return(c)
    /\ UNCHANGED <<userRow, totp, chal, sess, clock, nPw, nSecret, nChal, nSess, history>>

\* SatisfyMFA: a revoked session is not found; otherwise it is marked, and rotated.
SatisfyMFA(c) ==
    /\ call[c].pc = "satisfy"
    /\ sess' = IF sess[call[c].sid].live THEN [sess EXCEPT ![call[c].sid].mfa = TRUE] ELSE sess
    /\ Return(c)
    /\ UNCHANGED <<userRow, factor, chal, clock, counters, history>>

\* RegenerateRecoveryCodes: an enrolment must be confirmed.
RegenerateRead(c) ==
    /\ At(c, "regenerate", "read")
    /\ IF totp.confirmed
       THEN Hold(c, [call[c] EXCEPT !.pc = "mint", !.secret = totp.secret])
       ELSE Return(c)
    /\ UNCHANGED <<userRow, factor, chal, sess, clock, counters, history>>

\* DisableTOTP: refused while a factor is required.
DisableRead(c) ==
    /\ At(c, "disable", "read")
    /\ \E required \in BOOLEAN : IF required THEN Return(c) ELSE Goto(c, "delete")
    /\ UNCHANGED <<userRow, factor, chal, sess, clock, counters, history>>

DeleteTOTP(c) ==
    /\ call[c].pc = "delete"
    /\ totp' = NoTOTP
    /\ MarkLate(c, [call[c] EXCEPT !.pc = "codes", !.secret = totp.secret], "factor")
    /\ UNCHANGED <<userRow, codes, chal, sess, clock, counters, history>>

\* [mutant] the codes stay behind.
DeleteNoCodes(c) ==
    /\ call[c].pc = "codes"
    /\ retired' = retired \cup ({call[c].secret} \ {0})
    /\ Return(c)
    /\ UNCHANGED <<userRow, totp, codes, chal, sess, clock, counters, signedOut, revived>>

DeleteCodes(c) ==
    /\ call[c].pc = "codes"
    /\ codes' = {}
    /\ retired' = retired \cup ({call[c].secret} \ {0})
    /\ Return(c)
    /\ UNCHANGED <<userRow, totp, chal, sess, clock, counters, signedOut, revived>>

\* ChangePassword: the row read before is written with the new hash ...
ChangeRead(c) ==
    /\ At(c, "password", "read")
    /\ Goto(c, "update")
    /\ UNCHANGED <<userRow, factor, chal, sess, clock, counters, history>>

UpdatePassword(c) ==
    /\ call[c].pc = "update" /\ nPw < MaxPw
    /\ nPw' = nPw + 1 /\ pw' = nPw + 1 /\ rehash' = FALSE
    /\ Hold(c, [call[c] EXCEPT !.pc = "revoke", !.pw = nPw + 1])
    /\ UNCHANGED <<factor, chal, sess, clock, nSecret, nCode, nChal, nSess, history>>

\* ... every other session is revoked; this one has just proved the password ...
RevokeOthers(c) ==
    LET me == call[c].sid IN
    /\ call[c].pc = "revoke"
    /\ sess' = [s \in SessionIds |->
                  IF s # me THEN Ended(sess[s])
                  ELSE IF ~sess[s].live THEN sess[s]
                  ELSE [sess[s] EXCEPT !.pw = IF call[c].pw > @ THEN call[c].pw ELSE @]]
    /\ MarkLate(c, [call[c] EXCEPT !.pc = "discard"], "password")
    /\ UNCHANGED <<userRow, factor, chal, clock, counters, history>>

\* [mutant] pending challenges survive.
DiscardNothing(c) ==
    /\ call[c].pc = "discard"
    /\ signedOut' = IF call[c].pw > signedOut THEN call[c].pw ELSE signedOut
    /\ Return(c)
    /\ UNCHANGED <<userRow, factor, chal, sess, clock, counters, revived, retired>>

\* ... the pending challenge is dropped, and this session rotated.
Discard(c) ==
    /\ call[c].pc = "discard"
    /\ chal' = NoChallenge
    /\ signedOut' = IF call[c].pw > signedOut THEN call[c].pw ELSE signedOut
    /\ Return(c)
    /\ UNCHANGED <<userRow, factor, sess, clock, counters, revived, retired>>

\* UpdateAccount, SetAccountStatus, RenameSelf, and a federated sign-in that claims an
\* invitation or applies a mapped role: the row is read ...
EditRead(c) ==
    /\ Begin(c, [Idle EXCEPT !.op = "edit", !.pc = "edit", !.pw = pw, !.old = rehash])
    /\ UNCHANGED <<userRow, factor, chal, sess, clock, counters, history>>

\* ... and the whole of it is written, the hash read included.
EditWrite(c) ==
    /\ call[c].pc = "edit"
    /\ pw' = call[c].pw /\ rehash' = call[c].old /\ revived' = (revived \/ pw # call[c].pw)
    /\ Return(c)
    /\ UNCHANGED <<factor, chal, sess, clock, counters, signedOut, retired>>

\* Logout, or an administrator revoking the session.
Revoke(s) ==
    /\ sess[s].live
    /\ sess' = [sess EXCEPT ![s] = Ended(@)]
    /\ UNCHANGED <<userRow, factor, chal, clock, counters, call, begun, history>>

-----------------------------------------------------------------------------
(* The environment *)

\* The request is cancelled, or its next statement fails.
Fail(c) ==
    /\ call[c].pc # "idle"
    /\ Return(c)
    /\ UNCHANGED <<userRow, factor, chal, sess, clock, counters, history>>

Tick ==
    /\ clock < MaxStep
    /\ clock' = clock + 1
    /\ UNCHANGED <<userRow, factor, chal, sess, counters, call, begun, history>>

Step(c) ==
    \/ Login(c) \/ UpgradeHash(c) \/ DecideLogin(c) \/ OpenChallenge(c) \/ Issue(c)
    \/ \E o \in {"totp", "recovery"} : Resolve(c, o)
    \/ PresentTOTP(c) \/ Accept(c) \/ PresentRecovery(c) \/ UseCode(c) \/ Spend(c)
    \/ \E s \in SessionIds, o \in {"enroll", "confirm", "disable", "regenerate", "password"} :
          Authenticate(c, s, o)
    \/ EnrollRead(c) \/ Enroll(c) \/ ConfirmRead(c) \/ MintCodes(c) \/ SatisfyMFA(c)
    \/ RegenerateRead(c) \/ DisableRead(c) \/ DeleteTOTP(c) \/ DeleteCodes(c)
    \/ ChangeRead(c) \/ UpdatePassword(c) \/ RevokeOthers(c) \/ Discard(c)
    \/ EditRead(c) \/ EditWrite(c)
    \/ Fail(c)

Next == (\E c \in Calls : Step(c)) \/ (\E s \in SessionIds : Revoke(s)) \/ Tick

Spec == Init /\ [][Next]_vars

-----------------------------------------------------------------------------
(* Properties *)

\* "One correct code buys exactly one session" (VerifyTOTP, VerifyRecoveryCode): two
\* sessions are never bought by one code or on one challenge, although the code is
\* checked, accepted and the challenge spent in separate steps, and although Accept may
\* hit a row that another enrolment has replaced.
CodeBuysOneSession ==
    \A s, r \in SessionIds : s # r /\ sess[s].via # NoCode /\ sess[r].via # NoCode =>
        sess[s].via # sess[r].via /\ sess[s].chal # sess[r].chal

\* Once a password change has run to its end, a live session or an answerable challenge
\* that rests on an older password comes from a request that was under way between the
\* change's revocation and its discarding of challenges, or from an older password that a
\* hash upgrade or an edit of the account put back with the row it had read before.
OldPasswordOnlyInFlight ==
    ~revived =>
        /\ \A s \in SessionIds : sess[s].live /\ sess[s].pw < signedOut => sess[s].late
        /\ chal.id # 0 /\ ~chal.spent /\ chal.pw < signedOut => chal.late

\* Once the removal of an authenticator has run to its end, recovery codes that stand in
\* for it are left only by a request that was minting them while it ran.
RemovedFactorLeavesNoCodes ==
    \A k \in codes : k.secret \in retired => k.late

=============================================================================
