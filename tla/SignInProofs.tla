----------------------------- MODULE SignInProofs -----------------------------
(***************************************************************************)
(* Proofs about SignIn, for any number of requests and any bound on        *)
(* passwords, secrets, codes, challenges, sessions and steps.  Beside the  *)
(* types the inductive invariant has three parts that do not depend on     *)
(* each other: CInv for codes and challenges, PInv for passwords and       *)
(* sessions, FInv for the authenticator and its recovery codes.  Each has  *)
(* a part about the rows, one about each request and one about each pair   *)
(* of requests.                                                            *)
(***************************************************************************)
EXTENDS SignIn, TLAPS

Verifying == {"totp", "recovery"}
Signing == {"login", "totp", "recovery"}
Minting == {"confirm", "regenerate"}

\* Which call is at which step.
OpOK(k) ==
    /\ k.pc \in {"upgrade", "enrolled", "open"} => k.op = "login"
    /\ k.pc \in {"present", "spend"} => k.op \in Verifying
    /\ k.pc = "accept" => k.op \in {"totp", "confirm"}
    /\ k.pc = "use" => k.op = "recovery"
    /\ k.pc = "issue" => k.op \in Signing
    /\ k.pc = "mint" => k.op \in Minting
    /\ k.pc \in {"delete", "codes"} => k.op = "disable"
    /\ k.pc \in {"update", "revoke", "discard"} => k.op = "password"

OpsInv == \A c \in Calls : OpOK(call[c])

-----------------------------------------------------------------------------
(* Codes and challenges *)

\* The code cannot be presented again: the step of its secret is used, or it is gone.
Used(k) ==
    /\ k.kind \in {"totp", "recovery"}
    /\ k.kind = "totp" => k.of \in 1..nSecret /\ (totp.secret = k.of => k.step <= totp.last)
    /\ k.kind = "recovery" => k.of \in 1..nCode /\ \A r \in codes : r.n # k.of

\* The challenge cannot be spent again.
Closed(h) == h \in 1..nChal /\ (chal.id = h => chal.spent)

Buys(k) == k.pc = "issue" /\ k.op # "login"
Bears(k) == k.pc \in {"accept", "use", "spend"} /\ k.op \in Verifying
Bought(r) == r.via # NoCode

CRows ==
    /\ chal.id \in {0, nChal}
    /\ totp.secret \in 0..nSecret /\ (totp.confirmed => totp.secret # 0)
    /\ \A k \in codes : k.n \in 1..nCode
    /\ \A s \in SessionIds : Bought(sess[s]) => Used(sess[s].via) /\ Closed(sess[s].chal)
    /\ CodeBuysOneSession

\* A code on its way may be one that a session was bought with, but only on the same challenge
\* or an older one, which nobody can spend any more.
CCall(k) ==
    /\ k.op = "login" => k.code = NoCode
    /\ k.op \in Verifying => k.chal \in 1..nChal
    /\ k.pc = "accept" => k.code.kind = "totp" /\ k.code.of \in 1..nSecret
    /\ k.pc = "use" => k.code.kind = "recovery" /\ k.code.of \in 1..nCode
    /\ k.pc = "spend" => Used(k.code)
    /\ Buys(k) => Used(k.code) /\ Closed(k.chal)
    /\ \A s \in SessionIds : Bought(sess[s]) =>
          /\ Bears(k) /\ sess[s].chal < k.chal => k.code # sess[s].via
          /\ Buys(k) => k.code # sess[s].via /\ k.chal # sess[s].chal

CPair(k, m) ==
    Buys(m) => /\ Bears(k) /\ m.chal < k.chal => k.code # m.code
               /\ Buys(k) => k.code # m.code /\ k.chal # m.chal

CInv ==
    /\ CRows
    /\ \A c \in Calls : CCall(call[c])
    /\ \A c, d \in Calls : c # d => CPair(call[c], call[d])

-----------------------------------------------------------------------------
(* Passwords and sessions *)

PRows ==
    /\ pw <= nPw /\ signedOut <= nPw
    /\ ~revived => pw = nPw
    /\ OldPasswordOnlyInFlight

\* A change of password past its revocation: what rests on an older one is late.
PCall(k) ==
    /\ k.op = "login" => k.pw \in 1..nPw
    /\ k.pc \in {"revoke", "discard", "edit"} => k.pw \in 1..nPw
    /\ ~revived /\ k.op \in Signing /\ k.pw < signedOut => "password" \in k.late
    /\ ~revived /\ k.pc = "discard" =>
          \A s \in SessionIds : sess[s].live /\ sess[s].pw < k.pw => sess[s].late

PPair(k, m) ==
    ~revived /\ k.pc = "discard" /\ m.op \in Signing /\ m.pw < k.pw => "password" \in m.late

PInv ==
    /\ PRows
    /\ \A c \in Calls : PCall(call[c])
    /\ \A c, d \in Calls : c # d => PPair(call[c], call[d])

-----------------------------------------------------------------------------
(* The authenticator and its codes *)

FRows ==
    /\ totp.secret \in 0..nSecret /\ retired \subseteq 1..nSecret
    /\ totp.secret \notin retired
    /\ RemovedFactorLeavesNoCodes

\* A removal between its two writes: the secret is gone for good, and a request that mints
\* codes for it is late.
FCall(k) ==
    /\ k.op \in Minting /\ k.secret \in retired => "factor" \in k.late
    /\ k.pc = "codes" /\ k.secret # 0 => k.secret \in 1..nSecret /\ totp.secret # k.secret

FPair(k, m) ==
    k.pc = "codes" /\ k.secret # 0 /\ m.op \in Minting /\ m.secret = k.secret => "factor" \in m.late

FInv ==
    /\ FRows
    /\ \A c \in Calls : FCall(call[c])
    /\ \A c, d \in Calls : c # d => FPair(call[c], call[d])

IInv == TypeOK /\ OpsInv /\ CInv /\ PInv /\ FInv

-----------------------------------------------------------------------------
(* How the requests move *)

\* Another request's step leaves a request as it is, or marks it late.
Same(k, m) ==
    /\ m.pc = k.pc /\ m.op = k.op /\ m.chal = k.chal /\ m.code = k.code
    /\ m.secret = k.secret /\ m.pw = k.pw /\ k.late \subseteq m.late

Moves(c, n) ==
    /\ call' \in [Calls -> CallStates] /\ call'[c] = n
    /\ \A d \in Calls : d # c => Same(call[d], call'[d])

LEMMA IdleType ==
    /\ Idle \in CallStates /\ Idle.pc = "idle" /\ Idle.op = "none" /\ Idle.sid = 0 /\ Idle.chal = 0
    /\ Idle.code = NoCode /\ Idle.secret = 0 /\ Idle.pw = 0 /\ Idle.late = {}
BY DEF Idle, CallStates, NoCode, Code, Codes, PCs, Ops

LEMMA CodeType ==
    /\ NoCode \in Codes /\ NoCode.kind = "none"
    /\ \A k \in {"totp", "recovery"}, i \in Nat, t \in Nat :
          /\ Code(k, i, t) \in Codes /\ Code(k, i, t).kind = k
          /\ Code(k, i, t).of = i /\ Code(k, i, t).step = t
BY DEF NoCode, Code, Codes

LEMMA HoldMoves ==
    ASSUME TypeOK, NEW c \in Calls, NEW n \in CallStates, Hold(c, n)
    PROVE  Moves(c, n) /\ UNCHANGED begun /\ \A d \in Calls : d # c => call'[d] = call[d]
BY DEF TypeOK, Hold, Moves, Same

LEMMA ReturnMoves ==
    ASSUME TypeOK, NEW c \in Calls, Return(c)
    PROVE  Moves(c, Idle) /\ UNCHANGED begun /\ \A d \in Calls : d # c => call'[d] = call[d]
BY IdleType, HoldMoves DEF Return

LEMMA GotoMoves ==
    ASSUME TypeOK, NEW c \in Calls, NEW l \in PCs, Goto(c, l)
    PROVE  \E n \in CallStates :
              /\ Moves(c, n) /\ UNCHANGED begun /\ \A d \in Calls : d # c => call'[d] = call[d]
              /\ n.pc = l /\ n.op = call[c].op /\ n.sid = call[c].sid /\ n.chal = call[c].chal
              /\ n.code = call[c].code /\ n.secret = call[c].secret /\ n.pw = call[c].pw
              /\ n.late = call[c].late
<1> DEFINE n == [call[c] EXCEPT !.pc = l]
<1>1. call[c] \in CallStates
  BY DEF TypeOK
<1>2. n \in CallStates
  BY <1>1 DEF CallStates
<1>3. /\ n.pc = l /\ n.op = call[c].op /\ n.sid = call[c].sid /\ n.chal = call[c].chal
      /\ n.code = call[c].code /\ n.secret = call[c].secret /\ n.pw = call[c].pw
      /\ n.late = call[c].late
  BY <1>1 DEF CallStates
<1>4. Hold(c, n)
  BY DEF Goto
<1> HIDE DEF n
<1> QED
  BY <1>2, <1>3, <1>4, HoldMoves

\* Requests that leave something behind are marked by a change of credentials.
LEMMA MarkMoves ==
    ASSUME TypeOK, NEW c \in Calls, NEW n \in CallStates, NEW e \in Events, MarkLate(c, n, e)
    PROVE  /\ Moves(c, n) /\ UNCHANGED begun
           /\ \A d \in Calls : d # c /\ e \in Leaves(call[d].op) => e \in call'[d].late
<1>1. \A d \in Calls : call[d] \in CallStates
  BY DEF TypeOK
<1>2. \A d \in Calls : d # c =>
         call'[d] = [call[d] EXCEPT !.late = @ \cup ({e} \cap Leaves(call[d].op))]
  BY DEF MarkLate
<1>3. \A d \in Calls : d # c => /\ call'[d] \in CallStates /\ Same(call[d], call'[d])
                                /\ e \in Leaves(call[d].op) => e \in call'[d].late
  <2> TAKE d \in Calls
  <2> HAVE d # c
  <2> DEFINE L == call[d].late \cup ({e} \cap Leaves(call[d].op))
             m == [call[d] EXCEPT !.late = L]
  <2>1. call[d] \in CallStates /\ L \in SUBSET Events
    BY <1>1 DEF CallStates
  <2> HIDE DEF L
  <2>2. m \in CallStates /\ m.late = L /\ m.pc = call[d].pc /\ m.op = call[d].op
        /\ m.chal = call[d].chal /\ m.code = call[d].code /\ m.secret = call[d].secret
        /\ m.pw = call[d].pw
    BY <2>1 DEF CallStates
  <2>3. call'[d] = m
    BY <1>2 DEF L
  <2> QED
    BY <2>2, <2>3 DEF L, Same
<1>4. call'[c] = n /\ UNCHANGED begun /\ DOMAIN call' = Calls /\ call' = [d \in Calls |-> call'[d]]
  BY DEF MarkLate
<1> QED
  BY <1>3, <1>4 DEF Moves

LEMMA OpsMove ==
    ASSUME OpsInv, NEW c \in Calls, NEW n \in CallStates, Moves(c, n), OpOK(n)
    PROVE  OpsInv'
BY DEF OpsInv, OpOK, Moves, Same

-----------------------------------------------------------------------------
(* What the three parts need of a step *)

LEMMA CQuiet ==
    ASSUME TypeOK, TypeOK', CInv,
           \A k \in Codes : Used(k) => Used(k)',
           \A h \in Nat : Closed(h) => Closed(h)',
           \A s \in SessionIds : sess'[s].via = sess[s].via /\ sess'[s].chal = sess[s].chal,
           nChal <= nChal', nSecret <= nSecret', nCode <= nCode',
           chal'.id \in {0, nChal'}, totp'.secret \in 0..nSecret', totp'.confirmed => totp'.secret # 0,
           \A k \in codes' : k.n \in 1..nCode',
           \A d \in Calls : Same(call[d], call'[d]) \/ CCall(call[d])',
           \A d, e \in Calls : d # e =>
               \/ Same(call[d], call'[d]) /\ Same(call[e], call'[e])
               \/ CPair(call'[d], call'[e])
    PROVE  CInv'
<1>1. \A s \in SessionIds : sess[s].via \in Codes /\ sess[s].chal \in Nat
  BY DEF TypeOK
<1>2. CRows'
  <2>1. \A s \in SessionIds : Bought(sess[s])' => Used(sess[s].via)' /\ Closed(sess[s].chal)'
    <3> SUFFICES ASSUME NEW s \in SessionIds, Bought(sess[s])'
                 PROVE  Used(sess[s].via)' /\ Closed(sess[s].chal)'
      OBVIOUS
    <3>1. Used(sess[s].via) /\ Closed(sess[s].chal)
      BY DEF CInv, CRows, Bought
    <3>2. PICK v \in Codes, h \in Nat : v = sess[s].via /\ h = sess[s].chal
      BY <1>1
    <3>3. Used(v)' /\ Closed(h)'
      BY <3>1, <3>2
    <3>4. v = sess'[s].via /\ h = sess'[s].chal
      BY <3>2
    <3> QED
      BY <3>3, <3>4 DEF Used, Closed
  <2>2. CodeBuysOneSession'
    BY DEF CInv, CRows, CodeBuysOneSession
  <2> QED
    BY <2>1, <2>2 DEF CRows
<1>3. \A d \in Calls : CCall(call[d])'
  <2> SUFFICES ASSUME NEW d \in Calls, Same(call[d], call'[d]) PROVE CCall(call[d])'
    OBVIOUS
  <2>1. PICK k \in CallStates : k = call'[d]
    BY DEF TypeOK
  <2>2. CCall(k)
    BY <2>1 DEF CInv, CCall, Same, Bears, Buys
  <2>3. k.code \in Codes /\ k.chal \in Nat
    BY DEF CallStates
  <2>4. CCall(k)'
    BY <2>2, <2>3 DEF CCall, Bought, TypeOK
  <2> QED
    BY <2>1, <2>4
<1>4. \A d, e \in Calls : d # e => CPair(call[d], call[e])'
  BY DEF CInv, CPair, Same, Bears, Buys
<1> QED
  BY <1>2, <1>3, <1>4 DEF CInv

LEMMA CMove ==
    ASSUME TypeOK, TypeOK', CInv, NEW c \in Calls, NEW n \in CallStates, Moves(c, n),
           \A k \in Codes : Used(k) => Used(k)',
           \A h \in Nat : Closed(h) => Closed(h)',
           \A s \in SessionIds : sess'[s].via = sess[s].via /\ sess'[s].chal = sess[s].chal,
           nChal <= nChal', nSecret <= nSecret', nCode <= nCode',
           chal'.id \in {0, nChal'}, totp'.secret \in 0..nSecret', totp'.confirmed => totp'.secret # 0,
           \A k \in codes' : k.n \in 1..nCode',
           ~Buys(n), CCall(n)', \A d \in Calls : d # c => CPair(n, call[d])
    PROVE  CInv'
<1>1. \A d \in Calls : Same(call[d], call'[d]) \/ CCall(call[d])'
  <2> SUFFICES ASSUME NEW d \in Calls, d = c PROVE CCall(call[d])'
    BY DEF Moves
  <2>1. call'[d] = n
    BY DEF Moves
  <2> QED
    BY <2>1
<1>2. \A d, e \in Calls : d # e =>
         \/ Same(call[d], call'[d]) /\ Same(call[e], call'[e])
         \/ CPair(call'[d], call'[e])
  BY DEF Moves, Same, CPair, Buys
<1> QED
  BY <1>1, <1>2, CQuiet

\* Steps that end no change of password.
LEMMA PQuiet ==
    ASSUME TypeOK, TypeOK', PInv, revived => revived', signedOut' = signedOut, nPw <= nPw',
           pw' <= nPw', ~revived' => pw' = nPw',
           \A s \in SessionIds : sess'[s].live =>
               sess[s].live /\ sess[s].pw <= sess'[s].pw /\ sess'[s].late = sess[s].late,
           \/ chal' = chal \/ chal'.id = 0 \/ chal'.spent
           \/ (~revived' /\ chal'.pw < signedOut => chal'.late),
           \A d \in Calls :
               Same(call[d], call'[d]) \/ (call'[d].pc # "discard" /\ PCall(call[d])'),
           \A d, e \in Calls : d # e =>
               \/ Same(call[d], call'[d]) /\ Same(call[e], call'[e])
               \/ PPair(call[d], call[e])'
    PROVE  PInv'
<1>1. /\ \A s \in SessionIds : sess[s].pw \in Nat /\ sess'[s].pw \in Nat
      /\ \A d \in Calls : call[d].pw \in Nat /\ call'[d].pw \in Nat
      /\ signedOut \in Nat /\ nPw \in Nat /\ nPw' \in Nat
  BY SignInAssumption DEF TypeOK, CallStates
<1>2. PRows'
  <2>1. OldPasswordOnlyInFlight'
    BY <1>1 DEF PInv, PRows, OldPasswordOnlyInFlight
  <2>2. signedOut' <= nPw'
    BY <1>1 DEF PInv, PRows
  <2> QED
    BY <2>1, <2>2 DEF PRows
<1>3. \A d \in Calls : PCall(call[d])'
  <2> SUFFICES ASSUME NEW d \in Calls, Same(call[d], call'[d]) PROVE PCall(call[d])'
    OBVIOUS
  <2>1. PCall(call[d])
    BY DEF PInv
  <2> QED
    BY <1>1, <2>1 DEF PCall, Same
<1>4. \A d, e \in Calls : d # e => PPair(call[d], call[e])'
  BY DEF PInv, PPair, Same
<1> QED
  BY <1>2, <1>3, <1>4 DEF PInv

LEMMA PMove ==
    ASSUME TypeOK, TypeOK', PInv, NEW c \in Calls, NEW n \in CallStates, Moves(c, n),
           revived => revived', signedOut' = signedOut, nPw <= nPw',
           pw' <= nPw', ~revived' => pw' = nPw',
           \A s \in SessionIds : sess'[s].live =>
               sess[s].live /\ sess[s].pw <= sess'[s].pw /\ sess'[s].late = sess[s].late,
           \/ chal' = chal \/ chal'.id = 0 \/ chal'.spent
           \/ (~revived' /\ chal'.pw < signedOut => chal'.late),
           n.pc # "discard", PCall(n)',
           \A d \in Calls : d # c /\ ~revived' /\ call[d].pc = "discard" /\ n.op \in Signing =>
               call[d].pw <= n.pw \/ "password" \in n.late
    PROVE  PInv'
<1>1. \A d \in Calls : Same(call[d], call'[d]) \/ (call'[d].pc # "discard" /\ PCall(call[d])')
  <2> SUFFICES ASSUME NEW d \in Calls, d = c PROVE call'[d].pc # "discard" /\ PCall(call[d])'
    BY DEF Moves
  <2>1. call'[d] = n
    BY DEF Moves
  <2> QED
    BY <2>1
<1>2. \A d, e \in Calls : d # e =>
         \/ Same(call[d], call'[d]) /\ Same(call[e], call'[e])
         \/ PPair(call[d], call[e])'
  <2> SUFFICES ASSUME NEW d \in Calls, NEW e \in Calls, d # e, d = c \/ e = c PROVE PPair(call[d], call[e])'
    BY DEF Moves
  <2>1. CASE d = c
    BY <2>1 DEF PPair, Moves
  <2>2. CASE e = c
    <3>1. call[d].pw \in Nat /\ n.pw \in Nat
      BY DEF TypeOK, CallStates
    <3> QED
      BY <2>2, <3>1 DEF PPair, Moves, Same
  <2> QED
    BY <2>1, <2>2
<1> QED
  BY <1>1, <1>2, PQuiet

\* Steps that end no removal of an authenticator.
LEMMA FQuiet ==
    ASSUME TypeOK, TypeOK', FInv, retired' = retired, nSecret <= nSecret',
           totp'.secret \in 0..nSecret',
           \/ totp'.secret = totp.secret \/ totp'.secret = 0 \/ totp'.secret > nSecret,
           \A k \in codes' : k \in codes \/ (k.secret \in retired => k.late),
           \A d \in Calls : Same(call[d], call'[d]) \/ (call'[d].pc # "codes" /\ FCall(call[d])'),
           \A d, e \in Calls : d # e =>
               \/ Same(call[d], call'[d]) /\ Same(call[e], call'[e])
               \/ FPair(call'[d], call'[e])
    PROVE  FInv'
<1>1. nSecret \in Nat /\ nSecret' \in Nat /\ totp.secret \in Nat /\ totp'.secret \in Nat
  BY SignInAssumption DEF TypeOK
<1>2. FRows'
  <2>1. RemovedFactorLeavesNoCodes'
    BY DEF FInv, FRows, RemovedFactorLeavesNoCodes
  <2>2. retired' \subseteq 1..nSecret' /\ totp'.secret \notin retired'
    BY <1>1 DEF FInv, FRows
  <2> QED
    BY <2>1, <2>2 DEF FRows
<1>3. \A d \in Calls : FCall(call[d])'
  <2> SUFFICES ASSUME NEW d \in Calls, Same(call[d], call'[d]) PROVE FCall(call[d])'
    OBVIOUS
  <2>1. FCall(call[d]) /\ call[d].secret \in Nat
    BY DEF FInv, TypeOK, CallStates
  <2> QED
    BY <1>1, <2>1 DEF FCall, Same
<1>4. \A d, e \in Calls : d # e => FPair(call[d], call[e])'
  BY DEF FInv, FPair, Same
<1> QED
  BY <1>2, <1>3, <1>4 DEF FInv

LEMMA FMove ==
    ASSUME TypeOK, TypeOK', FInv, NEW c \in Calls, NEW n \in CallStates, Moves(c, n),
           retired' = retired, nSecret <= nSecret', totp'.secret \in 0..nSecret',
           \/ totp'.secret = totp.secret \/ totp'.secret = 0 \/ totp'.secret > nSecret,
           \A k \in codes' : k \in codes \/ (k.secret \in retired => k.late),
           n.pc # "codes", FCall(n)', \A d \in Calls : d # c => FPair(call[d], n)
    PROVE  FInv'
<1>1. \A d \in Calls : Same(call[d], call'[d]) \/ (call'[d].pc # "codes" /\ FCall(call[d])')
  <2> SUFFICES ASSUME NEW d \in Calls, d = c PROVE call'[d].pc # "codes" /\ FCall(call[d])'
    BY DEF Moves
  <2>1. call'[d] = n
    BY DEF Moves
  <2> QED
    BY <2>1
<1>2. \A d, e \in Calls : d # e =>
         \/ Same(call[d], call'[d]) /\ Same(call[e], call'[e])
         \/ FPair(call'[d], call'[e])
  BY DEF Moves, Same, FPair
<1> QED
  BY <1>1, <1>2, FQuiet

-----------------------------------------------------------------------------
(* Steps that change nothing but one request *)

rows == <<userRow, factor, chal, sess, clock, counters, history>>

LEMMA CallOnly ==
    ASSUME IInv, NEW c \in Calls, NEW n \in CallStates, Moves(c, n), begun' \in 0..MaxCall,
           UNCHANGED rows, OpOK(n), ~Buys(n), CCall(n), \A d \in Calls : d # c => CPair(n, call[d]),
           n.pc \notin {"discard", "codes"}, PCall(n), FCall(n),
           \A d \in Calls : d # c => PPair(call[d], n) /\ FPair(call[d], n)
    PROVE  IInv'
<1> USE DEF rows, userRow, factor, counters, history
<1>1. TypeOK'
  BY DEF IInv, TypeOK, Moves
<1>2. OpsInv'
  BY OpsMove DEF IInv
<1>3. CInv'
  <2>1. CCall(n)' /\ (\A k \in Codes : Used(k) => Used(k)') /\ \A h \in Nat : Closed(h) => Closed(h)'
    BY DEF CCall, Used, Closed, Bought
  <2>2. nChal \in Nat /\ nSecret \in Nat /\ nCode \in Nat
    BY SignInAssumption DEF IInv, TypeOK
  <2>3. /\ chal'.id \in {0, nChal'} /\ totp'.secret \in 0..nSecret' /\ (totp'.confirmed => totp'.secret # 0)
        /\ \A k \in codes' : k.n \in 1..nCode'
    BY DEF IInv, CInv, CRows
  <2>4. nChal <= nChal' /\ nSecret <= nSecret' /\ nCode <= nCode'
    BY <2>2
  <2>5. TypeOK /\ CInv
    BY DEF IInv
  <2> QED
    BY <1>1, <2>1, <2>3, <2>4, <2>5, CMove
<1>4. PInv'
  <2>1. PCall(n)'
    BY DEF PCall
  <2>2. /\ nPw \in Nat /\ \A s \in SessionIds : sess[s].pw \in Nat
        /\ n.pw \in Nat /\ \A d \in Calls : call[d].pw \in Nat
    BY SignInAssumption DEF IInv, TypeOK, CallStates
  <2>3. \A s \in SessionIds : sess'[s].live =>
           sess[s].live /\ sess[s].pw <= sess'[s].pw /\ sess'[s].late = sess[s].late
    BY <2>2
  <2>4. \A d \in Calls : d # c /\ ~revived' /\ call[d].pc = "discard" /\ n.op \in Signing =>
           call[d].pw <= n.pw \/ "password" \in n.late
    BY <2>2 DEF PPair
  <2>5. nPw <= nPw' /\ pw' <= nPw' /\ (~revived' => pw' = nPw') /\ chal' = chal
    BY <2>2 DEF IInv, PInv, PRows
  <2>6. TypeOK /\ PInv
    BY DEF IInv
  <2> QED
    BY <1>1, <2>1, <2>3, <2>4, <2>5, <2>6, PMove
<1>5. FInv'
  <2>1. FCall(n)'
    BY DEF FCall
  <2>2. nSecret \in Nat
    BY SignInAssumption DEF IInv, TypeOK
  <2>3. nSecret <= nSecret' /\ totp'.secret \in 0..nSecret'
    BY <2>2 DEF IInv, FInv, FRows
  <2>4. TypeOK /\ FInv
    BY DEF IInv
  <2> QED
    BY <1>1, <2>1, <2>3, <2>4, FMove
<1> QED
  BY <1>1, <1>2, <1>3, <1>4, <1>5 DEF IInv

\* A request that returns is as good as none.
LEMMA IdleOK ==
    ASSUME IInv
    PROVE  /\ OpOK(Idle) /\ ~Buys(Idle) /\ ~Bears(Idle) /\ CCall(Idle) /\ PCall(Idle) /\ FCall(Idle)
           /\ CCall(Idle)' /\ PCall(Idle)' /\ FCall(Idle)'
           /\ Idle.pc \notin {"discard", "codes"} /\ Idle.op \notin Signing \cup Minting
           /\ \A m : CPair(Idle, m) /\ PPair(m, Idle) /\ FPair(m, Idle)
BY IdleType DEF OpOK, Buys, Bears, CCall, PCall, FCall, CPair, PPair, FPair, Verifying, Signing, Minting

LEMMA ReturnInv ==
    ASSUME IInv, NEW c \in Calls, Return(c), UNCHANGED rows
    PROVE  IInv'
<1>1. Moves(c, Idle) /\ begun' \in 0..MaxCall
  BY ReturnMoves DEF IInv, TypeOK
<1> QED
  BY <1>1, IdleType, IdleOK, CallOnly

LEMMA CallFacts ==
    ASSUME IInv, NEW c \in Calls
    PROVE  /\ call[c] \in CallStates /\ OpOK(call[c]) /\ CCall(call[c]) /\ PCall(call[c]) /\ FCall(call[c])
           /\ \A d \in Calls : d # c =>
                 CPair(call[c], call[d]) /\ PPair(call[d], call[c]) /\ FPair(call[d], call[c])
BY DEF IInv, TypeOK, OpsInv, CInv, PInv, FInv

\* A request that goes on without reading anything it keeps.
LEMMA GotoInv ==
    ASSUME IInv, NEW c \in Calls, NEW l \in PCs, Goto(c, l), UNCHANGED rows,
           \/ l \in {"enrolled", "open", "issue"} /\ call[c].op = "login"
           \/ l = "enrol"
           \/ l = "delete" /\ call[c].op = "disable"
           \/ l = "update" /\ call[c].op = "password"
    PROVE  IInv'
<1>1. PICK n \in CallStates :
         /\ Moves(c, n) /\ UNCHANGED begun
         /\ n.pc = l /\ n.op = call[c].op /\ n.chal = call[c].chal
         /\ n.code = call[c].code /\ n.secret = call[c].secret /\ n.pw = call[c].pw
         /\ n.late = call[c].late
  BY GotoMoves DEF IInv
<1>2. begun' \in 0..MaxCall
  BY <1>1 DEF IInv, TypeOK
<1>3. OpOK(n) /\ ~Buys(n) /\ ~Bears(n) /\ n.pc \notin {"discard", "codes"}
  BY <1>1 DEF OpOK, Buys, Bears, Signing, Verifying
<1>4. CCall(n) /\ \A d \in Calls : d # c => CPair(n, call[d])
  BY <1>1, <1>3, CallFacts DEF CCall, CPair
<1>5. PCall(n) /\ FCall(n) /\ \A d \in Calls : d # c => PPair(call[d], n) /\ FPair(call[d], n)
  BY <1>1, CallFacts DEF PCall, FCall, PPair, FPair
<1> QED
  BY <1>1, <1>2, <1>3, <1>4, <1>5, CallOnly

-----------------------------------------------------------------------------
(* Requests begin *)

LEMMA BeginMoves ==
    ASSUME TypeOK, NEW c \in Calls, NEW r \in CallStates, Begin(c, r)
    PROVE  /\ begun' \in 0..MaxCall
           /\ \E n \in CallStates :
                 /\ Moves(c, n) /\ n.pc = r.pc /\ n.op = r.op /\ n.chal = r.chal /\ n.code = r.code
                 /\ n.secret = r.secret /\ n.pw = r.pw
                 /\ n.late = r.late \cup (Completing \cap Leaves(r.op))
<1> DEFINE L == r.late \cup (Completing \cap Leaves(r.op))
           n == [r EXCEPT !.late = L]
<1>1. L \in SUBSET Events
  BY DEF CallStates, Completing
<1> HIDE DEF L
<1>2. /\ n \in CallStates /\ n.pc = r.pc /\ n.op = r.op /\ n.chal = r.chal /\ n.code = r.code
      /\ n.secret = r.secret /\ n.pw = r.pw /\ n.late = L
  BY <1>1 DEF CallStates
<1>3. call' = [call EXCEPT ![c] = n]
  BY DEF Begin, L
<1> HIDE DEF n
<1>4. Moves(c, n)
  BY <1>2, <1>3 DEF Moves, Same, TypeOK
<1>5. begun' \in 0..MaxCall
  BY SignInAssumption DEF Begin, TypeOK
<1> QED
  BY <1>2, <1>4, <1>5 DEF L

\* The password just read is the newest, unless an outdated one was written back.
LEMMA LoginInv ==
    ASSUME IInv, NEW c \in Calls, Login(c)
    PROVE  IInv'
<1>1. pw \in 1..nPw /\ pw \in Nat /\ nPw \in Nat /\ signedOut <= nPw /\ (~revived => pw = nPw)
  BY SignInAssumption DEF IInv, TypeOK, PInv, PRows
<1>2. PICK l \in {"upgrade", "enrolled"} : Begin(c, [Idle EXCEPT !.op = "login", !.pc = l, !.pw = pw])
  BY DEF Login
<1>3. PICK r \in CallStates : /\ r.op = "login" /\ r.pc = l /\ r.pw = pw /\ r.code = NoCode
                              /\ Begin(c, r)
  <2> DEFINE r == [Idle EXCEPT !.op = "login", !.pc = l, !.pw = pw]
  <2>1. r \in CallStates /\ r.op = "login" /\ r.pc = l /\ r.pw = pw /\ r.code = NoCode
    BY <1>1, IdleType DEF CallStates, PCs, Ops
  <2> QED
    BY <1>2, <2>1
<1>4. PICK n \in CallStates : /\ Moves(c, n) /\ n.op = "login" /\ n.pc = l /\ n.pw = pw /\ n.code = NoCode
                              /\ begun' \in 0..MaxCall
  BY <1>3, BeginMoves DEF IInv
<1>5. UNCHANGED rows
  BY DEF Login, rows
<1>6. OpOK(n) /\ ~Buys(n) /\ ~Bears(n) /\ n.pc \notin {"discard", "codes"}
  BY <1>4 DEF OpOK, Buys, Bears
<1>7. CCall(n) /\ \A d \in Calls : d # c => CPair(n, call[d])
  BY <1>4, <1>6 DEF CCall, CPair, Verifying
<1>8. \A d \in Calls : call[d].pc = "discard" => call[d].pw \in 1..nPw
  BY DEF IInv, PInv, PCall
<1>9. signedOut \in Nat
  BY DEF IInv, TypeOK
<1>10. PCall(n) /\ \A d \in Calls : d # c => PPair(call[d], n)
  BY <1>1, <1>4, <1>8, <1>9 DEF PCall, PPair
<1>11. FCall(n) /\ \A d \in Calls : d # c => FPair(call[d], n)
  BY <1>4 DEF FCall, FPair, Minting
<1> QED
  BY <1>4, <1>5, <1>6, <1>7, <1>10, <1>11, CallOnly

\* The row read for an edit has a password the account has had.
LEMMA EditReadInv ==
    ASSUME IInv, NEW c \in Calls, EditRead(c)
    PROVE  IInv'
<1>1. pw \in 1..nPw /\ pw \in Nat /\ rehash \in BOOLEAN
  BY SignInAssumption DEF IInv, TypeOK, PInv, PRows
<1>2. PICK r \in CallStates : /\ r.op = "edit" /\ r.pc = "edit" /\ r.pw = pw /\ r.code = NoCode
                              /\ Begin(c, r)
  <2> DEFINE r == [Idle EXCEPT !.op = "edit", !.pc = "edit", !.pw = pw, !.old = rehash]
  <2>1. r \in CallStates /\ r.op = "edit" /\ r.pc = "edit" /\ r.pw = pw /\ r.code = NoCode
    BY <1>1, IdleType DEF CallStates, PCs, Ops
  <2> QED
    BY <2>1 DEF EditRead
<1>3. PICK n \in CallStates : /\ Moves(c, n) /\ n.op = "edit" /\ n.pc = "edit" /\ n.pw = pw
                              /\ begun' \in 0..MaxCall
  BY <1>2, BeginMoves DEF IInv
<1>4. UNCHANGED rows
  BY DEF EditRead, rows
<1>5. OpOK(n) /\ ~Buys(n) /\ ~Bears(n) /\ n.pc \notin {"discard", "codes"}
  BY <1>3 DEF OpOK, Buys, Bears
<1>6. CCall(n) /\ \A d \in Calls : d # c => CPair(n, call[d])
  BY <1>3, <1>5 DEF CCall, CPair, Verifying
<1>7. PCall(n) /\ \A d \in Calls : d # c => PPair(call[d], n)
  BY <1>1, <1>3 DEF PCall, PPair, Signing
<1>8. FCall(n) /\ \A d \in Calls : d # c => FPair(call[d], n)
  BY <1>3 DEF FCall, FPair, Minting
<1> QED
  BY <1>3, <1>4, <1>5, <1>6, <1>7, <1>8, CallOnly

\* A verification carries what its challenge rests on; during a change of password it is late.
LEMMA ResolveInv ==
    ASSUME IInv, NEW c \in Calls, NEW o \in Verifying, Resolve(c, o)
    PROVE  IInv'
<1>1. chal.id \in 1..nChal /\ chal.id \in Nat /\ chal.pw \in Nat /\ ~chal.spent
  BY SignInAssumption DEF IInv, TypeOK, CInv, CRows, Resolve
<1>2. PICK L \in SUBSET Events : /\ chal.late => "password" \in L
                                 /\ Begin(c, [Idle EXCEPT !.op = o, !.pc = "present", !.chal = chal.id,
                                                          !.pw = chal.pw, !.late = L])
  <2> DEFINE L == IF chal.late THEN {"password"} ELSE {}
  <2>1. L \in SUBSET Events /\ (chal.late => "password" \in L)
    BY DEF Events
  <2> QED
    BY <2>1 DEF Resolve
<1>3. PICK r \in CallStates : /\ r.op = o /\ r.pc = "present" /\ r.pw = chal.pw /\ r.chal = chal.id
                              /\ r.late = L /\ Begin(c, r)
  <2> DEFINE r == [Idle EXCEPT !.op = o, !.pc = "present", !.chal = chal.id, !.pw = chal.pw, !.late = L]
  <2>1. /\ r \in CallStates /\ r.op = o /\ r.pc = "present" /\ r.pw = chal.pw /\ r.chal = chal.id
        /\ r.late = L
    BY <1>1, IdleType DEF CallStates, PCs, Ops, Verifying
  <2> QED
    BY <1>2, <2>1
<1>4. PICK n \in CallStates : /\ Moves(c, n) /\ n.op = o /\ n.pc = "present" /\ n.pw = chal.pw
                              /\ n.chal = chal.id /\ n.late = L \cup (Completing \cap Leaves(o))
                              /\ begun' \in 0..MaxCall
  BY <1>3, BeginMoves DEF IInv
<1>5. UNCHANGED rows
  BY DEF Resolve, rows
<1>6. OpOK(n) /\ ~Buys(n) /\ ~Bears(n) /\ n.pc \notin {"discard", "codes"}
  BY <1>4 DEF OpOK, Buys, Bears
<1>7. CCall(n) /\ \A d \in Calls : d # c => CPair(n, call[d])
  BY <1>1, <1>4, <1>6 DEF CCall, CPair, Verifying
<1>8. \A d \in Calls : call[d].pc = "discard" => "password" \in n.late
  BY <1>4 DEF Completing, Leaves, Events, Verifying
<1>9. ~revived /\ chal.pw < signedOut => chal.late
  BY <1>1 DEF IInv, PInv, PRows, OldPasswordOnlyInFlight
<1>10. PCall(n) /\ \A d \in Calls : d # c => PPair(call[d], n)
  BY <1>2, <1>4, <1>8, <1>9 DEF PCall, PPair, Verifying
<1>11. FCall(n) /\ \A d \in Calls : d # c => FPair(call[d], n)
  BY <1>4 DEF FCall, FPair, Minting, Verifying
<1> QED
  BY <1>4, <1>5, <1>6, <1>7, <1>10, <1>11, CallOnly

LEMMA AuthenticateInv ==
    ASSUME IInv, NEW c \in Calls, NEW s \in SessionIds,
           NEW o \in {"enroll", "confirm", "disable", "regenerate", "password"}, Authenticate(c, s, o)
    PROVE  IInv'
<1>1. PICK r \in CallStates : r.op = o /\ r.pc = "read" /\ r.secret = 0 /\ Begin(c, r)
  <2> DEFINE r == [Idle EXCEPT !.op = o, !.pc = "read", !.sid = s]
  <2>1. r \in CallStates /\ r.op = o /\ r.pc = "read" /\ r.secret = 0
    BY IdleType DEF CallStates, PCs, Ops
  <2> QED
    BY <2>1 DEF Authenticate
<1>2. PICK n \in CallStates : /\ Moves(c, n) /\ n.op = o /\ n.pc = "read" /\ n.secret = 0
                              /\ begun' \in 0..MaxCall
  BY <1>1, BeginMoves DEF IInv
<1>3. UNCHANGED rows
  BY DEF Authenticate, rows
<1>4. OpOK(n) /\ ~Buys(n) /\ ~Bears(n) /\ n.pc \notin {"discard", "codes"}
  BY <1>2 DEF OpOK, Buys, Bears
<1>5. CCall(n) /\ \A d \in Calls : d # c => CPair(n, call[d])
  BY <1>2, <1>4 DEF CCall, CPair, Verifying
<1>6. PCall(n) /\ \A d \in Calls : d # c => PPair(call[d], n)
  BY <1>2 DEF PCall, PPair, Signing
<1>7. 0 \notin retired
  BY SignInAssumption DEF IInv, TypeOK, FInv, FRows
<1>8. FCall(n) /\ \A d \in Calls : d # c => FPair(call[d], n)
  BY <1>2, <1>7 DEF FCall, FPair
<1> QED
  BY <1>2, <1>3, <1>4, <1>5, <1>6, <1>8, CallOnly

-----------------------------------------------------------------------------
(* Requests read *)

LEMMA ReadingInv ==
    ASSUME IInv, NEW c \in Calls,
           DecideLogin(c) \/ EnrollRead(c) \/ DisableRead(c) \/ ChangeRead(c) \/ Fail(c)
    PROVE  IInv'
<1>1. UNCHANGED rows
  BY DEF DecideLogin, EnrollRead, DisableRead, ChangeRead, Fail, rows
<1>2. CASE Return(c)
  BY <1>1, <1>2, ReturnInv
<1>3. CASE ~Return(c)
  <2>1. PICK l \in PCs : /\ Goto(c, l)
                         /\ \/ l \in {"enrolled", "open", "issue"} /\ call[c].op = "login"
                            \/ l = "enrol"
                            \/ l = "delete" /\ call[c].op = "disable"
                            \/ l = "update" /\ call[c].op = "password"
    BY <1>3 DEF DecideLogin, EnrollRead, DisableRead, ChangeRead, Fail, At, PCs
  <2> QED
    BY <1>1, <2>1, GotoInv
<1> QED
  BY <1>2, <1>3

\* A code is matched against the secret as it is: it is none that is used.
LEMMA MatchInv ==
    ASSUME IInv, NEW c \in Calls, UNCHANGED rows, At(c, "totp", "present") \/ At(c, "confirm", "read"),
           totp.secret # 0, NEW t \in 1..MaxStep, Validate(t),
           Hold(c, [call[c] EXCEPT !.pc = "accept", !.secret = totp.secret,
                                   !.code = Code("totp", totp.secret, t)])
    PROVE  IInv'
<1>1. /\ totp.secret \in 1..nSecret /\ totp.secret \in Nat /\ totp.last \in Nat /\ t \in Nat
      /\ t > totp.last /\ totp.secret \notin retired
  BY SignInAssumption DEF IInv, TypeOK, CInv, CRows, FInv, FRows, Validate
<1>2. PICK v \in Codes : /\ v = Code("totp", totp.secret, t) /\ v.kind = "totp"
                         /\ v.of = totp.secret /\ v.step = t
  BY <1>1, CodeType
<1>3. ~Used(v)
  BY <1>1, <1>2 DEF Used
<1>4. PICK n \in CallStates :
         /\ n.pc = "accept" /\ n.secret = totp.secret /\ n.code = v /\ n.op = call[c].op
         /\ n.chal = call[c].chal /\ n.pw = call[c].pw /\ n.late = call[c].late /\ Hold(c, n)
  <2> DEFINE n == [call[c] EXCEPT !.pc = "accept", !.secret = totp.secret, !.code = v]
  <2>1. call[c] \in CallStates
    BY CallFacts
  <2>2. /\ n \in CallStates /\ n.pc = "accept" /\ n.secret = totp.secret /\ n.code = v
        /\ n.op = call[c].op /\ n.chal = call[c].chal /\ n.pw = call[c].pw /\ n.late = call[c].late
    BY <1>1, <2>1 DEF CallStates, PCs
  <2> QED
    BY <1>2, <2>2
<1>5. Moves(c, n) /\ begun' \in 0..MaxCall
  BY <1>4, HoldMoves DEF IInv, TypeOK
<1>6. OpOK(n) /\ ~Buys(n) /\ n.pc \notin {"discard", "codes"} /\ n.op \in {"totp", "confirm"}
  BY <1>4 DEF OpOK, Buys, At
<1>7. CCall(n)
  <2>1. \A s \in SessionIds : Bought(sess[s]) => v # sess[s].via
    BY <1>3 DEF IInv, CInv, CRows
  <2> QED
    BY <1>1, <1>2, <1>4, <1>6, <2>1, CallFacts DEF CCall
<1>8. \A d \in Calls : d # c => CPair(n, call[d])
  BY <1>3, <1>4, <1>6 DEF IInv, CInv, CCall, CPair
<1>9. PCall(n) /\ \A d \in Calls : d # c => PPair(call[d], n)
  BY <1>4, CallFacts DEF PCall, PPair
<1>10. FCall(n) /\ \A d \in Calls : d # c => FPair(call[d], n)
  BY <1>1, <1>4 DEF FCall, FPair, IInv, FInv
<1> QED
  BY <1>4, <1>5, <1>6, <1>7, <1>8, <1>9, <1>10, CallOnly

LEMMA PresentTOTPInv ==
    ASSUME IInv, NEW c \in Calls, PresentTOTP(c) \/ ConfirmRead(c)
    PROVE  IInv'
<1>1. UNCHANGED rows
  BY DEF PresentTOTP, ConfirmRead, rows
<1>2. CASE Return(c)
  BY <1>1, <1>2, ReturnInv
<1>3. CASE ~Return(c)
  <2>1. /\ At(c, "totp", "present") \/ At(c, "confirm", "read")
        /\ totp.secret # 0
    BY <1>3 DEF PresentTOTP, ConfirmRead, IInv, CInv, CRows
  <2>2. PICK t \in 1..MaxStep :
           /\ Validate(t)
           /\ Hold(c, [call[c] EXCEPT !.pc = "accept", !.secret = totp.secret,
                                      !.code = Code("totp", totp.secret, t)])
    BY <1>3 DEF PresentTOTP, ConfirmRead
  <2> QED
    BY <1>1, <2>1, <2>2, MatchInv
<1> QED
  BY <1>2, <1>3

LEMMA PresentRecoveryInv ==
    ASSUME IInv, NEW c \in Calls, PresentRecovery(c)
    PROVE  IInv'
<1>1. UNCHANGED rows
  BY DEF PresentRecovery, rows
<1>2. CASE Return(c)
  BY <1>1, <1>2, ReturnInv
<1>3. CASE ~Return(c)
  <2>1. PICK k \in codes : Hold(c, [call[c] EXCEPT !.pc = "use", !.code = Code("recovery", k.n, 0)])
    BY <1>3 DEF PresentRecovery
  <2>2. k.n \in 1..nCode /\ k.n \in Nat
    BY SignInAssumption DEF IInv, TypeOK, CInv, CRows
  <2>3. PICK v \in Codes : v = Code("recovery", k.n, 0) /\ v.kind = "recovery" /\ v.of = k.n
    BY <2>2, CodeType
  <2>4. ~Used(v)
    BY <2>3 DEF Used
  <2>5. PICK n \in CallStates :
           /\ n.pc = "use" /\ n.secret = call[c].secret /\ n.code = v /\ n.op = call[c].op
           /\ n.chal = call[c].chal /\ n.pw = call[c].pw /\ n.late = call[c].late /\ Hold(c, n)
    <3> DEFINE n == [call[c] EXCEPT !.pc = "use", !.code = v]
    <3>1. call[c] \in CallStates
      BY CallFacts
    <3>2. /\ n \in CallStates /\ n.pc = "use" /\ n.secret = call[c].secret /\ n.code = v
          /\ n.op = call[c].op /\ n.chal = call[c].chal /\ n.pw = call[c].pw /\ n.late = call[c].late
      BY <3>1 DEF CallStates, PCs
    <3> QED
      BY <2>1, <2>3, <3>2
  <2>6. Moves(c, n) /\ begun' \in 0..MaxCall
    BY <2>5, HoldMoves DEF IInv, TypeOK
  <2>7. OpOK(n) /\ ~Buys(n) /\ n.pc \notin {"discard", "codes"} /\ n.op = "recovery"
    BY <2>5 DEF PresentRecovery, OpOK, Buys, At
  <2>8. CCall(n)
    <3>1. \A s \in SessionIds : Bought(sess[s]) => v # sess[s].via
      BY <2>4 DEF IInv, CInv, CRows
    <3> QED
      BY <2>2, <2>3, <2>5, <2>7, <3>1, CallFacts DEF CCall
  <2>9. \A d \in Calls : d # c => CPair(n, call[d])
    BY <2>4, <2>5, <2>7 DEF IInv, CInv, CCall, CPair
  <2>10. PCall(n) /\ \A d \in Calls : d # c => PPair(call[d], n)
    BY <2>5, CallFacts DEF PCall, PPair
  <2>11. FCall(n) /\ \A d \in Calls : d # c => FPair(call[d], n)
    BY <2>5, <2>7 DEF FCall, FPair, Minting
  <2> QED
    BY <1>1, <2>5, <2>6, <2>7, <2>8, <2>9, <2>10, <2>11, CallOnly
<1> QED
  BY <1>2, <1>3

LEMMA RegenerateInv ==
    ASSUME IInv, NEW c \in Calls, RegenerateRead(c)
    PROVE  IInv'
<1>1. UNCHANGED rows
  BY DEF RegenerateRead, rows
<1>2. CASE Return(c)
  BY <1>1, <1>2, ReturnInv
<1>3. CASE ~Return(c)
  <2>1. Hold(c, [call[c] EXCEPT !.pc = "mint", !.secret = totp.secret]) /\ call[c].op = "regenerate"
    BY <1>3 DEF RegenerateRead, At
  <2>2. totp.secret \in Nat /\ totp.secret \notin retired
    BY DEF IInv, TypeOK, FInv, FRows
  <2>3. PICK n \in CallStates :
           /\ n.pc = "mint" /\ n.secret = totp.secret /\ n.op = "regenerate" /\ n.late = call[c].late
           /\ Hold(c, n)
    <3> DEFINE n == [call[c] EXCEPT !.pc = "mint", !.secret = totp.secret]
    <3>1. call[c] \in CallStates
      BY CallFacts
    <3>2. /\ n \in CallStates /\ n.pc = "mint" /\ n.secret = totp.secret /\ n.op = "regenerate"
          /\ n.late = call[c].late
      BY <2>1, <2>2, <3>1 DEF CallStates, PCs
    <3> QED
      BY <2>1, <3>2
  <2>4. Moves(c, n) /\ begun' \in 0..MaxCall
    BY <2>3, HoldMoves DEF IInv, TypeOK
  <2>5. OpOK(n) /\ ~Buys(n) /\ ~Bears(n) /\ n.pc \notin {"discard", "codes"}
    BY <2>3 DEF OpOK, Buys, Bears, Minting
  <2>6. CCall(n) /\ \A d \in Calls : d # c => CPair(n, call[d])
    BY <2>3, <2>5 DEF CCall, CPair, Verifying
  <2>7. PCall(n) /\ \A d \in Calls : d # c => PPair(call[d], n)
    BY <2>3 DEF PCall, PPair, Signing
  <2>8. FCall(n) /\ \A d \in Calls : d # c => FPair(call[d], n)
    BY <2>2, <2>3 DEF FCall, FPair, IInv, FInv
  <2> QED
    BY <1>1, <2>3, <2>4, <2>5, <2>6, <2>7, <2>8, CallOnly
<1> QED
  BY <1>2, <1>3

-----------------------------------------------------------------------------
(* Steps that leave a part's rows alone *)

LEMMA Numbers ==
    ASSUME TypeOK
    PROVE  /\ nPw \in Nat /\ nSecret \in Nat /\ nCode \in Nat /\ nChal \in Nat /\ pw \in Nat
           /\ totp.secret \in Nat /\ totp.last \in Nat /\ chal.id \in Nat /\ chal.pw \in Nat
           /\ signedOut \in Nat /\ retired \subseteq Nat
           /\ \A k \in codes : k.n \in Nat /\ k.secret \in Nat
           /\ \A s \in SessionIds : sess[s].pw \in Nat /\ sess[s].chal \in Nat /\ sess[s].via \in Codes
           /\ \A d \in Calls : /\ call[d].pw \in Nat /\ call[d].chal \in Nat /\ call[d].secret \in Nat
                               /\ call[d].code \in Codes /\ call[d].late \in SUBSET Events
BY SignInAssumption DEF TypeOK, CallStates

LEMMA CSkip ==
    ASSUME TypeOK, TypeOK', CInv, NEW c \in Calls, NEW n \in CallStates, Moves(c, n),
           UNCHANGED <<totp, codes, chal, nChal, nSecret, nCode>>,
           \A s \in SessionIds : sess'[s].via = sess[s].via /\ sess'[s].chal = sess[s].chal,
           ~Buys(n), CCall(n), \A d \in Calls : d # c => CPair(n, call[d])
    PROVE  CInv'
<1>1. (\A k \in Codes : Used(k) => Used(k)') /\ \A h \in Nat : Closed(h) => Closed(h)'
  BY DEF Used, Closed
<1>2. nChal <= nChal' /\ nSecret <= nSecret' /\ nCode <= nCode'
  BY Numbers
<1>3. /\ chal'.id \in {0, nChal'} /\ totp'.secret \in 0..nSecret' /\ (totp'.confirmed => totp'.secret # 0)
      /\ \A k \in codes' : k.n \in 1..nCode'
  BY DEF CInv, CRows
<1>4. CCall(n)'
  BY DEF CCall, Used, Closed, Bought
<1> QED
  BY <1>1, <1>2, <1>3, <1>4, CMove

LEMMA PSkip ==
    ASSUME TypeOK, TypeOK', PInv, NEW c \in Calls, NEW n \in CallStates, Moves(c, n),
           UNCHANGED <<pw, revived, signedOut, nPw>>,
           \A s \in SessionIds : /\ sess'[s].live = sess[s].live /\ sess'[s].pw = sess[s].pw
                                 /\ sess'[s].late = sess[s].late,
           \/ chal' = chal \/ chal'.id = 0 \/ chal'.spent
           \/ (~revived' /\ chal'.pw < signedOut => chal'.late),
           n.pc # "discard", PCall(n), \A d \in Calls : d # c => PPair(call[d], n)
    PROVE  PInv'
<1>1. nPw <= nPw' /\ pw' <= nPw' /\ (~revived' => pw' = nPw')
  BY Numbers DEF PInv, PRows
<1>2. \A s \in SessionIds : sess'[s].live =>
         sess[s].live /\ sess[s].pw <= sess'[s].pw /\ sess'[s].late = sess[s].late
  BY Numbers
<1>3. n.pw \in Nat
  BY DEF CallStates
<1>4. \A d \in Calls : d # c /\ ~revived' /\ call[d].pc = "discard" /\ n.op \in Signing =>
         call[d].pw <= n.pw \/ "password" \in n.late
  BY <1>3, Numbers DEF PPair
<1>5. PCall(n)'
  BY DEF PCall
<1> QED
  BY <1>1, <1>2, <1>4, <1>5, PMove

LEMMA FSkip ==
    ASSUME TypeOK, TypeOK', FInv, NEW c \in Calls, NEW n \in CallStates, Moves(c, n),
           UNCHANGED <<nSecret, retired>>, totp'.secret = totp.secret, codes' \subseteq codes,
           n.pc # "codes", FCall(n), \A d \in Calls : d # c => FPair(call[d], n)
    PROVE  FInv'
<1>1. nSecret <= nSecret' /\ totp'.secret \in 0..nSecret'
  BY Numbers DEF FInv, FRows
<1>2. FCall(n)'
  BY DEF FCall
<1> QED
  BY <1>1, <1>2, FMove

-----------------------------------------------------------------------------
(* Signing in *)

LEMMA UpgradeHashInv ==
    ASSUME IInv, NEW c \in Calls, UpgradeHash(c)
    PROVE  IInv'
<1>1. call[c].op = "login" /\ TypeOK /\ CInv /\ PInv /\ FInv /\ Goto(c, "enrolled")
  BY DEF UpgradeHash, At, IInv
<1>2. PICK n \in CallStates :
         /\ Moves(c, n) /\ UNCHANGED begun
         /\ n.pc = "enrolled" /\ n.op = "login" /\ n.code = call[c].code
         /\ n.pw = call[c].pw /\ n.late = call[c].late
  BY <1>1, GotoMoves DEF PCs
<1>3. UNCHANGED <<factor, chal, sess, clock, counters, signedOut, retired>>
  BY DEF UpgradeHash
<1>4. /\ pw' \in 1..MaxPw /\ rehash' \in BOOLEAN /\ revived' \in BOOLEAN
      /\ pw' <= nPw /\ (revived => revived') /\ (~revived' => pw' = nPw)
  <2>1. /\ call[c].pw \in 1..nPw /\ nPw \in 1..MaxPw /\ pw \in 1..MaxPw /\ pw <= nPw
        /\ (~revived => pw = nPw) /\ revived \in BOOLEAN /\ rehash \in BOOLEAN
    BY <1>1 DEF TypeOK, PInv, PRows, PCall
  <2>2. \/ pw' = call[c].pw /\ rehash' = FALSE /\ revived' = (revived \/ pw # call[c].pw)
        \/ pw' = pw /\ rehash' = rehash /\ revived' = revived
    BY DEF UpgradeHash, userRow
  <2>3. pw' \in 1..MaxPw /\ pw' <= nPw
    BY SignInAssumption, <2>1, <2>2
  <2>4. rehash' \in BOOLEAN /\ revived' \in BOOLEAN /\ (revived => revived')
    BY <2>1, <2>2, Zenon
  <2>5. ~revived' => ~revived /\ pw' = pw
    BY <2>2, Zenon
  <2> QED
    BY <2>1, <2>3, <2>4, <2>5
<1>5. TypeOK'
  BY <1>1, <1>2, <1>3, <1>4 DEF TypeOK, Moves, factor, counters
<1>6. OpOK(n) /\ ~Buys(n) /\ ~Bears(n)
  BY <1>2 DEF OpOK, Buys, Bears
<1>7. OpsInv'
  BY <1>2, <1>6, OpsMove DEF IInv
<1>8. CInv'
  <2>1. CCall(n) /\ \A d \in Calls : d # c => CPair(n, call[d])
    BY <1>1, <1>2, <1>6, CallFacts DEF CCall, CPair, Verifying
  <2> QED
    BY <1>1, <1>2, <1>3, <1>5, <1>6, <2>1, CSkip DEF factor, counters
<1>9. PInv'
  <2>1. nPw' = nPw /\ nPw <= nPw' /\ signedOut' = signedOut /\ chal' = chal
    BY <1>1, <1>3, Numbers DEF counters
  <2>2. \A s \in SessionIds : sess'[s].live =>
           sess[s].live /\ sess[s].pw <= sess'[s].pw /\ sess'[s].late = sess[s].late
    BY <1>1, <1>3, Numbers
  <2>3. PCall(n)'
    BY <1>1, <1>2, <1>3, <1>4, CallFacts DEF PCall, counters
  <2>4. \A d \in Calls : d # c /\ ~revived' /\ call[d].pc = "discard" /\ n.op \in Signing =>
           call[d].pw <= n.pw \/ "password" \in n.late
    BY <1>1, <1>2, <1>4, CallFacts, Numbers DEF PPair, Signing
  <2> QED
    BY <1>1, <1>2, <1>4, <1>5, <2>1, <2>2, <2>3, <2>4, PMove
<1>10. FInv'
  <2>1. FCall(n) /\ \A d \in Calls : d # c => FPair(call[d], n)
    BY <1>2 DEF FCall, FPair, Minting
  <2> QED
    BY <1>1, <1>2, <1>3, <1>5, <2>1, FSkip DEF factor, counters
<1> QED
  BY <1>5, <1>7, <1>8, <1>9, <1>10 DEF IInv

\* A new challenge supersedes the others; it is late if its login is.
LEMMA OpenChallengeInv ==
    ASSUME IInv, NEW c \in Calls, OpenChallenge(c)
    PROVE  IInv'
<1>1. call[c].op = "login" /\ TypeOK /\ OpsInv /\ CInv /\ PInv /\ FInv /\ Return(c)
  BY DEF OpenChallenge, At, IInv
<1>2. Moves(c, Idle) /\ UNCHANGED begun
  BY <1>1, ReturnMoves
<1>3. UNCHANGED <<userRow, factor, sess, clock, nPw, nSecret, nCode, nSess, history>>
  BY DEF OpenChallenge
<1>4. /\ nChal' = nChal + 1 /\ nChal' \in 0..MaxChallenge
      /\ chal' \in [id : Nat, spent : BOOLEAN, pw : Nat, late : BOOLEAN]
      /\ chal'.id = nChal + 1 /\ chal'.pw = call[c].pw /\ (chal'.late <=> "password" \in call[c].late)
  <2>1. PICK L \in BOOLEAN :
           /\ L <=> "password" \in call[c].late
           /\ chal' = [id |-> nChal + 1, spent |-> FALSE, pw |-> call[c].pw, late |-> L]
    <3> DEFINE L == "password" \in call[c].late
    <3>1. L \in BOOLEAN /\ chal' = [id |-> nChal + 1, spent |-> FALSE, pw |-> call[c].pw, late |-> L]
      BY DEF OpenChallenge
    <3> WITNESS L \in BOOLEAN
    <3> QED
      BY <3>1
  <2>2. nChal' = nChal + 1 /\ nChal' \in 0..MaxChallenge
    BY SignInAssumption, <1>1 DEF OpenChallenge, TypeOK
  <2> QED
    BY <1>1, <2>1, <2>2, Numbers
<1>5. TypeOK'
  BY <1>1, <1>2, <1>3, <1>4 DEF TypeOK, Moves, userRow, factor, history
<1>6. OpsInv'
  BY <1>1, <1>2, IdleType, IdleOK, OpsMove
<1>7. CInv'
  <2>1. (\A k \in Codes : Used(k) => Used(k)') /\ \A h \in Nat : Closed(h) => Closed(h)'
    BY <1>1, <1>3, <1>4, Numbers DEF Used, Closed, factor
  <2>2. nChal <= nChal' /\ nSecret <= nSecret' /\ nCode <= nCode'
    BY <1>1, <1>3, <1>4, Numbers
  <2>3. /\ chal'.id \in {0, nChal'} /\ totp'.secret \in 0..nSecret' /\ (totp'.confirmed => totp'.secret # 0)
        /\ \A k \in codes' : k.n \in 1..nCode'
    BY <1>1, <1>3, <1>4 DEF CInv, CRows, factor
  <2> QED
    BY <1>1, <1>2, <1>3, <1>5, <2>1, <2>2, <2>3, IdleType, IdleOK, CMove
<1>8. PInv'
  <2>1. ~revived' /\ chal'.pw < signedOut => chal'.late
    BY <1>1, <1>3, <1>4, CallFacts DEF PCall, Signing, history
  <2> QED
    BY <1>1, <1>2, <1>3, <1>5, <2>1, IdleType, IdleOK, PSkip DEF userRow, history
<1>9. FInv'
  BY <1>1, <1>2, <1>3, <1>5, IdleType, IdleOK, FSkip DEF factor, history
<1> QED
  BY <1>5, <1>6, <1>7, <1>8, <1>9 DEF IInv

\* The step is used whichever secret the row now holds; a verification goes on to its challenge.
LEMMA AcceptInv ==
    ASSUME IInv, NEW c \in Calls, Accept(c)
    PROVE  IInv'
<1> DEFINE k == call[c].code
<1>1. /\ call[c].pc = "accept" /\ call[c].op \in {"totp", "confirm"}
      /\ TypeOK /\ OpsInv /\ CInv /\ PInv /\ FInv
      /\ k.kind = "totp" /\ k.of \in 1..nSecret /\ k \in Codes
  BY CallFacts DEF Accept, IInv, OpOK, CCall, CallStates
<1>2. UNCHANGED <<userRow, codes, chal, sess, clock, counters, history>>
  BY DEF Accept
<1>3. CASE ~Acceptable(k)
  <2>1. Return(c) /\ UNCHANGED rows
    BY <1>2, <1>3 DEF Accept, rows, factor
  <2> QED
    BY <2>1, ReturnInv
<1>4. CASE Acceptable(k)
  <2>1. totp' = Accepted(k) /\ Goto(c, IF call[c].op = "totp" THEN "spend" ELSE "mint")
    BY <1>4 DEF Accept
  <2>2. /\ totp' \in [secret : Nat, confirmed : BOOLEAN, last : Nat]
        /\ totp'.secret = totp.secret /\ totp'.secret # 0 /\ totp'.last = k.step /\ totp.last < k.step
        /\ k.step \in Nat
    BY <1>1, <1>4, <2>1 DEF Accepted, Acceptable, TypeOK, Codes
  <2>3. PICK n \in CallStates :
           /\ Moves(c, n) /\ UNCHANGED begun
           /\ n.pc = (IF call[c].op = "totp" THEN "spend" ELSE "mint")
           /\ n.op = call[c].op /\ n.chal = call[c].chal
           /\ n.code = k /\ n.secret = call[c].secret /\ n.pw = call[c].pw /\ n.late = call[c].late
    <3>1. (IF call[c].op = "totp" THEN "spend" ELSE "mint") \in PCs
      BY DEF PCs
    <3> QED
      BY <1>1, <2>1, <3>1, GotoMoves
  <2>4. TypeOK'
    BY <1>1, <1>2, <2>2, <2>3 DEF TypeOK, Moves, userRow, counters, history
  <2>5. OpOK(n) /\ ~Buys(n) /\ n.pc \in {"spend", "mint"} /\ (Bears(n) => Bears(call[c]))
    BY <1>1, <2>3 DEF OpOK, Buys, Bears, Verifying, Minting
  <2>6. OpsInv'
    BY <1>1, <2>3, <2>5, OpsMove
  <2>7. CInv'
    <3>1. (\A v \in Codes : Used(v) => Used(v)') /\ \A h \in Nat : Closed(h) => Closed(h)'
      BY <1>1, <1>2, <2>2, Numbers DEF Used, Closed, Codes, counters
    <3>2. nChal <= nChal' /\ nSecret <= nSecret' /\ nCode <= nCode'
      BY <1>1, <1>2, Numbers DEF counters
    <3>3. /\ chal'.id \in {0, nChal'} /\ totp'.secret \in 0..nSecret' /\ (totp'.confirmed => totp'.secret # 0)
          /\ \A v \in codes' : v.n \in 1..nCode'
      BY <1>1, <1>2, <2>2 DEF CInv, CRows, counters
    <3>4. Used(n.code)'
      BY <1>1, <1>2, <2>2, <2>3 DEF Used, counters
    <3>5. CCall(n)'
      BY <1>1, <1>2, <2>3, <2>5, <3>4, CallFacts DEF CCall, Bought, counters
    <3>6. \A d \in Calls : d # c => CPair(n, call[d])
      BY <2>3, <2>5, CallFacts DEF CPair
    <3> QED
      BY <1>1, <1>2, <2>3, <2>4, <2>5, <3>1, <3>2, <3>3, <3>5, <3>6, CMove
  <2>8. PInv'
    <3>1. PCall(n) /\ \A d \in Calls : d # c => PPair(call[d], n)
      BY <2>3, <2>5, CallFacts DEF PCall, PPair
    <3> QED
      BY <1>1, <1>2, <2>3, <2>4, <2>5, <3>1, PSkip DEF userRow, counters, history
  <2>9. FInv'
    <3>1. FCall(n) /\ \A d \in Calls : d # c => FPair(call[d], n)
      BY <2>3, <2>5, CallFacts DEF FCall, FPair
    <3> QED
      BY <1>1, <1>2, <2>2, <2>3, <2>4, <2>5, <3>1, FSkip DEF counters, history
  <2> QED
    BY <2>4, <2>6, <2>7, <2>8, <2>9 DEF IInv
<1> QED
  BY <1>3, <1>4

\* A recovery code is used once: whoever goes on with it has taken it out.
LEMMA UseCodeInv ==
    ASSUME IInv, NEW c \in Calls, UseCode(c)
    PROVE  IInv'
<1> DEFINE used == {k \in codes : k.n = call[c].code.of}
<1>1. /\ call[c].pc = "use" /\ call[c].op = "recovery"
      /\ TypeOK /\ OpsInv /\ CInv /\ PInv /\ FInv
      /\ call[c].code.kind = "recovery" /\ call[c].code.of \in 1..nCode
  BY CallFacts DEF UseCode, IInv, OpOK, CCall
<1>2. UNCHANGED <<userRow, totp, chal, sess, clock, counters, history>> /\ codes' = codes \ used
  BY DEF UseCode
<1>3. CASE used = {}
  <2>1. Return(c) /\ UNCHANGED rows
    BY <1>2, <1>3 DEF UseCode, rows, factor
  <2> QED
    BY <2>1, ReturnInv
<1>4. CASE used # {}
  <2>1. Goto(c, "spend")
    BY <1>4 DEF UseCode
  <2>2. PICK n \in CallStates :
           /\ Moves(c, n) /\ UNCHANGED begun
           /\ n.pc = "spend" /\ n.op = "recovery" /\ n.chal = call[c].chal
           /\ n.code = call[c].code /\ n.secret = call[c].secret /\ n.pw = call[c].pw
           /\ n.late = call[c].late
    BY <1>1, <2>1, GotoMoves DEF PCs
  <2>3. TypeOK'
    BY <1>1, <1>2, <2>2 DEF TypeOK, Moves, userRow, counters, history
  <2>4. OpOK(n) /\ ~Buys(n) /\ (Bears(n) => Bears(call[c]))
    BY <1>1, <2>2 DEF OpOK, Buys, Bears, Verifying
  <2>5. OpsInv'
    BY <1>1, <2>2, <2>4, OpsMove
  <2>6. CInv'
    <3>1. (\A v \in Codes : Used(v) => Used(v)') /\ \A h \in Nat : Closed(h) => Closed(h)'
      BY <1>2 DEF Used, Closed, counters
    <3>2. nChal <= nChal' /\ nSecret <= nSecret' /\ nCode <= nCode'
      BY <1>1, <1>2, Numbers DEF counters
    <3>3. /\ chal'.id \in {0, nChal'} /\ totp'.secret \in 0..nSecret' /\ (totp'.confirmed => totp'.secret # 0)
          /\ \A v \in codes' : v.n \in 1..nCode'
      BY <1>1, <1>2 DEF CInv, CRows, counters
    <3>4. Used(n.code)'
      BY <1>1, <1>2, <2>2 DEF Used, counters
    <3>5. CCall(n)'
      BY <1>1, <1>2, <2>2, <2>4, <3>4, CallFacts DEF CCall, Bought, counters
    <3>6. \A d \in Calls : d # c => CPair(n, call[d])
      BY <2>2, <2>4, CallFacts DEF CPair
    <3> QED
      BY <1>1, <1>2, <2>2, <2>3, <2>4, <3>1, <3>2, <3>3, <3>5, <3>6, CMove
  <2>7. PInv'
    <3>1. PCall(n) /\ \A d \in Calls : d # c => PPair(call[d], n)
      BY <1>1, <2>2, CallFacts DEF PCall, PPair
    <3> QED
      BY <1>1, <1>2, <2>2, <2>3, <3>1, PSkip DEF userRow, counters, history
  <2>8. FInv'
    <3>1. FCall(n) /\ \A d \in Calls : d # c => FPair(call[d], n)
      BY <2>2 DEF FCall, FPair, Minting
    <3> QED
      BY <1>1, <1>2, <2>2, <2>3, <3>1, FSkip DEF counters, history
  <2> QED
    BY <2>3, <2>5, <2>6, <2>7, <2>8 DEF IInv
<1> QED
  BY <1>3, <1>4

\* Of the requests on one challenge one goes on: it is the newest challenge, so whatever code
\* was bought before on another one is not the code this request bears.
LEMMA SpendInv ==
    ASSUME IInv, NEW c \in Calls, Spend(c)
    PROVE  IInv'
<1>1. /\ call[c].pc = "spend" /\ call[c].op \in Verifying /\ call[c] \in CallStates
      /\ TypeOK /\ OpsInv /\ CInv /\ PInv /\ FInv
      /\ Used(call[c].code) /\ call[c].chal \in 1..nChal
  BY CallFacts DEF Spend, IInv, OpOK, CCall
<1>2. UNCHANGED <<userRow, factor, sess, clock, counters, history>>
  BY DEF Spend
<1>3. CASE ~(chal.id = call[c].chal /\ ~chal.spent)
  <2>1. Return(c) /\ UNCHANGED rows
    BY <1>2, <1>3 DEF Spend, rows
  <2> QED
    BY <2>1, ReturnInv
<1>4. CASE chal.id = call[c].chal /\ ~chal.spent
  <2>1. chal' = Spent(chal.id) /\ Goto(c, "issue")
    BY <1>4 DEF Spend
  <2>2. PICK n \in CallStates :
           /\ Moves(c, n) /\ UNCHANGED begun
           /\ n.pc = "issue" /\ n.op = call[c].op /\ n.chal = call[c].chal
           /\ n.code = call[c].code /\ n.secret = call[c].secret /\ n.pw = call[c].pw
           /\ n.late = call[c].late
    BY <1>1, <2>1, GotoMoves DEF PCs
  <2>3. /\ chal' \in [id : Nat, spent : BOOLEAN, pw : Nat, late : BOOLEAN]
        /\ chal'.id = chal.id /\ chal'.spent
    BY <1>1, <2>1, Numbers DEF Spent
  <2>4. TypeOK'
    BY <1>1, <1>2, <2>2, <2>3 DEF TypeOK, Moves, userRow, factor, counters, history
  <2>5. OpOK(n) /\ Buys(n) /\ ~Bears(n) /\ Bears(call[c]) /\ n.op \in Verifying
    BY <1>1, <2>2 DEF OpOK, Buys, Bears, Verifying, Signing
  <2>6. OpsInv'
    BY <1>1, <2>2, <2>5, OpsMove
  <2>7. n.chal = nChal /\ n.chal = chal.id /\ nChal \in Nat /\ n.chal \in 1..nChal
    BY <1>1, <1>4, <2>2, Numbers DEF CInv, CRows
  <2>8. CInv'
    <3>1. (\A v \in Codes : Used(v) => Used(v)') /\ \A h \in Nat : Closed(h) => Closed(h)'
      BY <1>2, <2>3 DEF Used, Closed, factor, counters
    <3>2. nChal <= nChal' /\ nSecret <= nSecret' /\ nCode <= nCode'
      BY <1>1, <1>2, Numbers DEF counters
    <3>3. /\ chal'.id \in {0, nChal'} /\ totp'.secret \in 0..nSecret' /\ (totp'.confirmed => totp'.secret # 0)
          /\ \A v \in codes' : v.n \in 1..nCode'
      BY <1>1, <1>2, <2>3 DEF CInv, CRows, factor, counters
    <3>4. \A h \in Nat : Closed(h) => h < n.chal
      BY <1>4, <2>7 DEF Closed
    <3>5. \A s \in SessionIds : Bought(sess[s]) => n.code # sess[s].via /\ sess[s].chal < n.chal
      <4> SUFFICES ASSUME NEW s \in SessionIds, Bought(sess[s])
                   PROVE  n.code # sess[s].via /\ sess[s].chal < n.chal
        OBVIOUS
      <4>1. sess[s].chal < n.chal
        BY <1>1, <3>4, Numbers DEF CInv, CRows
      <4> QED
        BY <2>2, <2>5, <4>1, CallFacts DEF CCall
    <3>6. \A d \in Calls : d # c /\ Buys(call[d]) => n.code # call[d].code /\ call[d].chal < n.chal
      <4> SUFFICES ASSUME NEW d \in Calls, d # c, Buys(call[d])
                   PROVE  n.code # call[d].code /\ call[d].chal < n.chal
        OBVIOUS
      <4>1. call[d].chal < n.chal
        BY <1>1, <3>4, CallFacts, Numbers DEF CCall
      <4> QED
        BY <2>2, <2>5, <4>1, CallFacts DEF CPair
    <3>7. CCall(n)'
      <4>1. Closed(n.chal)'
        BY <1>2, <2>3, <2>7 DEF Closed, counters
      <4>2. Used(n.code)'
        BY <1>1, <2>2, <3>1 DEF CallStates
      <4>3. \A s \in SessionIds : Bought(sess[s])' => n.code # sess'[s].via /\ n.chal # sess'[s].chal
        BY <1>1, <1>2, <3>5, <2>7, Numbers DEF Bought
      <4> QED
        BY <1>2, <2>2, <2>5, <2>7, <4>1, <4>2, <4>3 DEF CCall, counters, Verifying
    <3>8. \A d \in Calls : Same(call[d], call'[d]) \/ CCall(call[d])'
      <4> SUFFICES ASSUME NEW d \in Calls, d = c PROVE CCall(call[d])'
        BY <2>2 DEF Moves
      <4>1. call'[d] = n
        BY <2>2 DEF Moves
      <4> QED
        BY <3>7, <4>1
    <3>9. \A d \in Calls : d # c => CPair(n, call'[d]) /\ CPair(call'[d], n)
      <4> SUFFICES ASSUME NEW d \in Calls, d # c PROVE CPair(n, call'[d]) /\ CPair(call'[d], n)
        OBVIOUS
      <4>1. Same(call[d], call'[d])
        BY <2>2 DEF Moves
      <4>2. Buys(call'[d]) => n.code # call'[d].code /\ call'[d].chal < n.chal /\ call'[d].chal \in Nat
        BY <1>1, <3>6, <4>1, Numbers DEF Same, Buys
      <4>3. Bears(call'[d]) => call'[d].chal \in 1..nChal
        BY <4>1, CallFacts DEF CCall, Bears, Same
      <4> QED
        BY <2>5, <2>7, <4>2, <4>3 DEF CPair
    <3>10. \A d, e \in Calls : d # e =>
              \/ Same(call[d], call'[d]) /\ Same(call[e], call'[e])
              \/ CPair(call'[d], call'[e])
      BY <2>2, <3>9 DEF Moves
    <3> QED
      BY <1>1, <1>2, <2>4, <3>1, <3>2, <3>3, <3>8, <3>10, CQuiet
  <2>9. PInv'
    <3>1. PCall(n) /\ \A d \in Calls : d # c => PPair(call[d], n)
      BY <1>1, <2>2, CallFacts DEF PCall, PPair
    <3> QED
      BY <1>1, <1>2, <2>2, <2>3, <2>4, <3>1, PSkip DEF userRow, counters, history
  <2>10. FInv'
    <3>1. FCall(n) /\ \A d \in Calls : d # c => FPair(call[d], n)
      BY <2>2, <2>5 DEF FCall, FPair, Minting, Verifying
    <3> QED
      BY <1>1, <1>2, <2>2, <2>4, <3>1, FSkip DEF factor, counters, history
  <2> QED
    BY <2>4, <2>6, <2>8, <2>9, <2>10 DEF IInv
<1> QED
  BY <1>3, <1>4

SessionRows == [live : BOOLEAN, mfa : BOOLEAN, via : Codes, chal : Nat, pw : Nat, late : BOOLEAN]

\* The session takes over what its request was: the buyer of a code, and late or not.
LEMMA IssueInv ==
    ASSUME IInv, NEW c \in Calls, Issue(c)
    PROVE  IInv'
<1>1. /\ call[c].pc = "issue" /\ call[c].op \in Signing /\ call[c] \in CallStates
      /\ TypeOK /\ OpsInv /\ CInv /\ PInv /\ FInv /\ Return(c)
  BY CallFacts DEF Issue, IInv, OpOK
<1>2. UNCHANGED <<userRow, factor, chal, clock, nPw, nSecret, nCode, nChal, history>>
  BY DEF Issue
<1>3. Moves(c, Idle) /\ UNCHANGED begun
  BY <1>1, ReturnMoves
<1>4. PICK i \in SessionIds, r \in SessionRows :
         /\ r.via = call[c].code /\ r.chal = call[c].chal /\ r.pw = call[c].pw
         /\ r.late <=> "password" \in call[c].late
         /\ sess' = [sess EXCEPT ![i] = r]
  <2> DEFINE L == "password" \in call[c].late
             M == call[c].op # "login"
             r == [live |-> TRUE, mfa |-> M, via |-> call[c].code, chal |-> call[c].chal,
                   pw |-> call[c].pw, late |-> L]
  <2>1. sess' = [sess EXCEPT ![nSess + 1] = r]
    BY DEF Issue
  <2>2. L \in BOOLEAN /\ M \in BOOLEAN /\ (L <=> "password" \in call[c].late)
    OBVIOUS
  <2> HIDE DEF L, M
  <2>3. /\ r \in SessionRows /\ r.via = call[c].code /\ r.chal = call[c].chal /\ r.pw = call[c].pw
        /\ r.late = L
    BY <1>1, <2>2, Numbers DEF SessionRows
  <2>4. nSess + 1 \in SessionIds
    BY SignInAssumption, <1>1 DEF Issue, TypeOK, SessionIds
  <2> QED
    BY <2>1, <2>2, <2>3, <2>4
<1>5. nSess' \in 0..MaxSession
  BY SignInAssumption, <1>1 DEF Issue, TypeOK
<1>6. /\ sess' \in [SessionIds -> SessionRows]
      /\ \A s \in SessionIds : sess'[s] = IF s = i THEN r ELSE sess[s]
  BY <1>1, <1>4 DEF TypeOK, SessionRows
<1>7. TypeOK'
  BY <1>1, <1>2, <1>3, <1>5, <1>6 DEF TypeOK, Moves, SessionRows, userRow, factor, history
<1>8. OpsInv'
  BY <1>1, <1>3, IdleType, IdleOK, OpsMove
<1>9. \A d \in Calls : call'[d] = IF d = c THEN Idle ELSE call[d]
  BY <1>1, ReturnMoves DEF Moves
<1>10. CInv'
  <2>1. Bought(r) => Buys(call[c]) /\ Used(r.via) /\ Closed(r.chal)
    BY <1>1, <1>4, CallFacts DEF Bought, Buys, CCall
  <2>2. /\ \A k : Used(k) => Used(k)'
        /\ \A h : Closed(h) => Closed(h)'
    BY <1>2 DEF Used, Closed, factor
  <2>3. \A s \in SessionIds : Bought(sess[s])' => Used(sess[s].via)' /\ Closed(sess[s].chal)'
    <3> SUFFICES ASSUME NEW s \in SessionIds, Bought(sess[s])'
                 PROVE  Used(sess[s].via)' /\ Closed(sess[s].chal)'
      OBVIOUS
    <3>1. PICK w \in SessionRows : w = sess'[s]
      BY <1>6
    <3>2. Used(w.via) /\ Closed(w.chal)
      BY <1>1, <1>6, <2>1, <3>1 DEF CInv, CRows, Bought
    <3>3. Used(w.via)' /\ Closed(w.chal)'
      BY <2>2, <3>2
    <3> QED
      BY <3>1, <3>3 DEF Used, Closed
  <2>4. \A s \in SessionIds : Bought(r) /\ Bought(sess[s]) => r.via # sess[s].via /\ r.chal # sess[s].chal
    BY <1>4, <2>1, CallFacts DEF CCall
  <2>5. CodeBuysOneSession'
    <3> SUFFICES ASSUME NEW s \in SessionIds, NEW t \in SessionIds, s # t,
                        Bought(sess'[s]), Bought(sess'[t])
                 PROVE  sess'[s].via # sess'[t].via /\ sess'[s].chal # sess'[t].chal
      BY DEF CodeBuysOneSession, Bought
    <3>1. CASE s = i \/ t = i
      BY <1>6, <2>4, <3>1
    <3>2. CASE s # i /\ t # i
      BY <1>1, <1>6, <3>2 DEF CInv, CRows, CodeBuysOneSession, Bought
    <3> QED
      BY <3>1, <3>2
  <2>6. CRows'
    BY <1>1, <1>2, <2>3, <2>5 DEF CInv, CRows, factor
  <2>7. ASSUME NEW d \in Calls PROVE CCall(call[d])'
    <3>1. CASE d = c
      BY <1>9, <3>1, IdleType DEF CCall, Verifying, Bears, Buys
    <3>2. CASE d # c
      <4>1. PICK k \in CallStates : k = call[d] /\ k = call'[d]
        BY <1>9, <3>2, CallFacts
      <4>2. CCall(k) /\ CPair(k, call[c])
        BY <3>2, <4>1, CallFacts
      <4>3. \A s \in SessionIds : Bought(sess'[s]) =>
               /\ Bears(k) /\ sess'[s].chal < k.chal => k.code # sess'[s].via
               /\ Buys(k) => k.code # sess'[s].via /\ k.chal # sess'[s].chal
        BY <1>4, <1>6, <2>1, <4>2 DEF CCall, CPair
      <4>4. CCall(k)'
        BY <1>2, <2>2, <4>2, <4>3 DEF CCall, Bought
      <4> QED
        BY <4>1, <4>4
    <3> QED
      BY <3>1, <3>2
  <2>8. \A d, e \in Calls : d # e => CPair(call[d], call[e])'
    BY <1>1, <1>9, IdleOK DEF CInv, CPair
  <2> QED
    BY <2>6, <2>7, <2>8 DEF CInv
<1>11. PInv'
  <2>1. ~revived /\ r.pw < signedOut => r.late
    BY <1>1, <1>4, CallFacts DEF PCall
  <2>2. PRows'
    <3>1. OldPasswordOnlyInFlight'
      BY <1>1, <1>2, <1>6, <2>1 DEF PInv, PRows, OldPasswordOnlyInFlight, history
    <3> QED
      BY <1>1, <1>2, <3>1 DEF PInv, PRows, userRow, history
  <2>3. ASSUME NEW d \in Calls PROVE PCall(call[d])'
    <3>1. CASE d = c
      BY <1>9, <3>1, IdleType DEF PCall, Signing
    <3>2. CASE d # c
      <4>1. call'[d] = call[d] /\ PCall(call[d]) /\ PPair(call[d], call[c])
        BY <1>1, <1>9, <3>2, CallFacts
      <4>2. ~revived /\ call[d].pc = "discard" /\ r.pw < call[d].pw => r.late
        BY <1>1, <1>4, <4>1 DEF PPair
      <4> QED
        BY <1>2, <1>6, <4>1, <4>2 DEF PCall, history
    <3> QED
      BY <3>1, <3>2
  <2>4. \A d, e \in Calls : d # e => PPair(call[d], call[e])'
    BY <1>1, <1>2, <1>9, IdleType DEF PInv, PPair, Signing, history
  <2> QED
    BY <2>2, <2>3, <2>4 DEF PInv
<1>12. FInv'
  BY <1>1, <1>2, <1>3, <1>7, IdleType, IdleOK, FSkip DEF factor, history
<1> QED
  BY <1>7, <1>8, <1>10, <1>11, <1>12 DEF IInv

-----------------------------------------------------------------------------
(* The second factor *)

\* The row is replaced by a new secret, which nobody has used or removed.
LEMMA EnrollInv ==
    ASSUME IInv, NEW c \in Calls, Enroll(c)
    PROVE  IInv'
<1>1. TypeOK /\ OpsInv /\ CInv /\ PInv /\ FInv /\ Return(c)
  BY DEF Enroll, IInv
<1>2. UNCHANGED <<userRow, codes, chal, sess, clock, nPw, nCode, nChal, nSess, history>>
  BY DEF Enroll
<1>3. Moves(c, Idle) /\ UNCHANGED begun
  BY <1>1, ReturnMoves
<1>4. /\ nSecret' = nSecret + 1 /\ nSecret' \in 0..MaxSecret
      /\ totp' \in [secret : Nat, confirmed : BOOLEAN, last : Nat]
      /\ totp'.secret = nSecret + 1
  BY SignInAssumption, <1>1 DEF Enroll, TypeOK
<1>5. TypeOK'
  BY <1>1, <1>2, <1>3, <1>4 DEF TypeOK, Moves, userRow, history
<1>6. OpsInv'
  BY <1>1, <1>3, IdleType, IdleOK, OpsMove
<1>7. CInv'
  <2>1. (\A k \in Codes : Used(k) => Used(k)') /\ \A h \in Nat : Closed(h) => Closed(h)'
    BY <1>1, <1>2, <1>4, Numbers DEF Used, Closed, Codes
  <2>2. nChal <= nChal' /\ nSecret <= nSecret' /\ nCode <= nCode'
    BY <1>1, <1>2, <1>4, Numbers
  <2>3. /\ chal'.id \in {0, nChal'} /\ totp'.secret \in 0..nSecret' /\ (totp'.confirmed => totp'.secret # 0)
        /\ \A k \in codes' : k.n \in 1..nCode'
    BY <1>1, <1>2, <1>4, Numbers DEF CInv, CRows
  <2> QED
    BY <1>1, <1>2, <1>3, <1>5, <2>1, <2>2, <2>3, IdleType, IdleOK, CMove
<1>8. PInv'
  BY <1>1, <1>2, <1>3, <1>5, IdleType, IdleOK, PSkip DEF userRow, history
<1>9. FInv'
  <2>1. nSecret <= nSecret' /\ totp'.secret \in 0..nSecret' /\ totp'.secret > nSecret
    BY <1>1, <1>4, Numbers
  <2> QED
    BY <1>1, <1>2, <1>3, <1>5, <2>1, IdleType, IdleOK, FMove DEF history
<1> QED
  BY <1>5, <1>6, <1>7, <1>8, <1>9 DEF IInv

\* New codes replace the old; codes for a removed secret are late.
LEMMA MintCodesInv ==
    ASSUME IInv, NEW c \in Calls, MintCodes(c)
    PROVE  IInv'
<1>1. /\ call[c].pc = "mint" /\ call[c].op \in Minting
      /\ TypeOK /\ OpsInv /\ CInv /\ PInv /\ FInv
  BY CallFacts DEF MintCodes, IInv, OpOK
<1>2. UNCHANGED <<userRow, totp, chal, sess, clock, nPw, nSecret, nChal, nSess, history>>
  BY DEF MintCodes
<1>3. PICK n \in CallStates :
         /\ Moves(c, n) /\ UNCHANGED begun /\ n.pc \in {"idle", "satisfy"}
         /\ n.op \notin Signing
         /\ n.op \in Minting => /\ n.op = call[c].op /\ n.secret = call[c].secret
                                /\ n.late = call[c].late
  <2>1. CASE Return(c)
    BY <1>1, <2>1, ReturnMoves, IdleType DEF Minting, Signing
  <2>2. CASE Goto(c, "satisfy")
    <3>1. "satisfy" \in PCs
      BY DEF PCs
    <3> QED
      BY <1>1, <2>2, <3>1, GotoMoves DEF Minting, Signing
  <2> QED
    BY <2>1, <2>2 DEF MintCodes
<1>4. PICK k \in [n : Nat, secret : Nat, late : BOOLEAN] :
         /\ codes' = {k} /\ k.n = nCode + 1 /\ k.secret = call[c].secret
         /\ k.late <=> "factor" \in call[c].late
  <2> DEFINE L == "factor" \in call[c].late
             k == [n |-> nCode + 1, secret |-> call[c].secret, late |-> L]
  <2>1. codes' = {k}
    BY DEF MintCodes
  <2>2. L \in BOOLEAN /\ (L <=> "factor" \in call[c].late)
    OBVIOUS
  <2> HIDE DEF L
  <2>3. k \in [n : Nat, secret : Nat, late : BOOLEAN] /\ k.n = nCode + 1 /\ k.secret = call[c].secret
        /\ k.late = L
    BY <1>1, <2>2, Numbers
  <2> QED
    BY <2>1, <2>2, <2>3
<1>5. nCode' = nCode + 1 /\ nCode' \in 0..MaxCode
  BY SignInAssumption, <1>1 DEF MintCodes, TypeOK
<1>6. TypeOK'
  BY <1>1, <1>2, <1>3, <1>4, <1>5 DEF TypeOK, Moves, userRow, history
<1>7. OpOK(n) /\ ~Buys(n) /\ ~Bears(n)
  BY <1>3 DEF OpOK, Buys, Bears
<1>8. OpsInv'
  BY <1>1, <1>3, <1>7, OpsMove
<1>9. CInv'
  <2>1. (\A v \in Codes : Used(v) => Used(v)') /\ \A h \in Nat : Closed(h) => Closed(h)'
    BY <1>1, <1>2, <1>4, <1>5, Numbers DEF Used, Closed, Codes
  <2>2. nChal <= nChal' /\ nSecret <= nSecret' /\ nCode <= nCode'
    BY <1>1, <1>2, <1>5, Numbers
  <2>3. /\ chal'.id \in {0, nChal'} /\ totp'.secret \in 0..nSecret' /\ (totp'.confirmed => totp'.secret # 0)
        /\ \A v \in codes' : v.n \in 1..nCode'
    BY <1>1, <1>2, <1>4, <1>5, Numbers DEF CInv, CRows
  <2>4. CCall(n)' /\ \A d \in Calls : d # c => CPair(n, call[d])
    BY <1>3, <1>7 DEF CCall, CPair, Verifying, Signing
  <2> QED
    BY <1>1, <1>2, <1>3, <1>6, <1>7, <2>1, <2>2, <2>3, <2>4, CMove
<1>10. PInv'
  <2>1. PCall(n) /\ \A d \in Calls : d # c => PPair(call[d], n)
    BY <1>3 DEF PCall, PPair, Signing
  <2> QED
    BY <1>1, <1>2, <1>3, <1>6, <2>1, PSkip DEF userRow, history
<1>11. FInv'
  <2>1. FCall(n)' /\ \A d \in Calls : d # c => FPair(call[d], n)
    BY <1>2, <1>3, CallFacts DEF FCall, FPair, history
  <2>2. \A v \in codes' : v.secret \in retired => v.late
    BY <1>1, <1>4, CallFacts DEF FCall
  <2>3. nSecret <= nSecret' /\ totp'.secret \in 0..nSecret'
    BY <1>1, <1>2, Numbers DEF FInv, FRows
  <2> QED
    BY <1>1, <1>2, <1>3, <1>6, <2>1, <2>2, <2>3, FMove DEF history
<1> QED
  BY <1>6, <1>8, <1>9, <1>10, <1>11 DEF IInv

\* Removing the enrolment marks whoever is about to mint codes for it.
LEMMA DeleteTOTPInv ==
    ASSUME IInv, NEW c \in Calls, DeleteTOTP(c)
    PROVE  IInv'
<1>1. /\ call[c].pc = "delete" /\ call[c].op = "disable" /\ call[c] \in CallStates
      /\ TypeOK /\ OpsInv /\ CInv /\ PInv /\ FInv
  BY CallFacts DEF DeleteTOTP, IInv, OpOK
<1>2. UNCHANGED <<userRow, codes, chal, sess, clock, counters, history>> /\ totp' = NoTOTP
  BY DEF DeleteTOTP
<1>3. PICK n \in CallStates : /\ n.pc = "codes" /\ n.op = "disable" /\ n.secret = totp.secret
                              /\ MarkLate(c, n, "factor")
  <2> DEFINE n == [call[c] EXCEPT !.pc = "codes", !.secret = totp.secret]
  <2>1. n \in CallStates /\ n.pc = "codes" /\ n.op = "disable" /\ n.secret = totp.secret
    BY <1>1, Numbers DEF CallStates, PCs
  <2> QED
    BY <2>1 DEF DeleteTOTP
<1>4. /\ Moves(c, n) /\ UNCHANGED begun
      /\ \A d \in Calls : d # c /\ "factor" \in Leaves(call[d].op) => "factor" \in call'[d].late
  BY <1>1, <1>3, MarkMoves DEF Events
<1>5. totp' \in [secret : Nat, confirmed : BOOLEAN, last : Nat] /\ totp'.secret = 0 /\ ~totp'.confirmed
  BY <1>2 DEF NoTOTP
<1>6. TypeOK'
  BY <1>1, <1>2, <1>4, <1>5 DEF TypeOK, Moves, userRow, counters, history
<1>7. OpOK(n) /\ ~Buys(n) /\ ~Bears(n)
  BY <1>3 DEF OpOK, Buys, Bears
<1>8. OpsInv'
  BY <1>1, <1>4, <1>7, OpsMove
<1>9. CInv'
  <2>1. (\A v \in Codes : Used(v) => Used(v)') /\ \A h \in Nat : Closed(h) => Closed(h)'
    BY <1>1, <1>2, <1>5, Numbers DEF Used, Closed, Codes, counters
  <2>2. nChal <= nChal' /\ nSecret <= nSecret' /\ nCode <= nCode'
    BY <1>1, <1>2, Numbers DEF counters
  <2>3. /\ chal'.id \in {0, nChal'} /\ totp'.secret \in 0..nSecret' /\ (totp'.confirmed => totp'.secret # 0)
        /\ \A v \in codes' : v.n \in 1..nCode'
    BY <1>1, <1>2, <1>5, Numbers DEF CInv, CRows, counters
  <2>4. CCall(n)' /\ \A d \in Calls : d # c => CPair(n, call[d])
    BY <1>3, <1>7 DEF CCall, CPair, Verifying
  <2> QED
    BY <1>1, <1>2, <1>4, <1>6, <1>7, <2>1, <2>2, <2>3, <2>4, CMove
<1>10. PInv'
  <2>1. PCall(n) /\ \A d \in Calls : d # c => PPair(call[d], n)
    BY <1>3 DEF PCall, PPair, Signing
  <2> QED
    BY <1>1, <1>2, <1>3, <1>4, <1>6, <2>1, PSkip DEF userRow, counters, history
<1>11. FInv'
  <2>1. FRows'
    BY <1>1, <1>2, <1>5, Numbers DEF FInv, FRows, RemovedFactorLeavesNoCodes, counters, history
  <2>2. ASSUME NEW d \in Calls PROVE FCall(call[d])'
    <3>1. CASE d = c
      <4>1. totp.secret \in 0..nSecret /\ call'[d] = n
        BY <1>1, <1>4, <3>1 DEF FInv, FRows, Moves
      <4> QED
        BY <1>1, <1>2, <1>3, <1>5, <4>1, Numbers DEF FCall, Minting, counters
    <3>2. CASE d # c
      <4>1. FCall(call[d]) /\ Same(call[d], call'[d])
        BY <1>4, <3>2, CallFacts DEF Moves
      <4> QED
        BY <1>2, <1>5, <4>1 DEF FCall, Same, counters, history
    <3> QED
      BY <3>1, <3>2
  <2>3. ASSUME NEW d \in Calls, NEW e \in Calls, d # e PROVE FPair(call[d], call[e])'
    <3>1. CASE d = c
      <4>1. Same(call[e], call'[e]) /\ call'[d] = n
        BY <1>4, <2>3, <3>1 DEF Moves
      <4>2. call[e].op \in Minting => "factor" \in call'[e].late
        BY <1>4, <2>3, <3>1 DEF Leaves, Minting
      <4> QED
        BY <4>1, <4>2 DEF FPair, Same
    <3>2. CASE e = c
      BY <1>3, <1>4, <3>2 DEF FPair, Moves, Minting
    <3>3. CASE d # c /\ e # c
      <4>1. FPair(call[d], call[e]) /\ Same(call[d], call'[d]) /\ Same(call[e], call'[e])
        BY <1>1, <1>4, <2>3, <3>3 DEF FInv, Moves
      <4> QED
        BY <4>1 DEF FPair, Same
    <3> QED
      BY <3>1, <3>2, <3>3
  <2> QED
    BY <2>1, <2>2, <2>3 DEF FInv
<1> QED
  BY <1>6, <1>8, <1>9, <1>10, <1>11 DEF IInv

\* The removal ends: no code is left, and whoever still mints for this secret is late.
LEMMA DeleteCodesInv ==
    ASSUME IInv, NEW c \in Calls, DeleteCodes(c)
    PROVE  IInv'
<1>1. /\ call[c].pc = "codes" /\ TypeOK /\ OpsInv /\ CInv /\ PInv /\ FInv /\ Return(c)
      /\ FCall(call[c])
  BY CallFacts DEF DeleteCodes, IInv
<1>2. /\ UNCHANGED <<userRow, totp, chal, sess, clock, counters, signedOut, revived>> /\ codes' = {}
      /\ retired' = retired \cup ({call[c].secret} \ {0})
  BY DEF DeleteCodes
<1>3. Moves(c, Idle) /\ UNCHANGED begun
  BY <1>1, ReturnMoves
<1>4. TypeOK'
  BY <1>1, <1>2, <1>3, Numbers DEF TypeOK, Moves, userRow, counters
<1>5. OpsInv'
  BY <1>1, <1>3, IdleType, IdleOK, OpsMove
<1>6. CInv'
  <2>1. (\A v \in Codes : Used(v) => Used(v)') /\ \A h \in Nat : Closed(h) => Closed(h)'
    BY <1>2 DEF Used, Closed, counters
  <2>2. nChal <= nChal' /\ nSecret <= nSecret' /\ nCode <= nCode'
    BY <1>1, <1>2, Numbers DEF counters
  <2>3. /\ chal'.id \in {0, nChal'} /\ totp'.secret \in 0..nSecret' /\ (totp'.confirmed => totp'.secret # 0)
        /\ \A v \in codes' : v.n \in 1..nCode'
    BY <1>1, <1>2 DEF CInv, CRows, counters
  <2> QED
    BY <1>1, <1>2, <1>3, <1>4, <2>1, <2>2, <2>3, IdleType, IdleOK, CMove
<1>7. PInv'
  BY <1>1, <1>2, <1>3, <1>4, IdleType, IdleOK, PSkip DEF userRow, counters
<1>8. FInv'
  <2>1. FRows'
    BY <1>1, <1>2 DEF FInv, FRows, FCall, RemovedFactorLeavesNoCodes, counters
  <2>2. ASSUME NEW d \in Calls PROVE FCall(call[d])'
    <3>1. CASE d = c
      BY <1>3, <3>1, IdleType DEF FCall, Moves, Minting
    <3>2. CASE d # c
      <4>1. FCall(call[d]) /\ FPair(call[c], call[d]) /\ Same(call[d], call'[d])
        BY <1>1, <1>3, <3>2 DEF FInv, Moves
      <4> QED
        BY <1>1, <1>2, <4>1 DEF FCall, FPair, Same, counters
    <3> QED
      BY <3>1, <3>2
  <2>3. \A d, e \in Calls : d # e => FPair(call[d], call[e])'
    BY <1>1, <1>3, IdleType DEF FInv, FPair, Moves, Same, Minting
  <2> QED
    BY <2>1, <2>2, <2>3 DEF FInv
<1> QED
  BY <1>4, <1>5, <1>6, <1>7, <1>8 DEF IInv

LEMMA SatisfyMFAInv ==
    ASSUME IInv, NEW c \in Calls, SatisfyMFA(c)
    PROVE  IInv'
<1>1. TypeOK /\ OpsInv /\ CInv /\ PInv /\ FInv /\ Return(c)
  BY DEF SatisfyMFA, IInv
<1>2. UNCHANGED <<userRow, factor, chal, clock, counters, history>>
  BY DEF SatisfyMFA
<1>3. Moves(c, Idle) /\ UNCHANGED begun
  BY <1>1, ReturnMoves
<1>4. /\ sess' \in [SessionIds -> SessionRows]
      /\ \A s \in SessionIds : /\ sess'[s].via = sess[s].via /\ sess'[s].chal = sess[s].chal
                               /\ sess'[s].live = sess[s].live /\ sess'[s].pw = sess[s].pw
                               /\ sess'[s].late = sess[s].late
  <2>1. sess \in [SessionIds -> SessionRows]
    BY <1>1 DEF TypeOK, SessionRows
  <2>2. CASE sess' = sess
    BY <2>1, <2>2
  <2>3. CASE sess' = [sess EXCEPT ![call[c].sid].mfa = TRUE]
    <3>1. \A s \in SessionIds : [sess[s] EXCEPT !.mfa = TRUE] \in SessionRows
      BY <2>1 DEF SessionRows
    <3>2. \A s \in SessionIds : sess'[s] = IF s = call[c].sid THEN [sess[s] EXCEPT !.mfa = TRUE] ELSE sess[s]
      BY <2>1, <2>3
    <3>3. sess' \in [SessionIds -> SessionRows]
      BY <2>1, <2>3, <3>1, <3>2
    <3> QED
      BY <2>1, <3>2, <3>3 DEF SessionRows
  <2> QED
    BY <2>2, <2>3 DEF SatisfyMFA
<1>5. TypeOK'
  BY <1>1, <1>2, <1>3, <1>4 DEF TypeOK, Moves, SessionRows, userRow, factor, counters, history
<1>6. OpsInv'
  BY <1>1, <1>3, IdleType, IdleOK, OpsMove
<1>7. CInv'
  BY <1>1, <1>2, <1>3, <1>4, <1>5, IdleType, IdleOK, CSkip DEF factor, counters
<1>8. PInv'
  BY <1>1, <1>2, <1>3, <1>4, <1>5, IdleType, IdleOK, PSkip DEF userRow, counters, history
<1>9. FInv'
  BY <1>1, <1>2, <1>3, <1>5, IdleType, IdleOK, FSkip DEF factor, counters, history
<1> QED
  BY <1>5, <1>6, <1>7, <1>8, <1>9 DEF IInv

-----------------------------------------------------------------------------
(* A new password *)

LEMMA UpdatePasswordInv ==
    ASSUME IInv, NEW c \in Calls, UpdatePassword(c)
    PROVE  IInv'
<1>1. /\ call[c].pc = "update" /\ call[c].op = "password" /\ call[c] \in CallStates
      /\ TypeOK /\ OpsInv /\ CInv /\ PInv /\ FInv
  BY CallFacts DEF UpdatePassword, IInv, OpOK
<1>2. UNCHANGED <<factor, chal, sess, clock, nSecret, nCode, nChal, nSess, history>>
  BY DEF UpdatePassword
<1>3. /\ nPw' = nPw + 1 /\ pw' = nPw' /\ nPw' \in 1..MaxPw /\ rehash' \in BOOLEAN
      /\ nPw \in Nat /\ nPw' \in Nat /\ nPw <= nPw'
  <2>1. nPw' = nPw + 1 /\ pw' = nPw + 1 /\ nPw < MaxPw
    BY DEF UpdatePassword
  <2>2. rehash' \in BOOLEAN
    BY Zenon DEF UpdatePassword
  <2>3. nPw \in 1..MaxPw
    BY <1>1 DEF TypeOK
  <2> QED
    BY SignInAssumption, <2>1, <2>2, <2>3
<1>4. PICK n \in CallStates : n.pc = "revoke" /\ n.op = "password" /\ n.pw = nPw' /\ Hold(c, n)
  <2> DEFINE n == [call[c] EXCEPT !.pc = "revoke", !.pw = nPw + 1]
  <2>1. n \in CallStates /\ n.pc = "revoke" /\ n.op = "password" /\ n.pw = nPw + 1
    BY <1>1, <1>3 DEF CallStates, PCs
  <2> QED
    BY <1>3, <2>1 DEF UpdatePassword
<1>5. Moves(c, n) /\ UNCHANGED begun
  BY <1>1, <1>4, HoldMoves
<1>6. TypeOK'
  BY <1>1, <1>2, <1>3, <1>5 DEF TypeOK, Moves, factor, history
<1>7. OpOK(n) /\ ~Buys(n) /\ ~Bears(n)
  BY <1>4 DEF OpOK, Buys, Bears
<1>8. OpsInv'
  BY <1>1, <1>5, <1>7, OpsMove
<1>9. CInv'
  <2>1. CCall(n) /\ \A d \in Calls : d # c => CPair(n, call[d])
    BY <1>4, <1>7 DEF CCall, CPair, Verifying
  <2> QED
    BY <1>1, <1>2, <1>5, <1>6, <1>7, <2>1, CSkip DEF factor
<1>10. PInv'
  <2>1. PCall(n)'
    BY <1>3, <1>4 DEF PCall, Signing
  <2>2. \A s \in SessionIds : sess'[s].live =>
           sess[s].live /\ sess[s].pw <= sess'[s].pw /\ sess'[s].late = sess[s].late
    BY <1>1, <1>2, Numbers
  <2>3. n.pc # "discard" /\ n.op \notin Signing /\ pw' <= nPw' /\ (revived => revived')
    BY <1>2, <1>3, <1>4 DEF Signing, history
  <2> QED
    BY <1>1, <1>2, <1>3, <1>5, <1>6, <2>1, <2>2, <2>3, PMove DEF history
<1>11. FInv'
  <2>1. FCall(n) /\ \A d \in Calls : d # c => FPair(call[d], n)
    BY <1>4 DEF FCall, FPair, Minting
  <2> QED
    BY <1>1, <1>2, <1>4, <1>5, <1>6, <2>1, FSkip DEF factor, history
<1> QED
  BY <1>6, <1>8, <1>9, <1>10, <1>11 DEF IInv

\* An edit writes the password of the row it has read: the newest one, or an outdated one.
LEMMA EditWriteInv ==
    ASSUME IInv, NEW c \in Calls, EditWrite(c)
    PROVE  IInv'
<1>1. /\ call[c].pc = "edit" /\ call[c] \in CallStates
      /\ TypeOK /\ OpsInv /\ CInv /\ PInv /\ FInv
  BY CallFacts DEF EditWrite, IInv
<1>2. UNCHANGED <<factor, chal, sess, clock, counters, signedOut, retired>>
  BY DEF EditWrite
<1>3. Moves(c, Idle) /\ UNCHANGED begun
  BY <1>1, ReturnMoves DEF EditWrite
<1>4. /\ pw' \in 1..MaxPw /\ rehash' \in BOOLEAN /\ revived' \in BOOLEAN
      /\ pw' <= nPw /\ (revived => revived') /\ (~revived' => pw' = nPw)
  <2>1. /\ call[c].pw \in 1..nPw /\ nPw \in 1..MaxPw /\ (~revived => pw = nPw)
        /\ revived \in BOOLEAN /\ call[c].old \in BOOLEAN
    BY <1>1 DEF TypeOK, PInv, PRows, PCall, CallStates
  <2>2. pw' = call[c].pw /\ rehash' = call[c].old /\ revived' = (revived \/ pw # call[c].pw)
    BY DEF EditWrite
  <2>3. pw' \in 1..MaxPw /\ pw' <= nPw
    BY SignInAssumption, <2>1, <2>2
  <2>4. rehash' \in BOOLEAN /\ revived' \in BOOLEAN /\ (revived => revived')
    BY <2>1, <2>2, Zenon
  <2>5. ~revived' => ~revived /\ pw' = pw
    BY <2>2, Zenon
  <2> QED
    BY <2>1, <2>3, <2>4, <2>5
<1>5. TypeOK'
  BY <1>1, <1>2, <1>3, <1>4 DEF TypeOK, Moves, factor, counters
<1>6. OpsInv'
  BY <1>3, IdleType, IdleOK, OpsMove DEF IInv
<1>7. CInv'
  BY <1>1, <1>2, <1>3, <1>5, IdleType, IdleOK, CSkip DEF factor, counters
<1>8. PInv'
  <2>1. nPw' = nPw /\ nPw <= nPw' /\ signedOut' = signedOut /\ chal' = chal
    BY <1>1, <1>2, Numbers DEF counters
  <2>2. \A s \in SessionIds : sess'[s].live =>
           sess[s].live /\ sess[s].pw <= sess'[s].pw /\ sess'[s].late = sess[s].late
    BY <1>1, <1>2, Numbers
  <2>3. PCall(Idle)' /\ Idle.pc # "discard" /\ Idle.op \notin Signing
    BY IdleOK
  <2> QED
    BY <1>1, <1>3, <1>4, <1>5, <2>1, <2>2, <2>3, IdleType, PMove
<1>9. FInv'
  BY <1>1, <1>2, <1>3, <1>5, IdleType, IdleOK, FSkip DEF factor, counters
<1> QED
  BY <1>5, <1>6, <1>7, <1>8, <1>9 DEF IInv

LEMMA EndedType ==
    ASSUME NEW r \in SessionRows
    PROVE  Ended(r) \in SessionRows /\ Ended(r).live = FALSE /\ Ended(r).via = r.via /\ Ended(r).chal = r.chal
BY CodeType DEF Ended, NoSession, SessionRows

\* Of the sessions only the one that changes the password stays, and it rests on the new one;
\* whoever is signing in is marked.
LEMMA RevokeOthersInv ==
    ASSUME IInv, NEW c \in Calls, RevokeOthers(c)
    PROVE  IInv'
<1>1. /\ call[c].pc = "revoke" /\ call[c].op = "password" /\ call[c] \in CallStates
      /\ call[c].pw \in 1..nPw /\ TypeOK /\ OpsInv /\ CInv /\ PInv /\ FInv
  BY CallFacts DEF RevokeOthers, IInv, OpOK, PCall
<1>2. UNCHANGED <<userRow, factor, chal, clock, counters, history>>
  BY DEF RevokeOthers
<1>3. PICK n \in CallStates : /\ n.pc = "discard" /\ n.op = "password" /\ n.pw = call[c].pw
                              /\ MarkLate(c, n, "password")
  <2> DEFINE n == [call[c] EXCEPT !.pc = "discard"]
  <2>1. n \in CallStates /\ n.pc = "discard" /\ n.op = "password" /\ n.pw = call[c].pw
    BY <1>1 DEF CallStates, PCs
  <2> QED
    BY <2>1 DEF RevokeOthers
<1>4. /\ Moves(c, n) /\ UNCHANGED begun
      /\ \A d \in Calls : d # c /\ "password" \in Leaves(call[d].op) => "password" \in call'[d].late
  BY <1>1, <1>3, MarkMoves DEF Events
<1>5. /\ sess' \in [SessionIds -> SessionRows]
      /\ \A s \in SessionIds :
            /\ sess'[s].via = sess[s].via /\ sess'[s].chal = sess[s].chal
            /\ sess'[s].live => /\ sess[s].live /\ sess[s].pw <= sess'[s].pw /\ call[c].pw <= sess'[s].pw
                                /\ sess'[s].late = sess[s].late
  <2>1. sess \in [SessionIds -> SessionRows] /\ call[c].pw \in Nat
    BY <1>1, Numbers DEF TypeOK, SessionRows
  <2> DEFINE new(s) == IF s # call[c].sid THEN Ended(sess[s])
                       ELSE IF ~sess[s].live THEN sess[s]
                       ELSE [sess[s] EXCEPT !.pw = IF call[c].pw > @ THEN call[c].pw ELSE @]
  <2>2. sess' = [s \in SessionIds |-> new(s)]
    BY DEF RevokeOthers
  <2>3. ASSUME NEW s \in SessionIds
        PROVE  /\ new(s) \in SessionRows /\ new(s).via = sess[s].via /\ new(s).chal = sess[s].chal
               /\ new(s).live => /\ sess[s].live /\ sess[s].pw <= new(s).pw /\ call[c].pw <= new(s).pw
                                 /\ new(s).late = sess[s].late
    <3>1. sess[s] \in SessionRows /\ sess[s].pw \in Nat
      BY <2>1 DEF SessionRows
    <3>2. CASE s # call[c].sid
      <4>1. new(s) = Ended(sess[s])
        BY <3>2
      <4> QED
        BY <3>1, <4>1, EndedType
    <3>3. CASE s = call[c].sid /\ ~sess[s].live
      <4>1. new(s) = sess[s]
        BY <3>3
      <4> QED
        BY <3>1, <3>3, <4>1
    <3>4. CASE s = call[c].sid /\ sess[s].live
      <4> DEFINE p == IF call[c].pw > sess[s].pw THEN call[c].pw ELSE sess[s].pw
      <4>1. p \in Nat /\ sess[s].pw <= p /\ call[c].pw <= p
        BY <2>1, <3>1
      <4>2. new(s) = [sess[s] EXCEPT !.pw = p]
        BY <3>4
      <4> HIDE DEF p, new
      <4> QED
        BY <3>1, <3>4, <4>1, <4>2 DEF SessionRows
    <3> QED
      BY <3>2, <3>3, <3>4
  <2> HIDE DEF new
  <2> QED
    BY <2>2, <2>3
<1>6. TypeOK'
  BY <1>1, <1>2, <1>4, <1>5 DEF TypeOK, Moves, SessionRows, userRow, factor, counters, history
<1>7. OpOK(n) /\ ~Buys(n) /\ ~Bears(n)
  BY <1>3 DEF OpOK, Buys, Bears
<1>8. OpsInv'
  BY <1>1, <1>4, <1>7, OpsMove
<1>9. CInv'
  <2>1. CCall(n) /\ \A d \in Calls : d # c => CPair(n, call[d])
    BY <1>3, <1>7 DEF CCall, CPair, Verifying
  <2> QED
    BY <1>1, <1>2, <1>4, <1>5, <1>6, <1>7, <2>1, CSkip DEF factor, counters
<1>10. PInv'
  <2>1. /\ \A s \in SessionIds : sess[s].pw \in Nat /\ sess'[s].pw \in Nat
        /\ \A d \in Calls : call[d].pw \in Nat /\ call'[d].pw \in Nat
        /\ signedOut \in Nat /\ nPw \in Nat /\ n.pw \in Nat
    BY <1>1, <1>6, Numbers DEF TypeOK, CallStates, SessionRows
  <2>2. UNCHANGED <<pw, nPw, signedOut, revived, chal>>
    BY <1>2 DEF userRow, counters, history
  <2>3. PRows'
    <3>1. OldPasswordOnlyInFlight'
      BY <1>1, <1>5, <2>1, <2>2 DEF PInv, PRows, OldPasswordOnlyInFlight
    <3> QED
      BY <1>1, <2>2, <3>1 DEF PInv, PRows
  <2>4. ASSUME NEW d \in Calls PROVE PCall(call[d])'
    <3>1. CASE d = c
      <4>1. call'[d] = n
        BY <1>4, <3>1 DEF Moves
      <4>2. \A s \in SessionIds : sess'[s].live => ~(sess'[s].pw < n.pw)
        BY <1>3, <1>5, <2>1
      <4> QED
        BY <1>1, <1>3, <2>2, <4>1, <4>2 DEF PCall, Signing
    <3>2. CASE d # c
      <4>1. PCall(call[d]) /\ Same(call[d], call'[d])
        BY <1>4, <3>2, CallFacts DEF Moves
      <4> QED
        BY <1>5, <2>1, <2>2, <4>1 DEF PCall, Same
    <3> QED
      BY <3>1, <3>2
  <2>5. ASSUME NEW d \in Calls, NEW e \in Calls, d # e PROVE PPair(call[d], call[e])'
    <3>1. CASE e = c
      BY <1>3, <1>4, <3>1 DEF PPair, Moves, Signing
    <3>2. CASE d = c
      <4>1. Same(call[e], call'[e])
        BY <1>4, <2>5, <3>2 DEF Moves
      <4>2. call[e].op \in Signing => "password" \in call'[e].late
        BY <1>4, <2>5, <3>2 DEF Leaves, Signing
      <4> QED
        BY <4>1, <4>2 DEF PPair, Same
    <3>3. CASE d # c /\ e # c
      <4>1. PPair(call[d], call[e]) /\ Same(call[d], call'[d]) /\ Same(call[e], call'[e])
        BY <1>1, <1>4, <2>5, <3>3 DEF PInv, Moves
      <4> QED
        BY <2>2, <4>1 DEF PPair, Same
    <3> QED
      BY <3>1, <3>2, <3>3
  <2> QED
    BY <2>3, <2>4, <2>5 DEF PInv
<1>11. FInv'
  <2>1. FCall(n) /\ \A d \in Calls : d # c => FPair(call[d], n)
    BY <1>3 DEF FCall, FPair, Minting
  <2> QED
    BY <1>1, <1>2, <1>3, <1>4, <1>6, <2>1, FSkip DEF factor, counters, history
<1> QED
  BY <1>6, <1>8, <1>9, <1>10, <1>11 DEF IInv

\* The change ends: what still rests on an older password was late before this step.
LEMMA DiscardInv ==
    ASSUME IInv, NEW c \in Calls, Discard(c)
    PROVE  IInv'
<1>1. /\ call[c].pc = "discard" /\ TypeOK /\ OpsInv /\ CInv /\ PInv /\ FInv /\ Return(c)
      /\ PCall(call[c]) /\ call[c].pw \in 1..nPw
  BY CallFacts DEF Discard, IInv, PCall
<1>2. UNCHANGED <<userRow, factor, sess, clock, counters, revived, retired>>
  BY DEF Discard
<1>3. Moves(c, Idle) /\ UNCHANGED begun
  BY <1>1, ReturnMoves
<1>4. chal' \in [id : Nat, spent : BOOLEAN, pw : Nat, late : BOOLEAN] /\ chal'.id = 0
  BY DEF Discard, NoChallenge
<1>5. /\ signedOut' \in Nat /\ signedOut' <= nPw
      /\ \A p \in Nat : p < signedOut' => p < signedOut \/ p < call[c].pw
  <2>1. signedOut \in Nat /\ nPw \in Nat /\ call[c].pw \in Nat /\ signedOut <= nPw
    BY <1>1, Numbers DEF PInv, PRows
  <2> QED
    BY <1>1, <2>1 DEF Discard
<1>6. TypeOK'
  BY <1>1, <1>2, <1>3, <1>4, <1>5 DEF TypeOK, Moves, userRow, factor, counters
<1>7. OpsInv'
  BY <1>1, <1>3, IdleType, IdleOK, OpsMove
<1>8. CInv'
  <2>1. (\A v \in Codes : Used(v) => Used(v)') /\ \A h \in Nat : Closed(h) => Closed(h)'
    BY <1>1, <1>2, <1>4, Numbers DEF Used, Closed, factor, counters
  <2>2. nChal <= nChal' /\ nSecret <= nSecret' /\ nCode <= nCode'
    BY <1>1, <1>2, Numbers DEF counters
  <2>3. /\ chal'.id \in {0, nChal'} /\ totp'.secret \in 0..nSecret' /\ (totp'.confirmed => totp'.secret # 0)
        /\ \A v \in codes' : v.n \in 1..nCode'
    BY <1>1, <1>2, <1>4 DEF CInv, CRows, factor, counters
  <2> QED
    BY <1>1, <1>2, <1>3, <1>6, <2>1, <2>2, <2>3, IdleType, IdleOK, CMove
<1>9. PInv'
  <2>1. UNCHANGED <<pw, nPw, revived, sess>>
    BY <1>2 DEF userRow, counters
  <2>2. PRows'
    <3>1. OldPasswordOnlyInFlight'
      <4>1. ASSUME ~revived, NEW s \in SessionIds, sess[s].live, sess[s].pw < signedOut'
            PROVE  sess[s].late
        <5>1. sess[s].pw < signedOut \/ sess[s].pw < call[c].pw
          BY <1>1, <1>5, <4>1, Numbers
        <5> QED
          BY <1>1, <4>1, <5>1 DEF PInv, PRows, PCall, OldPasswordOnlyInFlight
      <4> QED
        BY <1>4, <2>1, <4>1 DEF OldPasswordOnlyInFlight
    <3> QED
      BY <1>1, <1>5, <2>1, <3>1 DEF PInv, PRows
  <2>3. ASSUME NEW d \in Calls PROVE PCall(call[d])'
    <3>1. CASE d = c
      BY <1>3, <3>1, IdleType DEF PCall, Moves, Signing
    <3>2. CASE d # c
      <4>1. PCall(call[d]) /\ PPair(call[c], call[d]) /\ Same(call[d], call'[d]) /\ call[d].pw \in Nat
        BY <1>1, <1>3, <3>2, Numbers DEF PInv, Moves
      <4>2. ~revived /\ call[d].op \in Signing /\ call[d].pw < signedOut' => "password" \in call[d].late
        BY <1>1, <1>5, <4>1 DEF PCall, PPair
      <4> QED
        BY <2>1, <4>1, <4>2 DEF PCall, Same
    <3> QED
      BY <3>1, <3>2
  <2>4. \A d, e \in Calls : d # e => PPair(call[d], call[e])'
    BY <1>1, <1>3, <2>1, IdleType DEF PInv, PPair, Moves, Same, Signing
  <2> QED
    BY <2>2, <2>3, <2>4 DEF PInv
<1>10. FInv'
  BY <1>1, <1>2, <1>3, <1>6, IdleType, IdleOK, FSkip DEF factor, counters
<1> QED
  BY <1>6, <1>7, <1>8, <1>9, <1>10 DEF IInv

-----------------------------------------------------------------------------
(* Steps of nobody's request *)

LEMMA SameCall == \A k : Same(k, k)
BY DEF Same

LEMMA QuietInv ==
    ASSUME IInv, TypeOK', UNCHANGED <<userRow, factor, chal, counters, call, history>>,
           \A s \in SessionIds :
              /\ sess'[s].via = sess[s].via /\ sess'[s].chal = sess[s].chal
              /\ sess'[s].live => /\ sess[s].live /\ sess'[s].pw = sess[s].pw
                                  /\ sess'[s].late = sess[s].late
    PROVE  IInv'
<1> USE DEF userRow, factor, counters, history
<1>1. TypeOK /\ OpsInv /\ CInv /\ PInv /\ FInv
  BY DEF IInv
<1>2. \A d \in Calls : Same(call[d], call'[d])
  BY SameCall
<1>3. OpsInv'
  BY <1>1 DEF OpsInv
<1>4. nChal <= nChal' /\ nSecret <= nSecret' /\ nCode <= nCode' /\ nPw <= nPw'
  BY <1>1, Numbers
<1>5. CInv'
  <2>1. (\A v \in Codes : Used(v) => Used(v)') /\ \A h \in Nat : Closed(h) => Closed(h)'
    BY DEF Used, Closed
  <2>2. /\ chal'.id \in {0, nChal'} /\ totp'.secret \in 0..nSecret' /\ (totp'.confirmed => totp'.secret # 0)
        /\ \A v \in codes' : v.n \in 1..nCode'
    BY <1>1 DEF CInv, CRows
  <2> QED
    BY <1>1, <1>2, <1>4, <2>1, <2>2, CQuiet
<1>6. PInv'
  <2>1. pw' <= nPw' /\ (~revived' => pw' = nPw') /\ signedOut' = signedOut /\ chal' = chal
    BY <1>1 DEF PInv, PRows
  <2>2. \A s \in SessionIds : sess'[s].live =>
           sess[s].live /\ sess[s].pw <= sess'[s].pw /\ sess'[s].late = sess[s].late
    BY <1>1, Numbers
  <2> QED
    BY <1>1, <1>2, <1>4, <2>1, <2>2, PQuiet
<1>7. FInv'
  <2>1. totp'.secret \in 0..nSecret' /\ totp'.secret = totp.secret /\ codes' = codes
    BY <1>1 DEF FInv, FRows
  <2> QED
    BY <1>1, <1>2, <1>4, <2>1, FQuiet
<1> QED
  BY <1>3, <1>5, <1>6, <1>7 DEF IInv

LEMMA RevokeInv ==
    ASSUME IInv, NEW s \in SessionIds, Revoke(s)
    PROVE  IInv'
<1>1. sess \in [SessionIds -> SessionRows]
  BY DEF IInv, TypeOK, SessionRows
<1>2. sess' = [sess EXCEPT ![s] = Ended(sess[s])]
  BY DEF Revoke
<1>3. sess' \in [SessionIds -> SessionRows]
  BY <1>1, <1>2, EndedType
<1>4. \A r \in SessionIds :
         /\ sess'[r].via = sess[r].via /\ sess'[r].chal = sess[r].chal
         /\ sess'[r].live => /\ sess[r].live /\ sess'[r].pw = sess[r].pw /\ sess'[r].late = sess[r].late
  BY <1>1, <1>2, EndedType
<1>5. UNCHANGED <<userRow, factor, chal, clock, counters, call, begun, history>>
  BY DEF Revoke
<1>6. TypeOK'
  BY <1>3, <1>5 DEF IInv, TypeOK, SessionRows, userRow, factor, counters, history
<1> QED
  BY <1>4, <1>5, <1>6, QuietInv

LEMMA TickInv ==
    ASSUME IInv, Tick
    PROVE  IInv'
<1>1. UNCHANGED <<userRow, factor, chal, sess, counters, call, begun, history>> /\ clock' \in Nat
  BY DEF Tick, IInv, TypeOK
<1>2. TypeOK'
  BY <1>1 DEF IInv, TypeOK, userRow, factor, counters, history
<1> QED
  BY <1>1, <1>2, QuietInv

-----------------------------------------------------------------------------
(* The invariant *)

LEMMA InitInv ==
    ASSUME Init
    PROVE  IInv
<1> USE SignInAssumption
<1>1. /\ pw = 1 /\ nPw = 1 /\ chal = NoChallenge /\ nChal = 0 /\ nSess = 0 /\ clock = 1 /\ begun = 0
      /\ signedOut = 0 /\ retired = {} /\ sess = [s \in SessionIds |-> NoSession]
      /\ call = [c \in Calls |-> Idle]
  BY DEF Init
<1>2. rehash \in BOOLEAN /\ revived \in BOOLEAN /\ ~revived
  BY Zenon DEF Init
<1>3. /\ totp \in [secret : Nat, confirmed : BOOLEAN, last : Nat]
      /\ codes \subseteq [n : Nat, secret : Nat, late : BOOLEAN]
      /\ nSecret \in {0, 1} /\ nCode \in {0, 1} /\ totp.secret = nSecret
      /\ (totp.confirmed => totp.secret # 0) /\ \A k \in codes : k.n \in 1..nCode
  <2>1. CASE totp = NoTOTP /\ codes = {} /\ nSecret = 0 /\ nCode = 0
    BY <2>1 DEF NoTOTP
  <2>2. CASE /\ totp = [secret |-> 1, confirmed |-> TRUE, last |-> 1]
             /\ codes = {[n |-> 1, secret |-> 1, late |-> FALSE]}
             /\ nSecret = 1 /\ nCode = 1
    <3> DEFINE k == [n |-> 1, secret |-> 1, late |-> FALSE]
    <3>1. k \in [n : Nat, secret : Nat, late : BOOLEAN] /\ k.n = 1
      OBVIOUS
    <3>2. codes = {k}
      BY <2>2
    <3> HIDE DEF k
    <3> QED
      BY <2>2, <3>1, <3>2
  <2> QED
    BY <2>1, <2>2 DEF Init
<1>4. chal \in [id : Nat, spent : BOOLEAN, pw : Nat, late : BOOLEAN] /\ chal.id = 0
  BY <1>1 DEF NoChallenge
<1>5. NoSession \in SessionRows /\ ~NoSession.live /\ NoSession.via = NoCode
  BY CodeType DEF NoSession, SessionRows
<1>6. TypeOK
  BY <1>1, <1>2, <1>3, <1>4, <1>5, IdleType DEF TypeOK, SessionRows
<1>7. (\A c \in Calls : call[c] = Idle) /\ \A s \in SessionIds : sess[s] = NoSession
  BY <1>1
<1>8. OpsInv
  BY <1>7, IdleType DEF OpsInv, OpOK
<1>9. CInv
  <2>1. CRows
    BY <1>3, <1>4, <1>5, <1>7 DEF CRows, Bought, CodeBuysOneSession
  <2>2. CCall(Idle) /\ CPair(Idle, Idle)
    BY IdleType DEF CCall, CPair, Buys, Bears, Verifying
  <2> QED
    BY <1>7, <2>1, <2>2 DEF CInv
<1>10. PInv
  <2>1. PRows
    BY <1>1, <1>4, <1>5, <1>7 DEF PRows, OldPasswordOnlyInFlight
  <2>2. PCall(Idle) /\ PPair(Idle, Idle)
    BY IdleType DEF PCall, PPair, Signing
  <2> QED
    BY <1>7, <2>1, <2>2 DEF PInv
<1>11. FInv
  <2>1. FRows
    BY <1>1, <1>3 DEF FRows, RemovedFactorLeavesNoCodes
  <2>2. FCall(Idle) /\ FPair(Idle, Idle)
    BY IdleType DEF FCall, FPair, Minting
  <2> QED
    BY <1>7, <2>1, <2>2 DEF FInv
<1> QED
  BY <1>6, <1>8, <1>9, <1>10, <1>11 DEF IInv

LEMMA StutterInv ==
    ASSUME IInv, UNCHANGED vars
    PROVE  IInv'
<1>1. UNCHANGED <<userRow, factor, chal, sess, clock, counters, call, begun, history>>
  BY DEF vars
<1>2. TypeOK'
  BY <1>1 DEF IInv, TypeOK, userRow, factor, counters, history
<1> QED
  BY <1>1, <1>2, QuietInv

LEMMA NextInv ==
    ASSUME IInv, [Next]_vars
    PROVE  IInv'
<1>1. ASSUME NEW c \in Calls, Step(c) PROVE IInv'
  <2>1. CASE Login(c) \/ UpgradeHash(c) \/ OpenChallenge(c) \/ Issue(c)
    BY <2>1, LoginInv, UpgradeHashInv, OpenChallengeInv, IssueInv
  <2>2. CASE \E o \in {"totp", "recovery"} : Resolve(c, o)
    BY <2>2, ResolveInv DEF Verifying
  <2>3. CASE PresentTOTP(c) \/ ConfirmRead(c) \/ PresentRecovery(c) \/ RegenerateRead(c)
    BY <2>3, PresentTOTPInv, PresentRecoveryInv, RegenerateInv
  <2>4. CASE Accept(c) \/ UseCode(c) \/ Spend(c)
    BY <2>4, AcceptInv, UseCodeInv, SpendInv
  <2>5. CASE \E s \in SessionIds, o \in {"enroll", "confirm", "disable", "regenerate", "password"} :
                Authenticate(c, s, o)
    BY <2>5, AuthenticateInv
  <2>6. CASE DecideLogin(c) \/ EnrollRead(c) \/ DisableRead(c) \/ ChangeRead(c) \/ Fail(c)
    BY <2>6, ReadingInv
  <2>7. CASE Enroll(c) \/ MintCodes(c) \/ SatisfyMFA(c) \/ DeleteTOTP(c) \/ DeleteCodes(c)
    BY <2>7, EnrollInv, MintCodesInv, SatisfyMFAInv, DeleteTOTPInv, DeleteCodesInv
  <2>8. CASE UpdatePassword(c) \/ RevokeOthers(c) \/ Discard(c)
    BY <2>8, UpdatePasswordInv, RevokeOthersInv, DiscardInv
  <2>9. CASE EditRead(c) \/ EditWrite(c)
    BY <2>9, EditReadInv, EditWriteInv
  <2> QED
    BY <1>1, <2>1, <2>2, <2>3, <2>4, <2>5, <2>6, <2>7, <2>8, <2>9 DEF Step
<1>2. ASSUME NEW s \in SessionIds, Revoke(s) PROVE IInv'
  BY <1>2, RevokeInv
<1>3. CASE Tick
  BY <1>3, TickInv
<1>4. CASE UNCHANGED vars
  BY <1>4, StutterInv
<1> QED
  BY <1>1, <1>2, <1>3, <1>4 DEF Next

\* The inductive invariant of signing in: types, which call is at which step, and what codes,
\* passwords and the second factor owe to the requests still under way.
THEOREM Invariance == Spec => []IInv
<1>1. Init => IInv
  BY InitInv
<1>2. IInv /\ [Next]_vars => IInv'
  BY NextInv
<1> QED
  BY <1>1, <1>2, PTL DEF Spec

\* The rows and the requests stay in their types, and every bound is kept.
THEOREM TypeCorrect == Spec => []TypeOK
<1>1. IInv => TypeOK
  BY DEF IInv
<1> QED
  BY <1>1, Invariance, PTL

\* "One correct code buys exactly one session": no two sessions come from one code or from
\* one challenge, whatever the requests on them do in between (VerifyTOTP checks, accepts,
\* spends and issues in separate transactions).
THEOREM OneCodeOneSession == Spec => []CodeBuysOneSession
<1>1. IInv => CodeBuysOneSession
  BY DEF IInv, CInv, CRows
<1> QED
  BY <1>1, Invariance, PTL

\* After a ChangePassword that ran to its end, a session or challenge resting on an older
\* password comes from a sign-in it ran across, or from a password that a hash upgrade, an edit
\* of the account or a federated sign-in wrote back with the rest of an outdated row.
THEOREM OldPasswordSignedOut == Spec => []OldPasswordOnlyInFlight
<1>1. IInv => OldPasswordOnlyInFlight
  BY DEF IInv, PInv, PRows
<1> QED
  BY <1>1, Invariance, PTL

\* After a DisableTOTP that ran to its end, a recovery code for the removed secret comes from
\* a request that was minting while it ran.
THEOREM RemovedFactorGone == Spec => []RemovedFactorLeavesNoCodes
<1>1. IInv => RemovedFactorLeavesNoCodes
  BY DEF IInv, FInv, FRows
<1> QED
  BY <1>1, Invariance, PTL
=============================================================================
