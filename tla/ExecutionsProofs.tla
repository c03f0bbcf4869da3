--------------------------- MODULE ExecutionsProofs ---------------------------
(***************************************************************************)
(* The executions' safety for any number of requests, steps, categories    *)
(* and versions.  One inductive invariant, IInv, carries all of it: the    *)
(* version a patch names ties the row its client saw, the row the handler  *)
(* validated and the row the transaction writes.  The second part is about *)
(* the evidence that is stored for an execution.                           *)
(***************************************************************************)
EXTENDS Executions, EvidenceState, FiniteSetTheorems, TLAPS

\* A new call record and the idle one have the type of a call.
LEMMA FreshTyped ==
    ASSUME eng \in Engagements,
           NEW o \in {"none", "red", "blue", "reveal", "update", "status"},
           NEW s \in Steps \cup {NoStep},
           NEW w \in Statuses \cup Categories \cup EngStatuses \cup {"none"},
           NEW l \in {"idle", "sent", "check", "reveal", "write"}
    PROVE  Fresh(o, s, w, l) \in CallStates
  BY DEF Fresh, CallStates, Shut, Engagements, EngStatuses, Statuses, Contents

\* The idle record satisfies every part of the invariant.
LEMMA IdleCoherent ==
    ASSUME eng \in Engagements
    PROVE  Idle \in CallStates /\ Tied(Idle) /\ Sound(Idle) /\ Vetted(Idle) /\ Kept(Idle)
  <1>1. Idle \in CallStates
    BY FreshTyped DEF Idle
  <1>2. Tied(Idle) /\ Sound(Idle) /\ Vetted(Idle) /\ Kept(Idle)
    BY DEF Idle, Fresh, Tied, Sound, Vetted, Kept
  <1> QED BY <1>1, <1>2

\* Init establishes the invariant.
LEMMA InitIInv == Init => IInv
  <1> SUFFICES ASSUME Init PROVE IInv OBVIOUS
  <1>1. eng \in Engagements
    BY DEF Init
  <1>2. TypeOK
    BY <1>1, IdleCoherent, ExecutionsAssumption DEF Init, TypeOK, Statuses, BlindAuto
  <1>3. \A c \in Calls : Tied(call[c]) /\ Sound(call[c]) /\ Vetted(call[c]) /\ Kept(call[c])
    BY <1>1, IdleCoherent DEF Init
  <1>4. StartedIsRevealed /\ (alwaysAuto => BlindAuto(eng))
    BY DEF Init, StartedIsRevealed, BlindAuto
  <1> QED BY <1>2, <1>3, <1>4 DEF IInv

\* Vetted, of a call as it will be, in the state after the step.
VettedNext(k) ==
    k.op = "red" =>
        /\ k.pc \in {"reveal", "write"} => LegalMove(k.seenSt, k.want)
        /\ k.pc = "write" /\ alwaysAuto /\ Starts(k.seenSt, k.want) => revealed'[k.step]

\* A step that leaves the execution rows and the engagement as they are, only
\* ever reveals, and changes one call into a coherent one keeps the invariant.
LEMMA CallStep ==
    ASSUME IInv, NEW c \in Calls, NEW k \in CallStates,
           call' = [call EXCEPT ![c] = k],
           UNCHANGED <<eng, rows, alwaysAuto>>,
           revealed' \in [Steps -> BOOLEAN], \A s \in Steps : revealed[s] => revealed'[s],
           Tied(k), Sound(k), Kept(k), VettedNext(k)
    PROVE  IInv'
  <1> USE DEF IInv, TypeOK
  <1>1. TypeOK'
    BY DEF rows
  <1>2. ASSUME NEW d \in Calls
        PROVE  (Tied(call[d]) /\ Sound(call[d]) /\ Vetted(call[d]) /\ Kept(call[d]))'
    <2>1. CASE d = c
      <3>1. call'[d] = k BY <2>1
      <3>2. (Tied(call[d]) /\ Sound(call[d]) /\ Kept(call[d]))'
        BY <3>1 DEF Tied, Sound, Kept, Content, Shut, rows
      <3>3. Vetted(call[d])'
        BY <3>1 DEF Vetted, VettedNext, LegalMove, Starts
      <3> QED BY <3>2, <3>3
    <2>2. CASE d # c
      <3>1. call'[d] = call[d] /\ call[d] \in CallStates BY <2>2
      <3>2. Tied(call[d]) /\ Sound(call[d]) /\ Vetted(call[d]) /\ Kept(call[d])
        OBVIOUS
      <3>3. (Tied(call[d]) /\ Sound(call[d]) /\ Kept(call[d]))'
        BY <3>1, <3>2 DEF Tied, Sound, Kept, Content, Shut, rows
      <3>4. Vetted(call[d])'
        <4>1. call[d].op = "red" /\ call[d].pc # "sent" => call[d].step \in Steps
          BY <3>2 DEF Tied
        <4> QED BY <3>1, <3>2, <4>1 DEF Vetted
      <3> QED BY <3>3, <3>4
    <2> QED BY <2>1, <2>2
  <1>3. StartedIsRevealed' /\ (alwaysAuto => BlindAuto(eng))'
    BY DEF StartedIsRevealed, BlindAuto, rows
  <1> QED BY <1>1, <1>2, <1>3

\* A call that returns before writing anything.
LEMMA ReturnStep ==
    ASSUME IInv, NEW c \in Calls, Return(c), UNCHANGED <<eng, revealed, rows, alwaysAuto>>
    PROVE  IInv'
  <1>1. eng \in Engagements /\ revealed' \in [Steps -> BOOLEAN]
    BY DEF IInv, TypeOK
  <1>2. VettedNext(Idle)
    BY DEF VettedNext, Idle, Fresh
  <1> HIDE DEF Idle
  <1>3. call' = [call EXCEPT ![c] = Idle] BY DEF Return
  <1> QED BY <1>1, <1>2, <1>3, IdleCoherent, CallStep

\* Send and ReadExecution keep the invariant: what is read is what the row says.
LEMMA SendStep ==
    ASSUME IInv, NEW c \in Calls, NEW s \in Steps, NEW o, NEW w,
           \/ o = "red" /\ w \in Statuses \cup {"none"}
           \/ o = "blue" /\ w \in Categories,
           Send(c, o, s, w)
    PROVE  IInv'
  <1> DEFINE k == [Fresh(o, s, w, "sent") EXCEPT !.base = ver[s], !.saw = Content(s)]
  <1>1. Fresh(o, s, w, "sent") \in CallStates
    BY FreshTyped DEF IInv, TypeOK
  <1>2. ver[s] \in Nat /\ Content(s) \in Contents /\ ver[s] < MaxVersion
    BY ExecutionsAssumption DEF IInv, TypeOK, Send, Content, Contents
  <1>3. k \in CallStates
    BY <1>1, <1>2 DEF CallStates
  <1>4. /\ k.op = o /\ k.step = s /\ k.want = w /\ k.pc = "sent" /\ k.base = ver[s]
        /\ k.saw = Content(s) /\ (k.late => Shut(eng))
    BY DEF Fresh
  <1> HIDE DEF k
  <1>5. Tied(k) /\ Sound(k) /\ Kept(k) /\ VettedNext(k)
    BY <1>2, <1>4 DEF Tied, Sound, Kept, VettedNext
  <1>6. /\ call' = [call EXCEPT ![c] = k] /\ UNCHANGED <<eng, revealed, rows, alwaysAuto>>
    BY DEF Send, Begin, k
  <1> QED BY <1>3, <1>5, <1>6, CallStep DEF IInv, TypeOK

LEMMA ReadStep ==
    ASSUME IInv, NEW c \in Calls, ReadExecution(c)
    PROVE  IInv'
  <1> DEFINE s == call[c].step
             k == [call[c] EXCEPT !.pc = "check", !.seenVer = ver[s], !.seenSt = st[s]]
  <1>1. call[c] \in CallStates /\ call[c].pc = "sent" /\ call[c].op \in {"red", "blue"}
    BY DEF IInv, TypeOK, ReadExecution, Sound
  <1>2. Tied(call[c]) /\ Sound(call[c]) /\ Kept(call[c]) /\ s \in Steps
    BY <1>1 DEF IInv, Tied
  <1>3. ver[s] \in Nat /\ st[s] \in Statuses
    BY <1>2 DEF IInv, TypeOK
  <1>4. k \in CallStates
    BY <1>1, <1>3 DEF CallStates
  <1>5. /\ k.pc = "check" /\ k.seenVer = ver[s] /\ k.seenSt = st[s] /\ k.op = call[c].op
        /\ k.step = s /\ k.want = call[c].want /\ k.base = call[c].base /\ k.saw = call[c].saw
        /\ k.late = call[c].late
    BY <1>1 DEF CallStates
  <1>6. /\ call' = [call EXCEPT ![c] = k] /\ UNCHANGED <<eng, revealed, rows, alwaysAuto>>
    BY <1>1 DEF ReadExecution, IInv, TypeOK, CallStates
  <1> HIDE DEF k, s
  <1>7. Tied(k)
    BY <1>2, <1>3, <1>5 DEF Tied, s
  <1>8. Sound(k) /\ Kept(k) /\ VettedNext(k)
    BY <1>1, <1>2, <1>5 DEF Sound, Kept, VettedNext
  <1> QED BY <1>4, <1>6, <1>7, <1>8, CallStep DEF IInv, TypeOK

\* A call that moves on to a later place keeps what it has read.
LEMMA GotoStep ==
    ASSUME IInv, NEW c \in Calls, NEW l \in {"reveal", "write"}, Goto(c, l),
           call[c].op \in {"red", "blue", "reveal"}, call[c].pc \in {"check", "reveal"},
           call[c].pc = "check" => ~Shut(eng),
           call[c].op = "red" => LegalMove(call[c].seenSt, call[c].want),
           UNCHANGED <<eng, rows, alwaysAuto>>,
           revealed' \in [Steps -> BOOLEAN], \A s \in Steps : revealed[s] => revealed'[s],
           l = "write" /\ call[c].op = "red" /\ alwaysAuto /\ Starts(call[c].seenSt, call[c].want)
               => revealed'[call[c].step]
    PROVE  IInv'
  <1> DEFINE k == [call[c] EXCEPT !.pc = l]
  <1>1. call[c] \in CallStates /\ Tied(call[c]) /\ Sound(call[c]) /\ Kept(call[c])
    BY DEF IInv, TypeOK
  <1>2. k \in CallStates
    BY <1>1 DEF CallStates
  <1>3. /\ k.pc = l /\ k.seenVer = call[c].seenVer /\ k.seenSt = call[c].seenSt /\ k.op = call[c].op
        /\ k.step = call[c].step /\ k.want = call[c].want /\ k.base = call[c].base
        /\ k.saw = call[c].saw /\ k.late = call[c].late
    BY <1>1 DEF CallStates
  <1>4. call' = [call EXCEPT ![c] = k]
    BY DEF Goto
  <1> HIDE DEF k
  <1>5. Tied(k) /\ Sound(k)
    BY <1>1, <1>3 DEF Tied, Sound
  <1>6. Kept(k)
    BY <1>1, <1>3 DEF Kept
  <1>7. VettedNext(k)
    BY <1>3 DEF VettedNext
  <1> QED BY <1>2, <1>4, <1>5, <1>6, <1>7, CallStep

\* A returned call is idle in the new state as well.
LEMMA IdleNext ==
    ASSUME IInv, NEW c \in Calls, Return(c), eng' \in Engagements
    PROVE  /\ call' \in [Calls -> CallStates]
           /\ \A d \in Calls \ {c} : call'[d] = call[d]
           /\ (Tied(call[c]) /\ Sound(call[c]) /\ Vetted(call[c]) /\ Kept(call[c]))'
  <1>1. call \in [Calls -> CallStates] /\ Idle \in CallStates
    BY IdleCoherent DEF IInv, TypeOK
  <1>2. call' = [call EXCEPT ![c] = Idle] BY DEF Return
  <1>3. call'[c].op = "none" /\ call'[c].pc = "idle" /\ call'[c].late = FALSE
    BY <1>1, <1>2 DEF Idle, Fresh
  <1>4. (Tied(call[c]) /\ Sound(call[c]) /\ Vetted(call[c]) /\ Kept(call[c]))'
    BY <1>3 DEF Tied, Sound, Vetted, Kept
  <1>5. /\ call' \in [Calls -> CallStates]
        /\ \A d \in Calls \ {c} : call'[d] = call[d]
    BY <1>1, <1>2
  <1> QED BY <1>4, <1>5

\* A row written under the version check moves past every version that any
\* other call has read of it.
LEMMA RowStep ==
    ASSUME IInv, NEW c \in Calls, Return(c), NEW s \in Steps,
           UNCHANGED <<eng, revealed, alwaysAuto>>,
           ver[s] < MaxVersion, ver' = [ver EXCEPT ![s] = @ + 1],
           st' \in [Steps -> Statuses], det' \in [Steps -> Categories \cup {"none"}],
           \A t \in Steps \ {s} : st'[t] = st[t] /\ det'[t] = det[t],
           alwaysAuto /\ st'[s] \in {"running", "complete"} => revealed[s]
    PROVE  IInv'
  <1> USE DEF IInv, TypeOK
  <1>1. ver' \in [Steps -> 1..MaxVersion]
    BY ExecutionsAssumption
  <1>2. TypeOK'
    BY <1>1, IdleNext
  <1>3. ASSUME NEW d \in Calls \ {c}
        PROVE  (Tied(call[d]) /\ Sound(call[d]) /\ Vetted(call[d]) /\ Kept(call[d]))'
    <2>1. call'[d] = call[d] /\ call[d] \in CallStates
      BY IdleNext
    <2>2. Tied(call[d]) /\ Sound(call[d]) /\ Vetted(call[d]) /\ Kept(call[d])
      OBVIOUS
    <2>3. Tied(call[d])'
      <3>1. SUFFICES ASSUME call[d].op \in {"red", "blue"} PROVE Tied(call[d])'
        BY <2>1 DEF Tied
      <3>2. call[d].step \in Steps /\ call[d].base \in Nat /\ call[d].seenVer \in Nat
        BY <2>1, <2>2, <3>1 DEF Tied, CallStates
      <3>3. CASE call[d].step = s
        BY <2>1, <2>2, <3>1, <3>2, <3>3, ExecutionsAssumption DEF Tied
      <3>4. CASE call[d].step # s
        BY <2>1, <2>2, <3>1, <3>2, <3>4, ExecutionsAssumption DEF Tied, Content
      <3> QED BY <3>3, <3>4
    <2>4. (Sound(call[d]) /\ Vetted(call[d]) /\ Kept(call[d]))'
      BY <2>1, <2>2 DEF Sound, Vetted, Kept, Shut
    <2> QED BY <2>3, <2>4
  <1>4. StartedIsRevealed' /\ (alwaysAuto => BlindAuto(eng))'
    BY DEF StartedIsRevealed, BlindAuto
  <1> QED BY <1>2, <1>3, <1>4, IdleNext

\* The patch of the red side: the status it was validated against is the one it replaces.
LEMMA PatchRedStep ==
    ASSUME IInv, NEW c \in Calls, PatchRed(c)
    PROVE  /\ IInv'
           /\ \A s \in Steps : st'[s] # st[s] => <<st[s], st'[s]>> \in ValidExecution
  <1> DEFINE k == call[c]
             s == k.step
  <1>1. /\ k \in CallStates /\ Tied(k) /\ Sound(k) /\ Vetted(k)
        /\ k.op = "red" /\ k.pc = "write" /\ s \in Steps
    BY DEF IInv, TypeOK, PatchRed, At, Tied
  <1>2. CASE ver[s] # k.base
    <2>1. Return(c) /\ UNCHANGED <<eng, revealed, rows, alwaysAuto>>
      BY <1>2 DEF PatchRed, rows
    <2> QED BY <2>1, ReturnStep DEF rows
  <1>3. CASE ver[s] = k.base
    <2>1. /\ st' = [st EXCEPT ![s] = NewStatus(k)] /\ ver' = [ver EXCEPT ![s] = @ + 1]
          /\ Return(c) /\ UNCHANGED <<eng, revealed, det, alwaysAuto>>
      BY <1>3 DEF PatchRed
    <2>2. k.seenSt = st[s] /\ ver[s] < MaxVersion /\ st[s] \in Statuses
      <3>1. k.seenVer \in Nat /\ ver[s] \in Nat
        BY <1>1, ExecutionsAssumption DEF IInv, TypeOK, CallStates
      <3> QED BY <1>1, <1>3, <3>1 DEF Tied, IInv, TypeOK
    <2>3. LegalMove(st[s], k.want) /\ k.want \in Statuses \cup {"none"}
      BY <1>1, <2>2 DEF Vetted, Sound
    <2>4. st'[s] = NewStatus(k) /\ NewStatus(k) \in Statuses
      BY <1>1, <2>1, <2>2, <2>3 DEF IInv, TypeOK, NewStatus
    <2>5. st'[s] # st[s] => <<st[s], st'[s]>> \in ValidExecution
      BY <2>3, <2>4 DEF LegalMove, NewStatus
    <2>6. alwaysAuto /\ st'[s] \in {"running", "complete"} => revealed[s]
      <3>1. CASE st'[s] = st[s]
        BY <1>1, <3>1 DEF IInv, StartedIsRevealed
      <3>2. CASE st'[s] # st[s]
        BY <1>1, <2>2, <2>4, <3>2 DEF Vetted, Starts, NewStatus
      <3> QED BY <3>1, <3>2
    <2>7. /\ st' \in [Steps -> Statuses] /\ det' \in [Steps -> Categories \cup {"none"}]
          /\ \A t \in Steps \ {s} : st'[t] = st[t] /\ det'[t] = det[t]
      BY <1>1, <2>1, <2>4 DEF IInv, TypeOK
    <2> HIDE DEF k, s
    <2>8. IInv'
      BY <1>1, <2>1, <2>2, <2>6, <2>7, RowStep
    <2> QED BY <2>5, <2>7, <2>8
  <1> QED BY <1>2, <1>3

\* The patch of the blue side leaves every status alone.
LEMMA PatchBlueStep ==
    ASSUME IInv, NEW c \in Calls, PatchBlue(c)
    PROVE  IInv' /\ st' = st
  <1> DEFINE k == call[c]
             s == k.step
  <1>1. /\ k \in CallStates /\ Tied(k) /\ Sound(k)
        /\ k.op = "blue" /\ k.pc = "write" /\ s \in Steps
    BY DEF IInv, TypeOK, PatchBlue, At, Tied
  <1>2. CASE ver[s] # k.base
    <2>1. Return(c) /\ UNCHANGED <<eng, revealed, rows, alwaysAuto>>
      BY <1>2 DEF PatchBlue, rows
    <2> QED BY <2>1, ReturnStep DEF rows
  <1>3. CASE ver[s] = k.base
    <2>1. /\ det' = [det EXCEPT ![s] = k.want] /\ ver' = [ver EXCEPT ![s] = @ + 1]
          /\ Return(c) /\ UNCHANGED <<eng, revealed, st, alwaysAuto>>
      BY <1>3 DEF PatchBlue
    <2>2. ver[s] < MaxVersion /\ k.want \in Categories
      BY <1>1, <1>3 DEF Tied, Sound
    <2>3. alwaysAuto /\ st'[s] \in {"running", "complete"} => revealed[s]
      BY <1>1, <2>1 DEF IInv, StartedIsRevealed
    <2>4. /\ st' \in [Steps -> Statuses] /\ det' \in [Steps -> Categories \cup {"none"}]
          /\ \A t \in Steps \ {s} : st'[t] = st[t] /\ det'[t] = det[t]
      BY <1>1, <2>1, <2>2 DEF IInv, TypeOK
    <2> HIDE DEF k, s
    <2> QED BY <1>1, <2>1, <2>2, <2>3, <2>4, RowStep
  <1> QED BY <1>2, <1>3

\* The engagement's other columns: auto reveal switched off ends the history.
LEMMA UpdateWriteStep ==
    ASSUME IInv, NEW c \in Calls, UpdateWrite(c)
    PROVE  IInv'
  <1>1. call[c] \in CallStates /\ call[c].seen \in Engagements /\ eng \in Engagements
    BY DEF IInv, TypeOK, CallStates
  <1>2. eng' \in Engagements /\ eng'.status = eng.status
    BY <1>1 DEF UpdateWrite, Engagements
  <1>3. /\ Return(c) /\ UNCHANGED <<revealed, rows>>
        /\ alwaysAuto' \in BOOLEAN /\ (alwaysAuto' => alwaysAuto /\ BlindAuto(eng'))
    BY DEF UpdateWrite, IInv, TypeOK, BlindAuto
  <1>4. TypeOK'
    BY <1>2, <1>3, IdleNext DEF IInv, TypeOK, rows
  <1>5. ASSUME NEW d \in Calls \ {c}
        PROVE  (Tied(call[d]) /\ Sound(call[d]) /\ Vetted(call[d]) /\ Kept(call[d]))'
    <2>1. call'[d] = call[d]
      BY <1>2, <1>3, IdleNext
    <2>2. Tied(call[d]) /\ Sound(call[d]) /\ Vetted(call[d]) /\ Kept(call[d])
      BY DEF IInv
    <2>3. (Tied(call[d]) /\ Sound(call[d]))'
      BY <1>3, <2>1, <2>2 DEF Tied, Sound, Content, rows
    <2>4. (Vetted(call[d]) /\ Kept(call[d]))'
      BY <1>2, <1>3, <2>1, <2>2 DEF Vetted, Kept, Shut
    <2> QED BY <2>3, <2>4
  <1>6. StartedIsRevealed' /\ (alwaysAuto => BlindAuto(eng))'
    BY <1>3 DEF IInv, StartedIsRevealed, BlindAuto, rows
  <1> QED BY <1>2, <1>3, <1>4, <1>5, <1>6, IdleNext DEF IInv

\* A status write keeps a call late only while the engagement stays shut.
LEMMA SetStatusStep ==
    ASSUME IInv, NEW c \in Calls, SetStatus(c)
    PROVE  IInv'
  <1>1. call[c] \in CallStates /\ Sound(call[c]) /\ eng \in Engagements /\ call[c].want \in EngStatuses
    BY DEF IInv, TypeOK, SetStatus, At, Sound
  <1>2. /\ eng' \in Engagements /\ eng'.mode = eng.mode /\ eng'.auto = eng.auto
        /\ UNCHANGED <<revealed, rows, alwaysAuto>>
    BY <1>1 DEF SetStatus, Engagements
  <1>3. Shut(eng') \in BOOLEAN
    BY DEF Shut
  <1>4. ASSUME NEW d \in Calls
        PROVE  /\ call'[d] \in CallStates
               /\ (Tied(call[d]) /\ Sound(call[d]) /\ Vetted(call[d]) /\ Kept(call[d]))'
    <2>1. CASE d = c
      <3>1. call'[d] = Idle
        BY <2>1 DEF SetStatus
      <3>2. call'[d].op = "none" /\ call'[d].pc = "idle" /\ call'[d].late = FALSE
        <4>1. Idle \in CallStates BY <1>1, IdleCoherent
        <4> QED BY <3>1, <4>1 DEF Idle, Fresh, CallStates
      <3>3. (Tied(call[d]) /\ Sound(call[d]) /\ Vetted(call[d]) /\ Kept(call[d]))'
        BY <3>2 DEF Tied, Sound, Vetted, Kept
      <3> QED BY <1>1, <3>1, <3>3, IdleCoherent
    <2>2. CASE d # c
      <3> DEFINE k == call[d]
      <3>1. k \in CallStates /\ Tied(k) /\ Sound(k) /\ Vetted(k) /\ Kept(k)
        BY DEF IInv, TypeOK
      <3>2. call'[d] = [k EXCEPT !.late = k.late /\ Shut(eng')]
        BY <2>2 DEF SetStatus
      <3>3. call'[d] \in CallStates
        BY <1>3, <3>1, <3>2 DEF CallStates
      <3>4. /\ call'[d].pc = k.pc /\ call'[d].op = k.op /\ call'[d].step = k.step
            /\ call'[d].want = k.want /\ call'[d].base = k.base /\ call'[d].saw = k.saw
            /\ call'[d].seenVer = k.seenVer /\ call'[d].seenSt = k.seenSt
            /\ call'[d].late = (k.late /\ Shut(eng'))
        BY <3>1, <3>2 DEF CallStates
      <3>5. (Tied(call[d]) /\ Sound(call[d]))'
        BY <1>2, <3>1, <3>4 DEF Tied, Sound, Content, rows
      <3>6. Vetted(call[d])'
        BY <1>2, <3>1, <3>4 DEF Vetted
      <3>7. Kept(call[d])'
        BY <3>1, <3>4 DEF Kept, Shut
      <3> QED BY <3>3, <3>5, <3>6, <3>7
    <2> QED BY <2>1, <2>2
  <1>5. call' \in [Calls -> CallStates]
    <2>1. call' = [d \in Calls |-> call'[d]] BY DEF SetStatus
    <2> QED BY <1>4, <2>1
  <1>6. StartedIsRevealed' /\ (alwaysAuto => BlindAuto(eng))'
    BY <1>2 DEF IInv, StartedIsRevealed, BlindAuto, rows
  <1> QED BY <1>2, <1>4, <1>5, <1>6 DEF IInv, TypeOK, rows

\* A call about to begin with nothing read of an execution.
LEMMA BeginStep ==
    ASSUME IInv, NEW c \in Calls, NEW k \in CallStates,
           call' = [call EXCEPT ![c] = k], UNCHANGED <<eng, revealed, rows, alwaysAuto>>,
           k.op \in {"reveal", "update", "status"}, k.pc \in {"check", "write"},
           k.op = "reveal" => k.step \in Steps /\ k.pc = "check",
           k.op = "status" => k.want \in EngStatuses,
           k.late => Shut(eng)
    PROVE  IInv'
  <1>1. Tied(k) /\ Sound(k) /\ Kept(k) /\ VettedNext(k)
    BY DEF Tied, Sound, Kept, VettedNext
  <1> QED BY <1>1, CallStep DEF IInv, TypeOK

\* Every step of a call keeps the invariant, and moves statuses legally.
LEMMA NextStep ==
    ASSUME IInv, NEW c \in Calls,
           \/ ReadExecution(c) \/ PatchRedExecution(c) \/ PatchBlueDetection(c) \/ RevealStep(c)
           \/ Update(c) \/ ChangeStatus(c)
    PROVE  /\ IInv'
           /\ \A s \in Steps : st'[s] # st[s] => <<st[s], st'[s]>> \in ValidExecution
  <1>1. call[c] \in CallStates /\ Tied(call[c]) /\ Sound(call[c]) /\ Vetted(call[c])
    BY DEF IInv, TypeOK
  <1>2. revealed \in [Steps -> BOOLEAN] /\ eng \in Engagements
    BY DEF IInv, TypeOK
  <1>3. CASE ReadExecution(c)
    BY <1>3, ReadStep DEF ReadExecution, rows
  <1>4. CASE PatchRedExecution(c)
    <2>1. CASE \E s \in Steps, w \in Statuses \cup {"none"} : Send(c, "red", s, w)
      BY <2>1, SendStep DEF Send, rows
    <2>2. CASE CheckRed(c)
      <3>1. CASE Return(c)
        BY <2>2, <3>1, ReturnStep DEF CheckRed, rows
      <3>2. CASE ~Return(c)
        <4> DEFINE l == IF Starts(call[c].seenSt, call[c].want) /\ BlindAuto(eng)
                           /\ ~revealed[call[c].step] THEN "reveal" ELSE "write"
        <4>1. /\ call[c].op = "red" /\ call[c].pc = "check" /\ ~Shut(eng)
              /\ LegalMove(call[c].seenSt, call[c].want) /\ Goto(c, l)
              /\ UNCHANGED <<eng, revealed, rows, alwaysAuto>>
          BY <2>2, <3>2 DEF CheckRed
        <4>2. l \in {"reveal", "write"} OBVIOUS
        <4>3. l = "write" /\ alwaysAuto /\ Starts(call[c].seenSt, call[c].want)
                => revealed'[call[c].step]
          BY <4>1 DEF IInv
        <4> HIDE DEF l
        <4>4. IInv'
          BY <1>2, <4>1, <4>2, <4>3, GotoStep
        <4> QED BY <4>1, <4>4 DEF rows
      <3> QED BY <3>1, <3>2
    <2>3. CASE AutoReveal(c)
      <3>1. /\ call[c].op = "red" /\ call[c].pc = "reveal" /\ Goto(c, "write")
            /\ UNCHANGED <<eng, rows, alwaysAuto>>
            /\ revealed' = [revealed EXCEPT ![call[c].step] = TRUE] /\ call[c].step \in Steps
        BY <1>1, <2>3 DEF AutoReveal, At, Tied
      <3>2. LegalMove(call[c].seenSt, call[c].want)
        BY <1>1, <3>1 DEF Vetted
      <3>3. /\ revealed' \in [Steps -> BOOLEAN] /\ \A s \in Steps : revealed[s] => revealed'[s]
            /\ revealed'[call[c].step]
        BY <1>2, <3>1
      <3> QED BY <3>1, <3>2, <3>3, GotoStep DEF rows
    <2>4. CASE PatchRed(c)
      BY <2>4, PatchRedStep
    <2> QED BY <1>4, <2>1, <2>2, <2>3, <2>4 DEF PatchRedExecution
  <1>5. CASE PatchBlueDetection(c)
    <2>1. CASE \E s \in Steps, d \in Categories : Send(c, "blue", s, d)
      BY <2>1, SendStep DEF Send, rows
    <2>2. CASE CheckBlue(c)
      BY <1>2, <2>2, ReturnStep, GotoStep DEF CheckBlue, At, rows
    <2>3. CASE PatchBlue(c)
      BY <2>3, PatchBlueStep
    <2> QED BY <1>5, <2>1, <2>2, <2>3 DEF PatchBlueDetection
  <1>6. CASE RevealStep(c)
    <2>1. CASE \E s \in Steps : RevealBegin(c, s)
      <3>1. PICK s \in Steps : RevealBegin(c, s) BY <2>1
      <3> DEFINE k == Fresh("reveal", s, "none", "check")
      <3>2. k \in CallStates BY <1>2, FreshTyped
      <3>3. k.op = "reveal" /\ k.pc = "check" /\ k.step = s /\ (k.late => Shut(eng))
        BY DEF Fresh
      <3>4. call' = [call EXCEPT ![c] = k] /\ UNCHANGED <<eng, revealed, rows, alwaysAuto>>
        BY <3>1 DEF RevealBegin, Begin
      <3> HIDE DEF k
      <3> QED BY <3>2, <3>3, <3>4, BeginStep DEF rows
    <2>2. CASE RevealCheck(c)
      BY <1>2, <2>2, ReturnStep, GotoStep DEF RevealCheck, At, rows
    <2>3. CASE Reveal(c)
      <3>1. /\ Return(c) /\ UNCHANGED <<eng, rows, alwaysAuto>> /\ call[c].step \in Steps
            /\ revealed' = [revealed EXCEPT ![call[c].step] = TRUE]
        BY <1>1, <2>3 DEF Reveal, At, Sound
      <3>2. revealed' \in [Steps -> BOOLEAN] /\ \A s \in Steps : revealed[s] => revealed'[s]
        BY <1>2, <3>1
      <3>3. VettedNext(Idle)
        BY DEF VettedNext, Idle, Fresh
      <3>4. call' = [call EXCEPT ![c] = Idle] BY <3>1 DEF Return
      <3> QED BY <1>2, <3>1, <3>2, <3>3, <3>4, IdleCoherent, CallStep DEF rows
    <2> QED BY <1>6, <2>1, <2>2, <2>3 DEF RevealStep
  <1>7. CASE Update(c)
    <2>1. CASE \E e \in Engagements : UpdateBegin(c, e)
      <3>1. PICK e \in Engagements : UpdateBegin(c, e) BY <2>1
      <3> DEFINE k == [Fresh("update", NoStep, "none", "write") EXCEPT !.seen = e]
      <3>2. Fresh("update", NoStep, "none", "write") \in CallStates BY <1>2, FreshTyped
      <3>3. k \in CallStates BY <3>2 DEF CallStates
      <3>4. k.op = "update" /\ k.pc = "write" /\ (k.late => Shut(eng))
        BY DEF Fresh
      <3>5. call' = [call EXCEPT ![c] = k] /\ UNCHANGED <<eng, revealed, rows, alwaysAuto>>
        BY <3>1 DEF UpdateBegin, Begin
      <3> HIDE DEF k
      <3> QED BY <3>3, <3>4, <3>5, BeginStep DEF rows
    <2>2. CASE UpdateWrite(c)
      BY <2>2, UpdateWriteStep DEF UpdateWrite, rows
    <2> QED BY <1>7, <2>1, <2>2 DEF Update
  <1>8. CASE ChangeStatus(c)
    <2>1. CASE \E w \in EngStatuses : StatusBegin(c, w)
      <3>1. PICK w \in EngStatuses : StatusBegin(c, w) BY <2>1
      <3> DEFINE k == Fresh("status", NoStep, w, "write")
      <3>2. k \in CallStates BY <1>2, FreshTyped
      <3>3. k.op = "status" /\ k.pc = "write" /\ k.want = w /\ (k.late => Shut(eng))
        BY DEF Fresh
      <3>4. call' = [call EXCEPT ![c] = k] /\ UNCHANGED <<eng, revealed, rows, alwaysAuto>>
        BY <3>1 DEF StatusBegin, Begin
      <3> HIDE DEF k
      <3> QED BY <3>2, <3>3, <3>4, BeginStep DEF rows
    <2>2. CASE SetStatus(c)
      BY <2>2, SetStatusStep DEF SetStatus, rows
    <2> QED BY <1>8, <2>1, <2>2 DEF ChangeStatus
  <1> QED BY <1>3, <1>4, <1>5, <1>6, <1>7, <1>8

\* A stuttering step keeps the invariant.
LEMMA Stutter == ASSUME IInv, UNCHANGED vars PROVE IInv'
  <1>1. (\A c \in Calls : Tied(call[c]) /\ Sound(call[c]) /\ Vetted(call[c]) /\ Kept(call[c]))'
    BY DEF IInv, vars, rows, Tied, Sound, Vetted, Kept, Content
  <1> QED BY <1>1 DEF IInv, TypeOK, StartedIsRevealed, BlindAuto, vars, rows

-----------------------------------------------------------------------------

\* The inductive invariant holds in every reachable state, for any number of
\* requests, steps and versions.
THEOREM Invariance == Spec => []IInv
  <1>1. IInv /\ [Next]_vars => IInv'
    BY NextStep, Stutter DEF Next
  <1> QED BY InitIInv, <1>1, PTL DEF Spec

\* Every variable keeps its type: versions stay within the bound and every
\* call record is well formed.
THEOREM TypeCorrect == Spec => []TypeOK
  <1>1. IInv => TypeOK BY DEF IInv
  <1> QED BY Invariance, <1>1, PTL

\* A red or blue patch either conflicts or meets the content its client read
\* (PatchRed and PatchBlue's "WHERE id = ? AND version = ?").
THEOREM PatchesSeeWhatTheyChange == Spec => []NoLostUpdate
  <1>1. IInv => NoLostUpdate
    BY DEF IInv, NoLostUpdate, Tied
  <1> QED BY Invariance, <1>1, PTL

\* An execution's status only moves along validStatusTransitionsExecution,
\* although PatchRedExecution validates a row it read outside the transaction.
THEOREM StatusesMoveLegally == Spec => StatusMovesLegally
  <1>1. IInv /\ [Next]_vars => [\A s \in Steps : st'[s] # st[s] => <<st[s], st'[s]>> \in ValidExecution]_vars
    BY NextStep DEF Next
  <1> QED BY Invariance, <1>1, PTL DEF Spec, StatusMovesLegally

\* A call begun after the engagement was shut, and shut ever since, writes nothing.
THEOREM LateCallsRefused == Spec => []ShutRefusesLateCalls
  <1>1. IInv => ShutRefusesLateCalls
    BY DEF IInv, ShutRefusesLateCalls, Kept
  <1> QED BY Invariance, <1>1, PTL

\* Under auto reveal a started step is revealed, whatever calls run beside it.
THEOREM StartsAreRevealed == Spec => []StartedIsRevealed
  <1>1. IInv => StartedIsRevealed BY DEF IInv
  <1> QED BY Invariance, <1>1, PTL

-----------------------------------------------------------------------------
(***************************************************************************)
(* What hangs off the executions: Evidence, for any contents, engagements, *)
(* stored rows and requests and any bounds.  Its state is EvidenceState's, *)
(* of which Executions has nothing.                                        *)
(***************************************************************************)
Evid == INSTANCE Evidence

\* The instance brings a copy of FiniteSets: it counts alike.
LEMMA SameCount == ASSUME NEW S PROVE Evid!Cardinality(S) = Cardinality(S)
BY DEF Evid!Cardinality, Cardinality

\* Held counts an engagement's rows for one content.
LEMMA HeldCount ==
    ASSUME NEW e, NEW b
    PROVE  Evid!Held(e, b) = Cardinality(Evid!Owned(e) \cap Evid!Refs(b))
BY SameCount DEF Evid!Held

\* What the steps need of the constants.
EvidenceConstants ==
    /\ MaxRow \in Nat /\ MaxCall \in Nat /\ MaxFault \in Nat
    /\ Stored \subseteq Evid!RowIds /\ Uploaded \subseteq Blobs /\ "none" \notin Blobs
    /\ IsFiniteSet(Stored) /\ {r.id : r \in Stored} = 1..Cardinality(Stored)

\* What a request is doing fits the call it serves.
Uploading(c) == req[c].op = "upload" /\ req[c].pc \in {"rename", "increment", "insert", "cleanup", "create"}
Deleting(c) ==
    /\ req[c].op = "delete" /\ req[c].pc \in {"unlink", "decrement", "remove", "forget"}
    /\ req[c].row \in Evid!RowIds /\ req[c].row.sha = req[c].sha /\ req[c].row.id <= ids
    /\ req[c].pc # "unlink" => req[c].row \notin links
Purging(c) == req[c].op = "purge" /\ req[c].pc \in {"release", "droprows", "droprest"}
ShapeOf(c) ==
    \/ req[c] = Evid!Idle
    \/ (Uploading(c) \/ Deleting(c)) /\ req[c].sha \in Blobs
    \/ Purging(c) /\ req[c].sha = "none"
Shape == \A c \in Requests : ShapeOf(c)

\* Rows taken out by a delete that has not given the reference back yet.
Unlinked == {req[c].row : c \in {x \in Requests : req[x].pc = "decrement"}}
\* Rows, stored or unlinked, that hold a reference to content b.
Claims(b) == {r \in links \cup Unlinked : r.sha = b /\ r \notin released}

\* Identifiers are given once, and one delete works on a row.
IdsFresh ==
    /\ \A r \in links \cup released : r.id <= ids
    /\ \A c, d \in Requests :
          req[c].pc = "decrement" /\ req[d].pc = "decrement" /\ req[c].row = req[d].row => c = d
FiniteClaims == IsFiniteSet(links) /\ \A b \in Blobs : IsFiniteSet(Claims(b))

\* An upload has its content to itself.
Excl ==
    \A b \in Blobs \ contested : \A c, d \in Requests :
        req[c].sha = b /\ req[c].op = "upload" /\ req[d].sha = b => c = d

\* The count covers the claims, and a file that goes has none.
Covered(b) ==
    /\ Claims(b) # {} => b \in file /\ blob[b] >= Cardinality(Claims(b))
    /\ \A c \in Requests : req[c].sha = b =>
          /\ req[c].pc \in {"increment", "create", "insert", "cleanup"} => b \in file
          /\ req[c].pc \in {"rename", "insert", "cleanup", "remove", "forget"} => Claims(b) = {}
          /\ req[c].pc = "create" => blob[b] >= Cardinality(Claims(b)) + 1
Counted == \A b \in Blobs \ (contested \cup twice) : Covered(b)

\* No call works on a content outside purged while an engagement is deleted.
PurgeAlone ==
    \A b \in Blobs \ purged : (\E p \in Requests : req[p].op = "purge") => \A c \in Requests : req[c].sha # b
\* Without failures a row given back is about to be dropped.
Leftover ==
    faults = 0 => \A r \in links \cap released : \E c \in Requests : req[c].pc = "droprows" /\ req[c].eng = r.eng

\* Where file and row part for a moment, and who brings them together again.
Quiet(b) ==
    /\ (\A c \in Requests : req[c].sha = b => req[c].pc \notin {"insert", "forget"}) => Evid!Storable(b)
    /\ \A c \in Requests : req[c].sha = b =>
          /\ req[c].pc # "cleanup"
          /\ req[c].pc = "decrement" => req[c].row \notin released
          /\ req[c].pc = "rename" => b \notin file /\ blob[b] = Evid!NoRow
          /\ req[c].pc = "insert" => b \in file /\ blob[b] = Evid!NoRow
          /\ req[c].pc = "forget" => b \notin file
          /\ req[c].pc \in {"remove", "forget"} => blob[b] # Evid!NoRow
    /\ \A c, d \in Requests :
          req[c].sha = b /\ req[d].sha = b /\ {req[c].pc, req[d].pc} \subseteq {"remove", "forget"} => c = d
Paired == faults = 0 => \A b \in Blobs \ (contested \cup twice \cup purged) : Quiet(b)

EvidenceInv ==
    /\ EvidenceConstants /\ Evid!TypeOK /\ Shape /\ IdsFresh /\ FiniteClaims /\ Excl
    /\ Counted /\ PurgeAlone /\ Leftover /\ Paired

-----------------------------------------------------------------------------
(* What the types say, and how a step moves one request *)

LEMMA EvidenceFacts ==
    ASSUME EvidenceConstants, Evid!TypeOK
    PROVE  /\ req \in [Requests -> Evid!CallStates] /\ ids \in Nat /\ faults \in Nat /\ begun \in Nat
           /\ \A b \in Blobs : blob[b] \in Int /\ blob[b] >= -1 /\ (blob[b] # Evid!NoRow => blob[b] >= 0)
           /\ \A r \in Evid!RowIds : r.id \in Nat /\ r.sha \in Blobs /\ r.eng \in Owners
           /\ links \subseteq Evid!RowIds /\ released \subseteq Evid!RowIds /\ file \subseteq Blobs
           /\ Evid!NoRow = -1 /\ "none" \notin Blobs
<1>1. req \in [Requests -> Evid!CallStates] /\ ids \in Nat /\ faults \in Nat /\ begun \in Nat
  BY DEF Evid!TypeOK, EvidenceConstants
<1>2. \A b \in Blobs : blob[b] \in Int /\ blob[b] >= -1 /\ (blob[b] # Evid!NoRow => blob[b] >= 0)
  BY DEF Evid!TypeOK, Evid!NoRow
<1>3. \A r \in Evid!RowIds : r.id \in Nat /\ r.sha \in Blobs /\ r.eng \in Owners
  BY DEF Evid!RowIds, EvidenceConstants
<1> QED
  BY <1>1, <1>2, <1>3 DEF Evid!TypeOK, Evid!NoRow, EvidenceConstants

LEMMA IdleFacts ==
    /\ Evid!Idle \in Evid!CallStates /\ Evid!Idle.pc = "idle" /\ Evid!Idle.op = "none" /\ Evid!Idle.sha = "none"
    /\ Evid!Idle.eng = "none" /\ Evid!Idle.row = Evid!NoRef
BY DEF Evid!Idle, Evid!CallStates, Evid!Pcs

LEMMA GotoFacts ==
    ASSUME Evid!TypeOK, NEW c \in Requests, NEW l \in Evid!Pcs, Evid!Goto(c, l)
    PROVE  /\ req' \in [Requests -> Evid!CallStates] /\ begun' = begun
           /\ req'[c].pc = l /\ req'[c].op = req[c].op /\ req'[c].sha = req[c].sha
           /\ req'[c].eng = req[c].eng /\ req'[c].row = req[c].row
           /\ \A d \in Requests : d # c => req'[d] = req[d]
<1>1. req \in [Requests -> Evid!CallStates] /\ req' = [req EXCEPT ![c].pc = l] /\ begun' = begun
  BY DEF Evid!TypeOK, Evid!Goto
<1>2. req[c] \in Evid!CallStates
  BY <1>1
<1>3. req'[c] = [req[c] EXCEPT !.pc = l] /\ \A d \in Requests : d # c => req'[d] = req[d]
  BY <1>1
<1>4. /\ [req[c] EXCEPT !.pc = l] \in Evid!CallStates
      /\ [req[c] EXCEPT !.pc = l].pc = l /\ [req[c] EXCEPT !.pc = l].op = req[c].op
      /\ [req[c] EXCEPT !.pc = l].sha = req[c].sha /\ [req[c] EXCEPT !.pc = l].eng = req[c].eng
      /\ [req[c] EXCEPT !.pc = l].row = req[c].row
  BY <1>2 DEF Evid!CallStates
<1>5. req' \in [Requests -> Evid!CallStates]
  BY <1>1, <1>3, <1>4
<1> QED
  BY <1>1, <1>3, <1>4, <1>5

LEMMA ReturnFacts ==
    ASSUME Evid!TypeOK, NEW c \in Requests, Evid!Return(c)
    PROVE  /\ req' \in [Requests -> Evid!CallStates] /\ begun' = begun /\ req'[c] = Evid!Idle
           /\ \A d \in Requests : d # c => req'[d] = req[d]
BY IdleFacts DEF Evid!TypeOK, Evid!Return

LEMMA BeginFacts ==
    ASSUME EvidenceConstants, Evid!TypeOK, NEW c \in Requests, NEW r \in Evid!CallStates, Evid!Begin(c, r)
    PROVE  /\ req' \in [Requests -> Evid!CallStates] /\ begun' \in 0..MaxCall
           /\ req[c].pc = "idle" /\ req'[c] = r
           /\ \A d \in Requests : d # c => req'[d] = req[d]
BY DEF Evid!TypeOK, Evid!Begin, EvidenceConstants

LEMMA ShapeFacts ==
    ASSUME EvidenceConstants, Evid!TypeOK, Shape, NEW c \in Requests
    PROVE  /\ req[c].pc = "idle" => req[c] = Evid!Idle
           /\ req[c].op = "upload" <=> req[c].pc \in {"rename", "increment", "insert", "cleanup", "create"}
           /\ req[c].pc \in {"unlink", "decrement", "remove", "forget"} => Deleting(c)
           /\ req[c].op = "purge" <=> req[c].pc \in {"release", "droprows", "droprest"}
           /\ req[c].op = "upload" => req[c].sha \in Blobs
           /\ req[c].pc \in {"unlink", "decrement", "remove", "forget"} => req[c].sha \in Blobs /\ req[c].op = "delete"
           /\ req[c].op = "purge" => req[c].sha = "none"
           /\ req[c].sha \in Blobs => req[c].op \in {"upload", "delete"}
<1>1. CASE req[c] = Evid!Idle
  BY <1>1, IdleFacts DEF EvidenceConstants
<1>2. CASE Uploading(c) /\ req[c].sha \in Blobs
  BY <1>2 DEF Uploading
<1>3. CASE Deleting(c) /\ req[c].sha \in Blobs
  BY <1>3 DEF Deleting
<1>4. CASE Purging(c) /\ req[c].sha = "none"
  BY <1>4 DEF Purging, EvidenceConstants
<1> QED
  BY <1>1, <1>2, <1>3, <1>4 DEF Shape, ShapeOf

LEMMA ShapeFrame ==
    ASSUME EvidenceConstants, Evid!TypeOK, Shape, NEW d \in Requests, req'[d] = req[d], ids' \in Nat, ids <= ids',
           \A r \in links' : r \in links \/ r.id > ids
    PROVE  ShapeOf(d)'
<1>1. CASE Deleting(d) /\ req[d].sha \in Blobs
  <2>1. ids \in Nat /\ req[d].row.id \in Nat /\ req[d].row.id <= ids
    BY <1>1, EvidenceFacts DEF Deleting
  <2>2. req[d].pc # "unlink" => req[d].row \notin links'
    BY <1>1, <2>1 DEF Deleting
  <2>3. req[d].row.id <= ids'
    BY <2>1
  <2> QED
    BY <1>1, <2>2, <2>3 DEF Deleting, ShapeOf
<1>2. CASE ~(Deleting(d) /\ req[d].sha \in Blobs)
  BY <1>2 DEF Shape, ShapeOf, Uploading, Purging
<1> QED
  BY <1>1, <1>2

\* A step of a call under way begins nothing.
LEMMA KeepStep ==
    ASSUME EvidenceConstants, Evid!TypeOK, Shape, Excl, PurgeAlone,
           \A d \in Requests : req'[d] = Evid!Idle \/ (req'[d].op = req[d].op /\ req'[d].sha = req[d].sha),
           contested' = contested, purged' = purged
    PROVE  Excl' /\ PurgeAlone'
<1>1. "none" \notin Blobs /\ Evid!Idle.sha = "none" /\ Evid!Idle.op = "none"
  BY IdleFacts DEF EvidenceConstants
<1>2. Excl'
  <2> SUFFICES ASSUME NEW b \in Blobs \ contested, NEW c \in Requests, NEW d \in Requests,
                      req'[c].sha = b, req'[c].op = "upload", req'[d].sha = b
               PROVE  c = d
    BY DEF Excl
  <2>1. req[c].sha = b /\ req[c].op = "upload" /\ req[d].sha = b
    BY <1>1
  <2> QED
    BY <2>1 DEF Excl
<1>3. PurgeAlone'
  <2> SUFFICES ASSUME NEW b \in Blobs \ purged, NEW p \in Requests, req'[p].op = "purge", NEW c \in Requests, req'[c].sha = b
               PROVE  FALSE
    BY DEF PurgeAlone
  <2>1. req[p].op = "purge" /\ req[c].sha = b
    BY <1>1
  <2> QED
    BY <2>1 DEF PurgeAlone
<1> QED
  BY <1>2, <1>3

-----------------------------------------------------------------------------
(* Claims *)

\* Every step but Create only takes claims away.
LEMMA Shrink ==
    ASSUME FiniteClaims, links' \subseteq links, released \subseteq released',
           \A d \in Requests : req'[d].pc = "decrement" =>
               \/ req[d].pc = "decrement" /\ req'[d].row = req[d].row
               \/ req'[d].row \in links
    PROVE  FiniteClaims' /\ \A b : Claims(b)' \subseteq Claims(b)
<1>1. \A r \in Unlinked' : r \in links \cup Unlinked
  BY DEF Unlinked
<1>2. ASSUME NEW b PROVE Claims(b)' \subseteq Claims(b)
  BY <1>1 DEF Claims
<1>3. IsFiniteSet(links')
  BY FS_Subset DEF FiniteClaims
<1>4. \A b \in Blobs : IsFiniteSet(Claims(b)')
  BY <1>2, FS_Subset DEF FiniteClaims
<1> QED
  BY <1>2, <1>3, <1>4 DEF FiniteClaims

LEMMA SoundFrame ==
    ASSUME EvidenceConstants, Evid!TypeOK, FiniteClaims, NEW b \in Blobs, Covered(b), Claims(b)' \subseteq Claims(b),
           b \in file => b \in file', blob'[b] \in Int, blob'[b] >= blob[b],
           \A c \in Requests : /\ req'[c].sha = b
                            /\ req'[c].pc \in {"increment", "create", "insert", "cleanup", "rename", "remove", "forget"}
                            => req[c].sha = b /\ req'[c].pc = req[c].pc
    PROVE  Covered(b)'
<1>1. IsFiniteSet(Claims(b)) /\ blob[b] \in Int
  BY EvidenceFacts DEF FiniteClaims
<1>2. /\ Cardinality(Claims(b)) \in Nat /\ Cardinality(Claims(b)') \in Nat
      /\ Cardinality(Claims(b)') <= Cardinality(Claims(b))
  BY <1>1, FS_Subset, FS_CardinalityType
<1>3. Claims(b)' # {} => b \in file' /\ blob'[b] >= Cardinality(Claims(b)')
  <2> SUFFICES ASSUME Claims(b)' # {} PROVE b \in file' /\ blob'[b] >= Cardinality(Claims(b)')
    OBVIOUS
  <2>1. b \in file /\ blob[b] >= Cardinality(Claims(b))
    BY DEF Covered
  <2> QED
    BY <1>1, <1>2, <2>1
<1>4. ASSUME NEW c \in Requests, req'[c].sha = b
      PROVE  /\ req'[c].pc \in {"increment", "create", "insert", "cleanup"} => b \in file'
             /\ req'[c].pc \in {"rename", "insert", "cleanup", "remove", "forget"} => Claims(b)' = {}
             /\ req'[c].pc = "create" => blob'[b] >= Cardinality(Claims(b)') + 1
  <2>1. req'[c].pc \in {"increment", "create", "insert", "cleanup"} => b \in file'
    BY <1>4 DEF Covered
  <2>2. req'[c].pc \in {"rename", "insert", "cleanup", "remove", "forget"} => Claims(b)' = {}
    BY <1>4 DEF Covered
  <2>3. req'[c].pc = "create" => blob[b] >= Cardinality(Claims(b)) + 1
    BY <1>4 DEF Covered
  <2> QED
    BY <1>1, <1>2, <2>1, <2>2, <2>3
<1> QED
  BY <1>3, <1>4 DEF Covered

LEMMA QuietFrame ==
    ASSUME NEW b \in Blobs, Quiet(b), b \in file <=> b \in file', blob[b] = Evid!NoRow <=> blob'[b] = Evid!NoRow,
           \A c \in Requests : req'[c].sha = b /\ req'[c].pc \in {"cleanup", "rename", "insert", "forget"}
                            => req[c].sha = b /\ req'[c].pc = req[c].pc,
           \A c \in Requests : req[c].sha = b /\ req[c].pc \in {"insert", "forget"}
                            => req'[c].sha = b /\ req'[c].pc = req[c].pc,
           \A c \in Requests : req'[c].sha = b /\ req'[c].pc = "decrement" => req'[c].row \notin released',
           \A c \in Requests : req'[c].sha = b /\ req'[c].pc = "remove" => blob'[b] # Evid!NoRow,
           \A c, d \in Requests :
               req'[c].sha = b /\ req'[d].sha = b /\ {req'[c].pc, req'[d].pc} \subseteq {"remove", "forget"} => c = d
    PROVE  Quiet(b)'
<1>1. (\A c \in Requests : req'[c].sha = b => req'[c].pc \notin {"insert", "forget"}) => Evid!Storable(b)'
  BY DEF Quiet, Evid!Storable
<1>2. ASSUME NEW c \in Requests, req'[c].sha = b
      PROVE  /\ req'[c].pc # "cleanup"
             /\ req'[c].pc = "rename" => b \notin file' /\ blob'[b] = Evid!NoRow
             /\ req'[c].pc = "insert" => b \in file' /\ blob'[b] = Evid!NoRow
             /\ req'[c].pc = "forget" => b \notin file' /\ blob'[b] # Evid!NoRow
  BY <1>2 DEF Quiet
<1> QED
  BY <1>1, <1>2 DEF Quiet, Evid!NoRow

\* A content that the step's call does not work on.
LEMMA QuietElsewhere ==
    ASSUME EvidenceConstants, NEW b \in Blobs, Quiet(b), b \in file <=> b \in file', blob[b] = Evid!NoRow <=> blob'[b] = Evid!NoRow,
           \A c \in Requests : req'[c].sha = b => req'[c] = req[c],
           \A c \in Requests : req[c].sha = b => req'[c] = req[c],
           \A c \in Requests : req[c].sha = b /\ req[c].pc = "decrement" /\ req[c].row \notin released => req[c].row \notin released'
    PROVE  Quiet(b)'
<1>1. \A c \in Requests : req'[c].sha = b /\ req'[c].pc = "decrement" => req'[c].row \notin released'
  BY DEF Quiet
<1>2. \A c \in Requests : req'[c].sha = b /\ req'[c].pc = "remove" => blob'[b] # Evid!NoRow
  BY DEF Quiet
<1>3. \A c, d \in Requests :
          req'[c].sha = b /\ req'[d].sha = b /\ {req'[c].pc, req'[d].pc} \subseteq {"remove", "forget"} => c = d
  BY DEF Quiet
<1> QED
  BY <1>1, <1>2, <1>3, QuietFrame

LEMMA SoundElsewhere ==
    ASSUME EvidenceConstants, Evid!TypeOK, FiniteClaims, NEW b \in Blobs, Covered(b), Claims(b)' \subseteq Claims(b),
           b \in file => b \in file', blob'[b] = blob[b],
           \A c \in Requests : req'[c].sha = b => req'[c] = req[c]
    PROVE  Covered(b)'
<1>1. blob[b] \in Int /\ blob'[b] \in Int /\ blob'[b] >= blob[b]
  BY EvidenceFacts
<1> QED
  BY <1>1, SoundFrame

LEMMA FreshKeep ==
    ASSUME IdsFresh, ids' = ids, \A r \in links' \cup released' : r \in links \cup released \/ r.id <= ids,
           \A d \in Requests : req'[d].pc = "decrement" => req[d].pc = "decrement" /\ req'[d].row = req[d].row
    PROVE  IdsFresh'
BY DEF IdsFresh

LEMMA LeftoverKeep ==
    ASSUME Leftover, faults' = 0 => faults = 0, links' \cap released' \subseteq links \cap released,
           \A d \in Requests : req[d].pc = "droprows" => req'[d] = req[d]
    PROVE  Leftover'
BY DEF Leftover

\* What is left to show for a step of a call under way.
LEMMA StepInv ==
    ASSUME EvidenceInv, Evid!TypeOK', NEW c \in Requests, \A d \in Requests : d # c => req'[d] = req[d],
           req'[c] = Evid!Idle \/ (req'[c].op = req[c].op /\ req'[c].sha = req[c].sha),
           ShapeOf(c)', contested' = contested, purged' = purged, twice \subseteq twice',
           ids <= ids', \A r \in links' : r \in links \/ r.id > ids,
           IdsFresh', FiniteClaims', Leftover',
           \A b \in Blobs \ (contested \cup twice') : Covered(b) => Covered(b)',
           faults' = 0 => faults = 0 /\ \A b \in Blobs \ (contested \cup twice' \cup purged) :
                                           Covered(b) /\ Quiet(b) => Quiet(b)'
    PROVE  EvidenceInv'
<1>0. /\ EvidenceConstants /\ Evid!TypeOK /\ Shape /\ Excl /\ Counted /\ PurgeAlone /\ Paired
      /\ EvidenceConstants'
  BY DEF EvidenceInv, EvidenceConstants
<1>1. ids' \in Nat
  BY <1>0 DEF Evid!TypeOK, EvidenceConstants
<1>2. Shape'
  <2> SUFFICES ASSUME NEW d \in Requests PROVE ShapeOf(d)'
    BY DEF Shape
  <2>1. CASE d = c
    BY <2>1
  <2>2. CASE d # c
    BY <1>0, <1>1, <2>2, ShapeFrame
  <2> QED
    BY <2>1, <2>2
<1>3. Excl' /\ PurgeAlone'
  BY <1>0, KeepStep
<1>4. Counted'
  <2> SUFFICES ASSUME NEW b \in Blobs \ (contested \cup twice') PROVE Covered(b)'
    BY DEF Counted
  <2>1. Covered(b)
    BY <1>0 DEF Counted
  <2> QED
    BY <2>1
<1>5. Paired'
  <2> SUFFICES ASSUME faults' = 0, NEW b \in Blobs \ (contested \cup twice' \cup purged) PROVE Quiet(b)'
    BY DEF Paired
  <2>1. Covered(b) /\ Quiet(b)
    BY <1>0 DEF Counted, Paired
  <2> QED
    BY <2>1
<1> QED
  BY <1>0, <1>2, <1>3, <1>4, <1>5 DEF EvidenceInv

\* A call returns and leaves the tree and the tables as they are.
LEMMA CallReturns ==
    ASSUME EvidenceInv, NEW c \in Requests, Evid!Return(c), UNCHANGED <<file, blob, links, ids, Evid!hist>>,
           engs' \subseteq engs, faults' \in 0..MaxFault,
           faults' = 0 => faults = 0 /\ req[c].pc \notin {"insert", "forget", "droprows"}
    PROVE  EvidenceInv'
<1>0. /\ EvidenceConstants /\ Evid!TypeOK /\ Shape /\ IdsFresh /\ FiniteClaims /\ Leftover
      /\ UNCHANGED <<released, twice, contested, purged>>
  BY DEF EvidenceInv, Evid!hist
<1>1. /\ req' \in [Requests -> Evid!CallStates] /\ begun' = begun /\ req'[c] = Evid!Idle
      /\ \A d \in Requests : d # c => req'[d] = req[d]
  BY <1>0, ReturnFacts
<1>2. Evid!Idle.pc = "idle" /\ Evid!Idle.sha = "none" /\ "none" \notin Blobs
  BY <1>0, IdleFacts DEF EvidenceConstants
<1>3. Evid!TypeOK'
  BY <1>0, <1>1 DEF Evid!TypeOK
<1>4. FiniteClaims' /\ \A b : Claims(b)' \subseteq Claims(b)
  BY <1>0, <1>1, <1>2, Shrink
<1>5. IdsFresh'
  BY <1>0, <1>1, <1>2, FreshKeep
<1>6. Leftover'
  <2>1. CASE faults' = 0
    BY <1>0, <1>1, <2>1, LeftoverKeep
  <2>2. CASE faults' # 0
    BY <2>2 DEF Leftover
  <2> QED
    BY <2>1, <2>2
<1>7. ASSUME NEW b \in Blobs, Covered(b) PROVE Covered(b)'
  <2>1. \A d \in Requests : req'[d].sha = b => req'[d] = req[d]
    BY <1>1, <1>2
  <2> QED
    BY <1>0, <1>4, <1>7, <2>1, SoundElsewhere
<1>8. ASSUME faults' = 0, NEW b \in Blobs, Quiet(b) PROVE Quiet(b)'
  <2>1. \A d \in Requests : req'[d].sha = b => req'[d] = req[d]
    BY <1>1, <1>2
  <2>2. \A d \in Requests : req[d].sha = b /\ req[d].pc \in {"insert", "forget"} => req'[d] = req[d]
    BY <1>1, <1>8
  <2>3. \A d \in Requests : req'[d].sha = b /\ req'[d].pc = "decrement" => req'[d].row \notin released'
    BY <1>0, <1>8, <2>1 DEF Quiet
  <2>4. \A d \in Requests : req'[d].sha = b /\ req'[d].pc = "remove" => blob'[b] # Evid!NoRow
    BY <1>8, <2>1 DEF Quiet
  <2>5. \A k, d \in Requests :
            req'[k].sha = b /\ req'[d].sha = b /\ {req'[k].pc, req'[d].pc} \subseteq {"remove", "forget"} => k = d
    BY <1>8, <2>1 DEF Quiet
  <2> QED
    BY <1>8, <2>1, <2>2, <2>3, <2>4, <2>5, QuietFrame
<1>9. ShapeOf(c)'
  BY <1>1 DEF ShapeOf
<1>10. ids <= ids' /\ \A r \in links' : r \in links \/ r.id > ids
  BY <1>0, EvidenceFacts
<1> QED
  BY <1>0, <1>1, <1>3, <1>4, <1>5, <1>6, <1>7, <1>8, <1>9, <1>10, StepInv

LEMMA CrashStep ==
    ASSUME EvidenceInv, Evid!Crash
    PROVE  EvidenceInv'
<1>0. /\ EvidenceConstants /\ Evid!TypeOK /\ Shape /\ IdsFresh /\ FiniteClaims /\ Counted /\ EvidenceConstants'
      /\ UNCHANGED <<file, blob, links, engs, ids, begun, released, twice, contested, purged>>
      /\ req' = [d \in Requests |-> Evid!Idle] /\ faults' = faults + 1 /\ faults < MaxFault
  BY DEF EvidenceInv, Evid!hist, Evid!dbs, Evid!Crash, EvidenceConstants
<1>1. \A d \in Requests : req'[d] = Evid!Idle
  BY <1>0
<1>2. Evid!Idle.pc = "idle" /\ Evid!Idle.op = "none" /\ Evid!Idle.sha = "none" /\ "none" \notin Blobs /\ Evid!Idle \in Evid!CallStates
  BY <1>0, IdleFacts DEF EvidenceConstants
<1>3. faults' # 0 /\ faults' \in 0..MaxFault
  BY <1>0, EvidenceFacts DEF Evid!TypeOK, EvidenceConstants
<1>4. Evid!TypeOK'
  BY <1>0, <1>2, <1>3 DEF Evid!TypeOK
<1>5. FiniteClaims' /\ \A b : Claims(b)' \subseteq Claims(b)
  BY <1>0, <1>1, <1>2, Shrink
<1>6. IdsFresh'
  BY <1>0, <1>1, <1>2, FreshKeep
<1>7. Shape' /\ Leftover' /\ Paired'
  BY <1>1, <1>3 DEF Shape, ShapeOf, Leftover, Paired
<1>8. Excl' /\ PurgeAlone'
  BY <1>1, <1>2 DEF Excl, PurgeAlone
<1>9. Counted'
  <2> SUFFICES ASSUME NEW b \in Blobs \ (contested \cup twice) PROVE Covered(b)'
    BY <1>0 DEF Counted
  <2>1. Covered(b)
    BY <1>0 DEF Counted
  <2> QED
    BY <1>0, <1>1, <1>2, <1>5, <2>1, SoundElsewhere
<1> QED
  BY <1>0, <1>4, <1>5, <1>6, <1>7, <1>8, <1>9 DEF EvidenceInv

LEMMA FailStep ==
    ASSUME EvidenceInv, NEW c \in Requests, Evid!Fail(c)
    PROVE  EvidenceInv'
<1>0. /\ EvidenceConstants /\ Evid!TypeOK /\ Shape /\ IdsFresh /\ FiniteClaims /\ Excl
      /\ UNCHANGED <<file, blob, links, engs, ids, Evid!hist>>
      /\ UNCHANGED <<released, twice, contested, purged>>
      /\ faults' = faults + 1 /\ faults < MaxFault
  BY DEF EvidenceInv, Evid!hist, Evid!dbs, Evid!Fail
<1>1. faults' # 0 /\ faults' \in 0..MaxFault
  BY <1>0, EvidenceFacts DEF Evid!TypeOK, EvidenceConstants
<1>2. CASE ~Evid!At(c, "insert")
  BY <1>0, <1>1, <1>2, CallReturns DEF Evid!Fail
<1>3. CASE Evid!At(c, "insert")
  <2>1. Evid!Goto(c, "cleanup") /\ "cleanup" \in Evid!Pcs /\ req[c].pc = "insert"
    BY <1>3 DEF Evid!Fail, Evid!Pcs, Evid!At
  <2>2. /\ req' \in [Requests -> Evid!CallStates] /\ begun' = begun
        /\ req'[c].pc = "cleanup" /\ req'[c].op = req[c].op /\ req'[c].sha = req[c].sha
        /\ \A d \in Requests : d # c => req'[d] = req[d]
    BY <1>0, <2>1, GotoFacts
  <2>3. Evid!TypeOK'
    BY <1>0, <1>1, <2>2 DEF Evid!TypeOK
  <2>4. req[c].op = "upload" /\ req[c].sha \in Blobs
    BY <1>0, <2>1, ShapeFacts
  <2>5. ShapeOf(c)'
    BY <2>2, <2>4 DEF ShapeOf, Uploading
  <2>6. FiniteClaims' /\ \A b : Claims(b)' \subseteq Claims(b)
    BY <1>0, <2>2, Shrink
  <2>7. IdsFresh' /\ Leftover'
    BY <1>0, <1>1, <2>2, FreshKeep DEF Leftover
  <2>8. ASSUME NEW b \in Blobs \ (contested \cup twice), Covered(b) PROVE Covered(b)'
    <3>1. CASE b # req[c].sha
      BY <1>0, <2>2, <2>6, <2>8, <3>1, SoundElsewhere
    <3>2. CASE b = req[c].sha
      <4>1. b \in file /\ Claims(b) = {}
        BY <2>1, <2>8, <3>2 DEF Covered
      <4>2. \A d \in Requests : req'[d].sha = b => d = c
        BY <1>0, <2>2, <2>4, <3>2 DEF Excl
      <4> QED
        BY <1>0, <2>2, <2>6, <4>1, <4>2 DEF Covered
    <3> QED
      BY <3>1, <3>2
  <2>9. ids <= ids' /\ \A r \in links' : r \in links \/ r.id > ids
    BY <1>0, EvidenceFacts
  <2> QED
    BY <1>0, <1>1, <2>2, <2>3, <2>5, <2>6, <2>7, <2>8, <2>9, StepInv
<1> QED
  BY <1>2, <1>3

-----------------------------------------------------------------------------
(* Put and Create *)

\* An upload of a content nobody contests is alone with it.
LEMMA AloneWith ==
    ASSUME EvidenceConstants, Evid!TypeOK, Shape, Excl, NEW c \in Requests, NEW d \in Requests,
           req[c].op = "upload", req[d].sha = req[c].sha, req[c].sha \notin contested
    PROVE  d = c
<1>1. req[c].sha \in Blobs
  BY ShapeFacts
<1> QED
  BY <1>1 DEF Excl

LEMMA StatStep ==
    ASSUME EvidenceInv, NEW c \in Requests, NEW b0 \in Blobs, NEW e \in Owners, Evid!Stat(c, b0, e)
    PROVE  EvidenceInv'
<1> DEFINE k == [Evid!Idle EXCEPT !.op = "upload", !.sha = b0, !.eng = e,
                    !.pc = IF b0 \in file THEN "increment" ELSE "rename"]
<1>0. /\ EvidenceConstants /\ Evid!TypeOK /\ Shape /\ IdsFresh /\ FiniteClaims /\ Excl /\ Counted /\ PurgeAlone /\ Leftover /\ Paired
      /\ EvidenceConstants' /\ UNCHANGED <<file, blob, links, engs, ids, faults, released, twice>>
      /\ contested' = (IF Evid!Others(c, b0) # {} THEN contested \cup {b0} ELSE contested)
      /\ purged' = (IF \E d \in Requests : req[d].op = "purge" THEN purged \cup {b0} ELSE purged)
      /\ Evid!Begin(c, k)
  BY DEF EvidenceInv, Evid!dbs, Evid!Stat, Evid!Overlap, EvidenceConstants
<1>1. /\ k \in Evid!CallStates /\ k.op = "upload" /\ k.sha = b0
      /\ k.pc = IF b0 \in file THEN "increment" ELSE "rename"
  BY DEF Evid!Idle, Evid!CallStates, Evid!Pcs
<1> HIDE DEF k
<1>2. /\ req' \in [Requests -> Evid!CallStates] /\ begun' \in 0..MaxCall
      /\ req[c].pc = "idle" /\ req'[c] = k
      /\ \A d \in Requests : d # c => req'[d] = req[d]
  BY <1>0, <1>1, BeginFacts
<1>3. req[c] = Evid!Idle /\ Evid!Idle.sha = "none" /\ Evid!Idle.op = "none" /\ "none" \notin Blobs
  BY <1>0, <1>2, ShapeFacts, IdleFacts DEF EvidenceConstants
<1>4. contested \subseteq contested' /\ purged \subseteq purged' /\ contested' \subseteq Blobs /\ purged' \subseteq Blobs
  BY <1>0 DEF Evid!TypeOK
<1>5. Evid!TypeOK'
  BY <1>0, <1>2, <1>4 DEF Evid!TypeOK
<1>6. FiniteClaims' /\ \A b : Claims(b)' \subseteq Claims(b)
  BY <1>0, <1>1, <1>2, Shrink
<1>7. IdsFresh' /\ Leftover'
  BY <1>0, <1>1, <1>2, FreshKeep, LeftoverKeep
<1>8. Shape'
  <2> SUFFICES ASSUME NEW d \in Requests PROVE ShapeOf(d)'
    BY DEF Shape
  <2>1. CASE d = c
    BY <1>1, <1>2, <2>1 DEF ShapeOf, Uploading
  <2>2. CASE d # c
    <3>1. ids' \in Nat /\ ids <= ids' /\ \A r \in links' : r \in links \/ r.id > ids
      BY <1>0, EvidenceFacts
    <3> QED
      BY <1>0, <1>2, <2>2, <3>1, ShapeFrame
  <2> QED
    BY <2>1, <2>2
<1>9. b0 \notin contested' => \A d \in Requests : req'[d].sha = b0 => d = c
  BY <1>0, <1>2 DEF Evid!Others
<1>10. Excl'
  <2> SUFFICES ASSUME NEW b \in Blobs \ contested', NEW d1 \in Requests, NEW d2 \in Requests,
                      req'[d1].sha = b, req'[d1].op = "upload", req'[d2].sha = b
               PROVE  d1 = d2
    BY DEF Excl
  <2>1. CASE b = b0
    BY <1>9, <2>1
  <2>2. CASE b # b0
    BY <1>0, <1>1, <1>2, <1>4, <2>2 DEF Excl
  <2> QED
    BY <2>1, <2>2
<1>11. PurgeAlone'
  <2> SUFFICES ASSUME NEW b \in Blobs \ purged', NEW p \in Requests, req'[p].op = "purge", NEW d \in Requests, req'[d].sha = b
               PROVE  FALSE
    BY DEF PurgeAlone
  <2>1. p # c /\ req[p].op = "purge"
    BY <1>1, <1>2
  <2>2. b # b0
    BY <1>0, <2>1
  <2>3. d # c /\ req[d].sha = b
    BY <1>1, <1>2, <2>2
  <2> QED
    BY <1>0, <1>4, <2>1, <2>3 DEF PurgeAlone
<1>12. Counted'
  <2> SUFFICES ASSUME NEW b \in Blobs \ (contested' \cup twice) PROVE Covered(b)'
    BY <1>0 DEF Counted
  <2>1. Covered(b)
    BY <1>0, <1>4 DEF Counted
  <2>2. CASE b # b0
    BY <1>0, <1>1, <1>2, <1>6, <2>1, <2>2, SoundElsewhere
  <2>3. CASE b = b0
    <3>1. b \notin file => Claims(b)' = {}
      BY <1>6, <2>1 DEF Covered
    <3>2. Claims(b)' # {} => b \in file' /\ blob'[b] >= Cardinality(Claims(b)')
      <4>1. \A x \in Requests : req'[x].sha = b => x = c
        BY <1>9, <2>3
      <4>2. IsFiniteSet(Claims(b)) /\ Claims(b)' \subseteq Claims(b) /\ blob[b] \in Int
        BY <1>0, <1>6, EvidenceFacts DEF FiniteClaims
      <4>3. Cardinality(Claims(b)') <= Cardinality(Claims(b)) /\ Cardinality(Claims(b)') \in Nat /\ Cardinality(Claims(b)) \in Nat
        BY <4>2, FS_Subset, FS_CardinalityType
      <4>4. Claims(b)' # {} => b \in file /\ blob[b] >= Cardinality(Claims(b))
        BY <2>1, <4>2 DEF Covered
      <4> QED
        BY <1>0, <4>2, <4>3, <4>4
    <3> QED
      BY <1>0, <1>1, <1>2, <1>9, <2>3, <3>1, <3>2 DEF Covered
  <2> QED
    BY <2>2, <2>3
<1>13. Paired'
  <2> SUFFICES ASSUME faults = 0, NEW b \in Blobs \ (contested' \cup twice \cup purged') PROVE Quiet(b)'
    BY <1>0 DEF Paired
  <2>1. Quiet(b)
    BY <1>0, <1>4 DEF Paired
  <2>2. CASE b # b0
    BY <1>0, <1>1, <1>2, <1>3, <2>1, <2>2, QuietElsewhere
  <2>3. CASE b = b0
    <3>1. \A d \in Requests : req[d].sha # b
      BY <1>2, <1>3, <1>9, <2>3
    <3>2. Evid!Storable(b)
      BY <2>1, <3>1 DEF Quiet
    <3>3. \A d \in Requests : req'[d].sha = b => req'[d].pc = IF b \in file THEN "increment" ELSE "rename"
      BY <1>1, <1>2, <1>9, <2>3
    <3> QED
      BY <1>0, <3>2, <3>3 DEF Quiet, Evid!Storable
  <2> QED
    BY <2>2, <2>3
<1> QED
  BY <1>0, <1>5, <1>6, <1>7, <1>8, <1>10, <1>11, <1>12, <1>13 DEF EvidenceInv

\* An upload under way moves on: what is left to show is about its content.
LEMMA UploadMoves ==
    ASSUME EvidenceInv, NEW c \in Requests, NEW l \in {"insert", "create", "cleanup"}, Evid!Goto(c, l), req[c].op = "upload",
           UNCHANGED <<links, engs, ids, faults, Evid!hist>>, file' \subseteq Blobs, blob' \in [Blobs -> Nat \cup {Evid!NoRow}],
           \A b \in Blobs : b # req[c].sha => (b \in file' <=> b \in file) /\ blob'[b] = blob[b],
           \A b \in Blobs \ (contested \cup twice) : b = req[c].sha /\ Covered(b) => Covered(b)',
           faults = 0 => \A b \in Blobs \ (contested \cup twice \cup purged) :
                             b = req[c].sha /\ Covered(b) /\ Quiet(b) => Quiet(b)'
    PROVE  EvidenceInv'
<1>0. /\ EvidenceConstants /\ Evid!TypeOK /\ Shape /\ IdsFresh /\ FiniteClaims /\ Excl /\ Leftover
      /\ UNCHANGED <<released, twice, contested, purged>>
  BY DEF EvidenceInv, Evid!hist
<1>1. l \in Evid!Pcs /\ l # "decrement"
  BY DEF Evid!Pcs
<1>2. /\ req' \in [Requests -> Evid!CallStates] /\ begun' = begun
      /\ req'[c].pc = l /\ req'[c].op = req[c].op /\ req'[c].sha = req[c].sha
      /\ \A d \in Requests : d # c => req'[d] = req[d]
  BY <1>0, <1>1, GotoFacts
<1>3. req[c].sha \in Blobs /\ req[c].pc # "droprows"
  BY <1>0, ShapeFacts
<1>4. Evid!TypeOK'
  BY <1>0, <1>2 DEF Evid!TypeOK
<1>5. ShapeOf(c)'
  BY <1>2, <1>3 DEF ShapeOf, Uploading
<1>6. FiniteClaims' /\ \A b : Claims(b)' \subseteq Claims(b)
  BY <1>0, <1>1, <1>2, Shrink
<1>7. IdsFresh' /\ Leftover'
  BY <1>0, <1>1, <1>2, <1>3, FreshKeep, LeftoverKeep
<1>8. ASSUME NEW b \in Blobs \ (contested \cup twice), Covered(b) PROVE Covered(b)'
  <2>1. CASE b # req[c].sha
    BY <1>0, <1>2, <1>6, <1>8, <2>1, SoundElsewhere
  <2> QED
    BY <1>8, <2>1
<1>9. ASSUME faults = 0, NEW b \in Blobs \ (contested \cup twice \cup purged), Covered(b), Quiet(b) PROVE Quiet(b)'
  <2>1. CASE b # req[c].sha
    BY <1>0, <1>2, <1>9, <2>1, QuietElsewhere
  <2> QED
    BY <1>9, <2>1
<1>10. ids <= ids' /\ \A r \in links' : r \in links \/ r.id > ids
  BY <1>0, EvidenceFacts
<1> QED
  BY <1>0, <1>2, <1>4, <1>5, <1>6, <1>7, <1>8, <1>9, <1>10, StepInv

\* How the content of the upload looks after such a step.
LEMMA UploadView ==
    ASSUME EvidenceInv, NEW c \in Requests, NEW l \in Evid!Pcs, Evid!Goto(c, l), l # "decrement", req[c].op = "upload",
           UNCHANGED <<links, released>>, NEW b, b = req[c].sha
    PROVE  /\ req'[c].pc = l /\ req'[c].sha = b /\ b \in Blobs
           /\ b \notin contested => \A d \in Requests : req'[d].sha = b => d = c
           /\ Claims(b)' \subseteq Claims(b)
           /\ IsFiniteSet(Claims(b)) /\ Cardinality(Claims(b)) \in Nat
           /\ Cardinality(Claims(b)') \in Nat
           /\ Cardinality(Claims(b)') <= Cardinality(Claims(b))
<1>0. EvidenceConstants /\ Evid!TypeOK /\ Shape /\ FiniteClaims /\ Excl
  BY DEF EvidenceInv
<1>1. /\ req'[c].pc = l /\ req'[c].op = req[c].op /\ req'[c].sha = req[c].sha
      /\ \A d \in Requests : d # c => req'[d] = req[d]
  BY <1>0, GotoFacts
<1>2. b \in Blobs
  BY <1>0, ShapeFacts
<1>3. Claims(b)' \subseteq Claims(b)
  BY <1>0, <1>1, Shrink
<1>4. IsFiniteSet(Claims(b))
  BY <1>0, <1>2 DEF FiniteClaims
<1>5. /\ Cardinality(Claims(b)) \in Nat /\ Cardinality(Claims(b)') \in Nat
      /\ Cardinality(Claims(b)') <= Cardinality(Claims(b))
  BY <1>3, <1>4, FS_Subset, FS_CardinalityType
<1>6. b \notin contested => \A d \in Requests : req'[d].sha = b => d = c
  BY <1>0, <1>1, AloneWith
<1> QED
  BY <1>1, <1>2, <1>3, <1>4, <1>5, <1>6

LEMMA IncrementStep ==
    ASSUME EvidenceInv, NEW c \in Requests, Evid!IncrementRef(c)
    PROVE  EvidenceInv'
<1>0. /\ EvidenceConstants /\ Evid!TypeOK /\ Shape
      /\ req[c].pc = "increment" /\ UNCHANGED <<file, links, engs, ids, faults, Evid!hist>>
  BY DEF EvidenceInv, Evid!IncrementRef, Evid!At
<1>1. req[c].op = "upload" /\ req[c].sha \in Blobs /\ released' = released
  BY <1>0, ShapeFacts DEF Evid!hist
<1>2. CASE blob[req[c].sha] = Evid!NoRow
  <2>1. Evid!Return(c) /\ UNCHANGED blob
    BY <1>2 DEF Evid!IncrementRef
  <2>2. faults \in 0..MaxFault
    BY <1>0 DEF Evid!TypeOK
  <2> QED
    BY <1>0, <2>1, <2>2, CallReturns
<1>3. CASE blob[req[c].sha] # Evid!NoRow
  <2>1. blob' = [blob EXCEPT ![req[c].sha] = @ + 1] /\ Evid!Goto(c, "create") /\ "create" \in Evid!Pcs
    BY <1>3 DEF Evid!IncrementRef, Evid!Pcs
  <2>2. blob \in [Blobs -> Nat \cup {Evid!NoRow}] /\ blob[req[c].sha] \in Nat
    BY <1>0, <1>1, <1>3 DEF Evid!TypeOK
  <2>3. /\ blob' \in [Blobs -> Nat \cup {Evid!NoRow}] /\ blob'[req[c].sha] = blob[req[c].sha] + 1
        /\ \A b \in Blobs : b # req[c].sha => blob'[b] = blob[b]
    BY <1>1, <2>1, <2>2
  <2>4. file' \subseteq Blobs
    BY <1>0 DEF Evid!TypeOK
  <2>5. ASSUME NEW b \in Blobs \ (contested \cup twice), b = req[c].sha, Covered(b) PROVE Covered(b)'
    <3>1. /\ \A d \in Requests : req'[d].sha = b => d = c
          /\ req'[c].pc = "create"
          /\ Claims(b)' \subseteq Claims(b) /\ Cardinality(Claims(b)) \in Nat /\ Cardinality(Claims(b)') \in Nat
          /\ Cardinality(Claims(b)') <= Cardinality(Claims(b)) /\ IsFiniteSet(Claims(b))
      BY <1>0, <1>1, <2>1, <2>5, UploadView
    <3>2. b \in file /\ (Claims(b) # {} => blob[b] >= Cardinality(Claims(b)))
      BY <1>0, <2>5 DEF Covered
    <3>3. Claims(b) = {} => Cardinality(Claims(b)) = 0
      BY <3>1, FS_EmptySet
    <3>4. blob[b] >= Cardinality(Claims(b)) /\ blob[b] \in Nat /\ blob'[b] = blob[b] + 1
      BY <2>2, <2>3, <2>5, <3>2, <3>3
    <3>5. blob'[b] >= Cardinality(Claims(b)') + 1 /\ blob'[b] >= Cardinality(Claims(b)')
      BY <3>1, <3>4
    <3> QED
      BY <1>0, <3>1, <3>2, <3>5 DEF Covered
  <2>6. ASSUME NEW b \in Blobs \ (contested \cup twice \cup purged), b = req[c].sha, Quiet(b) PROVE Quiet(b)'
    <3>1. /\ \A d \in Requests : req'[d].sha = b => d = c
          /\ req'[c].pc = "create"
      BY <1>0, <1>1, <2>1, <2>6, UploadView
    <3>2. blob[b] # Evid!NoRow /\ blob'[b] # Evid!NoRow
      BY <1>3, <2>2, <2>3, <2>6 DEF Evid!NoRow
    <3>3. \A d \in Requests : req[d].sha = b => d = c
      BY <1>0, <1>1, <2>6, AloneWith DEF EvidenceInv
    <3> QED
      BY <1>0, <2>6, <3>1, <3>2, <3>3 DEF Quiet, Evid!Storable
  <2> QED
    BY <1>0, <1>1, <2>1, <2>3, <2>4, <2>5, <2>6, UploadMoves
<1> QED
  BY <1>2, <1>3

LEMMA RenameStep ==
    ASSUME EvidenceInv, NEW c \in Requests, Evid!Rename(c)
    PROVE  EvidenceInv'
<1>0. /\ EvidenceConstants /\ Evid!TypeOK /\ Shape
      /\ req[c].pc = "rename" /\ UNCHANGED <<blob, links, engs, ids, faults, Evid!hist>>
  BY DEF EvidenceInv, Evid!Rename, Evid!At, Evid!dbs
<1>1. req[c].op = "upload" /\ req[c].sha \in Blobs /\ released' = released
  BY <1>0, ShapeFacts DEF Evid!hist
<1>2. CASE Evid!Return(c) /\ UNCHANGED file
  <2>2. faults \in 0..MaxFault
    BY <1>0 DEF Evid!TypeOK
  <2> QED
    BY <1>0, <1>2, <2>2, CallReturns
<1>3. CASE file' = file \cup {req[c].sha} /\ Evid!Goto(c, "insert")
  <2>1. "insert" \in Evid!Pcs /\ file' \subseteq Blobs /\ blob' \in [Blobs -> Nat \cup {Evid!NoRow}]
        /\ \A b \in Blobs : b # req[c].sha => (b \in file' <=> b \in file)
    BY <1>0, <1>1, <1>3 DEF Evid!Pcs, Evid!TypeOK
  <2>2. ASSUME NEW b \in Blobs \ (contested \cup twice), b = req[c].sha, Covered(b) PROVE Covered(b)'
    <3>1. /\ \A d \in Requests : req'[d].sha = b => d = c
          /\ req'[c].pc = "insert" /\ Claims(b)' \subseteq Claims(b)
      BY <1>0, <1>1, <1>3, <2>1, <2>2, UploadView
    <3>2. Claims(b)' = {}
      BY <1>0, <2>2, <3>1 DEF Covered
    <3> QED
      BY <1>3, <2>2, <3>1, <3>2 DEF Covered
  <2>3. ASSUME NEW b \in Blobs \ (contested \cup twice \cup purged), b = req[c].sha, Quiet(b) PROVE Quiet(b)'
    <3>1. /\ \A d \in Requests : req'[d].sha = b => d = c
          /\ req'[c].pc = "insert" /\ req'[c].sha = b
      BY <1>0, <1>1, <1>3, <2>1, <2>3, UploadView
    <3>2. blob'[b] = Evid!NoRow /\ b \in file'
      BY <1>0, <1>3, <2>3 DEF Quiet
    <3> QED
      BY <3>1, <3>2 DEF Quiet
  <2> QED
    BY <1>0, <1>1, <1>3, <2>1, <2>2, <2>3, UploadMoves
<1> QED
  BY <1>2, <1>3 DEF Evid!Rename

LEMMA InsertStep ==
    ASSUME EvidenceInv, NEW c \in Requests, Evid!InsertBlob(c)
    PROVE  EvidenceInv'
<1>0. /\ EvidenceConstants /\ Evid!TypeOK /\ Shape
      /\ req[c].pc = "insert" /\ UNCHANGED <<file, links, engs, ids, faults, Evid!hist>>
  BY DEF EvidenceInv, Evid!InsertBlob, Evid!At
<1>1. req[c].op = "upload" /\ req[c].sha \in Blobs /\ released' = released
  BY <1>0, ShapeFacts DEF Evid!hist
<1>2. PICK l \in {"create", "cleanup"} :
          /\ Evid!Goto(c, l) /\ (l = "create" <=> blob[req[c].sha] = Evid!NoRow)
          /\ blob' = IF l = "create" THEN [blob EXCEPT ![req[c].sha] = 1] ELSE blob
  BY DEF Evid!InsertBlob
<1>3. l \in Evid!Pcs /\ l # "decrement" /\ file' \subseteq Blobs /\ blob \in [Blobs -> Nat \cup {Evid!NoRow}]
  BY <1>0 DEF Evid!Pcs, Evid!TypeOK
<1>4. /\ blob' \in [Blobs -> Nat \cup {Evid!NoRow}] /\ (l = "create" => blob'[req[c].sha] = 1)
      /\ \A b \in Blobs : b # req[c].sha => blob'[b] = blob[b]
  BY <1>1, <1>2, <1>3
<1>5. ASSUME NEW b \in Blobs \ (contested \cup twice), b = req[c].sha, Covered(b) PROVE Covered(b)'
  <2>1. /\ \A d \in Requests : req'[d].sha = b => d = c
        /\ req'[c].pc = l /\ Claims(b)' \subseteq Claims(b)
    BY <1>0, <1>1, <1>2, <1>3, <1>5, UploadView
  <2>2. Claims(b)' = {} /\ b \in file'
    BY <1>0, <1>5, <2>1 DEF Covered
  <2>3. Cardinality(Claims(b)') = 0
    BY <2>2, FS_EmptySet
  <2>4. l = "create" => blob'[b] >= Cardinality(Claims(b)') + 1
    BY <1>4, <1>5, <2>3
  <2> QED
    BY <2>1, <2>2, <2>4 DEF Covered
<1>6. ASSUME NEW b \in Blobs \ (contested \cup twice \cup purged), b = req[c].sha, Quiet(b) PROVE Quiet(b)'
  <2>1. /\ \A d \in Requests : req'[d].sha = b => d = c
        /\ req'[c].pc = l
    BY <1>0, <1>1, <1>2, <1>3, <1>6, UploadView
  <2>2. blob[b] = Evid!NoRow /\ b \in file'
    BY <1>0, <1>6 DEF Quiet
  <2>3. l = "create" /\ blob'[b] # Evid!NoRow
    BY <1>2, <1>4, <1>6, <2>2 DEF Evid!NoRow
  <2> QED
    BY <2>1, <2>2, <2>3 DEF Quiet, Evid!Storable
<1> QED
  BY <1>0, <1>1, <1>2, <1>3, <1>4, <1>5, <1>6, UploadMoves

\* An upload returns having changed its content only.
LEMMA UploadReturns ==
    ASSUME EvidenceInv, NEW c \in Requests, Evid!Return(c), req[c].op = "upload",
           UNCHANGED <<engs, blob, faults, Evid!hist>>, file' \subseteq Blobs, links' \subseteq Evid!RowIds,
           ids' \in 0..MaxRow, ids <= ids', \A r \in links' : r \in links \/ r.id > ids,
           links' \cap released \subseteq links, IdsFresh', FiniteClaims',
           \A b \in Blobs : b # req[c].sha => (b \in file' <=> b \in file) /\ Claims(b)' \subseteq Claims(b),
           \A b \in Blobs \ (contested \cup twice) : b = req[c].sha /\ Covered(b) => Covered(b)',
           faults = 0 => \A b \in Blobs \ (contested \cup twice \cup purged) :
                             b = req[c].sha /\ Covered(b) /\ Quiet(b) => Quiet(b)'
    PROVE  EvidenceInv'
<1>0. /\ EvidenceConstants /\ Evid!TypeOK /\ Shape /\ FiniteClaims /\ Leftover
      /\ UNCHANGED <<released, twice, contested, purged>>
  BY DEF EvidenceInv, Evid!hist
<1>1. /\ req' \in [Requests -> Evid!CallStates] /\ begun' = begun /\ req'[c] = Evid!Idle
      /\ \A d \in Requests : d # c => req'[d] = req[d]
  BY <1>0, ReturnFacts
<1>2. Evid!Idle.pc = "idle" /\ Evid!Idle.sha = "none" /\ "none" \notin Blobs
  BY <1>0, IdleFacts DEF EvidenceConstants
<1>3. Evid!TypeOK'
  BY <1>0, <1>1 DEF Evid!TypeOK
<1>4. req[c].pc # "droprows"
  BY <1>0, ShapeFacts
<1>5. Leftover'
  <2>1. links' \cap released' \subseteq links \cap released
    BY <1>0
  <2>2. \A d \in Requests : req[d].pc = "droprows" => req'[d] = req[d]
    BY <1>1, <1>4
  <2> QED
    BY <1>0, <2>1, <2>2, LeftoverKeep
<1>6. ASSUME NEW b \in Blobs \ (contested \cup twice), Covered(b) PROVE Covered(b)'
  <2>1. CASE b # req[c].sha
    <3>1. \A d \in Requests : req'[d].sha = b => req'[d] = req[d]
      BY <1>1, <1>2
    <3> QED
      BY <1>0, <1>6, <2>1, <3>1, SoundElsewhere
  <2> QED
    BY <1>6, <2>1
<1>7. ASSUME faults = 0, NEW b \in Blobs \ (contested \cup twice \cup purged), Covered(b), Quiet(b) PROVE Quiet(b)'
  <2>1. CASE b # req[c].sha
    <3>1. \A d \in Requests : (req'[d].sha = b => req'[d] = req[d]) /\ (req[d].sha = b => req'[d] = req[d])
      BY <1>1, <1>2, <2>1
    <3> QED
      BY <1>0, <1>7, <2>1, <3>1, QuietElsewhere
  <2> QED
    BY <1>7, <2>1
<1>8. ShapeOf(c)'
  BY <1>1 DEF ShapeOf
<1> QED
  BY <1>0, <1>1, <1>3, <1>5, <1>6, <1>7, <1>8, StepInv

LEMMA CleanupStep ==
    ASSUME EvidenceInv, NEW c \in Requests, Evid!Cleanup(c)
    PROVE  EvidenceInv'
<1>0. /\ EvidenceConstants /\ Evid!TypeOK /\ Shape /\ IdsFresh /\ FiniteClaims /\ Excl
      /\ req[c].pc = "cleanup" /\ UNCHANGED <<blob, links, engs, ids, faults, Evid!hist>> /\ released' = released
      /\ file' = file \ {req[c].sha} /\ Evid!Return(c)
  BY DEF EvidenceInv, Evid!Cleanup, Evid!At, Evid!dbs, Evid!hist
<1>1. req[c].op = "upload" /\ req[c].sha \in Blobs
  BY <1>0, ShapeFacts
<1>2. req'[c] = Evid!Idle /\ \A d \in Requests : d # c => req'[d] = req[d]
  BY <1>0, ReturnFacts
<1>3. Evid!Idle.pc = "idle" /\ Evid!Idle.sha = "none" /\ "none" \notin Blobs
  BY <1>0, IdleFacts DEF EvidenceConstants
<1>4. FiniteClaims' /\ \A b : Claims(b)' \subseteq Claims(b)
  BY <1>0, <1>2, <1>3, Shrink
<1>5. IdsFresh'
  BY <1>0, <1>2, <1>3, FreshKeep
<1>6. /\ file' \subseteq Blobs /\ links' \subseteq Evid!RowIds /\ ids' \in 0..MaxRow /\ ids <= ids'
      /\ \A r \in links' : r \in links \/ r.id > ids
  BY <1>0, EvidenceFacts DEF Evid!TypeOK
<1>7. ASSUME NEW b \in Blobs \ (contested \cup twice), b = req[c].sha, Covered(b) PROVE Covered(b)'
  <2>1. Claims(b)' = {}
    BY <1>0, <1>4, <1>7 DEF Covered
  <2>2. \A d \in Requests : req'[d].sha # b
    BY <1>0, <1>1, <1>2, <1>3, <1>7, AloneWith
  <2> QED
    BY <2>1, <2>2 DEF Covered
<1>8. \A b \in Blobs : b = req[c].sha => ~Quiet(b)
  BY <1>0 DEF Quiet
<1> QED
  BY <1>0, <1>1, <1>4, <1>5, <1>6, <1>7, <1>8, UploadReturns

LEMMA CreateStep ==
    ASSUME EvidenceInv, NEW c \in Requests, Evid!Create(c)
    PROVE  EvidenceInv'
<1>0. /\ EvidenceConstants /\ Evid!TypeOK /\ Shape /\ IdsFresh /\ FiniteClaims /\ Excl
      /\ req[c].pc = "create" /\ UNCHANGED <<file, blob, engs, faults, Evid!hist>> /\ released' = released
      /\ ids < MaxRow /\ Evid!Return(c)
  BY DEF EvidenceInv, Evid!Create, Evid!At, Evid!hist
<1>1. req[c].op = "upload" /\ req[c].sha \in Blobs /\ faults \in 0..MaxFault
  BY <1>0, ShapeFacts DEF Evid!TypeOK
<1>2. CASE UNCHANGED <<links, ids>>
  BY <1>0, <1>1, <1>2, CallReturns
<1>3. CASE req[c].eng \in engs /\ links' = links \cup {[id |-> ids + 1, eng |-> req[c].eng, sha |-> req[c].sha]} /\ ids' = ids + 1
  <2> DEFINE n == [id |-> ids + 1, eng |-> req[c].eng, sha |-> req[c].sha]
  <2>1. /\ n \in Evid!RowIds /\ n.id = ids + 1 /\ n.sha = req[c].sha /\ ids \in Nat /\ ids' \in 0..MaxRow
        /\ engs \subseteq Owners /\ links \subseteq Evid!RowIds /\ released \subseteq Evid!RowIds /\ links' = links \cup {n}
    <3>1. engs \subseteq Owners /\ links \subseteq Evid!RowIds /\ ids \in Nat /\ MaxRow \in Nat /\ released \subseteq Evid!RowIds
      BY <1>0 DEF Evid!TypeOK, EvidenceConstants
    <3> QED
      BY <1>0, <1>1, <1>3, <3>1 DEF Evid!RowIds
  <2> HIDE DEF n
  <2>2. req'[c] = Evid!Idle /\ \A d \in Requests : d # c => req'[d] = req[d]
    BY <1>0, ReturnFacts
  <2>3. Evid!Idle.pc = "idle" /\ Evid!Idle.sha = "none" /\ "none" \notin Blobs
    BY <1>0, IdleFacts DEF EvidenceConstants
  <2>4. Unlinked' = Unlinked
    BY <1>0, <2>2, <2>3 DEF Unlinked
  <2>5. \A r \in links \cup released : r.id \in Nat /\ r.id <= ids
    BY <1>0, <2>1, EvidenceFacts DEF IdsFresh
  <2>6. n \notin links \cup released
    BY <2>1, <2>5
  <2>7. n \notin Unlinked
    <3> SUFFICES ASSUME NEW d \in Requests, req[d].pc = "decrement", req[d].row = n PROVE FALSE
      BY DEF Unlinked
    <3>1. n.id <= ids
      BY <1>0, ShapeFacts DEF Deleting
    <3> QED
      BY <2>1, <3>1
  <2>8. \A b : Claims(b)' = IF b = req[c].sha THEN Claims(b) \cup {n} ELSE Claims(b)
    BY <1>0, <2>1, <2>4, <2>6 DEF Claims
  <2>9. FiniteClaims'
    BY <1>0, <2>1, <2>8, FS_AddElement DEF FiniteClaims
  <2>10. IdsFresh'
    <3>1. \A r \in links' \cup released' : r.id <= ids'
      BY <1>0, <1>3, <2>1, <2>5
    <3>2. \A k, d \in Requests : req'[k].pc = "decrement" /\ req'[d].pc = "decrement" /\ req'[k].row = req'[d].row => k = d
      BY <1>0, <2>2, <2>3 DEF IdsFresh
    <3> QED
      BY <3>1, <3>2 DEF IdsFresh
  <2>11. /\ file' \subseteq Blobs /\ links' \subseteq Evid!RowIds /\ ids <= ids'
         /\ \A r \in links' : r \in links \/ r.id > ids
         /\ links' \cap released \subseteq links
    BY <1>0, <1>3, <2>1, <2>6 DEF Evid!TypeOK
  <2>12. ASSUME NEW b \in Blobs \ (contested \cup twice), b = req[c].sha, Covered(b) PROVE Covered(b)'
    <3>1. blob[b] >= Cardinality(Claims(b)) + 1 /\ b \in file
      BY <1>0, <2>12 DEF Covered
    <3>2. IsFiniteSet(Claims(b)) /\ n \notin Claims(b)
      BY <1>0, <2>6, <2>7 DEF FiniteClaims, Claims
    <3>3. Cardinality(Claims(b)') = Cardinality(Claims(b)) + 1
      BY <2>8, <2>12, <3>2, FS_AddElement
    <3>4. \A d \in Requests : req'[d].sha # b
      BY <1>0, <1>1, <2>2, <2>3, <2>12, AloneWith
    <3> QED
      BY <1>0, <3>1, <3>3, <3>4 DEF Covered
  <2>13. ASSUME NEW b \in Blobs \ (contested \cup twice \cup purged), b = req[c].sha, Quiet(b) PROVE Quiet(b)'
    <3>1. \A d \in Requests : req'[d].sha # b
      BY <1>0, <1>1, <2>2, <2>3, <2>13, AloneWith
    <3>2. \A d \in Requests : req[d].sha = b => d = c
      BY <1>0, <1>1, <2>13, AloneWith
    <3>3. Evid!Storable(b)
      BY <1>0, <2>13, <3>2 DEF Quiet
    <3> QED
      BY <1>0, <3>1, <3>3 DEF Quiet, Evid!Storable
  <2> QED
    BY <1>0, <1>1, <2>1, <2>8, <2>9, <2>10, <2>11, <2>12, <2>13, UploadReturns
<1> QED
  BY <1>2, <1>3 DEF Evid!Create

-----------------------------------------------------------------------------
(* DeleteEvidence *)

LEMMA DeleteStep ==
    ASSUME EvidenceInv, NEW c \in Requests, NEW r \in links, Evid!DeleteEvidence(c, r)
    PROVE  EvidenceInv'
<1> DEFINE k == [Evid!Idle EXCEPT !.op = "delete", !.pc = "unlink", !.sha = r.sha, !.row = r]
<1>0. /\ EvidenceConstants /\ Evid!TypeOK /\ Shape /\ IdsFresh /\ FiniteClaims /\ Excl /\ Counted /\ PurgeAlone /\ Leftover /\ Paired
      /\ EvidenceConstants' /\ UNCHANGED <<file, blob, links, engs, ids, faults, released, twice>>
      /\ contested' = (IF \E d \in Evid!Others(c, r.sha) : req[d].op = "upload" THEN contested \cup {r.sha} ELSE contested)
      /\ purged' = (IF \E d \in Requests : req[d].op = "purge" THEN purged \cup {r.sha} ELSE purged)
      /\ Evid!Begin(c, k)
  BY DEF EvidenceInv, Evid!dbs, Evid!DeleteEvidence, Evid!Overlap, EvidenceConstants
<1>1. r \in Evid!RowIds /\ r.sha \in Blobs /\ r.id <= ids
  BY <1>0, EvidenceFacts DEF IdsFresh
<1>2. k \in Evid!CallStates /\ k.op = "delete" /\ k.sha = r.sha /\ k.pc = "unlink" /\ k.row = r
  BY <1>1 DEF Evid!Idle, Evid!CallStates, Evid!Pcs
<1> HIDE DEF k
<1>3. /\ req' \in [Requests -> Evid!CallStates] /\ begun' \in 0..MaxCall
      /\ req[c].pc = "idle" /\ req'[c] = k
      /\ \A d \in Requests : d # c => req'[d] = req[d]
  BY <1>0, <1>2, BeginFacts
<1>4. req[c] = Evid!Idle /\ Evid!Idle.sha = "none" /\ Evid!Idle.op = "none" /\ "none" \notin Blobs
  BY <1>0, <1>3, ShapeFacts, IdleFacts DEF EvidenceConstants
<1>5. contested \subseteq contested' /\ purged \subseteq purged' /\ contested' \subseteq Blobs /\ purged' \subseteq Blobs
  BY <1>0, <1>1 DEF Evid!TypeOK
<1>6. Evid!TypeOK'
  BY <1>0, <1>3, <1>5 DEF Evid!TypeOK
<1>7. FiniteClaims' /\ \A b : Claims(b)' \subseteq Claims(b)
  BY <1>0, <1>2, <1>3, Shrink
<1>8. IdsFresh' /\ Leftover'
  BY <1>0, <1>2, <1>3, FreshKeep, LeftoverKeep
<1>9. Shape'
  <2> SUFFICES ASSUME NEW d \in Requests PROVE ShapeOf(d)'
    BY DEF Shape
  <2>1. CASE d = c
    BY <1>0, <1>1, <1>2, <1>3, <2>1 DEF ShapeOf, Deleting
  <2>2. CASE d # c
    <3>1. ids' \in Nat /\ ids <= ids' /\ \A q \in links' : q \in links \/ q.id > ids
      BY <1>0, EvidenceFacts
    <3> QED
      BY <1>0, <1>3, <2>2, <3>1, ShapeFrame
  <2> QED
    BY <2>1, <2>2
<1>10. Excl'
  <2> SUFFICES ASSUME NEW b \in Blobs \ contested', NEW d1 \in Requests, NEW d2 \in Requests,
                      req'[d1].sha = b, req'[d1].op = "upload", req'[d2].sha = b
               PROVE  d1 = d2
    BY DEF Excl
  <2>1. d1 # c /\ req[d1].sha = b /\ req[d1].op = "upload"
    BY <1>2, <1>3
  <2>2. d2 # c
    BY <1>0, <1>2, <1>3, <2>1 DEF Evid!Others
  <2> QED
    BY <1>0, <1>3, <1>5, <2>1, <2>2 DEF Excl
<1>11. PurgeAlone'
  <2> SUFFICES ASSUME NEW b \in Blobs \ purged', NEW p \in Requests, req'[p].op = "purge", NEW d \in Requests, req'[d].sha = b
               PROVE  FALSE
    BY DEF PurgeAlone
  <2>1. p # c /\ req[p].op = "purge"
    BY <1>2, <1>3
  <2>2. b # r.sha
    BY <1>0, <2>1
  <2>3. d # c /\ req[d].sha = b
    BY <1>2, <1>3, <2>2
  <2> QED
    BY <1>0, <1>5, <2>1, <2>3 DEF PurgeAlone
<1>12. Counted'
  <2> SUFFICES ASSUME NEW b \in Blobs \ (contested' \cup twice) PROVE Covered(b)'
    BY <1>0 DEF Counted
  <2>1. Covered(b)
    BY <1>0, <1>5 DEF Counted
  <2>2. blob'[b] \in Int /\ blob'[b] >= blob[b]
    BY <1>0, EvidenceFacts
  <2>3. \A d \in Requests : /\ req'[d].sha = b
                         /\ req'[d].pc \in {"increment", "create", "insert", "cleanup", "rename", "remove", "forget"}
                         => req[d].sha = b /\ req'[d].pc = req[d].pc
    BY <1>2, <1>3
  <2> QED
    BY <1>0, <1>7, <2>1, <2>2, <2>3, SoundFrame
<1>13. Paired'
  <2> SUFFICES ASSUME faults = 0, NEW b \in Blobs \ (contested' \cup twice \cup purged') PROVE Quiet(b)'
    BY <1>0 DEF Paired
  <2>1. Quiet(b)
    BY <1>0, <1>5 DEF Paired
  <2>2. \A d \in Requests : req'[d].sha = b => req'[d].pc = "unlink" \/ req'[d] = req[d]
    BY <1>2, <1>3
  <2>3. \A d \in Requests : req[d].sha = b => req'[d] = req[d]
    BY <1>3, <1>4
  <2>4. \A d \in Requests : req'[d].sha = b /\ req'[d].pc = "decrement" => req'[d].row \notin released'
    BY <1>0, <2>1, <2>2 DEF Quiet
  <2>5. \A d \in Requests : req'[d].sha = b /\ req'[d].pc = "remove" => blob'[b] # Evid!NoRow
    BY <1>0, <2>1, <2>2 DEF Quiet
  <2>6. \A d1, d2 \in Requests :
            req'[d1].sha = b /\ req'[d2].sha = b /\ {req'[d1].pc, req'[d2].pc} \subseteq {"remove", "forget"} => d1 = d2
    BY <2>1, <2>2 DEF Quiet
  <2> QED
    BY <1>0, <2>1, <2>2, <2>3, <2>4, <2>5, <2>6, QuietFrame
<1> QED
  BY <1>0, <1>6, <1>7, <1>8, <1>9, <1>10, <1>11, <1>12, <1>13 DEF EvidenceInv

\* Without failures, no row of a content outside purged that some call works on
\* has been given back.
LEMMA NoLeftover ==
    ASSUME EvidenceConstants, Evid!TypeOK, Shape, PurgeAlone, Leftover, faults = 0, NEW c \in Requests,
           req[c].sha \in Blobs \ purged
    PROVE  links \cap released = {}
<1> SUFFICES ASSUME NEW r \in links \cap released PROVE FALSE
  OBVIOUS
<1>1. PICK d \in Requests : req[d].pc = "droprows"
  BY DEF Leftover
<1>2. req[d].op = "purge"
  BY <1>1, ShapeFacts
<1> QED
  BY <1>2 DEF PurgeAlone

LEMMA UnlinkStep ==
    ASSUME EvidenceInv, NEW c \in Requests, Evid!DeleteLink(c)
    PROVE  EvidenceInv'
<1>0. /\ EvidenceConstants /\ Evid!TypeOK /\ Shape /\ IdsFresh /\ FiniteClaims /\ Excl /\ PurgeAlone /\ Leftover
      /\ req[c].pc = "unlink" /\ UNCHANGED <<file, blob, engs, ids, faults, Evid!hist>>
      /\ UNCHANGED <<released, twice, contested, purged>> /\ links' = links \ {req[c].row}
  BY DEF EvidenceInv, Evid!DeleteLink, Evid!At, Evid!hist
<1>1. /\ req[c].op = "delete" /\ req[c].sha \in Blobs /\ faults \in 0..MaxFault
      /\ req[c].row \in Evid!RowIds /\ req[c].row.sha = req[c].sha /\ req[c].row.id <= ids
  BY <1>0, ShapeFacts DEF Evid!TypeOK, Deleting
<1>2. CASE req[c].row \notin links
  <2>1. links' = links /\ Evid!Return(c)
    BY <1>0, <1>2 DEF Evid!DeleteLink
  <2> QED
    BY <1>0, <1>1, <2>1, CallReturns
<1>3. CASE req[c].row \in links
  <2>1. Evid!Goto(c, "decrement") /\ "decrement" \in Evid!Pcs
    BY <1>3 DEF Evid!DeleteLink, Evid!Pcs
  <2>2. /\ req' \in [Requests -> Evid!CallStates] /\ begun' = begun
        /\ req'[c].pc = "decrement" /\ req'[c].op = req[c].op /\ req'[c].sha = req[c].sha
        /\ req'[c].row = req[c].row
        /\ \A d \in Requests : d # c => req'[d] = req[d]
    BY <1>0, <2>1, GotoFacts
  <2>3. Evid!TypeOK'
    BY <1>0, <2>2 DEF Evid!TypeOK
  <2>4. ShapeOf(c)'
    BY <1>0, <1>1, <2>2 DEF ShapeOf, Deleting
  <2>5. FiniteClaims' /\ \A b : Claims(b)' \subseteq Claims(b)
    <3>1. \A d \in Requests : req'[d].pc = "decrement" =>
              \/ req[d].pc = "decrement" /\ req'[d].row = req[d].row
              \/ req'[d].row \in links
      BY <1>3, <2>2
    <3> QED
      BY <1>0, <3>1, Shrink
  <2>6. IdsFresh'
    <3>1. \A d \in Requests : req[d].pc = "decrement" => req[d].row \notin links
      BY <1>0, ShapeFacts DEF Deleting
    <3>2. \A d1, d2 \in Requests : req'[d1].pc = "decrement" /\ req'[d2].pc = "decrement" /\ req'[d1].row = req'[d2].row => d1 = d2
      BY <1>0, <1>3, <2>2, <3>1 DEF IdsFresh
    <3>3. \A q \in links' \cup released' : q.id <= ids'
      BY <1>0 DEF IdsFresh
    <3> QED
      BY <3>2, <3>3 DEF IdsFresh
  <2>7. Leftover'
    <3>1. links' \cap released' \subseteq links \cap released
      BY <1>0
    <3>2. \A d \in Requests : req[d].pc = "droprows" => req'[d] = req[d]
      BY <1>0, <2>2
    <3> QED
      BY <1>0, <3>1, <3>2, LeftoverKeep
  <2>8. ASSUME NEW b \in Blobs \ (contested \cup twice), Covered(b) PROVE Covered(b)'
    <3>1. blob'[b] \in Int /\ blob'[b] >= blob[b]
      BY <1>0, EvidenceFacts
    <3>2. \A d \in Requests : /\ req'[d].sha = b
                           /\ req'[d].pc \in {"increment", "create", "insert", "cleanup", "rename", "remove", "forget"}
                           => req[d].sha = b /\ req'[d].pc = req[d].pc
      BY <2>2
    <3> QED
      BY <1>0, <2>5, <2>8, <3>1, <3>2, SoundFrame
  <2>9. ASSUME faults = 0, NEW b \in Blobs \ (contested \cup twice \cup purged), Quiet(b) PROVE Quiet(b)'
    <3>1. b = req[c].sha => req[c].row \notin released
      BY <1>0, <1>3, <2>9, NoLeftover
    <3>2. \A d \in Requests : req'[d].sha = b => d = c \/ req'[d] = req[d]
      BY <2>2
    <3>3. \A d \in Requests : req'[d].sha = b /\ req'[d].pc = "decrement" => req'[d].row \notin released'
      BY <1>0, <2>2, <2>9, <3>1, <3>2 DEF Quiet
    <3>4. \A d \in Requests : req'[d].sha = b /\ req'[d].pc = "remove" => blob'[b] # Evid!NoRow
      BY <1>0, <2>2, <2>9, <3>2 DEF Quiet
    <3>5. \A d1, d2 \in Requests :
              req'[d1].sha = b /\ req'[d2].sha = b /\ {req'[d1].pc, req'[d2].pc} \subseteq {"remove", "forget"} => d1 = d2
      BY <2>2, <2>9, <3>2 DEF Quiet
    <3>6. \A d \in Requests : req'[d].sha = b /\ req'[d].pc \in {"cleanup", "rename", "insert", "forget"}
                            => req[d].sha = b /\ req'[d].pc = req[d].pc
      BY <2>2, <3>2
    <3>7. \A d \in Requests : req[d].sha = b /\ req[d].pc \in {"insert", "forget"}
                            => req'[d].sha = b /\ req'[d].pc = req[d].pc
      BY <1>0, <2>2
    <3> QED
      BY <1>0, <2>9, <3>3, <3>4, <3>5, <3>6, <3>7, QuietFrame
  <2>10. ids <= ids' /\ \A q \in links' : q \in links \/ q.id > ids
    BY <1>0, EvidenceFacts
  <2> QED
    BY <1>0, <2>2, <2>3, <2>4, <2>5, <2>6, <2>7, <2>8, <2>9, <2>10, StepInv
<1> QED
  BY <1>2, <1>3

LEMMA DecrementStep ==
    ASSUME EvidenceInv, NEW c \in Requests, Evid!DecrementRef(c)
    PROVE  EvidenceInv'
<1>0. /\ EvidenceConstants /\ Evid!TypeOK /\ Shape /\ IdsFresh /\ FiniteClaims /\ Excl /\ Leftover
      /\ req[c].pc = "decrement" /\ UNCHANGED <<file, links, engs, ids, faults>>
  BY DEF EvidenceInv, Evid!DecrementRef, Evid!At
<1>1. /\ req[c].op = "delete" /\ req[c].sha \in Blobs /\ faults \in 0..MaxFault
      /\ req[c].row \in Evid!RowIds /\ req[c].row.sha = req[c].sha /\ req[c].row.id <= ids /\ req[c].row \notin links
  BY <1>0, ShapeFacts DEF Evid!TypeOK, Deleting
<1>2. CASE ~(blob[req[c].sha] > 0)
  <2>1. Evid!Return(c) /\ UNCHANGED <<blob, Evid!hist>>
    BY <1>2 DEF Evid!DecrementRef
  <2> QED
    BY <1>0, <1>1, <2>1, CallReturns
<1>3. CASE blob[req[c].sha] > 0
  <2> DEFINE b0 == req[c].sha
             r0 == req[c].row
  <2>1. /\ blob' = [blob EXCEPT ![b0] = @ - 1] /\ Evid!GiveBack({r0})
        /\ IF blob[b0] = 1 THEN Evid!Goto(c, "remove") ELSE Evid!Return(c)
    BY <1>3 DEF Evid!DecrementRef
  <2>2. /\ released' = released \cup {r0} /\ contested' = contested /\ purged' = purged
        /\ twice' = twice \cup {r.sha : r \in {r0} \cap released}
    BY <2>1 DEF Evid!GiveBack
  <2>3. twice \subseteq twice' /\ twice' \subseteq Blobs /\ (r0 \in released => b0 \in twice')
    BY <1>0, <1>1, <2>2 DEF Evid!TypeOK
  <2>4. blob \in [Blobs -> Nat \cup {Evid!NoRow}] /\ blob[b0] \in Nat /\ blob[b0] >= 1
    BY <1>0, <1>1, <1>3 DEF Evid!TypeOK, Evid!NoRow
  <2>5. /\ blob' \in [Blobs -> Nat \cup {Evid!NoRow}] /\ blob'[b0] = blob[b0] - 1
        /\ \A b \in Blobs : b # b0 => blob'[b] = blob[b]
    BY <1>1, <2>1, <2>4
  <2>6. /\ req' \in [Requests -> Evid!CallStates] /\ begun' = begun
        /\ \A d \in Requests : d # c => req'[d] = req[d]
        /\ req'[c] = Evid!Idle \/ (/\ req'[c].op = req[c].op /\ req'[c].sha = b0 /\ req'[c].row = r0
                               /\ req'[c].pc = "remove" /\ blob[b0] = 1)
    <3>1. "remove" \in Evid!Pcs
      BY DEF Evid!Pcs
    <3> QED
      BY <1>0, <2>1, <3>1, GotoFacts, ReturnFacts
  <2> HIDE DEF b0, r0
  <2>7. b0 = req[c].sha /\ r0 = req[c].row /\ b0 \in Blobs /\ r0 \in Evid!RowIds /\ r0.sha = b0 /\ r0 \notin links /\ r0.id <= ids
    BY <1>1 DEF b0, r0
  <2>8. Evid!Idle.pc = "idle" /\ Evid!Idle.sha = "none" /\ "none" \notin Blobs
    BY <1>0, IdleFacts DEF EvidenceConstants
  <2>9. Evid!TypeOK'
    BY <1>0, <2>2, <2>3, <2>5, <2>6, <2>7 DEF Evid!TypeOK
  <2>10. ShapeOf(c)'
    <3>1. CASE req'[c] = Evid!Idle
      BY <3>1 DEF ShapeOf
    <3>2. CASE req'[c] # Evid!Idle
      BY <1>0, <1>1, <2>6, <2>7, <3>2 DEF ShapeOf, Deleting
    <3> QED
      BY <3>1, <3>2
  <2>11. \A d \in Requests : req'[d].pc = "decrement" => d # c /\ req'[d] = req[d]
    BY <2>6, <2>8
  <2>12. FiniteClaims' /\ \A b : Claims(b)' \subseteq Claims(b)
    BY <1>0, <2>2, <2>11, Shrink
  <2>13. IdsFresh'
    BY <1>0, <2>2, <2>7, <2>11, FreshKeep
  <2>14. Leftover'
    <3>1. links' \cap released' \subseteq links \cap released
      BY <1>0, <2>2, <2>7
    <3>2. \A d \in Requests : req[d].pc = "droprows" => req'[d] = req[d]
      BY <1>0, <2>6
    <3> QED
      BY <1>0, <3>1, <3>2, LeftoverKeep
  <2>15. b0 \notin twice' => r0 \in Claims(b0) /\ \A b : Claims(b)' \subseteq Claims(b) \ {r0}
    <3>1. b0 \notin twice' => r0 \in Claims(b0)
      BY <1>0, <2>3, <2>7 DEF Claims, Unlinked
    <3>2. \A b : r0 \notin Claims(b)'
      BY <2>2 DEF Claims
    <3> QED
      BY <2>12, <3>1, <3>2
  <2>16. ASSUME NEW b \in Blobs \ (contested \cup twice'), Covered(b) PROVE Covered(b)'
    <3>1. CASE b # b0
      <4>1. \A d \in Requests : req'[d].sha = b => req'[d] = req[d]
        BY <2>6, <2>7, <2>8, <3>1
      <4> QED
        BY <1>0, <2>5, <2>12, <2>16, <3>1, <4>1, SoundElsewhere
    <3>2. CASE b = b0
      <4>1. r0 \in Claims(b) /\ Claims(b)' \subseteq Claims(b) \ {r0}
        BY <2>15, <2>16, <3>2
      <4>2. b \in file /\ blob[b] >= Cardinality(Claims(b))
        BY <2>16, <4>1 DEF Covered
      <4>3. IsFiniteSet(Claims(b)) /\ Cardinality(Claims(b)) \in Nat
        BY <1>0, FS_CardinalityType DEF FiniteClaims
      <4>4. IsFiniteSet(Claims(b) \ {r0}) /\ Cardinality(Claims(b) \ {r0}) = Cardinality(Claims(b)) - 1
        BY <4>1, <4>3, FS_RemoveElement
      <4>5. IsFiniteSet(Claims(b)') /\ Cardinality(Claims(b)') <= Cardinality(Claims(b) \ {r0}) /\ Cardinality(Claims(b)') \in Nat
        BY <4>1, <4>4, FS_Subset, FS_CardinalityType
      <4>6. blob'[b] >= Cardinality(Claims(b)')
        BY <2>4, <2>5, <3>2, <4>2, <4>3, <4>4, <4>5
      <4>7. blob[b] = 1 => Claims(b)' = {}
        <5> SUFFICES ASSUME blob[b] = 1 PROVE Claims(b)' = {}
          OBVIOUS
        <5>1. Cardinality(Claims(b)') = 0
          BY <4>2, <4>3, <4>4, <4>5
        <5> QED
          BY <4>5, <5>1, FS_EmptySet
      <4>8. \A d \in Requests : req'[d].sha = b => req[d].op # "upload"
        BY <1>0, <1>1, <2>6, <2>7, <2>8, <2>16, <3>2 DEF Excl
      <4>9. ASSUME NEW d \in Requests, req'[d].sha = b
            PROVE  /\ req'[d].pc \notin {"increment", "create", "insert", "cleanup", "rename"}
                   /\ req'[d].pc \in {"remove", "forget"} => Claims(b)' = {}
        <5>1. CASE d = c
          BY <2>6, <2>7, <2>8, <3>2, <4>7, <4>9, <5>1
        <5>2. CASE d # c
          <6>1. req'[d] = req[d] /\ req[d].op # "upload"
            BY <2>6, <4>8, <4>9, <5>2
          <6>2. req[d].pc \notin {"increment", "create", "insert", "cleanup", "rename"}
            BY <1>0, <6>1, ShapeFacts
          <6>3. req[d].pc \in {"remove", "forget"} => Claims(b) = {}
            BY <2>16, <4>9, <6>1 DEF Covered
          <6> QED
            BY <2>12, <6>1, <6>2, <6>3
        <5> QED
          BY <5>1, <5>2
      <4> QED
        BY <1>0, <4>2, <4>6, <4>9 DEF Covered
    <3> QED
      BY <3>1, <3>2
  <2>17. ASSUME faults = 0, NEW b \in Blobs \ (contested \cup twice' \cup purged), Covered(b), Quiet(b) PROVE Quiet(b)'
    <3>1. \A d \in Requests : d # c /\ req[d].pc = "decrement" => req[d].row # r0
      BY <1>0, <2>7 DEF IdsFresh
    <3>2. \A d \in Requests : req'[d].sha = b /\ req'[d].pc = "decrement" => req'[d].row \notin released'
      BY <2>2, <2>11, <2>17, <3>1 DEF Quiet
    <3>3. CASE b # b0
      <4>1. \A d \in Requests : (req'[d].sha = b => req'[d] = req[d]) /\ (req[d].sha = b => req'[d] = req[d])
        BY <2>6, <2>7, <2>8, <3>3
      <4>2. \A d \in Requests : req[d].sha = b /\ req[d].pc = "decrement" /\ req[d].row \notin released => req[d].row \notin released'
        BY <3>2, <4>1
      <4>3. blob'[b] = blob[b]
        BY <2>5, <3>3
      <4> QED
        BY <1>0, <2>17, <4>1, <4>2, <4>3, QuietElsewhere
    <3>4. CASE b = b0
      <4>1. r0 \in Claims(b)
        BY <2>15, <2>17, <3>4
      <4>2. blob[b] # Evid!NoRow /\ blob'[b] # Evid!NoRow
        BY <2>4, <2>5, <3>4 DEF Evid!NoRow
      <4>3. \A d \in Requests : req[d].sha = b => req[d].pc \notin {"remove", "forget"}
        BY <2>17, <4>1 DEF Covered
      <4>4. \A d \in Requests : req'[d].sha = b => d = c \/ req'[d] = req[d]
        BY <2>6
      <4>5. \A d \in Requests : req'[d].sha = b /\ req'[d].pc \in {"remove", "forget"} => d = c
        BY <4>3, <4>4
      <4>6. \A d \in Requests : req'[d].sha = b /\ req'[d].pc \in {"cleanup", "rename", "insert", "forget"}
                              => req[d].sha = b /\ req'[d].pc = req[d].pc
        BY <2>6, <2>7, <2>8, <4>4
      <4>7. \A d \in Requests : req[d].sha = b /\ req[d].pc \in {"insert", "forget"}
                              => req'[d].sha = b /\ req'[d].pc = req[d].pc
        BY <1>0, <2>6
      <4> QED
        BY <1>0, <2>17, <3>2, <4>2, <4>5, <4>6, <4>7, QuietFrame
    <3> QED
      BY <3>3, <3>4
  <2>18. ids <= ids' /\ \A q \in links' : q \in links \/ q.id > ids
    BY <1>0, EvidenceFacts
  <2> QED
    BY <1>0, <2>2, <2>3, <2>6, <2>7, <2>9, <2>10, <2>12, <2>13, <2>14, <2>16, <2>17, <2>18, StepInv
<1> QED
  BY <1>2, <1>3

\* A delete has no upload beside it on a content nobody contests.
LEMMA NoUploadBeside ==
    ASSUME EvidenceConstants, Evid!TypeOK, Shape, Excl, NEW c \in Requests, NEW d \in Requests,
           req[c].op = "delete", req[d].sha = req[c].sha, req[c].sha \in Blobs \ contested
    PROVE  req[d].pc \notin {"rename", "increment", "insert", "cleanup", "create"}
<1>1. req[d].op # "upload"
  BY DEF Excl
<1> QED
  BY <1>1, ShapeFacts

LEMMA RemoveStep ==
    ASSUME EvidenceInv, NEW c \in Requests, Evid!RemoveBlobFile(c)
    PROVE  EvidenceInv'
<1>0. /\ EvidenceConstants /\ Evid!TypeOK /\ Shape /\ IdsFresh /\ FiniteClaims /\ Excl /\ Leftover
      /\ req[c].pc = "remove" /\ UNCHANGED <<blob, links, engs, ids, faults>>
      /\ UNCHANGED <<released, twice, contested, purged>>
      /\ file' = file \ {req[c].sha} /\ Evid!Goto(c, "forget") /\ "forget" \in Evid!Pcs
  BY DEF EvidenceInv, Evid!RemoveBlobFile, Evid!At, Evid!dbs, Evid!hist, Evid!Pcs
<1>1. /\ req[c].op = "delete" /\ req[c].sha \in Blobs
      /\ req[c].row \in Evid!RowIds /\ req[c].row.sha = req[c].sha /\ req[c].row.id <= ids /\ req[c].row \notin links
  BY <1>0, ShapeFacts DEF Deleting
<1>2. /\ req' \in [Requests -> Evid!CallStates] /\ begun' = begun
      /\ req'[c].pc = "forget" /\ req'[c].op = req[c].op /\ req'[c].sha = req[c].sha
      /\ req'[c].row = req[c].row
      /\ \A d \in Requests : d # c => req'[d] = req[d]
  BY <1>0, GotoFacts
<1>3. Evid!TypeOK'
  BY <1>0, <1>2 DEF Evid!TypeOK
<1>4. ShapeOf(c)'
  BY <1>0, <1>1, <1>2 DEF ShapeOf, Deleting
<1>5. FiniteClaims' /\ \A b : Claims(b)' \subseteq Claims(b)
  BY <1>0, <1>2, Shrink
<1>6. IdsFresh' /\ Leftover'
  BY <1>0, <1>2, FreshKeep, LeftoverKeep
<1>7. ASSUME NEW b \in Blobs \ (contested \cup twice), Covered(b) PROVE Covered(b)'
  <2>1. CASE b # req[c].sha
    BY <1>0, <1>2, <1>5, <1>7, <2>1, SoundElsewhere
  <2>2. CASE b = req[c].sha
    <3>1. Claims(b)' = {}
      BY <1>0, <1>5, <1>7, <2>2 DEF Covered
    <3>2. \A d \in Requests : req'[d].sha = b => req'[d].pc \notin {"rename", "increment", "insert", "cleanup", "create"}
      BY <1>0, <1>1, <1>2, <1>7, <2>2, NoUploadBeside
    <3> QED
      BY <3>1, <3>2 DEF Covered
  <2> QED
    BY <2>1, <2>2
<1>8. ASSUME NEW b \in Blobs \ (contested \cup twice \cup purged), Quiet(b) PROVE Quiet(b)'
  <2>1. CASE b # req[c].sha
    BY <1>0, <1>2, <1>8, <2>1, QuietElsewhere
  <2>2. CASE b = req[c].sha
    <3>1. \A d \in Requests : req'[d].sha = b => req'[d].pc \notin {"rename", "increment", "insert", "cleanup", "create"}
      BY <1>0, <1>1, <1>2, <1>8, <2>2, NoUploadBeside
    <3>2. b \notin file' /\ blob'[b] # Evid!NoRow
      BY <1>0, <1>8, <2>2 DEF Quiet
    <3>3. \A d \in Requests : req'[d].sha = b => d = c \/ req'[d] = req[d]
      BY <1>2
    <3>4. \A d \in Requests : req'[d].sha = b /\ req'[d].pc = "decrement" => req'[d].row \notin released'
      BY <1>0, <1>2, <1>8, <3>3 DEF Quiet
    <3>5. \A d1, d2 \in Requests :
              req'[d1].sha = b /\ req'[d2].sha = b /\ {req'[d1].pc, req'[d2].pc} \subseteq {"remove", "forget"} => d1 = d2
      BY <1>0, <1>2, <1>8, <2>2, <3>3 DEF Quiet
    <3>6. ~(\A d \in Requests : req'[d].sha = b => req'[d].pc \notin {"insert", "forget"})
      BY <1>2, <2>2
    <3> QED
      BY <3>1, <3>2, <3>4, <3>5, <3>6 DEF Quiet
  <2> QED
    BY <2>1, <2>2
<1>9. ids <= ids' /\ \A q \in links' : q \in links \/ q.id > ids
  BY <1>0, EvidenceFacts
<1> QED
  BY <1>0, <1>2, <1>3, <1>4, <1>5, <1>6, <1>7, <1>8, <1>9, StepInv

LEMMA ForgetStep ==
    ASSUME EvidenceInv, NEW c \in Requests, Evid!DeleteBlob(c)
    PROVE  EvidenceInv'
<1>0. /\ EvidenceConstants /\ Evid!TypeOK /\ Shape /\ IdsFresh /\ FiniteClaims /\ Excl /\ PurgeAlone /\ Leftover
      /\ req[c].pc = "forget" /\ UNCHANGED <<file, links, engs, ids, faults>>
      /\ UNCHANGED <<released, twice, contested, purged>>
      /\ blob' = (IF Evid!Refs(req[c].sha) = {} THEN [blob EXCEPT ![req[c].sha] = Evid!NoRow] ELSE blob) /\ Evid!Return(c)
  BY DEF EvidenceInv, Evid!DeleteBlob, Evid!At, Evid!hist
<1>1. req[c].op = "delete" /\ req[c].sha \in Blobs
  BY <1>0, ShapeFacts
<1>2. /\ req' \in [Requests -> Evid!CallStates] /\ begun' = begun /\ req'[c] = Evid!Idle
      /\ \A d \in Requests : d # c => req'[d] = req[d]
  BY <1>0, ReturnFacts
<1>3. Evid!Idle.pc = "idle" /\ Evid!Idle.sha = "none" /\ "none" \notin Blobs
  BY <1>0, IdleFacts DEF EvidenceConstants
<1>4. /\ blob' \in [Blobs -> Nat \cup {Evid!NoRow}] /\ \A b \in Blobs : b # req[c].sha => blob'[b] = blob[b]
      /\ Evid!Refs(req[c].sha) = {} => blob'[req[c].sha] = Evid!NoRow
  BY <1>0, <1>1 DEF Evid!TypeOK
<1>5. Evid!TypeOK'
  BY <1>0, <1>2, <1>4 DEF Evid!TypeOK
<1>6. FiniteClaims' /\ \A b : Claims(b)' \subseteq Claims(b)
  BY <1>0, <1>2, <1>3, Shrink
<1>7. IdsFresh' /\ Leftover'
  BY <1>0, <1>2, <1>3, FreshKeep, LeftoverKeep
<1>8. ASSUME NEW b \in Blobs \ (contested \cup twice), Covered(b) PROVE Covered(b)'
  <2>1. CASE b # req[c].sha
    <3>1. \A d \in Requests : req'[d].sha = b => req'[d] = req[d]
      BY <1>2, <1>3
    <3> QED
      BY <1>0, <1>4, <1>6, <1>8, <2>1, <3>1, SoundElsewhere
  <2>2. CASE b = req[c].sha
    <3>1. Claims(b)' = {}
      BY <1>0, <1>6, <1>8, <2>2 DEF Covered
    <3>2. \A d \in Requests : req'[d].sha = b => req'[d].pc \notin {"rename", "increment", "insert", "cleanup", "create"}
      BY <1>0, <1>1, <1>2, <1>3, <1>8, <2>2, NoUploadBeside
    <3> QED
      BY <3>1, <3>2 DEF Covered
  <2> QED
    BY <2>1, <2>2
<1>9. ASSUME faults = 0, NEW b \in Blobs \ (contested \cup twice \cup purged), Covered(b), Quiet(b) PROVE Quiet(b)'
  <2>1. CASE b # req[c].sha
    <3>1. \A d \in Requests : (req'[d].sha = b => req'[d] = req[d]) /\ (req[d].sha = b => req'[d] = req[d])
      BY <1>2, <1>3, <2>1
    <3> QED
      BY <1>0, <1>4, <1>9, <2>1, <3>1, QuietElsewhere
  <2>2. CASE b = req[c].sha
    <3>1. \A d \in Requests : req[d].sha = b => req[d].pc \notin {"rename", "increment", "insert", "cleanup", "create"}
      BY <1>0, <1>1, <1>9, <2>2, NoUploadBeside
    <3>2. b \notin file' /\ Claims(b) = {}
      BY <1>0, <1>9, <2>2 DEF Quiet, Covered
    <3>3. links \cap released = {}
      BY <1>0, <1>9, <2>2, NoLeftover
    <3>4. Evid!Refs(b) = {}
      BY <3>2, <3>3 DEF Evid!Refs, Claims
    <3>5. blob'[b] = Evid!NoRow
      BY <1>4, <2>2, <3>4
    <3>6. \A d \in Requests : req'[d].sha = b => d # c /\ req'[d] = req[d]
      BY <1>2, <1>3
    <3>7. \A d \in Requests : req'[d].sha = b => req'[d].pc \notin {"remove", "forget"}
      BY <1>0, <1>9, <2>2, <3>6 DEF Quiet
    <3>8. \A d \in Requests : req'[d].sha = b /\ req'[d].pc = "decrement" => req'[d].row \notin released'
      BY <1>0, <1>9, <3>6 DEF Quiet
    <3>9. \A d \in Requests : req'[d].sha = b => req'[d].pc \notin {"rename", "increment", "insert", "cleanup", "create"}
      BY <3>1, <3>6
    <3> QED
      BY <3>2, <3>5, <3>7, <3>8, <3>9 DEF Quiet, Evid!Storable
  <2> QED
    BY <2>1, <2>2
<1>10. ids <= ids' /\ \A q \in links' : q \in links \/ q.id > ids
  BY <1>0, EvidenceFacts
<1>11. ShapeOf(c)'
  BY <1>2 DEF ShapeOf
<1> QED
  BY <1>0, <1>2, <1>5, <1>6, <1>7, <1>8, <1>9, <1>10, <1>11, StepInv

-----------------------------------------------------------------------------
(* Engagements.Delete *)

LEMMA PurgeStep ==
    ASSUME EvidenceInv, NEW c \in Requests, NEW e \in Owners, Evid!DeleteEngagement(c, e)
    PROVE  EvidenceInv'
<1> DEFINE k == [Evid!Idle EXCEPT !.op = "purge", !.pc = "release", !.eng = e]
<1>0. /\ EvidenceConstants /\ Evid!TypeOK /\ Shape /\ IdsFresh /\ FiniteClaims /\ Excl /\ Counted /\ PurgeAlone /\ Leftover /\ Paired
      /\ EvidenceConstants' /\ UNCHANGED <<file, blob, links, engs, ids, faults, released, twice, contested>>
      /\ purged' = purged \cup ({req[d].sha : d \in Requests} \ {"none"})
      /\ Evid!Begin(c, k)
  BY DEF EvidenceInv, Evid!dbs, Evid!DeleteEngagement, EvidenceConstants
<1>1. k \in Evid!CallStates /\ k.op = "purge" /\ k.sha = "none" /\ k.pc = "release"
  BY DEF Evid!Idle, Evid!CallStates, Evid!Pcs
<1> HIDE DEF k
<1>2. /\ req' \in [Requests -> Evid!CallStates] /\ begun' \in 0..MaxCall
      /\ req[c].pc = "idle" /\ req'[c] = k
      /\ \A d \in Requests : d # c => req'[d] = req[d]
  BY <1>0, <1>1, BeginFacts
<1>3. req[c] = Evid!Idle /\ Evid!Idle.sha = "none" /\ Evid!Idle.op = "none" /\ "none" \notin Blobs
  BY <1>0, <1>2, ShapeFacts, IdleFacts DEF EvidenceConstants
<1>4. purged \subseteq purged' /\ purged' \subseteq Blobs
  <2>1. \A d \in Requests : req[d].sha \in Blobs \cup {"none"}
    BY <1>0, EvidenceFacts DEF Evid!CallStates
  <2> QED
    BY <1>0, <2>1 DEF Evid!TypeOK
<1>5. Evid!TypeOK'
  BY <1>0, <1>2, <1>4 DEF Evid!TypeOK
<1>6. FiniteClaims' /\ \A b : Claims(b)' \subseteq Claims(b)
  BY <1>0, <1>1, <1>2, Shrink
<1>7. IdsFresh' /\ Leftover'
  BY <1>0, <1>1, <1>2, FreshKeep, LeftoverKeep
<1>8. Shape'
  <2> SUFFICES ASSUME NEW d \in Requests PROVE ShapeOf(d)'
    BY DEF Shape
  <2>1. CASE d = c
    BY <1>1, <1>2, <2>1 DEF ShapeOf, Purging
  <2>2. CASE d # c
    <3>1. ids' \in Nat /\ ids <= ids' /\ \A r \in links' : r \in links \/ r.id > ids
      BY <1>0, EvidenceFacts
    <3> QED
      BY <1>0, <1>2, <2>2, <3>1, ShapeFrame
  <2> QED
    BY <2>1, <2>2
<1>9. \A b \in Blobs, d \in Requests : (req'[d].sha = b => req'[d] = req[d]) /\ (req[d].sha = b => req'[d] = req[d])
  BY <1>1, <1>2, <1>3
<1>10. Excl'
  BY <1>0, <1>9 DEF Excl
<1>11. PurgeAlone'
  BY <1>0, <1>3, <1>9 DEF PurgeAlone
<1>12. Counted'
  <2> SUFFICES ASSUME NEW b \in Blobs \ (contested \cup twice) PROVE Covered(b)'
    BY <1>0 DEF Counted
  <2>1. Covered(b)
    BY <1>0 DEF Counted
  <2> QED
    BY <1>0, <1>6, <1>9, <2>1, SoundElsewhere
<1>13. Paired'
  <2> SUFFICES ASSUME faults = 0, NEW b \in Blobs \ (contested \cup twice \cup purged') PROVE Quiet(b)'
    BY <1>0 DEF Paired
  <2>1. Quiet(b)
    BY <1>0, <1>4 DEF Paired
  <2> QED
    BY <1>0, <1>9, <2>1, QuietElsewhere
<1> QED
  BY <1>0, <1>5, <1>6, <1>7, <1>8, <1>10, <1>11, <1>12, <1>13 DEF EvidenceInv

LEMMA ReleaseStep ==
    ASSUME EvidenceInv, NEW c \in Requests, Evid!Release(c)
    PROVE  EvidenceInv'
<1>0. /\ EvidenceConstants /\ Evid!TypeOK /\ Shape /\ IdsFresh /\ FiniteClaims /\ Excl /\ PurgeAlone /\ Leftover
      /\ req[c].pc = "release" /\ UNCHANGED <<file, links, engs, ids, faults>> /\ faults \in 0..MaxFault
  BY DEF EvidenceInv, Evid!Release, Evid!At, Evid!TypeOK
<1>1. req[c].op = "purge" /\ req[c].sha = "none" /\ "none" \notin Blobs
  BY <1>0, ShapeFacts DEF EvidenceConstants
<1>2. CASE Evid!Return(c) /\ UNCHANGED <<blob, Evid!hist>>
  BY <1>0, <1>2, CallReturns
<1>3. CASE ~(Evid!Return(c) /\ UNCHANGED <<blob, Evid!hist>>)
  <2> DEFINE e == req[c].eng
  <2>1. /\ \A r \in Evid!Owned(e) : blob[r.sha] >= Evid!Held(e, r.sha)
        /\ blob' = [b \in Blobs |-> IF Evid!Held(e, b) > 0 THEN blob[b] - Evid!Held(e, b) ELSE blob[b]]
        /\ Evid!GiveBack(Evid!Owned(e)) /\ Evid!Goto(c, "droprows") /\ "droprows" \in Evid!Pcs
    BY <1>3 DEF Evid!Release, Evid!Pcs
  <2>2. /\ released' = released \cup Evid!Owned(e) /\ contested' = contested /\ purged' = purged
        /\ twice' = twice \cup {r.sha : r \in Evid!Owned(e) \cap released}
    BY <2>1 DEF Evid!GiveBack
  <2>3. /\ req' \in [Requests -> Evid!CallStates] /\ begun' = begun
        /\ req'[c].pc = "droprows" /\ req'[c].op = req[c].op /\ req'[c].sha = req[c].sha
        /\ req'[c].eng = e
        /\ \A d \in Requests : d # c => req'[d] = req[d]
    BY <1>0, <2>1, GotoFacts
  <2> HIDE DEF e
  <2>4. Evid!Owned(e) \subseteq links /\ links \subseteq Evid!RowIds /\ \A r \in Evid!Owned(e) : r.eng = e /\ r.sha \in Blobs
    BY <1>0, EvidenceFacts DEF Evid!Owned
  <2>5. ASSUME NEW b \in Blobs
        PROVE  /\ IsFiniteSet(Evid!Owned(e) \cap Evid!Refs(b)) /\ Evid!Held(e, b) \in Nat
               /\ Evid!Held(e, b) > 0 => blob[b] >= Evid!Held(e, b)
               /\ blob'[b] = blob[b] - Evid!Held(e, b) /\ blob'[b] \in Nat \cup {Evid!NoRow}
               /\ blob[b] = Evid!NoRow <=> blob'[b] = Evid!NoRow
    <3>1. IsFiniteSet(Evid!Owned(e) \cap Evid!Refs(b))
      BY <1>0, <2>4, FS_Subset DEF FiniteClaims
    <3>2. Evid!Held(e, b) \in Nat
      BY <3>1, HeldCount, FS_CardinalityType
    <3>3. Evid!Held(e, b) > 0 => blob[b] >= Evid!Held(e, b)
      <4> SUFFICES ASSUME Evid!Held(e, b) > 0 PROVE blob[b] >= Evid!Held(e, b)
        OBVIOUS
      <4>1. Evid!Owned(e) \cap Evid!Refs(b) # {}
        BY <3>1, HeldCount, FS_EmptySet
      <4>2. PICK r \in Evid!Owned(e) : r.sha = b
        BY <4>1 DEF Evid!Refs
      <4> QED
        BY <2>1, <4>2
    <3>4. blob[b] \in Nat \cup {Evid!NoRow} /\ blob'[b] = IF Evid!Held(e, b) > 0 THEN blob[b] - Evid!Held(e, b) ELSE blob[b]
      BY <1>0, <2>1 DEF Evid!TypeOK
    <3> QED
      BY <3>1, <3>2, <3>3, <3>4 DEF Evid!NoRow
  <2>6. twice \subseteq twice' /\ twice' \subseteq Blobs /\ released' \subseteq Evid!RowIds
    BY <1>0, <2>2, <2>4 DEF Evid!TypeOK
  <2>7. Evid!TypeOK'
    <3>1. blob' \in [Blobs -> Nat \cup {Evid!NoRow}]
      BY <2>1, <2>5
    <3> QED
      BY <1>0, <2>2, <2>3, <2>6, <3>1 DEF Evid!TypeOK
  <2>8. ShapeOf(c)'
    BY <1>1, <2>3 DEF ShapeOf, Purging
  <2>9. FiniteClaims' /\ \A b : Claims(b)' \subseteq Claims(b)
    BY <1>0, <2>2, <2>3, Shrink
  <2>10. IdsFresh'
    <3>1. \A r \in links' \cup released' : r \in links \cup released
      BY <1>0, <2>2, <2>4
    <3> QED
      BY <1>0, <2>3, <3>1, FreshKeep
  <2>11. Leftover'
    <3> SUFFICES ASSUME faults = 0, NEW r \in links, r \in released'
                 PROVE  \E d \in Requests : req'[d].pc = "droprows" /\ req'[d].eng = r.eng
      BY <1>0 DEF Leftover
    <3>1. CASE r \in Evid!Owned(e)
      BY <2>3, <2>4, <3>1
    <3>2. CASE r \notin Evid!Owned(e)
      <4>1. PICK d \in Requests : req[d].pc = "droprows" /\ req[d].eng = r.eng
        BY <1>0, <2>2, <3>2 DEF Leftover
      <4> QED
        BY <1>0, <2>3, <4>1
    <3> QED
      BY <3>1, <3>2
  <2>12. \A b \in Blobs, d \in Requests : req'[d].sha = b => req'[d] = req[d]
    BY <1>1, <2>3
  <2>13. ASSUME NEW b \in Blobs \ (contested \cup twice'), Covered(b) PROVE Covered(b)'
    <3> DEFINE H == Evid!Owned(e) \cap Evid!Refs(b)
    <3>1. H \subseteq Claims(b) /\ Claims(b)' \subseteq Claims(b) \ H
      <4>1. \A r \in H : r \notin released
        BY <2>2, <2>13 DEF Evid!Refs
      <4>2. H \subseteq Claims(b)
        BY <4>1 DEF Claims, Evid!Refs
      <4>3. \A r \in Claims(b)' : r \notin H
        BY <2>2 DEF Claims
      <4> QED
        BY <2>9, <4>2, <4>3
    <3>2. IsFiniteSet(H) /\ Evid!Held(e, b) = Cardinality(H) /\ Evid!Held(e, b) \in Nat /\ blob'[b] = blob[b] - Evid!Held(e, b)
      BY <2>5, HeldCount
    <3> HIDE DEF H
    <3>3. IsFiniteSet(Claims(b)) /\ blob[b] \in Int
      BY <1>0, EvidenceFacts DEF FiniteClaims
    <3>4. /\ Cardinality(Claims(b)) \in Nat /\ IsFiniteSet(Claims(b) \ H)
          /\ Cardinality(Claims(b) \ H) = Cardinality(Claims(b)) - Cardinality(H)
      <4>1. Claims(b) \cap H = H
        BY <3>1
      <4> QED
        BY <3>3, <4>1, FS_Difference, FS_CardinalityType
    <3>5. Cardinality(Claims(b)') <= Cardinality(Claims(b) \ H) /\ Cardinality(Claims(b)') \in Nat
      BY <3>1, <3>4, FS_Subset, FS_CardinalityType
    <3>6. Claims(b)' # {} => b \in file /\ blob[b] >= Cardinality(Claims(b))
      BY <2>9, <2>13 DEF Covered
    <3>7. Claims(b)' # {} => b \in file' /\ blob'[b] >= Cardinality(Claims(b)')
      BY <1>0, <3>2, <3>3, <3>4, <3>5, <3>6
    <3>8. ASSUME NEW d \in Requests, req'[d].sha = b
          PROVE  /\ req'[d].pc \in {"increment", "create", "insert", "cleanup"} => b \in file'
                 /\ req'[d].pc \in {"rename", "insert", "cleanup", "remove", "forget"} => Claims(b)' = {}
                 /\ req'[d].pc = "create" => blob'[b] >= Cardinality(Claims(b)') + 1
      <4>1. req'[d] = req[d]
        BY <2>12, <3>8
      <4>2. /\ req[d].pc \in {"increment", "create", "insert", "cleanup"} => b \in file
            /\ req[d].pc \in {"rename", "insert", "cleanup", "remove", "forget"} => Claims(b) = {}
            /\ req[d].pc = "create" => blob[b] >= Cardinality(Claims(b)) + 1
        BY <2>13, <3>8, <4>1 DEF Covered
      <4>3. req[d].pc = "create" => blob'[b] >= Cardinality(Claims(b)') + 1
        BY <3>2, <3>3, <3>4, <3>5, <4>2
      <4> QED
        BY <1>0, <2>9, <4>1, <4>2, <4>3
    <3> QED
      BY <3>7, <3>8 DEF Covered
  <2>14. ASSUME NEW b \in Blobs \ (contested \cup twice' \cup purged), Quiet(b) PROVE Quiet(b)'
    <3>1. \A d \in Requests : req[d].sha # b
      BY <1>0, <1>1, <2>14 DEF PurgeAlone
    <3>2. \A d \in Requests : req'[d].sha # b
      BY <2>12, <3>1
    <3>3. blob[b] = Evid!NoRow <=> blob'[b] = Evid!NoRow
      BY <2>5
    <3> QED
      BY <1>0, <2>14, <3>1, <3>2, <3>3, QuietElsewhere
  <2>15. ids <= ids' /\ \A q \in links' : q \in links \/ q.id > ids
    BY <1>0, EvidenceFacts
  <2> QED
    BY <1>0, <2>2, <2>3, <2>6, <2>7, <2>8, <2>9, <2>10, <2>11, <2>13, <2>14, <2>15, StepInv
<1> QED
  BY <1>2, <1>3

LEMMA DropRowsStep ==
    ASSUME EvidenceInv, NEW c \in Requests, Evid!DropRows(c)
    PROVE  EvidenceInv'
<1>0. /\ EvidenceConstants /\ Evid!TypeOK /\ Shape /\ IdsFresh /\ FiniteClaims /\ Leftover
      /\ req[c].pc = "droprows" /\ UNCHANGED <<file, blob, engs, ids, faults>>
      /\ UNCHANGED <<released, twice, contested, purged>>
      /\ links' = links \ Evid!Owned(req[c].eng) /\ Evid!Goto(c, "droprest") /\ "droprest" \in Evid!Pcs
  BY DEF EvidenceInv, Evid!DropRows, Evid!At, Evid!hist, Evid!Pcs
<1>1. req[c].op = "purge" /\ req[c].sha = "none" /\ "none" \notin Blobs
  BY <1>0, ShapeFacts DEF EvidenceConstants
<1>2. /\ req' \in [Requests -> Evid!CallStates] /\ begun' = begun
      /\ req'[c].pc = "droprest" /\ req'[c].op = req[c].op /\ req'[c].sha = req[c].sha
      /\ \A d \in Requests : d # c => req'[d] = req[d]
  BY <1>0, GotoFacts
<1>3. links' \subseteq links /\ Evid!TypeOK'
  BY <1>0, <1>2 DEF Evid!TypeOK
<1>4. ShapeOf(c)'
  BY <1>1, <1>2 DEF ShapeOf, Purging
<1>5. FiniteClaims' /\ \A b : Claims(b)' \subseteq Claims(b)
  BY <1>0, <1>2, <1>3, Shrink
<1>6. IdsFresh'
  BY <1>0, <1>2, <1>3, FreshKeep
<1>7. Leftover'
  <2> SUFFICES ASSUME faults = 0, NEW r \in links', r \in released
               PROVE  \E d \in Requests : req'[d].pc = "droprows" /\ req'[d].eng = r.eng
    BY <1>0 DEF Leftover
  <2>1. PICK d \in Requests : req[d].pc = "droprows" /\ req[d].eng = r.eng
    BY <1>0, <1>3 DEF Leftover
  <2>2. d # c
    BY <1>0, <2>1 DEF Evid!Owned
  <2> QED
    BY <1>2, <2>1, <2>2
<1>8. \A b \in Blobs, d \in Requests : (req'[d].sha = b => req'[d] = req[d]) /\ (req[d].sha = b => req'[d] = req[d])
  BY <1>1, <1>2
<1>9. ASSUME NEW b \in Blobs, Covered(b) PROVE Covered(b)'
  BY <1>0, <1>5, <1>8, <1>9, SoundElsewhere
<1>10. ASSUME NEW b \in Blobs, Quiet(b) PROVE Quiet(b)'
  BY <1>0, <1>8, <1>10, QuietElsewhere
<1>11. ids <= ids' /\ \A q \in links' : q \in links \/ q.id > ids
  BY <1>0, EvidenceFacts
<1> QED
  BY <1>0, <1>2, <1>3, <1>4, <1>5, <1>6, <1>7, <1>9, <1>10, <1>11, StepInv

LEMMA DropRestStep ==
    ASSUME EvidenceInv, NEW c \in Requests, Evid!DropRest(c)
    PROVE  EvidenceInv'
<1>1. /\ req[c].pc = "droprest" /\ Evid!Return(c) /\ UNCHANGED <<file, blob, links, ids, Evid!hist>>
      /\ engs' \subseteq engs /\ faults' = faults /\ faults \in 0..MaxFault
  BY DEF EvidenceInv, Evid!DropRest, Evid!At, Evid!TypeOK
<1> QED
  BY <1>1, CallReturns

-----------------------------------------------------------------------------
(* The invariant *)

LEMMA EvidenceInitInv ==
    ASSUME EvidenceConstants, Evid!Init
    PROVE  EvidenceInv
<1>1. /\ links = Stored /\ ids = Cardinality(Stored) /\ engs = Owners /\ file = {r.sha : r \in Stored}
      /\ blob = [b \in Blobs |-> IF b \in file THEN Cardinality(Evid!Refs(b)) ELSE Evid!NoRow]
      /\ req = [c \in Requests |-> Evid!Idle] /\ begun = 0 /\ faults = 0
      /\ released = {} /\ twice = {} /\ contested = {} /\ purged = {}
  BY SameCount DEF Evid!Init
<1>2. /\ Stored \subseteq Evid!RowIds /\ IsFiniteSet(Stored) /\ {r.id : r \in Stored} = 1..Cardinality(Stored)
      /\ MaxRow \in Nat /\ MaxCall \in Nat /\ MaxFault \in Nat /\ "none" \notin Blobs
  BY DEF EvidenceConstants
<1>3. \A c \in Requests : req[c] = Evid!Idle
  BY <1>1
<1>4. Evid!Idle.pc = "idle" /\ Evid!Idle.op = "none" /\ Evid!Idle.sha = "none" /\ Evid!Idle \in Evid!CallStates
  BY IdleFacts
<1>5. Cardinality(Stored) \in Nat /\ Cardinality(Stored) <= MaxRow
  <2>1. Cardinality(Stored) \in Nat
    BY <1>2, FS_CardinalityType
  <2>2. CASE Cardinality(Stored) # 0
    <3>1. Cardinality(Stored) \in 1..Cardinality(Stored)
      BY <2>1, <2>2
    <3>2. PICK r \in Stored : r.id = Cardinality(Stored)
      BY <1>2, <3>1
    <3>3. r.id \in 1..MaxRow
      BY <1>2 DEF Evid!RowIds
    <3> QED
      BY <1>2, <2>1, <3>2, <3>3
  <2> QED
    BY <1>2, <2>1, <2>2
<1>6. \A b \in Blobs : IsFiniteSet(Evid!Refs(b)) /\ Cardinality(Evid!Refs(b)) \in Nat
  <2> SUFFICES ASSUME NEW b \in Blobs PROVE IsFiniteSet(Evid!Refs(b)) /\ Cardinality(Evid!Refs(b)) \in Nat
    OBVIOUS
  <2>1. Evid!Refs(b) \subseteq Stored
    BY <1>1 DEF Evid!Refs
  <2> QED
    BY <1>2, <2>1, FS_Subset, FS_CardinalityType
<1>7. Evid!TypeOK
  <2>1. file \subseteq Blobs
    BY <1>1, <1>2 DEF Evid!RowIds
  <2>2. blob \in [Blobs -> Nat \cup {Evid!NoRow}]
    BY <1>1, <1>6
  <2>3. req \in [Requests -> Evid!CallStates]
    BY <1>1, <1>4
  <2>4. begun \in 0..MaxCall /\ ids \in 0..MaxRow /\ faults \in 0..MaxFault
    BY <1>1, <1>2, <1>5
  <2> QED
    BY <1>1, <1>2, <2>1, <2>2, <2>3, <2>4 DEF Evid!TypeOK
<1>8. Unlinked = {} /\ \A b : Claims(b) = Evid!Refs(b)
  <2>1. Unlinked = {}
    BY <1>3, <1>4 DEF Unlinked
  <2> QED
    BY <1>1, <2>1 DEF Claims, Evid!Refs
<1>9. Shape /\ Excl /\ PurgeAlone /\ Leftover
  BY <1>1, <1>2, <1>3, <1>4 DEF Shape, ShapeOf, Excl, PurgeAlone, Leftover
<1>10. IdsFresh
  <2>1. \A r \in Stored : r.id \in 1..Cardinality(Stored)
    BY <1>2
  <2>2. \A r \in links \cup released : r.id <= ids
    BY <1>1, <1>5, <2>1
  <2> QED
    BY <1>3, <1>4, <2>2 DEF IdsFresh
<1>11. FiniteClaims
  BY <1>1, <1>2, <1>6, <1>8 DEF FiniteClaims
<1>12. \A b \in Blobs, c \in Requests : req[c].sha # b
  BY <1>2, <1>3, <1>4
<1>13. Counted
  <2> SUFFICES ASSUME NEW b \in Blobs PROVE Covered(b)
    BY DEF Counted
  <2>1. Evid!Refs(b) # {} => b \in file
    BY <1>1 DEF Evid!Refs
  <2>2. b \in file => blob[b] >= Cardinality(Evid!Refs(b))
    BY <1>1, <1>6
  <2> QED
    BY <1>8, <1>12, <2>1, <2>2 DEF Covered
<1>14. Paired
  <2> SUFFICES ASSUME NEW b \in Blobs PROVE Quiet(b)
    BY DEF Paired
  <2>1. Evid!Storable(b)
    BY <1>1, <1>6 DEF Evid!Storable, Evid!NoRow
  <2> QED
    BY <1>12, <2>1 DEF Quiet
<1> QED
  BY <1>7, <1>9, <1>10, <1>11, <1>13, <1>14 DEF EvidenceInv

LEMMA StutterStep ==
    ASSUME EvidenceInv, UNCHANGED Evid!vars
    PROVE  EvidenceInv'
<1>0. /\ UNCHANGED <<file, blob, links, engs, ids, req, begun, faults, released, twice, contested, purged>>
      /\ EvidenceConstants /\ Evid!TypeOK /\ Shape /\ IdsFresh /\ FiniteClaims /\ Excl /\ Counted /\ PurgeAlone /\ Leftover /\ Paired
      /\ EvidenceConstants'
  BY DEF Evid!vars, Evid!dbs, Evid!hist, EvidenceInv, EvidenceConstants
<1>1. Evid!TypeOK' /\ Shape' /\ Excl' /\ PurgeAlone' /\ Leftover'
  BY <1>0 DEF Evid!TypeOK, Shape, ShapeOf, Uploading, Deleting, Purging, Excl, PurgeAlone, Leftover
<1>2. \A b : Claims(b)' = Claims(b)
  BY <1>0 DEF Claims, Unlinked
<1>3. IdsFresh' /\ FiniteClaims'
  BY <1>0, <1>2 DEF IdsFresh, FiniteClaims
<1>4. Counted'
  BY <1>0, <1>2 DEF Counted, Covered
<1>5. Paired'
  BY <1>0 DEF Paired, Quiet, Evid!Storable
<1> QED
  BY <1>0, <1>1, <1>3, <1>4, <1>5 DEF EvidenceInv

LEMMA EvidenceNextInv ==
    ASSUME EvidenceInv, [Evid!Next]_Evid!vars
    PROVE  EvidenceInv'
<1>1. CASE Evid!Next
  BY <1>1, StatStep, IncrementStep, RenameStep, InsertStep, CleanupStep, CreateStep, DeleteStep, UnlinkStep,
     DecrementStep, RemoveStep, ForgetStep, PurgeStep, ReleaseStep, DropRowsStep, DropRestStep, FailStep, CrashStep
     DEF Evid!Next
<1>2. CASE UNCHANGED Evid!vars
  BY <1>2, StutterStep
<1> QED
  BY <1>1, <1>2

\* EvidenceState's assumption is the invariant's.
LEMMA EvidenceConstantsHold == EvidenceConstants
BY EvidenceAssumption DEF EvidenceConstants, RowIds, Evid!RowIds

\* The inductive invariant: a request does what its call may do, an upload has an
\* uncontested content to itself, a blob's count covers every row and every
\* unlinked row that holds a reference, and file and row part only between two
\* steps of one call.
THEOREM EvidenceInvariance == Evid!Spec => []EvidenceInv
<1>1. Evid!Init => EvidenceInv
  BY EvidenceInitInv, EvidenceConstantsHold
<1>2. EvidenceInv /\ [Evid!Next]_Evid!vars => EvidenceInv'
  BY EvidenceNextInv
<1>3. Evid!Spec => Evid!Init /\ [][Evid!Next]_Evid!vars
  BY DEF Evid!Spec
<1> QED
  BY <1>1, <1>2, <1>3, PTL

\* The blob tree, the tables and the requests keep well-formed state: no count
\* of evidence_blob goes below zero, through any failures and reruns.
THEOREM EvidenceTypeCorrect == Evid!Spec => []Evid!TypeOK
<1>1. EvidenceInv => Evid!TypeOK
  BY DEF EvidenceInv
<1> QED
  BY <1>1, EvidenceInvariance, PTL

\* Evidence whose reference nobody gave back can be opened through every failure
\* and crash, for any contents, engagements, requests and faults, unless an upload
\* of its content was contested or a reference to it was given back twice.
THEOREM EvidenceSurvives == Evid!Spec => []EvidenceOutlivesFaults
<1>1. EvidenceInv => EvidenceOutlivesFaults
  <2> SUFFICES ASSUME EvidenceInv, NEW r \in links \ released, r.sha \notin contested \cup twice PROVE r.sha \in file
    BY DEF EvidenceOutlivesFaults
  <2>1. r.sha \in Blobs
    BY EvidenceFacts DEF EvidenceInv
  <2>2. Claims(r.sha) # {} /\ Covered(r.sha)
    BY <2>1 DEF EvidenceInv, Counted, Claims
  <2> QED
    BY <2>2 DEF Covered
<1> QED
  BY <1>1, EvidenceInvariance, PTL

\* A content nobody works on has its file and its row together or neither, so the
\* next Put of it succeeds, for any number of calls, as long as nothing failed and
\* the content was neither contested, nor given back twice, nor purged meanwhile.
THEOREM QuietContentIsStorable == Evid!Spec => []QuietContentStorable
<1>1. EvidenceInv => QuietContentStorable
  <2> SUFFICES ASSUME EvidenceInv, NEW b \in Blobs \ (contested \cup twice \cup purged), faults = 0,
                      \A c \in Requests : req[c].sha # b
               PROVE  Storable(b)
    BY DEF QuietContentStorable
  <2>1. Quiet(b)
    BY DEF EvidenceInv, Paired
  <2> QED
    BY <2>1 DEF Quiet, Storable, NoRow, Evid!Storable, Evid!NoRow
<1> QED
  BY <1>1, EvidenceInvariance, PTL

\* The reference count never runs below the rows that still hold a reference, so
\* DecrementRef reports the last reference too early for nobody, in any number of
\* interleaved uploads, deletes and engagement deletes.
THEOREM CountsCoverRows == Evid!Spec => []CountCoversRows
<1>1. EvidenceInv => CountCoversRows
  <2> SUFFICES ASSUME EvidenceInv, NEW b \in Blobs \ (contested \cup twice), ~(Refs(b) \subseteq released)
               PROVE  blob[b] >= Cardinality(Refs(b) \ released)
    BY DEF CountCoversRows
  <2>1. Covered(b) /\ IsFiniteSet(Claims(b)) /\ blob[b] \in Int
    BY EvidenceFacts DEF EvidenceInv, Counted, FiniteClaims
  <2>2. Refs(b) \ released \subseteq Claims(b) /\ Claims(b) # {}
    BY DEF Refs, Claims
  <2>3. /\ Cardinality(Refs(b) \ released) <= Cardinality(Claims(b))
        /\ Cardinality(Refs(b) \ released) \in Nat /\ Cardinality(Claims(b)) \in Nat
    BY <2>1, <2>2, FS_Subset, FS_CardinalityType
  <2>4. blob[b] >= Cardinality(Claims(b))
    BY <2>1, <2>2 DEF Covered
  <2> QED
    BY <2>1, <2>3, <2>4
<1> QED
  BY <1>1, EvidenceInvariance, PTL
=============================================================================
