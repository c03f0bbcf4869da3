------------------------------ MODULE Executions ------------------------------
(***************************************************************************)
(* The executions of one engagement under concurrent service calls         *)
(* (internal/engagement/executions.go, RevealStep of steps.go, Update and  *)
(* SetStatus of service.go, over internal/store/engagement).  A call reads *)
(* rows through the read pool with no transaction around the reads,        *)
(* decides on what it read, and writes in a transaction of its own; each   *)
(* read that decides something and each write is a step.  Executions carry *)
(* a version that a patch must name; the engagement row carries none.      *)
(* The steps are there from the start, as CreateStep leaves them.          *)
(***************************************************************************)
EXTENDS Integers

CONSTANTS
    Calls,        \* concurrent requests; each serves one call after another
    Steps,        \* the steps, each with its execution
    Categories,   \* values of the blue side's detection category
    MaxVersion,   \* bound: execution versions
    NoStep        \* a call that is about the engagement

ASSUME ExecutionsAssumption ==
    NoStep \notin Steps /\ MaxVersion \in Nat \ {0} /\ "none" \notin Categories

VARIABLES
    eng,        \* engagement row: status, mode, auto (auto_reveal_on_start)
    revealed,   \* step row: revealed_at is set
    st, det, ver,  \* execution row: status, detection_category, version
    call,       \* each request: the call it serves and what that call has read
    alwaysAuto  \* history: the engagement was blind with auto reveal all along

rows == <<st, det, ver>>
vars == <<eng, revealed, rows, call, alwaysAuto>>

EngStatuses == {"draft", "active", "closed", "archived"}
Statuses == {"pending", "running", "complete", "blocked", "skipped"}
Engagements == [status : EngStatuses, mode : {"standard", "blind"}, auto : BOOLEAN]
Contents == Statuses \X (Categories \cup {"none"})

Shut(e) == e.status \in {"closed", "archived"}
BlindAuto(e) == e.mode = "blind" /\ e.auto

\* validStatusTransitionsExecution; the other statuses are terminal.
ValidExecution ==
    {<<"pending", "running">>, <<"pending", "skipped">>, <<"pending", "blocked">>,
     <<"running", "complete">>, <<"running", "blocked">>, <<"running", "skipped">>}

\* validStatusTransitions of the engagement.
ValidEngagement ==
    {<<"draft", "active">>, <<"draft", "closed">>, <<"active", "closed">>, <<"closed", "archived">>}

(* The state of a call: where it is, what it is for (the target step, the
   requested status or category), the version and content the client read, what
   the handler read of the execution and of the engagement.  "late": the
   engagement has been shut since the call began.                            *)
CallStates ==
    [pc : {"idle", "sent", "check", "reveal", "write"},
     op : {"none", "red", "blue", "reveal", "update", "status"},
     step : Steps \cup {NoStep}, want : Statuses \cup Categories \cup EngStatuses \cup {"none"},
     base : Nat, saw : Contents, seenVer : Nat, seenSt : Statuses, seen : Engagements, late : BOOLEAN]

Fresh(o, s, w, l) ==
    [pc |-> l, op |-> o, step |-> s, want |-> w,
     base |-> 0, saw |-> <<"pending", "none">>, seenVer |-> 0, seenSt |-> "pending",
     seen |-> [status |-> "draft", mode |-> "standard", auto |-> FALSE],
     late |-> o # "none" /\ Shut(eng)]

Idle == Fresh("none", NoStep, "none", "idle")

TypeOK ==
    /\ eng \in Engagements
    /\ revealed \in [Steps -> BOOLEAN]
    /\ st \in [Steps -> Statuses] /\ det \in [Steps -> Categories \cup {"none"}]
    /\ ver \in [Steps -> 1..MaxVersion]
    /\ call \in [Calls -> CallStates]
    /\ alwaysAuto \in BOOLEAN

Init ==
    /\ eng \in {e \in Engagements : e.status = "draft"}
    /\ revealed = [s \in Steps |-> FALSE]
    /\ st = [s \in Steps |-> "pending"] /\ det = [s \in Steps |-> "none"]
    /\ ver = [s \in Steps |-> 1]
    /\ call = [c \in Calls |-> Idle]
    /\ alwaysAuto = BlindAuto(eng)

Content(s) == <<st[s], det[s]>>

Begin(c, f) == call[c].pc = "idle" /\ call' = [call EXCEPT ![c] = f]
Return(c) == call' = [call EXCEPT ![c] = Idle]
At(c, o, l) == call[c].op = o /\ call[c].pc = l
Goto(c, l) == call' = [call EXCEPT ![c].pc = l]

-----------------------------------------------------------------------------
(* PatchRedExecution, PatchBlueDetection and RevealStep *)

\* The client reads the execution and sends a patch with the version it read.
Send(c, o, s, w) ==
    /\ ver[s] < MaxVersion
    /\ Begin(c, [Fresh(o, s, w, "sent") EXCEPT !.base = ver[s], !.saw = Content(s)])
    /\ UNCHANGED <<eng, revealed, rows, alwaysAuto>>

\* Executions.ByID in the handler.
ReadExecution(c) ==
    LET s == call[c].step IN
    /\ call[c].pc = "sent"
    /\ call' = [call EXCEPT ![c].pc = "check", ![c].seenVer = ver[s], ![c].seenSt = st[s]]
    /\ UNCHANGED <<eng, revealed, rows, alwaysAuto>>

\* A red patch may keep the status it finds ("none": no status in the request).
LegalMove(from, to) == to \in {"none", from} \/ <<from, to>> \in ValidExecution
Starts(from, to) == to # from /\ to \in {"running", "complete"}

\* [mutant] only archived engagements are refused.
CheckArchivedOnly(c) ==
    LET k == call[c]  s == k.step IN
    /\ k.op = "red" /\ k.pc = "check"
    /\ IF eng.status = "archived" \/ ~LegalMove(k.seenSt, k.want) THEN Return(c)
       ELSE Goto(c, IF Starts(k.seenSt, k.want) /\ BlindAuto(eng) /\ ~revealed[s]
                    THEN "reveal" ELSE "write")
    /\ UNCHANGED <<eng, revealed, rows, alwaysAuto>>

\* [mutant] auto reveal waits for complete.
CheckRevealsOnComplete(c) ==
    LET k == call[c]  s == k.step IN
    /\ k.op = "red" /\ k.pc = "check"
    /\ IF Shut(eng) \/ ~LegalMove(k.seenSt, k.want) THEN Return(c)
       ELSE Goto(c, IF k.want = "complete" /\ k.seenSt # "complete" /\ BlindAuto(eng) /\ ~revealed[s]
                    THEN "reveal" ELSE "write")
    /\ UNCHANGED <<eng, revealed, rows, alwaysAuto>>

\* The step and the engagement are read (revealed_at is only ever set, so the
\* earlier read of the step adds nothing).  A shut engagement and an illegal
\* status transition are 409s; a start in a blind engagement with auto reveal
\* reveals the step first.
CheckRed(c) ==
    LET k == call[c]  s == k.step IN
    /\ k.op = "red" /\ k.pc = "check"
    /\ IF Shut(eng) \/ ~LegalMove(k.seenSt, k.want) THEN Return(c)
       ELSE Goto(c, IF Starts(k.seenSt, k.want) /\ BlindAuto(eng) /\ ~revealed[s]
                    THEN "reveal" ELSE "write")
    /\ UNCHANGED <<eng, revealed, rows, alwaysAuto>>

\* Steps.Reveal, a transaction before the patch.
AutoReveal(c) ==
    /\ At(c, "red", "reveal")
    /\ revealed' = [revealed EXCEPT ![call[c].step] = TRUE]
    /\ Goto(c, "write")
    /\ UNCHANGED <<eng, rows, alwaysAuto>>

NewStatus(k) == IF k.want = "none" THEN st[k.step] ELSE k.want

\* [mutant] the row is updated whatever its version.
PatchRedUnversioned(c) ==
    LET k == call[c]  s == k.step IN
    /\ At(c, "red", "write") /\ ver[s] < MaxVersion
    /\ st' = [st EXCEPT ![s] = NewStatus(k)] /\ ver' = [ver EXCEPT ![s] = @ + 1]
    /\ Return(c)
    /\ UNCHANGED <<eng, revealed, det, alwaysAuto>>

\* UPDATE ... WHERE id = ? AND version = ?: no row matched is a version conflict.
PatchRed(c) ==
    LET k == call[c]  s == k.step IN
    /\ At(c, "red", "write")
    /\ IF ver[s] = k.base
       THEN st' = [st EXCEPT ![s] = NewStatus(k)] /\ ver' = [ver EXCEPT ![s] = @ + 1]
       ELSE UNCHANGED <<st, ver>>
    /\ Return(c)
    /\ UNCHANGED <<eng, revealed, det, alwaysAuto>>

\* The blue side: a shut engagement, and modifiers or times that do not fit the
\* execution read, are refused.
CheckBlue(c) ==
    /\ At(c, "blue", "check")
    /\ \/ ~Shut(eng) /\ Goto(c, "write")
       \/ Return(c)
    /\ UNCHANGED <<eng, revealed, rows, alwaysAuto>>

\* [mutant] a blue write does not count as a new version.
PatchBlueKeepsVersion(c) ==
    LET k == call[c]  s == k.step IN
    /\ At(c, "blue", "write")
    /\ det' = IF ver[s] = k.base THEN [det EXCEPT ![s] = k.want] ELSE det
    /\ Return(c)
    /\ UNCHANGED <<eng, revealed, st, ver, alwaysAuto>>

PatchBlue(c) ==
    LET k == call[c]  s == k.step IN
    /\ At(c, "blue", "write")
    /\ IF ver[s] = k.base
       THEN det' = [det EXCEPT ![s] = k.want] /\ ver' = [ver EXCEPT ![s] = @ + 1]
       ELSE UNCHANGED <<det, ver>>
    /\ Return(c)
    /\ UNCHANGED <<eng, revealed, st, alwaysAuto>>

\* RevealStep: step and engagement are read, then the step is revealed.
RevealBegin(c, s) ==
    /\ Begin(c, Fresh("reveal", s, "none", "check"))
    /\ UNCHANGED <<eng, revealed, rows, alwaysAuto>>

RevealCheck(c) ==
    /\ At(c, "reveal", "check")
    /\ IF Shut(eng) THEN Return(c) ELSE Goto(c, "write")
    /\ UNCHANGED <<eng, revealed, rows, alwaysAuto>>

Reveal(c) ==
    /\ At(c, "reveal", "write")
    /\ revealed' = [revealed EXCEPT ![call[c].step] = TRUE]
    /\ Return(c)
    /\ UNCHANGED <<eng, rows, alwaysAuto>>

PatchRedExecution(c) ==
    \/ \E s \in Steps, w \in Statuses \cup {"none"} : Send(c, "red", s, w)
    \/ CheckRed(c) \/ AutoReveal(c) \/ PatchRed(c)

PatchBlueDetection(c) ==
    \/ \E s \in Steps, d \in Categories : Send(c, "blue", s, d)
    \/ CheckBlue(c) \/ PatchBlue(c)

RevealStep(c) == (\E s \in Steps : RevealBegin(c, s)) \/ RevealCheck(c) \/ Reveal(c)

-----------------------------------------------------------------------------
(* Update and SetStatus of the engagement *)

\* Update reads the row and lays the requested fields over it (a request the
\* pin freeze refuses never gets here); the status is not among them.
UpdateBegin(c, e) ==
    /\ e.status = eng.status
    /\ Begin(c, [Fresh("update", NoStep, "none", "write") EXCEPT !.seen = e])
    /\ UNCHANGED <<eng, revealed, rows, alwaysAuto>>

\* Every column but the status is written, the ones read included.
UpdateWrite(c) ==
    /\ At(c, "update", "write")
    /\ eng' = [call[c].seen EXCEPT !.status = eng.status]
    /\ alwaysAuto' = (alwaysAuto /\ BlindAuto(eng'))
    /\ Return(c)
    /\ UNCHANGED <<revealed, rows>>

\* The transition is validated against the row read here ...
StatusBegin(c, w) ==
    /\ <<eng.status, w>> \in ValidEngagement
    /\ Begin(c, Fresh("status", NoStep, w, "write"))
    /\ UNCHANGED <<eng, revealed, rows, alwaysAuto>>

\* ... and applied to whatever the row says by then.
SetStatus(c) ==
    /\ At(c, "status", "write")
    /\ eng' = [eng EXCEPT !.status = call[c].want]
    /\ call' = [d \in Calls |-> IF d = c THEN Idle
                                ELSE [call[d] EXCEPT !.late = @ /\ Shut(eng')]]
    /\ UNCHANGED <<revealed, rows, alwaysAuto>>

Update(c) == (\E e \in Engagements : UpdateBegin(c, e)) \/ UpdateWrite(c)
ChangeStatus(c) == (\E w \in EngStatuses : StatusBegin(c, w)) \/ SetStatus(c)

Next ==
    \E c \in Calls :
        \/ ReadExecution(c) \/ PatchRedExecution(c) \/ PatchBlueDetection(c) \/ RevealStep(c)
        \/ Update(c) \/ ChangeStatus(c)

Spec == Init /\ [][Next]_vars

-----------------------------------------------------------------------------
(* Properties *)

\* An execution's status follows validStatusTransitionsExecution, although a
\* patch is validated against a row read outside the transaction that writes it:
\* the version the client sent ties the two together.
StatusMovesLegally ==
    [][\A s \in Steps : st'[s] # st[s] => <<st[s], st'[s]>> \in ValidExecution]_vars

\* A patch about to be written either conflicts or meets the very content its
\* client read: red and blue writers never overwrite each other unseen.
NoLostUpdate ==
    \A c \in Calls : call[c].op \in {"red", "blue"} /\ call[c].base = ver[call[c].step]
        => call[c].saw = Content(call[c].step)

\* A call that began when the engagement was already shut, and found it shut
\* ever since, writes nothing to the workbook.
ShutRefusesLateCalls ==
    \A c \in Calls : call[c].late /\ call[c].op \in {"red", "blue", "reveal"} =>
        call[c].pc \notin {"write", "reveal"}

\* In an engagement that was blind with auto reveal all along, a step whose
\* execution was started is revealed to blue.
StartedIsRevealed ==
    alwaysAuto => \A s \in Steps : st[s] \in {"running", "complete"} => revealed[s]

(* The inductive invariant behind the properties above. *)

\* What a patch read is never ahead of the row, and while the row is at that
\* version it still says what was read.
Tied(k) ==
    k.op \in {"red", "blue"} =>
        /\ k.step \in Steps /\ k.base <= ver[k.step] /\ k.base < MaxVersion
        /\ k.base = ver[k.step] => k.saw = Content(k.step)
        /\ k.pc # "sent" => /\ k.base <= k.seenVer /\ k.seenVer <= ver[k.step]
                            /\ k.seenVer = ver[k.step] => k.seenSt = st[k.step]

\* A call asks for what its operation can write.
Sound(k) ==
    /\ k.op = "red" => k.want \in Statuses \cup {"none"}
    /\ k.op = "blue" => k.want \in Categories
    /\ k.op = "reveal" => k.step \in Steps
    /\ k.op = "status" => k.want \in EngStatuses
    /\ k.pc = "sent" => k.op \in {"red", "blue"}
    /\ k.op = "none" => k.pc = "idle"

\* A patch past its check was legal for the status read, and in an engagement
\* blind with auto reveal all along its step is revealed by the time it is written.
Vetted(k) ==
    k.op = "red" =>
        /\ k.pc \in {"reveal", "write"} => LegalMove(k.seenSt, k.want)
        /\ k.pc = "write" /\ alwaysAuto /\ Starts(k.seenSt, k.want) => revealed[k.step]

\* A call marked late finds the engagement shut and has not passed its check.
Kept(k) ==
    k.late => /\ Shut(eng)
              /\ k.op \in {"red", "blue", "reveal"} => k.pc \notin {"write", "reveal"}

IInv ==
    /\ TypeOK
    /\ \A c \in Calls : Tied(call[c]) /\ Sound(call[c]) /\ Vetted(call[c]) /\ Kept(call[c])
    /\ alwaysAuto => BlindAuto(eng)
    /\ StartedIsRevealed

\* "draft -> active -> closed -> archived, plus draft -> closed" and "Illegal
\* transitions are 409" (service.go).  Refuted: of two calls that read draft the later
\* one may write active over closed (README, Known divergences).
LifecycleLegal ==
    [][eng'.status # eng.status => <<eng.status, eng'.status>> \in ValidEngagement]_vars

===============================================================================
