------------------------------- MODULE Workbook -------------------------------
(***************************************************************************)
(* One engagement's workbook under concurrent requests: the ATT&CK version *)
(* the engagement is pinned to, its scenarios and steps with their         *)
(* ordinals, and its members (internal/engagement/service.go, scenarios.go,*)
(* steps.go, from_template.go, import.go, members.go over                  *)
(* internal/store/engagement and internal/store/identity/memberships.go).  *)
(* A request reads through the read pool with no transaction around its    *)
(* reads, decides, and then writes in a transaction of its own; each read  *)
(* that decides something and each write is a step.  Scenarios and steps   *)
(* are never renumbered here: an ordinal names its scenario.               *)
(***************************************************************************)
EXTENDS Integers, FiniteSets

CONSTANTS
    Calls,       \* requests in flight; each serves one call after another
    Pins,        \* installed ATT&CK versions
    Users,
    Creator,     \* who created the engagement, and is its first lead
    Starts,      \* startingOrdinal of an import
    PlanSize,    \* steps of an imported plan
    MaxOrdinal,  \* bound: ordinals of scenarios and steps
    MaxCall      \* bound: requests

ASSUME WorkbookAssumption ==
    /\ Pins # {} /\ "none" \notin Pins /\ Creator \in Users
    /\ Starts \subseteq Nat \ {0} /\ {PlanSize, MaxOrdinal, MaxCall} \subseteq Nat

VARIABLES
    pin,       \* app.engagement.attack_version
    shut,      \* app.engagement.status is closed or archived
    scens,     \* app.scenario: ordinal, and (history) where its plan starts
    steps,     \* app.step: who inserted it, scenario, ordinal, attack_version
    role,      \* app.engagement_member, "none" for a user who is not a member
    call,      \* each request: the call it serves and what it has read
    begun,     \* requests so far
    pinRaced,  \* history: a write of a pin or a step overlapped another
    leadRaced  \* history: a write of a member overlapped another

rows == <<pin, shut, scens, steps, role>>
vars == <<rows, call, begun, pinRaced, leadRaced>>

Roles == {"lead", "red"}

\* over: another request has written what this one decides on since it began.
CallStates ==
    [pc : {"idle", "read", "scenRead", "scenOrd", "scenInsert", "ordinal", "insert",
           "count", "check", "write"},
     op : {"none", "step", "scenario", "import", "update", "role", "remove"},
     id : 0..MaxCall, scen : Nat, ord : Nat, left : Nat, start : Nat \ {0},
     pin : Pins, user : Users, want : Pins \cup Roles \cup {"none"}, over : BOOLEAN]

TypeOK ==
    /\ pin \in Pins /\ shut \in BOOLEAN
    /\ scens \subseteq [ord : Nat, start : Nat \ {0}]
    /\ steps \subseteq [id : 0..MaxCall, scen : Nat, ord : Nat, pin : Pins]
    /\ role \in [Users -> Roles \cup {"none"}]
    /\ call \in [Calls -> CallStates]
    /\ begun \in 0..MaxCall /\ pinRaced \in BOOLEAN /\ leadRaced \in BOOLEAN

Idle ==
    [pc |-> "idle", op |-> "none", id |-> 0, scen |-> 0, ord |-> 0, left |-> 0, start |-> 1,
     pin |-> CHOOSE p \in Pins : TRUE, user |-> Creator, want |-> "none", over |-> FALSE]

\* Service.Create: the caller is seated as lead in the engagement's transaction.
Init ==
    /\ pin \in Pins /\ shut = FALSE
    /\ scens = {} /\ steps = {}
    /\ role = [u \in Users |-> IF u = Creator THEN "lead" ELSE "none"]
    /\ call = [c \in Calls |-> Idle]
    /\ begun = 0 /\ pinRaced = FALSE /\ leadRaced = FALSE

-----------------------------------------------------------------------------
(* Requests *)

Begin(c, f) ==
    /\ call[c].pc = "idle" /\ begun < MaxCall
    /\ begun' = begun + 1
    /\ call' = [call EXCEPT ![c] = [f EXCEPT !.id = begun + 1]]
    /\ UNCHANGED <<rows, pinRaced, leadRaced>>

At(c, l) == call[c].pc = l

\* The request goes on as k; nothing is written.
Reads(c, k) ==
    /\ call' = [call EXCEPT ![c] = k]
    /\ UNCHANGED <<rows, begun, pinRaced, leadRaced>>

Goto(c, l) == Reads(c, [call[c] EXCEPT !.pc = l])
Return(c) == Reads(c, Idle)

PinOps == {"step", "import", "update"}
MemberOps == {"role", "remove"}

\* The request has written what the requests of ops decide on, and goes on as k.
Wrote(c, k, ops) ==
    call' = [d \in Calls |->
                IF d = c THEN k
                ELSE [call[d] EXCEPT !.over = @ \/ call[d].op \in ops]]

-----------------------------------------------------------------------------
(* CreateStep, CreateStepFromTemplate, CreateScenario and ImportPlan *)

BeginStep(c) ==
    \E s \in scens : Begin(c, [Idle EXCEPT !.pc = "read", !.op = "step", !.scen = s.ord])

BeginScenario(c) == Begin(c, [Idle EXCEPT !.pc = "scenRead", !.op = "scenario"])

BeginImport(c) ==
    \E n \in Starts :
        Begin(c, [Idle EXCEPT !.pc = "read", !.op = "import", !.left = PlanSize, !.start = n])

\* engagements.ByID: a shut engagement is a 409; the steps will carry the pin read here.
ReadEngagement(c) ==
    /\ At(c, "read") /\ call[c].op \in {"step", "import"}
    /\ IF shut THEN Return(c)
       ELSE Reads(c, [call[c] EXCEPT !.pin = pin,
                      !.pc = IF call[c].op = "step" THEN "ordinal" ELSE "scenRead"])

\* CreateScenario reads the engagement again, then the next ordinal.
ReadForScenario(c) == At(c, "scenRead") /\ (IF shut THEN Return(c) ELSE Goto(c, "scenOrd"))

\* MAX(ordinal) + 1, or 1: the same query for scenarios and for steps.
IsNext(n, taken) == (\A m \in taken : m < n) /\ (n = 1 \/ n - 1 \in taken)

StepOrdinals(sc) == {s.ord : s \in {t \in steps : t.scen = sc}}

NextScenarioOrdinal(c) ==
    /\ At(c, "scenOrd")
    /\ \E n \in 1..(MaxOrdinal + 1) :
          /\ IsNext(n, {s.ord : s \in scens})
          /\ Reads(c, [call[c] EXCEPT !.pc = "scenInsert", !.scen = n])

\* UNIQUE (engagement_id, ordinal): the insert of an ordinal in use fails.
InsertScenario(c) ==
    LET k == call[c] IN
    /\ At(c, "scenInsert") /\ k.scen <= MaxOrdinal
    /\ \/ /\ \A s \in scens : s.ord # k.scen
          /\ scens' = scens \cup {[ord |-> k.scen, start |-> k.start]}
          /\ call' = [call EXCEPT ![c] = IF k.op = "import"
                                         THEN [k EXCEPT !.pc = "insert", !.ord = k.start]
                                         ELSE Idle]
          /\ UNCHANGED <<pin, shut, steps, role, begun, pinRaced, leadRaced>>
       \/ Return(c)

NextStepOrdinal(c) ==
    /\ At(c, "ordinal")
    /\ \E n \in 1..(MaxOrdinal + 1) :
          /\ IsNext(n, StepOrdinals(call[c].scen))
          /\ Reads(c, [call[c] EXCEPT !.pc = "insert", !.ord = n])

\* An import goes on with its next step, one ordinal further.
AfterInsert(k) ==
    IF k.op = "import" /\ k.left > 1
    THEN [k EXCEPT !.left = @ - 1, !.ord = @ + 1]
    ELSE Idle

\* [mutant] no UNIQUE (scenario_id, ordinal).
FreeAlways(k) == TRUE

\* UNIQUE (scenario_id, ordinal).
Free(k) == k.ord \notin StepOrdinals(k.scen)

\* CreateWithExecution, one transaction per step.  A refused insert ends an
\* import where it is: the steps inserted so far stay.
CreateWithExecution(c) ==
    LET k == call[c] IN
    /\ At(c, "insert") /\ k.ord <= MaxOrdinal
    /\ \/ /\ Free(k)
          /\ steps' = steps \cup {[id |-> k.id, scen |-> k.scen, ord |-> k.ord, pin |-> k.pin]}
          /\ Wrote(c, AfterInsert(k), PinOps)
          /\ pinRaced' = (pinRaced \/ k.over)
          /\ UNCHANGED <<pin, shut, scens, role, begun, leadRaced>>
       \/ Return(c)

-----------------------------------------------------------------------------
(* Update and SetStatus *)

\* want: the attack_version asked for, "none" when the patch has none.
BeginUpdate(c) ==
    \E p \in Pins \cup {"none"} :
        Begin(c, [Idle EXCEPT !.pc = "read", !.op = "update", !.want = p])

\* The row is read whole.  A new version is asserted against the catalogue,
\* which may refuse it.
ReadForUpdate(c) ==
    /\ At(c, "read") /\ call[c].op = "update"
    /\ \/ Reads(c, [call[c] EXCEPT !.pin = pin,
                    !.pc = IF call[c].want \in {"none", pin} THEN "write" ELSE "count"])
       \/ call[c].want \notin {"none", pin} /\ Return(c)

\* [mutant] the freeze is not enforced.
CountNothing(c) ==
    /\ At(c, "count")
    /\ Reads(c, [call[c] EXCEPT !.pc = "write", !.pin = call[c].want])

\* CountSteps: "attack_version cannot be changed once steps exist".
CountSteps(c) ==
    /\ At(c, "count")
    /\ IF steps # {} THEN Return(c)
       ELSE Reads(c, [call[c] EXCEPT !.pc = "write", !.pin = call[c].want])

\* The whole row is written, the pin that was read included.
WriteEngagement(c) ==
    /\ At(c, "write") /\ call[c].op = "update"
    /\ pin' = call[c].pin
    /\ Wrote(c, Idle, PinOps)
    /\ pinRaced' = (pinRaced \/ call[c].over)
    /\ UNCHANGED <<shut, scens, steps, role, begun, leadRaced>>

\* SetStatus writes the status only.  Two that race can undo a closing, so the
\* engagement may be shut and opened again (Executions has the transitions).
SetStatus ==
    /\ shut' = ~shut
    /\ UNCHANGED <<pin, scens, steps, role, call, begun, pinRaced, leadRaced>>

-----------------------------------------------------------------------------
(* AddMember, PatchMemberRole and RemoveMember *)

\* One transaction; PRIMARY KEY (engagement_id, user_id) refuses a member.
AddMember(u, r) ==
    /\ begun < MaxCall /\ role[u] = "none"
    /\ begun' = begun + 1
    /\ role' = [role EXCEPT ![u] = r]
    /\ UNCHANGED <<pin, shut, scens, steps, call, pinRaced, leadRaced>>

BeginMember(c) ==
    \E u \in Users :
        \/ \E r \in Roles :
              Begin(c, [Idle EXCEPT !.op = "role", !.user = u, !.want = r,
                                    !.pc = IF r = "lead" THEN "write" ELSE "check"])
        \/ Begin(c, [Idle EXCEPT !.op = "remove", !.user = u, !.pc = "check"])

\* [mutant] the member being removed counts as a remaining lead.
LeadRemains(u) == \E v \in Users : role[v] = "lead"

\* checkLastLead: u is no lead, or some other member is.
NotLastLead(u) == role[u] = "lead" => \E v \in Users \ {u} : role[v] = "lead"

CheckLastLead(c) ==
    /\ At(c, "check")
    /\ IF NotLastLead(call[c].user) THEN Goto(c, "write") ELSE Return(c)

\* Memberships.SetRole and Remove: a user who is no member is a 404.
WriteMember(c) ==
    LET k == call[c] IN
    /\ At(c, "write") /\ k.op \in MemberOps
    /\ \/ /\ role[k.user] # "none"
          /\ role' = [role EXCEPT ![k.user] = IF k.op = "role" THEN k.want ELSE "none"]
          /\ Wrote(c, Idle, MemberOps)
          /\ leadRaced' = (leadRaced \/ k.over)
          /\ UNCHANGED <<pin, shut, scens, steps, begun, pinRaced>>
       \/ role[k.user] = "none" /\ Return(c)

-----------------------------------------------------------------------------
Request(c) ==
    \/ BeginStep(c) \/ BeginScenario(c) \/ BeginImport(c) \/ ReadEngagement(c)
    \/ ReadForScenario(c) \/ NextScenarioOrdinal(c) \/ InsertScenario(c)
    \/ NextStepOrdinal(c) \/ CreateWithExecution(c)
    \/ BeginUpdate(c) \/ ReadForUpdate(c) \/ CountSteps(c) \/ WriteEngagement(c)
    \/ BeginMember(c) \/ CheckLastLead(c) \/ WriteMember(c)

Next ==
    \/ \E c \in Calls : Request(c)
    \/ SetStatus
    \/ \E u \in Users, r \in Roles : AddMember(u, r)

Spec == Init /\ [][Next]_vars

-----------------------------------------------------------------------------
(* Properties *)

\* Every step carries the ATT&CK version its engagement is pinned to: the freeze
\* ("attack_version cannot be changed once steps exist") leaves a gap only for
\* requests that overlap - Update counts the steps, and CreateStep and
\* ImportPlan read the pin, before they write.
PinsDivergeOnlyByOverlap == pinRaced \/ \A s \in steps : s.pin = pin

\* "cannot remove or demote the last lead of an engagement": an engagement
\* without a lead needs two overlapping changes of its members.
LeadLostOnlyByOverlap == leadRaced \/ \E u \in Users : role[u] = "lead"

\* However creations and imports race for ordinals, no two steps of a scenario
\* share one, and the only ordinals left out lie below an import's first step.
OrdinalsDense ==
    /\ \A s, t \in steps : s.scen = t.scen /\ s.ord = t.ord => s = t
    /\ \A s \in steps, sc \in scens :
          s.scen = sc.ord => sc.start..s.ord \subseteq StepOrdinals(sc.ord)
=============================================================================
