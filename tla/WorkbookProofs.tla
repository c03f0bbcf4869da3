---------------------------- MODULE WorkbookProofs ----------------------------
(***************************************************************************)
(* Proofs about Workbook, for any number of requests, users, pins and      *)
(* plans: what the freeze of the pin, the last-lead check and the ordinals *)
(* keep when requests do not overlap, and what they keep when they do.     *)
(***************************************************************************)
EXTENDS Workbook, TLAPS

-----------------------------------------------------------------------------
(* The inductive invariant: three facts about the rows, and what each request
   under way knows of them as long as nobody has written since it began.     *)

Pinned == \A s \in steps : s.pin = pin
HasLead == \E u \in Users : role[u] = "lead"
InScenario == \A s \in steps : \E sc \in scens : sc.ord = s.scen

\* A request that adds steps knows the pin; an update writes the pin back, or a
\* new one while there is no step.
PinOK(k) ==
    ~pinRaced /\ ~k.over =>
        /\ k.op \in {"step", "import"} /\ k.pc # "read" => k.pin = pin
        /\ k.op = "update" /\ k.pc = "write" => k.pin = pin \/ steps = {}

\* A request about to take a lead's role away has seen another lead.
LeadOK(k) ==
    ~leadRaced /\ ~k.over /\ k.op \in MemberOps /\ k.pc = "write"
        /\ (k.op = "remove" \/ k.want # "lead") => NotLastLead(k.user)

\* A request about to insert a step has every ordinal between its scenario's
\* start and its own behind it.
OrdOK(k) ==
    /\ k.op = "step" \/ k.pc = "insert" => \E sc \in scens : sc.ord = k.scen
    /\ k.pc = "insert" =>
          \A sc \in scens : sc.ord = k.scen => sc.start..(k.ord - 1) \subseteq StepOrdinals(k.scen)

\* Which calls pass through which steps.
Shape(k) ==
    /\ k.pc = "ordinal" => k.op = "step"
    /\ k.pc \in {"scenRead", "scenOrd", "scenInsert"} => k.op \in {"scenario", "import"}
    /\ k.pc = "insert" => k.op \in {"step", "import"}
    /\ k.pc = "count" => k.op = "update" /\ k.want \in Pins
    /\ k.op = "update" => k.want \in Pins \cup {"none"}
    /\ k.op = "role" => k.want \in Roles
    /\ k.pc = "check" => k.op \in MemberOps

Knows(k) == PinOK(k) /\ LeadOK(k) /\ OrdOK(k) /\ Shape(k)

IInv ==
    /\ TypeOK
    /\ pinRaced \/ Pinned
    /\ leadRaced \/ HasLead
    /\ InScenario /\ OrdinalsDense
    /\ \A c \in Calls : Knows(call[c])

USE DEF Roles, PinOps, MemberOps

-----------------------------------------------------------------------------
(* Requests *)

LEMMA IdleType == Idle \in CallStates /\ Idle.op = "none" /\ Idle.pc = "idle" /\ ~Idle.over
BY WorkbookAssumption DEF Idle, CallStates

LEMMA IdleKnows == Knows(Idle)
BY IdleType DEF Knows, Shape, PinOK, LeadOK, OrdOK

\* A step that writes no row needs the new state of its request only.
LEMMA ReadsIInv ==
    ASSUME IInv, NEW c \in Calls, NEW k \in CallStates, Reads(c, k), Knows(k)
    PROVE  IInv'
<1>1. /\ UNCHANGED <<pin, shut, scens, steps, role, begun, pinRaced, leadRaced>>
      /\ call' = [call EXCEPT ![c] = k]
  BY DEF Reads, rows
<1>2. TypeOK'
  BY <1>1 DEF IInv, TypeOK
<1>3. \A d \in Calls : Knows(call'[d])
  BY <1>1 DEF IInv, TypeOK
<1>4. \A d \in Calls : Knows(call[d])'
  BY <1>1, <1>3 DEF Knows, Shape, PinOK, LeadOK, OrdOK, NotLastLead, StepOrdinals
<1> QED
  BY <1>1, <1>2, <1>4 DEF IInv, Pinned, HasLead, InScenario, OrdinalsDense, StepOrdinals

LEMMA BeginIInv ==
    ASSUME IInv, NEW c \in Calls, NEW k \in CallStates, Begin(c, k),
           \A i \in 0..MaxCall : Knows([k EXCEPT !.id = i])
    PROVE  IInv'
<1> DEFINE n == [k EXCEPT !.id = begun + 1]
<1>1. /\ UNCHANGED <<pin, shut, scens, steps, role, pinRaced, leadRaced>>
      /\ call' = [call EXCEPT ![c] = n] /\ begun' = begun + 1
      /\ begun + 1 \in 0..MaxCall
  BY WorkbookAssumption DEF Begin, rows, IInv, TypeOK
<1>2. n \in CallStates /\ Knows(n)
  BY <1>1 DEF CallStates
<1> HIDE DEF n
<1>3. TypeOK'
  BY <1>1, <1>2 DEF IInv, TypeOK
<1>4. \A d \in Calls : Knows(call'[d])
  BY <1>1, <1>2 DEF IInv, TypeOK
<1>5. \A d \in Calls : Knows(call[d])'
  BY <1>1, <1>4 DEF Knows, Shape, PinOK, LeadOK, OrdOK, NotLastLead, StepOrdinals
<1> QED
  BY <1>1, <1>3, <1>5 DEF IInv, Pinned, HasLead, InScenario, OrdinalsDense, StepOrdinals

LEMMA ReturnIInv ==
    ASSUME IInv, NEW c \in Calls, Return(c)
    PROVE  IInv'
BY IdleType, IdleKnows, ReadsIInv DEF Return

\* The ordinals of the steps S in a scenario.
Ords(S, x) == {s.ord : s \in {t \in S : t.scen = x}}

LEMMA OrdsAdd ==
    ASSUME NEW S, NEW new, NEW x
    PROVE  Ords(S \cup {new}, x) = IF new.scen = x THEN Ords(S, x) \cup {new.ord} ELSE Ords(S, x)
<1>1. ASSUME NEW m PROVE m \in Ords(S \cup {new}, x) <=>
                            m \in Ords(S, x) \/ (new.scen = x /\ m = new.ord)
  BY DEF Ords
<1> QED
  BY <1>1

LEMMA AfterInsertType == ASSUME NEW k \in CallStates PROVE AfterInsert(k) \in CallStates
<1>1. CASE k.op = "import" /\ k.left > 1
  <2>1. k.left - 1 \in Nat /\ k.ord + 1 \in Nat
    BY <1>1 DEF CallStates
  <2>2. [k EXCEPT !.left = k.left - 1, !.ord = k.ord + 1] \in CallStates
    BY <2>1 DEF CallStates
  <2> QED
    BY <1>1, <2>2 DEF AfterInsert
<1>2. CASE ~(k.op = "import" /\ k.left > 1)
  BY <1>2, IdleType DEF AfterInsert
<1> QED
  BY <1>1, <1>2

\* What a writer leaves of the other requests: over, if they decide on the same rows.
LEMMA WroteCalls ==
    ASSUME TypeOK, NEW c \in Calls, NEW k \in CallStates, NEW ops, Wrote(c, k, ops)
    PROVE  /\ call' \in [Calls -> CallStates] /\ call'[c] = k
           /\ \A d \in Calls \ {c} :
                 /\ call'[d].over = (call[d].over \/ call[d].op \in ops)
                 /\ call'[d].pc = call[d].pc /\ call'[d].op = call[d].op
                 /\ call'[d].scen = call[d].scen /\ call'[d].ord = call[d].ord
                 /\ call'[d].pin = call[d].pin /\ call'[d].user = call[d].user
                 /\ call'[d].want = call[d].want
<1>1. \A d \in Calls : call[d] \in CallStates
  BY DEF TypeOK
<1>2. \A d \in Calls : [call[d] EXCEPT !.over = @ \/ call[d].op \in ops] \in CallStates
  BY <1>1 DEF CallStates
<1>3. call' \in [Calls -> CallStates]
  BY <1>2 DEF Wrote
<1> QED
  BY <1>1, <1>3 DEF Wrote, CallStates

-----------------------------------------------------------------------------
(* Requests that only read *)

LEMMA BeginsIInv ==
    ASSUME IInv, NEW c \in Calls,
           BeginStep(c) \/ BeginScenario(c) \/ BeginImport(c) \/ BeginUpdate(c) \/ BeginMember(c)
    PROVE  IInv'
<1> USE IdleType, WorkbookAssumption
<1>1. CASE BeginStep(c)
  <2>1. PICK s \in scens : Begin(c, [Idle EXCEPT !.pc = "read", !.op = "step", !.scen = s.ord])
    BY <1>1 DEF BeginStep
  <2> DEFINE k == [Idle EXCEPT !.pc = "read", !.op = "step", !.scen = s.ord]
  <2>2. s.ord \in Nat
    BY DEF IInv, TypeOK
  <2>3. k \in CallStates
    BY <2>2 DEF CallStates
  <2>4. \A i \in 0..MaxCall : Knows([k EXCEPT !.id = i])
    BY <2>2 DEF CallStates, Knows, Shape, PinOK, LeadOK, OrdOK
  <2> QED
    BY <2>1, <2>3, <2>4, BeginIInv
<1>2. CASE BeginScenario(c)
  <2> DEFINE k == [Idle EXCEPT !.pc = "scenRead", !.op = "scenario"]
  <2>3. k \in CallStates
    BY DEF CallStates
  <2>4. \A i \in 0..MaxCall : Knows([k EXCEPT !.id = i])
    BY DEF CallStates, Knows, Shape, PinOK, LeadOK, OrdOK
  <2> QED
    BY <1>2, <2>3, <2>4, BeginIInv DEF BeginScenario
<1>3. CASE BeginImport(c)
  <2>1. PICK n \in Starts :
           Begin(c, [Idle EXCEPT !.pc = "read", !.op = "import", !.left = PlanSize, !.start = n])
    BY <1>3 DEF BeginImport
  <2> DEFINE k == [Idle EXCEPT !.pc = "read", !.op = "import", !.left = PlanSize, !.start = n]
  <2>3. k \in CallStates
    BY DEF CallStates
  <2>4. \A i \in 0..MaxCall : Knows([k EXCEPT !.id = i])
    BY DEF CallStates, Knows, Shape, PinOK, LeadOK, OrdOK
  <2> QED
    BY <2>1, <2>3, <2>4, BeginIInv
<1>4. CASE BeginUpdate(c)
  <2>1. PICK p \in Pins \cup {"none"} :
           Begin(c, [Idle EXCEPT !.pc = "read", !.op = "update", !.want = p])
    BY <1>4 DEF BeginUpdate
  <2> DEFINE k == [Idle EXCEPT !.pc = "read", !.op = "update", !.want = p]
  <2>3. k \in CallStates
    BY DEF CallStates
  <2>4. \A i \in 0..MaxCall : Knows([k EXCEPT !.id = i])
    BY DEF CallStates, Knows, Shape, PinOK, LeadOK, OrdOK
  <2> QED
    BY <2>1, <2>3, <2>4, BeginIInv
<1>5. CASE BeginMember(c)
  <2>1. PICK u \in Users :
           \/ \E r \in Roles :
                 Begin(c, [Idle EXCEPT !.op = "role", !.user = u, !.want = r,
                                       !.pc = IF r = "lead" THEN "write" ELSE "check"])
           \/ Begin(c, [Idle EXCEPT !.op = "remove", !.user = u, !.pc = "check"])
    BY <1>5 DEF BeginMember
  <2>2. ASSUME NEW r \in Roles,
               Begin(c, [Idle EXCEPT !.op = "role", !.user = u, !.want = r,
                                     !.pc = IF r = "lead" THEN "write" ELSE "check"])
        PROVE  IInv'
    <3> DEFINE k == [Idle EXCEPT !.op = "role", !.user = u, !.want = r,
                                 !.pc = IF r = "lead" THEN "write" ELSE "check"]
    <3>3. k \in CallStates
      BY DEF CallStates
    <3>4. \A i \in 0..MaxCall : Knows([k EXCEPT !.id = i])
      BY DEF CallStates, Knows, Shape, PinOK, LeadOK, OrdOK
    <3> QED
      BY <2>2, <3>3, <3>4, BeginIInv
  <2>3. ASSUME Begin(c, [Idle EXCEPT !.op = "remove", !.user = u, !.pc = "check"])
        PROVE  IInv'
    <3> DEFINE k == [Idle EXCEPT !.op = "remove", !.user = u, !.pc = "check"]
    <3>3. k \in CallStates
      BY DEF CallStates
    <3>4. \A i \in 0..MaxCall : Knows([k EXCEPT !.id = i])
      BY DEF CallStates, Knows, Shape, PinOK, LeadOK, OrdOK
    <3> QED
      BY <2>3, <3>3, <3>4, BeginIInv
  <2> QED
    BY <2>1, <2>2, <2>3
<1> QED
  BY <1>1, <1>2, <1>3, <1>4, <1>5

LEMMA ReadStepsIInv ==
    ASSUME IInv, NEW c \in Calls,
           \/ ReadEngagement(c) \/ ReadForScenario(c) \/ NextScenarioOrdinal(c)
           \/ NextStepOrdinal(c) \/ ReadForUpdate(c) \/ CountSteps(c) \/ CheckLastLead(c)
    PROVE  IInv'
<1> DEFINE k == call[c]
<1>0. k \in CallStates /\ Knows(k) /\ pin \in Pins
  BY DEF IInv, TypeOK
<1> HIDE DEF k
<1> SUFFICES ASSUME ~Return(c) PROVE IInv'
  BY ReturnIInv
<1>1. CASE ReadEngagement(c)
  <2> DEFINE n == [k EXCEPT !.pin = pin, !.pc = IF k.op = "step" THEN "ordinal" ELSE "scenRead"]
  <2>1. Reads(c, n) /\ k.op \in {"step", "import"}
    BY <1>1 DEF ReadEngagement, k
  <2>2. n \in CallStates
    BY <1>0 DEF CallStates
  <2>3. Knows(n)
    BY <1>0, <2>1 DEF CallStates, Knows, Shape, PinOK, LeadOK, OrdOK
  <2> QED
    BY <2>1, <2>2, <2>3, ReadsIInv
<1>2. CASE ReadForScenario(c)
  <2> DEFINE n == [k EXCEPT !.pc = "scenOrd"]
  <2>1. Reads(c, n) /\ k.pc = "scenRead"
    BY <1>2 DEF ReadForScenario, Goto, At, k
  <2>2. n \in CallStates
    BY <1>0 DEF CallStates
  <2>3. Knows(n)
    BY <1>0, <2>1 DEF CallStates, Knows, Shape, PinOK, LeadOK, OrdOK
  <2> QED
    BY <2>1, <2>2, <2>3, ReadsIInv
<1>3. CASE NextScenarioOrdinal(c)
  <2>0. PICK m \in 1..(MaxOrdinal + 1) : Reads(c, [k EXCEPT !.pc = "scenInsert", !.scen = m])
    BY <1>3 DEF NextScenarioOrdinal, k
  <2> DEFINE n == [k EXCEPT !.pc = "scenInsert", !.scen = m]
  <2>1. k.pc = "scenOrd" /\ m \in Nat /\ k.op # "step"
    <3>1. k.pc = "scenOrd"
      BY <1>3 DEF NextScenarioOrdinal, At, k
    <3>2. k.op # "step"
      BY <1>0, <3>1 DEF Knows, Shape
    <3> QED
      BY <3>1, <3>2, WorkbookAssumption
  <2>2. n \in CallStates
    BY <1>0, <2>1 DEF CallStates
  <2>3. Knows(n)
    BY <1>0, <2>1 DEF CallStates, Knows, Shape, PinOK, LeadOK, OrdOK
  <2> QED
    BY <2>0, <2>2, <2>3, ReadsIInv
<1>4. CASE NextStepOrdinal(c)
  <2>0. PICK m \in 1..(MaxOrdinal + 1) :
           /\ IsNext(m, StepOrdinals(k.scen))
           /\ Reads(c, [k EXCEPT !.pc = "insert", !.ord = m])
    BY <1>4 DEF NextStepOrdinal, k
  <2> DEFINE n == [k EXCEPT !.pc = "insert", !.ord = m]
  <2>1. k.pc = "ordinal" /\ m \in Nat /\ m >= 1
    <3>1. k.pc = "ordinal"
      BY <1>4 DEF NextStepOrdinal, At, k
    <3> QED
      BY <3>1, WorkbookAssumption
  <2>2. n \in CallStates
    BY <1>0, <2>1 DEF CallStates
  <2>3. ASSUME NEW sc \in scens, sc.ord = k.scen
        PROVE  sc.start..(m - 1) \subseteq StepOrdinals(k.scen)
    <3>0. sc.start \in Nat \ {0}
      BY DEF IInv, TypeOK
    <3>1. CASE m = 1
      BY <3>0, <3>1
    <3>2. CASE m # 1
      <4>1. m - 1 \in StepOrdinals(k.scen)
        BY <2>0, <3>2 DEF IsNext
      <4>2. PICK s \in steps : s.scen = k.scen /\ s.ord = m - 1
        BY <4>1 DEF StepOrdinals
      <4> QED
        BY <2>3, <4>2 DEF IInv, OrdinalsDense
    <3> QED
      BY <3>1, <3>2
  <2>4. Knows(n)
    BY <1>0, <2>1, <2>3 DEF CallStates, Knows, Shape, PinOK, LeadOK, OrdOK
  <2> QED
    BY <2>0, <2>2, <2>4, ReadsIInv
<1>5. CASE ReadForUpdate(c)
  <2> DEFINE n == [k EXCEPT !.pin = pin, !.pc = IF k.want \in {"none", pin} THEN "write" ELSE "count"]
  <2>1. Reads(c, n) /\ k.op = "update"
    BY <1>5 DEF ReadForUpdate, k
  <2>2. n \in CallStates
    BY <1>0 DEF CallStates
  <2>3. Knows(n)
    BY <1>0, <2>1 DEF CallStates, Knows, Shape, PinOK, LeadOK, OrdOK
  <2> QED
    BY <2>1, <2>2, <2>3, ReadsIInv
<1>6. CASE CountSteps(c)
  <2> DEFINE n == [k EXCEPT !.pc = "write", !.pin = k.want]
  <2>1. Reads(c, n) /\ k.pc = "count" /\ steps = {}
    BY <1>6 DEF CountSteps, At, k
  <2>2. n \in CallStates
    BY <1>0, <2>1 DEF CallStates, Knows, Shape
  <2>3. Knows(n)
    BY <1>0, <2>1 DEF CallStates, Knows, Shape, PinOK, LeadOK, OrdOK
  <2> QED
    BY <2>1, <2>2, <2>3, ReadsIInv
<1>7. CASE CheckLastLead(c)
  <2> DEFINE n == [k EXCEPT !.pc = "write"]
  <2>1. Reads(c, n) /\ k.pc = "check" /\ NotLastLead(k.user)
    BY <1>7 DEF CheckLastLead, At, Goto, k
  <2>2. n \in CallStates
    BY <1>0 DEF CallStates
  <2>3. Knows(n)
    BY <1>0, <2>1 DEF CallStates, Knows, Shape, PinOK, LeadOK, OrdOK
  <2> QED
    BY <2>1, <2>2, <2>3, ReadsIInv
<1> QED
  BY <1>1, <1>2, <1>3, <1>4, <1>5, <1>6, <1>7

-----------------------------------------------------------------------------
(* Writes *)

LEMMA InsertScenarioIInv ==
    ASSUME IInv, NEW c \in Calls, InsertScenario(c)
    PROVE  IInv'
<1> SUFFICES ASSUME ~Return(c) PROVE IInv'
  BY ReturnIInv
<1> DEFINE k == call[c]
           new == [ord |-> k.scen, start |-> k.start]
           n == IF k.op = "import" THEN [k EXCEPT !.pc = "insert", !.ord = k.start] ELSE Idle
<1>0. k \in CallStates /\ Knows(k)
  BY DEF IInv, TypeOK
<1>1. /\ k.pc = "scenInsert"
      /\ \A s \in scens : s.ord # k.scen
      /\ scens' = scens \cup {new}
      /\ call' = [call EXCEPT ![c] = n]
      /\ UNCHANGED <<pin, shut, steps, role, begun, pinRaced, leadRaced>>
  BY DEF InsertScenario, At
<1>2. n \in CallStates /\ new \in [ord : Nat, start : Nat \ {0}]
  BY <1>0, IdleType DEF CallStates
<1>3. TypeOK'
  BY <1>1, <1>2 DEF IInv, TypeOK
<1>4. \A s \in steps : s.scen # k.scen
  BY <1>1 DEF IInv, InScenario
<1>5. InScenario' /\ OrdinalsDense'
  BY <1>1, <1>4 DEF IInv, InScenario, OrdinalsDense, StepOrdinals
<1>6. \A d \in Calls \ {c} : Knows(call[d])'
  <2> SUFFICES ASSUME NEW d \in Calls \ {c} PROVE Knows(call[d])'
    OBVIOUS
  <2>1. call'[d] = call[d] /\ Knows(call[d])
    BY <1>1 DEF IInv, TypeOK
  <2>2. OrdOK(call[d])'
    BY <1>1, <2>1 DEF Knows, OrdOK, StepOrdinals
  <2> QED
    BY <1>1, <2>1, <2>2 DEF Knows, Shape, PinOK, LeadOK, NotLastLead
<1>7. Knows(call[c])'
  <2>1. call'[c] = n
    BY <1>1 DEF IInv, TypeOK
  <2>2. CASE k.op = "import"
    <3>1. /\ n.pc = "insert" /\ n.op = "import" /\ n.scen = k.scen /\ n.ord = k.start
          /\ n.pin = k.pin /\ n.over = k.over /\ k.start \in Nat \ {0}
      BY <1>0, <2>2 DEF CallStates
    <3>2. \A sc \in scens' : sc.ord = k.scen => sc = new
      BY <1>1
    <3>3. k.start..(k.start - 1) = {}
      BY <3>1
    <3> HIDE DEF n
    <3>4. OrdOK(call[c])'
      <4>1. \A sc \in scens' : sc.ord = n.scen => sc.start..(n.ord - 1) = {}
        BY <3>1, <3>2, <3>3
      <4>2. new \in scens' /\ new.ord = n.scen
        BY <1>1, <3>1
      <4> QED
        BY <2>1, <4>1, <4>2 DEF OrdOK
    <3> QED
      BY <1>0, <1>1, <2>1, <2>2, <3>1, <3>4 DEF Knows, Shape, PinOK, LeadOK
  <2>3. CASE k.op # "import"
    BY <2>1, <2>3, IdleType DEF Knows, Shape, PinOK, LeadOK, OrdOK
  <2> QED
    BY <2>2, <2>3
<1> QED
  BY <1>1, <1>3, <1>5, <1>6, <1>7 DEF IInv, Pinned, HasLead

LEMMA CreateWithExecutionIInv ==
    ASSUME IInv, NEW c \in Calls, CreateWithExecution(c)
    PROVE  IInv'
<1> SUFFICES ASSUME ~Return(c) PROVE IInv'
  BY ReturnIInv
<1> DEFINE k == call[c]
           new == [id |-> k.id, scen |-> k.scen, ord |-> k.ord, pin |-> k.pin]
           n == AfterInsert(k)
<1>0. k \in CallStates /\ Knows(k)
  BY DEF IInv, TypeOK
<1>1. /\ k.pc = "insert" /\ Free(k)
      /\ steps' = steps \cup {new}
      /\ Wrote(c, n, PinOps)
      /\ pinRaced' = (pinRaced \/ k.over)
      /\ UNCHANGED <<pin, shut, scens, role, begun, leadRaced>>
  BY DEF CreateWithExecution, At
<1>2. n \in CallStates
  BY <1>0, AfterInsertType
<1>3. new \in [id : 0..MaxCall, scen : Nat, ord : Nat, pin : Pins]
  BY <1>0 DEF CallStates
<1>4. /\ call' \in [Calls -> CallStates] /\ call'[c] = n
      /\ \A d \in Calls \ {c} :
                 /\ call'[d].over = (call[d].over \/ call[d].op \in PinOps)
                 /\ call'[d].pc = call[d].pc /\ call'[d].op = call[d].op
                 /\ call'[d].scen = call[d].scen /\ call'[d].ord = call[d].ord
                 /\ call'[d].pin = call[d].pin /\ call'[d].user = call[d].user
                 /\ call'[d].want = call[d].want
  BY <1>1, <1>2, WroteCalls DEF IInv
<1> HIDE DEF n
<1>5. TypeOK'
  <2>1. pinRaced' \in BOOLEAN
    BY <1>0, <1>1 DEF CallStates, IInv, TypeOK
  <2> QED
    BY <1>1, <1>3, <1>4, <2>1 DEF IInv, TypeOK
<1>6. \A x : Ords(steps', x) = IF k.scen = x THEN Ords(steps, x) \cup {k.ord} ELSE Ords(steps, x)
  <2>1. steps' = steps \cup {new}
    BY <1>1
  <2>2. new.scen = k.scen /\ new.ord = k.ord
    OBVIOUS
  <2> HIDE DEF new, k
  <2>3. \A x : Ords(steps \cup {new}, x)
                = IF new.scen = x THEN Ords(steps, x) \cup {new.ord} ELSE Ords(steps, x)
    BY OrdsAdd
  <2> QED
    BY <2>1, <2>2, <2>3, Zenon
<1>7. \A x : StepOrdinals(x) \subseteq Ords(steps', x) /\ StepOrdinals(x) = Ords(steps, x)
  <2>1. \A x : StepOrdinals(x) = Ords(steps, x)
    BY Zenon DEF StepOrdinals, Ords
  <2>2. \A x : Ords(steps, x) \subseteq Ords(steps', x)
    BY <1>6, SMT
  <2> QED
    BY <2>1, <2>2, Zenon
<1>8. InScenario'
  BY <1>0, <1>1 DEF IInv, InScenario, Knows, OrdOK
<1>9. OrdinalsDense'
  <2>1. \A s \in steps : s.scen = k.scen => s.ord # k.ord
    BY <1>1 DEF Free, StepOrdinals
  <2>2. \A s, t \in steps' : s.scen = t.scen /\ s.ord = t.ord => s = t
    BY <1>1, <2>1 DEF IInv, OrdinalsDense
  <2>3. ASSUME NEW s \in steps', NEW sc \in scens, s.scen = sc.ord
        PROVE  sc.start..s.ord \subseteq Ords(steps', sc.ord)
    <3>1. CASE s \in steps
      BY <1>7, <2>3, <3>1 DEF IInv, OrdinalsDense
    <3>2. CASE s = new
      <4>1. sc.start..(k.ord - 1) \subseteq StepOrdinals(k.scen)
        BY <1>0, <1>1, <2>3, <3>2 DEF Knows, OrdOK
      <4>2. k.ord \in Nat /\ sc.start \in Nat
        BY <1>0 DEF CallStates, IInv, TypeOK
      <4>3. sc.start..k.ord \subseteq (sc.start..(k.ord - 1)) \cup {k.ord}
        BY <4>2
      <4>5. sc.ord = k.scen /\ s.ord = k.ord
        BY <2>3, <3>2
      <4>6. sc.start..s.ord \subseteq StepOrdinals(k.scen) \cup {k.ord}
        BY <4>1, <4>3, <4>5
      <4>7. Ords(steps', sc.ord) = StepOrdinals(k.scen) \cup {k.ord}
        BY <1>6, <1>7, <4>5
      <4> QED
        BY <4>6, <4>7
    <3> QED
      BY <1>1, <3>1, <3>2
  <2> QED
    BY <1>1, <2>2, <2>3 DEF OrdinalsDense, StepOrdinals, Ords
<1>10. \A d \in Calls \ {c} : Knows(call[d])'
  <2> SUFFICES ASSUME NEW d \in Calls \ {c} PROVE Knows(call[d])'
    OBVIOUS
  <2>1. Knows(call[d]) /\ call[d] \in CallStates
    BY DEF IInv, TypeOK
  <2>2. PinOK(call[d])'
    BY <1>1, <1>4, <2>1 DEF Knows, PinOK, CallStates
  <2>3. LeadOK(call[d])'
    BY <1>1, <1>4, <2>1 DEF Knows, LeadOK, NotLastLead
  <2>4. OrdOK(call[d])'
    <3> DEFINE x == call[d].scen
    <3>1. StepOrdinals(x) \subseteq Ords(steps', x)
      BY <1>7
    <3>2. call'[d].scen = x /\ call'[d].ord = call[d].ord
      BY <1>4
    <3> QED
      BY <1>1, <1>4, <2>1, <3>1, <3>2 DEF Knows, OrdOK, StepOrdinals, Ords
  <2>5. Shape(call[d])'
    BY <1>1, <1>4, <2>1 DEF Knows, Shape
  <2> QED
    BY <2>2, <2>3, <2>4, <2>5 DEF Knows
<1>11. Knows(call[c])'
  <2>1. CASE n = Idle
    BY <1>4, <2>1, IdleType DEF Knows, Shape, PinOK, LeadOK, OrdOK
  <2>2. CASE n # Idle
    <3>1. n = [k EXCEPT !.left = @ - 1, !.ord = @ + 1] /\ k.op = "import"
      BY <2>2 DEF n, AfterInsert
    <3>2. /\ n.pc = "insert" /\ n.op = "import" /\ n.scen = k.scen /\ n.ord = k.ord + 1
          /\ n.pin = k.pin /\ n.over = k.over /\ k.ord \in Nat
      BY <1>0, <1>1, <3>1 DEF CallStates
    <3>3. ASSUME NEW sc \in scens, sc.ord = k.scen
          PROVE  sc.start..k.ord \subseteq StepOrdinals(k.scen) \cup {k.ord}
      <4>1. sc.start..(k.ord - 1) \subseteq StepOrdinals(k.scen)
        BY <1>0, <1>1, <3>3 DEF Knows, OrdOK
      <4>2. sc.start \in Nat
        BY DEF IInv, TypeOK
      <4>3. sc.start..k.ord \subseteq (sc.start..(k.ord - 1)) \cup {k.ord}
        BY <3>2, <4>2
      <4> QED
        BY <4>1, <4>3
    <3>4. (k.ord + 1) - 1 = k.ord
      BY <3>2
    <3>5. OrdOK(call[c])'
      <4>1. \E sc \in scens : sc.ord = k.scen
        BY <1>0, <1>1 DEF Knows, OrdOK
      <4>2. Ords(steps', k.scen) = StepOrdinals(k.scen) \cup {k.ord}
        BY <1>6, <1>7
      <4> QED
        BY <1>1, <1>4, <3>2, <3>3, <3>4, <4>1, <4>2 DEF OrdOK, StepOrdinals, Ords
    <3> QED
      BY <1>0, <1>1, <1>4, <3>1, <3>2, <3>5 DEF Knows, Shape, PinOK, LeadOK
  <2> QED
    BY <2>1, <2>2
<1>12. pinRaced' \/ Pinned'
  <2>1. ~pinRaced /\ ~k.over => k.pin = pin
    BY <1>0, <1>1 DEF Knows, PinOK, Shape
  <2>2. new.pin = k.pin
    OBVIOUS
  <2> HIDE DEF k, new
  <2> QED
    BY <1>1, <2>1, <2>2 DEF IInv, Pinned
<1> QED
  BY <1>1, <1>5, <1>8, <1>9, <1>10, <1>11, <1>12 DEF IInv, HasLead

LEMMA WriteEngagementIInv ==
    ASSUME IInv, NEW c \in Calls, WriteEngagement(c)
    PROVE  IInv'
<1> DEFINE k == call[c]
<1>0. k \in CallStates /\ Knows(k)
  BY DEF IInv, TypeOK
<1>1. /\ k.pc = "write" /\ k.op = "update" /\ pin' = k.pin
      /\ Wrote(c, Idle, PinOps)
      /\ pinRaced' = (pinRaced \/ k.over)
      /\ UNCHANGED <<shut, scens, steps, role, begun, leadRaced>>
  BY DEF WriteEngagement, At
<1>2. /\ call' \in [Calls -> CallStates] /\ call'[c] = Idle
      /\ \A d \in Calls \ {c} :
                 /\ call'[d].over = (call[d].over \/ call[d].op \in PinOps)
                 /\ call'[d].pc = call[d].pc /\ call'[d].op = call[d].op
                 /\ call'[d].scen = call[d].scen /\ call'[d].ord = call[d].ord
                 /\ call'[d].pin = call[d].pin /\ call'[d].user = call[d].user
                 /\ call'[d].want = call[d].want
  BY <1>1, IdleType, WroteCalls DEF IInv
<1>3. TypeOK'
  BY <1>0, <1>1, <1>2 DEF IInv, TypeOK, CallStates
<1>4. pinRaced' \/ Pinned'
  BY <1>0, <1>1 DEF IInv, Pinned, Knows, PinOK
<1>5. \A d \in Calls \ {c} : Knows(call[d])'
  <2> SUFFICES ASSUME NEW d \in Calls \ {c} PROVE Knows(call[d])'
    OBVIOUS
  <2>1. Knows(call[d]) /\ call[d] \in CallStates
    BY DEF IInv, TypeOK
  <2>2. PinOK(call[d])'
    BY <1>1, <1>2, <2>1 DEF Knows, PinOK, CallStates
  <2>3. LeadOK(call[d])' /\ Shape(call[d])'
    BY <1>1, <1>2, <2>1 DEF Knows, LeadOK, Shape, NotLastLead
  <2>4. OrdOK(call[d])'
    BY <1>1, <1>2, <2>1 DEF Knows, OrdOK, StepOrdinals
  <2> QED
    BY <2>2, <2>3, <2>4 DEF Knows
<1>6. Knows(call[c])'
  BY <1>2, IdleType DEF Knows, Shape, PinOK, LeadOK, OrdOK
<1> QED
  BY <1>1, <1>3, <1>4, <1>5, <1>6 DEF IInv, HasLead, InScenario, OrdinalsDense, StepOrdinals

LEMMA WriteMemberIInv ==
    ASSUME IInv, NEW c \in Calls, WriteMember(c)
    PROVE  IInv'
<1> SUFFICES ASSUME ~Return(c) PROVE IInv'
  BY ReturnIInv
<1> DEFINE k == call[c]
<1>0. k \in CallStates /\ Knows(k)
  BY DEF IInv, TypeOK
<1>1. /\ k.pc = "write" /\ k.op \in MemberOps /\ role[k.user] # "none"
      /\ role' = [role EXCEPT ![k.user] = IF k.op = "role" THEN k.want ELSE "none"]
      /\ Wrote(c, Idle, MemberOps)
      /\ leadRaced' = (leadRaced \/ k.over)
      /\ UNCHANGED <<pin, shut, scens, steps, begun, pinRaced>>
  BY DEF WriteMember, At
<1>2. /\ call' \in [Calls -> CallStates] /\ call'[c] = Idle
      /\ \A d \in Calls \ {c} :
                 /\ call'[d].over = (call[d].over \/ call[d].op \in MemberOps)
                 /\ call'[d].pc = call[d].pc /\ call'[d].op = call[d].op
                 /\ call'[d].scen = call[d].scen /\ call'[d].ord = call[d].ord
                 /\ call'[d].pin = call[d].pin /\ call'[d].user = call[d].user
                 /\ call'[d].want = call[d].want
  BY <1>1, IdleType, WroteCalls DEF IInv
<1>3. TypeOK'
  <2>1. role' \in [Users -> Roles \cup {"none"}]
    BY <1>0, <1>1 DEF IInv, TypeOK, CallStates, Knows, Shape
  <2>2. leadRaced' \in BOOLEAN
    BY <1>0, <1>1 DEF IInv, TypeOK, CallStates
  <2> QED
    BY <1>1, <1>2, <2>1, <2>2 DEF IInv, TypeOK
<1>4. leadRaced' \/ HasLead'
  <2> SUFFICES ASSUME ~leadRaced, ~k.over PROVE HasLead'
    BY <1>1
  <2>1. k.user \in Users /\ role \in [Users -> Roles \cup {"none"}]
    BY <1>0 DEF IInv, TypeOK, CallStates
  <2>2. CASE k.op = "role" /\ k.want = "lead"
    BY <1>1, <2>1, <2>2 DEF HasLead
  <2>3. CASE ~(k.op = "role" /\ k.want = "lead")
    <3>1. NotLastLead(k.user)
      BY <1>0, <1>1, <2>3 DEF Knows, LeadOK
    <3>2. PICK u \in Users : role[u] = "lead"
      BY DEF IInv, HasLead
    <3>3. PICK v \in Users \ {k.user} : role[v] = "lead"
      BY <3>1, <3>2 DEF NotLastLead
    <3>4. role'[v] = "lead"
      BY <1>1, <2>1, <3>3
    <3> QED
      BY <3>4 DEF HasLead
  <2> QED
    BY <2>2, <2>3
<1>5. \A d \in Calls \ {c} : Knows(call[d])'
  <2> SUFFICES ASSUME NEW d \in Calls \ {c} PROVE Knows(call[d])'
    OBVIOUS
  <2>1. Knows(call[d]) /\ call[d] \in CallStates
    BY DEF IInv, TypeOK
  <2>2. PinOK(call[d])' /\ Shape(call[d])'
    BY <1>1, <1>2, <2>1 DEF Knows, PinOK, Shape
  <2>3. LeadOK(call[d])'
    BY <1>1, <1>2, <2>1 DEF Knows, LeadOK, CallStates
  <2>4. OrdOK(call[d])'
    BY <1>1, <1>2, <2>1 DEF Knows, OrdOK, StepOrdinals
  <2> QED
    BY <2>2, <2>3, <2>4 DEF Knows
<1>6. Knows(call[c])'
  BY <1>2, IdleType DEF Knows, Shape, PinOK, LeadOK, OrdOK
<1> QED
  BY <1>1, <1>3, <1>4, <1>5, <1>6 DEF IInv, Pinned, InScenario, OrdinalsDense, StepOrdinals

\* SetStatus writes nothing a request has relied on; a member who is added can
\* only add to the leads.
LEMMA StatusAndAddIInv ==
    ASSUME IInv, SetStatus \/ \E u \in Users, r \in Roles : AddMember(u, r)
    PROVE  IInv'
<1>1. CASE SetStatus
  <2>1. TypeOK' /\ UNCHANGED <<pin, scens, steps, role, call, pinRaced, leadRaced>>
    BY <1>1 DEF SetStatus, IInv, TypeOK
  <2> QED
    BY <2>1 DEF IInv, Pinned, HasLead, InScenario, OrdinalsDense, StepOrdinals, Knows,
       Shape, PinOK, LeadOK, OrdOK, NotLastLead
<1>2. ASSUME NEW u \in Users, NEW r \in Roles, AddMember(u, r) PROVE IInv'
  <2>1. /\ role[u] = "none" /\ role' = [role EXCEPT ![u] = r]
        /\ UNCHANGED <<pin, shut, scens, steps, call, pinRaced, leadRaced>>
    BY <1>2 DEF AddMember
  <2>2. TypeOK'
    BY <1>2, <2>1, WorkbookAssumption DEF AddMember, IInv, TypeOK
  <2>3. /\ role'[u] = r /\ \A v \in Users \ {u} : role'[v] = role[v]
    BY <2>1 DEF IInv, TypeOK
  <2>4. leadRaced \/ \E v \in Users \ {u} : role[v] = "lead" /\ role'[v] = "lead"
    BY <2>1, <2>3 DEF IInv, HasLead
  <2>5. \A d \in Calls : LeadOK(call[d])'
    <3> SUFFICES ASSUME NEW d \in Calls PROVE LeadOK(call[d])'
      OBVIOUS
    <3>1. LeadOK(call[d]) /\ call[d].user \in Users
      BY DEF IInv, TypeOK, Knows, CallStates
    <3> QED
      BY <2>1, <2>3, <2>4, <3>1 DEF LeadOK, NotLastLead
  <2>6. leadRaced' \/ HasLead'
    BY <2>1, <2>4 DEF HasLead
  <2> QED
    BY <2>1, <2>2, <2>5, <2>6 DEF IInv, Pinned, InScenario, OrdinalsDense, StepOrdinals, Knows,
       Shape, PinOK, OrdOK
<1> QED
  BY <1>1, <1>2

-----------------------------------------------------------------------------
(* The theorems *)

LEMMA InitIInv == Init => IInv
<1> SUFFICES ASSUME Init PROVE IInv
  OBVIOUS
<1>1. TypeOK
  <2>1. 0 \in 0..MaxCall
    BY WorkbookAssumption
  <2> QED
    BY <2>1, IdleType DEF Init, TypeOK
<1>2. \A c \in Calls : Knows(call[c])
  BY IdleKnows DEF Init
<1>3. HasLead
  BY WorkbookAssumption DEF Init, HasLead
<1> QED
  BY <1>1, <1>2, <1>3 DEF Init, IInv, Pinned, InScenario, OrdinalsDense

THEOREM Invariance == Spec => []IInv
<1>1. ASSUME IInv, [Next]_vars PROVE IInv'
  <2>1. ASSUME NEW c \in Calls, Request(c) PROVE IInv'
    BY <1>1, <2>1, BeginsIInv, ReadStepsIInv, InsertScenarioIInv, CreateWithExecutionIInv,
       WriteEngagementIInv, WriteMemberIInv DEF Request
  <2>2. CASE UNCHANGED vars
    <3>1. UNCHANGED <<pin, shut, scens, steps, role, call, begun, pinRaced, leadRaced>>
      BY <2>2 DEF vars, rows
    <3> QED
      BY <1>1, <3>1 DEF IInv, TypeOK, Pinned, HasLead, InScenario, OrdinalsDense, StepOrdinals,
         Knows, Shape, PinOK, LeadOK, OrdOK, NotLastLead
  <2> QED
    BY <1>1, <2>1, <2>2, StatusAndAddIInv DEF Next
<1> QED
  BY <1>1, InitIInv, PTL DEF Spec

\* Steps and engagement agree on the ATT&CK version unless a pin change, a step
\* creation or an import ran at the same time as another.
THEOREM PinFreezeHoldsUnraced == Spec => []PinsDivergeOnlyByOverlap
<1>1. IInv => PinsDivergeOnlyByOverlap
  BY DEF IInv, Pinned, PinsDivergeOnlyByOverlap
<1> QED
  BY <1>1, Invariance, PTL

\* An engagement keeps a lead unless two changes of its members overlap.
THEOREM LeadKeptUnraced == Spec => []LeadLostOnlyByOverlap
<1>1. IInv => LeadLostOnlyByOverlap
  BY DEF IInv, HasLead, LeadLostOnlyByOverlap
<1> QED
  BY <1>1, Invariance, PTL

\* However creations and imports interleave, ordinals are unique and dense from
\* an import's first step on.
THEOREM OrdinalsStayDense == Spec => []OrdinalsDense
<1>1. IInv => OrdinalsDense
  BY DEF IInv
<1> QED
  BY <1>1, Invariance, PTL
=============================================================================
