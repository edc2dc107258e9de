------------------------ MODULE EvidenceExportProofs ------------------------
(***************************************************************************)
(* Theorems about EvidenceExport: what an answer put together from several *)
(* SELECTs can be trusted for, whatever commits run in between.            *)
(*                                                                         *)
(* The tables of a task only grow, and what was read stays a prefix of     *)
(* what is there.  What one SELECT shows of another is then a matter of    *)
(* the order in which the tool sends them.                                 *)
(***************************************************************************)
EXTENDS EvidenceExport, AuthorityHistoryProofs

-----------------------------------------------------------------------------
(* Tables as values                                                        *)

Prefix(a, b) == Len(a) <= Len(b) /\ \A i \in 1..Len(a) : b[i] = a[i]

\* Every approval of a is in b, as it is there once it is decided.
Older(a, b) ==
  \A i \in DOMAIN a : i \in DOMAIN b /\ (a[i].status # "PENDING" => b[i] = a[i])

\* Every approval of a that was asked for a state other than CLOSED is in b as it is.
Settled(a, b) ==
  \A i \in DOMAIN a : a[i].expected_state # "CLOSED" => i \in DOMAIN b /\ b[i] = a[i]

StepsIn(log)      == {i \in DOMAIN log : log[i].event_type = "STATE_TRANSITION"}
StateIn(log, v)   == IF v = 0 THEN "RECEIVED" ELSE log[v + 1].target
VisitedIn(log)    == {"RECEIVED"} \union {log[i].target : i \in StepsIn(log)}
ReportsIn(rows)   == {i \in DOMAIN rows : rows[i].artifact_type = "VerificationReport"}
PassesIn(rows)    == {i \in ReportsIn(rows) : rows[i].payload.verdict = "PASS"}

\* ChainReplays of the rows of a copy.
Replays(p) ==
  /\ p.events # << >>
  /\ p.events[1].event_type = "TASK_CREATED"
  /\ \A i \in StepsIn(p.events) :
       /\ p.events[i].state_version = i - 1
       /\ p.events[i].source = StateIn(p.events, i - 2)
       /\ p.events[i].source \in States
       /\ p.events[i].target \in TRANSITIONS[p.events[i].source]
       /\ p.events[i].target \in ACTOR_TARGETS[p.events[i].actor]
  /\ p.state_version = Cardinality(StepsIn(p.events))
  /\ p.state = StateIn(p.events, p.state_version)

WellFormed(rows) ==
  \A i \in DOMAIN rows :
    /\ rows[i].producer = ARTIFACT_PRODUCERS[rows[i].artifact_type]
    /\ HasRequiredFields(rows[i].artifact_type, rows[i].payload)

Evidenced(t, rows) ==
  \A i \in DOMAIN rows :
    rows[i].task_id = t /\ rows[i].status = "APPROVED" => rows[i].decision_evidence

\* What PackValid asks of the artifacts, given the state and the states visited.
Reported(s, visited, rows) ==
  LET verified == visited \intersect {"VERIFYING", "READONLY_VERIFYING"} # {}
      terminal == s \in {"RELEASE_READY", "EVIDENCE_PACKED", "CLOSED"}
      mustPass == \/ s \in {"RELEASE_READY", "READONLY_VERIFIED", "EVIDENCE_PACKED"}
                  \/ s = "CLOSED" /\ verified
  IN /\ verified \/ terminal => ReportsIn(rows) # {}
     /\ mustPass => PassesIn(rows) # {}
     /\ s = "EVIDENCE_PACKED" => "READONLY_VERIFIED" \in visited

\* The rules of the authority on a copy are these, on the rows of the copy.
LEMMA SeenTables ==
  ASSUME NEW c, NEW t \in Tasks
  PROVE  /\ Seen(c)!Steps(t) = StepsIn(copy[c].events)
         /\ \A v : Seen(c)!StateAt(t, v) = StateIn(copy[c].events, v)
         /\ Seen(c)!Visited(t) = VisitedIn(copy[c].events)
         /\ Seen(c)!Rows(t, "VerificationReport") = ReportsIn(copy[c].artifacts)
         /\ \A S : Seen(c)!Cardinality(S) = Cardinality(S)
<1>1. Seen(c)!Steps(t) = StepsIn(copy[c].events)
  BY DEF Seen!Steps, StepsIn
<1>2. \A v : Seen(c)!StateAt(t, v) = StateIn(copy[c].events, v)
  BY DEF Seen!StateAt, StateIn
<1>3. Seen(c)!Visited(t) = VisitedIn(copy[c].events)
  BY <1>1 DEF Seen!Visited, VisitedIn
<1>4. Seen(c)!Rows(t, "VerificationReport") = ReportsIn(copy[c].artifacts)
  BY DEF Seen!Rows, ReportsIn
<1>5. \A S : Seen(c)!Cardinality(S) = Cardinality(S)
  BY DEF Seen!Cardinality, Cardinality, Seen!IsFiniteSet, IsFiniteSet
<1> QED
  BY <1>1, <1>2, <1>3, <1>4, <1>5

LEMMA SeenReplays ==
  ASSUME NEW c, NEW t \in Tasks
  PROVE  Seen(c)!ChainReplays(t) <=> Replays(copy[c])
<1>1. Seen(c)!States = States /\ Seen(c)!TRANSITIONS = TRANSITIONS
      /\ Seen(c)!ACTOR_TARGETS = ACTOR_TARGETS
  BY DEF Seen!States, States, Seen!TRANSITIONS, TRANSITIONS, Seen!ACTOR_TARGETS, ACTOR_TARGETS
<1> QED
  BY <1>1, SeenTables DEF Seen!ChainReplays, Replays

LEMMA SeenPackValid ==
  ASSUME NEW c, NEW t \in Tasks
  PROVE  Seen(c)!PackValid(t) <=>
           /\ Replays(copy[c])
           /\ WellFormed(copy[c].artifacts)
           /\ Evidenced(t, copy[c].approvals)
           /\ Reported(copy[c].state, VisitedIn(copy[c].events), copy[c].artifacts)
<1>1. Seen(c)!ARTIFACT_PRODUCERS = ARTIFACT_PRODUCERS
  BY DEF Seen!ARTIFACT_PRODUCERS, ARTIFACT_PRODUCERS
<1>2. \A type, payload :
        Seen(c)!HasRequiredFields(type, payload) <=> HasRequiredFields(type, payload)
  BY DEF Seen!HasRequiredFields, HasRequiredFields, Seen!Missing, Missing
<1>3. Seen(c)!ArtifactsWellFormed(t) <=> WellFormed(copy[c].artifacts)
  BY <1>1, <1>2 DEF Seen!ArtifactsWellFormed, WellFormed
<1>4. Seen(c)!ApprovalsEvidenced(t) <=> Evidenced(t, copy[c].approvals)
  BY DEF Seen!ApprovalsEvidenced, Evidenced
<1>5. /\ Seen(c)!Visited(t) = VisitedIn(copy[c].events)
      /\ Seen(c)!Rows(t, "VerificationReport") = ReportsIn(copy[c].artifacts)
  BY SeenTables
<1>6. {i \in ReportsIn(copy[c].artifacts) : copy[c].artifacts[i].payload.verdict = "PASS"}
        = PassesIn(copy[c].artifacts)
  BY DEF PassesIn
<1> QED
  BY <1>3, <1>4, <1>5, <1>6, SeenReplays DEF Seen!PackValid, Reported

-----------------------------------------------------------------------------
(* The tables of a task grow                                               *)

LEMMA PrefixTrans ==
  ASSUME NEW a, NEW b, NEW c, Len(a) \in Nat, Len(b) \in Nat, Len(c) \in Nat,
         Prefix(a, b), Prefix(b, c)
  PROVE  Prefix(a, c)
BY DEF Prefix

LEMMA OlderTrans ==
  ASSUME NEW a, NEW b, NEW c, Older(a, b), Older(b, c)
  PROVE  Older(a, c)
BY DEF Older

LEMMA SettledTrans ==
  ASSUME NEW a, NEW b, NEW c, Settled(a, b), Settled(b, c)
  PROVE  Settled(a, c)
BY DEF Settled

\* A call commits or changes nothing of what the reader looks at.
LEMMA TablesGrow ==
  ASSUME ChainInv, [Next]_vars, NEW t \in Tasks, Created(t)
  PROVE  /\ Created(t)'
         /\ state_version[t] <= state_version'[t]
         /\ Prefix(events[t], events'[t])
         /\ \A v \in 0..state_version[t] : StateIn(events'[t], v) = StateIn(events[t], v)
         /\ Prefix(artifacts[t], artifacts'[t])
         /\ Older(ApprovalsOf(t), ApprovalsOf(t)')
<1>1. TypeOK /\ TypeOK'
  BY NextTypeOK DEF ChainInv
<1>2. LogKept(t) /\ RowsKept(t) /\ DecisionsKept
  BY <1>1, NextKeepsLogs, NextKeepsRows, NextKeepsDecisions
<1>3. \A v \in 0..state_version[t] : StateIn(events'[t], v) = StateIn(events[t], v)
  BY <1>2 DEF LogKept, StateAt, StateIn
<1>4. Prefix(events[t], events'[t]) /\ Prefix(artifacts[t], artifacts'[t])
  BY <1>2 DEF LogKept, RowsKept, Prefix
<1>5. ASSUME NEW i \in DOMAIN ApprovalsOf(t)
      PROVE  /\ i \in DOMAIN ApprovalsOf(t)'
             /\ ApprovalsOf(t)[i].status # "PENDING" =>
                  ApprovalsOf(t)'[i] = ApprovalsOf(t)[i]
  <2>1. i \in DOMAIN approvals /\ approvals[i].task_id = t /\ ApprovalsOf(t)[i] = approvals[i]
    BY DEF ApprovalsOf
  <2>2. i \in 1..Len(approvals) /\ i \in DOMAIN approvals'
    BY <1>1, <1>2, <2>1, Lengths DEF DecisionsKept, TypeOK
  <2>3. /\ approvals'[i].task_id = t
        /\ approvals[i].status # "PENDING" => approvals'[i] = approvals[i]
    BY <1>2, <2>1, <2>2 DEF DecisionsKept
  <2>4. i \in DOMAIN ApprovalsOf(t)' /\ ApprovalsOf(t)'[i] = approvals'[i]
    BY <2>2, <2>3 DEF ApprovalsOf
  <2> QED
    BY <2>1, <2>3, <2>4
<1>6. Older(ApprovalsOf(t), ApprovalsOf(t)')
  BY <1>5 DEF Older
<1> QED
  BY <1>2, <1>3, <1>4, <1>6 DEF LogKept

\* At one version a task is in one state.
LEMMA RowStands ==
  ASSUME ChainInv, [Next]_vars, NEW t \in Tasks, Created(t),
         state_version'[t] = state_version[t]
  PROVE  state'[t] = state[t]
<1>1. ChainInv' /\ Created(t)' /\ LogKept(t)
  BY NextChainInv, NextKeepsLogs DEF LogKept
<1>2. state[t] = StateAt(t, state_version[t]) /\ state_version[t] \in Nat
  BY BoundsAssumption DEF ChainInv, Chained, TypeOK
<1>3. state'[t] = (IF state_version'[t] = 0 THEN "RECEIVED"
                   ELSE events'[t][state_version'[t] + 1].target)
  BY <1>1 DEF ChainInv, Chained, StateAt
<1>4. StateAt(t, state_version[t])' = StateAt(t, state_version[t])
  BY <1>1, <1>2 DEF LogKept
<1> QED
  BY <1>2, <1>3, <1>4 DEF StateAt

\* The rows stand still while the task is in a state that allows no such artifact.
LEMMA NoReportHere ==
  ASSUME ChainInv, [Next]_vars, NEW t \in Tasks, Created(t),
         state_version'[t] = state_version[t],
         TRANSITIONS[state[t]] \intersect BREAKER_GUARDED_TARGETS # {}
  PROVE  ReportsOf(t)' = ReportsOf(t)
<1>1. TypeOK /\ TypeOK' /\ RowsKept(t)
  BY NextTypeOK, NextKeepsRows DEF ChainInv
<1>2. state[t] \notin ARTIFACT_ALLOWED_STATES["VerificationReport"]
  <2>1. state[t] \in States
    BY <1>1 DEF TypeOK, Created
  <2> QED
    BY <2>1 DEF States, TRANSITIONS, BREAKER_GUARDED_TARGETS, ARTIFACT_ALLOWED_STATES
<1>3. ASSUME NEW k \in Rows(t, "VerificationReport")'
      PROVE  k \in Rows(t, "VerificationReport")
  <2>1. k \in DOMAIN artifacts'[t] /\ artifacts'[t][k].artifact_type = "VerificationReport"
    BY DEF Rows
  <2>2. CASE k \in DOMAIN artifacts[t]
    BY <1>1, <2>1, <2>2, Lengths DEF RowsKept, Rows
  <2>3. CASE k \notin DOMAIN artifacts[t]
    <3>1. PICK type \in ArtifactTypes, producer \in Actors, expected \in 0..MaxVersion :
            \E payload \in Payloads(type) :
              /\ PutArtifact(t, type, producer, payload, expected)
              /\ artifacts'[t][k] = [artifact_type |-> type, producer |-> producer,
                                     state_version |-> expected, payload |-> payload]
      BY <1>1, <2>1, <2>3, NewArtifact
    <3>2. type = "VerificationReport" /\ state[t] \in ARTIFACT_ALLOWED_STATES[type]
      BY <2>1, <3>1 DEF PutArtifact
    <3> QED
      BY <1>2, <3>2
  <2> QED
    BY <2>2, <2>3
<1>4. \A k \in Rows(t, "VerificationReport") :
        k \in Rows(t, "VerificationReport")' /\ artifacts'[t][k] = artifacts[t][k]
  BY <1>1, RowsStay
<1>5. Rows(t, "VerificationReport")' = Rows(t, "VerificationReport")
  BY <1>3, <1>4
<1> QED
  BY <1>4, <1>5 DEF ReportsOf

\* A closed task stays closed, and no more artifacts are written for it.
LEMMA ClosedStands ==
  ASSUME ChainInv, [Next]_vars, NEW t \in Tasks, state[t] = "CLOSED"
  PROVE  /\ state'[t] = "CLOSED" /\ state_version'[t] = state_version[t]
         /\ artifacts'[t] = artifacts[t]
<1>1. TypeOK /\ Created(t)
  BY DEF ChainInv, Created, Absent
<1>2. ASSUME UNCHANGED <<state, state_version>>
      PROVE  state'[t] = "CLOSED" /\ state_version'[t] = state_version[t]
  BY <1>2
<1>3. CASE \E u \in Tasks, actor \in Actors : CreateTask(u, actor)
  BY <1>1, <1>3 DEF CreateTask, TypeOK
<1>4. CASE \E u \in Tasks, request \in Requests, reason \in Reasons, expected \in 0..MaxVersion :
             Transition(u, request[2], request[1], reason, expected)
  <2>1. PICK u \in Tasks, request \in Requests, reason \in Reasons, expected \in 0..MaxVersion :
          Transition(u, request[2], request[1], reason, expected)
    BY <1>4
  <2>2. u # t
    BY <2>1 DEF Transition, TRANSITIONS
  <2> QED
    BY <1>1, <2>1, <2>2 DEF Transition, TypeOK
<1>5. CASE \E u \in Tasks, actor \in Actors, scope \in Scopes,
              expected_state \in ExpectedStates, expected \in 0..MaxVersion :
             RequestApproval(u, actor, scope, expected_state, expected)
  BY <1>5 DEF RequestApproval
<1>6. CASE \E i \in DOMAIN approvals, actor \in Actors, decision \in {"APPROVED", "REJECTED"},
              digest \in Scopes, evidence \in BOOLEAN :
             DecideApproval(i, actor, decision, digest, evidence)
  BY <1>6 DEF DecideApproval
<1>7. CASE \E u \in Tasks, type \in PublishedTypes, producer \in Actors :
             \E payload \in Payloads(type), expected \in 0..MaxVersion :
               PutArtifact(u, type, producer, payload, expected)
  <2>1. PICK u \in Tasks, type \in PublishedTypes, producer \in Actors :
          \E payload \in Payloads(type), expected \in 0..MaxVersion :
            PutArtifact(u, type, producer, payload, expected)
    BY <1>7
  <2>2. u # t
    <3>1. type \in ArtifactTypes
      BY InputsAssumption
    <3>2. "CLOSED" \notin ARTIFACT_ALLOWED_STATES[type]
      BY <3>1 DEF ArtifactTypes, ARTIFACT_PRODUCERS, ARTIFACT_ALLOWED_STATES
    <3> QED
      BY <2>1, <3>2 DEF PutArtifact
  <2> QED
    BY <1>1, <2>1, <2>2 DEF PutArtifact, TypeOK
<1>8. CASE UNCHANGED vars
  BY <1>8 DEF vars
<1> QED
  BY <1>3, <1>4, <1>5, <1>6, <1>7, <1>8 DEF Next

\* A decision needs the task in the state that was asked for, so nothing asked
\* for elsewhere is decided once the task is closed.
LEMMA ClosedSettles ==
  ASSUME ChainInv, [Next]_vars, NEW t \in Tasks, state[t] = "CLOSED"
  PROVE  Settled(ApprovalsOf(t), ApprovalsOf(t)')
<1>1. TypeOK /\ TypeOK'
  BY NextTypeOK DEF ChainInv
<1>2. approvals \in Seq(ApprovalRows) /\ DOMAIN approvals = 1..Len(approvals)
      /\ Len(approvals) \in Nat
  BY <1>1 DEF TypeOK
<1>3. ASSUME NEW i \in DOMAIN approvals, approvals[i].task_id = t,
             approvals[i].expected_state # "CLOSED"
      PROVE  i \in DOMAIN approvals' /\ approvals'[i] = approvals[i]
  <2>1. ASSUME approvals' = approvals
        PROVE  i \in DOMAIN approvals' /\ approvals'[i] = approvals[i]
    BY <2>1
  <2>2. CASE \E u \in Tasks, actor \in Actors : CreateTask(u, actor)
    BY <2>1, <2>2 DEF CreateTask
  <2>3. CASE \E u \in Tasks, request \in Requests, reason \in Reasons, expected \in 0..MaxVersion :
               Transition(u, request[2], request[1], reason, expected)
    BY <2>1, <2>3 DEF Transition
  <2>4. CASE \E u \in Tasks, actor \in Actors, scope \in Scopes,
                expected_state \in ExpectedStates, expected \in 0..MaxVersion :
               RequestApproval(u, actor, scope, expected_state, expected)
    <3>1. PICK row : approvals' = Append(approvals, row)
      BY <2>4 DEF RequestApproval
    <3> HIDE DEF ApprovalRows
    <3> QED
      BY <1>2, <3>1
  <2>5. CASE \E k \in DOMAIN approvals, actor \in Actors, decision \in {"APPROVED", "REJECTED"},
                digest \in Scopes, evidence \in BOOLEAN :
               DecideApproval(k, actor, decision, digest, evidence)
    <3>1. PICK k \in DOMAIN approvals, actor \in Actors, decision \in {"APPROVED", "REJECTED"},
               digest \in Scopes, evidence \in BOOLEAN :
            DecideApproval(k, actor, decision, digest, evidence)
      BY <2>5
    <3>2. state[approvals[k].task_id] = approvals[k].expected_state
      BY <3>1 DEF DecideApproval, StillCurrent
    <3>3. k # i
      BY <1>3, <3>2
    <3>4. PICK row : approvals' = [approvals EXCEPT ![k] = row]
      BY <3>1 DEF DecideApproval
    <3> QED
      BY <3>3, <3>4
  <2>6. CASE \E u \in Tasks, type \in PublishedTypes, producer \in Actors :
               \E payload \in Payloads(type), expected \in 0..MaxVersion :
                 PutArtifact(u, type, producer, payload, expected)
    BY <2>1, <2>6 DEF PutArtifact
  <2>7. CASE UNCHANGED vars
    BY <2>1, <2>7 DEF vars
  <2> QED
    BY <2>2, <2>3, <2>4, <2>5, <2>6, <2>7 DEF Next
<1>4. ASSUME NEW i \in DOMAIN ApprovalsOf(t), ApprovalsOf(t)[i].expected_state # "CLOSED"
      PROVE  i \in DOMAIN ApprovalsOf(t)' /\ ApprovalsOf(t)'[i] = ApprovalsOf(t)[i]
  <2>1. i \in DOMAIN approvals /\ approvals[i].task_id = t /\ ApprovalsOf(t)[i] = approvals[i]
    BY DEF ApprovalsOf
  <2>2. i \in DOMAIN approvals' /\ approvals'[i] = approvals[i]
    BY <1>3, <1>4, <2>1
  <2>3. i \in DOMAIN ApprovalsOf(t)' /\ ApprovalsOf(t)'[i] = approvals'[i]
    BY <2>1, <2>2 DEF ApprovalsOf
  <2> QED
    BY <2>1, <2>2, <2>3
<1> QED
  BY <1>4 DEF Settled

-----------------------------------------------------------------------------
(* The order of the SELECTs                                                *)

Tables == {"task", "events", "approvals", "artifacts", "reports"}

\* The SELECTs sent so far by the call in progress.
Sent == Len(ReadsOf(call.tool)) - Len(call.reads)

HasRead(c, table) == \E i \in 1..Sent : ReadsOf(call.tool)[i] = <<c, table>>

\* The call is to send the rest of its plan, about a task that has a row.
OnTrack ==
  /\ call.task \in Tasks /\ Created(call.task)
  /\ call.reads \in Seq(Copies \X Tables)
  /\ Len(call.reads) <= Len(ReadsOf(call.tool))
  /\ \A i \in 1..Len(call.reads) : call.reads[i] = ReadsOf(call.tool)[Sent + i]

\* The first n SELECTs of a plan include this one.
Before(plan, n, c, table) == \E i \in 1..n : plan[i] = <<c, table>>

\* What the proofs need of a plan: each table of a copy once, the task row first,
\* the log before the rows it announces, and the check after the pack.
OrderedAt(plan, n) ==
  \E c \in Copies, table \in Tables :
    /\ plan[n + 1] = <<c, table>>
    /\ table # "task" => Before(plan, n, c, "task")
    /\ \A x \in Tables : table \in {"task", x} => ~Before(plan, n, c, x)
    /\ table = "events" =>
         ~Before(plan, n, c, "approvals") /\ ~Before(plan, n, c, "artifacts")
    /\ table = "approvals" => Before(plan, n, c, "events")
    /\ c = "check" => \A x \in Tables \ {"reports"} : Before(plan, n, "pack", x)
    /\ c = "pack" => \A x \in Tables : ~Before(plan, n, "check", x)

LEMMA PackPlan ==
  /\ Len(PackReads) = 4 /\ DOMAIN PackReads = 1..4
  /\ PackReads[1] = <<"pack", "task">> /\ PackReads[2] = <<"pack", "events">>
  /\ PackReads[3] = <<"pack", "approvals">> /\ PackReads[4] = <<"pack", "artifacts">>
BY DEF PackReads

LEMMA DescribePlan ==
  /\ Len(DescribeReads) = 3
  /\ DescribeReads[1] = <<"pack", "task">> /\ DescribeReads[2] = <<"pack", "artifacts">>
  /\ DescribeReads[3] = <<"pack", "reports">>
BY DEF DescribeReads

ValidateReads == PackReads \o CheckReads

LEMMA ValidatePlan ==
  /\ Len(ValidateReads) = 8
  /\ ValidateReads[1] = <<"pack", "task">> /\ ValidateReads[2] = <<"pack", "events">>
  /\ ValidateReads[3] = <<"pack", "approvals">> /\ ValidateReads[4] = <<"pack", "artifacts">>
  /\ ValidateReads[5] = <<"check", "task">> /\ ValidateReads[6] = <<"check", "events">>
  /\ ValidateReads[7] = <<"check", "approvals">> /\ ValidateReads[8] = <<"check", "artifacts">>
BY DEF ValidateReads, PackReads, CheckReads

LEMMA PackOrdered == \A n \in 0..3 : OrderedAt(PackReads, n)
<1> SUFFICES ASSUME NEW n \in 0..3
             PROVE  OrderedAt(PackReads, n)
  OBVIOUS
<1>1. CASE n = 0
  BY <1>1, PackPlan DEF OrderedAt, Before, Copies, Tables
<1>2. CASE n = 1
  BY <1>2, PackPlan DEF OrderedAt, Before, Copies, Tables
<1>3. CASE n = 2
  BY <1>3, PackPlan DEF OrderedAt, Before, Copies, Tables
<1>4. CASE n = 3
  BY <1>4, PackPlan DEF OrderedAt, Before, Copies, Tables
<1> QED
  BY <1>1, <1>2, <1>3, <1>4

LEMMA DescribeOrdered == \A n \in 0..2 : OrderedAt(DescribeReads, n)
<1> SUFFICES ASSUME NEW n \in 0..2
             PROVE  OrderedAt(DescribeReads, n)
  OBVIOUS
<1>1. CASE n = 0
  BY <1>1, DescribePlan DEF OrderedAt, Before, Copies, Tables
<1>2. CASE n = 1
  BY <1>2, DescribePlan DEF OrderedAt, Before, Copies, Tables
<1>3. CASE n = 2
  BY <1>3, DescribePlan DEF OrderedAt, Before, Copies, Tables
<1> QED
  BY <1>1, <1>2, <1>3

LEMMA ValidateOrdered == \A n \in 0..7 : OrderedAt(ValidateReads, n)
<1> SUFFICES ASSUME NEW n \in 0..7
             PROVE  OrderedAt(ValidateReads, n)
  OBVIOUS
<1>1. CASE n = 0
  BY <1>1, ValidatePlan DEF OrderedAt, Before, Copies, Tables
<1>2. CASE n = 1
  BY <1>2, ValidatePlan DEF OrderedAt, Before, Copies, Tables
<1>3. CASE n = 2
  BY <1>3, ValidatePlan DEF OrderedAt, Before, Copies, Tables
<1>4. CASE n = 3
  BY <1>4, ValidatePlan DEF OrderedAt, Before, Copies, Tables
<1>5. CASE n = 4
  BY <1>5, ValidatePlan DEF OrderedAt, Before, Copies, Tables
<1>6. CASE n = 5
  BY <1>6, ValidatePlan DEF OrderedAt, Before, Copies, Tables
<1>7. CASE n = 6
  BY <1>7, ValidatePlan DEF OrderedAt, Before, Copies, Tables
<1>8. CASE n = 7
  BY <1>8, ValidatePlan DEF OrderedAt, Before, Copies, Tables
<1> QED
  BY <1>1, <1>2, <1>3, <1>4, <1>5, <1>6, <1>7, <1>8

\* Every plan of a tool is ordered; an export reads all tables of its copies.
LEMMA PlansOrdered ==
  ASSUME NEW tool \in Tools
  PROVE  /\ Len(ReadsOf(tool)) \in Nat \ {0}
         /\ \A n \in 0..Len(ReadsOf(tool)) - 1 : OrderedAt(ReadsOf(tool), n)
<1>1. CASE tool = "evidence_pack"
  <2>1. ReadsOf(tool) = PackReads
    BY <1>1 DEF ReadsOf
  <2> QED
    BY <2>1, PackPlan, PackOrdered
<1>2. CASE tool = "evidence_pack_validate"
  <2>1. ReadsOf(tool) = ValidateReads
    BY <1>2 DEF ReadsOf, ValidateReads
  <2> QED
    BY <2>1, ValidatePlan, ValidateOrdered
<1>3. CASE tool = "state_describe"
  <2>1. ReadsOf(tool) = DescribeReads
    BY <1>3 DEF ReadsOf
  <2> QED
    BY <2>1, DescribePlan, DescribeOrdered
<1> QED
  BY <1>1, <1>2, <1>3 DEF Tools

\* What has been read when the tool has answered.
LEMMA AllRead ==
  ASSUME call.tool \in Tools, call.reads = << >>
  PROVE  /\ HasRead("pack", "task")
         /\ call.tool = "state_describe" => HasRead("pack", "reports")
         /\ call.tool # "state_describe" => \A x \in Tables \ {"reports"} : HasRead("pack", x)
         /\ call.tool = "evidence_pack_validate" =>
              \A x \in Tables \ {"reports"} : HasRead("check", x)
<1>1. CASE call.tool = "evidence_pack"
  <2>1. ReadsOf(call.tool) = PackReads /\ Sent = 4
    BY <1>1, PackPlan DEF ReadsOf, Sent
  <2> QED
    BY <1>1, <2>1, PackPlan DEF HasRead, Tables
<1>2. CASE call.tool = "evidence_pack_validate"
  <2>1. ReadsOf(call.tool) = ValidateReads /\ Sent = 8
    BY <1>2, ValidatePlan DEF ReadsOf, Sent, ValidateReads
  <2> QED
    BY <1>2, <2>1, ValidatePlan DEF HasRead, Tables
<1>3. CASE call.tool = "state_describe"
  <2>1. ReadsOf(call.tool) = DescribeReads /\ Sent = 3
    BY <1>3, DescribePlan DEF ReadsOf, Sent
  <2> QED
    BY <1>3, <2>1, DescribePlan DEF HasRead, Tables
<1> QED
  BY <1>1, <1>2, <1>3 DEF Tools

-----------------------------------------------------------------------------
(* What a copy says of the tables                                          *)

\* The fields of a copy, those that are sequences of rows typed.
CopyTyped(p) ==
  /\ p = [state |-> p.state, state_version |-> p.state_version, events |-> p.events,
          told_artifacts |-> p.told_artifacts, told_approvals |-> p.told_approvals,
          told_effects |-> p.told_effects, approvals |-> p.approvals,
          artifacts |-> p.artifacts, reports |-> p.reports]
  /\ p.state_version \in Nat
  /\ p.events \in Seq(EventRows)
  /\ p.told_artifacts \in Seq(ArtifactRows)
  /\ p.artifacts \in Seq(ArtifactRows)

\* A copy that is not torn, of a verified task: its log was read with the
\* artifacts that verify it.
Vouching(p) ==
  Len(p.events) = p.state_version + 1 /\ p.state \in VerifiedStates =>
    /\ PassesIn(p.told_artifacts) # {}
    /\ p.state = "EVIDENCE_PACKED" => "READONLY_VERIFIED" \in VisitedIn(p.events)

\* The row was the task at a version it has passed.
RowRead(c) ==
  HasRead(c, "task") =>
    /\ copy[c].state_version <= state_version[call.task]
    /\ copy[c].state = StateIn(events[call.task], copy[c].state_version)

\* The log is a prefix of the log, and reaches the row.
LogRead(c) ==
  HasRead(c, "events") =>
    /\ Prefix(copy[c].events, events[call.task])
    /\ copy[c].state_version < Len(copy[c].events)
    /\ Prefix(copy[c].told_artifacts, artifacts[call.task])
    /\ Older(copy[c].told_approvals, ApprovalsOf(call.task))
    /\ Vouching(copy[c])

\* The approvals only become older, and those that count are settled once the task is closed.
ApprovalsRead(c) ==
  HasRead(c, "approvals") =>
    /\ Older(copy[c].approvals, ApprovalsOf(call.task))
    /\ Older(copy[c].told_approvals, copy[c].approvals)
    /\ copy[c].state = "CLOSED" =>
         /\ state[call.task] = "CLOSED"
         /\ Settled(copy[c].approvals, ApprovalsOf(call.task))

\* The artifacts are a prefix of the artifacts, and all of them once the task is closed.
ArtifactsRead(c) ==
  HasRead(c, "artifacts") =>
    /\ Prefix(copy[c].artifacts, artifacts[call.task])
    /\ HasRead(c, "events") => Prefix(copy[c].told_artifacts, copy[c].artifacts)
    /\ copy[c].state = "CLOSED" =>
         state[call.task] = "CLOSED" /\ copy[c].artifacts = artifacts[call.task]

MayTrip(s) == TRANSITIONS[s] \intersect BREAKER_GUARDED_TARGETS # {}

\* The reports are those of the task for as long as the row is that of the task.
ReportsRead(c) ==
  HasRead(c, "reports") =>
    /\ copy[c].state_version <= state_version[call.task]
    /\ copy[c].state_version = state_version[call.task] =>
         /\ copy[c].state = state[call.task]
         /\ MayTrip(copy[c].state) => copy[c].reports = ReportsOf(call.task)

CopyInv(c) == RowRead(c) /\ LogRead(c) /\ ApprovalsRead(c) /\ ArtifactsRead(c) /\ ReportsRead(c)

\* The validation has read a log that is no older than the pack's.
CheckLater ==
  HasRead("check", "events") => Len(copy["pack"].events) <= Len(copy["check"].events)

ReaderInv ==
  /\ call = [tool |-> call.tool, task |-> call.task, reads |-> call.reads]
  /\ copy = [c \in Copies |-> copy[c]] /\ \A c \in Copies : CopyTyped(copy[c])
  /\ call.tool \notin Tools => call.reads = << >>
  /\ call.tool \in Tools => OnTrack /\ CheckLater /\ \A c \in Copies : CopyInv(c)

AuthorityInv == ChainInv /\ PackInv

ExportInv == AuthorityInv /\ ReaderInv

-----------------------------------------------------------------------------
(* Commits between the SELECTs                                             *)

LEMMA CommitKeepsCopies ==
  ASSUME AuthorityInv, [Next]_vars, UNCHANGED readVars, call.tool \in Tools, OnTrack,
         NEW c \in Copies, CopyTyped(copy[c]), CopyInv(c)
  PROVE  CopyInv(c)'
<1> DEFINE t == call.task
           p == copy[c]
<1>1. /\ call' = call /\ copy' = copy
      /\ t \in Tasks /\ Created(t) /\ ChainInv /\ TypeOK
  BY DEF readVars, OnTrack, AuthorityInv, ChainInv
<1>2. /\ state_version[t] <= state_version'[t]
      /\ Prefix(events[t], events'[t])
      /\ \A v \in 0..state_version[t] : StateIn(events'[t], v) = StateIn(events[t], v)
      /\ Prefix(artifacts[t], artifacts'[t])
      /\ Older(ApprovalsOf(t), ApprovalsOf(t)')
      /\ Created(t)'
  BY <1>1, TablesGrow
<1>3. ChainInv' /\ TypeOK'
  BY <1>1, NextChainInv DEF ChainInv
<1>4. /\ state_version[t] \in Nat /\ state_version'[t] \in Nat
      /\ Len(events[t]) \in Nat /\ Len(events'[t]) \in Nat
      /\ Len(artifacts[t]) \in Nat /\ Len(artifacts'[t]) \in Nat
  BY <1>1, <1>3 DEF TypeOK
<1>5. /\ Len(p.events) \in Nat /\ Len(p.told_artifacts) \in Nat /\ Len(p.artifacts) \in Nat
      /\ p.state_version \in Nat
  BY DEF CopyTyped
<1>6. \A x : HasRead(c, x)' <=> HasRead(c, x)
  BY <1>1 DEF HasRead, Sent
<1>7. RowRead(c)'
  BY <1>1, <1>2, <1>4, <1>5, <1>6 DEF CopyInv, RowRead
<1>8. LogRead(c)'
  <2> SUFFICES ASSUME HasRead(c, "events")
               PROVE  LogRead(c)'
    BY <1>6 DEF LogRead
  <2>1. /\ Prefix(p.events, events[t]) /\ Prefix(p.told_artifacts, artifacts[t])
        /\ Older(p.told_approvals, ApprovalsOf(t))
        /\ p.state_version < Len(p.events) /\ Vouching(p)
    BY DEF CopyInv, LogRead
  <2>2. Prefix(p.events, events'[t]) /\ Prefix(p.told_artifacts, artifacts'[t])
    BY <1>2, <1>4, <1>5, <2>1, PrefixTrans
  <2>3. Older(p.told_approvals, ApprovalsOf(t)')
    BY <1>2, <2>1, OlderTrans
  <2>4. ApprovalsOf(t)' = ApprovalsOf(call.task)'
    BY <1>1
  <2> QED
    BY <1>1, <2>1, <2>2, <2>3, <2>4 DEF LogRead
<1>9. ApprovalsRead(c)'
  <2> SUFFICES ASSUME HasRead(c, "approvals")
               PROVE  ApprovalsRead(c)'
    BY <1>6 DEF ApprovalsRead
  <2>1. /\ Older(p.approvals, ApprovalsOf(t)) /\ Older(p.told_approvals, p.approvals)
        /\ p.state = "CLOSED" => state[t] = "CLOSED" /\ Settled(p.approvals, ApprovalsOf(t))
    BY DEF CopyInv, ApprovalsRead
  <2>2. Older(p.approvals, ApprovalsOf(t)')
    BY <1>2, <2>1, OlderTrans
  <2>3. ASSUME p.state = "CLOSED"
        PROVE  state'[t] = "CLOSED" /\ Settled(p.approvals, ApprovalsOf(t)')
    <3>1. state'[t] = "CLOSED"
      BY <1>1, <2>1, <2>3, ClosedStands
    <3>2. Settled(ApprovalsOf(t), ApprovalsOf(t)')
      BY <1>1, <2>1, <2>3, ClosedSettles
    <3> QED
      BY <2>1, <2>3, <3>1, <3>2, SettledTrans
  <2>4. ApprovalsOf(t)' = ApprovalsOf(call.task)'
    BY <1>1
  <2> QED
    BY <1>1, <2>1, <2>2, <2>3, <2>4 DEF ApprovalsRead
<1>10. ArtifactsRead(c)'
  <2> SUFFICES ASSUME HasRead(c, "artifacts")
               PROVE  ArtifactsRead(c)'
    BY <1>6 DEF ArtifactsRead
  <2>1. /\ Prefix(p.artifacts, artifacts[t])
        /\ HasRead(c, "events") => Prefix(p.told_artifacts, p.artifacts)
        /\ p.state = "CLOSED" => state[t] = "CLOSED" /\ p.artifacts = artifacts[t]
    BY DEF CopyInv, ArtifactsRead
  <2>2. Prefix(p.artifacts, artifacts'[t])
    BY <1>2, <1>4, <1>5, <2>1, PrefixTrans
  <2>3. p.state = "CLOSED" => state'[t] = "CLOSED" /\ p.artifacts = artifacts'[t]
    BY <1>1, <2>1, ClosedStands
  <2> QED
    BY <1>1, <1>6, <2>1, <2>2, <2>3 DEF ArtifactsRead
<1>11. ReportsRead(c)'
  <2> SUFFICES ASSUME HasRead(c, "reports")
               PROVE  ReportsRead(c)'
    BY <1>6 DEF ReportsRead
  <2>1. /\ p.state_version <= state_version[t]
        /\ p.state_version = state_version[t] =>
             p.state = state[t] /\ (MayTrip(p.state) => p.reports = ReportsOf(t))
    BY DEF CopyInv, ReportsRead
  <2>2. p.state_version <= state_version'[t]
    BY <1>2, <1>4, <1>5, <2>1
  <2>3. ASSUME p.state_version = state_version'[t]
        PROVE  p.state = state'[t] /\ (MayTrip(p.state) => p.reports = ReportsOf(t)')
    <3>1. state_version'[t] = state_version[t] /\ p.state = state[t]
      BY <1>2, <1>4, <1>5, <2>1, <2>3
    <3>2. state'[t] = state[t]
      BY <1>1, <3>1, RowStands
    <3>3. MayTrip(p.state) => ReportsOf(t)' = ReportsOf(t)
      BY <1>1, <3>1, NoReportHere DEF MayTrip
    <3> QED
      BY <2>1, <3>1, <3>2, <3>3, <2>3
  <2> QED
    BY <1>1, <2>2, <2>3 DEF ReportsRead
<1> QED
  BY <1>7, <1>8, <1>9, <1>10, <1>11 DEF CopyInv

-----------------------------------------------------------------------------
(* One more SELECT                                                         *)

\* The step that sends the SELECT of this table for this copy, and what was
\* sent before it.
Reads(c, table) ==
  /\ copy' = [copy EXCEPT ![c] = Select(table, call.task, @)]
  /\ call'.tool = call.tool /\ call'.task = call.task
  /\ UNCHANGED <<vars, effect_events>>
  /\ \A d \in Copies, x \in Tables :
       HasRead(d, x)' <=> HasRead(d, x) \/ (d = c /\ x = table)
  /\ table # "task" => HasRead(c, "task")
  /\ \A x \in Tables : table \in {"task", x} => ~HasRead(c, x)
  /\ table = "events" => ~HasRead(c, "approvals") /\ ~HasRead(c, "artifacts")
  /\ table = "approvals" => HasRead(c, "events")
  /\ c = "check" => \A x \in Tables \ {"reports"} : HasRead("pack", x)
  /\ c = "pack" => \A x \in Tables : ~HasRead("check", x)

LEMMA ReadIsOrdered ==
  ASSUME ReaderInv, call.tool \in Tools, Read
  PROVE  OnTrack' /\ \E c \in Copies, table \in Tables : Reads(c, table)
<1>0. PICK plan, rest, n, task :
        /\ plan = ReadsOf(call.tool) /\ rest = call.reads /\ task = call.task
        /\ n = Len(plan) - Len(rest)
  OBVIOUS
<1>1. /\ rest # << >>
      /\ copy' = [copy EXCEPT ![Head(rest)[1]] = Select(Head(rest)[2], task, @)]
      /\ call' = [call EXCEPT !.reads = Tail(rest)]
      /\ UNCHANGED <<vars, effect_events>>
  BY <1>0 DEF Read
<1>2. call' = [tool |-> call.tool, task |-> task, reads |-> Tail(rest)]
  BY <1>0, <1>1 DEF ReaderInv
<1>3. /\ call'.tool = call.tool /\ call'.task = task /\ call'.reads = Tail(rest)
      /\ ReadsOf(call.tool)' = plan
  BY <1>0, <1>2 DEF ReadsOf
<1>4. /\ OnTrack /\ rest \in Seq(Copies \X Tables) /\ Len(rest) <= Len(plan)
      /\ \A i \in 1..Len(rest) : rest[i] = plan[n + i]
  BY <1>0 DEF ReaderInv, OnTrack, Sent
<1>5. /\ Len(plan) \in Nat \ {0} /\ \A m \in 0..Len(plan) - 1 : OrderedAt(plan, m)
  BY <1>0, PlansOrdered
<1>6. /\ Len(rest) \in Nat \ {0} /\ Tail(rest) \in Seq(Copies \X Tables)
      /\ Len(Tail(rest)) = Len(rest) - 1
      /\ \A i \in 1..Len(rest) - 1 : Tail(rest)[i] = rest[i + 1]
      /\ Head(rest) = rest[1]
  BY <1>1, <1>4
<1>7. n \in 0..Len(plan) - 1 /\ Head(rest) = plan[n + 1]
  <2>1. Len(plan) \in Nat /\ Len(rest) \in Nat /\ 1 <= Len(rest) /\ Len(rest) <= Len(plan)
    BY <1>4, <1>5, <1>6
  <2>2. n \in 0..Len(plan) - 1
    BY <1>0, <2>1
  <2>3. rest[1] = plan[n + 1]
    BY <1>4, <2>1
  <2> QED
    BY <1>6, <2>2, <2>3
<1>8. PICK c \in Copies, table \in Tables :
        /\ plan[n + 1] = <<c, table>>
        /\ table # "task" => Before(plan, n, c, "task")
        /\ \A x \in Tables : table \in {"task", x} => ~Before(plan, n, c, x)
        /\ table = "events" =>
             ~Before(plan, n, c, "approvals") /\ ~Before(plan, n, c, "artifacts")
        /\ table = "approvals" => Before(plan, n, c, "events")
        /\ c = "check" => \A x \in Tables \ {"reports"} : Before(plan, n, "pack", x)
        /\ c = "pack" => \A x \in Tables : ~Before(plan, n, "check", x)
  <2>1. OrderedAt(plan, n)
    BY <1>5, <1>7
  <2> QED
    BY <2>1 DEF OrderedAt
<1>9. \A d, x : HasRead(d, x) <=> Before(plan, n, d, x)
  BY <1>0 DEF HasRead, Before, Sent
<1>10. Sent' = n + 1
  <2>1. Sent' = Len(plan) - Len(Tail(rest))
    BY <1>3 DEF Sent
  <2>2. Len(plan) \in Nat /\ Len(rest) \in Nat /\ Len(Tail(rest)) = Len(rest) - 1
    BY <1>5, <1>6
  <2>3. n = Len(plan) - Len(rest)
    BY <1>0
  <2>4. ASSUME NEW a \in Nat, NEW b \in Nat, NEW d, d = b - 1
        PROVE  a - d = (a - b) + 1
    BY <2>4
  <2>5. Len(plan) - Len(Tail(rest)) = (Len(plan) - Len(rest)) + 1
    BY <2>2, <2>4
  <2> QED
    BY <2>1, <2>3, <2>5
<1>11. \A d, x : HasRead(d, x)' <=> Before(plan, n + 1, d, x)
  BY <1>3, <1>10 DEF HasRead, Before
<1>12. \A d, x : Before(plan, n + 1, d, x) <=> Before(plan, n, d, x) \/ plan[n + 1] = <<d, x>>
  <2>1. \A i : i \in 1..n + 1 <=> i \in 1..n \/ i = n + 1
    BY <1>7
  <2> QED
    BY <2>1 DEF Before
<1>13. OnTrack'
  <2>1. Len(Tail(rest)) <= Len(plan)
    BY <1>4, <1>5, <1>6
  <2>2. ASSUME NEW i \in 1..Len(Tail(rest))
        PROVE  Tail(rest)[i] = plan[n + 1 + i]
    <3>1. i \in Nat /\ 1 <= i /\ i <= Len(rest) - 1 /\ n \in Nat
      BY <1>6, <1>7
    <3>2. Tail(rest)[i] = rest[i + 1]
      BY <1>6, <3>1
    <3>3. rest[i + 1] = plan[n + (i + 1)]
      BY <1>4, <1>6, <3>1
    <3>4. n + (i + 1) = n + 1 + i
      BY <3>1
    <3> QED
      BY <3>2, <3>3, <3>4
  <2>4. Created(call.task)' /\ call'.task \in Tasks
    BY <1>0, <1>1, <1>3, <1>4 DEF OnTrack, Created, vars
  <2> QED
    BY <1>3, <1>6, <1>10, <2>1, <2>2, <2>4 DEF OnTrack
<1>14. Reads(c, table)
  <2>1. copy' = [copy EXCEPT ![c] = Select(table, call.task, @)]
    <3>1. Head(rest)[1] = c /\ Head(rest)[2] = table
      BY <1>7, <1>8
    <3>2. copy' = [copy EXCEPT ![Head(rest)[1]] = Select(Head(rest)[2], call.task, @)]
      BY <1>0, <1>1
    <3> QED
      BY <3>1, <3>2
  <2>2. \A d \in Copies, x \in Tables :
          HasRead(d, x)' <=> HasRead(d, x) \/ (d = c /\ x = table)
    BY <1>8, <1>9, <1>11, <1>12
  <2>3. HasRead(c, "task") <=> Before(plan, n, c, "task")
    BY <1>9
  <2> HIDE DEF HasRead
  <2> QED
    BY <1>0, <1>1, <1>3, <1>8, <1>9, <2>1, <2>2 DEF Reads
<1> QED
  BY <1>13, <1>14

\* What a SELECT changes in a copy: the fields of its table.
LEMMA SelectFields ==
  ASSUME TypeOK, NEW t \in Tasks, NEW p, CopyTyped(p), NEW x \in Tables, NEW q, q = Select(x, t, p)
  PROVE  /\ CopyTyped(q)
         /\ q.state = IF x = "task" THEN state[t] ELSE p.state
         /\ q.state_version = IF x = "task" THEN state_version[t] ELSE p.state_version
         /\ q.events = IF x = "events" THEN events[t] ELSE p.events
         /\ q.told_artifacts = IF x = "events" THEN artifacts[t] ELSE p.told_artifacts
         /\ q.told_approvals = IF x = "events" THEN ApprovalsOf(t) ELSE p.told_approvals
         /\ q.told_effects = IF x = "events" THEN effect_events[t] ELSE p.told_effects
         /\ q.approvals = IF x = "approvals" THEN ApprovalsOf(t) ELSE p.approvals
         /\ q.artifacts = IF x = "artifacts" THEN artifacts[t] ELSE p.artifacts
         /\ q.reports = IF x = "reports" THEN ReportsOf(t) ELSE p.reports
<1>1. /\ state_version[t] \in Nat /\ events[t] \in Seq(EventRows)
      /\ artifacts[t] \in Seq(ArtifactRows)
  BY BoundsAssumption DEF TypeOK
<1> HIDE DEF EventRows, ArtifactRows
<1>2. CASE x = "task"
  <2>1. q = [p EXCEPT !.state = state[t], !.state_version = state_version[t]]
    BY <1>2 DEF Select
  <2> QED
    BY <1>1, <1>2, <2>1 DEF CopyTyped
<1>3. CASE x = "events"
  <2>1. q = [p EXCEPT !.events = events[t], !.told_artifacts = artifacts[t],
                      !.told_approvals = ApprovalsOf(t),
                      !.told_effects = effect_events[t]]
    BY <1>3 DEF Select
  <2> QED
    BY <1>1, <1>3, <2>1 DEF CopyTyped
<1>4. CASE x = "approvals"
  <2>1. q = [p EXCEPT !.approvals = ApprovalsOf(t)]
    BY <1>4 DEF Select
  <2> QED
    BY <1>1, <1>4, <2>1 DEF CopyTyped
<1>5. CASE x = "artifacts"
  <2>1. q = [p EXCEPT !.artifacts = artifacts[t]]
    BY <1>5 DEF Select
  <2> QED
    BY <1>1, <1>5, <2>1 DEF CopyTyped
<1>6. CASE x = "reports"
  <2>1. q = [p EXCEPT !.reports = ReportsOf(t)]
    BY <1>6 DEF Select
  <2> QED
    BY <1>1, <1>6, <2>1 DEF CopyTyped
<1> QED
  BY <1>2, <1>3, <1>4, <1>5, <1>6 DEF Tables

\* The stored row stands at the end of the stored log, and a verified task is vouched for.
LEMMA Moment ==
  ASSUME AuthorityInv, NEW t \in Tasks, Created(t)
  PROVE  /\ Len(events[t]) = state_version[t] + 1 /\ state_version[t] \in Nat
         /\ state[t] = StateIn(events[t], state_version[t])
         /\ state[t] \in VerifiedStates => PassesIn(artifacts[t]) # {}
         /\ state[t] = "EVIDENCE_PACKED" => "READONLY_VERIFIED" \in VisitedIn(events[t])
<1>1. TypeOK /\ Chained(t) /\ Vouched(t)
  BY DEF AuthorityInv, ChainInv, PackInv
<1>2. Visited(t) = VisitedIn(events[t])
  BY DEF Visited, VisitedIn, Steps, StepsIn
<1>3. PassRows(t) = PassesIn(artifacts[t])
  BY DEF PassRows, PassesIn, Rows, ReportsIn
<1> QED
  BY <1>1, <1>2, <1>3, Lengths DEF Chained, StateAt, StateIn, Vouched

\* Nothing follows CLOSED in a log.
LEMMA ClosedIsLast ==
  ASSUME AuthorityInv, NEW t \in Tasks, Created(t), NEW v \in 0..state_version[t],
         StateIn(events[t], v) = "CLOSED"
  PROVE  v = state_version[t] /\ state[t] = "CLOSED"
<1>1. TypeOK /\ Chained(t)
  BY DEF AuthorityInv, ChainInv
<1>2. Len(events[t]) = state_version[t] + 1 /\ state_version[t] \in Nat
      /\ state[t] = StateIn(events[t], state_version[t])
  BY Moment
<1>3. ASSUME v # state_version[t]
      PROVE  FALSE
  <2>1. v + 2 \in 2..Len(events[t])
    BY <1>2, <1>3
  <2>2. /\ events[t][v + 2].source = StateAt(t, (v + 2) - 2)
        /\ events[t][v + 2].target \in TRANSITIONS[events[t][v + 2].source]
    BY <1>1, <2>1 DEF Chained
  <2>3. (v + 2) - 2 = v
    OBVIOUS
  <2>4. StateAt(t, v) = "CLOSED"
    BY DEF StateAt, StateIn
  <2> QED
    BY <2>2, <2>3, <2>4 DEF TRANSITIONS
<1> QED
  BY <1>2, <1>3

\* What the SELECT of table x for copy c leaves of copy d.
LEMMA ReadKeepsCopies ==
  ASSUME AuthorityInv, ReaderInv, call.tool \in Tools, NEW c \in Copies, NEW x \in Tables,
         Reads(c, x), NEW d \in Copies
  PROVE  CopyTyped(copy[d])' /\ CopyInv(d)'
<1>0. PICK t, p, q : t = call.task /\ p = copy[d] /\ q = copy'[d]
  OBVIOUS
<1>1. /\ t \in Tasks /\ Created(t) /\ TypeOK /\ CopyTyped(p) /\ CopyInv(d)
      /\ call'.task = t /\ state' = state /\ state_version' = state_version
      /\ events' = events /\ artifacts' = artifacts /\ approvals' = approvals
      /\ copy' = [copy EXCEPT ![c] = Select(x, t, copy[c])]
      /\ copy = [e \in Copies |-> copy[e]]
  BY <1>0 DEF ReaderInv, OnTrack, AuthorityInv, ChainInv, Reads, vars
<1>2. ApprovalsOf(t)' = ApprovalsOf(t) /\ ReportsOf(t)' = ReportsOf(t)
  BY <1>1 DEF ApprovalsOf, ReportsOf, Rows
<1>3. \A y \in Tables : HasRead(d, y)' <=> HasRead(d, y) \/ (d = c /\ y = x)
  BY DEF Reads
<1>4. "task" \in Tables /\ "events" \in Tables /\ "approvals" \in Tables
      /\ "artifacts" \in Tables /\ "reports" \in Tables
  BY DEF Tables
<1>5. CASE d # c
  <2>1. q = p
    BY <1>0, <1>1, <1>5
  <2>2. \A y \in Tables : HasRead(d, y)' <=> HasRead(d, y)
    BY <1>3, <1>5
  <2>3. CopyTyped(copy[d])'
    BY <1>0, <1>1, <2>1
  <2>4. RowRead(d)'
    BY <1>0, <1>1, <1>4, <2>1, <2>2 DEF CopyInv, RowRead
  <2>5. LogRead(d)'
    BY <1>0, <1>1, <1>2, <1>4, <2>1, <2>2 DEF CopyInv, LogRead
  <2>6. ApprovalsRead(d)'
    BY <1>0, <1>1, <1>2, <1>4, <2>1, <2>2 DEF CopyInv, ApprovalsRead
  <2>7. ArtifactsRead(d)'
    BY <1>0, <1>1, <1>4, <2>1, <2>2 DEF CopyInv, ArtifactsRead
  <2>8. ReportsRead(d)'
    BY <1>0, <1>1, <1>2, <1>4, <2>1, <2>2 DEF CopyInv, ReportsRead
  <2> QED
    BY <2>3, <2>4, <2>5, <2>6, <2>7, <2>8 DEF CopyInv
<1>6. CASE d = c
  <2>1. q = Select(x, t, p)
    BY <1>0, <1>1, <1>6
  <2>2. /\ CopyTyped(q)
        /\ q.state = IF x = "task" THEN state[t] ELSE p.state
        /\ q.state_version = IF x = "task" THEN state_version[t] ELSE p.state_version
        /\ q.events = IF x = "events" THEN events[t] ELSE p.events
        /\ q.told_artifacts = IF x = "events" THEN artifacts[t] ELSE p.told_artifacts
        /\ q.told_approvals = IF x = "events" THEN ApprovalsOf(t) ELSE p.told_approvals
        /\ q.approvals = IF x = "approvals" THEN ApprovalsOf(t) ELSE p.approvals
        /\ q.artifacts = IF x = "artifacts" THEN artifacts[t] ELSE p.artifacts
        /\ q.reports = IF x = "reports" THEN ReportsOf(t) ELSE p.reports
    BY <1>1, <2>1, SelectFields
  <2>3. \A y \in Tables : HasRead(d, y)' <=> HasRead(d, y) \/ y = x
    BY <1>3, <1>6
  <2>4. /\ x # "task" => HasRead(d, "task")
        /\ \A y \in Tables : x \in {"task", y} => ~HasRead(d, y)
        /\ x = "events" => ~HasRead(d, "approvals") /\ ~HasRead(d, "artifacts")
        /\ x = "approvals" => HasRead(d, "events")
    BY <1>6 DEF Reads
  <2>5. /\ Len(events[t]) = state_version[t] + 1 /\ state_version[t] \in Nat
        /\ state[t] = StateIn(events[t], state_version[t])
        /\ state[t] \in VerifiedStates => PassesIn(artifacts[t]) # {}
        /\ state[t] = "EVIDENCE_PACKED" => "READONLY_VERIFIED" \in VisitedIn(events[t])
    BY <1>1, Moment
  <2>6. p.state_version \in Nat
    BY <1>1 DEF CopyTyped
  <2>7. CopyTyped(copy[d])'
    BY <1>0, <2>2
  <2>8. RowRead(d)'
    BY <1>0, <1>1, <1>4, <2>2, <2>3, <2>5 DEF CopyInv, RowRead
  <2>9. LogRead(d)'
    <3>1. CASE x = "events"
      <4>1. /\ p.state_version <= state_version[t]
            /\ p.state = StateIn(events[t], p.state_version)
        BY <1>0, <1>1, <2>4, <3>1 DEF CopyInv, RowRead
      <4>2. /\ q.state = p.state /\ q.state_version = p.state_version
            /\ q.events = events[t] /\ q.told_artifacts = artifacts[t]
            /\ q.told_approvals = ApprovalsOf(t)
        BY <2>2, <3>1
      <4>3. Prefix(q.events, events[t]) /\ Prefix(q.told_artifacts, artifacts[t])
        BY <1>1, <4>2, Lengths DEF Prefix
      <4>4. Older(q.told_approvals, ApprovalsOf(t))
        BY <4>2 DEF Older
      <4>5. q.state_version < Len(q.events)
        BY <2>5, <2>6, <4>1, <4>2
      <4>6. Vouching(q)
        <5> SUFFICES ASSUME Len(q.events) = q.state_version + 1
                     PROVE  q.state = state[t]
          BY <2>5, <4>2 DEF Vouching
        <5>1. p.state_version = state_version[t]
          BY <2>5, <2>6, <4>2
        <5> QED
          BY <2>5, <4>1, <4>2, <5>1
      <4> QED
        BY <1>0, <1>1, <1>2, <4>3, <4>4, <4>5, <4>6 DEF LogRead
    <3>2. CASE x # "events" /\ HasRead(d, "events")
      <4>1. x # "task"
        BY <1>4, <2>4, <3>2
      <4>2. /\ q.state = p.state /\ q.state_version = p.state_version
            /\ q.events = p.events /\ q.told_artifacts = p.told_artifacts
            /\ q.told_approvals = p.told_approvals
        BY <2>2, <3>2, <4>1
      <4>3. /\ Prefix(p.events, events[t]) /\ p.state_version < Len(p.events)
            /\ Prefix(p.told_artifacts, artifacts[t])
            /\ Older(p.told_approvals, ApprovalsOf(t)) /\ Vouching(p)
        BY <1>0, <1>1, <3>2 DEF CopyInv, LogRead
      <4>4. Vouching(q)
        BY <4>2, <4>3 DEF Vouching
      <4> QED
        BY <1>0, <1>1, <1>2, <4>2, <4>3, <4>4 DEF LogRead
    <3>3. CASE x # "events" /\ ~HasRead(d, "events")
      BY <1>4, <2>3, <3>3 DEF LogRead
    <3> QED
      BY <3>1, <3>2, <3>3
  <2>10. ApprovalsRead(d)'
    <3>1. CASE x = "approvals"
      <4>1. /\ q.approvals = ApprovalsOf(t) /\ q.told_approvals = p.told_approvals
        BY <2>2, <3>1
      <4>2. Older(p.told_approvals, ApprovalsOf(t))
        BY <1>0, <1>1, <2>4, <3>1 DEF CopyInv, LogRead
      <4>3. Older(q.approvals, ApprovalsOf(t)) /\ Settled(q.approvals, ApprovalsOf(t))
        BY <4>1 DEF Older, Settled
      <4>4. q.state = "CLOSED" => state[t] = "CLOSED"
        <5>1. p.state_version <= state_version[t] /\ p.state = StateIn(events[t], p.state_version)
          BY <1>0, <1>1, <2>4, <3>1 DEF CopyInv, RowRead
        <5>2. p.state_version \in 0..state_version[t] /\ q.state = p.state
          BY <2>2, <2>5, <2>6, <3>1, <5>1
        <5> QED
          BY <1>1, <5>1, <5>2, ClosedIsLast
      <4> QED
        BY <1>0, <1>1, <1>2, <4>1, <4>2, <4>3, <4>4 DEF ApprovalsRead
    <3>2. CASE x # "approvals" /\ HasRead(d, "approvals")
      <4>1. x # "task" /\ x # "events"
        BY <1>4, <2>4, <3>2
      <4>2. /\ q.approvals = p.approvals /\ q.told_approvals = p.told_approvals
            /\ q.state = p.state
        BY <2>2, <3>2, <4>1
      <4> QED
        BY <1>0, <1>1, <1>2, <3>2, <4>2 DEF CopyInv, ApprovalsRead
    <3>3. CASE x # "approvals" /\ ~HasRead(d, "approvals")
      BY <1>4, <2>3, <3>3 DEF ApprovalsRead
    <3> QED
      BY <3>1, <3>2, <3>3
  <2>11. ArtifactsRead(d)'
    <3>1. CASE x = "artifacts"
      <4>1. /\ q.artifacts = artifacts[t] /\ q.told_artifacts = p.told_artifacts
            /\ q.state = p.state
        BY <2>2, <3>1
      <4>2. Prefix(q.artifacts, artifacts[t])
        BY <1>1, <4>1, Lengths DEF Prefix
      <4>3. HasRead(d, "events") => Prefix(q.told_artifacts, q.artifacts)
        BY <1>0, <1>1, <4>1 DEF CopyInv, LogRead
      <4>4. q.state = "CLOSED" => state[t] = "CLOSED"
        <5>1. p.state_version <= state_version[t] /\ p.state = StateIn(events[t], p.state_version)
          BY <1>0, <1>1, <2>4, <3>1 DEF CopyInv, RowRead
        <5>2. p.state_version \in 0..state_version[t]
          BY <2>5, <2>6, <5>1
        <5> QED
          BY <1>1, <4>1, <5>1, <5>2, ClosedIsLast
      <4>5. HasRead(d, "events")' <=> HasRead(d, "events")
        BY <1>4, <2>3, <3>1
      <4> QED
        BY <1>0, <1>1, <4>1, <4>2, <4>3, <4>4, <4>5 DEF ArtifactsRead
    <3>2. CASE x # "artifacts" /\ HasRead(d, "artifacts")
      <4>1. x # "task" /\ x # "events"
        BY <1>4, <2>4, <3>2
      <4>2. q.artifacts = p.artifacts /\ q.told_artifacts = p.told_artifacts /\ q.state = p.state
        BY <2>2, <3>2, <4>1
      <4>3. HasRead(d, "events")' <=> HasRead(d, "events")
        BY <1>4, <2>3, <4>1
      <4> QED
        BY <1>0, <1>1, <3>2, <4>2, <4>3 DEF CopyInv, ArtifactsRead
    <3>3. CASE x # "artifacts" /\ ~HasRead(d, "artifacts")
      BY <1>4, <2>3, <3>3 DEF ArtifactsRead
    <3> QED
      BY <3>1, <3>2, <3>3
  <2>12. ReportsRead(d)'
    <3>1. CASE x = "reports"
      <4>1. /\ q.reports = ReportsOf(t) /\ q.state = p.state
            /\ q.state_version = p.state_version
        BY <2>2, <3>1
      <4>2. p.state_version <= state_version[t] /\ p.state = StateIn(events[t], p.state_version)
        BY <1>0, <1>1, <2>4, <3>1 DEF CopyInv, RowRead
      <4> QED
        BY <1>0, <1>1, <1>2, <2>5, <4>1, <4>2 DEF ReportsRead
    <3>2. CASE x # "reports" /\ HasRead(d, "reports")
      <4>1. x # "task"
        BY <1>4, <2>4, <3>2
      <4>2. q.reports = p.reports /\ q.state = p.state /\ q.state_version = p.state_version
        BY <2>2, <3>2, <4>1
      <4> QED
        BY <1>0, <1>1, <1>2, <3>2, <4>2 DEF CopyInv, ReportsRead
    <3>3. CASE x # "reports" /\ ~HasRead(d, "reports")
      BY <1>4, <2>3, <3>3 DEF ReportsRead
    <3> QED
      BY <3>1, <3>2, <3>3
  <2> QED
    BY <2>7, <2>8, <2>9, <2>10, <2>11, <2>12 DEF CopyInv
<1> QED
  BY <1>5, <1>6

LEMMA ReadKeepsReaderInv ==
  ASSUME AuthorityInv, ReaderInv, Read
  PROVE  ReaderInv'
<1>1. call.tool \in Tools
  BY DEF ReaderInv, Read
<1>2. OnTrack' /\ \E c \in Copies, x \in Tables : Reads(c, x)
  BY <1>1, ReadIsOrdered
<1>3. PICK c \in Copies, x \in Tables : Reads(c, x)
  BY <1>2
<1>4. \A d \in Copies : CopyTyped(copy[d])' /\ CopyInv(d)'
  BY <1>1, <1>3, ReadKeepsCopies
<1>5. call' = [tool |-> call'.tool, task |-> call'.task, reads |-> call'.reads]
      /\ call'.tool = call.tool
  BY DEF ReaderInv, Read
<1>6. copy' = [d \in Copies |-> copy'[d]]
  BY <1>3 DEF ReaderInv, Reads
<1>7. CheckLater'
  <2> SUFFICES ASSUME HasRead("check", "events")'
               PROVE  CheckLater'
    BY DEF CheckLater
  <2>1. "check" \in Copies /\ "pack" \in Copies /\ "events" \in Tables
    BY DEF Copies, Tables
  <2>2. c = "check"
    <3>1. CASE c = "pack"
      <4>1. ~HasRead("check", "events")
        BY <1>3, <2>1, <3>1 DEF Reads
      <4>2. HasRead("check", "events")' <=> HasRead("check", "events") \/ ("check" = c /\ "events" = x)
        BY <1>3, <2>1 DEF Reads
      <4> QED
        BY <3>1, <4>1, <4>2
    <3> QED
      BY <3>1 DEF Copies
  <2>3. HasRead("pack", "events")'
    <3>1. HasRead("pack", "events")
      BY <1>3, <2>1, <2>2 DEF Reads
    <3> QED
      BY <1>3, <2>1, <3>1 DEF Reads
  <2>4. Prefix(copy["pack"].events, events[call.task])
    <3>1. HasRead("pack", "events")
      BY <1>3, <2>1, <2>2 DEF Reads
    <3> QED
      BY <1>1, <2>1, <3>1 DEF ReaderInv, CopyInv, LogRead
  <2>5. copy'["pack"] = copy["pack"]
    BY <1>3, <2>1, <2>2 DEF Reads, ReaderInv
  <2>6. CASE x = "events"
    <3>1. copy'["check"] = Select(x, call.task, copy["check"])
      BY <1>3, <2>1, <2>2 DEF Reads, ReaderInv
    <3>2. call.task \in Tasks /\ TypeOK /\ CopyTyped(copy["check"])
      BY <1>1, <2>1 DEF ReaderInv, OnTrack, AuthorityInv, ChainInv
    <3>3. copy'["check"].events = events[call.task]
      BY <2>6, <3>1, <3>2, SelectFields
    <3> QED
      BY <2>4, <2>5, <3>3 DEF CheckLater, Prefix
  <2>7. CASE x # "events"
    <3>1. HasRead("check", "events")
      BY <1>3, <2>1, <2>7 DEF Reads
    <3>2. Len(copy["pack"].events) <= Len(copy["check"].events)
      BY <1>1, <3>1 DEF ReaderInv, CheckLater
    <3>3. copy'["check"] = Select(x, call.task, copy["check"])
      BY <1>3, <2>1, <2>2 DEF Reads, ReaderInv
    <3>4. call.task \in Tasks /\ TypeOK /\ CopyTyped(copy["check"])
      BY <1>1, <2>1 DEF ReaderInv, OnTrack, AuthorityInv, ChainInv
    <3>5. copy'["check"].events = copy["check"].events
      BY <2>7, <3>3, <3>4, SelectFields
    <3> QED
      BY <2>5, <3>2, <3>5 DEF CheckLater
  <2> QED
    BY <2>6, <2>7
<1> QED
  BY <1>1, <1>2, <1>4, <1>5, <1>6, <1>7 DEF ReaderInv

LEMMA UnreadTyped == CopyTyped(Unread)
<1>1. << >> \in Seq(EventRows) /\ << >> \in Seq(ArtifactRows)
  OBVIOUS
<1> HIDE DEF EventRows, ArtifactRows
<1> QED
  BY <1>1 DEF CopyTyped, Unread

\* Before its first SELECT a call has read nothing.
LEMMA CallReaderInv ==
  ASSUME ReaderInv, AuthorityInv, NEW tool \in Tools, NEW t \in Tasks, Call(tool, t)
  PROVE  ReaderInv'
<1>1. /\ call' = [tool |-> tool, task |-> t, reads |-> ReadsOf(tool)]
      /\ copy' = [c \in Copies |-> Unread]
      /\ Created(t) /\ UNCHANGED <<vars, effect_events>>
  BY DEF Call
<1>2. call'.tool = tool /\ call'.task = t /\ call'.reads = ReadsOf(tool)
      /\ ReadsOf(call.tool)' = ReadsOf(tool)
  BY <1>1 DEF ReadsOf
<1>3. ReadsOf(tool) \in Seq(Copies \X Tables) /\ Len(ReadsOf(tool)) \in Nat
  <2>1. PackReads \in Seq(Copies \X Tables)
    BY DEF PackReads, Copies, Tables
  <2>2. CheckReads \in Seq(Copies \X Tables)
    BY DEF CheckReads, Copies, Tables
  <2>3. DescribeReads \in Seq(Copies \X Tables)
    BY DEF DescribeReads, Copies, Tables
  <2>4. PackReads \o CheckReads \in Seq(Copies \X Tables)
    BY <2>1, <2>2
  <2>5. ReadsOf(tool) \in Seq(Copies \X Tables)
    BY <2>1, <2>3, <2>4 DEF ReadsOf, Tools
  <2> QED
    BY <2>5
<1>4. Sent' = 0
  <2>1. Sent' = Len(ReadsOf(tool)) - Len(ReadsOf(tool))
    BY <1>2 DEF Sent
  <2> QED
    BY <1>3, <2>1
<1>5. \A c, x : ~HasRead(c, x)'
  BY <1>4 DEF HasRead
<1>6. OnTrack'
  <2>1. Created(call.task)' /\ call'.task \in Tasks
    BY <1>1, <1>2 DEF Created, vars
  <2>2. \A i \in 1..Len(ReadsOf(tool)) : ReadsOf(tool)[i] = ReadsOf(tool)[0 + i]
    BY <1>3
  <2> QED
    BY <1>2, <1>3, <1>4, <2>1, <2>2 DEF OnTrack
<1>7. \A c \in Copies : CopyTyped(copy[c])' /\ CopyInv(c)'
  BY <1>1, <1>5, UnreadTyped
  DEF CopyInv, RowRead, LogRead, ApprovalsRead, ArtifactsRead, ReportsRead
<1>8. CheckLater'
  BY <1>5 DEF CheckLater
<1> QED
  BY <1>1, <1>2, <1>6, <1>7, <1>8 DEF ReaderInv

\* Commits run between the SELECTs.
LEMMA CommitReaderInv ==
  ASSUME ReaderInv, AuthorityInv, [Next]_vars, UNCHANGED readVars
  PROVE  ReaderInv'
<1>1. call' = call /\ copy' = copy
  BY DEF readVars
<1>2. CASE call.tool \notin Tools
  BY <1>1, <1>2 DEF ReaderInv, CopyTyped
<1>3. CASE call.tool \in Tools
  <2>1. OnTrack /\ CheckLater /\ \A c \in Copies : CopyTyped(copy[c]) /\ CopyInv(c)
    BY <1>3 DEF ReaderInv
  <2>2. \A c \in Copies : CopyInv(c)'
    BY <1>3, <2>1, CommitKeepsCopies
  <2>3. Created(call.task)'
    <3>1. call.task \in Tasks /\ Created(call.task)
      BY <2>1 DEF OnTrack
    <3> QED
      BY <1>1, <3>1, TablesGrow DEF AuthorityInv, Created
  <2>4. OnTrack'
    BY <1>1, <2>1, <2>3 DEF OnTrack, Sent
  <2>5. CheckLater'
    BY <1>1, <2>1 DEF CheckLater, HasRead, Sent
  <2>6. \A c \in Copies : CopyTyped(copy[c])'
    BY <1>1, <2>1 DEF CopyTyped
  <2> QED
    BY <1>1, <1>3, <2>2, <2>4, <2>5, <2>6 DEF ReaderInv
<1> QED
  BY <1>2, <1>3

LEMMA InitExportInv == ExportInit => ExportInv
<1> SUFFICES ASSUME Init, InitReader
             PROVE  ReaderInv
  BY InitChainInv, InitPackInv DEF ExportInit, ExportInv, AuthorityInv
<1>1. "none" \notin Tools
  BY DEF Tools
<1> QED
  BY <1>1, UnreadTyped DEF InitReader, ReaderInv

LEMMA NextExportInv == ExportInv /\ [ExportNext]_allVars => ExportInv'
<1> SUFFICES ASSUME AuthorityInv, ReaderInv, [ExportNext]_allVars
             PROVE  AuthorityInv' /\ ReaderInv'
  BY DEF ExportInv
<1>1. [Next]_vars
  BY DEF ExportNext, RecordSideEffect, Call, Read, allVars
<1>2. AuthorityInv'
  BY <1>1, NextChainInv, NextPackInv DEF AuthorityInv
<1>3. CASE UNCHANGED readVars
  BY <1>2, <1>1, <1>3, CommitReaderInv
<1>4. CASE \E tool \in Tools, t \in Tasks : Call(tool, t)
  BY <1>2, <1>4, CallReaderInv
<1>5. CASE Read
  BY <1>2, <1>5, ReadKeepsReaderInv
<1>6. CASE \E t \in Tasks, actor \in Actors, type \in {"SIDE_EFFECT_INTENT", "SIDE_EFFECT_RESULT"} :
             RecordSideEffect(t, actor, type)
  BY <1>3, <1>6 DEF RecordSideEffect
<1> QED
  BY <1>2, <1>3, <1>4, <1>5, <1>6 DEF ExportNext, allVars

LEMMA ExportInvAlways == ExportSpec => []ExportInv
BY InitExportInv, NextExportInv, PTL DEF ExportSpec

-----------------------------------------------------------------------------
(* What the answer can be trusted for                                      *)

\* The log of a copy is an unbroken chain, and the row of the copy stands in it;
\* a copy whose log ends there replays.
LEMMA CopyChain ==
  ASSUME AuthorityInv, ReaderInv, call.tool \in Tools, NEW c \in Copies,
         HasRead(c, "task"), HasRead(c, "events"),
         NEW p, p = copy[c]
  PROVE  /\ StepsIn(p.events) = 2..Len(p.events)
         /\ Cardinality(StepsIn(p.events)) = Len(p.events) - 1
         /\ p.state_version \in Nat /\ Len(p.events) \in Nat
         /\ p.state_version < Len(p.events)
         /\ p.state = StateIn(p.events, p.state_version)
         /\ \A i \in StepsIn(p.events) : p.events[i].source = StateIn(p.events, i - 2)
         /\ Len(p.events) = p.state_version + 1 => Replays(p)
<1>0. PICK t, log : t = call.task /\ log = events[call.task]
  OBVIOUS
<1>1. /\ t \in Tasks /\ TypeOK /\ Chained(t) /\ CopyTyped(p) /\ RowRead(c) /\ LogRead(c)
  BY <1>0 DEF AuthorityInv, ChainInv, ReaderInv, OnTrack, CopyInv
<1>2. /\ p.events \in Seq(EventRows) /\ p.state_version \in Nat
      /\ Len(p.events) \in Nat /\ DOMAIN p.events = 1..Len(p.events)
  BY <1>1 DEF CopyTyped
<1>3. /\ Len(p.events) <= Len(log) /\ \A i \in 1..Len(p.events) : log[i] = p.events[i]
      /\ p.state_version < Len(p.events)
      /\ p.state = StateIn(log, p.state_version)
  BY <1>0, <1>1 DEF RowRead, LogRead, Prefix
<1>4. Len(log) \in Nat
  BY <1>0, <1>1, Lengths
<1>5. \A v \in 0..Len(p.events) - 1 : StateIn(p.events, v) = StateIn(log, v)
  BY <1>2, <1>3 DEF StateIn
<1>6. p.events[1].event_type = "TASK_CREATED" /\ 1 \in 1..Len(p.events)
  BY <1>0, <1>1, <1>2, <1>3 DEF Chained
<1>7. ASSUME NEW i \in 2..Len(p.events)
      PROVE  /\ p.events[i].event_type = "STATE_TRANSITION"
             /\ p.events[i].state_version = i - 1
             /\ p.events[i].source = StateIn(p.events, i - 2)
             /\ p.events[i].source \in States
             /\ p.events[i].target \in TRANSITIONS[p.events[i].source]
             /\ p.events[i].target \in ACTOR_TARGETS[p.events[i].actor]
  <2>1. i \in 2..Len(log) /\ i \in 1..Len(p.events) /\ i - 2 \in 0..Len(p.events) - 1
    BY <1>2, <1>3, <1>4
  <2>2. p.events[i] = log[i]
    BY <1>3, <2>1
  <2>3. /\ log[i].event_type = "STATE_TRANSITION"
        /\ log[i].state_version = i - 1
        /\ log[i].source = StateIn(log, i - 2)
        /\ log[i].source \in States
        /\ log[i].target \in TRANSITIONS[log[i].source]
        /\ log[i].target \in ACTOR_TARGETS[log[i].actor]
    BY <1>0, <1>1, <2>1 DEF Chained, StateAt, StateIn
  <2> QED
    BY <1>5, <2>1, <2>2, <2>3
<1>8. StepsIn(p.events) = 2..Len(p.events)
  <2>1. \A i \in 1..Len(p.events) : i = 1 \/ i \in 2..Len(p.events)
    BY <1>2
  <2> QED
    BY <1>2, <1>6, <1>7, <2>1 DEF StepsIn
<1>9. Cardinality(2..Len(p.events)) = Len(p.events) - 1
  <2>1. Len(p.events) >= 1
    BY <1>2, <1>3
  <2> QED
    BY <1>2, <2>1, FS_Interval
<1>10. p.state = StateIn(p.events, p.state_version)
  BY <1>2, <1>3, <1>5
<1>11. ASSUME Len(p.events) = p.state_version + 1
       PROVE  Replays(p)
  <2>1. p.events # << >>
    BY <1>2, <1>6
  <2>2. p.state_version = Cardinality(StepsIn(p.events))
    BY <1>2, <1>8, <1>9, <1>11
  <2> QED
    BY <1>6, <1>7, <1>8, <1>10, <2>1, <2>2 DEF Replays
<1> QED
  BY <1>2, <1>3, <1>7, <1>8, <1>9, <1>10, <1>11

\* The rows of a copy are well formed and its decisions evidenced.
LEMMA CopySound ==
  ASSUME AuthorityInv, ReaderInv, call.tool \in Tools, NEW c \in Copies
  PROVE  /\ HasRead(c, "artifacts") => WellFormed(copy[c].artifacts)
         /\ HasRead(c, "approvals") => Evidenced(call.task, copy[c].approvals)
<1>0. PICK t, p : t = call.task /\ p = copy[c]
  OBVIOUS
<1>1. /\ t \in Tasks /\ TypeOK /\ PackInv /\ CopyTyped(p) /\ ArtifactsRead(c) /\ ApprovalsRead(c)
  BY <1>0 DEF AuthorityInv, ChainInv, ReaderInv, OnTrack, CopyInv
<1>2. ASSUME HasRead(c, "artifacts")
      PROVE  WellFormed(p.artifacts)
  <2>1. DOMAIN p.artifacts = 1..Len(p.artifacts) /\ Len(p.artifacts) \in Nat
    BY <1>1 DEF CopyTyped
  <2>2. /\ Len(p.artifacts) <= Len(artifacts[t])
        /\ \A i \in 1..Len(p.artifacts) : artifacts[t][i] = p.artifacts[i]
    BY <1>0, <1>1, <1>2 DEF ArtifactsRead, Prefix
  <2>3. ArtifactsWellFormed(t) /\ DOMAIN artifacts[t] = 1..Len(artifacts[t])
        /\ Len(artifacts[t]) \in Nat
    BY <1>1, Lengths DEF PackInv
  <2> QED
    BY <2>1, <2>2, <2>3 DEF WellFormed, ArtifactsWellFormed
<1>3. ASSUME HasRead(c, "approvals")
      PROVE  Evidenced(t, p.approvals)
  <2>1. Older(p.approvals, ApprovalsOf(t))
    BY <1>0, <1>1, <1>3 DEF ApprovalsRead
  <2>2. ASSUME NEW i \in DOMAIN p.approvals, p.approvals[i].status = "APPROVED"
        PROVE  p.approvals[i].decision_evidence
    <3>1. i \in DOMAIN ApprovalsOf(t) /\ ApprovalsOf(t)[i] = p.approvals[i]
      BY <2>1, <2>2 DEF Older
    <3>2. i \in DOMAIN approvals /\ approvals[i] = p.approvals[i]
      BY <3>1 DEF ApprovalsOf
    <3> QED
      BY <1>1, <2>2, <3>2 DEF PackInv
  <2> QED
    BY <2>2 DEF Evidenced
<1> QED
  BY <1>0, <1>2, <1>3

\* A complete copy of a verified task that is not torn is valid.
LEMMA VerifiedCopyValid ==
  ASSUME AuthorityInv, ReaderInv, call.tool \in Tools, NEW c \in Copies,
         \A x \in Tables \ {"reports"} : HasRead(c, x),
         copy[c].state \in VerifiedStates, Len(copy[c].events) = copy[c].state_version + 1
  PROVE  Seen(c)!PackValid(call.task)
<1>0. PICK p : p = copy[c]
  OBVIOUS
<1>1. HasRead(c, "task") /\ HasRead(c, "events") /\ HasRead(c, "approvals")
      /\ HasRead(c, "artifacts")
  BY DEF Tables
<1>2. /\ Replays(p) /\ WellFormed(p.artifacts) /\ Evidenced(call.task, p.approvals)
  BY <1>0, <1>1, CopyChain, CopySound
<1>3. /\ Vouching(p) /\ Prefix(p.told_artifacts, p.artifacts) /\ CopyTyped(p)
      /\ call.task \in Tasks
  BY <1>0, <1>1 DEF ReaderInv, OnTrack, CopyInv, LogRead, ArtifactsRead
<1>4. PassesIn(p.told_artifacts) # {}
      /\ (p.state = "EVIDENCE_PACKED" => "READONLY_VERIFIED" \in VisitedIn(p.events))
  BY <1>0, <1>3 DEF Vouching
<1>5. PassesIn(p.artifacts) # {} /\ ReportsIn(p.artifacts) # {}
  <2>1. PICK i \in DOMAIN p.told_artifacts :
          /\ p.told_artifacts[i].artifact_type = "VerificationReport"
          /\ p.told_artifacts[i].payload.verdict = "PASS"
    BY <1>4 DEF PassesIn, ReportsIn
  <2>2. i \in 1..Len(p.told_artifacts) /\ Len(p.told_artifacts) \in Nat
        /\ DOMAIN p.artifacts = 1..Len(p.artifacts) /\ Len(p.artifacts) \in Nat
    BY <1>3, <2>1 DEF CopyTyped
  <2>3. i \in DOMAIN p.artifacts /\ p.artifacts[i] = p.told_artifacts[i]
    BY <1>3, <2>2 DEF Prefix
  <2> QED
    BY <2>1, <2>3 DEF PassesIn, ReportsIn
<1>6. Reported(p.state, VisitedIn(p.events), p.artifacts)
  BY <1>4, <1>5 DEF Reported
<1> QED
  BY <1>0, <1>2, <1>3, <1>6, SeenPackValid

\* Both copies of an export have been read.
LEMMA ExportRead ==
  ASSUME ReaderInv
  PROVE  /\ Exported => /\ call.tool \in Tools /\ call.task \in Tasks
                        /\ \A x \in Tables \ {"reports"} : HasRead("pack", x)
         /\ Answered("evidence_pack_validate") =>
              \A x \in Tables \ {"reports"} : HasRead("check", x)
         /\ Answered("state_describe") =>
              call.tool \in Tools /\ call.task \in Tasks /\ HasRead("pack", "reports")
<1>1. CASE call.tool \in Tools /\ call.reads = << >>
  <2>1. call.task \in Tasks
    BY <1>1 DEF ReaderInv, OnTrack
  <2> QED
    BY <1>1, <2>1, AllRead DEF Exported, Answered
<1>2. CASE ~(call.tool \in Tools /\ call.reads = << >>)
  BY <1>2 DEF Exported, Answered, Tools
<1> QED
  BY <1>1, <1>2

\* evidence_pack sends the task SELECT first: whatever is committed during the
\* export, its log reaches the row and agrees with it.
THEOREM PacksTearForward == ExportSpec => []TornForwardOnly
<1>1. ASSUME AuthorityInv, ReaderInv
      PROVE  TornForwardOnly
  <2> SUFFICES ASSUME Exported
               PROVE  LET t == call.task
                          p == copy["pack"]
                      IN /\ p.state_version <= Cardinality(Seen("pack")!Steps(t))
                         /\ p.state = Seen("pack")!StateAt(t, p.state_version)
                         /\ \A i \in Seen("pack")!Steps(t) :
                              p.events[i].source = Seen("pack")!StateAt(t, i - 2)
    BY DEF TornForwardOnly
  <2>1. PICK p : p = copy["pack"]
    OBVIOUS
  <2>2. /\ call.tool \in Tools /\ call.task \in Tasks
        /\ HasRead("pack", "task") /\ HasRead("pack", "events")
    BY <1>1, ExportRead DEF Tables
  <2>3. /\ Cardinality(StepsIn(p.events)) = Len(p.events) - 1
        /\ p.state_version \in Nat /\ Len(p.events) \in Nat
        /\ p.state_version < Len(p.events)
        /\ p.state = StateIn(p.events, p.state_version)
        /\ \A i \in StepsIn(p.events) : p.events[i].source = StateIn(p.events, i - 2)
    BY <1>1, <2>1, <2>2, CopyChain DEF Copies
  <2>4. p.state_version <= Cardinality(StepsIn(p.events))
    BY <2>3
  <2>5. /\ Seen("pack")!Steps(call.task) = StepsIn(p.events)
        /\ \A v : Seen("pack")!StateAt(call.task, v) = StateIn(p.events, v)
    BY <2>1, <2>2, SeenTables
  <2> QED
    BY <2>1, <2>3, <2>4, <2>5
<1>2. ExportInv => TornForwardOnly
  BY <1>1 DEF ExportInv
<1> QED
  BY <1>2, ExportInvAlways, PTL

\* The rows are fetched after the log that announces them, and none is deleted.
THEOREM LogsAreBacked == ExportSpec => []EventsBacked
<1>1. ASSUME AuthorityInv, ReaderInv
      PROVE  EventsBacked
  <2> SUFFICES ASSUME Exported
               PROVE  LET p == copy["pack"] IN
                      /\ \A i \in DOMAIN p.told_artifacts :
                           i \in DOMAIN p.artifacts /\ p.artifacts[i] = p.told_artifacts[i]
                      /\ \A i \in DOMAIN p.told_approvals :
                           /\ i \in DOMAIN p.approvals
                           /\ p.told_approvals[i].status # "PENDING"
                                => p.approvals[i].status = p.told_approvals[i].status
    BY DEF EventsBacked
  <2>1. PICK p : p = copy["pack"]
    OBVIOUS
  <2>2. /\ call.tool \in Tools /\ "pack" \in Copies /\ HasRead("pack", "events")
        /\ HasRead("pack", "artifacts") /\ HasRead("pack", "approvals")
    BY <1>1, ExportRead DEF Tables, Copies
  <2>3. /\ Prefix(p.told_artifacts, p.artifacts) /\ Older(p.told_approvals, p.approvals)
        /\ CopyTyped(p)
    BY <1>1, <2>1, <2>2 DEF ReaderInv, CopyInv, ArtifactsRead, ApprovalsRead
  <2>4. /\ DOMAIN p.told_artifacts = 1..Len(p.told_artifacts) /\ Len(p.told_artifacts) \in Nat
        /\ DOMAIN p.artifacts = 1..Len(p.artifacts) /\ Len(p.artifacts) \in Nat
    BY <2>3 DEF CopyTyped
  <2>5. \A i \in DOMAIN p.told_artifacts :
          i \in DOMAIN p.artifacts /\ p.artifacts[i] = p.told_artifacts[i]
    BY <2>3, <2>4 DEF Prefix
  <2>6. \A i \in DOMAIN p.told_approvals :
          /\ i \in DOMAIN p.approvals
          /\ p.told_approvals[i].status # "PENDING"
               => p.approvals[i].status = p.told_approvals[i].status
    BY <2>3 DEF Older
  <2> QED
    BY <2>1, <2>5, <2>6
<1>2. ExportInv => EventsBacked
  BY <1>1 DEF ExportInv
<1> QED
  BY <1>2, ExportInvAlways, PTL

\* The only false alarm of the validation is a log that was read after a commit.
THEOREM FalseAlarmsAreTorn == ExportSpec => []InvalidOnlyIfTorn
<1>1. ASSUME AuthorityInv, ReaderInv
      PROVE  InvalidOnlyIfTorn
  <2> SUFFICES ASSUME Answered("evidence_pack_validate"), copy["check"].state \in VerifiedStates,
                      ~Torn("check")
               PROVE  Verdict
    BY DEF InvalidOnlyIfTorn, VerifiedStates
  <2>1. PICK p : p = copy["check"]
    OBVIOUS
  <2>2. /\ call.tool \in Tools /\ call.task \in Tasks /\ "check" \in Copies
        /\ \A x \in Tables \ {"reports"} : HasRead("check", x)
        /\ HasRead("check", "task") /\ HasRead("check", "events")
    BY <1>1, ExportRead DEF Exported, Tables, Copies
  <2>3. /\ Cardinality(StepsIn(p.events)) = Len(p.events) - 1
        /\ p.state_version \in Nat /\ Len(p.events) \in Nat
        /\ p.state_version < Len(p.events)
    BY <1>1, <2>1, <2>2, CopyChain
  <2>4. ~(Cardinality(StepsIn(p.events)) > p.state_version)
    BY <2>1, <2>2, SeenTables DEF Torn
  <2>5. Len(p.events) = p.state_version + 1
    BY <2>3, <2>4
  <2> QED
    BY <1>1, <2>1, <2>2, <2>5, VerifiedCopyValid DEF Verdict
<1>2. ExportInv => InvalidOnlyIfTorn
  BY <1>1 DEF ExportInv
<1> QED
  BY <1>2, ExportInvAlways, PTL

\* The validation reads the task again after the pack: with one version in both,
\* its verdict is about the pack.
THEOREM VerdictsCarryOver == ExportSpec => []VerdictCarriesOver
<1>1. ASSUME AuthorityInv, ReaderInv
      PROVE  VerdictCarriesOver
  <2> SUFFICES ASSUME Answered("evidence_pack_validate"), Verdict,
                      copy["pack"].state_version = copy["check"].state_version
               PROVE  /\ Seen("pack")!ChainReplays(call.task)
                      /\ copy["pack"].state \in VerifiedStates \union {"CLOSED"} =>
                           Seen("pack")!PackValid(call.task)
    BY DEF VerdictCarriesOver, VerifiedStates
  <2>1. PICK p, q, t : p = copy["pack"] /\ q = copy["check"] /\ t = call.task
    OBVIOUS
  <2>2. /\ call.tool \in Tools /\ t \in Tasks /\ "check" \in Copies /\ "pack" \in Copies
        /\ \A x \in Tables \ {"reports"} : HasRead("pack", x) /\ HasRead("check", x)
    BY <1>1, <2>1, ExportRead DEF Exported, Copies
  <2>3. \A c \in Copies : /\ HasRead(c, "task") /\ HasRead(c, "events")
                          /\ HasRead(c, "approvals") /\ HasRead(c, "artifacts")
    BY <2>2 DEF Tables, Copies
  <2>4. /\ Replays(q) /\ WellFormed(q.artifacts)
        /\ Reported(q.state, VisitedIn(q.events), q.artifacts)
    BY <2>1, <2>2, SeenPackValid DEF Verdict
  <2>5. /\ StepsIn(p.events) = 2..Len(p.events)
        /\ p.state_version \in Nat /\ Len(p.events) \in Nat
        /\ p.state_version < Len(p.events)
        /\ p.state = StateIn(p.events, p.state_version)
        /\ Len(p.events) = p.state_version + 1 => Replays(p)
    BY <1>1, <2>1, <2>2, <2>3, CopyChain
  <2>6. /\ StepsIn(q.events) = 2..Len(q.events)
        /\ Cardinality(StepsIn(q.events)) = Len(q.events) - 1
        /\ q.state_version \in Nat /\ Len(q.events) \in Nat
        /\ q.state = StateIn(q.events, q.state_version)
    BY <1>1, <2>1, <2>2, <2>3, CopyChain
  <2>7. q.state_version = Len(q.events) - 1
    BY <2>4, <2>6 DEF Replays
  <2>8. Len(p.events) <= Len(q.events)
    BY <1>1, <2>1, <2>2, <2>3 DEF ReaderInv, CheckLater
  <2>9. Len(p.events) = p.state_version + 1 /\ Len(p.events) = Len(q.events)
    BY <2>1, <2>5, <2>6, <2>7, <2>8
  <2>10. Replays(p)
    BY <2>5, <2>9
  <2>11. Seen("pack")!ChainReplays(t)
    BY <2>1, <2>2, <2>10, SeenReplays
  <2>12. CASE p.state \in VerifiedStates
    BY <1>1, <2>1, <2>2, <2>9, <2>11, <2>12, VerifiedCopyValid
  <2>13. CASE p.state = "CLOSED"
    <3>1. /\ Prefix(p.events, events[t]) /\ Prefix(q.events, events[t])
          /\ RowRead("pack") /\ ArtifactsRead("pack") /\ ArtifactsRead("check")
      BY <1>1, <2>1, <2>2, <2>3 DEF ReaderInv, CopyInv, LogRead
    <3>2. \A i \in 1..Len(p.events) : p.events[i] = q.events[i]
      BY <2>9, <3>1 DEF Prefix
    <3>3. VisitedIn(p.events) = VisitedIn(q.events)
      <4>1. \A i \in 2..Len(p.events) : p.events[i].target = q.events[i].target
        BY <2>5, <3>2
      <4>2. 2..Len(p.events) = 2..Len(q.events)
        BY <2>9
      <4> QED
        BY <2>5, <2>6, <4>1, <4>2 DEF VisitedIn
    <3>4. p.state_version = q.state_version
      BY <2>1
    <3>5. q.state = p.state
      <4>1. p.state_version = 0 \/ p.state_version + 1 \in 1..Len(p.events)
        BY <2>5
      <4> QED
        BY <2>5, <2>6, <3>2, <3>4, <4>1 DEF StateIn
    <3>6. p.artifacts = artifacts[t] /\ q.artifacts = artifacts[t]
      BY <2>1, <2>2, <2>3, <2>13, <3>1, <3>5 DEF ArtifactsRead
    <3>7. Reported(p.state, VisitedIn(p.events), p.artifacts) /\ WellFormed(p.artifacts)
      BY <2>4, <3>3, <3>5, <3>6
    <3>8. Evidenced(t, p.approvals)
      BY <1>1, <2>1, <2>2, <2>3, CopySound
    <3>9. Seen("pack")!PackValid(t)
      BY <2>1, <2>2, <2>10, <3>7, <3>8, SeenPackValid
    <3> QED
      BY <2>1, <2>11, <3>9
  <2> QED
    BY <2>1, <2>11, <2>12, <2>13
<1>2. ExportInv => VerdictCarriesOver
  BY <1>1 DEF ExportInv
<1> QED
  BY <1>2, ExportInvAlways, PTL

\* The gate EVIDENCE_PACKED agrees with the verdict the lead was given for the
\* version he acts on.
THEOREM VerdictsStand == ExportSpec => []VerdictStands
<1>1. ASSUME AuthorityInv, ReaderInv
      PROVE  VerdictStands
  <2> SUFFICES ASSUME Answered("evidence_pack_validate"),
                      copy["check"].state = "READONLY_VERIFIED",
                      copy["check"].state_version = state_version[call.task]
               PROVE  Verdict = PackValid(call.task)
    BY DEF VerdictStands
  <2>1. PICK p, t : p = copy["check"] /\ t = call.task
    OBVIOUS
  <2>2. /\ call.tool \in Tools /\ t \in Tasks /\ "check" \in Copies
        /\ \A x \in Tables \ {"reports"} : HasRead("check", x)
        /\ HasRead("check", "task") /\ HasRead("check", "events")
    BY <1>1, <2>1, ExportRead DEF Exported, Tables, Copies
  <2>3. Created(t) /\ RowRead("check") /\ LogRead("check")
    BY <1>1, <2>1, <2>2 DEF ReaderInv, OnTrack, CopyInv
  <2>4. /\ Len(events[t]) = state_version[t] + 1 /\ state_version[t] \in Nat
        /\ state[t] = StateIn(events[t], state_version[t])
    BY <1>1, <2>2, <2>3, Moment
  <2>5. p.state_version = state_version[t] /\ p.state = state[t]
    BY <2>1, <2>2, <2>3, <2>4 DEF RowRead
  <2>6. Len(p.events) \in Nat /\ p.state_version \in Nat /\ p.state_version < Len(p.events)
    BY <1>1, <2>1, <2>2, CopyChain
  <2>7. Len(p.events) <= Len(events[t])
    BY <2>1, <2>2, <2>3 DEF LogRead, Prefix
  <2>8. Len(p.events) = p.state_version + 1
    BY <2>4, <2>5, <2>6, <2>7
  <2>9. p.state \in VerifiedStates
    BY <2>1 DEF VerifiedStates
  <2>10. Seen("check")!PackValid(t)
    BY <1>1, <2>1, <2>2, <2>8, <2>9, VerifiedCopyValid
  <2>11. PackValid(t)
    BY <1>1, <2>1, <2>2, <2>5, PackInvSuffices DEF AuthorityInv, VerifiedPackValid
  <2>12. Seen("check")!PackValid(t) = PackValid(t)
    <3>1. Seen("check")!PackValid(t) = TRUE
      BY <2>10 DEF Seen!PackValid
    <3>2. PackValid(t) = TRUE
      BY <2>11 DEF PackValid
    <3> QED
      BY <3>1, <3>2
  <2> QED
    BY <2>1, <2>12 DEF Verdict
<1>2. ExportInv => VerdictStands
  BY <1>1 DEF ExportInv
<1> QED
  BY <1>2, ExportInvAlways, PTL

\* No transition, artifact or decision comes to a closed task, other than one
\* asked for in CLOSED itself, so its pack is the last word on what was done.
\* New approvals and side effects are still written to its log.
THEOREM ClosedPacksAreSettled == ExportSpec => []ClosedPackSettled
<1>1. ASSUME AuthorityInv, ReaderInv
      PROVE  ClosedPackSettled
  <2> SUFFICES ASSUME Exported, copy["pack"].state = "CLOSED"
               PROVE  /\ copy["pack"].events = events[call.task]
                      /\ copy["pack"].artifacts = artifacts[call.task]
                      /\ \A i \in DOMAIN copy["pack"].approvals :
                           copy["pack"].approvals[i].expected_state # "CLOSED" =>
                             approvals[i] = copy["pack"].approvals[i]
    BY DEF ClosedPackSettled
  <2>1. PICK p, t : p = copy["pack"] /\ t = call.task
    OBVIOUS
  <2>2. /\ call.tool \in Tools /\ t \in Tasks /\ "pack" \in Copies
        /\ HasRead("pack", "task") /\ HasRead("pack", "events") /\ HasRead("pack", "artifacts")
        /\ HasRead("pack", "approvals")
    BY <1>1, <2>1, ExportRead DEF Tables, Copies
  <2>3. /\ Created(t) /\ RowRead("pack") /\ LogRead("pack") /\ ArtifactsRead("pack")
        /\ ApprovalsRead("pack") /\ CopyTyped(p) /\ TypeOK
    BY <1>1, <2>1, <2>2 DEF ReaderInv, OnTrack, CopyInv, AuthorityInv, ChainInv
  <2>4. Len(events[t]) = state_version[t] + 1 /\ state_version[t] \in Nat
    BY <1>1, <2>2, <2>3, Moment
  <2>5. /\ p.state_version \in Nat /\ Len(p.events) \in Nat /\ p.state_version < Len(p.events)
    BY <1>1, <2>1, <2>2, CopyChain
  <2>6. p.state_version <= state_version[t] /\ StateIn(events[t], p.state_version) = "CLOSED"
    BY <2>1, <2>2, <2>3 DEF RowRead
  <2>7. p.state_version = state_version[t]
    BY <1>1, <2>2, <2>3, <2>4, <2>5, <2>6, ClosedIsLast
  <2>8. /\ Len(p.events) <= Len(events[t])
        /\ \A i \in 1..Len(p.events) : events[t][i] = p.events[i]
    BY <2>1, <2>2, <2>3 DEF LogRead, Prefix
  <2>9. Len(p.events) = Len(events[t])
    BY <2>4, <2>5, <2>7, <2>8
  <2>10. p.events \in Seq(EventRows) /\ events[t] \in Seq(EventRows)
    BY <2>2, <2>3 DEF CopyTyped, TypeOK
  <2>11. p.events = events[t]
    <3> HIDE DEF EventRows
    <3> QED
      BY <2>8, <2>9, <2>10
  <2>12. Settled(p.approvals, ApprovalsOf(t))
    BY <2>1, <2>2, <2>3 DEF ApprovalsRead
  <2>13. \A i \in DOMAIN p.approvals :
           p.approvals[i].expected_state # "CLOSED" => approvals[i] = p.approvals[i]
    BY <2>12 DEF Settled, ApprovalsOf
  <2> QED
    BY <2>1, <2>2, <2>3, <2>11, <2>13 DEF ArtifactsRead
<1>2. ExportInv => ClosedPackSettled
  BY <1>1 DEF ExportInv
<1> QED
  BY <1>2, ExportInvAlways, PTL

\* state_describe counts the reports of the version it showed, or of a later one
\* that the compare-and-swap turns away.
THEOREM AdviceIsSound == ExportSpec => []AdviceHolds
<1>1. ASSUME AuthorityInv, ReaderInv
      PROVE  AdviceHolds
  <2> SUFFICES ASSUME Answered("state_describe"),
                      copy["pack"].state_version = state_version[call.task],
                      MayTrip(copy["pack"].state)
               PROVE  DescribedTripped = Tripped(call.task)
    BY DEF AdviceHolds, MayTrip
  <2>1. PICK t : t = call.task
    OBVIOUS
  <2>2. copy["pack"].reports = ReportsOf(t)
    BY <1>1, <2>1, ExportRead DEF ReaderInv, CopyInv, ReportsRead, Copies
  <2>3. DOMAIN ReportsOf(t) = Rows(t, "VerificationReport")
        /\ \A i \in Rows(t, "VerificationReport") : ReportsOf(t)[i] = artifacts[t][i]
    BY DEF ReportsOf
  <2>4. ASSUME NEW s
        PROVE  {i \in DOMAIN copy["pack"].reports :
                  /\ copy["pack"].reports[i].payload.verdict = "FAIL"
                  /\ copy["pack"].reports[i].payload.failure_signature = s} = FailRows(t, s)
    BY <2>2, <2>3 DEF FailRows
  <2> QED
    BY <2>1, <2>4 DEF DescribedTripped, Tripped
<1>2. ExportInv => AdviceHolds
  BY <1>1 DEF ExportInv
<1> QED
  BY <1>2, ExportInvAlways, PTL

=============================================================================
