----------------------- MODULE AuthorityHistoryProofs -----------------------
(***************************************************************************)
(* What stands in the tables of StateAuthority stays there, and what is    *)
(* said of old rows stays true: proofs for every value of the constants.   *)
(***************************************************************************)
EXTENDS StateAuthorityProofs

-----------------------------------------------------------------------------
(* The tables only grow                                                    *)

\* The log of t is kept by the step: no version is taken back, and the state at
\* each version reached so far is read from the same rows.
LogKept(t) ==
  /\ Created(t)'
  /\ state_version[t] <= state_version'[t]
  /\ Len(events[t]) <= Len(events'[t])
  /\ \A i \in 1..Len(events[t]) : events'[t][i] = events[t][i]
  /\ \A v \in 0..state_version[t] : StateAt(t, v)' = StateAt(t, v)

\* The rows of t in artifacts are kept.
RowsKept(t) ==
  /\ Len(artifacts[t]) <= Len(artifacts'[t])
  /\ \A i \in 1..Len(artifacts[t]) : artifacts'[t][i] = artifacts[t][i]

\* Decisions are kept, and of a pending approval all that was asked for.
DecisionsKept ==
  /\ Len(approvals) <= Len(approvals')
  /\ \A i \in 1..Len(approvals) :
       /\ approvals[i].status # "PENDING" => approvals'[i] = approvals[i]
       /\ approvals'[i].task_id = approvals[i].task_id
       /\ approvals'[i].scope = approvals[i].scope

LEMMA Lengths ==
  ASSUME TypeOK, NEW t \in Tasks
  PROVE  /\ Len(events[t]) \in Nat /\ DOMAIN events[t] = 1..Len(events[t])
         /\ Len(artifacts[t]) \in Nat /\ DOMAIN artifacts[t] = 1..Len(artifacts[t])
         /\ Len(approvals) \in Nat /\ DOMAIN approvals = 1..Len(approvals)
         /\ state_version[t] \in Nat
BY BoundsAssumption DEF TypeOK

LEMMA LogUntouched ==
  ASSUME TypeOK, NEW t \in Tasks, Created(t), state'[t] = state[t],
         state_version'[t] = state_version[t], events'[t] = events[t]
  PROVE  LogKept(t)
BY Lengths DEF LogKept, Created, StateAt

LEMMA CreateTaskKeepsLogs ==
  ASSUME TypeOK, NEW t \in Tasks, Created(t), NEW u \in Tasks, NEW caller,
         CreateTask(u, caller)
  PROVE  LogKept(t)
BY LogUntouched DEF CreateTask, TypeOK

LEMMA TransitionKeepsLogs ==
  ASSUME ChainInv, NEW t \in Tasks, Created(t), NEW u \in Tasks, NEW target \in States,
         NEW actor, NEW reason, NEW expected \in 0..MaxVersion,
         Transition(u, target, actor, reason, expected)
  PROVE  LogKept(t)
<1> DEFINE row == Event("STATE_TRANSITION", actor, expected + 1, state[u], target, reason)
<1>1. TypeOK /\ Chained(t)
  BY DEF ChainInv
<1>2. CASE t # u
  BY <1>1, <1>2, LogUntouched DEF Transition, TypeOK
<1>3. CASE t = u
  <2>1. /\ state'[t] = target
        /\ state_version'[t] = state_version[t] + 1
        /\ events'[t] = Append(events[t], row)
    BY <1>1, <1>3 DEF Transition, AtVersion, TypeOK
  <2> HIDE DEF row
  <2>2. events[t] \in Seq(EventRows) /\ Len(events[t]) = state_version[t] + 1
          /\ state_version[t] \in Nat
    BY <1>1, Lengths DEF Chained, TypeOK
  <2>3. /\ Len(events'[t]) = Len(events[t]) + 1
        /\ \A i \in 1..Len(events[t]) : events'[t][i] = events[t][i]
    BY <2>1, <2>2
  <2>4. \A v \in 0..state_version[t] : StateAt(t, v)' = StateAt(t, v)
    <3>1. TAKE v \in 0..state_version[t]
    <3>2. v + 1 \in 1..Len(events[t])
      BY <2>2
    <3>3. events'[t][v + 1] = events[t][v + 1]
      BY <2>3, <3>2
    <3>4. QED
      BY <3>3 DEF StateAt
  <2>5. Created(t)'
    BY <2>1, KnownNames DEF Created
  <2>6. state_version[t] <= state_version'[t] /\ Len(events[t]) <= Len(events'[t])
    BY <2>1, <2>2, <2>3
  <2>7. QED
    BY <2>3, <2>4, <2>5, <2>6 DEF LogKept
<1>4. QED
  BY <1>2, <1>3

LEMMA NextKeepsLogs ==
  ASSUME ChainInv, [Next]_vars, NEW t \in Tasks, Created(t)
  PROVE  LogKept(t)
<1>1. TypeOK
  BY DEF ChainInv
<1>2. ASSUME UNCHANGED <<state, state_version, events>> PROVE LogKept(t)
  BY <1>1, <1>2, LogUntouched
<1>3. CASE \E u \in Tasks, actor \in Actors : CreateTask(u, actor)
  BY <1>1, <1>3, CreateTaskKeepsLogs
<1>4. CASE \E u \in Tasks, request \in Requests, reason \in Reasons, expected \in 0..MaxVersion :
             Transition(u, request[2], request[1], reason, expected)
  <2>1. PICK u \in Tasks, request \in Requests, reason \in Reasons, expected \in 0..MaxVersion :
               Transition(u, request[2], request[1], reason, expected)
    BY <1>4
  <2>2. request[2] \in States
    BY InputsAssumption
  <2>3. QED
    BY <2>1, <2>2, TransitionKeepsLogs
<1>5. CASE \E u \in Tasks, actor \in Actors, scope \in Scopes,
              expected_state \in ExpectedStates, expected \in 0..MaxVersion :
             RequestApproval(u, actor, scope, expected_state, expected)
  BY <1>2, <1>5 DEF RequestApproval
<1>6. CASE \E i \in DOMAIN approvals, actor \in Actors, decision \in {"APPROVED", "REJECTED"},
              digest \in Scopes, evidence \in BOOLEAN :
             DecideApproval(i, actor, decision, digest, evidence)
  BY <1>2, <1>6 DEF DecideApproval
<1>7. CASE \E u \in Tasks, type \in PublishedTypes, producer \in Actors :
             \E payload \in Payloads(type), expected \in 0..MaxVersion :
               PutArtifact(u, type, producer, payload, expected)
  BY <1>2, <1>7 DEF PutArtifact
<1>8. CASE UNCHANGED vars
  BY <1>2, <1>8 DEF vars
<1> QED
  BY <1>3, <1>4, <1>5, <1>6, <1>7, <1>8 DEF Next

LEMMA PutArtifactKeepsRows ==
  ASSUME TypeOK, NEW t \in Tasks, NEW u \in Tasks, NEW type \in ArtifactTypes,
         NEW producer, NEW payload, NEW expected,
         PutArtifact(u, type, producer, payload, expected)
  PROVE  RowsKept(t)
<1> DEFINE row == [artifact_type |-> type, producer |-> producer,
                   state_version |-> expected, payload |-> payload]
<1>1. artifacts' = [artifacts EXCEPT ![u] = Append(@, row)]
  BY DEF PutArtifact
<1> HIDE DEF row
<1>2. artifacts[t] \in Seq(ArtifactRows)
  BY DEF TypeOK
<1> HIDE DEF ArtifactRows
<1>3. CASE t # u
  BY <1>1, <1>2, <1>3, Lengths DEF RowsKept, TypeOK
<1>4. CASE t = u
  <2>1. artifacts'[t] = Append(artifacts[t], row)
    BY <1>1, <1>4 DEF TypeOK
  <2>2. QED
    BY <1>2, <2>1 DEF RowsKept
<1> QED
  BY <1>3, <1>4

LEMMA NextKeepsRows ==
  ASSUME TypeOK, [Next]_vars, NEW t \in Tasks
  PROVE  RowsKept(t)
<1>1. ASSUME UNCHANGED artifacts PROVE RowsKept(t)
  BY <1>1, Lengths DEF RowsKept
<1>2. CASE \E u \in Tasks, type \in PublishedTypes, producer \in Actors :
             \E payload \in Payloads(type), expected \in 0..MaxVersion :
               PutArtifact(u, type, producer, payload, expected)
  BY <1>2, InputsAssumption, PutArtifactKeepsRows
<1>3. CASE UNCHANGED vars
  BY <1>1, <1>3 DEF vars
<1>4. CASE \E u \in Tasks, actor \in Actors : CreateTask(u, actor)
  BY <1>1, <1>4 DEF CreateTask
<1>5. CASE \E u \in Tasks, request \in Requests, reason \in Reasons, expected \in 0..MaxVersion :
             Transition(u, request[2], request[1], reason, expected)
  BY <1>1, <1>5 DEF Transition
<1>6. CASE \E u \in Tasks, actor \in Actors, scope \in Scopes,
              expected_state \in ExpectedStates, expected \in 0..MaxVersion :
             RequestApproval(u, actor, scope, expected_state, expected)
  BY <1>1, <1>6 DEF RequestApproval
<1>7. CASE \E i \in DOMAIN approvals, actor \in Actors, decision \in {"APPROVED", "REJECTED"},
              digest \in Scopes, evidence \in BOOLEAN :
             DecideApproval(i, actor, decision, digest, evidence)
  BY <1>1, <1>7 DEF DecideApproval
<1> QED
  BY <1>2, <1>3, <1>4, <1>5, <1>6, <1>7 DEF Next

LEMMA RequestKeepsDecisions ==
  ASSUME TypeOK, NEW t \in Tasks, NEW actor, NEW scope, NEW expected_state, NEW expected,
         RequestApproval(t, actor, scope, expected_state, expected)
  PROVE  /\ DecisionsKept
         /\ Len(approvals') = Len(approvals) + 1
         /\ \A i \in 1..Len(approvals) : approvals'[i] = approvals[i]
         /\ approvals'[Len(approvals) + 1].status = "PENDING"
         /\ approvals'[Len(approvals) + 1].task_id = t
<1> DEFINE row == [task_id |-> t, scope |-> scope, requested_state |-> state[t],
        expected_state |-> expected_state,
        expected_decision_version |-> DecisionVersion(t, expected_state, expected),
        status |-> "PENDING", decided_at |-> 0, decision_evidence |-> FALSE]
<1>1. approvals' = Append(approvals, row)
  BY DEF RequestApproval
<1>2. row.status = "PENDING" /\ row.task_id = t
  OBVIOUS
<1> HIDE DEF row
<1>3. approvals \in Seq(ApprovalRows)
  BY DEF TypeOK
<1> HIDE DEF ApprovalRows
<1>4. /\ Len(approvals') = Len(approvals) + 1
      /\ approvals'[Len(approvals) + 1] = row
      /\ \A i \in 1..Len(approvals) : approvals'[i] = approvals[i]
      /\ Len(approvals) \in Nat
  BY <1>1, <1>3
<1> QED
  BY <1>2, <1>4 DEF DecisionsKept

LEMMA DecideKeepsDecisions ==
  ASSUME TypeOK, NEW j \in DOMAIN approvals, NEW caller, NEW decision, NEW digest,
         NEW evidence, DecideApproval(j, caller, decision, digest, evidence)
  PROVE  /\ DecisionsKept
         /\ Len(approvals') = Len(approvals)
         /\ \A i \in 1..Len(approvals) :
              /\ i # j => approvals'[i] = approvals[i]
              /\ approvals'[i].expected_state = approvals[i].expected_state
              /\ approvals'[i].expected_decision_version
                   = approvals[i].expected_decision_version
<1> DEFINE instant == Cardinality(Decided) + 1
<1> DEFINE row == [approvals[j] EXCEPT !.status = decision, !.decided_at = instant,
                                        !.decision_evidence = evidence]
<1>1. approvals' = [approvals EXCEPT ![j] = row]
  BY DEF DecideApproval
<1> HIDE DEF instant
<1>2. approvals[j] \in ApprovalRows
  BY DEF TypeOK
<1>3. /\ row.task_id = approvals[j].task_id
      /\ row.scope = approvals[j].scope
      /\ row.expected_state = approvals[j].expected_state
      /\ row.expected_decision_version = approvals[j].expected_decision_version
  BY <1>2 DEF ApprovalRows
<1> HIDE DEF row
<1>4. approvals \in Seq(ApprovalRows)
  BY DEF TypeOK
<1>5. /\ Len(approvals') = Len(approvals)
      /\ Len(approvals) \in Nat
      /\ j \in 1..Len(approvals)
      /\ approvals'[j] = row
      /\ \A i \in 1..Len(approvals) : i # j => approvals'[i] = approvals[i]
  BY <1>1, <1>4
<1>6. approvals[j].status = "PENDING"
  BY DEF DecideApproval, Undecided
<1> QED
  BY <1>3, <1>5, <1>6 DEF DecisionsKept

LEMMA NextKeepsDecisions ==
  ASSUME TypeOK, [Next]_vars
  PROVE  DecisionsKept
<1>1. ASSUME UNCHANGED approvals PROVE DecisionsKept
  <2>1. Len(approvals) \in Nat
    BY DEF TypeOK
  <2>2. QED
    BY <1>1, <2>1 DEF DecisionsKept
<1>2. CASE \E u \in Tasks, actor \in Actors, scope \in Scopes,
              expected_state \in ExpectedStates, expected \in 0..MaxVersion :
             RequestApproval(u, actor, scope, expected_state, expected)
  BY <1>2, RequestKeepsDecisions
<1>3. CASE \E i \in DOMAIN approvals, actor \in Actors, decision \in {"APPROVED", "REJECTED"},
              digest \in Scopes, evidence \in BOOLEAN :
             DecideApproval(i, actor, decision, digest, evidence)
  BY <1>3, DecideKeepsDecisions
<1>4. CASE \E u \in Tasks, actor \in Actors : CreateTask(u, actor)
  BY <1>1, <1>4 DEF CreateTask
<1>5. CASE \E u \in Tasks, request \in Requests, reason \in Reasons, expected \in 0..MaxVersion :
             Transition(u, request[2], request[1], reason, expected)
  BY <1>1, <1>5 DEF Transition
<1>6. CASE \E u \in Tasks, type \in PublishedTypes, producer \in Actors :
             \E payload \in Payloads(type), expected \in 0..MaxVersion :
               PutArtifact(u, type, producer, payload, expected)
  BY <1>1, <1>6 DEF PutArtifact
<1>7. CASE UNCHANGED vars
  BY <1>1, <1>7 DEF vars
<1> QED
  BY <1>2, <1>3, <1>4, <1>5, <1>6, <1>7 DEF Next

\* A decision is final, whoever calls whatever next, and a request is never
\* withdrawn or rewritten.
THEOREM DecisionsAreFinal == Spec => DecisionsFinal
<1> DEFINE Final ==
      /\ DOMAIN approvals \subseteq DOMAIN approvals'
      /\ \A i \in Decided : approvals'[i] = approvals[i]
      /\ \A i \in DOMAIN approvals :
           /\ approvals'[i].task_id = approvals[i].task_id
           /\ approvals'[i].scope = approvals[i].scope
<1>1. TypeOK /\ TypeOK' /\ [Next]_vars => Final
  <2> SUFFICES ASSUME TypeOK, TypeOK', [Next]_vars PROVE Final
    OBVIOUS
  <2>1. DecisionsKept
    BY NextKeepsDecisions
  <2>2. /\ DOMAIN approvals = 1..Len(approvals)
        /\ DOMAIN approvals' = 1..Len(approvals')
        /\ Len(approvals) \in Nat /\ Len(approvals') \in Nat
    BY DEF TypeOK
  <2>3. DOMAIN approvals \subseteq DOMAIN approvals'
    BY <2>1, <2>2 DEF DecisionsKept
  <2>4. QED
    BY <2>1, <2>2, <2>3 DEF DecisionsKept, Decided
<1> QED
  BY <1>1, TypeCorrect, PTL DEF Spec, DecisionsFinal

-----------------------------------------------------------------------------
(* Who writes a new row                                                    *)

\* A row is added to the artifacts of t by PutArtifact for t.
LEMMA NewArtifact ==
  ASSUME TypeOK, [Next]_vars, NEW t \in Tasks, NEW k \in DOMAIN artifacts'[t],
         k \notin DOMAIN artifacts[t]
  PROVE  \E type \in ArtifactTypes, producer \in Actors, expected \in 0..MaxVersion :
           \E payload \in Payloads(type) :
             /\ PutArtifact(t, type, producer, payload, expected)
             /\ artifacts'[t][k] = [artifact_type |-> type, producer |-> producer,
                                    state_version |-> expected, payload |-> payload]
<1>1. artifacts'[t] # artifacts[t]
  OBVIOUS
<1>2. CASE \E u \in Tasks, type \in PublishedTypes, producer \in Actors :
             \E payload \in Payloads(type), expected \in 0..MaxVersion :
               PutArtifact(u, type, producer, payload, expected)
  <2>1. PICK u \in Tasks, type \in PublishedTypes, producer \in Actors :
               \E payload \in Payloads(type), expected \in 0..MaxVersion :
                 PutArtifact(u, type, producer, payload, expected)
    BY <1>2
  <2>2. PICK payload \in Payloads(type), expected \in 0..MaxVersion :
               PutArtifact(u, type, producer, payload, expected)
    BY <2>1
  <2> DEFINE row == [artifact_type |-> type, producer |-> producer,
                     state_version |-> expected, payload |-> payload]
  <2>3. artifacts' = [artifacts EXCEPT ![u] = Append(@, row)]
    BY <2>2 DEF PutArtifact
  <2> HIDE DEF row
  <2>4. u = t
    BY <1>1, <2>3 DEF TypeOK
  <2>5. artifacts'[t] = Append(artifacts[t], row) /\ artifacts[t] \in Seq(ArtifactRows)
    BY <2>3, <2>4 DEF TypeOK
  <2> HIDE DEF ArtifactRows
  <2>6. artifacts'[t][k] = row
    BY <2>5
  <2>7. type \in ArtifactTypes
    BY InputsAssumption
  <2>8. QED
    BY <2>2, <2>4, <2>6, <2>7 DEF row
<1>3. CASE UNCHANGED vars
  BY <1>1, <1>3 DEF vars
<1>4. CASE \E u \in Tasks, actor \in Actors : CreateTask(u, actor)
  BY <1>1, <1>4 DEF CreateTask
<1>5. CASE \E u \in Tasks, request \in Requests, reason \in Reasons, expected \in 0..MaxVersion :
             Transition(u, request[2], request[1], reason, expected)
  BY <1>1, <1>5 DEF Transition
<1>6. CASE \E u \in Tasks, actor \in Actors, scope \in Scopes,
              expected_state \in ExpectedStates, expected \in 0..MaxVersion :
             RequestApproval(u, actor, scope, expected_state, expected)
  BY <1>1, <1>6 DEF RequestApproval
<1>7. CASE \E i \in DOMAIN approvals, actor \in Actors, decision \in {"APPROVED", "REJECTED"},
              digest \in Scopes, evidence \in BOOLEAN :
             DecideApproval(i, actor, decision, digest, evidence)
  BY <1>1, <1>7 DEF DecideApproval
<1> QED
  BY <1>2, <1>3, <1>4, <1>5, <1>6, <1>7 DEF Next

\* A transition is logged by Transition for t.
LEMMA NewStep ==
  ASSUME TypeOK, [Next]_vars, NEW t \in Tasks, NEW i \in Steps(t)',
         i \notin DOMAIN events[t]
  PROVE  \E target \in States, actor \in Actors, reason \in Reasons,
            expected \in 0..MaxVersion :
           /\ Transition(t, target, actor, reason, expected)
           /\ events'[t][i] = Event("STATE_TRANSITION", actor, expected + 1, state[t],
                                    target, reason)
<1>1. i \in DOMAIN events'[t] /\ events'[t][i].event_type = "STATE_TRANSITION"
  BY DEF Steps
<1>2. events'[t] # events[t]
  BY <1>1
<1>3. CASE \E u \in Tasks, request \in Requests, reason \in Reasons, expected \in 0..MaxVersion :
             Transition(u, request[2], request[1], reason, expected)
  <2>1. PICK u \in Tasks, request \in Requests, reason \in Reasons, expected \in 0..MaxVersion :
               Transition(u, request[2], request[1], reason, expected)
    BY <1>3
  <2>2. request[1] \in Actors /\ request[2] \in States
    BY InputsAssumption
  <2> DEFINE row == Event("STATE_TRANSITION", request[1], expected + 1, state[u],
                          request[2], reason)
  <2>3. events' = [events EXCEPT ![u] = Append(@, row)]
    BY <2>1 DEF Transition
  <2> HIDE DEF row
  <2>4. u = t
    BY <1>2, <2>3 DEF TypeOK
  <2>5. events'[t] = Append(events[t], row) /\ events[t] \in Seq(EventRows)
    BY <2>3, <2>4 DEF TypeOK
  <2> HIDE DEF EventRows
  <2>6. events'[t][i] = row
    BY <1>1, <2>5
  <2>7. QED
    BY <2>1, <2>2, <2>4, <2>6 DEF row
<1>4. CASE \E u \in Tasks, actor \in Actors : CreateTask(u, actor)
  <2>1. PICK u \in Tasks, actor \in Actors : CreateTask(u, actor)
    BY <1>4
  <2> DEFINE row == Event("TASK_CREATED", "lead", 0, Absent, "RECEIVED", "")
  <2>2. events' = [events EXCEPT ![u] = Append(@, row)]
    BY <2>1 DEF CreateTask
  <2>3. row.event_type = "TASK_CREATED"
    BY DEF Event
  <2> HIDE DEF row
  <2>4. u = t
    BY <1>2, <2>2 DEF TypeOK
  <2>5. events'[t] = Append(events[t], row) /\ events[t] \in Seq(EventRows)
    BY <2>2, <2>4 DEF TypeOK
  <2> HIDE DEF EventRows
  <2>6. events'[t][i] = row
    BY <1>1, <2>5
  <2>7. QED
    BY <1>1, <2>3, <2>6
<1>5. CASE UNCHANGED vars
  BY <1>2, <1>5 DEF vars
<1>6. CASE \E u \in Tasks, actor \in Actors, scope \in Scopes,
              expected_state \in ExpectedStates, expected \in 0..MaxVersion :
             RequestApproval(u, actor, scope, expected_state, expected)
  BY <1>2, <1>6 DEF RequestApproval
<1>7. CASE \E j \in DOMAIN approvals, actor \in Actors, decision \in {"APPROVED", "REJECTED"},
              digest \in Scopes, evidence \in BOOLEAN :
             DecideApproval(j, actor, decision, digest, evidence)
  BY <1>2, <1>7 DEF DecideApproval
<1>8. CASE \E u \in Tasks, type \in PublishedTypes, producer \in Actors :
             \E payload \in Payloads(type), expected \in 0..MaxVersion :
               PutArtifact(u, type, producer, payload, expected)
  BY <1>2, <1>8 DEF PutArtifact
<1> QED
  BY <1>3, <1>4, <1>5, <1>6, <1>7, <1>8 DEF Next

\* An approval is decided by DecideApproval, and only then.
LEMMA NewDecision ==
  ASSUME TypeOK, [Next]_vars, NEW i \in DOMAIN approvals',
         approvals'[i].status # "PENDING"
  PROVE  /\ i \in DOMAIN approvals
         /\ \/ approvals'[i] = approvals[i]
            \/ /\ \E caller, decision, digest, evidence :
                    DecideApproval(i, caller, decision, digest, evidence)
               /\ approvals'[i].task_id = approvals[i].task_id
               /\ approvals'[i].expected_state = approvals[i].expected_state
               /\ approvals'[i].expected_decision_version
                    = approvals[i].expected_decision_version
<1> DEFINE Told ==
      /\ i \in DOMAIN approvals
      /\ \/ approvals'[i] = approvals[i]
         \/ /\ \E caller, decision, digest, evidence :
                 DecideApproval(i, caller, decision, digest, evidence)
            /\ approvals'[i].task_id = approvals[i].task_id
            /\ approvals'[i].expected_state = approvals[i].expected_state
            /\ approvals'[i].expected_decision_version
                 = approvals[i].expected_decision_version
<1>1. ASSUME UNCHANGED approvals PROVE Told
  BY <1>1
<1>2. TypeOK'
  BY NextTypeOK
<1>3. /\ DOMAIN approvals = 1..Len(approvals) /\ Len(approvals) \in Nat
      /\ DOMAIN approvals' = 1..Len(approvals') /\ Len(approvals') \in Nat
  BY <1>2 DEF TypeOK
<1>4. CASE \E u \in Tasks, actor \in Actors, scope \in Scopes,
              expected_state \in ExpectedStates, expected \in 0..MaxVersion :
             RequestApproval(u, actor, scope, expected_state, expected)
  <2>1. /\ Len(approvals') = Len(approvals) + 1
        /\ \A j \in 1..Len(approvals) : approvals'[j] = approvals[j]
        /\ approvals'[Len(approvals) + 1].status = "PENDING"
    BY <1>4, RequestKeepsDecisions
  <2>2. i \in 1..Len(approvals)
    BY <1>3, <2>1
  <2>3. QED
    BY <1>3, <2>1, <2>2
<1>5. CASE \E j \in DOMAIN approvals, actor \in Actors, decision \in {"APPROVED", "REJECTED"},
              digest \in Scopes, evidence \in BOOLEAN :
             DecideApproval(j, actor, decision, digest, evidence)
  <2>1. PICK j \in DOMAIN approvals, actor \in Actors, decision \in {"APPROVED", "REJECTED"},
             digest \in Scopes, evidence \in BOOLEAN :
               DecideApproval(j, actor, decision, digest, evidence)
    BY <1>5
  <2>2. /\ DecisionsKept
        /\ Len(approvals') = Len(approvals)
        /\ \A l \in 1..Len(approvals) :
             /\ l # j => approvals'[l] = approvals[l]
             /\ approvals'[l].expected_state = approvals[l].expected_state
             /\ approvals'[l].expected_decision_version
                  = approvals[l].expected_decision_version
    BY <2>1, DecideKeepsDecisions
  <2>3. i \in 1..Len(approvals)
    BY <1>3, <2>2
  <2>4. QED
    BY <1>3, <2>1, <2>2, <2>3 DEF DecisionsKept
<1>6. CASE \E u \in Tasks, actor \in Actors : CreateTask(u, actor)
  BY <1>1, <1>6 DEF CreateTask
<1>7. CASE \E u \in Tasks, request \in Requests, reason \in Reasons, expected \in 0..MaxVersion :
             Transition(u, request[2], request[1], reason, expected)
  BY <1>1, <1>7 DEF Transition
<1>8. CASE \E u \in Tasks, type \in PublishedTypes, producer \in Actors :
             \E payload \in Payloads(type), expected \in 0..MaxVersion :
               PutArtifact(u, type, producer, payload, expected)
  BY <1>1, <1>8 DEF PutArtifact
<1>9. CASE UNCHANGED vars
  BY <1>1, <1>9 DEF vars
<1> QED
  BY <1>4, <1>5, <1>6, <1>7, <1>8, <1>9 DEF Next

-----------------------------------------------------------------------------
(* What old rows say stays true                                            *)

\* A task has artifacts and approvals only once it is created.
NothingEarly ==
  /\ \A t \in Tasks : artifacts[t] # << >> => Created(t)
  /\ \A i \in DOMAIN approvals : Created(approvals[i].task_id)

HistoryInv ==
  /\ ChainInv
  /\ NothingEarly
  /\ WrittenWhereAllowed
  /\ VerifiedByPass
  /\ DecidedWhileCurrent
  /\ BundlesInScope
  /\ PatchedFromLastApproval

LEMMA NextNothingEarly ==
  ASSUME ChainInv, NothingEarly, [Next]_vars
  PROVE  NothingEarly'
<1>1. TypeOK /\ TypeOK'
  BY NextTypeOK DEF ChainInv
<1>2. \A t \in Tasks : Created(t) => Created(t)'
  BY NextKeepsLogs DEF LogKept
<1>3. ASSUME NEW t \in Tasks, artifacts'[t] # << >> PROVE Created(t)'
  <2>1. CASE artifacts[t] # << >>
    BY <1>2, <2>1 DEF NothingEarly
  <2>2. CASE artifacts[t] = << >>
    <3>1. artifacts'[t] \in Seq(ArtifactRows)
      BY <1>1 DEF TypeOK
    <3> HIDE DEF ArtifactRows
    <3>2. 1 \in DOMAIN artifacts'[t] /\ 1 \notin DOMAIN artifacts[t]
      BY <1>3, <2>2, <3>1
    <3>3. PICK type \in ArtifactTypes, producer \in Actors, expected \in 0..MaxVersion :
            \E payload \in Payloads(type) : PutArtifact(t, type, producer, payload, expected)
      BY <1>1, <3>2, NewArtifact
    <3>4. Created(t)
      BY <3>3 DEF PutArtifact, AtVersion
    <3>5. QED
      BY <1>2, <3>4
  <2>3. QED
    BY <2>1, <2>2
<1>4. ASSUME NEW i \in DOMAIN approvals' PROVE Created(approvals[i].task_id)'
  <2>1. /\ DOMAIN approvals = 1..Len(approvals) /\ Len(approvals) \in Nat
        /\ DOMAIN approvals' = 1..Len(approvals') /\ Len(approvals') \in Nat
    BY <1>1 DEF TypeOK
  <2>2. CASE i \in DOMAIN approvals
    <3>1. approvals'[i].task_id = approvals[i].task_id
      BY <1>1, <2>1, <2>2, NextKeepsDecisions DEF DecisionsKept
    <3>2. approvals[i].task_id \in Tasks
      <4>1. approvals[i] \in ApprovalRows
        BY <1>1, <2>2 DEF TypeOK
      <4>2. QED
        BY <4>1 DEF ApprovalRows
    <3>3. Created(approvals[i].task_id)
      BY <2>2 DEF NothingEarly
    <3>4. QED
      BY <1>2, <3>1, <3>2, <3>3 DEF Created
  <2>3. CASE i \notin DOMAIN approvals
    <3>1. CASE \E u \in Tasks, actor \in Actors, scope \in Scopes,
              expected_state \in ExpectedStates, expected \in 0..MaxVersion :
             RequestApproval(u, actor, scope, expected_state, expected)
      <4>1. PICK u \in Tasks, actor \in Actors, scope \in Scopes,
              expected_state \in ExpectedStates, expected \in 0..MaxVersion :
                RequestApproval(u, actor, scope, expected_state, expected)
        BY <3>1
      <4>2. Len(approvals') = Len(approvals) + 1
              /\ approvals'[Len(approvals) + 1].task_id = u
        BY <1>1, <4>1, RequestKeepsDecisions
      <4>3. approvals'[i].task_id = u
        BY <2>1, <2>3, <4>2
      <4>4. Created(u)
        BY <4>1 DEF RequestApproval, AtVersion
      <4>5. QED
        BY <1>2, <4>3, <4>4 DEF Created
    <3>2. CASE \E j \in DOMAIN approvals, actor \in Actors,
                decision \in {"APPROVED", "REJECTED"}, digest \in Scopes, evidence \in BOOLEAN :
                  DecideApproval(j, actor, decision, digest, evidence)
      <4>1. Len(approvals') = Len(approvals)
        BY <1>1, <3>2, DecideKeepsDecisions
      <4>2. QED
        BY <2>1, <2>3, <4>1
    <3>3. ASSUME UNCHANGED approvals PROVE FALSE
      BY <2>3, <3>3
    <3>4. CASE \E u \in Tasks, actor \in Actors : CreateTask(u, actor)
      BY <3>3, <3>4 DEF CreateTask
    <3>5. CASE \E u \in Tasks, request \in Requests, reason \in Reasons,
                 expected \in 0..MaxVersion :
                   Transition(u, request[2], request[1], reason, expected)
      BY <3>3, <3>5 DEF Transition
    <3>6. CASE \E u \in Tasks, type \in PublishedTypes, producer \in Actors :
                 \E payload \in Payloads(type), expected \in 0..MaxVersion :
                   PutArtifact(u, type, producer, payload, expected)
      BY <3>3, <3>6 DEF PutArtifact
    <3>7. CASE UNCHANGED vars
      BY <3>3, <3>7 DEF vars
    <3> QED
      BY <3>1, <3>2, <3>4, <3>5, <3>6, <3>7 DEF Next
  <2>4. QED
    BY <2>2, <2>3
<1> QED
  BY <1>3, <1>4 DEF NothingEarly

WrittenRightly(t, i) ==
  /\ artifacts[t][i].state_version <= state_version[t]
  /\ StateAt(t, artifacts[t][i].state_version)
       \in ARTIFACT_ALLOWED_STATES[artifacts[t][i].artifact_type]

LEMMA NextWrittenWhereAllowed ==
  ASSUME ChainInv, NothingEarly, WrittenWhereAllowed, [Next]_vars
  PROVE  WrittenWhereAllowed'
<1> SUFFICES ASSUME NEW t \in Tasks, NEW i \in DOMAIN artifacts'[t]
             PROVE  (WrittenRightly(t, i))'
  BY DEF WrittenWhereAllowed, WrittenRightly
<1>1. TypeOK
  BY DEF ChainInv
<1>2. CASE i \in DOMAIN artifacts[t]
  <2> DEFINE a == artifacts[t][i]
  <2>1. artifacts'[t][i] = a
    BY <1>1, <1>2, NextKeepsRows, Lengths DEF RowsKept
  <2>2. Created(t)
    BY <1>2 DEF NothingEarly
  <2>3. a \in ArtifactRows
    BY <1>1, <1>2 DEF TypeOK
  <2>4. a.state_version \in 0..MaxVersion
    BY <2>3 DEF ArtifactRows
  <2>5. /\ a.state_version <= state_version[t]
        /\ StateAt(t, a.state_version) \in ARTIFACT_ALLOWED_STATES[a.artifact_type]
    BY <1>2 DEF WrittenWhereAllowed
  <2>6. LogKept(t)
    BY <2>2, NextKeepsLogs
  <2> HIDE DEF a
  <2>7. a.state_version \in 0..state_version[t]
    BY <1>1, <2>4, <2>5, Lengths, BoundsAssumption
  <2>8. state_version'[t] \in Nat /\ state_version[t] \in Nat
    BY <1>1, NextTypeOK, BoundsAssumption DEF TypeOK
  <2>9. a.state_version <= state_version'[t]
    BY <2>6, <2>7, <2>8 DEF LogKept
  <2>10. PICK v \in 0..state_version[t] : v = a.state_version
    BY <2>7
  <2>11. StateAt(t, v)' = StateAt(t, v)
    BY <2>6 DEF LogKept
  <2>12. (StateAt(t, artifacts[t][i].state_version))' = StateAt(t, v)
    BY <2>1, <2>10, <2>11 DEF StateAt
  <2>13. QED
    BY <2>1, <2>5, <2>9, <2>10, <2>12 DEF WrittenRightly
<1>3. CASE i \notin DOMAIN artifacts[t]
  <2>1. PICK type \in ArtifactTypes, producer \in Actors, expected \in 0..MaxVersion :
          \E payload \in Payloads(type) :
             /\ PutArtifact(t, type, producer, payload, expected)
             /\ artifacts'[t][i] = [artifact_type |-> type, producer |-> producer,
                                    state_version |-> expected, payload |-> payload]
    BY <1>1, <1>3, NewArtifact
  <2>2. /\ Created(t) /\ state_version[t] = expected
        /\ state[t] \in ARTIFACT_ALLOWED_STATES[type]
        /\ UNCHANGED <<state, state_version, events>>
    BY <2>1 DEF PutArtifact, AtVersion
  <2>3. artifacts'[t][i].state_version = expected /\ artifacts'[t][i].artifact_type = type
    BY <2>1
  <2>4. StateAt(t, expected) = state[t]
    BY <2>2 DEF ChainInv, Chained
  <2>5. (StateAt(t, artifacts[t][i].state_version))' = StateAt(t, expected)
    BY <2>2, <2>3 DEF StateAt
  <2>6. QED
    BY <2>2, <2>3, <2>4, <2>5 DEF WrittenRightly
<1> QED
  BY <1>2, <1>3

\* An artifact row, once written, is counted forever.
LEMMA RowsStay ==
  ASSUME TypeOK, [Next]_vars, NEW t \in Tasks, NEW type, NEW k \in Rows(t, type)
  PROVE  k \in Rows(t, type)' /\ artifacts'[t][k] = artifacts[t][k]
<1>1. RowsKept(t)
  BY NextKeepsRows
<1>2. TypeOK'
  BY NextTypeOK
<1>3. /\ DOMAIN artifacts[t] = 1..Len(artifacts[t]) /\ Len(artifacts[t]) \in Nat
      /\ DOMAIN artifacts'[t] = 1..Len(artifacts'[t]) /\ Len(artifacts'[t]) \in Nat
  BY <1>2 DEF TypeOK
<1> QED
  BY <1>1, <1>3 DEF RowsKept, Rows

\* The step logged in row i was taken by a verdict of its own round.
VerdictBehind(t, i) ==
  events[t][i].target \in {"RELEASE_READY", "READONLY_VERIFIED"}
    => \E k \in Rows(t, "VerificationReport") :
         /\ artifacts[t][k].state_version = events[t][i].state_version - 1
         /\ artifacts[t][k].payload.verdict = "PASS"

LEMMA NextVerifiedByPass ==
  ASSUME ChainInv, VerifiedByPass, [Next]_vars
  PROVE  VerifiedByPass'
<1> SUFFICES ASSUME NEW t \in Tasks, NEW i \in Steps(t)' PROVE VerdictBehind(t, i)'
  BY DEF VerifiedByPass, VerdictBehind
<1>1. TypeOK
  BY DEF ChainInv
<1>2. CASE i \in DOMAIN events[t]
  <2>1. Created(t)
    BY <1>2 DEF ChainInv
  <2>2. events'[t][i] = events[t][i]
    BY <1>1, <1>2, <2>1, NextKeepsLogs, Lengths DEF LogKept
  <2>3. i \in Steps(t)
    BY <1>2, <2>2 DEF Steps
  <2>4. VerdictBehind(t, i)
    BY <2>3 DEF VerifiedByPass, VerdictBehind
  <2>5. \A k \in Rows(t, "VerificationReport") :
          k \in Rows(t, "VerificationReport")' /\ artifacts'[t][k] = artifacts[t][k]
    BY <1>1, RowsStay
  <2>6. QED
    BY <2>2, <2>4, <2>5 DEF VerdictBehind
<1>3. CASE i \notin DOMAIN events[t]
  <2>1. PICK target \in States, actor \in Actors, reason \in Reasons,
             expected \in 0..MaxVersion :
          /\ Transition(t, target, actor, reason, expected)
          /\ events'[t][i] = Event("STATE_TRANSITION", actor, expected + 1, state[t],
                                   target, reason)
    BY <1>1, <1>3, NewStep
  <2>2. /\ state_version[t] = expected
        /\ target \in TRANSITIONS[state[t]]
        /\ <<state[t], target>> \in NeedsPassingReport => PassedAt(t, expected)
        /\ UNCHANGED artifacts
    BY <2>1 DEF Transition, AtVersion, PreconditionsMet
  <2>3. state[t] \in States
    BY <1>1, <2>1 DEF Transition, AtVersion, Created, TypeOK
  <2>4. ASSUME target \in {"RELEASE_READY", "READONLY_VERIFIED"}
        PROVE  <<state[t], target>> \in NeedsPassingReport
    BY <2>2, <2>3, <2>4 DEF NeedsPassingReport, States, TRANSITIONS
  <2>5. /\ events'[t][i].target = target
        /\ events'[t][i].state_version = expected + 1
    BY <2>1 DEF Event
  <2>6. events'[t][i].state_version - 1 = expected
    BY <2>5
  <2>7. QED
    BY <2>2, <2>4, <2>5, <2>6 DEF VerdictBehind, PassedAt, Rows
<1> QED
  BY <1>2, <1>3

\* Approval i, once decided, was decided in the state it is for.
DecidedInState(i) ==
  approvals[i].status # "PENDING" =>
    /\ approvals[i].expected_decision_version <= state_version[approvals[i].task_id]
    /\ StateAt(approvals[i].task_id, approvals[i].expected_decision_version)
         = approvals[i].expected_state

LEMMA ApprovalRow ==
  ASSUME TypeOK, NEW i \in DOMAIN approvals
  PROVE  /\ approvals[i].task_id \in Tasks
         /\ approvals[i].expected_decision_version \in Nat
<1>1. approvals[i] \in ApprovalRows
  BY DEF TypeOK
<1> QED
  BY <1>1, BoundsAssumption DEF ApprovalRows

LEMMA NextDecidedWhileCurrent ==
  ASSUME ChainInv, NothingEarly, DecidedWhileCurrent, [Next]_vars
  PROVE  DecidedWhileCurrent'
<1> SUFFICES ASSUME NEW i \in DOMAIN approvals', approvals'[i].status # "PENDING"
             PROVE  DecidedInState(i)'
  BY DEF DecidedWhileCurrent, DecidedInState
<1>1. TypeOK
  BY DEF ChainInv
<1>2. i \in DOMAIN approvals
  BY <1>1, NewDecision
<1>3. PICK t \in Tasks, v \in Nat :
        t = approvals[i].task_id /\ v = approvals[i].expected_decision_version
  BY <1>1, <1>2, ApprovalRow
<1>4. Created(t) /\ LogKept(t)
  BY <1>2, <1>3, NextKeepsLogs DEF NothingEarly
<1>5. state_version[t] \in Nat /\ state_version'[t] \in Nat
  BY <1>1, NextTypeOK, BoundsAssumption DEF TypeOK
<1>6. /\ approvals'[i].task_id = t
      /\ approvals'[i].expected_decision_version = v
      /\ approvals'[i].expected_state = approvals[i].expected_state
  BY <1>1, <1>3, NewDecision
<1>7. v <= state_version[t] /\ StateAt(t, v) = approvals[i].expected_state
  <2>1. CASE approvals'[i] = approvals[i]
    BY <1>2, <1>3, <2>1 DEF DecidedWhileCurrent
  <2>2. CASE \E caller, decision, digest, evidence :
               DecideApproval(i, caller, decision, digest, evidence)
    <3>1. state[t] = approvals[i].expected_state /\ state_version[t] = v
      BY <1>3, <2>2 DEF DecideApproval, StillCurrent
    <3>2. QED
      BY <1>4, <1>5, <3>1 DEF ChainInv, Chained
  <2>3. QED
    BY <1>1, <2>1, <2>2, NewDecision
<1>8. v <= state_version'[t] /\ StateAt(t, v)' = approvals[i].expected_state
  BY <1>4, <1>5, <1>7 DEF LogKept
<1>9. StateAt(approvals[i].task_id, approvals[i].expected_decision_version)'
        = StateAt(t, v)'
  BY <1>6 DEF StateAt
<1> QED
  BY <1>6, <1>8, <1>9 DEF DecidedInState

\* The bundle in row k is within an approval of its task and version.
InScope(t, k) ==
  /\ artifacts[t][k].payload.approval_id \in DOMAIN approvals
  /\ approvals[artifacts[t][k].payload.approval_id].task_id = t
  /\ approvals[artifacts[t][k].payload.approval_id].status = "APPROVED"
  /\ approvals[artifacts[t][k].payload.approval_id].expected_decision_version
       = artifacts[t][k].state_version
  /\ artifacts[t][k].payload.changed_files
       \subseteq approvals[artifacts[t][k].payload.approval_id].scope

LEMMA NextBundlesInScope ==
  ASSUME TypeOK, BundlesInScope, [Next]_vars
  PROVE  BundlesInScope'
<1> SUFFICES ASSUME NEW t \in Tasks, NEW k \in Rows(t, "PatchBundle")'
             PROVE  InScope(t, k)'
  BY DEF BundlesInScope, InScope
<1>1. k \in DOMAIN artifacts'[t] /\ artifacts'[t][k].artifact_type = "PatchBundle"
  BY DEF Rows
<1>2. CASE k \in DOMAIN artifacts[t]
  <2>1. artifacts'[t][k] = artifacts[t][k]
    BY <1>2, NextKeepsRows, Lengths DEF RowsKept
  <2>2. k \in Rows(t, "PatchBundle")
    BY <1>1, <1>2, <2>1 DEF Rows
  <2>3. InScope(t, k)
    BY <2>2 DEF BundlesInScope, InScope
  <2>4. DecisionsKept
    BY NextKeepsDecisions
  <2>5. /\ DOMAIN approvals = 1..Len(approvals) /\ Len(approvals) \in Nat
        /\ DOMAIN approvals' = 1..Len(approvals') /\ Len(approvals') \in Nat
    BY NextTypeOK DEF TypeOK
  <2>6. \A i \in DOMAIN approvals : approvals[i].status = "APPROVED" =>
          i \in DOMAIN approvals' /\ approvals'[i] = approvals[i]
    BY <2>4, <2>5 DEF DecisionsKept
  <2>7. QED
    BY <2>1, <2>3, <2>6 DEF InScope
<1>3. CASE k \notin DOMAIN artifacts[t]
  <2>1. PICK type \in ArtifactTypes, producer \in Actors, expected \in 0..MaxVersion :
          \E payload \in Payloads(type) :
             /\ PutArtifact(t, type, producer, payload, expected)
             /\ artifacts'[t][k] = [artifact_type |-> type, producer |-> producer,
                                    state_version |-> expected, payload |-> payload]
    BY <1>1, <1>3, NewArtifact
  <2>2. PICK payload \in Payloads(type) :
             /\ PutArtifact(t, type, producer, payload, expected)
             /\ artifacts'[t][k] = [artifact_type |-> type, producer |-> producer,
                                    state_version |-> expected, payload |-> payload]
    BY <2>1
  <2>3. /\ type = "PatchBundle"
        /\ artifacts'[t][k].state_version = expected
        /\ artifacts'[t][k].payload = payload
    BY <1>1, <2>2
  <2>4. /\ state_version[t] = expected
        /\ BundleAuthorised(t, payload)
        /\ state[t] \in ARTIFACT_ALLOWED_STATES[type]
        /\ UNCHANGED approvals
    BY <2>2, <2>3 DEF PutArtifact, AtVersion
  <2>5. state[t] = "AWAITING_APPROVAL"
    BY <2>3, <2>4 DEF ARTIFACT_ALLOWED_STATES
  <2>6. QED
    BY <2>3, <2>4, <2>5 DEF BundleAuthorised, InScope
<1> QED
  BY <1>1, <1>2, <1>3

\* No approval for a version that has passed is decided any more.
LEMMA ApprovedStays ==
  ASSUME TypeOK, [Next]_vars, NEW t \in Tasks, NEW v \in Nat, v < state_version[t]
  PROVE  /\ ApprovedNow(t, v)' = ApprovedNow(t, v)
         /\ \A i \in ApprovedNow(t, v) : approvals'[i] = approvals[i]
<1>1. DecisionsKept
  BY NextKeepsDecisions
<1>2. /\ DOMAIN approvals = 1..Len(approvals) /\ Len(approvals) \in Nat
      /\ DOMAIN approvals' = 1..Len(approvals') /\ Len(approvals') \in Nat
  BY NextTypeOK DEF TypeOK
<1>3. \A i \in ApprovedNow(t, v) : i \in DOMAIN approvals' /\ approvals'[i] = approvals[i]
  BY <1>1, <1>2 DEF ApprovedNow, DecisionsKept
<1>4. ApprovedNow(t, v) \subseteq ApprovedNow(t, v)'
  BY <1>3 DEF ApprovedNow
<1>5. ASSUME NEW i \in ApprovedNow(t, v)' PROVE i \in ApprovedNow(t, v)
  <2>1. /\ i \in DOMAIN approvals' /\ approvals'[i].status = "APPROVED"
        /\ approvals'[i].task_id = t
        /\ approvals'[i].expected_decision_version = v
    BY DEF ApprovedNow
  <2>2. i \in DOMAIN approvals
    BY <2>1, NewDecision
  <2>3. CASE approvals'[i] = approvals[i]
    BY <2>2, <2>3 DEF ApprovedNow
  <2>4. CASE /\ \E caller, decision, digest, evidence :
                  DecideApproval(i, caller, decision, digest, evidence)
             /\ approvals'[i].task_id = approvals[i].task_id
             /\ approvals'[i].expected_decision_version
                  = approvals[i].expected_decision_version
    <3>1. state_version[t] = v
      BY <2>1, <2>4 DEF DecideApproval, StillCurrent
    <3>2. QED
      BY <3>1, Lengths
  <2>5. QED
    BY <2>1, <2>3, <2>4, NewDecision
<1> QED
  BY <1>3, <1>4, <1>5

LEMMA CarriedOutStays ==
  ASSUME TypeOK, [Next]_vars, NEW t \in Tasks, NEW v \in Nat, v < state_version[t],
         LastApprovalCarriedOut(t, v)
  PROVE  LastApprovalCarriedOut(t, v)'
<1>1. PICK i \in ApprovedNow(t, v) :
        /\ \A j \in ApprovedNow(t, v) : approvals[j].decided_at <= approvals[i].decided_at
        /\ BundleFor(t, i, v)
  BY DEF LastApprovalCarriedOut
<1>2. /\ ApprovedNow(t, v)' = ApprovedNow(t, v)
      /\ \A j \in ApprovedNow(t, v) : approvals'[j] = approvals[j]
  BY ApprovedStays
<1>3. BundleFor(t, i, v)'
  <2>1. PICK k \in Rows(t, "PatchBundle") :
          /\ artifacts[t][k].state_version = v
          /\ artifacts[t][k].payload.approval_id = i
    BY <1>1 DEF BundleFor
  <2>2. k \in Rows(t, "PatchBundle")' /\ artifacts'[t][k] = artifacts[t][k]
    BY RowsStay
  <2>3. QED
    BY <2>1, <2>2 DEF BundleFor
<1> QED
  BY <1>1, <1>2, <1>3 DEF LastApprovalCarriedOut

\* The step logged in row i, if it is the patch of an approved plan, carried
\* out the last approval.
ApprovalBehind(t, i) ==
  events[t][i].source = "AWAITING_APPROVAL" /\ events[t][i].target = "PATCHED"
    => LastApprovalCarriedOut(t, events[t][i].state_version - 1)

LEMMA NextPatchedFromLastApproval ==
  ASSUME ChainInv, PatchedFromLastApproval, [Next]_vars
  PROVE  PatchedFromLastApproval'
<1> SUFFICES ASSUME NEW t \in Tasks, NEW i \in Steps(t)' PROVE ApprovalBehind(t, i)'
  BY DEF PatchedFromLastApproval, ApprovalBehind
<1>1. TypeOK
  BY DEF ChainInv
<1>2. CASE i \in DOMAIN events[t]
  <2>1. Created(t) /\ Chained(t)
    BY <1>2 DEF ChainInv
  <2>2. events'[t][i] = events[t][i]
    BY <1>1, <1>2, <2>1, NextKeepsLogs, Lengths DEF LogKept
  <2>3. i \in Steps(t)
    BY <1>2, <2>2 DEF Steps
  <2>4. ApprovalBehind(t, i)
    BY <2>3 DEF PatchedFromLastApproval, ApprovalBehind
  <2>5. i \in 2..Len(events[t]) /\ events[t][i].state_version = i - 1
    BY <1>1, <2>1, <2>3, ChainedSteps DEF Chained
  <2>6. i - 2 \in Nat /\ i - 2 < state_version[t]
          /\ events[t][i].state_version - 1 = i - 2
    BY <1>1, <2>1, <2>5, Lengths DEF Chained
  <2>7. LastApprovalCarriedOut(t, i - 2) => LastApprovalCarriedOut(t, i - 2)'
    BY <1>1, <2>6, CarriedOutStays
  <2>8. (LastApprovalCarriedOut(t, events[t][i].state_version - 1))'
          <=> LastApprovalCarriedOut(t, i - 2)'
    BY <2>2, <2>6 DEF LastApprovalCarriedOut, ApprovedNow, BundleFor
  <2>9. QED
    BY <2>2, <2>4, <2>6, <2>7, <2>8 DEF ApprovalBehind
<1>3. CASE i \notin DOMAIN events[t]
  <2>1. PICK target \in States, actor \in Actors, reason \in Reasons,
             expected \in 0..MaxVersion :
          /\ Transition(t, target, actor, reason, expected)
          /\ events'[t][i] = Event("STATE_TRANSITION", actor, expected + 1, state[t],
                                   target, reason)
    BY <1>1, <1>3, NewStep
  <2>2. /\ state[t] = "AWAITING_APPROVAL" /\ target = "PATCHED"
             => PatchApproved(t, expected)
        /\ UNCHANGED <<artifacts, approvals>>
    BY <2>1 DEF Transition, PatchGate
  <2>3. /\ events'[t][i].source = state[t]
        /\ events'[t][i].target = target
        /\ events'[t][i].state_version = expected + 1
    BY <2>1 DEF Event
  <2>4. events'[t][i].state_version - 1 = expected
    BY <2>3
  <2>5. (LastApprovalCarriedOut(t, events[t][i].state_version - 1))'
          <=> PatchApproved(t, expected)
    BY <2>2, <2>4 DEF LastApprovalCarriedOut, PatchApproved, ApprovedNow, BundleFor, Rows
  <2>6. QED
    BY <2>2, <2>3, <2>5 DEF ApprovalBehind
<1> QED
  BY <1>2, <1>3

-----------------------------------------------------------------------------
(* Together                                                                *)

LEMMA InitHistoryInv == Init => HistoryInv
<1> SUFFICES ASSUME Init PROVE HistoryInv
  OBVIOUS
<1>1. ChainInv
  BY InitChainInv
<1>2. approvals = << >> /\ \A t \in Tasks : artifacts[t] = << >> /\ events[t] = << >>
  BY DEF Init
<1>3. /\ DOMAIN approvals = {}
      /\ \A t \in Tasks : DOMAIN artifacts[t] = {} /\ DOMAIN events[t] = {}
  BY <1>2
<1>4. \A t \in Tasks : Steps(t) = {} /\ Rows(t, "PatchBundle") = {}
  BY <1>3 DEF Steps, Rows
<1> QED
  BY <1>1, <1>2, <1>3, <1>4 DEF HistoryInv, NothingEarly, WrittenWhereAllowed,
     VerifiedByPass, DecidedWhileCurrent, BundlesInScope, PatchedFromLastApproval

LEMMA NextHistoryInv == HistoryInv /\ [Next]_vars => HistoryInv'
<1> SUFFICES ASSUME HistoryInv, [Next]_vars PROVE HistoryInv'
  OBVIOUS
<1>1. ChainInv /\ TypeOK
  BY DEF HistoryInv, ChainInv
<1> QED
  BY <1>1, NextChainInv, NextNothingEarly, NextWrittenWhereAllowed, NextVerifiedByPass,
     NextDecidedWhileCurrent, NextBundlesInScope, NextPatchedFromLastApproval
  DEF HistoryInv

LEMMA HistoryInvAlways == Spec => []HistoryInv
BY InitHistoryInv, NextHistoryInv, PTL DEF Spec

\* Every artifact was written at the version it carries, in a state that allows
\* its type, whatever its writer knew.
THEOREM ArtifactsBelong == Spec => []WrittenWhereAllowed
<1>1. HistoryInv => WrittenWhereAllowed
  BY DEF HistoryInv
<1> QED
  BY <1>1, HistoryInvAlways, PTL

\* A task is verified only by a PASS of the round that it leaves.
THEOREM VerifiedByOwnRound == Spec => []VerifiedByPass
<1>1. HistoryInv => VerifiedByPass
  BY DEF HistoryInv
<1> QED
  BY <1>1, HistoryInvAlways, PTL

\* An approval is decided on the task as it was when the human was asked.
THEOREM DecidedOnTheTaskShown == Spec => []DecidedWhileCurrent
<1>1. HistoryInv => DecidedWhileCurrent
  BY DEF HistoryInv
<1> QED
  BY <1>1, HistoryInvAlways, PTL

\* A bundle stays within the files approved for its task at its version.
THEOREM PatchesStayInScope == Spec => []BundlesInScope
<1>1. HistoryInv => BundlesInScope
  BY DEF HistoryInv
<1> QED
  BY <1>1, HistoryInvAlways, PTL

\* A patch applied at the approval gate carries out the last approval there.
THEOREM LastApprovalIsPatched == Spec => []PatchedFromLastApproval
<1>1. HistoryInv => PatchedFromLastApproval
  BY DEF HistoryInv
<1> QED
  BY <1>1, HistoryInvAlways, PTL

-----------------------------------------------------------------------------
(* The breaker bounds the rounds                                           *)

LEMMA FailsFinite ==
  ASSUME TypeOK, NEW t \in Tasks, NEW s
  PROVE  IsFiniteSet(FailRows(t, s)) /\ Cardinality(FailRows(t, s)) \in Nat
<1>1. IsFiniteSet(DOMAIN artifacts[t])
  BY Lengths, FS_Interval
<1>2. FailRows(t, s) \subseteq DOMAIN artifacts[t]
  BY DEF FailRows, Rows
<1> QED
  BY <1>1, <1>2, FS_Subset, FS_CardinalityType

FailVersions(t, s) == {artifacts[t][i].state_version : i \in FailRows(t, s)}

LEMMA FewerRoundsThanFails ==
  ASSUME TypeOK, NEW t \in Tasks, NEW s
  PROVE  /\ IsFiniteSet(FailVersions(t, s))
         /\ Cardinality(FailVersions(t, s)) <= Cardinality(FailRows(t, s))
<1> DEFINE f == [i \in FailRows(t, s) |-> artifacts[t][i].state_version]
<1>1. f \in Surjection(FailRows(t, s), FailVersions(t, s))
  BY DEF Surjection, FailVersions
<1> QED
  BY <1>1, FailsFinite, FS_Surjection

Verifying(t) == state[t] \in {"VERIFYING", "READONLY_VERIFYING"}

\* RetriesBounded counts the round in progress; what makes it inductive is that
\* fewer rounds than the threshold had failed when this one was opened.
BreakerHolds(t, s) ==
  IF Verifying(t)
  THEN Cardinality(FailVersions(t, s) \ {state_version[t]})
         < FAILURE_SIGNATURE_BREAKER_THRESHOLD
  ELSE Cardinality(FailVersions(t, s)) <= FAILURE_SIGNATURE_BREAKER_THRESHOLD

BreakerInv == \A t \in Tasks, s \in Signatures : BreakerHolds(t, s)

LEMMA SmallerSet ==
  ASSUME NEW S, IsFiniteSet(S), NEW T \in SUBSET S
  PROVE  Cardinality(T) \in Nat /\ Cardinality(S) \in Nat /\ Cardinality(T) <= Cardinality(S)
BY FS_Subset, FS_CardinalityType

LEMMA BreakerBounds ==
  ASSUME TypeOK, NEW t \in Tasks, NEW s, BreakerHolds(t, s)
  PROVE  Cardinality(FailVersions(t, s)) <= FAILURE_SIGNATURE_BREAKER_THRESHOLD
<1> DEFINE V == FailVersions(t, s)
<1> DEFINE v == state_version[t]
<1>1. IsFiniteSet(V)
  BY FewerRoundsThanFails
<1>2. CASE Verifying(t)
  <2>1. Cardinality(V \ {v}) < FAILURE_SIGNATURE_BREAKER_THRESHOLD
    BY <1>2 DEF BreakerHolds
  <2>2. Cardinality(V \ {v}) = IF v \in V THEN Cardinality(V) - 1 ELSE Cardinality(V)
    BY <1>1, FS_RemoveElement
  <2>3. Cardinality(V) \in Nat
    BY <1>1, FS_CardinalityType
  <2> HIDE DEF V, v
  <2>4. QED
    BY <2>1, <2>2, <2>3 DEF FAILURE_SIGNATURE_BREAKER_THRESHOLD, V
<1>3. CASE ~Verifying(t)
  BY <1>3 DEF BreakerHolds
<1> QED
  BY <1>2, <1>3

\* A new failure is counted for the round that is open.
LEMMA FailVersionsGrow ==
  ASSUME ChainInv, [Next]_vars, NEW t \in Tasks, NEW s
  PROVE  /\ FailVersions(t, s)' \subseteq FailVersions(t, s) \union {state_version[t]}
         /\ ~Verifying(t) => FailVersions(t, s)' \subseteq FailVersions(t, s)
<1>1. TypeOK
  BY DEF ChainInv
<1> SUFFICES ASSUME NEW i \in FailRows(t, s)'
             PROVE  \/ artifacts'[t][i].state_version \in FailVersions(t, s)
                    \/ Verifying(t) /\ artifacts'[t][i].state_version = state_version[t]
  BY DEF FailVersions
<1>2. i \in DOMAIN artifacts'[t] /\ artifacts'[t][i].artifact_type = "VerificationReport"
  BY DEF FailRows, Rows
<1>3. CASE i \in DOMAIN artifacts[t]
  <2>1. artifacts'[t][i] = artifacts[t][i]
    BY <1>1, <1>3, NextKeepsRows, Lengths DEF RowsKept
  <2>2. i \in FailRows(t, s)
    BY <1>3, <2>1 DEF FailRows, Rows
  <2>3. QED
    BY <2>1, <2>2 DEF FailVersions
<1>4. CASE i \notin DOMAIN artifacts[t]
  <2>1. PICK type \in ArtifactTypes, producer \in Actors, expected \in 0..MaxVersion :
          \E payload \in Payloads(type) :
             /\ PutArtifact(t, type, producer, payload, expected)
             /\ artifacts'[t][i] = [artifact_type |-> type, producer |-> producer,
                                    state_version |-> expected, payload |-> payload]
    BY <1>1, <1>2, <1>4, NewArtifact
  <2>2. type = "VerificationReport" /\ artifacts'[t][i].state_version = expected
    BY <1>2, <2>1
  <2>3. state_version[t] = expected /\ state[t] \in ARTIFACT_ALLOWED_STATES[type]
    BY <2>1 DEF PutArtifact, AtVersion
  <2>4. QED
    BY <2>2, <2>3 DEF Verifying, ARTIFACT_ALLOWED_STATES
<1> QED
  BY <1>3, <1>4

\* In the same state and at the same version, a further report changes nothing
\* in the number of earlier rounds.
LEMMA SameStateKeepsBreaker ==
  ASSUME ChainInv, [Next]_vars, NEW t \in Tasks, NEW s, BreakerHolds(t, s),
         state'[t] = state[t], state_version'[t] = state_version[t]
  PROVE  BreakerHolds(t, s)'
<1>1. TypeOK
  BY DEF ChainInv
<1>2. IsFiniteSet(FailVersions(t, s))
  BY <1>1, FewerRoundsThanFails
<1>3. Verifying(t)' = Verifying(t)
  BY DEF Verifying
<1>4. CASE Verifying(t)
  <2> DEFINE Old == FailVersions(t, s) \ {state_version[t]}
  <2> DEFINE New == FailVersions(t, s)' \ {state_version[t]}
  <2>1. New \subseteq Old
    BY FailVersionsGrow
  <2>2. IsFiniteSet(Old)
    BY <1>2, FS_RemoveElement
  <2>3. Cardinality(New) <= Cardinality(Old)
          /\ Cardinality(New) \in Nat /\ Cardinality(Old) \in Nat
    BY <2>1, <2>2, SmallerSet
  <2>4. Cardinality(Old) < FAILURE_SIGNATURE_BREAKER_THRESHOLD
    BY <1>4 DEF BreakerHolds
  <2>5. Cardinality(New) < FAILURE_SIGNATURE_BREAKER_THRESHOLD
    <3> HIDE DEF Old, New
    <3> QED
      BY <2>3, <2>4 DEF FAILURE_SIGNATURE_BREAKER_THRESHOLD
  <2>6. QED
    BY <1>3, <1>4, <2>5 DEF BreakerHolds
<1>5. CASE ~Verifying(t)
  <2>1. FailVersions(t, s)' \subseteq FailVersions(t, s)
    BY <1>5, FailVersionsGrow
  <2> DEFINE Old == FailVersions(t, s)
  <2> DEFINE New == FailVersions(t, s)'
  <2>2. Cardinality(New) <= Cardinality(Old)
          /\ Cardinality(New) \in Nat /\ Cardinality(Old) \in Nat
    BY <1>2, <2>1, SmallerSet
  <2>3. Cardinality(Old) <= FAILURE_SIGNATURE_BREAKER_THRESHOLD
    BY <1>5 DEF BreakerHolds
  <2>4. Cardinality(New) <= FAILURE_SIGNATURE_BREAKER_THRESHOLD
    <3> HIDE DEF Old, New
    <3> QED
      BY <2>2, <2>3 DEF FAILURE_SIGNATURE_BREAKER_THRESHOLD
  <2>5. QED
    BY <1>3, <1>5, <2>4 DEF BreakerHolds
<1> QED
  BY <1>4, <1>5

\* No round is opened once the breaker has tripped.
LEMMA TransitionKeepsBreaker ==
  ASSUME TypeOK, NEW t \in Tasks, NEW s \in Signatures, BreakerHolds(t, s), NEW target,
         NEW actor, NEW reason, NEW expected, Transition(t, target, actor, reason, expected)
  PROVE  BreakerHolds(t, s)'
<1> DEFINE V == FailVersions(t, s)
<1>1. state'[t] = target /\ UNCHANGED artifacts /\ PreconditionsMet(t, target, reason)
  BY DEF Transition, TypeOK
<1>2. FailVersions(t, s)' = V
  BY <1>1 DEF FailVersions, FailRows, Rows
<1>3. IsFiniteSet(V)
  BY FewerRoundsThanFails
<1>4. CASE target \in {"VERIFYING", "READONLY_VERIFYING"}
  <2>1. ~(Cardinality(FailRows(t, s)) >= FAILURE_SIGNATURE_BREAKER_THRESHOLD)
    BY <1>1, <1>4 DEF PreconditionsMet, Tripped, BREAKER_GUARDED_TARGETS
  <2>2. Cardinality(V) <= Cardinality(FailRows(t, s)) /\ Cardinality(FailRows(t, s)) \in Nat
    BY FewerRoundsThanFails, FailsFinite
  <2>3. \A w : /\ Cardinality(V \ {w}) <= Cardinality(V)
               /\ Cardinality(V \ {w}) \in Nat /\ Cardinality(V) \in Nat
    BY <1>3, SmallerSet
  <2> HIDE DEF V
  <2>4. \A w : Cardinality(V \ {w}) < FAILURE_SIGNATURE_BREAKER_THRESHOLD
    BY <2>1, <2>2, <2>3 DEF FAILURE_SIGNATURE_BREAKER_THRESHOLD
  <2>5. Verifying(t)'
    BY <1>1, <1>4 DEF Verifying
  <2>6. QED
    BY <1>2, <2>4, <2>5 DEF BreakerHolds
<1>5. CASE target \notin {"VERIFYING", "READONLY_VERIFYING"}
  <2>1. ~Verifying(t)'
    BY <1>1, <1>5 DEF Verifying
  <2>2. Cardinality(V) <= FAILURE_SIGNATURE_BREAKER_THRESHOLD
    BY BreakerBounds
  <2>3. QED
    BY <1>2, <2>1, <2>2 DEF BreakerHolds
<1> QED
  BY <1>4, <1>5

LEMMA CreateTaskKeepsBreaker ==
  ASSUME TypeOK, NEW t \in Tasks, NEW s \in Signatures, BreakerHolds(t, s), NEW caller,
         CreateTask(t, caller)
  PROVE  BreakerHolds(t, s)'
<1>1. state[t] = Absent /\ state'[t] = "RECEIVED" /\ UNCHANGED artifacts
  BY DEF CreateTask, Created, TypeOK
<1>2. ~Verifying(t) /\ ~Verifying(t)'
  BY <1>1 DEF Verifying, Absent
<1>3. FailVersions(t, s)' = FailVersions(t, s)
  BY <1>1 DEF FailVersions, FailRows, Rows
<1> QED
  BY <1>2, <1>3 DEF BreakerHolds

LEMMA NextBreakerInv ==
  ASSUME ChainInv, BreakerInv, [Next]_vars
  PROVE  BreakerInv'
<1> SUFFICES ASSUME NEW t \in Tasks, NEW s \in Signatures PROVE BreakerHolds(t, s)'
  BY DEF BreakerInv
<1>1. TypeOK /\ BreakerHolds(t, s)
  BY DEF ChainInv, BreakerInv
<1>2. ASSUME state'[t] = state[t], state_version'[t] = state_version[t]
      PROVE  BreakerHolds(t, s)'
  BY <1>1, <1>2, SameStateKeepsBreaker
<1>3. CASE \E u \in Tasks, actor \in Actors : CreateTask(u, actor)
  <2>1. PICK u \in Tasks, actor \in Actors : CreateTask(u, actor)
    BY <1>3
  <2>2. CASE u = t
    BY <1>1, <2>1, <2>2, CreateTaskKeepsBreaker
  <2>3. CASE u # t
    BY <1>1, <1>2, <2>1, <2>3 DEF CreateTask, TypeOK
  <2>4. QED
    BY <2>2, <2>3
<1>4. CASE \E u \in Tasks, request \in Requests, reason \in Reasons, expected \in 0..MaxVersion :
             Transition(u, request[2], request[1], reason, expected)
  <2>1. PICK u \in Tasks, request \in Requests, reason \in Reasons, expected \in 0..MaxVersion :
               Transition(u, request[2], request[1], reason, expected)
    BY <1>4
  <2>2. CASE u = t
    BY <1>1, <2>1, <2>2, TransitionKeepsBreaker
  <2>3. CASE u # t
    BY <1>1, <1>2, <2>1, <2>3 DEF Transition, TypeOK
  <2>4. QED
    BY <2>2, <2>3
<1>5. CASE \E u \in Tasks, actor \in Actors, scope \in Scopes,
              expected_state \in ExpectedStates, expected \in 0..MaxVersion :
             RequestApproval(u, actor, scope, expected_state, expected)
  BY <1>2, <1>5 DEF RequestApproval
<1>6. CASE \E i \in DOMAIN approvals, actor \in Actors, decision \in {"APPROVED", "REJECTED"},
              digest \in Scopes, evidence \in BOOLEAN :
             DecideApproval(i, actor, decision, digest, evidence)
  BY <1>2, <1>6 DEF DecideApproval
<1>7. CASE \E u \in Tasks, type \in PublishedTypes, producer \in Actors :
             \E payload \in Payloads(type), expected \in 0..MaxVersion :
               PutArtifact(u, type, producer, payload, expected)
  BY <1>2, <1>7 DEF PutArtifact
<1>8. CASE UNCHANGED vars
  BY <1>2, <1>8 DEF vars
<1> QED
  BY <1>3, <1>4, <1>5, <1>6, <1>7, <1>8 DEF Next

LEMMA InitBreakerInv == Init => BreakerInv
<1> SUFFICES ASSUME Init, NEW t \in Tasks, NEW s \in Signatures PROVE BreakerHolds(t, s)
  BY DEF BreakerInv
<1>1. state[t] = Absent /\ DOMAIN artifacts[t] = {}
  BY DEF Init
<1>2. FailVersions(t, s) = {}
  BY <1>1 DEF FailVersions, FailRows, Rows
<1>3. Cardinality(FailVersions(t, s)) = 0
  BY <1>2, FS_EmptySet
<1> QED
  BY <1>1, <1>3
  DEF BreakerHolds, Verifying, Absent, FAILURE_SIGNATURE_BREAKER_THRESHOLD

\* One failure signature is retried in at most three verification rounds,
\* whatever branches and recoveries the rounds are spread over.
THEOREM RetriesAreBounded == Spec => []RetriesBounded
<1>1. ChainInv /\ BreakerInv => RetriesBounded
  BY BreakerBounds DEF ChainInv, BreakerInv, RetriesBounded, FailVersions
<1>2. ChainInv /\ BreakerInv /\ [Next]_vars => BreakerInv'
  BY NextBreakerInv
<1> QED
  BY <1>1, <1>2, InitBreakerInv, ChainInvAlways, PTL DEF Spec

-----------------------------------------------------------------------------
(* What was verified validates                                             *)

PassRows(t) ==
  {i \in Rows(t, "VerificationReport") : artifacts[t][i].payload.verdict = "PASS"}

VerifiedStates ==
  {"RELEASE_READY", "READONLY_VERIFIED", "EVIDENCE_PACKED", "POSTMORTEM", "SKILL_DISTILLING"}

\* The verdict that let a task into a verified state is still there, and the
\* read-only branch was verified before it was packed.
Vouched(t) ==
  /\ state[t] \in VerifiedStates => PassRows(t) # {}
  /\ state[t] = "EVIDENCE_PACKED" => "READONLY_VERIFIED" \in Visited(t)

PackInv ==
  /\ \A t \in Tasks : ArtifactsWellFormed(t) /\ Vouched(t)
  /\ \A i \in DOMAIN approvals :
       approvals[i].status = "APPROVED" => approvals[i].decision_evidence

LEMMA PackInvSuffices == ChainInv /\ PackInv => VerifiedPackValid
<1> SUFFICES ASSUME ChainInv, PackInv, NEW t \in Tasks, state[t] \in VerifiedStates
             PROVE  PackValid(t)
  BY DEF VerifiedPackValid, VerifiedStates
<1>1. Created(t)
  BY DEF Created, Absent, VerifiedStates
<1>2. ChainReplays(t)
  BY <1>1, ChainInvImpliesChainIntact DEF ChainIntact
<1>3. ArtifactsWellFormed(t) /\ ApprovalsEvidenced(t) /\ PassRows(t) # {}
  BY DEF PackInv, ApprovalsEvidenced, Vouched
<1>4. Rows(t, "VerificationReport") # {}
  BY <1>3 DEF PassRows
<1>5. state[t] = "EVIDENCE_PACKED" => "READONLY_VERIFIED" \in Visited(t)
  BY DEF PackInv, Vouched
<1> QED
  BY <1>2, <1>3, <1>4, <1>5 DEF PackValid, PassRows

LEMMA NextWellFormed ==
  ASSUME TypeOK, [Next]_vars, NEW t \in Tasks, ArtifactsWellFormed(t)
  PROVE  ArtifactsWellFormed(t)'
<1> SUFFICES ASSUME NEW i \in DOMAIN artifacts'[t]
             PROVE  /\ artifacts'[t][i].producer
                         = ARTIFACT_PRODUCERS[artifacts'[t][i].artifact_type]
                    /\ HasRequiredFields(artifacts'[t][i].artifact_type,
                                         artifacts'[t][i].payload)
  BY DEF ArtifactsWellFormed
<1>1. CASE i \in DOMAIN artifacts[t]
  BY <1>1, NextKeepsRows, Lengths DEF RowsKept, ArtifactsWellFormed
<1>2. CASE i \notin DOMAIN artifacts[t]
  <2>1. PICK type \in ArtifactTypes, producer \in Actors, expected \in 0..MaxVersion :
          \E payload \in Payloads(type) :
             /\ PutArtifact(t, type, producer, payload, expected)
             /\ artifacts'[t][i] = [artifact_type |-> type, producer |-> producer,
                                    state_version |-> expected, payload |-> payload]
    BY <1>2, NewArtifact
  <2>2. PICK payload \in Payloads(type) :
             /\ PutArtifact(t, type, producer, payload, expected)
             /\ artifacts'[t][i] = [artifact_type |-> type, producer |-> producer,
                                    state_version |-> expected, payload |-> payload]
    BY <2>1
  <2>3. producer = ARTIFACT_PRODUCERS[type] /\ HasRequiredFields(type, payload)
    BY <2>2 DEF PutArtifact
  <2>4. QED
    BY <2>2, <2>3
<1> QED
  BY <1>1, <1>2

LEMMA NextEvidenced ==
  ASSUME TypeOK, [Next]_vars, NEW i \in DOMAIN approvals',
         approvals'[i].status = "APPROVED",
         \A j \in DOMAIN approvals :
           approvals[j].status = "APPROVED" => approvals[j].decision_evidence
  PROVE  approvals'[i].decision_evidence
<1>1. i \in DOMAIN approvals
  BY NewDecision
<1>2. CASE approvals'[i] = approvals[i]
  BY <1>1, <1>2
<1>3. CASE \E caller, decision, digest, evidence :
             DecideApproval(i, caller, decision, digest, evidence)
  <2>1. PICK caller, decision, digest, evidence :
               DecideApproval(i, caller, decision, digest, evidence)
    BY <1>3
  <2> DEFINE instant == Cardinality(Decided) + 1
  <2>2. /\ evidence
        /\ approvals' = [approvals EXCEPT ![i] =
             [approvals[i] EXCEPT !.status = decision, !.decided_at = instant,
                                  !.decision_evidence = evidence]]
    BY <2>1 DEF DecideApproval
  <2> HIDE DEF instant
  <2>3. approvals[i] \in ApprovalRows
    BY <1>1 DEF TypeOK
  <2>4. approvals'[i] = [approvals[i] EXCEPT !.status = decision, !.decided_at = instant,
                                             !.decision_evidence = evidence]
    BY <1>1, <2>2 DEF TypeOK
  <2>5. approvals'[i].decision_evidence = evidence
    BY <2>3, <2>4 DEF ApprovalRows
  <2>6. QED
    BY <2>2, <2>5
<1> QED
  BY <1>2, <1>3, NewDecision

LEMMA PassRowsStay ==
  ASSUME TypeOK, [Next]_vars, NEW t \in Tasks
  PROVE  PassRows(t) \subseteq PassRows(t)'
BY RowsStay DEF PassRows

LEMMA VisitsStay ==
  ASSUME ChainInv, [Next]_vars, NEW t \in Tasks, Created(t)
  PROVE  Visited(t) \subseteq Visited(t)'
<1>1. TypeOK /\ TypeOK'
  BY NextTypeOK DEF ChainInv
<1>2. /\ DOMAIN events[t] = 1..Len(events[t]) /\ Len(events[t]) \in Nat
      /\ DOMAIN events'[t] = 1..Len(events'[t]) /\ Len(events'[t]) \in Nat
  BY <1>1 DEF TypeOK
<1>3. LogKept(t)
  BY NextKeepsLogs
<1>4. \A i \in Steps(t) : i \in Steps(t)' /\ events'[t][i] = events[t][i]
  BY <1>2, <1>3 DEF LogKept, Steps
<1> QED
  BY <1>4 DEF Visited

\* The present state has been visited.
LEMMA PresentVisited ==
  ASSUME ChainInv, NEW t \in Tasks, Created(t)
  PROVE  state[t] \in Visited(t)
<1>1. TypeOK /\ Chained(t)
  BY DEF ChainInv
<1>2. state_version[t] \in Nat /\ Len(events[t]) = state_version[t] + 1
  BY <1>1, Lengths DEF Chained
<1>3. CASE state_version[t] = 0
  BY <1>1, <1>3 DEF Chained, StateAt, Visited
<1>4. CASE state_version[t] # 0
  <2>1. state_version[t] + 1 \in Steps(t)
    BY <1>1, <1>2, <1>4, ChainedSteps
  <2>2. state[t] = events[t][state_version[t] + 1].target
    BY <1>1, <1>4 DEF Chained, StateAt
  <2>3. QED
    BY <2>1, <2>2 DEF Visited
<1> QED
  BY <1>3, <1>4

LEMMA TransitionVouched ==
  ASSUME ChainInv, [Next]_vars, NEW t \in Tasks, Vouched(t), NEW target \in States, NEW actor,
         NEW reason, NEW expected, Transition(t, target, actor, reason, expected)
  PROVE  Vouched(t)'
<1>1. TypeOK
  BY DEF ChainInv
<1>2. /\ Created(t) /\ state[t] \in States /\ state'[t] = target
      /\ target \in TRANSITIONS[state[t]]
      /\ PreconditionsMet(t, target, reason)
  BY <1>1 DEF Transition, AtVersion, Created, TypeOK
<1>3. PassRows(t) \subseteq PassRows(t)'
  BY <1>1, PassRowsStay
<1>4. ASSUME target \in {"RELEASE_READY", "READONLY_VERIFIED"} PROVE PassRows(t) # {}
  <2>1. <<state[t], target>> \in NeedsPassingReport
    BY <1>2, <1>4 DEF States, TRANSITIONS, NeedsPassingReport
  <2>2. PassedAt(t, state_version[t])
    BY <1>2, <2>1 DEF PreconditionsMet
  <2>3. QED
    BY <2>2 DEF PassedAt, PassRows
<1>5. ASSUME target \in {"EVIDENCE_PACKED", "POSTMORTEM", "SKILL_DISTILLING"}
      PROVE  state[t] \in VerifiedStates
  BY <1>2, <1>5 DEF States, TRANSITIONS, VerifiedStates
<1>6. target \in VerifiedStates => PassRows(t) # {}
  BY <1>4, <1>5 DEF VerifiedStates, Vouched
<1>7. ASSUME target = "EVIDENCE_PACKED" PROVE "READONLY_VERIFIED" \in Visited(t)'
  <2>1. state[t] = "READONLY_VERIFIED"
    BY <1>2, <1>7 DEF States, TRANSITIONS
  <2>2. QED
    BY <1>2, <2>1, PresentVisited, VisitsStay
<1> QED
  BY <1>2, <1>3, <1>6, <1>7 DEF Vouched

LEMMA SameStateVouched ==
  ASSUME ChainInv, [Next]_vars, NEW t \in Tasks, Vouched(t), state'[t] = state[t]
  PROVE  Vouched(t)'
<1>1. PassRows(t) \subseteq PassRows(t)'
  BY PassRowsStay DEF ChainInv
<1>2. state[t] = "EVIDENCE_PACKED" => Visited(t) \subseteq Visited(t)'
  BY VisitsStay DEF Created, Absent
<1> QED
  BY <1>1, <1>2 DEF Vouched

LEMMA NextVouched ==
  ASSUME ChainInv, [Next]_vars, NEW t \in Tasks, Vouched(t)
  PROVE  Vouched(t)'
<1>1. ASSUME state'[t] = state[t] PROVE Vouched(t)'
  BY <1>1, SameStateVouched
<1>2. TypeOK
  BY DEF ChainInv
<1>3. CASE \E u \in Tasks, actor \in Actors : CreateTask(u, actor)
  <2>1. PICK u \in Tasks, actor \in Actors : CreateTask(u, actor)
    BY <1>3
  <2>2. CASE u = t
    <3>1. state'[t] = "RECEIVED"
      BY <1>2, <2>1, <2>2 DEF CreateTask, TypeOK
    <3>2. QED
      BY <3>1 DEF Vouched, VerifiedStates
  <2>3. CASE u # t
    BY <1>1, <1>2, <2>1, <2>3 DEF CreateTask, TypeOK
  <2>4. QED
    BY <2>2, <2>3
<1>4. CASE \E u \in Tasks, request \in Requests, reason \in Reasons, expected \in 0..MaxVersion :
             Transition(u, request[2], request[1], reason, expected)
  <2>1. PICK u \in Tasks, request \in Requests, reason \in Reasons, expected \in 0..MaxVersion :
               Transition(u, request[2], request[1], reason, expected)
    BY <1>4
  <2>2. request[2] \in States
    BY InputsAssumption
  <2>3. CASE u = t
    BY <2>1, <2>2, <2>3, TransitionVouched
  <2>4. CASE u # t
    BY <1>1, <1>2, <2>1, <2>4 DEF Transition, TypeOK
  <2>5. QED
    BY <2>3, <2>4
<1>5. CASE \E u \in Tasks, actor \in Actors, scope \in Scopes,
              expected_state \in ExpectedStates, expected \in 0..MaxVersion :
             RequestApproval(u, actor, scope, expected_state, expected)
  BY <1>1, <1>5 DEF RequestApproval
<1>6. CASE \E i \in DOMAIN approvals, actor \in Actors, decision \in {"APPROVED", "REJECTED"},
              digest \in Scopes, evidence \in BOOLEAN :
             DecideApproval(i, actor, decision, digest, evidence)
  BY <1>1, <1>6 DEF DecideApproval
<1>7. CASE \E u \in Tasks, type \in PublishedTypes, producer \in Actors :
             \E payload \in Payloads(type), expected \in 0..MaxVersion :
               PutArtifact(u, type, producer, payload, expected)
  BY <1>1, <1>7 DEF PutArtifact
<1>8. CASE UNCHANGED vars
  BY <1>1, <1>8 DEF vars
<1> QED
  BY <1>3, <1>4, <1>5, <1>6, <1>7, <1>8 DEF Next

LEMMA NextPackInv == ChainInv /\ PackInv /\ [Next]_vars => PackInv'
<1> SUFFICES ASSUME ChainInv, PackInv, [Next]_vars PROVE PackInv'
  OBVIOUS
<1>1. TypeOK
  BY DEF ChainInv
<1>2. \A t \in Tasks : ArtifactsWellFormed(t)' /\ Vouched(t)'
  BY <1>1, NextWellFormed, NextVouched DEF PackInv
<1>3. \A i \in DOMAIN approvals' :
        approvals'[i].status = "APPROVED" => approvals'[i].decision_evidence
  BY <1>1, NextEvidenced DEF PackInv
<1> QED
  BY <1>2, <1>3 DEF PackInv

LEMMA InitPackInv == Init => PackInv
<1> SUFFICES ASSUME Init PROVE PackInv
  OBVIOUS
<1>1. /\ DOMAIN approvals = {}
      /\ \A t \in Tasks : DOMAIN artifacts[t] = {} /\ state[t] = Absent
  BY DEF Init
<1> QED
  BY <1>1 DEF PackInv, ArtifactsWellFormed, Vouched, VerifiedStates, Absent

\* The evidence gate accepts whatever was verified: no call, late or repeated,
\* makes the pack of a verified task invalid.
THEOREM VerifiedPacksValidate == Spec => []VerifiedPackValid
BY PackInvSuffices, NextPackInv, InitPackInv, ChainInvAlways, PTL DEF Spec

-----------------------------------------------------------------------------
(* What is released was approved                                           *)

\* v is the last visit of t to the approval gate, and its approval was carried out.
Anchor(t, v) ==
  /\ StateAt(t, v) = "AWAITING_APPROVAL"
  /\ \A w \in v + 1..state_version[t] : StateAt(t, w) # "AWAITING_APPROVAL"
  /\ LastApprovalCarriedOut(t, v)

PatchStates == {"PATCHED", "VERIFYING", "RELEASE_READY"}

\* A release comes from VERIFYING, that from PATCHED, and that, when nothing is
\* recovered, from the gate: nobody can take a task to RETRYABLE_FAILURE.
Anchored(t) ==
  /\ state[t] # "RETRYABLE_FAILURE"
  /\ state[t] \in PatchStates /\ "RECOVERING" \notin Visited(t)
       => \E v \in 0..state_version[t] : Anchor(t, v)

LEMMA AnchorStays ==
  ASSUME ChainInv, [Next]_vars, NEW t \in Tasks, Created(t), NEW v \in 0..state_version[t],
         Anchor(t, v), state[t] # "AWAITING_APPROVAL", state'[t] # "AWAITING_APPROVAL",
         state_version'[t] \in {state_version[t], state_version[t] + 1}
  PROVE  v \in 0..state_version'[t] /\ Anchor(t, v)'
<1>1. TypeOK /\ Chained(t) /\ LogKept(t)
  BY NextKeepsLogs DEF ChainInv
<1>2. state_version[t] \in Nat
  BY <1>1, Lengths
<1>3. Chained(t)'
  BY <1>1, NextChainInv DEF ChainInv, LogKept
<1>4. v < state_version[t]
  BY <1>1, <1>2 DEF Anchor, Chained
<1>5. LastApprovalCarriedOut(t, v)'
  BY <1>1, <1>4, CarriedOutStays DEF Anchor
<1>6. StateAt(t, v)' = "AWAITING_APPROVAL"
  BY <1>1 DEF LogKept, Anchor
<1>7. ASSUME NEW w \in v + 1..state_version'[t] PROVE StateAt(t, w)' # "AWAITING_APPROVAL"
  <2>1. CASE w <= state_version[t]
    <3>1. w \in v + 1..state_version[t] /\ w \in 0..state_version[t]
      BY <1>2, <2>1
    <3>2. QED
      BY <1>1, <3>1 DEF LogKept, Anchor
  <2>2. CASE w = state_version'[t]
    <3>1. StateAt(t, w)' = state'[t]
      BY <1>3, <2>2 DEF Chained, StateAt
    <3>2. QED
      BY <3>1
  <2>3. QED
    BY <1>2, <2>1, <2>2
<1>8. v \in 0..state_version'[t]
  BY <1>2
<1> QED
  BY <1>5, <1>6, <1>7, <1>8 DEF Anchor

LEMMA TransitionAnchored ==
  ASSUME ChainInv, [Next]_vars, NEW t \in Tasks, Anchored(t), NEW target \in States,
         NEW actor \in Actors, NEW reason, NEW expected \in 0..MaxVersion,
         Transition(t, target, actor, reason, expected)
  PROVE  Anchored(t)'
<1>1. TypeOK /\ Chained(t) /\ Created(t)
  BY DEF ChainInv, Transition, AtVersion
<1>2. /\ state[t] \in States /\ state'[t] = target
      /\ state_version[t] = expected /\ state_version'[t] = expected + 1
      /\ target \in TRANSITIONS[state[t]] /\ target \in ACTOR_TARGETS[actor]
      /\ PatchGate(t, target, expected)
      /\ UNCHANGED <<artifacts, approvals>>
  BY <1>1 DEF Transition, AtVersion, Created, TypeOK
<1>3. target # "RETRYABLE_FAILURE"
  BY <1>2 DEF ACTOR_TARGETS, Actors
<1>4. ASSUME target \in PatchStates, "RECOVERING" \notin Visited(t)'
      PROVE  \E v \in 0..state_version'[t] : Anchor(t, v)'
  <2>1. "RECOVERING" \notin Visited(t)
    BY <1>1, <1>4, VisitsStay
  <2>2. state[t] # "RECOVERING"
    BY <1>1, <2>1, PresentVisited
  <2>3. \/ state[t] = "AWAITING_APPROVAL" /\ target = "PATCHED"
       \/ state[t] \in PatchStates
    BY <1>2, <1>4, <2>2 DEF Anchored, PatchStates, States, TRANSITIONS
  <2>4. CASE state[t] \in PatchStates
    <3>1. PICK v \in 0..state_version[t] : Anchor(t, v)
      BY <2>1, <2>4 DEF Anchored
    <3>2. state[t] # "AWAITING_APPROVAL" /\ state'[t] # "AWAITING_APPROVAL"
      BY <1>2, <1>4, <2>4 DEF PatchStates
    <3>3. QED
      BY <1>1, <1>2, <3>1, <3>2, AnchorStays
  <2>5. CASE state[t] = "AWAITING_APPROVAL" /\ target = "PATCHED"
    <3>1. PatchApproved(t, expected)
      BY <1>2, <2>5 DEF PatchGate
    <3>2. LastApprovalCarriedOut(t, expected)'
      BY <1>2, <3>1
      DEF PatchApproved, LastApprovalCarriedOut, ApprovedNow, BundleFor, Rows
    <3>3. StateAt(t, expected)' = "AWAITING_APPROVAL"
      <4>1. StateAt(t, expected)' = StateAt(t, expected)
        BY <1>1, <1>2, NextKeepsLogs DEF LogKept
      <4>2. QED
        BY <1>1, <1>2, <2>5, <4>1 DEF Chained
    <3>4. StateAt(t, expected + 1)' = "PATCHED"
      <4>1. Chained(t)'
        BY <1>1, NextChainInv, NextKeepsLogs DEF ChainInv, LogKept
      <4>2. QED
        BY <1>2, <2>5, <4>1 DEF Chained, StateAt
    <3>5. \A w \in expected + 1..state_version'[t] : w = expected + 1
      BY <1>2
    <3>6. Anchor(t, expected)'
      BY <3>2, <3>3, <3>4, <3>5 DEF Anchor
    <3>7. expected \in 0..state_version'[t]
      BY <1>2, BoundsAssumption
    <3>8. QED
      BY <3>6, <3>7
  <2>6. QED
    BY <2>3, <2>4, <2>5
<1> QED
  BY <1>2, <1>3, <1>4 DEF Anchored

LEMMA SameStateAnchored ==
  ASSUME ChainInv, [Next]_vars, NEW t \in Tasks, Anchored(t),
         state'[t] = state[t], state_version'[t] = state_version[t]
  PROVE  Anchored(t)'
<1> SUFFICES ASSUME state[t] \in PatchStates, "RECOVERING" \notin Visited(t)'
             PROVE  \E v \in 0..state_version'[t] : Anchor(t, v)'
  BY DEF Anchored
<1>1. Created(t)
  BY DEF Created, Absent, PatchStates
<1>2. "RECOVERING" \notin Visited(t)
  BY <1>1, VisitsStay
<1>3. PICK v \in 0..state_version[t] : Anchor(t, v)
  BY <1>2 DEF Anchored
<1>4. state[t] # "AWAITING_APPROVAL" /\ state'[t] # "AWAITING_APPROVAL"
  BY DEF PatchStates
<1> QED
  BY <1>1, <1>3, <1>4, AnchorStays

LEMMA NextAnchored ==
  ASSUME ChainInv, [Next]_vars, NEW t \in Tasks, Anchored(t)
  PROVE  Anchored(t)'
<1>1. ASSUME state'[t] = state[t], state_version'[t] = state_version[t] PROVE Anchored(t)'
  BY <1>1, SameStateAnchored
<1>2. TypeOK
  BY DEF ChainInv
<1>3. CASE \E u \in Tasks, actor \in Actors : CreateTask(u, actor)
  <2>1. PICK u \in Tasks, actor \in Actors : CreateTask(u, actor)
    BY <1>3
  <2>2. CASE u = t
    <3>1. state'[t] = "RECEIVED"
      BY <1>2, <2>1, <2>2 DEF CreateTask, TypeOK
    <3>2. QED
      BY <3>1 DEF Anchored, PatchStates
  <2>3. CASE u # t
    BY <1>1, <1>2, <2>1, <2>3 DEF CreateTask, TypeOK
  <2>4. QED
    BY <2>2, <2>3
<1>4. CASE \E u \in Tasks, request \in Requests, reason \in Reasons, expected \in 0..MaxVersion :
             Transition(u, request[2], request[1], reason, expected)
  <2>1. PICK u \in Tasks, request \in Requests, reason \in Reasons, expected \in 0..MaxVersion :
               Transition(u, request[2], request[1], reason, expected)
    BY <1>4
  <2>2. request[1] \in Actors /\ request[2] \in States
    BY InputsAssumption
  <2>3. CASE u = t
    BY <2>1, <2>2, <2>3, TransitionAnchored
  <2>4. CASE u # t
    BY <1>1, <1>2, <2>1, <2>4 DEF Transition, TypeOK
  <2>5. QED
    BY <2>3, <2>4
<1>5. CASE \E u \in Tasks, actor \in Actors, scope \in Scopes,
              expected_state \in ExpectedStates, expected \in 0..MaxVersion :
             RequestApproval(u, actor, scope, expected_state, expected)
  BY <1>1, <1>5 DEF RequestApproval
<1>6. CASE \E i \in DOMAIN approvals, actor \in Actors, decision \in {"APPROVED", "REJECTED"},
              digest \in Scopes, evidence \in BOOLEAN :
             DecideApproval(i, actor, decision, digest, evidence)
  BY <1>1, <1>6 DEF DecideApproval
<1>7. CASE \E u \in Tasks, type \in PublishedTypes, producer \in Actors :
             \E payload \in Payloads(type), expected \in 0..MaxVersion :
               PutArtifact(u, type, producer, payload, expected)
  BY <1>1, <1>7 DEF PutArtifact
<1>8. CASE UNCHANGED vars
  BY <1>1, <1>8 DEF vars
<1> QED
  BY <1>3, <1>4, <1>5, <1>6, <1>7, <1>8 DEF Next

AnchoredInv == \A t \in Tasks : Anchored(t)

\* A release that nothing was recovered for carries out the last approval given
\* at the gate, through any number of plans, rounds and humans asked.
THEOREM ReleasesRestOnApproval == Spec => []ReleasedFromLastApproval
<1>1. Init => AnchoredInv
  BY DEF Init, AnchoredInv, Anchored, PatchStates, Absent
<1>2. ChainInv /\ AnchoredInv /\ [Next]_vars => AnchoredInv'
  BY NextAnchored DEF AnchoredInv
<1>3. AnchoredInv => ReleasedFromLastApproval
  BY DEF AnchoredInv, Anchored, PatchStates, Anchor, ReleasedFromLastApproval
<1> QED
  BY <1>1, <1>2, <1>3, ChainInvAlways, PTL DEF Spec

=============================================================================
