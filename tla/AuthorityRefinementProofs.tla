---------------------- MODULE AuthorityRefinementProofs ----------------------
(***************************************************************************)
(* StateAuthority implements VerificationGate, and WorkerOracle accepts    *)
(* what it commits: proofs for every value of the constants.               *)
(***************************************************************************)
EXTENDS AuthorityHistoryProofs

-----------------------------------------------------------------------------
(* The gate as StateAuthority shows it                                     *)

Passed(t) == Round(t) = "OPEN" /\ PassedAt(t, state_version[t])
Fails(t)  == [s \in Signatures |-> Cardinality(FailRows(t, s))]

GateRound  == [t \in Tasks |-> Round(t)]
GatePassed == [t \in Tasks |-> Passed(t)]
GateFails  == [t \in Tasks |-> Fails(t)]

\* The step shows nothing of t to the gate.
GateKept(t) ==
  /\ Round(t)' = Round(t)
  /\ Passed(t)' = Passed(t)
  /\ Fails(t)' = Fails(t)

LEMMA GateUntouched ==
  ASSUME NEW t \in Tasks, state'[t] = state[t], state_version'[t] = state_version[t],
         artifacts'[t] = artifacts[t]
  PROVE  GateKept(t)
<1>1. Round(t)' = Round(t)
  BY DEF Round
<1>2. Passed(t)' = Passed(t)
  BY <1>1 DEF Passed, PassedAt, Rows
<1>3. \A s \in Signatures : FailRows(t, s)' = FailRows(t, s)
  BY DEF FailRows, Rows
<1>4. Fails(t)' = Fails(t)
  BY <1>3 DEF Fails
<1> QED
  BY <1>1, <1>2, <1>4 DEF GateKept

\* A step that shows the gate t alone.
LEMMA OnlyOne ==
  ASSUME NEW t \in Tasks, \A u \in Tasks : u # t => GateKept(u)
  PROVE  /\ GateRound'  = [GateRound EXCEPT ![t] = Round(t)']
         /\ GatePassed' = [GatePassed EXCEPT ![t] = Passed(t)']
         /\ GateFails'  = [GateFails EXCEPT ![t] = Fails(t)']
<1>1. GateRound' = [GateRound EXCEPT ![t] = Round(t)']
  BY DEF GateKept, GateRound
<1>2. GatePassed' = [GatePassed EXCEPT ![t] = Passed(t)']
  BY DEF GateKept, GatePassed
<1>3. GateFails' = [GateFails EXCEPT ![t] = Fails(t)']
  BY DEF GateKept, GateFails
<1> QED
  BY <1>1, <1>2, <1>3

LEMMA AllKept ==
  ASSUME \A u \in Tasks : GateKept(u)
  PROVE  UNCHANGED Gate!vars
<1>1. GateRound' = GateRound /\ GatePassed' = GatePassed /\ GateFails' = GateFails
  BY DEF GateKept, GateRound, GatePassed, GateFails
<1> QED
  BY <1>1 DEF Gate!vars, GateRound, GatePassed, GateFails, Fails, Passed

LEMMA TransitionImplementsGate ==
  ASSUME HistoryInv, NEW t \in Tasks, NEW target \in States, NEW actor,
         NEW reason, NEW expected \in 0..MaxVersion,
         Transition(t, target, actor, reason, expected)
  PROVE  [Gate!Next]_(Gate!vars)
<1>1. TypeOK
  BY DEF HistoryInv, ChainInv
<1>2. /\ state[t] \in States /\ state_version[t] = expected
      /\ target \in TRANSITIONS[state[t]]
      /\ PreconditionsMet(t, target, reason)
      /\ state'[t] = target /\ state_version'[t] = expected + 1
      /\ UNCHANGED artifacts
  BY <1>1 DEF Transition, AtVersion, Created, TypeOK
<1>3. \A u \in Tasks : u # t => GateKept(u)
  BY <1>1, GateUntouched DEF Transition, TypeOK
<1>4. Fails(t)' = Fails(t)
  BY <1>2 DEF Fails, FailRows, Rows
<1>5. /\ GateRound'  = [GateRound EXCEPT ![t] = Round(t)']
      /\ GatePassed' = [GatePassed EXCEPT ![t] = Passed(t)']
      /\ GateFails'  = GateFails
  BY <1>3, <1>4, OnlyOne DEF GateFails
<1>6. ~Passed(t)'
  <2>1. SUFFICES ASSUME Passed(t)' PROVE FALSE
    OBVIOUS
  <2>2. PICK i \in DOMAIN artifacts[t] : artifacts[t][i].state_version = expected + 1
    BY <1>2, <2>1 DEF Passed, PassedAt, Rows
  <2>3. artifacts[t][i].state_version <= state_version[t]
    BY DEF HistoryInv, WrittenWhereAllowed
  <2>4. QED
    BY <1>2, <2>2, <2>3
<1>7. GatePassed' = [GatePassed EXCEPT ![t] = FALSE]
  BY <1>5, <1>6 DEF Passed
<1>8. CASE target \in {"VERIFYING", "READONLY_VERIFYING"}
  <2>1. Round(t)' = "OPEN"
    BY <1>2, <1>8 DEF Round
  <2>2. Round(t) # "OPEN"
    BY <1>2, <1>8 DEF Round, States, TRANSITIONS
  <2>3. ~Tripped(t)
    BY <1>2, <1>8 DEF PreconditionsMet, BREAKER_GUARDED_TARGETS
  <2>4. \A s \in Signatures :
          ~(Cardinality(FailRows(t, s)) >= FAILURE_SIGNATURE_BREAKER_THRESHOLD)
    BY <2>3 DEF Tripped
  <2>5. Gate!Open(t)
    BY <1>5, <1>7, <2>1, <2>2, <2>4
    DEF Gate!Open, Gate!Tripped, GateRound, GatePassed, GateFails, Fails, Passed
  <2>6. QED
    BY <2>5 DEF Gate!Next
<1>9. CASE target \in {"RELEASE_READY", "READONLY_VERIFIED"}
  <2>1. Round(t)' = "VERIFIED"
    BY <1>2, <1>9 DEF Round
  <2>2. state[t] \in {"VERIFYING", "READONLY_VERIFYING"}
          /\ <<state[t], target>> \in NeedsPassingReport
    BY <1>2, <1>9 DEF States, TRANSITIONS, NeedsPassingReport
  <2>3. Round(t) = "OPEN" /\ PassedAt(t, state_version[t])
    BY <1>2, <2>2 DEF Round, PreconditionsMet
  <2>4. Gate!Verify(t)
    BY <1>5, <1>7, <2>1, <2>3
    DEF Gate!Verify, GateRound, GatePassed, GateFails, Fails, Passed
  <2>5. QED
    BY <2>4 DEF Gate!Next
<1>10. CASE target \notin {"VERIFYING", "READONLY_VERIFYING", "RELEASE_READY",
                           "READONLY_VERIFIED"}
  <2>1. Round(t)' = "SHUT"
    BY <1>2, <1>10 DEF Round
  <2>2. CASE Round(t) = "SHUT"
    <3>1. GateKept(t)
      BY <1>4, <1>6, <2>1, <2>2 DEF GateKept, Passed
    <3>2. QED
      BY <1>3, <3>1, AllKept
  <2>3. CASE Round(t) # "SHUT"
    <3>1. Gate!Shut(t)
      BY <1>5, <1>7, <2>1, <2>3
      DEF Gate!Shut, GateRound, GatePassed, GateFails, Fails, Passed
    <3>2. QED
      BY <3>1 DEF Gate!Next
  <2>4. QED
    BY <2>2, <2>3
<1> QED
  BY <1>8, <1>9, <1>10

LEMMA ReportImplementsGate ==
  ASSUME TypeOK, NEW t \in Tasks, NEW producer \in Actors,
         NEW payload \in Payloads("VerificationReport"), NEW expected \in 0..MaxVersion,
         PutArtifact(t, "VerificationReport", producer, payload, expected)
  PROVE  [Gate!Next]_(Gate!vars)
<1> DEFINE row == [artifact_type |-> "VerificationReport", producer |-> producer,
                   state_version |-> expected, payload |-> payload]
<1> DEFINE new == Len(artifacts[t]) + 1
<1>1. /\ artifacts' = [artifacts EXCEPT ![t] = Append(@, row)]
      /\ state_version[t] = expected
      /\ state[t] \in {"VERIFYING", "READONLY_VERIFYING"}
      /\ payload.verdict # Missing
      /\ UNCHANGED <<state, state_version>>
  BY DEF PutArtifact, AtVersion, ARTIFACT_ALLOWED_STATES, HasRequiredFields
<1>2. /\ row.artifact_type = "VerificationReport"
      /\ row.state_version = expected
      /\ row.payload = payload
  OBVIOUS
<1> HIDE DEF row
<1>3. artifacts[t] \in Seq(ArtifactRows) /\ artifacts'[t] = Append(artifacts[t], row)
  BY <1>1 DEF TypeOK
<1> HIDE DEF ArtifactRows
<1>4. /\ new \notin DOMAIN artifacts[t]
      /\ DOMAIN artifacts'[t] = DOMAIN artifacts[t] \union {new}
      /\ artifacts'[t][new] = row
      /\ \A k \in DOMAIN artifacts[t] : artifacts'[t][k] = artifacts[t][k]
  BY <1>3
<1> HIDE DEF new
<1>5. Round(t) = "OPEN" /\ Round(t)' = "OPEN"
  BY <1>1 DEF Round
<1>6. \A u \in Tasks : u # t => GateKept(u)
  BY <1>1, GateUntouched DEF TypeOK
<1>7. /\ GateRound'  = [GateRound EXCEPT ![t] = Round(t)']
      /\ GatePassed' = [GatePassed EXCEPT ![t] = Passed(t)']
      /\ GateFails'  = [GateFails EXCEPT ![t] = Fails(t)']
  BY <1>6, OnlyOne
<1>8. GateRound' = GateRound
  BY <1>5, <1>7 DEF GateRound
<1>9. \A s : FailRows(t, s)' =
         IF payload.verdict = "FAIL" /\ payload.failure_signature = s
         THEN FailRows(t, s) \union {new} ELSE FailRows(t, s)
  BY <1>2, <1>4 DEF FailRows, Rows
<1>10. PassedAt(t, state_version[t])'
         <=> PassedAt(t, state_version[t]) \/ payload.verdict = "PASS"
  BY <1>1, <1>2, <1>4 DEF PassedAt, Rows
<1>11. CASE payload.verdict = "PASS"
  <2>1. GateFails' = GateFails
    <3>1. \A s \in Signatures : FailRows(t, s)' = FailRows(t, s)
      BY <1>9, <1>11
    <3>2. Fails(t)' = Fails(t)
      BY <3>1 DEF Fails
    <3>3. QED
      BY <1>7, <3>2 DEF GateFails
  <2>2. GatePassed' = [GatePassed EXCEPT ![t] = TRUE]
    BY <1>5, <1>7, <1>10, <1>11 DEF Passed
  <2>3. Gate!ReportPass(t)
    BY <1>5, <1>8, <2>1, <2>2
    DEF Gate!ReportPass, GateRound, GatePassed, GateFails, Fails, Passed
  <2>4. QED
    BY <2>3 DEF Gate!Next
<1>12. CASE payload.verdict = "FAIL"
  <2>1. Passed(t)' = Passed(t)
    BY <1>5, <1>10, <1>12 DEF Passed
  <2>2. GatePassed' = GatePassed
    BY <1>7, <2>1 DEF GatePassed
  <2>3. CASE payload.failure_signature \in Signatures
    <3> DEFINE s == payload.failure_signature
    <3>1. \A r \in Signatures : r # s => FailRows(t, r)' = FailRows(t, r)
      BY <1>9
    <3>2. Cardinality(FailRows(t, s)') = Cardinality(FailRows(t, s)) + 1
      <4>1. FailRows(t, s)' = FailRows(t, s) \union {new}
        BY <1>9, <1>12
      <4>2. new \notin FailRows(t, s)
        BY <1>4 DEF FailRows, Rows
      <4>3. QED
        BY <4>1, <4>2, FailsFinite, FS_AddElement
    <3> HIDE DEF s
    <3>3. Fails(t)' = [Fails(t) EXCEPT ![s] = Fails(t)[s] + 1]
      BY <2>3, <3>1, <3>2 DEF Fails, s
    <3>4. GateFails' = [GateFails EXCEPT ![t][s] = GateFails[t][s] + 1]
      BY <1>7, <3>3 DEF GateFails
    <3>5. Gate!ReportFail(t, s)
      BY <1>5, <1>8, <2>2, <3>4
      DEF Gate!ReportFail, GateRound, GatePassed, GateFails, Fails, Passed
    <3>6. QED
      BY <2>3, <3>5 DEF Gate!Next, s
  <2>4. CASE payload.failure_signature \notin Signatures
    <3>1. \A s \in Signatures : FailRows(t, s)' = FailRows(t, s)
      BY <1>9, <2>4
    <3>2. GateKept(t)
      BY <1>5, <2>1, <3>1 DEF GateKept, Fails
    <3>3. QED
      BY <1>6, <3>2, AllKept
  <2>5. QED
    BY <2>3, <2>4
<1>13. payload.verdict \in {"PASS", "FAIL"}
  BY <1>1 DEF Payloads
<1> QED
  BY <1>11, <1>12, <1>13

\* Other artifacts are none of the gate's business.
LEMMA OtherArtifactImplementsGate ==
  ASSUME TypeOK, NEW t \in Tasks, NEW type \in ArtifactTypes, type # "VerificationReport",
         NEW producer, NEW payload, NEW expected,
         PutArtifact(t, type, producer, payload, expected)
  PROVE  UNCHANGED Gate!vars
<1> DEFINE row == [artifact_type |-> type, producer |-> producer,
                   state_version |-> expected, payload |-> payload]
<1>1. /\ artifacts' = [artifacts EXCEPT ![t] = Append(@, row)]
      /\ UNCHANGED <<state, state_version>>
  BY DEF PutArtifact
<1>2. row.artifact_type # "VerificationReport"
  OBVIOUS
<1> HIDE DEF row
<1>3. artifacts[t] \in Seq(ArtifactRows) /\ artifacts'[t] = Append(artifacts[t], row)
  BY <1>1 DEF TypeOK
<1> HIDE DEF ArtifactRows
<1>4. /\ Len(artifacts[t]) \in Nat
      /\ DOMAIN artifacts[t] = 1..Len(artifacts[t])
      /\ DOMAIN artifacts'[t] = 1..(Len(artifacts[t]) + 1)
      /\ artifacts'[t][Len(artifacts[t]) + 1] = row
      /\ \A k \in 1..Len(artifacts[t]) : artifacts'[t][k] = artifacts[t][k]
  BY <1>3
<1>5. Rows(t, "VerificationReport")' = Rows(t, "VerificationReport")
  BY <1>2, <1>4 DEF Rows
<1>6. \A k \in Rows(t, "VerificationReport") : artifacts'[t][k] = artifacts[t][k]
  BY <1>4 DEF Rows
<1>7. GateKept(t)
  <2>1. Round(t)' = Round(t)
    BY <1>1 DEF Round
  <2>2. Passed(t)' = Passed(t)
    BY <1>1, <1>5, <1>6, <2>1 DEF Passed, PassedAt
  <2>3. \A s \in Signatures : FailRows(t, s)' = FailRows(t, s)
    BY <1>5, <1>6 DEF FailRows
  <2>4. QED
    BY <2>1, <2>2, <2>3 DEF GateKept, Fails
<1>8. \A u \in Tasks : u # t => GateKept(u)
  BY <1>1, GateUntouched DEF TypeOK
<1> QED
  BY <1>7, <1>8, AllKept

LEMMA CreateTaskImplementsGate ==
  ASSUME HistoryInv, NEW t \in Tasks, NEW caller, CreateTask(t, caller)
  PROVE  UNCHANGED Gate!vars
<1>1. TypeOK
  BY DEF HistoryInv, ChainInv
<1>2. artifacts[t] = << >> /\ state[t] = Absent /\ state'[t] = "RECEIVED"
        /\ UNCHANGED artifacts
  BY <1>1 DEF CreateTask, HistoryInv, NothingEarly, Created, TypeOK
<1>3. Round(t) = "SHUT" /\ Round(t)' = "SHUT"
  BY <1>2 DEF Round, Absent
<1>4. GateKept(t)
  BY <1>2, <1>3 DEF GateKept, Passed, Fails, FailRows, Rows
<1>5. \A u \in Tasks : u # t => GateKept(u)
  BY <1>1, GateUntouched DEF CreateTask, TypeOK
<1> QED
  BY <1>4, <1>5, AllKept

LEMMA InitImplementsGate == Init => Gate!Init
<1> SUFFICES ASSUME Init PROVE Gate!Init
  OBVIOUS
<1>1. \A t \in Tasks : state[t] = Absent /\ DOMAIN artifacts[t] = {}
  BY DEF Init
<1>2. \A t \in Tasks : Round(t) = "SHUT"
  BY <1>1 DEF Round, Absent
<1>3. \A t \in Tasks : \A s \in Signatures : FailRows(t, s) = {}
  BY <1>1 DEF FailRows, Rows
<1>4. \A t \in Tasks : \A s \in Signatures : Cardinality(FailRows(t, s)) = 0
  BY <1>3, FS_EmptySet
<1> QED
  BY <1>2, <1>4 DEF Gate!Init

LEMMA NextImplementsGate == HistoryInv /\ [Next]_vars => [Gate!Next]_(Gate!vars)
<1> SUFFICES ASSUME HistoryInv, [Next]_vars PROVE [Gate!Next]_(Gate!vars)
  OBVIOUS
<1>1. TypeOK
  BY DEF HistoryInv, ChainInv
<1>2. ASSUME UNCHANGED <<state, state_version, artifacts>> PROVE UNCHANGED Gate!vars
  <2>1. \A t \in Tasks : GateKept(t)
    BY <1>2, GateUntouched
  <2>2. QED
    BY <2>1, AllKept
<1>3. CASE \E t \in Tasks, actor \in Actors : CreateTask(t, actor)
  BY <1>3, CreateTaskImplementsGate
<1>4. CASE \E t \in Tasks, request \in Requests, reason \in Reasons, expected \in 0..MaxVersion :
             Transition(t, request[2], request[1], reason, expected)
  <2>1. PICK t \in Tasks, request \in Requests, reason \in Reasons, expected \in 0..MaxVersion :
               Transition(t, request[2], request[1], reason, expected)
    BY <1>4
  <2>2. request[2] \in States
    BY InputsAssumption
  <2>3. QED
    BY <2>1, <2>2, TransitionImplementsGate
<1>5. CASE \E t \in Tasks, actor \in Actors, scope \in Scopes,
              expected_state \in ExpectedStates, expected \in 0..MaxVersion :
             RequestApproval(t, actor, scope, expected_state, expected)
  BY <1>2, <1>5 DEF RequestApproval
<1>6. CASE \E i \in DOMAIN approvals, actor \in Actors, decision \in {"APPROVED", "REJECTED"},
              digest \in Scopes, evidence \in BOOLEAN :
             DecideApproval(i, actor, decision, digest, evidence)
  BY <1>2, <1>6 DEF DecideApproval
<1>7. CASE \E t \in Tasks, type \in PublishedTypes, producer \in Actors :
             \E payload \in Payloads(type), expected \in 0..MaxVersion :
               PutArtifact(t, type, producer, payload, expected)
  <2>1. PICK t \in Tasks, type \in PublishedTypes, producer \in Actors :
               \E payload \in Payloads(type), expected \in 0..MaxVersion :
                 PutArtifact(t, type, producer, payload, expected)
    BY <1>7
  <2>2. PICK payload \in Payloads(type), expected \in 0..MaxVersion :
               PutArtifact(t, type, producer, payload, expected)
    BY <2>1
  <2>3. type \in ArtifactTypes
    BY InputsAssumption
  <2>4. CASE type = "VerificationReport"
    BY <1>1, <2>2, <2>4, ReportImplementsGate
  <2>5. CASE type # "VerificationReport"
    BY <1>1, <2>2, <2>3, <2>5, OtherArtifactImplementsGate
  <2>6. QED
    BY <2>4, <2>5
<1>8. CASE UNCHANGED vars
  BY <1>2, <1>8 DEF vars
<1> QED
  BY <1>3, <1>4, <1>5, <1>6, <1>7, <1>8 DEF Next

\* The authority implements the verification gate, for any number of tasks,
\* signatures and rounds.
THEOREM GateImplemented == Spec => ImplementsGate
BY InitImplementsGate, NextImplementsGate, HistoryInvAlways, PTL
DEF Spec, ImplementsGate, Gate!Spec

-----------------------------------------------------------------------------
(* The oracle's file as StateAuthority shows it                            *)

KnownApprovals(t) == [i \in MadeInPlace(t) |-> OracleApproval(i)]

OracleTask(t) ==
  [state |-> state[t], state_version |-> state_version[t], events |-> events[t],
   approvals |-> KnownApprovals(t)]

OracleFile == [t \in Tasks |-> OracleTask(t)]

\* The oracle's tasks start at version 0, and its approvals are numbered.
OracleInv ==
  /\ HistoryInv
  /\ \A t \in Tasks : ~Created(t) => state_version[t] = 0
  /\ Len(approvals) <= MaxApprovals

LEMMA NextOracleInv == OracleInv /\ [Next]_vars => OracleInv'
<1> SUFFICES ASSUME OracleInv, [Next]_vars PROVE OracleInv'
  OBVIOUS
<1>1. HistoryInv'
  BY NextHistoryInv DEF OracleInv
<1>2. TypeOK /\ ChainInv
  BY DEF OracleInv, HistoryInv, ChainInv
<1> DEFINE Fresh   == \A t \in Tasks : (~Created(t) => state_version[t] = 0)'
<1> DEFINE Bounded == Len(approvals') <= MaxApprovals
<1>3. ASSUME UNCHANGED <<state, state_version>> PROVE Fresh
  BY <1>3 DEF OracleInv, Created
<1>4. ASSUME UNCHANGED approvals PROVE Bounded
  BY <1>4 DEF OracleInv
<1>5. CASE \E t \in Tasks, actor \in Actors : CreateTask(t, actor)
  <2>1. PICK t \in Tasks, actor \in Actors : CreateTask(t, actor)
    BY <1>5
  <2>2. /\ state' = [state EXCEPT ![t] = "RECEIVED"]
        /\ state_version' = [state_version EXCEPT ![t] = 0]
        /\ UNCHANGED approvals
    BY <2>1 DEF CreateTask
  <2>3. Fresh
    BY <1>2, <2>2 DEF OracleInv, Created, TypeOK
  <2>4. QED
    BY <1>1, <1>4, <2>2, <2>3 DEF OracleInv
<1>6. CASE \E t \in Tasks, request \in Requests, reason \in Reasons, expected \in 0..MaxVersion :
             Transition(t, request[2], request[1], reason, expected)
  <2>1. PICK t \in Tasks, request \in Requests, reason \in Reasons, expected \in 0..MaxVersion :
               Transition(t, request[2], request[1], reason, expected)
    BY <1>6
  <2>2. request[2] \in States
    BY InputsAssumption
  <2>3. /\ state' = [state EXCEPT ![t] = request[2]]
        /\ state_version' = [state_version EXCEPT ![t] = expected + 1]
        /\ UNCHANGED approvals
    BY <2>1 DEF Transition
  <2>4. Fresh
    BY <1>2, <2>2, <2>3, KnownNames DEF OracleInv, Created, TypeOK
  <2>5. QED
    BY <1>1, <1>4, <2>3, <2>4 DEF OracleInv
<1>7. CASE \E t \in Tasks, actor \in Actors, scope \in Scopes,
              expected_state \in ExpectedStates, expected \in 0..MaxVersion :
             RequestApproval(t, actor, scope, expected_state, expected)
  <2>1. Len(approvals) < MaxApprovals /\ Len(approvals') = Len(approvals) + 1
    BY <1>2, <1>7, RequestKeepsDecisions DEF RequestApproval
  <2>2. Len(approvals) \in Nat
    BY <1>2 DEF TypeOK
  <2>3. Bounded
    BY <2>1, <2>2, BoundsAssumption
  <2>4. Fresh
    BY <1>3, <1>7 DEF RequestApproval
  <2>5. QED
    BY <1>1, <2>3, <2>4 DEF OracleInv
<1>8. CASE \E i \in DOMAIN approvals, actor \in Actors, decision \in {"APPROVED", "REJECTED"},
              digest \in Scopes, evidence \in BOOLEAN :
             DecideApproval(i, actor, decision, digest, evidence)
  <2>1. Len(approvals') = Len(approvals)
    BY <1>2, <1>8, DecideKeepsDecisions
  <2>2. Fresh
    BY <1>3, <1>8 DEF DecideApproval
  <2>3. QED
    BY <1>1, <2>1, <2>2 DEF OracleInv
<1>9. CASE \E t \in Tasks, type \in PublishedTypes, producer \in Actors :
             \E payload \in Payloads(type), expected \in 0..MaxVersion :
               PutArtifact(t, type, producer, payload, expected)
  BY <1>1, <1>3, <1>4, <1>9 DEF PutArtifact, OracleInv
<1>10. CASE UNCHANGED vars
  BY <1>1, <1>3, <1>4, <1>10 DEF vars, OracleInv
<1> QED
  BY <1>5, <1>6, <1>7, <1>8, <1>9, <1>10 DEF Next

LEMMA InitOracleInv == Init => OracleInv
BY InitHistoryInv, BoundsAssumption DEF Init, OracleInv

\* What the oracle knows of t is unchanged.
LEMMA KnownUntouched ==
  ASSUME NEW t, MadeInPlace(t)' = MadeInPlace(t),
         \A i \in MadeInPlace(t) : approvals'[i] = approvals[i]
  PROVE  KnownApprovals(t)' = KnownApprovals(t)
BY DEF KnownApprovals, OracleApproval

LEMMA SameApprovals ==
  ASSUME UNCHANGED approvals, NEW t
  PROVE  KnownApprovals(t)' = KnownApprovals(t)
BY DEF KnownApprovals, OracleApproval, MadeInPlace

LEMMA NoneKnown ==
  ASSUME NEW t, MadeInPlace(t) = {}
  PROVE  KnownApprovals(t) = << >>
<1>1. KnownApprovals(t) = [i \in {} |-> OracleApproval(i)]
  BY DEF KnownApprovals
<1>2. [i \in {} |-> OracleApproval(i)] = << >>
  OBVIOUS
<1> QED
  BY <1>1, <1>2

LEMMA OnlyOneFile ==
  ASSUME NEW t \in Tasks, \A u \in Tasks : u # t => OracleTask(u)' = OracleTask(u)
  PROVE  OracleFile' = [OracleFile EXCEPT ![t] = OracleTask(t)']
BY DEF OracleFile

LEMMA AllFiles ==
  ASSUME \A u \in Tasks : OracleTask(u)' = OracleTask(u)
  PROVE  UNCHANGED OracleFile
BY DEF OracleFile

LEMMA CreateTaskAccepted ==
  ASSUME OracleInv, NEW t \in Tasks, NEW caller, CreateTask(t, caller)
  PROVE  [Oracle!Next]_OracleFile
<1>1. TypeOK
  BY DEF OracleInv, HistoryInv, ChainInv
<1>2. /\ ~Created(t) /\ state[t] = "ABSENT" /\ state_version[t] = 0 /\ events[t] = << >>
      /\ UNCHANGED approvals
  BY DEF OracleInv, HistoryInv, ChainInv, CreateTask, Created, Absent
<1>3. MadeInPlace(t) = {}
  BY <1>2 DEF OracleInv, HistoryInv, NothingEarly, MadeInPlace
<1>4. KnownApprovals(t) = << >> /\ KnownApprovals(t)' = << >>
  BY <1>2, <1>3, NoneKnown, SameApprovals
<1>5. OracleTask(t) = Oracle!NoFile
  BY <1>2, <1>4 DEF OracleTask, Oracle!NoFile
<1>6. /\ state'[t] = "RECEIVED" /\ state_version'[t] = 0
      /\ events'[t] = << Event("TASK_CREATED", "lead", 0, Absent, "RECEIVED", "") >>
  <2> DEFINE row == Event("TASK_CREATED", "lead", 0, Absent, "RECEIVED", "")
  <2>1. events' = [events EXCEPT ![t] = Append(@, row)]
    BY DEF CreateTask
  <2> HIDE DEF row
  <2>2. events'[t] = <<row>>
    BY <1>1, <1>2, <2>1 DEF TypeOK
  <2>3. QED
    BY <1>1, <2>2 DEF CreateTask, TypeOK, row
<1>7. OracleTask(t)' =
        [state |-> "RECEIVED", state_version |-> 0, approvals |-> << >>,
         events |-> << Oracle!Event("TASK_CREATED", "lead", 0, "ABSENT", "RECEIVED", "") >>]
  BY <1>4, <1>6 DEF OracleTask, Event, Oracle!Event, Absent
<1>8. \A u \in Tasks : u # t => OracleTask(u)' = OracleTask(u)
  BY <1>1, <1>2, SameApprovals DEF OracleTask, CreateTask, TypeOK
<1>9. OracleFile' = [OracleFile EXCEPT ![t] = OracleTask(t)']
  BY <1>8, OnlyOneFile
<1>10. Oracle!InitState(t)
  BY <1>5, <1>7, <1>9
  DEF Oracle!InitState, OracleFile, OracleTask, KnownApprovals
<1> QED
  BY <1>10 DEF Oracle!Next

LEMMA TransitionAccepted ==
  ASSUME OracleInv, NEW t \in Tasks, NEW target \in States, NEW actor \in Actors,
         NEW reason \in Reasons, NEW expected \in 0..MaxVersion,
         Transition(t, target, actor, reason, expected)
  PROVE  [Oracle!Next]_OracleFile
<1> DEFINE row == Event("STATE_TRANSITION", actor, expected + 1, state[t], target, reason)
<1>1. TypeOK
  BY DEF OracleInv, HistoryInv, ChainInv
<1>2. /\ state[t] \in States /\ state_version[t] = expected
      /\ target \in TRANSITIONS[state[t]] /\ target \in ACTOR_TARGETS[actor]
      /\ UNCHANGED approvals
  BY <1>1 DEF Transition, AtVersion, Created, TypeOK
<1>3. /\ state'[t] = target /\ state_version'[t] = expected + 1
      /\ events'[t] = Append(events[t], row)
  BY <1>1 DEF Transition, TypeOK
<1>4. KnownApprovals(t)' = KnownApprovals(t)
  BY <1>2, SameApprovals
<1>5. row = Oracle!Event("STATE_TRANSITION", actor, expected + 1, state[t], target, reason)
  BY DEF Event, Oracle!Event
<1>6. \A u \in Tasks : u # t => OracleTask(u)' = OracleTask(u)
  BY <1>1, <1>2, SameApprovals DEF OracleTask, Transition, TypeOK
<1>7. OracleFile' = [OracleFile EXCEPT ![t] = OracleTask(t)']
  BY <1>6, OnlyOneFile
<1> DEFINE log == Append(events[t], row)
<1> DEFINE known == KnownApprovals(t)
<1>8. OracleTask(t)' = [state |-> target, state_version |-> expected + 1,
                        events |-> log, approvals |-> known]
  BY <1>3, <1>4 DEF OracleTask
<1>9. OracleFile[t] = [state |-> state[t], state_version |-> expected,
                       events |-> events[t], approvals |-> known]
  BY <1>2 DEF OracleFile, OracleTask
<1> HIDE DEF row, log, known
<1>10. /\ OracleFile[t].state = state[t]
       /\ OracleFile[t].state_version = expected
       /\ OracleFile[t].events = events[t]
       /\ OracleFile[t].approvals = known
  BY <1>9
<1>11. OracleFile' = [OracleFile EXCEPT ![t] =
          [state |-> target, state_version |-> OracleFile[t].state_version + 1,
           events |-> Append(OracleFile[t].events, row),
           approvals |-> OracleFile[t].approvals]]
  BY <1>7, <1>8, <1>10 DEF log
<1>12. Oracle!Transition(t, target, actor, reason, OracleFile[t].state_version)
  <2>1. Oracle!Transition(t, target, actor, reason, OracleFile[t].state_version) <=>
          /\ OracleFile[t].state \in States
          /\ target \in TRANSITIONS[OracleFile[t].state]
          /\ target \in ACTOR_TARGETS[actor]
          /\ OracleFile' = [OracleFile EXCEPT ![t] =
               [state |-> target, state_version |-> OracleFile[t].state_version + 1,
                events |-> Append(OracleFile[t].events,
                  Oracle!Event("STATE_TRANSITION", actor, OracleFile[t].state_version + 1,
                               OracleFile[t].state, target, reason)),
                approvals |-> OracleFile[t].approvals]]
    BY DEF Oracle!Transition, OracleFile, OracleTask, KnownApprovals, Oracle!States, States,
           Oracle!TRANSITIONS, TRANSITIONS, Oracle!ACTOR_TARGETS, ACTOR_TARGETS
  <2>2. QED
    BY <1>2, <1>5, <1>10, <1>11, <2>1
<1>13. Oracle!Next
  <2>1. target \in Oracle!States /\ actor \in Oracle!Actors
    BY DEF Oracle!States, States, Oracle!TRANSITIONS, TRANSITIONS,
           Oracle!Actors, Actors, Oracle!ACTOR_TARGETS, ACTOR_TARGETS
  <2>2. Oracle!Transition(t, target, actor, reason, OracleFile[t].state_version) => Oracle!Next
    BY <2>1 DEF Oracle!Next, OracleFile, OracleTask, KnownApprovals
  <2>3. QED
    BY <1>12, <2>2
<1> QED
  BY <1>13

LEMMA RequestAccepted ==
  ASSUME OracleInv, NEW t \in Tasks, NEW actor, NEW scope \in Scopes,
         NEW expected_state \in States, NEW expected \in 0..MaxVersion,
         RequestApproval(t, actor, scope, expected_state, expected)
  PROVE  [Oracle!Next]_OracleFile
<1> DEFINE row == [task_id |-> t, scope |-> scope, requested_state |-> state[t],
        expected_state |-> expected_state,
        expected_decision_version |-> DecisionVersion(t, expected_state, expected),
        status |-> "PENDING", decided_at |-> 0, decision_evidence |-> FALSE]
<1>1. TypeOK
  BY DEF OracleInv, HistoryInv, ChainInv
<1>2. /\ approvals' = Append(approvals, row)
      /\ state_version[t] = expected
      /\ Len(approvals) < MaxApprovals
      /\ UNCHANGED <<state, state_version, events>>
  BY DEF RequestApproval, AtVersion
<1>3. /\ row.task_id = t /\ row.requested_state = state[t]
      /\ row.expected_state = expected_state /\ row.scope = scope
      /\ row.status = "PENDING"
      /\ state[t] = expected_state => row.expected_decision_version = expected
  BY DEF DecisionVersion
<1> HIDE DEF row
<1>4. approvals \in Seq(ApprovalRows)
  BY <1>1 DEF TypeOK
<1> HIDE DEF ApprovalRows
<1>. PICK new \in Nat : new = Len(approvals) + 1
  BY <1>4
<1>5. /\ new \notin DOMAIN approvals
      /\ DOMAIN approvals' = DOMAIN approvals \union {new}
      /\ approvals'[new] = row
      /\ \A i \in DOMAIN approvals : approvals'[i] = approvals[i]
      /\ new \in 1..MaxApprovals
  BY <1>2, <1>4, BoundsAssumption
<1>6. \A u \in Tasks : u # t => OracleTask(u)' = OracleTask(u)
  <2>1. SUFFICES ASSUME NEW u \in Tasks, u # t PROVE OracleTask(u)' = OracleTask(u)
    OBVIOUS
  <2>2. MadeInPlace(u)' = MadeInPlace(u)
    BY <1>3, <1>5, <2>1 DEF MadeInPlace
  <2>3. \A i \in MadeInPlace(u) : approvals'[i] = approvals[i]
    BY <1>5 DEF MadeInPlace
  <2>4. KnownApprovals(u)' = KnownApprovals(u)
    BY <2>2, <2>3, KnownUntouched
  <2>5. QED
    BY <1>2, <2>4 DEF OracleTask
<1>7. \A i \in MadeInPlace(t) : approvals'[i] = approvals[i]
  BY <1>5 DEF MadeInPlace
<1>8. CASE state[t] # expected_state
  <2>1. MadeInPlace(t)' = MadeInPlace(t)
    BY <1>3, <1>5, <1>8 DEF MadeInPlace
  <2>2. KnownApprovals(t)' = KnownApprovals(t)
    BY <1>7, <2>1, KnownUntouched
  <2>3. OracleTask(t)' = OracleTask(t)
    BY <1>2, <2>2 DEF OracleTask
  <2>4. QED
    BY <1>6, <2>3, AllFiles
<1>9. CASE state[t] = expected_state
  <2> DEFINE request == [scope |-> scope, expected_state |-> expected_state,
                         requested_state_version |-> expected, status |-> "PENDING"]
  <2>1. MadeInPlace(t)' = MadeInPlace(t) \union {new}
    BY <1>3, <1>5, <1>9 DEF MadeInPlace
  <2>2. OracleApproval(new)' = request
    BY <1>3, <1>5, <1>9 DEF OracleApproval
  <2>3. \A i \in MadeInPlace(t) : OracleApproval(i)' = OracleApproval(i) /\ i # new
    BY <1>5, <1>7 DEF OracleApproval, MadeInPlace
  <2> HIDE DEF request
  <2>4. KnownApprovals(t)' =
          [i \in MadeInPlace(t) \union {new} |->
             IF i = new THEN request ELSE KnownApprovals(t)[i]]
    BY <2>1, <2>2, <2>3 DEF KnownApprovals
  <2>5. DOMAIN KnownApprovals(t) = MadeInPlace(t) /\ new \notin MadeInPlace(t)
    BY <2>3 DEF KnownApprovals
  <2>6. /\ OracleFile[t].state = expected_state
        /\ OracleFile[t].state_version = expected
        /\ OracleFile[t].approvals = KnownApprovals(t)
    BY <1>2, <1>9 DEF OracleFile, OracleTask
  <2>7. OracleFile' = [OracleFile EXCEPT ![t] = OracleTask(t)']
    BY <1>6, OnlyOneFile
  <2> DEFINE known == KnownApprovals(t)'
  <2>8. OracleTask(t)' = [state |-> state[t], state_version |-> state_version[t],
                          events |-> events[t], approvals |-> known]
    BY <1>2 DEF OracleTask
  <2>9. OracleFile[t] = [state |-> state[t], state_version |-> state_version[t],
                         events |-> events[t], approvals |-> KnownApprovals(t)]
    BY DEF OracleFile, OracleTask
  <2> HIDE DEF known
  <2>10. OracleFile' = [OracleFile EXCEPT ![t].approvals = known]
    <3>1. OracleTask(t)' = [OracleFile[t] EXCEPT !.approvals = known]
      BY <2>8, <2>9
    <3>2. QED
      BY <2>7, <3>1
  <2>11. Oracle!RequestApproval(t, new, scope, expected_state) <=>
           /\ OracleFile[t].state = expected_state
           /\ expected_state \in Oracle!States
           /\ new \notin DOMAIN OracleFile[t].approvals
           /\ OracleFile' = [OracleFile EXCEPT ![t].approvals =
                [i \in DOMAIN OracleFile[t].approvals \union {new} |->
                   IF i = new
                   THEN [scope |-> scope, expected_state |-> expected_state,
                         requested_state_version |-> OracleFile[t].state_version,
                         status |-> "PENDING"]
                   ELSE OracleFile[t].approvals[i]]]
    BY DEF Oracle!RequestApproval, OracleFile, OracleTask, KnownApprovals
  <2>12. expected_state \in Oracle!States
    BY DEF Oracle!States, States, Oracle!TRANSITIONS, TRANSITIONS
  <2>13. Oracle!RequestApproval(t, new, scope, expected_state)
    BY <2>4, <2>5, <2>6, <2>10, <2>11, <2>12 DEF request, known
  <2>14. Oracle!RequestApproval(t, new, scope, expected_state) => Oracle!Next
    BY <1>5, <2>12 DEF Oracle!Next
  <2>15. QED
    BY <2>13, <2>14
<1> QED
  BY <1>8, <1>9

LEMMA DecisionAccepted ==
  ASSUME OracleInv, NEW j \in DOMAIN approvals, NEW caller,
         NEW decision \in {"APPROVED", "REJECTED"}, NEW digest \in Scopes,
         NEW evidence \in BOOLEAN, DecideApproval(j, caller, decision, digest, evidence)
  PROVE  [Oracle!Next]_OracleFile
<1>1. TypeOK
  BY DEF OracleInv, HistoryInv, ChainInv
<1>. PICK t \in Tasks : t = approvals[j].task_id
  BY <1>1, ApprovalRow
<1>2. approvals[j] \in ApprovalRows
  BY <1>1 DEF TypeOK
<1>3. /\ approvals[j].status = "PENDING"
      /\ approvals[j].scope = digest
      /\ state[t] = approvals[j].expected_state
      /\ state_version[t] = approvals[j].expected_decision_version
      /\ UNCHANGED <<state, state_version, events>>
  BY DEF DecideApproval, Undecided, StillCurrent
<1> DEFINE instant == Cardinality(Decided) + 1
<1> DEFINE row == [approvals[j] EXCEPT !.status = decision, !.decided_at = instant,
                                        !.decision_evidence = evidence]
<1>4. approvals' = [approvals EXCEPT ![j] = row]
  BY DEF DecideApproval
<1> HIDE DEF instant
<1>5. /\ row.task_id = t /\ row.requested_state = approvals[j].requested_state
      /\ row.expected_state = approvals[j].expected_state
      /\ row.expected_decision_version = approvals[j].expected_decision_version
      /\ row.scope = approvals[j].scope
      /\ row.status = decision
  BY <1>2 DEF ApprovalRows
<1> HIDE DEF row
<1>6. /\ DOMAIN approvals' = DOMAIN approvals
      /\ approvals'[j] = row
      /\ \A i \in DOMAIN approvals : i # j => approvals'[i] = approvals[i]
  BY <1>1, <1>4 DEF TypeOK
<1>7. \A u \in Tasks : MadeInPlace(u)' = MadeInPlace(u)
  BY <1>5, <1>6 DEF MadeInPlace
<1>8. ASSUME NEW u \in Tasks, j \notin MadeInPlace(u) PROVE OracleTask(u)' = OracleTask(u)
  <2>1. \A i \in MadeInPlace(u) : approvals'[i] = approvals[i]
    BY <1>6, <1>8 DEF MadeInPlace
  <2>2. KnownApprovals(u)' = KnownApprovals(u)
    BY <1>7, <2>1, KnownUntouched
  <2>3. QED
    BY <1>3, <2>2 DEF OracleTask
<1>9. \A u \in Tasks : u # t => j \notin MadeInPlace(u)
  BY DEF MadeInPlace
<1>10. CASE j \notin MadeInPlace(t)
  <2>1. \A u \in Tasks : OracleTask(u)' = OracleTask(u)
    BY <1>8, <1>9, <1>10
  <2>2. QED
    BY <2>1, AllFiles
<1>11. CASE j \in MadeInPlace(t)
  <2>1. KnownApprovals(t)[j] = OracleApproval(j)
          /\ DOMAIN KnownApprovals(t) = MadeInPlace(t)
    BY <1>11 DEF KnownApprovals
  <2>2. OracleApproval(j)' = [OracleApproval(j) EXCEPT !.status = decision]
    BY <1>5, <1>6 DEF OracleApproval
  <2>3. \A i \in MadeInPlace(t) : i # j => OracleApproval(i)' = OracleApproval(i)
    BY <1>6 DEF OracleApproval, MadeInPlace
  <2>4. KnownApprovals(t)' = [KnownApprovals(t) EXCEPT ![j].status = decision]
    <3>1. KnownApprovals(t)' = [i \in MadeInPlace(t) |-> OracleApproval(i)']
      BY <1>2, <1>7 DEF KnownApprovals
    <3>2. QED
      BY <1>11, <2>1, <2>2, <2>3, <3>1 DEF KnownApprovals
  <2>5. OracleFile' = [OracleFile EXCEPT ![t] = OracleTask(t)']
    BY <1>8, <1>9, OnlyOneFile
  <2> DEFINE known == KnownApprovals(t)'
  <2>6. OracleTask(t)' = [state |-> state[t], state_version |-> state_version[t],
                          events |-> events[t], approvals |-> known]
    BY <1>3 DEF OracleTask
  <2>7. OracleFile[t] = [state |-> state[t], state_version |-> state_version[t],
                         events |-> events[t], approvals |-> KnownApprovals(t)]
    BY DEF OracleFile, OracleTask
  <2>8. /\ OracleFile[t].state = state[t]
        /\ OracleFile[t].state_version = state_version[t]
        /\ OracleFile[t].approvals = KnownApprovals(t)
    BY <2>7
  <2> HIDE DEF known
  <2>9. OracleFile' = [OracleFile EXCEPT ![t].approvals = known]
    <3>1. OracleTask(t)' = [OracleFile[t] EXCEPT !.approvals = known]
      BY <2>6, <2>7
    <3>2. QED
      BY <2>5, <3>1
  <2>10. OracleFile' = [OracleFile EXCEPT ![t].approvals[j].status = decision]
    BY <2>4, <2>8, <2>9 DEF known
  <2>11. /\ OracleFile[t].approvals[j].status = "PENDING"
         /\ OracleFile[t].approvals[j].scope = digest
         /\ OracleFile[t].approvals[j].expected_state = OracleFile[t].state
         /\ OracleFile[t].approvals[j].requested_state_version = OracleFile[t].state_version
         /\ j \in DOMAIN OracleFile[t].approvals
    BY <1>3, <1>11, <2>1, <2>8 DEF OracleApproval
  <2>12. Oracle!Approve(t, j, decision, digest) <=>
           /\ j \in DOMAIN OracleFile[t].approvals
           /\ OracleFile[t].approvals[j].status = "PENDING"
           /\ OracleFile[t].approvals[j].scope = digest
           /\ OracleFile[t].state = OracleFile[t].approvals[j].expected_state
           /\ OracleFile[t].state_version
                = OracleFile[t].approvals[j].requested_state_version
           /\ OracleFile' = [OracleFile EXCEPT ![t].approvals[j].status = decision]
    BY DEF Oracle!Approve, OracleFile, OracleTask, KnownApprovals
  <2>13. Oracle!Approve(t, j, decision, digest)
    BY <2>10, <2>11, <2>12
  <2>14. j \in 1..MaxApprovals
    BY <1>1, Lengths, BoundsAssumption DEF OracleInv
  <2>15. Oracle!Approve(t, j, decision, digest) => Oracle!Next
    BY <2>14 DEF Oracle!Next
  <2>16. QED
    BY <2>13, <2>15
<1> QED
  BY <1>10, <1>11

LEMMA InitAccepted == Init => Oracle!Init
<1> SUFFICES ASSUME Init PROVE Oracle!Init
  OBVIOUS
<1>1. DOMAIN approvals = {}
  BY DEF Init
<1>2. \A t \in Tasks : MadeInPlace(t) = {}
  BY <1>1 DEF MadeInPlace
<1>3. \A t \in Tasks : KnownApprovals(t) = << >>
  BY <1>2, NoneKnown
<1>4. \A t \in Tasks : OracleTask(t) = Oracle!NoFile
  BY <1>3 DEF Init, Absent, OracleTask, Oracle!NoFile
<1>5. OracleFile = [t \in Tasks |-> Oracle!NoFile]
  BY <1>4 DEF OracleFile
<1> QED
  BY <1>5 DEF Oracle!Init, OracleFile, OracleTask, KnownApprovals

LEMMA NextAccepted == OracleInv /\ [Next]_vars => [Oracle!Next]_OracleFile
<1> SUFFICES ASSUME OracleInv, [Next]_vars PROVE [Oracle!Next]_OracleFile
  OBVIOUS
<1>1. ASSUME UNCHANGED <<state, state_version, events, approvals>> PROVE UNCHANGED OracleFile
  <2>1. \A t \in Tasks : OracleTask(t)' = OracleTask(t)
    BY <1>1, SameApprovals DEF OracleTask
  <2>2. QED
    BY <2>1, AllFiles
<1>2. CASE \E t \in Tasks, actor \in Actors : CreateTask(t, actor)
  BY <1>2, CreateTaskAccepted
<1>3. CASE \E t \in Tasks, request \in Requests, reason \in Reasons, expected \in 0..MaxVersion :
             Transition(t, request[2], request[1], reason, expected)
  <2>1. PICK t \in Tasks, request \in Requests, reason \in Reasons, expected \in 0..MaxVersion :
               Transition(t, request[2], request[1], reason, expected)
    BY <1>3
  <2>2. request[1] \in Actors /\ request[2] \in States
    BY InputsAssumption
  <2>3. QED
    BY <2>1, <2>2, TransitionAccepted
<1>4. CASE \E t \in Tasks, actor \in Actors, scope \in Scopes,
              expected_state \in ExpectedStates, expected \in 0..MaxVersion :
             RequestApproval(t, actor, scope, expected_state, expected)
  BY <1>4, InputsAssumption, RequestAccepted
<1>5. CASE \E i \in DOMAIN approvals, actor \in Actors, decision \in {"APPROVED", "REJECTED"},
              digest \in Scopes, evidence \in BOOLEAN :
             DecideApproval(i, actor, decision, digest, evidence)
  BY <1>5, DecisionAccepted
<1>6. CASE \E t \in Tasks, type \in PublishedTypes, producer \in Actors :
             \E payload \in Payloads(type), expected \in 0..MaxVersion :
               PutArtifact(t, type, producer, payload, expected)
  BY <1>1, <1>6 DEF PutArtifact
<1>7. CASE UNCHANGED vars
  BY <1>1, <1>7 DEF vars
<1> QED
  BY <1>2, <1>3, <1>4, <1>5, <1>6, <1>7 DEF Next

\* Whatever the authority commits, the oracle accepts, call for call.
THEOREM OracleAcceptsAll == Spec => OracleAccepts
<1>1. Init => OracleInv /\ Oracle!Init
  BY InitOracleInv, InitAccepted
<1>2. OracleInv /\ [Next]_vars => OracleInv'
  BY NextOracleInv
<1>3. OracleInv /\ [Next]_vars => [Oracle!Next]_OracleFile
  BY NextAccepted
<1>4. Spec => OracleAccepts
  BY <1>1, <1>2, <1>3, PTL
  DEF Spec, OracleAccepts, Oracle!Spec, OracleFile, OracleTask, KnownApprovals
<1> QED
  BY <1>4

=============================================================================
