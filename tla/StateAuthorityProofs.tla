------------------------ MODULE StateAuthorityProofs ------------------------
(***************************************************************************)
(* Proofs about StateAuthority, for every set of tasks, files and          *)
(* signatures, every set of requests and every bound.                      *)
(***************************************************************************)
EXTENDS StateAuthority, FiniteSetTheorems, TLAPS

LEMMA KnownNames ==
  /\ "RECEIVED" \in States
  /\ "lead" \in Actors
  /\ Absent \notin States
BY DEF States, Actors, TRANSITIONS, ACTOR_TARGETS, Absent

-----------------------------------------------------------------------------
(* Type correctness                                                        *)

LEMMA InitTypeOK == Init => TypeOK
BY BoundsAssumption DEF Init, TypeOK

LEMMA CreateTaskTypeOK ==
  ASSUME TypeOK, NEW t \in Tasks, NEW actor \in Actors, CreateTask(t, actor)
  PROVE  TypeOK'
<1> DEFINE row == Event("TASK_CREATED", "lead", 0, Absent, "RECEIVED", "")
<1>1. row \in EventRows
  BY BoundsAssumption, KnownNames DEF Event, EventRows
<1>2. events' \in [Tasks -> Seq(EventRows)]
  <2>1. events' = [events EXCEPT ![t] = Append(@, row)]
    BY DEF CreateTask
  <2> HIDE DEF row
  <2>2. QED
    BY <2>1, <1>1 DEF TypeOK
<1>3. state' \in [Tasks -> States \union {Absent}]
  BY KnownNames DEF TypeOK, CreateTask
<1>4. state_version' \in [Tasks -> 0..MaxVersion]
  <2>1. state_version' = [state_version EXCEPT ![t] = 0]
    BY DEF CreateTask
  <2>2. 0 \in 0..MaxVersion
    BY BoundsAssumption
  <2>3. QED
    BY <2>1, <2>2 DEF TypeOK
<1> QED
  BY <1>2, <1>3, <1>4 DEF TypeOK, CreateTask

LEMMA TransitionTypeOK ==
  ASSUME TypeOK, NEW t \in Tasks, NEW target \in States, NEW actor \in Actors,
         NEW reason \in Reasons, NEW expected \in 0..MaxVersion,
         Transition(t, target, actor, reason, expected)
  PROVE  TypeOK'
<1>1. expected + 1 \in 0..MaxVersion
  BY BoundsAssumption DEF Transition
<1>2. Event("STATE_TRANSITION", actor, expected + 1, state[t], target, reason)
        \in EventRows
  BY <1>1 DEF Event, EventRows, TypeOK
<1>3. events' \in [Tasks -> Seq(EventRows)]
  BY <1>2 DEF TypeOK, Transition
<1> QED
  BY <1>1, <1>3 DEF TypeOK, Transition

LEMMA RequestApprovalTypeOK ==
  ASSUME TypeOK, NEW t \in Tasks, NEW actor \in Actors, NEW scope \in Scopes,
         NEW expected_state \in ExpectedStates, NEW expected \in 0..MaxVersion,
         RequestApproval(t, actor, scope, expected_state, expected)
  PROVE  TypeOK'
<1> DEFINE version == DecisionVersion(t, expected_state, expected)
<1> DEFINE row == [task_id |-> t, scope |-> scope, requested_state |-> state[t],
                   expected_state |-> expected_state,
                   expected_decision_version |-> version, status |-> "PENDING",
                   decided_at |-> 0, decision_evidence |-> FALSE]
<1>1. version \in 0..(MaxVersion + 1)
  BY BoundsAssumption DEF DecisionVersion
<1>2. state[t] \in States
  BY DEF TypeOK, RequestApproval, AtVersion, Created
<1>3. row \in ApprovalRows
  BY <1>1, <1>2, InputsAssumption DEF ApprovalRows
<1>4. approvals' \in Seq(ApprovalRows)
  BY <1>3 DEF TypeOK, RequestApproval
<1> QED
  BY <1>4 DEF TypeOK, RequestApproval

LEMMA PutArtifactTypeOK ==
  ASSUME TypeOK, NEW t \in Tasks, NEW type \in ArtifactTypes, NEW producer \in Actors,
         NEW payload \in Payloads(type), NEW expected \in 0..MaxVersion,
         PutArtifact(t, type, producer, payload, expected)
  PROVE  TypeOK'
<1> DEFINE row == [artifact_type |-> type, producer |-> producer,
                   state_version |-> expected, payload |-> payload]
<1>1. row \in [artifact_type : {type}, producer : Actors,
               state_version : 0..MaxVersion, payload : Payloads(type)]
  OBVIOUS
<1>2. row \in ArtifactRows
  BY <1>1 DEF ArtifactRows
<1>3. artifacts' \in [Tasks -> Seq(ArtifactRows)]
  BY <1>2 DEF TypeOK, PutArtifact
<1> QED
  BY <1>3 DEF TypeOK, PutArtifact

\* Counting the decided approvals gives a number: there are finitely many.
LEMMA DecidedFinite == TypeOK => Cardinality(Decided) \in Nat
<1> SUFFICES ASSUME TypeOK PROVE Cardinality(Decided) \in Nat
  OBVIOUS
<1>1. Len(approvals) \in Nat /\ DOMAIN approvals = 1..Len(approvals)
  BY DEF TypeOK
<1>2. IsFiniteSet(DOMAIN approvals)
  BY <1>1, FS_Interval
<1>3. Decided \subseteq DOMAIN approvals
  BY DEF Decided
<1> QED
  BY <1>2, <1>3, FS_Subset, FS_CardinalityType

LEMMA DecideApprovalTypeOK ==
  ASSUME TypeOK, NEW i \in DOMAIN approvals, NEW caller,
         NEW decision \in {"APPROVED", "REJECTED"}, NEW file_set, NEW evidence \in BOOLEAN,
         DecideApproval(i, caller, decision, file_set, evidence)
  PROVE  TypeOK'
<1> DEFINE instant == Cardinality(Decided) + 1
<1> DEFINE row == [approvals[i] EXCEPT !.status = decision, !.decided_at = instant,
                                        !.decision_evidence = evidence]
<1>1. instant \in Nat
  BY DecidedFinite
<1>2. approvals[i] \in ApprovalRows
  BY DEF TypeOK
<1>3. approvals' = [approvals EXCEPT ![i] = row]
  BY DEF DecideApproval
<1> HIDE DEF instant
<1>4. row \in ApprovalRows
  BY <1>1, <1>2 DEF ApprovalRows
<1> HIDE DEF row
<1>5. approvals' \in Seq(ApprovalRows)
  BY <1>3, <1>4 DEF TypeOK
<1> QED
  BY <1>5 DEF TypeOK, DecideApproval

\* Every step keeps the types: one case per tool.
LEMMA NextTypeOK == TypeOK /\ [Next]_vars => TypeOK'
<1> SUFFICES ASSUME TypeOK, [Next]_vars PROVE TypeOK'
  OBVIOUS
<1>1. CASE \E t \in Tasks, actor \in Actors : CreateTask(t, actor)
  BY <1>1, CreateTaskTypeOK
<1>2. CASE \E t \in Tasks, request \in Requests, reason \in Reasons, expected \in 0..MaxVersion :
             Transition(t, request[2], request[1], reason, expected)
  <2>1. PICK t \in Tasks, request \in Requests, reason \in Reasons, expected \in 0..MaxVersion :
               Transition(t, request[2], request[1], reason, expected)
    BY <1>2
  <2>2. request[1] \in Actors /\ request[2] \in States
    BY InputsAssumption
  <2>3. QED
    BY <2>1, <2>2, TransitionTypeOK
<1>3. CASE \E t \in Tasks, actor \in Actors, scope \in Scopes,
              expected_state \in ExpectedStates, expected \in 0..MaxVersion :
             RequestApproval(t, actor, scope, expected_state, expected)
  BY <1>3, RequestApprovalTypeOK
<1>4. CASE \E i \in DOMAIN approvals, actor \in Actors, decision \in {"APPROVED", "REJECTED"},
              digest \in Scopes, evidence \in BOOLEAN :
             DecideApproval(i, actor, decision, digest, evidence)
  BY <1>4, DecideApprovalTypeOK
<1>5. CASE \E t \in Tasks, type \in PublishedTypes, producer \in Actors :
             \E payload \in Payloads(type), expected \in 0..MaxVersion :
               PutArtifact(t, type, producer, payload, expected)
  BY <1>5, InputsAssumption, PutArtifactTypeOK
<1>6. CASE UNCHANGED vars
  BY <1>6 DEF vars, TypeOK
<1> QED
  BY <1>1, <1>2, <1>3, <1>4, <1>5, <1>6 DEF Next

\* The tables keep their types forever, for all constants.
THEOREM TypeCorrect == Spec => []TypeOK
<1>1. Init => TypeOK
  BY InitTypeOK
<1>2. TypeOK /\ [Next]_vars => TypeOK'
  BY NextTypeOK
<1> QED
  BY <1>1, <1>2, PTL DEF Spec

-----------------------------------------------------------------------------
(* The event log rebuilds the task row                                     *)

\* ChainIntact says nothing of a log being one row longer than the version, nor
\* of its rows after the first being transitions; with both it is inductive.
Chained(t) ==
  /\ Len(events[t]) = state_version[t] + 1
  /\ events[t][1].event_type = "TASK_CREATED"
  /\ \A i \in 2..Len(events[t]) :
       LET e == events[t][i] IN
       /\ e.event_type = "STATE_TRANSITION"
       /\ e.state_version = i - 1
       /\ e.source = StateAt(t, i - 2)
       /\ e.source \in States
       /\ e.target \in TRANSITIONS[e.source]
       /\ e.target \in ACTOR_TARGETS[e.actor]
  /\ state[t] = StateAt(t, state_version[t])

ChainInv ==
  /\ TypeOK
  /\ \A t \in Tasks : IF Created(t) THEN Chained(t) ELSE events[t] = << >>

\* In a chained log the transitions are the rows after the first.
LEMMA ChainedSteps ==
  ASSUME TypeOK, NEW t \in Tasks, Chained(t)
  PROVE  /\ Steps(t) = 2..Len(events[t])
         /\ Cardinality(Steps(t)) = state_version[t]
<1>1. Len(events[t]) \in Nat /\ DOMAIN events[t] = 1..Len(events[t])
  BY DEF TypeOK
<1>2. Steps(t) = 2..Len(events[t])
  BY <1>1 DEF Chained, Steps
<1>3. state_version[t] \in Nat /\ Len(events[t]) = state_version[t] + 1
  BY BoundsAssumption DEF Chained, TypeOK
<1>4. \A n \in Nat : Cardinality(2..(n + 1)) = n
  <2>1. TAKE n \in Nat
  <2>2. Cardinality(2..(n + 1)) = IF 2 > n + 1 THEN 0 ELSE (n + 1) - 2 + 1
    BY FS_Interval
  <2>3. QED
    BY <2>2
<1> QED
  BY <1>2, <1>3, <1>4

LEMMA ChainInvImpliesChainIntact == ChainInv => ChainIntact
<1> SUFFICES ASSUME ChainInv, NEW t \in Tasks, Created(t) PROVE ChainReplays(t)
  BY DEF ChainIntact
<1>1. TypeOK /\ Chained(t)
  BY DEF ChainInv
<1>2. Steps(t) = 2..Len(events[t]) /\ Cardinality(Steps(t)) = state_version[t]
  BY <1>1, ChainedSteps
<1>3. events[t] # << >>
  BY <1>1 DEF Chained, TypeOK
<1> QED
  BY <1>1, <1>2, <1>3 DEF Chained, ChainReplays

\* A task whose row and log a step leaves alone stays chained.
LEMMA ChainUntouched ==
  ASSUME NEW t \in Tasks, state'[t] = state[t], state_version'[t] = state_version[t],
         events'[t] = events[t], IF Created(t) THEN Chained(t) ELSE events[t] = << >>
  PROVE  (IF Created(t) THEN Chained(t) ELSE events[t] = << >>)'
BY DEF Created, Chained, StateAt

LEMMA CreateTaskChain ==
  ASSUME ChainInv, NEW t \in Tasks, NEW caller, CreateTask(t, caller)
  PROVE  \A u \in Tasks : (IF Created(u) THEN Chained(u) ELSE events[u] = << >>)'
<1> DEFINE row == Event("TASK_CREATED", "lead", 0, Absent, "RECEIVED", "")
<1> SUFFICES ASSUME NEW u \in Tasks
             PROVE  (IF Created(u) THEN Chained(u) ELSE events[u] = << >>)'
  OBVIOUS
<1>1. CASE u # t
  BY <1>1, ChainUntouched DEF ChainInv, TypeOK, CreateTask
<1>2. CASE u = t
  <2>1. events[t] = << >>
    BY DEF ChainInv, CreateTask
  <2>2. events'[t] = Append(events[t], row)
    BY DEF ChainInv, TypeOK, CreateTask
  <2>3. state'[t] = "RECEIVED" /\ state_version'[t] = 0
    BY DEF ChainInv, TypeOK, CreateTask
  <2>4. row.event_type = "TASK_CREATED"
    BY DEF Event
  <2> HIDE DEF row
  <2>5. events'[t] = <<row>>
    BY <2>1, <2>2
  <2>6. Len(events'[t]) = 1 /\ events'[t][1] = row
    BY <2>5
  <2>7. StateAt(t, 0)' = "RECEIVED"
    BY DEF StateAt
  <2>8. \A i \in 2..Len(events'[t]) : FALSE
    BY <2>6
  <2>9. Chained(t)'
    BY <2>3, <2>4, <2>6, <2>7, <2>8 DEF Chained
  <2>10. Created(t)'
    BY <2>3 DEF Created, Absent
  <2>11. QED
    BY <1>2, <2>9, <2>10
<1> QED
  BY <1>1, <1>2

\* The compare-and-swap makes the new row the next one of the chain.
LEMMA TransitionChain ==
  ASSUME ChainInv, NEW t \in Tasks, NEW target \in States, NEW actor \in Actors,
         NEW reason, NEW expected \in 0..MaxVersion,
         Transition(t, target, actor, reason, expected)
  PROVE  \A u \in Tasks : (IF Created(u) THEN Chained(u) ELSE events[u] = << >>)'
<1> DEFINE row == Event("STATE_TRANSITION", actor, expected + 1, state[t], target, reason)
<1> SUFFICES ASSUME NEW u \in Tasks
             PROVE  (IF Created(u) THEN Chained(u) ELSE events[u] = << >>)'
  OBVIOUS
<1>1. CASE u # t
  BY <1>1, ChainUntouched DEF ChainInv, TypeOK, Transition
<1>2. CASE u = t
  <2>1. Created(t) /\ Chained(t) /\ state_version[t] = expected
    BY DEF ChainInv, Transition, AtVersion
  <2>2. /\ state'[t] = target
        /\ state_version'[t] = expected + 1
        /\ events'[t] = Append(events[t], row)
    BY DEF ChainInv, TypeOK, Transition
  <2>3. events[t] \in Seq(EventRows) /\ Len(events[t]) = expected + 1
    BY <2>1 DEF ChainInv, TypeOK, Chained
  <2>4. /\ row.event_type = "STATE_TRANSITION"
        /\ row.state_version = expected + 1
        /\ row.source = state[t]
        /\ row.target = target
        /\ row.actor = actor
    BY DEF Event
  <2>5. state[t] \in States /\ target \in TRANSITIONS[state[t]]
          /\ target \in ACTOR_TARGETS[actor]
    BY <2>1 DEF Transition, Created, ChainInv, TypeOK
  <2> HIDE DEF row
  <2>6. /\ Len(events'[t]) = expected + 2
        /\ events'[t][expected + 2] = row
        /\ \A i \in 1..(expected + 1) : events'[t][i] = events[t][i]
    BY <2>2, <2>3
  <2>7. \A v \in 0..expected : StateAt(t, v)' = StateAt(t, v)
    BY <2>6 DEF StateAt
  <2>8. StateAt(t, expected + 1)' = target
    BY <2>4, <2>6 DEF StateAt
  <2>9. \A i \in 2..(expected + 2) :
          LET e == events'[t][i] IN
          /\ e.event_type = "STATE_TRANSITION"
          /\ e.state_version = i - 1
          /\ e.source = StateAt(t, i - 2)'
          /\ e.source \in States
          /\ e.target \in TRANSITIONS[e.source]
          /\ e.target \in ACTOR_TARGETS[e.actor]
    <3> SUFFICES ASSUME NEW i \in 2..(expected + 2)
                 PROVE  LET e == events'[t][i] IN
                        /\ e.event_type = "STATE_TRANSITION"
                        /\ e.state_version = i - 1
                        /\ e.source = StateAt(t, i - 2)'
                        /\ e.source \in States
                        /\ e.target \in TRANSITIONS[e.source]
                        /\ e.target \in ACTOR_TARGETS[e.actor]
      OBVIOUS
    <3>1. CASE i = expected + 2
      <4>1. events'[t][i] = row /\ i - 1 = expected + 1 /\ i - 2 = expected
        BY <3>1, <2>6
      <4>2. StateAt(t, i - 2)' = state[t]
        BY <4>1, <2>1, <2>7 DEF Chained
      <4>3. QED
        BY <4>1, <4>2, <2>4, <2>5
    <3>2. CASE i # expected + 2
      <4>1. i \in 2..Len(events[t]) /\ i \in 1..(expected + 1) /\ i - 2 \in 0..expected
        BY <3>2, <2>3
      <4>2. events'[t][i] = events[t][i] /\ StateAt(t, i - 2)' = StateAt(t, i - 2)
        BY <4>1, <2>6, <2>7
      <4>3. QED
        BY <4>1, <4>2, <2>1 DEF Chained
    <3> QED
      BY <3>1, <3>2
  <2>10. events'[t][1].event_type = "TASK_CREATED"
    BY <2>1, <2>6 DEF Chained
  <2>11. Chained(t)'
    BY <2>2, <2>6, <2>8, <2>9, <2>10 DEF Chained
  <2>12. Created(t)'
    BY <2>2, KnownNames DEF Created
  <2>13. QED
    BY <1>2, <2>11, <2>12
<1> QED
  BY <1>1, <1>2

LEMMA InitChainInv == Init => ChainInv
BY InitTypeOK DEF Init, ChainInv, Created

LEMMA NextChainInv == ChainInv /\ [Next]_vars => ChainInv'
<1> SUFFICES ASSUME ChainInv, [Next]_vars PROVE ChainInv'
  OBVIOUS
<1> DEFINE Kept == \A u \in Tasks : (IF Created(u) THEN Chained(u) ELSE events[u] = << >>)'
<1>1. TypeOK'
  BY NextTypeOK DEF ChainInv
<1>2. ASSUME UNCHANGED <<state, state_version, events>> PROVE Kept
  BY <1>2, ChainUntouched DEF ChainInv
<1>3. CASE \E t \in Tasks, actor \in Actors : CreateTask(t, actor)
  BY <1>1, <1>3, CreateTaskChain DEF ChainInv
<1>4. CASE \E t \in Tasks, request \in Requests, reason \in Reasons, expected \in 0..MaxVersion :
             Transition(t, request[2], request[1], reason, expected)
  <2>1. PICK t \in Tasks, request \in Requests, reason \in Reasons, expected \in 0..MaxVersion :
               Transition(t, request[2], request[1], reason, expected)
    BY <1>4
  <2>2. request[1] \in Actors /\ request[2] \in States
    BY InputsAssumption
  <2>3. Kept
    BY <2>1, <2>2, TransitionChain
  <2>4. QED
    BY <1>1, <2>3 DEF ChainInv
<1>5. CASE \E t \in Tasks, actor \in Actors, scope \in Scopes,
              expected_state \in ExpectedStates, expected \in 0..MaxVersion :
             RequestApproval(t, actor, scope, expected_state, expected)
  BY <1>1, <1>2, <1>5 DEF ChainInv, RequestApproval
<1>6. CASE \E i \in DOMAIN approvals, actor \in Actors, decision \in {"APPROVED", "REJECTED"},
              digest \in Scopes, evidence \in BOOLEAN :
             DecideApproval(i, actor, decision, digest, evidence)
  BY <1>1, <1>2, <1>6 DEF ChainInv, DecideApproval
<1>7. CASE \E t \in Tasks, type \in PublishedTypes, producer \in Actors :
             \E payload \in Payloads(type), expected \in 0..MaxVersion :
               PutArtifact(t, type, producer, payload, expected)
  BY <1>1, <1>2, <1>7 DEF ChainInv, PutArtifact
<1>8. CASE UNCHANGED vars
  BY <1>1, <1>2, <1>8 DEF ChainInv, vars
<1> QED
  BY <1>3, <1>4, <1>5, <1>6, <1>7, <1>8 DEF Next

\* ChainInv holds forever; what else is proved of the log starts from it.
LEMMA ChainInvAlways == Spec => []ChainInv
BY InitChainInv, NextChainInv, PTL DEF Spec

\* However many tasks there are and however stale the callers, the log always
\* replays to the task row along legal edges taken by their owners.
THEOREM LogRebuildsTask == Spec => []ChainIntact
BY ChainInvAlways, ChainInvImpliesChainIntact, PTL

=============================================================================
