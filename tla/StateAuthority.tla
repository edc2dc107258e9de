--------------------------- MODULE StateAuthority ---------------------------
(***************************************************************************)
(* SQLiteStateAuthority of src/exoflow/native_mcp.py: the tasks, events,   *)
(* approvals and artifacts tables and the tools that write them.           *)
(*                                                                         *)
(* Every writing tool runs inside one BEGIN IMMEDIATE transaction, which   *)
(* SQLite serialises and rolls back when the handler raises, so each tool  *)
(* is one action and a rejected call is an action that is not enabled.     *)
(* Callers are concurrent and stale: every call carries the version its    *)
(* caller last read, chosen freely here.                                   *)
(*                                                                         *)
(* Identities drop their "codeops-" prefix and '-' becomes '_'.  Digests   *)
(* are injective, so a digest is the value it digests.  The events kept    *)
(* here are the rows of the chain, TASK_CREATED and STATE_TRANSITION: an   *)
(* ARTIFACT_ or APPROVAL_ event repeats the row of its own transaction,    *)
(* and the rules of this module read none but the chain.                   *)
(***************************************************************************)
EXTENDS StateMachineDef, Integers, Sequences, FiniteSets

CONSTANTS
  Tasks,           \* task ids
  Scopes,          \* file sets a planner asks approval for
  Changes,         \* file sets an executor submits as changed_files
  Signatures,      \* non-blank failure signatures
  Requests,        \* input bound: the <<actor, target>> pairs callers ask for
  PublishedTypes,  \* input bound: the artifact types callers publish
  ExpectedStates,  \* input bound: the expected_state of an approval request
  Reasons,         \* input bound: the reasons given with a transition
  MaxVersion,      \* bound on a task's state_version
  MaxArtifacts,    \* bound on the artifacts of one task
  MaxApprovals     \* bound on the approvals of all tasks

ASSUME BoundsAssumption ==
  /\ MaxVersion \in Nat
  /\ MaxArtifacts \in Nat
  /\ MaxApprovals \in Nat

ASSUME InputsAssumption ==
  /\ Requests \subseteq Actors \X States
  /\ PublishedTypes \subseteq ArtifactTypes
  /\ ExpectedStates \subseteq States

VARIABLES
  state,           \* tasks.state, or Absent when the task has no row
  state_version,   \* tasks.state_version
  events,          \* events[t]: the TASK_CREATED and STATE_TRANSITION rows of t
  artifacts,       \* artifacts[t]: the artifact rows of t, oldest first
  approvals        \* the approval rows of all tasks; an approval_id is an index

vars == <<state, state_version, events, artifacts, approvals>>

Absent          == "ABSENT"
Missing         == "MISSING"    \* a required payload field that is not there
BlankSignature  == "BLANK"      \* failure_signature absent, empty or only spaces
NoDistill       == "NO_DISTILL_CONFIRMED"

-----------------------------------------------------------------------------
(* Rows                                                                    *)

Event(type, actor, version, source, target, reason) ==
  [event_type |-> type, actor |-> actor, state_version |-> version,
   source |-> source, target |-> target, reason |-> reason]

\* The payload fields the authority reads, per artifact type.  The signature is
\* read with a FAIL only; a FAIL without one also stands for any other verdict.
Payloads(type) ==
  CASE type = "PatchBundle" ->
         [approval_id : 1..MaxApprovals, changed_files : Changes]
    [] type = "VerificationReport" ->
         [verdict : {"FAIL"}, failure_signature : Signatures \union {BlankSignature}]
           \union [verdict : {"PASS", Missing}, failure_signature : {BlankSignature}]
    [] type = "SkillCandidate" ->
         [review_status : {"approved", "pending", Missing}]
    [] OTHER -> [body : {"opaque"}]

\* The structural schema gate; a Missing field stands for any required one.
HasRequiredFields(type, payload) ==
  /\ type = "VerificationReport" => payload.verdict # Missing
  /\ type = "SkillCandidate" => payload.review_status # Missing
  /\ type = "PatchBundle" => payload.changed_files # {}

Rows(t, type) == {i \in DOMAIN artifacts[t] : artifacts[t][i].artifact_type = type}

Created(t) == state[t] # Absent

-----------------------------------------------------------------------------
(* The failure-signature breaker and the verdict gate                      *)

FailRows(t, s) ==
  {i \in Rows(t, "VerificationReport") :
     /\ artifacts[t][i].payload.verdict = "FAIL"
     /\ artifacts[t][i].payload.failure_signature = s}

\* Seeded: the breaker lets one failure too many through.
TrippedLate(t) ==
  \E s \in Signatures : Cardinality(FailRows(t, s)) > FAILURE_SIGNATURE_BREAKER_THRESHOLD

Tripped(t) ==
  \E s \in Signatures : Cardinality(FailRows(t, s)) >= FAILURE_SIGNATURE_BREAKER_THRESHOLD

\* Seeded: any PASS of the task counts, whatever the version it was written at.
PassedEver(t, v) ==
  \E i \in Rows(t, "VerificationReport") : artifacts[t][i].payload.verdict = "PASS"

\* Seeded: a report of the current version is enough, whatever it says.
ReportedAt(t, v) ==
  \E i \in Rows(t, "VerificationReport") : artifacts[t][i].state_version = v

PassedAt(t, v) ==
  \E i \in Rows(t, "VerificationReport") :
    /\ artifacts[t][i].state_version = v
    /\ artifacts[t][i].payload.verdict = "PASS"

-----------------------------------------------------------------------------
(* validate_evidence_pack: the chain is replayed from the event rows       *)

Steps(t) == {i \in DOMAIN events[t] : events[t][i].event_type = "STATE_TRANSITION"}

\* The state of t at version v, replayed from its events.
StateAt(t, v) == IF v = 0 THEN "RECEIVED" ELSE events[t][v + 1].target

Visited(t) == {"RECEIVED"} \union {events[t][i].target : i \in Steps(t)}

\* No GENESIS_EVENT_MISSING, ..._CHAIN_BROKEN, INVALID_TRANSITION_RECORDED,
\* UNAUTHORIZED_ACTOR_RECORDED or TASK_..._MISMATCH.
ChainReplays(t) ==
  /\ events[t] # << >>
  /\ events[t][1].event_type = "TASK_CREATED"
  /\ \A i \in Steps(t) :
       LET e == events[t][i] IN
       /\ e.state_version = i - 1
       /\ e.source = StateAt(t, i - 2)
       /\ e.source \in States
       /\ e.target \in TRANSITIONS[e.source]
       /\ e.target \in ACTOR_TARGETS[e.actor]
  /\ state_version[t] = Cardinality(Steps(t))
  /\ state[t] = StateAt(t, state_version[t])

\* No ARTIFACT_PRODUCER_MISMATCH and no ARTIFACT_FIELDS_MISSING.
ArtifactsWellFormed(t) ==
  \A i \in DOMAIN artifacts[t] :
    LET a == artifacts[t][i] IN
    /\ a.producer = ARTIFACT_PRODUCERS[a.artifact_type]
    /\ HasRequiredFields(a.artifact_type, a.payload)

\* No APPROVAL_MATRIX_EVIDENCE_MISSING.
ApprovalsEvidenced(t) ==
  \A i \in DOMAIN approvals :
    approvals[i].task_id = t /\ approvals[i].status = "APPROVED"
      => approvals[i].decision_evidence

PackValid(t) ==
  LET reports  == Rows(t, "VerificationReport")
      passing  == {i \in reports : artifacts[t][i].payload.verdict = "PASS"}
      verified == Visited(t) \intersect {"VERIFYING", "READONLY_VERIFYING"} # {}
      terminal == state[t] \in {"RELEASE_READY", "EVIDENCE_PACKED", "CLOSED"}
      mustPass == \/ state[t] \in {"RELEASE_READY", "READONLY_VERIFIED", "EVIDENCE_PACKED"}
                  \/ state[t] = "CLOSED" /\ verified
  IN /\ ChainReplays(t)
     /\ ArtifactsWellFormed(t)
     /\ ApprovalsEvidenced(t)
     /\ verified \/ terminal => reports # {}
     /\ mustPass => passing # {}
     /\ state[t] = "EVIDENCE_PACKED" => "READONLY_VERIFIED" \in Visited(t)

-----------------------------------------------------------------------------
(* Tools                                                                   *)

Init ==
  /\ state         = [t \in Tasks |-> Absent]
  /\ state_version = [t \in Tasks |-> 0]
  /\ events        = [t \in Tasks |-> << >>]
  /\ artifacts     = [t \in Tasks |-> << >>]
  /\ approvals     = << >>

\* Seeded: the compare-and-swap check is dropped.
AnyVersion(t, expected) == Created(t)

\* The task exists and the caller's expected_state_version is its version.
AtVersion(t, expected) == Created(t) /\ state_version[t] = expected

\* task_create by the lead.  Repeating it with the same input changes nothing
\* and with another input is a conflict, so only the first call is a step.
CreateTask(t, caller) ==
  /\ caller = "lead"
  /\ ~Created(t)
  /\ state'  = [state EXCEPT ![t] = "RECEIVED"]
  /\ state_version' = [state_version EXCEPT ![t] = 0]
  /\ events' = [events EXCEPT ![t] =
                 Append(@, Event("TASK_CREATED", "lead", 0, Absent, "RECEIVED", ""))]
  /\ UNCHANGED <<artifacts, approvals>>

\* The approvals that may authorise a patch of t at its present version.
ApprovedNow(t, v) ==
  {i \in DOMAIN approvals :
     /\ approvals[i].task_id = t
     /\ approvals[i].status = "APPROVED"
     /\ approvals[i].expected_state = "AWAITING_APPROVAL"
     /\ approvals[i].expected_decision_version = v}

BundleFor(t, i, v) ==
  \E k \in Rows(t, "PatchBundle") :
    /\ artifacts[t][k].state_version = v
    /\ artifacts[t][k].payload.approval_id = i

\* Seeded: the oldest decision is taken for the latest one.
PatchFromOldest(t, v) ==
  \E i \in ApprovedNow(t, v) :
    /\ \A j \in ApprovedNow(t, v) : approvals[i].decided_at <= approvals[j].decided_at
    /\ BundleFor(t, i, v)

\* The latest decided approval of this version has a bundle of this version.
PatchApproved(t, v) ==
  \E i \in ApprovedNow(t, v) :
    /\ \A j \in ApprovedNow(t, v) : approvals[j].decided_at <= approvals[i].decided_at
    /\ BundleFor(t, i, v)

\* Seeded: no approval is asked for.
PatchUnchecked(t, target, v) == TRUE

\* Leaving AWAITING_APPROVAL for PATCHED takes an approval; no other edge does.
PatchGate(t, target, v) ==
  state[t] = "AWAITING_APPROVAL" /\ target = "PATCHED" => PatchApproved(t, v)

CandidateApproved(t) ==
  \E i \in Rows(t, "SkillCandidate") : artifacts[t][i].payload.review_status = "approved"

\* _enforce_transition_preconditions
PreconditionsMet(t, target, reason) ==
  LET edge == <<state[t], target>> IN
  /\ edge \in NeedsPatchBundle => Rows(t, "PatchBundle") # {}
  /\ edge \in NeedsPassingReport => PassedAt(t, state_version[t])
  /\ edge = EVIDENCE_PACKED_PRECONDITION => PackValid(t)
  /\ edge = SKILL_DISTILL_CLOSE_PRECONDITION
       => CandidateApproved(t) \/ reason = NoDistill
  /\ target \in BREAKER_GUARDED_TARGETS => ~Tripped(t)

Transition(t, target, actor, reason, expected) ==
  /\ AtVersion(t, expected)
  /\ expected < MaxVersion
  /\ target \in TRANSITIONS[state[t]]
  /\ target \in ACTOR_TARGETS[actor]
  /\ PreconditionsMet(t, target, reason)
  /\ PatchGate(t, target, expected)
  /\ state'         = [state EXCEPT ![t] = target]
  /\ state_version' = [state_version EXCEPT ![t] = expected + 1]
  /\ events' = [events EXCEPT ![t] =
       Append(@, Event("STATE_TRANSITION", actor, expected + 1, state[t], target, reason))]
  /\ UNCHANGED <<artifacts, approvals>>

\* Seeded: the request made one state early expects the version before it.
DecisionVersionBack(t, expected_state, expected) ==
  expected + (IF state[t] = expected_state THEN 0 ELSE -1)

\* The version at which the decision will be valid: the present one, or the
\* next one when the request is made a state ahead of expected_state.
DecisionVersion(t, expected_state, expected) ==
  expected + (IF state[t] = expected_state THEN 0 ELSE 1)

RequestApproval(t, actor, scope, expected_state, expected) ==
  /\ actor = "plan"
  /\ AtVersion(t, expected)
  /\ Len(approvals) < MaxApprovals
  /\ approvals' = Append(approvals,
       [task_id |-> t, scope |-> scope, requested_state |-> state[t],
        expected_state |-> expected_state,
        expected_decision_version |-> DecisionVersion(t, expected_state, expected),
        status |-> "PENDING", decided_at |-> 0, decision_evidence |-> FALSE])
  /\ UNCHANGED <<state, state_version, events, artifacts>>

\* Seeded: a decision may replace an earlier one.
Redecidable(i) == TRUE

Undecided(i) == approvals[i].status = "PENDING"

\* Seeded: only the state is compared, as the local control plane does.
SameState(i) == state[approvals[i].task_id] = approvals[i].expected_state

\* Seeded: only the version is compared.
SameVersion(i) ==
  state_version[approvals[i].task_id] = approvals[i].expected_decision_version

\* The task is in the state and at the version the approval was made for.
StillCurrent(i) ==
  /\ state[approvals[i].task_id] = approvals[i].expected_state
  /\ state_version[approvals[i].task_id] = approvals[i].expected_decision_version

\* decided_at counts decisions: the wall clock, taken to be monotone.
Decided == {i \in DOMAIN approvals : approvals[i].status # "PENDING"}

DecideApproval(i, caller, decision, digest, evidence) ==
  /\ caller = "lead"
  /\ Undecided(i)
  /\ digest = approvals[i].scope
  /\ evidence
  /\ StillCurrent(i)
  /\ approvals' = [approvals EXCEPT
       ![i].status = decision,
       ![i].decided_at = Cardinality(Decided) + 1,
       ![i].decision_evidence = evidence]
  /\ UNCHANGED <<state, state_version, events, artifacts>>

\* Seeded: the approval may belong to another task.
BundleOfAnyTask(t, payload) ==
  LET approval == approvals[payload.approval_id] IN
  /\ payload.approval_id \in DOMAIN approvals
  /\ approval.status = "APPROVED"
  /\ state[t] = "AWAITING_APPROVAL" =>
       /\ approval.expected_state = state[t]
       /\ approval.expected_decision_version = state_version[t]
  /\ payload.changed_files \subseteq approval.scope

BundleAuthorised(t, payload) ==
  LET approval == approvals[payload.approval_id] IN
  /\ payload.approval_id \in DOMAIN approvals
  /\ approval.task_id = t
  /\ approval.status = "APPROVED"
  /\ state[t] = "AWAITING_APPROVAL" =>
       /\ approval.expected_state = state[t]
       /\ approval.expected_decision_version = state_version[t]
  /\ payload.changed_files \subseteq approval.scope

PutArtifact(t, type, producer, payload, expected) ==
  /\ AtVersion(t, expected)
  /\ producer = ARTIFACT_PRODUCERS[type]
  /\ state[t] \in ARTIFACT_ALLOWED_STATES[type]
  /\ HasRequiredFields(type, payload)
  /\ type = "PatchBundle" => BundleAuthorised(t, payload)
  /\ Len(artifacts[t]) < MaxArtifacts
  /\ artifacts' = [artifacts EXCEPT ![t] =
       Append(@, [artifact_type |-> type, producer |-> producer,
                  state_version |-> expected, payload |-> payload])]
  /\ UNCHANGED <<state, state_version, events, approvals>>

Next ==
  \/ \E t \in Tasks, actor \in Actors : CreateTask(t, actor)
  \/ \E t \in Tasks, request \in Requests, reason \in Reasons, expected \in 0..MaxVersion :
        Transition(t, request[2], request[1], reason, expected)
  \/ \E t \in Tasks, actor \in Actors, scope \in Scopes, expected_state \in ExpectedStates,
        expected \in 0..MaxVersion :
          RequestApproval(t, actor, scope, expected_state, expected)
  \/ \E i \in DOMAIN approvals, actor \in Actors, decision \in {"APPROVED", "REJECTED"},
        digest \in Scopes, evidence \in BOOLEAN :
          DecideApproval(i, actor, decision, digest, evidence)
  \/ \E t \in Tasks, type \in PublishedTypes, producer \in Actors :
        \E payload \in Payloads(type), expected \in 0..MaxVersion :
          PutArtifact(t, type, producer, payload, expected)

Spec == Init /\ [][Next]_vars

-----------------------------------------------------------------------------
(* Type invariant                                                          *)

EventRows ==
  [event_type : {"TASK_CREATED", "STATE_TRANSITION"}, actor : Actors,
   state_version : 0..MaxVersion, source : States \union {Absent}, target : States,
   reason : Reasons \union {""}]

ArtifactRows ==
  UNION {[artifact_type : {type}, producer : Actors, state_version : 0..MaxVersion,
          payload : Payloads(type)] : type \in ArtifactTypes}

ApprovalRows ==
  [task_id : Tasks, scope : Scopes, requested_state : States, expected_state : States,
   expected_decision_version : 0..(MaxVersion + 1),
   status : {"PENDING", "APPROVED", "REJECTED"}, decided_at : Nat,
   decision_evidence : BOOLEAN]

\* Every column of every table keeps its type, whatever is called; versions
\* stay below the bound plus the one version an approval may look ahead.
TypeOK ==
  /\ state \in [Tasks -> States \union {Absent}]
  /\ state_version \in [Tasks -> 0..MaxVersion]
  /\ events \in [Tasks -> Seq(EventRows)]
  /\ artifacts \in [Tasks -> Seq(ArtifactRows)]
  /\ approvals \in Seq(ApprovalRows)

-----------------------------------------------------------------------------
(* Safety                                                                  *)

\* The event log alone rebuilds the task row: replaying it from RECEIVED uses
\* only legal edges taken by their owners, one version each, and ends at the
\* state and version of the row, however stale and concurrent the callers are.
ChainIntact == \A t \in Tasks : Created(t) => ChainReplays(t)

\* An artifact was written while the task was in a state that allows its type:
\* the version it carries is the version the writer really acted on.
WrittenWhereAllowed ==
  \A t \in Tasks : \A i \in DOMAIN artifacts[t] :
    LET a == artifacts[t][i] IN
    /\ a.state_version <= state_version[t]
    /\ StateAt(t, a.state_version) \in ARTIFACT_ALLOWED_STATES[a.artifact_type]

\* The evidence gate never turns away work that was really verified: from a
\* verified state on, and through distillation, the pack validates.
VerifiedPackValid ==
  \A t \in Tasks :
    state[t] \in {"RELEASE_READY", "READONLY_VERIFIED", "EVIDENCE_PACKED",
                  "POSTMORTEM", "SKILL_DISTILLING"}
      => PackValid(t)

\* Each time a task became RELEASE_READY or READONLY_VERIFIED, a PASS had been
\* reported inside the verification round that was just left, not in an older one.
VerifiedByPass ==
  \A t \in Tasks : \A i \in Steps(t) :
    events[t][i].target \in {"RELEASE_READY", "READONLY_VERIFIED"}
      => \E k \in Rows(t, "VerificationReport") :
           /\ artifacts[t][k].state_version = events[t][i].state_version - 1
           /\ artifacts[t][k].payload.verdict = "PASS"

\* One failure signature is retried in at most three verification rounds.
RetriesBounded ==
  \A t \in Tasks, s \in Signatures :
    Cardinality({artifacts[t][i].state_version : i \in FailRows(t, s)})
      <= FAILURE_SIGNATURE_BREAKER_THRESHOLD

\* A human decided on the task he was shown: at the version an approval was
\* decided for, its task really was in the state the approval names.
DecidedWhileCurrent ==
  \A i \in DOMAIN approvals :
    LET a == approvals[i] IN
    a.status # "PENDING" =>
      /\ a.expected_decision_version <= state_version[a.task_id]
      /\ StateAt(a.task_id, a.expected_decision_version) = a.expected_state

\* A PatchBundle touches only files a human approved for this very task, in
\* the same visit to AWAITING_APPROVAL.
BundlesInScope ==
  \A t \in Tasks : \A k \in Rows(t, "PatchBundle") :
    LET a == approvals[artifacts[t][k].payload.approval_id] IN
    /\ artifacts[t][k].payload.approval_id \in DOMAIN approvals
    /\ a.task_id = t
    /\ a.status = "APPROVED"
    /\ a.expected_decision_version = artifacts[t][k].state_version
    /\ artifacts[t][k].payload.changed_files \subseteq a.scope

\* The last approval decided at version v of t has a bundle written at v.
LastApprovalCarriedOut(t, v) ==
  \E i \in ApprovedNow(t, v) :
    /\ \A j \in ApprovedNow(t, v) : approvals[j].decided_at <= approvals[i].decided_at
    /\ BundleFor(t, i, v)

\* A patch applied from the approval gate carries out the last approval given
\* there: a later, perhaps narrower, approval is never passed over.
PatchedFromLastApproval ==
  \A t \in Tasks : \A i \in Steps(t) :
    LET e == events[t][i] IN
    e.source = "AWAITING_APPROVAL" /\ e.target = "PATCHED"
      => LastApprovalCarriedOut(t, e.state_version - 1)

\* Along any path that never enters RECOVERING, a release rests on the last
\* visit to AWAITING_APPROVAL: that visit had an approval with a bundle.  Loops
\* through NEEDS_HUMAN and back from VERIFYING cannot release a stale patch.
ReleasedFromLastApproval ==
  \A t \in Tasks :
    state[t] = "RELEASE_READY" /\ "RECOVERING" \notin Visited(t) =>
      \E v \in 0..state_version[t] :
        /\ StateAt(t, v) = "AWAITING_APPROVAL"
        /\ \A w \in v + 1..state_version[t] : StateAt(t, w) # "AWAITING_APPROVAL"
        /\ LastApprovalCarriedOut(t, v)

\* A decision is final and a request is never withdrawn or rewritten.
DecisionsFinal ==
  [][ /\ DOMAIN approvals \subseteq DOMAIN approvals'
      /\ \A i \in Decided : approvals'[i] = approvals[i]
      /\ \A i \in DOMAIN approvals :
           /\ approvals'[i].task_id = approvals[i].task_id
           /\ approvals'[i].scope = approvals[i].scope ]_vars

-----------------------------------------------------------------------------
(* The authority implements the verification gate                          *)

Round(t) ==
  CASE state[t] \in {"VERIFYING", "READONLY_VERIFYING"}     -> "OPEN"
    [] state[t] \in {"RELEASE_READY", "READONLY_VERIFIED"}  -> "VERIFIED"
    [] OTHER                                                -> "SHUT"

Gate == INSTANCE VerificationGate WITH
  Threshold <- FAILURE_SIGNATURE_BREAKER_THRESHOLD,
  round     <- [t \in Tasks |-> Round(t)],
  passed    <- [t \in Tasks |-> Round(t) = "OPEN" /\ PassedAt(t, state_version[t])],
  fails     <- [t \in Tasks |-> [s \in Signatures |-> Cardinality(FailRows(t, s))]]

\* Twenty states, versions and artifact rows behave as VerificationGate says:
\* rounds end VERIFIED by a PASS of their own and stop once the breaker trips.
ImplementsGate == Gate!Spec

-----------------------------------------------------------------------------
(* The Worker package's oracle accepts what the authority commits          *)

\* The approvals of t that the oracle knows: those made in the state they are for.
MadeInPlace(t) ==
  {i \in DOMAIN approvals :
     /\ approvals[i].task_id = t
     /\ approvals[i].requested_state = approvals[i].expected_state}

OracleApproval(i) ==
  [scope |-> approvals[i].scope, expected_state |-> approvals[i].expected_state,
   requested_state_version |-> approvals[i].expected_decision_version,
   status |-> approvals[i].status]

Oracle == INSTANCE WorkerOracle WITH
  ApprovalIds <- 1..MaxApprovals,
  file <- [t \in Tasks |->
             [state |-> state[t], state_version |-> state_version[t], events |-> events[t],
              approvals |-> [i \in MadeInPlace(t) |-> OracleApproval(i)]]]

\* Replayed by the oracle, the calls the authority committed succeed one after
\* another and leave the same state, version, log and decisions: the authority
\* may refuse more than the oracle does, and commits nothing the oracle refuses.
OracleAccepts == Oracle!Spec

-----------------------------------------------------------------------------
(* What the documentation says and the code does not do                    *)

\* README: a task flow has "mandatory human approval".  Every task that was
\* patched was approved by a human at some point before.
PatchedOnlyWithApproval ==
  \A t \in Tasks :
    "PATCHED" \in Visited(t) =>
      \E i \in DOMAIN approvals :
        approvals[i].task_id = t /\ approvals[i].status = "APPROVED"

\* state_machine_def.py: a distillation closes with an approved candidate "or
\* the lead explicitly confirms there is nothing to distill".
NothingToDistillSaidByLead ==
  \A t \in Tasks : \A i \in Steps(t) :
    LET e == events[t][i] IN
    e.source = "SKILL_DISTILLING" /\ e.target = "CLOSED" /\ ~CandidateApproved(t)
      => e.actor = "lead"

=============================================================================
