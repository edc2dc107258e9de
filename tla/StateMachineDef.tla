--------------------------- MODULE StateMachineDef ---------------------------
(***************************************************************************)
(* The constant tables of src/exoflow/state_machine_def.py: which state    *)
(* follows which, who may move a task where, who writes which artifact and *)
(* when, and what a transition needs.  The native authority, the local     *)
(* control plane and the Worker oracle all consult these tables.           *)
(***************************************************************************)

TRANSITIONS ==
  [ RECEIVED           |-> {"FUSED", "RECOVERING"},
    FUSED              |-> {"TRIAGED", "RECOVERING"},
    TRIAGED            |-> {"BOOTSTRAPPED", "NEEDS_HUMAN", "RECOVERING"},
    BOOTSTRAPPED       |-> {"LOCATED", "RETRYABLE_FAILURE", "NEEDS_HUMAN", "RECOVERING"},
    LOCATED            |-> {"PLANNED", "READONLY_VERIFYING", "NEEDS_HUMAN", "RECOVERING"},
    PLANNED            |-> {"AWAITING_APPROVAL", "BLOCKED_BY_POLICY", "NEEDS_HUMAN", "RECOVERING"},
    AWAITING_APPROVAL  |-> {"PATCHED", "NEEDS_HUMAN", "BLOCKED_BY_POLICY", "RECOVERING"},
    PATCHED            |-> {"VERIFYING", "NEEDS_HUMAN", "RECOVERING"},
    VERIFYING          |-> {"RELEASE_READY", "PATCHED", "NEEDS_HUMAN", "RECOVERING"},
    RELEASE_READY      |-> {"POSTMORTEM", "CLOSED", "RECOVERING"},
    POSTMORTEM         |-> {"SKILL_DISTILLING", "CLOSED", "RECOVERING"},
    SKILL_DISTILLING   |-> {"CLOSED", "NEEDS_HUMAN", "RECOVERING"},
    READONLY_VERIFYING |-> {"READONLY_VERIFIED", "NEEDS_HUMAN", "RECOVERING"},
    READONLY_VERIFIED  |-> {"EVIDENCE_PACKED", "NEEDS_HUMAN", "RECOVERING"},
    EVIDENCE_PACKED    |-> {"CLOSED"},
    NEEDS_HUMAN        |-> {"TRIAGED", "LOCATED", "PLANNED", "READONLY_VERIFYING",
                            "CLOSED", "RECOVERING"},
    RECOVERING         |-> {"TRIAGED", "BOOTSTRAPPED", "LOCATED", "PLANNED", "PATCHED",
                            "VERIFYING", "READONLY_VERIFYING", "CLOSED", "NEEDS_HUMAN"},
    RETRYABLE_FAILURE  |-> {"BOOTSTRAPPED", "PATCHED", "NEEDS_HUMAN", "RECOVERING"},
    BLOCKED_BY_POLICY  |-> {"NEEDS_HUMAN", "CLOSED", "RECOVERING"},
    CLOSED             |-> {} ]

States == DOMAIN TRANSITIONS

\* The states each identity may move a task into.
ACTOR_TARGETS ==
  [ intake        |-> {"FUSED"},
    triage        |-> {"TRIAGED"},
    env_bootstrap |-> {"BOOTSTRAPPED"},
    repo_analyst  |-> {"LOCATED"},
    plan          |-> {"PLANNED", "AWAITING_APPROVAL"},
    executor      |-> {"PATCHED", "RECOVERING"},
    verifier      |-> {"VERIFYING", "RELEASE_READY", "READONLY_VERIFYING",
                       "READONLY_VERIFIED", "NEEDS_HUMAN"},
    postmortem    |-> {"POSTMORTEM", "SKILL_DISTILLING", "CLOSED"},
    lead          |-> {"RECOVERING", "NEEDS_HUMAN", "EVIDENCE_PACKED", "CLOSED"} ]

Actors == DOMAIN ACTOR_TARGETS

\* The only identity that may publish each artifact type.
ARTIFACT_PRODUCERS ==
  [ IssueCluster        |-> "intake",
    RiskAssessment      |-> "triage",
    EnvironmentSnapshot |-> "env_bootstrap",
    RootCauseHypotheses |-> "repo_analyst",
    ChangePlan          |-> "plan",
    PatchBundle         |-> "executor",
    VerificationReport  |-> "verifier",
    Postmortem          |-> "postmortem",
    SkillCandidate      |-> "postmortem" ]

ArtifactTypes == DOMAIN ARTIFACT_PRODUCERS

\* The states in which each artifact type may be written.
ARTIFACT_ALLOWED_STATES ==
  [ IssueCluster        |-> {"RECEIVED", "FUSED"},
    RiskAssessment      |-> {"FUSED", "TRIAGED"},
    EnvironmentSnapshot |-> {"TRIAGED", "BOOTSTRAPPED"},
    RootCauseHypotheses |-> {"BOOTSTRAPPED", "LOCATED"},
    ChangePlan          |-> {"LOCATED", "PLANNED", "AWAITING_APPROVAL"},
    PatchBundle         |-> {"AWAITING_APPROVAL"},
    VerificationReport  |-> {"VERIFYING", "READONLY_VERIFYING"},
    Postmortem          |-> {"RELEASE_READY", "READONLY_VERIFIED", "POSTMORTEM"},
    SkillCandidate      |-> {"POSTMORTEM", "SKILL_DISTILLING"} ]

\* Edges that need a PatchBundle (of any version) or a PASS report written at
\* the current version: TRANSITION_REQUIRED_ARTIFACTS and ..._VERDICT.
NeedsPatchBundle   == {<<"PATCHED", "VERIFYING">>}
NeedsPassingReport == {<<"VERIFYING", "RELEASE_READY">>,
                       <<"READONLY_VERIFYING", "READONLY_VERIFIED">>}

EVIDENCE_PACKED_PRECONDITION     == <<"READONLY_VERIFIED", "EVIDENCE_PACKED">>
SKILL_DISTILL_CLOSE_PRECONDITION == <<"SKILL_DISTILLING", "CLOSED">>

FAILURE_SIGNATURE_BREAKER_THRESHOLD == 3

\* Seeded: the read-only branch is not guarded.
GuardModificationOnly == {"VERIFYING"}

BREAKER_GUARDED_TARGETS == {"VERIFYING", "READONLY_VERIFYING"}

(* The side-effect ledger *)
SIDE_EFFECT_WRITERS  == {"executor", "lead"}
SIDE_EFFECT_STATUSES == {"INTENT", "EXECUTED", "FAILED", "ROLLED_BACK"}

=============================================================================
