-------------------------- MODULE MCStateAuthority --------------------------
(***************************************************************************)
(* Small instances of StateAuthority.  Each run asks for the transitions   *)
(* of one part of the state machine, so that long histories stay cheap.    *)
(***************************************************************************)
EXTENDS StateAuthority, TLC

CONSTANTS t1, t2, s1, s2, f1, f2

OneTask  == {t1}
TwoTasks == {t1, t2}
NoSignatures  == {}
OneSignature  == {s1}
TwoSignatures == {s1, s2}

OneScope   == {{f1}}
TwoScopes  == {{f1}, {f1, f2}}
OneChange  == {{f1}}
SomeChanges == {{}, {f1}, {f2}}

TaskSymmetry == Permutations(TwoTasks)

\* The standard path up to the release, with the detours and loops through
\* NEEDS_HUMAN and VERIFYING -> PATCHED; also calls by identities that do not
\* own the target.
StandardRequests ==
  { <<"intake", "FUSED">>, <<"triage", "TRIAGED">>, <<"env_bootstrap", "BOOTSTRAPPED">>,
    <<"repo_analyst", "LOCATED">>, <<"plan", "PLANNED">>, <<"plan", "AWAITING_APPROVAL">>,
    <<"executor", "PATCHED">>, <<"verifier", "VERIFYING">>, <<"verifier", "NEEDS_HUMAN">>,
    <<"verifier", "RELEASE_READY">>, <<"lead", "PATCHED">>, <<"executor", "RELEASE_READY">> }
StandardTypes    == {"PatchBundle", "VerificationReport"}

\* Rounds of verification, opened again and again through RECOVERING.
RoundRequests ==
  { <<"executor", "RECOVERING">>, <<"verifier", "READONLY_VERIFYING">>,
    <<"verifier", "READONLY_VERIFIED">>, <<"verifier", "VERIFYING">>,
    <<"verifier", "RELEASE_READY">>, <<"lead", "EVIDENCE_PACKED">>,
    <<"postmortem", "POSTMORTEM">>, <<"postmortem", "SKILL_DISTILLING">>,
    <<"lead", "CLOSED">>, <<"lead", "READONLY_VERIFIED">>, <<"executor", "VERIFYING">> }
ReportsOnly   == {"VerificationReport"}

\* The approval gate of two tasks at once.
ApprovalRequests ==
  { <<"lead", "RECOVERING">>, <<"plan", "PLANNED">>, <<"plan", "AWAITING_APPROVAL">>,
    <<"executor", "PATCHED">> }
BundlesOnly      == {"PatchBundle"}

\* From verification to distillation.
DistillRequests ==
  { <<"lead", "RECOVERING">>, <<"verifier", "VERIFYING">>, <<"verifier", "RELEASE_READY">>,
    <<"postmortem", "POSTMORTEM">>, <<"postmortem", "SKILL_DISTILLING">>,
    <<"postmortem", "CLOSED">>, <<"lead", "CLOSED">> }
ReportsAndCandidates == {"VerificationReport", "SkillCandidate"}

AwaitingOnly   == {"AWAITING_APPROVAL"}
AwaitingOrPlan == {"AWAITING_APPROVAL", "PLANNED"}
Unexplained    == {""}
Explained      == {"", NoDistill}
=============================================================================
