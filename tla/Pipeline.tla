------------------------------ MODULE Pipeline ------------------------------
(***************************************************************************)
(* run_demo of src/exoflow/pipeline.py on the local control plane, the     *)
(* checkpoint table, the evidence file, and the execution and CI providers *)
(* of src/exoflow/foundation.py.                                           *)
(*                                                                         *)
(* run_demo is one thread.  Its statements that change state are kept as a *)
(* list, todo, and each action executes the first one.  A statement that   *)
(* would raise is never executed: the run then hangs in the model, which   *)
(* Terminates forbids.  The process may die between any two statements;    *)
(* the control plane is in its memory, the checkpoint row, the pack file   *)
(* and the workspaces survive, and the demo is run again from the start.   *)
(* A half-deleted workspace is not told from a complete one.               *)
(***************************************************************************)
EXTENDS StateMachineDef, Integers, Sequences, FiniteSets

CONSTANTS
  Providers,  \* subset of {"fixture-local", "dry-run", "live"}
  MaxRuns     \* bound on the processes started for the task

ASSUME PipelineAssumption ==
  /\ Providers \subseteq {"fixture-local", "dry-run", "live"}
  /\ MaxRuns \in Nat

VARIABLES
  provider,   \* execution provider of the present run
  phase,      \* "running", "dead" or "ended"
  started,    \* processes started so far
  todo,       \* the statements left
  attempt,    \* loop variable of run_demo
  verdicts,   \* verification_results
  task,       \* the control plane's record of the task
  saved,      \* the row of the checkpoints table
  pack,       \* the evidence pack file
  workspace,  \* patches in the executor's workspace
  verifier    \* patches in the verifier's workspace

vars == <<provider, phase, started, todo, attempt, verdicts, task, saved, pack,
          workspace, verifier>>

process == <<provider, phase, started>>
files   == <<saved, pack, workspace, verifier>>

Nothing == [state |-> "NONE"]      \* no checkpoint row, no pack file
Torn    == [state |-> "TORN"]      \* a pack file that is half written

-----------------------------------------------------------------------------
(* Statements                                                              *)

Evidence               == [op |-> "evidence"]
Move(target, actor)    == [op |-> "move", target |-> target, actor |-> actor]
Save                   == [op |-> "save"]
Publish(type)          == [op |-> "publish", type |-> type]
Request                == [op |-> "request"]
Approve                == [op |-> "approve"]
Prepare                == [op |-> "prepare"]
Patch                  == [op |-> "patch"]
Copy                   == [op |-> "copy"]
Execute                == [op |-> "execute"]
Verify                 == [op |-> "verify"]
Judge                  == [op |-> "judge"]
OpenPack               == [op |-> "open"]
WritePack              == [op |-> "write"]

UpToPatched ==
  << Evidence,
     Move("FUSED", "intake"),               Publish("IssueCluster"),
     Move("TRIAGED", "triage"),             Publish("RiskAssessment"),
     Move("BOOTSTRAPPED", "env_bootstrap"), Publish("EnvironmentSnapshot"),
     Move("LOCATED", "repo_analyst"),       Publish("RootCauseHypotheses"),
     Move("PLANNED", "plan"),               Publish("ChangePlan"),
     Request, Move("AWAITING_APPROVAL", "plan"), Approve,
     Move("PATCHED", "executor") >>

\* Only the fixture provider touches workspaces, and attempt 1 prepares them.
Execution(p, n) ==
  CASE p = "fixture-local" -> (IF n = 1 THEN <<Prepare>> ELSE << >>) \o <<Patch, Copy>>
    [] OTHER               -> <<Execute>>

Attempt(p, n) ==
  Execution(p, n) \o
  << Evidence, Publish("PatchBundle"), Move("VERIFYING", "verifier"),
     Verify, Evidence, Publish("VerificationReport"), Judge >>

Released ==
  << Move("RELEASE_READY", "verifier"), Move("POSTMORTEM", "postmortem"),
     Evidence, Publish("SkillCandidate"),
     Move("SKILL_DISTILLING", "postmortem"), Move("CLOSED", "postmortem"),
     OpenPack, WritePack >>

GivenUp == << Move("NEEDS_HUMAN", "verifier"), OpenPack, WritePack >>

\* The states the registered agents may enter: PIPELINE_AGENTS.
PIPELINE_AGENTS ==
  [ intake        |-> {"RECEIVED", "FUSED"},
    triage        |-> {"TRIAGED"},
    env_bootstrap |-> {"BOOTSTRAPPED"},
    repo_analyst  |-> {"LOCATED"},
    plan          |-> {"PLANNED", "AWAITING_APPROVAL"},
    executor      |-> {"PATCHED", "RECOVERING"},
    verifier      |-> {"VERIFYING", "RELEASE_READY", "NEEDS_HUMAN"},
    postmortem    |-> {"POSTMORTEM", "SKILL_DISTILLING", "CLOSED"} ]

-----------------------------------------------------------------------------
(* The process                                                             *)

\* create_task of the control plane.
NewTask == [state |-> "RECEIVED", version |-> 0, artifacts |-> << >>, evidence |-> 0,
            approval |-> "NONE"]

Init ==
  /\ provider \in Providers
  /\ phase = "running" /\ started = 1
  /\ todo = UpToPatched \o Attempt(provider, 1)
  /\ attempt = 1 /\ verdicts = << >>
  /\ task = NewTask
  /\ saved = Nothing /\ pack = Nothing
  /\ workspace = {} /\ verifier = {}

Next1(op) == phase = "running" /\ todo # << >> /\ Head(todo).op = op

\* record_evidence
RecordEvidence ==
  /\ Next1("evidence")
  /\ task' = [task EXCEPT !.evidence = @ + 1]
  /\ todo' = Tail(todo)
  /\ UNCHANGED <<process, files, attempt, verdicts>>

\* Seeded: the checkpoint after a transition is left out.
SaveNever(rest) == rest

\* _checkpoint follows each transition.
SaveNext(rest) == <<Save>> \o rest

\* move: transition with the version just read, then _checkpoint.
Transition ==
  /\ Next1("move")
  /\ Head(todo).target \in TRANSITIONS[task.state]
  /\ Head(todo).target \in PIPELINE_AGENTS[Head(todo).actor]
  /\ task' = [task EXCEPT !.state = Head(todo).target, !.version = @ + 1]
  /\ todo' = SaveNext(Tail(todo))
  /\ UNCHANGED <<process, files, attempt, verdicts>>

Checkpoint ==
  /\ Next1("save")
  /\ saved' = task
  /\ todo' = Tail(todo)
  /\ UNCHANGED <<process, attempt, verdicts, task, pack, workspace, verifier>>

PublishArtifact ==
  /\ Next1("publish")
  /\ task' = [task EXCEPT !.artifacts = Append(@, Head(todo).type)]
  /\ todo' = Tail(todo)
  /\ UNCHANGED <<process, files, attempt, verdicts>>

\* request_approval, made a state ahead of expected_state.
RequestApproval ==
  /\ Next1("request")
  /\ task' = [task EXCEPT !.approval = "PENDING"]
  /\ todo' = Tail(todo)
  /\ UNCHANGED <<process, files, attempt, verdicts>>

\* approve: pending, and the task in the expected state, at whatever version.
DecideApproval ==
  /\ Next1("approve")
  /\ task.approval = "PENDING"
  /\ task.state = "AWAITING_APPROVAL"
  /\ task' = [task EXCEPT !.approval = "APPROVED"]
  /\ todo' = Tail(todo)
  /\ UNCHANGED <<process, files, attempt, verdicts>>

\* Seeded: an existing workspace is used again.
KeepWorkspace == workspace

\* _prepare: both workspaces are removed and copied afresh.
FreshWorkspace == {}

PrepareWorkspaces ==
  /\ Next1("prepare")
  /\ workspace' = FreshWorkspace /\ verifier' = FreshWorkspace
  /\ todo' = Tail(todo)
  /\ UNCHANGED <<process, attempt, verdicts, task, saved, pack>>

\* _apply_patch raises when its target is not in the source any more.
ApplyPatch ==
  /\ Next1("patch")
  /\ attempt \notin workspace
  /\ workspace' = workspace \union {attempt}
  /\ todo' = Tail(todo)
  /\ UNCHANGED <<process, attempt, verdicts, task, saved, pack, verifier>>

\* Seeded: the verifier's copy is made once.
CopyOnce == IF attempt = 1 THEN workspace ELSE verifier

CopyPatched == workspace

CopyToVerifier ==
  /\ Next1("copy")
  /\ verifier' = CopyPatched
  /\ todo' = Tail(todo)
  /\ UNCHANGED <<process, attempt, verdicts, task, saved, pack, workspace>>

\* The other providers return a patch, or a FAILED status nobody looks at.
ExecuteElsewhere ==
  /\ Next1("execute")
  /\ todo' = Tail(todo)
  /\ UNCHANGED <<process, files, attempt, verdicts, task>>

\* ci_port_for: suites that pass, fail or time out; a deterministic oracle that
\* fails the first attempt or not; no workspace to verify.
Reports ==
  CASE provider = "fixture-local" -> [public : {"pass", "fail"}, hidden : {"pass", "fail"}]
    [] provider = "live"          -> {[public |-> "unknown", hidden |-> "unknown"]}
    [] OTHER -> [public : {"pass"},
                 hidden : IF attempt = 1 THEN {"pass", "fail"} ELSE {"pass"}]

RunVerification(report) ==
  /\ Next1("verify")
  /\ verdicts' = Append(verdicts, report)
  /\ todo' = Tail(todo)
  /\ UNCHANGED <<process, files, attempt, task>>

Passed == verdicts[Len(verdicts)].hidden = "pass"

\* Seeded: the last attempt is released whatever it showed.
ReleaseLast == IF Passed THEN "release" ELSE IF attempt < 2 THEN "again" ELSE "release"

\* After an attempt: leave the loop, repair, or give up after the second.
Verdict == IF Passed THEN "release" ELSE IF attempt < 2 THEN "again" ELSE "human"

JudgeAttempt ==
  /\ Next1("judge")
  /\ \/ Verdict = "release" /\ todo' = Released /\ UNCHANGED attempt
     \/ /\ Verdict = "again"
        /\ attempt' = attempt + 1
        /\ todo' = <<Move("PATCHED", "executor")>> \o Attempt(provider, attempt + 1)
     \/ /\ Verdict = "human"
        /\ todo' = <<Move("PATCHED", "executor")>> \o GivenUp
        /\ UNCHANGED attempt
  /\ UNCHANGED <<process, files, verdicts, task>>

\* write_pack: the file is truncated, then written with the loaded checkpoint.
TruncatePack ==
  /\ Next1("open")
  /\ pack' = Torn
  /\ todo' = Tail(todo)
  /\ UNCHANGED <<process, attempt, verdicts, task, saved, workspace, verifier>>

FillPack ==
  /\ Next1("write")
  /\ pack' = [state |-> task.state, task |-> task, checkpoint |-> saved]
  /\ todo' = << >>
  /\ phase' = "ended"
  /\ UNCHANGED <<provider, started, attempt, verdicts, task, saved, workspace, verifier>>

\* The process is killed; a live provider that times out raises and ends it too.
Die ==
  /\ phase = "running"
  /\ phase' = "dead"
  /\ UNCHANGED <<provider, started, todo, attempt, verdicts, task, files>>

\* Someone runs the demo again, in the same directory, for the same task.
RunAgain ==
  /\ phase # "running"
  /\ started < MaxRuns
  /\ started' = started + 1 /\ phase' = "running"
  /\ provider' \in Providers
  /\ todo' = UpToPatched \o Attempt(provider', 1)
  /\ attempt' = 1 /\ verdicts' = << >>
  /\ task' = NewTask
  /\ UNCHANGED files

Step ==
  \/ RecordEvidence \/ Transition \/ Checkpoint \/ PublishArtifact
  \/ RequestApproval \/ DecideApproval
  \/ PrepareWorkspaces \/ ApplyPatch \/ CopyToVerifier \/ ExecuteElsewhere
  \/ \E report \in Reports : RunVerification(report)
  \/ JudgeAttempt \/ TruncatePack \/ FillPack

Next == Step \/ Die \/ RunAgain

\* The thread goes on while its process lives: suites and the live provider have
\* time limits.  Nobody has to run the demo again.
Spec == Init /\ [][Next]_vars /\ WF_vars(Step)

-----------------------------------------------------------------------------
(* Properties                                                              *)

Prefix(s, t) == Len(s) <= Len(t) /\ s = SubSeq(t, 1, Len(s))

\* From its second move on, a run finds its own checkpoint, and no other run's,
\* one move behind its memory at most, with no artifact the run has not published.
\* Artifacts published since the checkpoint may be missing in it.
CheckpointFollows ==
  phase = "running" /\ task.version > 1 =>
    /\ saved # Nothing
    /\ task.version - 1 <= saved.version /\ saved.version <= task.version
    /\ Prefix(saved.artifacts, task.artifacts)
    /\ saved.version = task.version => saved.state = task.state

\* The verifier runs its suites on the patched source: its copy holds all
\* patches of this run, and none of a run that died before.
VerifierSeesPatch ==
  provider = "fixture-local" /\ Next1("verify") =>
    verifier = 1..attempt /\ workspace = verifier

\* A finished run is closed or handed to a human, with a complete pack that
\* agrees with its own checkpoint; it is closed after an approved patch whose
\* last hidden suite passed, and holds one report for each patch.
EndsDecided ==
  phase = "ended" =>
    LET Count(type) == Cardinality({i \in DOMAIN task.artifacts : task.artifacts[i] = type})
    IN /\ task.state \in {"CLOSED", "NEEDS_HUMAN"}
       /\ task.state = "CLOSED" <=> Passed
       /\ task.approval = "APPROVED"
       /\ Count("PatchBundle") = Len(verdicts) /\ Count("VerificationReport") = Len(verdicts)
       /\ pack.checkpoint.version = task.version

\* Whatever the suites say and wherever an earlier process died, no statement of
\* run_demo is refused: its moves are legal and its agent's, its approval is
\* pending at the gate, and each patch still finds its target in the workspace.
NothingRefused ==
  phase = "running" =>
    /\ todo # << >>
    /\ Next1("move") => /\ Head(todo).target \in TRANSITIONS[task.state]
                        /\ Head(todo).target \in PIPELINE_AGENTS[Head(todo).actor]
    /\ Next1("approve") => task.approval = "PENDING" /\ task.state = "AWAITING_APPROVAL"
    /\ Next1("patch") => attempt \notin workspace

\* So a run comes to its end or dies.
Terminates == phase = "running" ~> phase # "running"

\* run_demo gives "public and hidden checks pass" as the reason of a release.
ReleasedWithBothSuites ==
  task.state = "RELEASE_READY" =>
    verdicts[Len(verdicts)].public = "pass" /\ verdicts[Len(verdicts)].hidden = "pass"

=============================================================================
