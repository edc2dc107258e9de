# ExoFlow in TLA+

Specifications of ExoFlow, the task authority of a team of LLM workers: models
of the code under `src/`, checked with TLC, and theorems about them, proved with
TLAPS.

## 1. The system

A *task* (an incident in some repository) moves through twenty states, from
`RECEIVED` to `CLOSED`. Nine identities ("actors": intake, triage,
env-bootstrap, repo-analyst, plan, executor, verifier, postmortem, lead) push it
forward. They are LLM agents: they read the task, think for minutes, and call
tools of an MCP server with what they read. Everything that must be right is
therefore decided by the server, the *native state authority*.

| Part | Source | State it keeps | Operations |
|---|---|---|---|
| State machine definition | `state_machine_def.py` | none: tables of edges, owners, artifact rules, breaker | consulted by all below |
| Native state authority | `native_mcp.py` | SQLite tables `tasks`, `events`, `approvals`, `artifacts` | `create_task`, `transition`, `request_approval`, `decide_approval`, `put_artifact`, `validate_evidence_pack` |
| Side-effect ledger | `native_mcp.py` | table `side_effects` | `record_side_effect_intent`, `record_side_effect_result`, `list_side_effects` |
| Evidence export | `native_mcp.py` | none (reads) | `evidence_pack`, `state_describe` |
| MCP server | `native_mcp.py` | none: a thread per request, token to identity | `handle_mcp_jsonrpc`, `dispatch_tool` |
| Local control plane | `foundation.py` | dictionaries of tasks, events, artifacts, approvals; a checkpoint row; a pack file | `transition`, `request_approval`, `approve`, `publish_artifact`, `save`/`load` |
| Demo pipeline | `pipeline.py`, CI ports and providers in `foundation.py` | loop variables | `run_demo` |
| Worker oracle | `packages/team-leader/scripts/state_machine.py` | one JSON file | `init`, `transition`, `request-approval`, `approve` |
| Skill distillation | `skill_distill.py` | trace files, the skill matrix file | `ingest`, `distill`, `record_human_review`, `publish`, `rollback` |
| CLI, configuration, fixtures, Skill documents | | none shared | |

How they interact: workers call the authority over HTTP; each writing tool is
one `BEGIN IMMEDIATE` transaction, so the database serialises them and undoes a
call that raises. Workers meet only through the tables: they read
`state_version`, and every write names the version it was decided on
(`expected_state_version`), a compare-and-swap. A human decides approvals in a
chat room and the lead records the decision. The distillation reads exported
packs and writes a file other processes read. The control plane and the oracle
are two further implementations of the same state machine, for local runs.

What is hard, and what would make each part correct:

- **Authority.** Calls arrive stale, concurrent, repeated, from any actor. The
  log must always rebuild the task; an artifact must belong to the state it
  claims; a verdict must belong to its own verification round although older
  reports stay in the table; the failure-signature breaker must bound retries
  across rounds and branches; a decision must be about the version the human
  saw, be final, and cover exactly the files that are patched; an old bundle
  must not ride on a new plan; the gate before `EVIDENCE_PACKED` must accept
  what was verified.
- **Ledger.** A crash between acting and recording; late results.
- **Export.** Four separate reads while others commit: the pack may be the task of
  no single moment, its verdict is about a second copy, and an advice may be out
  of date when it is followed.
- **Control plane and pipeline.** A state that comes back at another version;
  checkpoints behind the artifacts; suites that time out; must end.
- **Oracle.** A second program that decides which histories are legal, with a copy
  of the tables and other rules. Its package keeps it offline, with one caller at
  a time (SKILL.md:56).
- **Skill matrix.** Read, modify, write of a file without a lock, by a
  `write_text` that empties the file first; a lesson that passes four gates in
  turn; version numbers that come back after a rollback; traces that are replaced
  after a lesson was drawn from them.

`PROJECT.json` lists every hazard at its line, with the properties about it.

## 2. Modules

| Module | Models |
|---|---|
| `StateMachineDef` | the constant tables |
| `StateAuthority` | the native authority: one action per writing tool, its properties |
| `VerificationGate` | the abstract promise about verification, implemented by `StateAuthority` |
| `WorkerOracle` | the Worker package's oracle, implemented by `StateAuthority` |
| `MCStateAuthority` | the instances TLC checks |
| `StateAuthorityProofs` | theorems about `StateAuthority`: types and the event log |
| `AuthorityHistoryProofs` | theorems about what the tables say of the past: artifacts, verdicts, approvals, retries, packs, releases |
| `AuthorityRefinementProofs` | theorems that `StateAuthority` implements `VerificationGate` and `WorkerOracle` |
| `EvidenceExport` | `StateAuthority` with a reader that sends one SELECT after another: `evidence_pack`, `state_describe` |
| `MCEvidenceExport` | its instance |
| `EvidenceExportProofs` | theorems about `EvidenceExport`: what a torn answer can be trusted for |
| `SideEffectLedger` | the three ledger tools, and the worker runs that act on the outside world around them |
| `MCSideEffectLedger` | its instances |
| `SideEffectLedgerProofs` | theorems about `SideEffectLedger` |
| `Pipeline` | `run_demo` with the parts of the control plane, the checkpoint table, the pack file, the providers and CI ports it uses |
| `MCPipeline` | its instances |
| `PipelineProofs` | theorems about `Pipeline`: a run of the demo is refused nothing and ends decided |
| `SkillLibrary` | the trace pool, distillation, review and the skill matrix |
| `MCSkillLibrary` | its instance |
| `SkillLibraryProofs` | theorems about `SkillLibrary`: what a file without a lock still guarantees |

`EvidenceExport` extends `StateAuthority`; `StateAuthority` is mapped to
`VerificationGate` and to `WorkerOracle`. `StateAuthority`, `SideEffectLedger`,
`Pipeline` and `WorkerOracle` take the tables from `StateMachineDef` and share
nothing else, as in the code: the ledger tools never touch a task's state or
version, and the demo runs on the control plane in memory and not on the native
authority. `SkillLibrary` stands alone: what it takes from the authority is a
finished pack, of which it reads a few fields.

### The native authority

`StateAuthority` has one variable per table column that matters: `state` and
`state_version` (table `tasks`; `ABSENT` when there is no row), `events[t]`,
`artifacts[t]` and `approvals`. Each action is a whole handler; its conjuncts
follow the handler's checks in order, and a check that raises makes the action
not enabled, because the transaction is rolled back.

| Action | Code | Notes |
|---|---|---|
| `CreateTask` | `create_task`, lead only by `dispatch_tool` | a repeated call changes nothing |
| `Transition` | `transition`, `_enforce_transition_preconditions` | version, edge, owner, required bundle or PASS of this version, evidence gate, distillation gate, breaker, approval |
| `RequestApproval` | `request_approval` | `expected_state` is whatever the planner says; the decision is due now or one version later |
| `DecideApproval` | `decide_approval`, lead only | pending, same scope, evidence given, still current |
| `PutArtifact` | `put_artifact` | version, producer, state, fields, and for a bundle its approval and scope |

`PackValid` is `validate_evidence_pack`, clause by clause. It replays
the event rows and does not look at how the model got there.

Abstractions. Identities lose the prefix `codeops-`. SHA-256 is injective, so a
digest is the value it digests and digest clauses of the validator cannot fail.
A payload keeps the fields the authority reads (verdict, signature, review
status, approval, files); `MISSING` stands for a payload without a required
field. A verdict other than PASS and FAIL acts like a FAIL without signature.
Each artifact or approval event repeats the row inserted in the same
transaction, and the events of the ledger's tools are read by no rule of the
authority, so `events` is the task's chain only: `TASK_CREATED` and
`STATE_TRANSITION`. What an export shows of the other rows is in `EvidenceExport`.
`decided_at` is the number of the decision: a wall clock that does not go back.
Reading tools change nothing; a caller's knowledge is the `expected` version,
any version from 0 to `MaxVersion`.

`VerificationGate` has rounds: opened, reported on, ended `VERIFIED` only by a
PASS of the same round, never opened again once a signature failed three times.
Under `ImplementsGate` a round is open in `VERIFYING` and `READONLY_VERIFYING`
and verified in `RELEASE_READY` and `READONLY_VERIFIED`; `passed` is the presence
of a PASS row of the current version; the counters are counts of rows.

### The oracle

`WorkerOracle` is `packages/team-leader/scripts/state_machine.py`: `file[t]` is
the `state.json` of task `t`, and `InitState`, `Transition`, `RequestApproval` and
`Approve` are its four commands, each of which ends in one `os.replace`. Its
tables are a copy of `state_machine_def.py`, so `StateMachineDef` stands for both.

It serves as an abstract specification. `OracleAccepts` says that the calls the
authority commits, replayed by the oracle, succeed one after another and lead to
the same state, version, log and decisions. Under the mapping the oracle sees a
task's row, its log and the approvals made in the state they are for; it does not
see approvals asked for one transition ahead (it has none), artifacts, or reports
counted by the breaker. The authority refuses more; that it commits nothing the
oracle refuses is the property. In particular nobody decides, through the
one-version-ahead window, an approval the oracle would call stale.

### The export

`EvidenceExport` adds a reader to `StateAuthority`. `call` is the tool call in
progress with the SELECTs it still has to send, `copy` the rows it has read:
`copy["pack"]` is what is returned and `copy["check"]` what
`validate_evidence_pack` reads again for itself. The writing tools run between
any two reads.

| Action | Code | Notes |
|---|---|---|
| `Call` | `evidence_pack`, with or without `validate`, `state_describe` | a task without a row raises |
| `Read` | one SELECT, on an autocommit connection | task, events, approvals, artifacts, in that order; for `state_describe` task, artifacts, reports |
| `RecordSideEffect` | `record_side_effect_intent`, `record_side_effect_result` | what these leave in the log of a task, in whatever state it is: a row of `effect_events` |

One call at a time is enough: a reader changes no table and shares nothing with
another reader. An `ARTIFACT_` or `APPROVAL_` event retells a row of its own
transaction, so the SELECT on events also keeps the artifacts and approvals of
its moment as what the log announces (`told_artifacts`, `told_approvals`), and the
ledger's rows as `told_effects`.
`Seen(c)` is `StateAuthority` applied to a copy, so that a pack is judged by the
definitions the authority itself uses, `PackValid` among them.

### The ledger

`ledger[k]` is the row of key `k` in `side_effects`; a key stands for a task and
an `idempotency_key`, an intent for a kind and an intent payload. `results`
collects the `SIDE_EFFECT_RESULT` events.

| Action | Code | Notes |
|---|---|---|
| `RecordIntent` | `record_side_effect_intent` | same key, same intent: the old row is returned; same key, other intent: refused. The reply may be lost |
| `Consult` | `list_side_effects` | a recovering run reads a row |
| `RecordResult` | `record_side_effect_result` | writes the status whatever it was before |
| `Begin`, `Skip`, `Perform`, `SendResult`, `Timeout`, `Finish`, `Crash` | external | a worker, as the docstrings of the tools tell it to behave |
| `LoseCall` | external | a result call that never arrives |

The code that performs effects is not in the repository (workers are LLM agents),
so runs and world are marked external. A run records the intent, is told the
status of the row, leaves an `EXECUTED` effect alone and performs any other, and
reports the outcome. A result call stays in `calls` until it arrives or is lost,
even when its run has crashed or has called again. `fence` says what holds runs
apart, and is chosen once, among `Fences`: nothing (`"none"`); a run begins only
when no other is alive (`"exclusive"`), or moreover only when no earlier call is
under way (`"drained"`). The code enforces none of this. A property that takes a
fence names it, and the others hold for runs that overlap.

### The demo pipeline

`run_demo` is one thread, so its state-changing statements are kept as a list,
`todo`, and there is one action per kind of statement that takes the first:
`Transition`, `Checkpoint`, `PublishArtifact`, `RecordEvidence`,
`RequestApproval`, `DecideApproval`, `PrepareWorkspaces`, `ApplyPatch`,
`CopyToVerifier`, `ExecuteElsewhere`, `RunVerification`, `JudgeAttempt`,
`TruncatePack`, `FillPack`. `Transition` puts the checkpoint that
always follows it on the list. A statement that would raise (an edge that is
not allowed, an agent without the state, a patch whose target is gone, an
approval that is not pending) is not enabled, so the run hangs in the model: `NothingRefused` and `Terminates` fail.

`Die` kills the process between any two statements, the two halves of
`write_pack` included, which leaves a torn file; the checkpoint row, the pack
file and the workspaces survive. `RunAgain` starts the demo for the same task
with any provider. The suites pass, fail or time out (a timeout reads as `fail`);
the live provider has no workspace and its verdicts are `unknown`.

### The skill library

`file` holds the trace files and the matrix; `draft[d]` is a candidate somebody
holds; `writer[p]` is the `write_text` of process `p`, which is what makes a call
last longer than a step.

| Action | Code | Notes |
|---|---|---|
| `Ingest` | `TracePool.ingest` | a later pack of the same task replaces the file |
| `Distill` | `distill`: proposal, merge, scans, evaluation | raises when any trace file does not parse, no record is left, or a passed pack comes from `evidence_pack` |
| `Review` | `record_human_review` | only a candidate that passed its evaluation |
| `Publish`, `Rollback` | `publish`, `rollback` up to the write | computed from the matrix as it was read |
| `Truncate`, `Write` | `write_text`: open and empty, then fill and return | two processes that have emptied the same file may leave a mixture |
| `Crash` | a process dies | before it opens the file, while it writes, or before it returns |

The gates of distillation keep their conditions and lose their texts: of a
signature the model keeps its title (cut at 48 characters), whether the scans
find it, which pattern titles hold its topic, and which patterns have its topic.
`Review` stands for the outcome of a review, not for its form. `distill` reads
each trace once, and no property relates two traces, so it is a single step. The
fidelity check is not stated: without a hard conflict the merged document holds
every title. A pack's `published` says where its `ARTIFACT_PUBLISHED` events have
the artifact type: at their top level (`"named"`), as in the packs the tests write
by hand, or inside the payload (`"exported"`), as in those `evidence_pack`
returns. The success analyst looks at the top level only. It finds a sequence in a
named pack, and raises on an exported one that passed (`SequenceRaises`). Checkers handed in by a caller are not modelled, and neither is
`evaluate_candidate` called on a blocked candidate, which would set its status
anew: outside the tests `distill` is its only caller, and calls it only on
candidates that are not blocked.

### Seeded definitions

Definitions marked `Seeded:` are plausible wrong versions of the definition after
them. No specification uses them; each is known to break a property, which shows
that the property can fail.

## 3. What TLC checks

| Run | Expect | Properties | Instance |
|---|---|---|---|
| `verification_rounds` | pass | `ChainIntact`, `WrittenWhereAllowed`, `VerifiedByPass`, `RetriesBounded`, `VerifiedPackValid`, `ImplementsGate` | one task, versions to 8, four reports |
| `approvals_two_tasks` | pass | `TypeOK`, `DecidedWhileCurrent`, `BundlesInScope`, `PatchedFromLastApproval`, `DecisionsFinal`, `OracleAccepts` | two tasks (symmetric), versions to 4, two approvals, two scopes |
| `standard_path` | pass | `ReleasedFromLastApproval` | one task, versions to 11, two approvals, three artifacts |
| `ledger_recovery` | pass | `EffectsAsIntended`, `RepeatedOnlyByCrash`, `CompletedNotRepeated` | two runs, two keys, two intents (symmetric), any fence; two crashes and four effects when drained, else one and three |
| `demo_runs` | pass | `CheckpointFollows`, `VerifierSeesPatch`, `NothingRefused`, `EndsDecided`, `Terminates` | all three providers, three processes |
| `evidence_export` | pass | `TornForwardOnly`, `EventsBacked`, `InvalidOnlyIfTorn`, `VerdictCarriesOver`, `VerdictStands`, `ClosedPackSettled`, `AdviceHolds` | one task, versions to 4, three reports, or one report and one approval or side effect, one reader |
| `skill_library` | pass | `TypeOK`, `VersionsCoherent`, `PublishedVetted`, `LessonsGrounded`, `AckedKept` | two processes (symmetric), one skill, one draft, seven packs of which two are ingested, three publications, one rollback |
| `unapproved_patch` | violation | `PatchedOnlyWithApproval` | versions to 4 |
| `distill_close` | violation | `NothingToDistillSaidByLead` | versions to 6 |
| `ledger_late_result` | violation | `CompletionTold` | two runs, one key, one crash; fence `"exclusive"` |
| `exported_packs` | violation | `PoolDistills` | the packs of `skill_library` that are exported: one passed, two failed |
| `demo_release_reason` | violation | `ReleasedWithBothSuites` | fixture provider, one process |

**Fairness.** Only the pipeline has any. Workers, humans, readers and the callers
of the library may stop at any time, and every property there is one of safety.
`Pipeline` has `WF_vars(Step)`: `run_demo` is a single thread that waits for
nobody, the suites are cut off after 30 s and the live provider after 120 s, so
while its process lives it takes its next statement. `Die` and `RunAgain` have no
fairness: nobody has to kill the process or to start it again, and a run that dies
has ended as far as `Terminates` is concerned.

Deadlock is checked in `skill_library`, where some call is always possible (a pack
that was ingested may be ingested again). Elsewhere it is not: a closed task, a
task at a bound, a demo nobody runs again rightly have no successor. For the
pipeline `Terminates` takes its place, as it forbids a live run that is stuck.

**Bounds of the authority.** The history of a task is part of its state, so each
run asks for the transitions (`Requests`, pairs of actor and target) of one region
of the graph and goes deep there. `RECOVERING` reaches any region in two steps,
which the first two runs use. Version 8 is the first at which a fourth
verification round could open, and four reports the first number at which a
breaker one too late shows. Version 4 is one transition past the approval gate
reached through `RECOVERING`; two approvals are needed for one to be passed over,
two tasks for one to be taken for the other. Version 9 is the release on the
standard path and 11 the shortest release after a second plan and approval; that
run has no `RECOVERING`, since with it `ReleasedFromLastApproval` says nothing.

**Bounds of the ledger.** Two keys and two intents are the least with which a key
can be used for the wrong intent. Two crashes and four effects let a key be
performed once more than `RepeatedOnlyByCrash` allows, with an effect left for
the other key. Two runs are enough there, since they begin one at a time. Runs that
are not drained overlap; `FewOverlaps` follows them for three effects and one
crash. Two runs with two intents on one key are what it takes for one to perform
what the other recorded.

**Bounds of the pipeline.** The loop of `run_demo` makes two attempts whatever
happens; three processes are one that dies, one that finds what it left, and one
that finds what both left. Nothing else is unbounded.

**Bounds of the export.** The requests are the read-only path from `RECOVERING` to
`CLOSED` and rounds that end in `RECOVERING` again; version 4 is the first at
which a task is closed on it, so every pair of moments of a pack may be told
apart. Three reports are what trips the breaker between two reads of
`state_describe`; an approval is needed for a pack to announce a decision it does
not show. Approvals are asked for `EVIDENCE_PACKED`, where one may be pending when the
task is closed and be asked for one version ahead, and for `CLOSED`, where one may
still be asked for and decided. The constraint `FewRows` keeps three reports in a
history, or one with an approval or with a side effect, and not all of these; no
property relates reports to approvals (no bundle can cite one that is asked for
these states) or either to side effects.

**Bounds of the library.** The packs are one for each gate: a pass, a pass whose
signature echoes a pattern, one that contradicts it, a pass that was exported, a
failure with an escalation, two signatures with one title, a signature that is
sensitive. Two ingested packs
are the least with which a trace is replaced after it was used, or a candidate
has two sources. Three publications and one rollback are the least that take a
number twice and go on. The constraint `FewSteps` lets calls overlap only while
there is at most one pack and one version, and looks at later versions and at a
second pack with one call at a time: an overlapping call writes what it computed
from one earlier content, so a longer history adds no new way to lose an entry.

What the runs of the export and the library show, beyond "the properties hold":

- A pack can only be torn forward. Its log may go on after its task row, its rows
  may go on after its log, and never the reverse; the order of the SELECTs is what
  ensures it, and each other order tried breaks a property.
- A verdict returned with a pack is about another copy. It carries over when both
  copies show one version and the task is verified or closed. In other states a
  valid verdict may stand beside a torn pack.
- What the pack of a closed task says was done is the last word: its chain, its
  artifacts and the approvals not asked for `CLOSED` itself stay as they are
  (`ClosedPackSettled`). Its log is not final. `request_approval` and the ledger's
  tools ask for no state, so they still write to the log of a closed task, and an
  approval asked for `CLOSED` may still be decided there.
- The matrix has no lock: an acknowledged publication may be lost, and the file
  may be left unreadable, but only when calls overlapped or a writer died
  (`AckedKept`). A matrix that parses is always a possible history, in which a
  number is taken twice only after a rollback below it (`VersionsCoherent`).
- `state_describe` and the authority agree about the breaker as long as the
  worker's version passes the compare-and-swap (`AdviceHolds`): reports are
  written in the verifying states, which no guarded transition leaves, so a count
  moves only at versions at which there is no advice about the breaker to follow.
- Its criterion for `AWAITING_APPROVAL -> PATCHED` (native_mcp.py:249) speaks of
  an approval bound to a bundle; the code asks for the last one. This is wording
  and no run is about it.

The five violations are disagreements between the code and its documents:

- *Mandatory approval* (README.md:196). `RECOVERING` leads to `PATCHED` and to
  `VERIFYING`, and the approval is asked for on the edge `AWAITING_APPROVAL ->
  PATCHED` only. `ReleasedFromLastApproval` is what does hold: without
  `RECOVERING`, a release rests on the last approval.
- *The lead confirms there is nothing to distill* (state_machine_def.py:130).
  The marker is accepted from the postmortem worker.
- *A recovered run never repeats a completed effect* (native_mcp.py:329). A run
  performs the effect, sends `EXECUTED` and dies; the run that recovers it consults
  the ledger before that call arrives, is told `INTENT`, tries again and fails. The
  late `EXECUTED` is written, the `FAILED` of the living run overwrites it
  (native_mcp.py:321), and the next run is told `FAILED`. What does hold is
  `CompletedNotRepeated`, when earlier calls have drained, and
  `RepeatedOnlyByCrash`: a crash between acting and recording is the one way
  left to perform an effect twice.
- *Evidence packs of closed tasks accumulate and are distilled* (skill_distill.py:8,
  README.md:137). The success analyst reads `artifact_type` where only packs
  written by hand have it (skill_distill.py:134). An exported pack that passed
  gives a sequence of `None`, and `distill` raises (skill_distill.py:148).
- *Public and hidden checks pass* (pipeline.py:142, README.md:205). The loop
  looks at the hidden verdict only.

## 4. What is proved

Seven modules hold the theorems. Three prove what the runs check of
`StateAuthority`, for every set of tasks, files, signatures, requests and every
bound (assumptions: `BoundsAssumption`, the bounds are naturals;
`InputsAssumption`, requests and types are drawn from the tables).

`StateAuthorityProofs`:

- `TypeCorrect`: `Spec => []TypeOK`. One lemma per tool.
- `LogRebuildsTask`: `Spec => []ChainIntact`. `ChainIntact` is not inductive: it
  does not say that the log has one row more than the version, nor that every
  row after the first is a transition, and without them the row a transition
  appends could land at another place than its version says. `ChainInv` adds
  both, and an empty log for a task that does not exist. The step of `Transition`
  splits the rows into the new one, linked by the compare-and-swap and by the
  old `state = StateAt(version)`, and the old ones, on which `StateAt` does not
  change. The other tools leave the three variables alone.

`AuthorityHistoryProofs` begins with what no step takes back: the log, the
artifact rows and the decisions only grow, and the state at an old version is
read from the same rows (`LogKept`, `RowsKept`, `DecisionsKept`). What is said of
old rows then stays true, and each property is left with its newest row:

- `DecisionsAreFinal`: `Spec => DecisionsFinal`, an action property.
- `ArtifactsBelong`, `VerifiedByOwnRound`, `DecidedOnTheTaskShown`,
  `PatchesStayInScope`, `LastApprovalIsPatched`: `Spec => []P` for
  `WrittenWhereAllowed`, `VerifiedByPass`, `DecidedWhileCurrent`, `BundlesInScope`
  and `PatchedFromLastApproval`. They are inductive together with `ChainInv` and
  with `NothingEarly` (no row and no approval of a task that does not exist), as
  `HistoryInv`. The last one is the hardest: a version that was left is never
  decided on or written at again, so the approvals and bundles at that version are
  as they were when the gate looked at them.
- `RetriesAreBounded`: `Spec => []RetriesBounded`. `RetriesBounded` counts rounds
  and the breaker counts rows. `BreakerInv` says that a round that is open has
  fewer than three earlier rounds with the same signature, which the guard of
  `Transition` gives when it opens (no more rounds than rows), and that further
  reports of the same round do not change.
- `VerifiedPacksValidate`: `Spec => []VerifiedPackValid`. The validator never
  looks at how a task got where it is, so `PackInv` collects what it asks for:
  rows have their fields, an approval that was given has evidence, a task that
  stands verified has a PASS row (`Vouched`), and one that was packed has been
  `READONLY_VERIFIED`.
- `ReleasesRestOnApproval`: `Spec => []ReleasedFromLastApproval`. `AnchoredInv` is
  the same statement for every state between the gate and the release (`PATCHED`,
  `VERIFYING`, `RELEASE_READY`), and that `RETRYABLE_FAILURE` is never entered: it
  has an edge to `PATCHED`, and no identity owns it.

`AuthorityRefinementProofs`:

- `GateImplemented`: `Spec => Gate!Spec`, the refinement of `VerificationGate`. A
  transition opens, ends or shuts a round, a report is a report of the open round
  (its rows are counted one more, `FailRows`), and every other call is a stutter.
  From `HistoryInv` it takes that no row carries a version the task has not
  reached, so that a round that opens has no report of its own.
- `OracleAcceptsAll`: `Spec => Oracle!Spec`, the refinement of `WorkerOracle`.
  Every committed transition, and each decision on an approval the oracle knows,
  is a step of the oracle with the same arguments; everything else is a stutter.
  `OracleInv` adds to `HistoryInv` that a task without a row has version 0 and
  that approvals stay within their bound.

`SideEffectLedgerProofs` proves, for every set of runs, keys and intents and every
bound (assumption: `LedgerAssumption`, the bounds are naturals and `Fences` are
among the three):

- `LedgerTypeCorrect`: `Spec => []TypeOK`.
- `EffectsAnnounced`: `Spec => []EffectsAsIntended`, for every fence, hence also for
  runs that overlap and calls that come late. The invariant `LedgerInv` adds to it that a busy run holds the intent of
  the row of its key (`IntentKnown`), which survives the steps of other runs
  because a recorded intent is never replaced, and that what a run reports is an
  outcome (`DoneOutcome`).
- `FencedRunsDoNotRepeat`: `Spec => CompletedNotRepeated`, which speaks of drained
  runs. Only the status a run was told keeps it from performing,
  so the invariant `FenceInv` says that once a completion is recorded, the row,
  every call and every run on that key say `EXECUTED` (`CompletionStands`). A late
  call would break this, so at most one run is alive (`OneAlive`), at most
  one call is under way (`OneCall`), and it is the call of the run that is alive,
  with the outcome that run holds (`CallsOfTheLiving`). `Begin` is the step where
  the fence is needed.
- `CrashesBoundRepetition`: `Spec => []RepeatedOnlyByCrash`, which speaks of drained
  runs too. `RepeatInv` does the accounting: every performance that
  stands is paid for by a crash, except one, which is recorded as `EXECUTED` or
  held by a run that is alive. `Perform` is allowed only when neither is the case
  (`FenceInv`); `Crash` turns a held one into a paid one.

`SkillLibraryProofs` proves, for every number of processes, skills, packs, drafts
and versions (assumptions: `BoundsAssumption`; `InputsAssumption`, packs are
records of their types, the matrix is not a trace file, a signature is not a
pattern, and the tables of titles, echoes and contradictions are of their types):

- `LibraryTypes`, `AlwaysCoherent`, `OnlyVettedPublished`, `LessonsStayGrounded`:
  `Spec => []P` for `TypeOK`, `VersionsCoherent`, `PublishedVetted` and
  `LessonsGrounded`. With no lock anything a process has read may be stale when it
  writes, so a property of the file alone cannot be inductive. Each one is made a
  property of one entry as a value (`EntryGood`), which `Publication` and
  `RolledBack` preserve (`PublishedGood`, `RolledBackGood`; `Outrun` adds that a
  version above the current one was left behind by a rollback). `LibraryInv` says
  that every value anywhere is good: in a file, found by a writer, about to be
  written, drafted. Whoever writes in between, what lands is one of these.
- `ReturnedIsKept`: `Spec => []AckedKept`. `AckInv` adds, as long as no two calls
  have overlapped: at most one process rewrites the matrix, the file is torn then
  and only then, or after a death, and what that process found holds everything
  acknowledged before.

`EvidenceExportProofs` extends `AuthorityHistoryProofs` and proves, for every set of
tasks, requests and bounds (`EffectsAssumption`: the bound added is a natural),
`ExportSpec => []P` for all seven properties of the
export: `PacksTearForward` (`TornForwardOnly`), `LogsAreBacked` (`EventsBacked`),
`FalseAlarmsAreTorn` (`InvalidOnlyIfTorn`), `VerdictsCarryOver`
(`VerdictCarriesOver`), `VerdictsStand` (`VerdictStands`), `ClosedPacksAreSettled`
(`ClosedPackSettled`), `AdviceIsSound` (`AdviceHolds`). The tables of a task only grow
(`TablesGrow`), so `ReaderInv` says of each SELECT that its copy is a prefix of the
table as it is now, and of each pair of SELECTs what the later shows of the
earlier: the log reaches the row, the rows reach the log, the log of the
validation is no shorter than that of the pack. What the authority guarantees of
the moments themselves comes from `ChainInv` and `PackInv`, the invariants of the
modules before: together they are `ExportInv`. For a closed task it adds (`Settled`):
its row stays, and so do its approvals that were not asked for `CLOSED`, because a
decision is due in the state the approval names (`ClosedSettles`, `SettledTrans`). `SeenTables`, `SeenReplays` and
`SeenPackValid` say that the authority's rules, instantiated on a copy, are the same
rules on the rows of the copy.

`PipelineProofs` proves, for every set of providers and any number of processes
(assumption: `PipelineAssumption`):

- `CheckpointsFollow`, `VerifiersSeePatches`, `RunsAreNotRefused`, `RunsEndDecided`:
  `Spec => []P` for `CheckpointFollows`, `VerifierSeesPatch`, `NothingRefused` and
  `EndsDecided`. `run_demo` is straight-line code between its two decisions, so
  `PipelineInv` says where a run is: `todo` is what is left of one of four plans
  after `k` of its `n` statements (`OnPlan`), and the state of the task, the number
  of verdicts, bundles and reports, the approval and the two workspaces are what
  the first `k` statements make of them (`At`). The checkpoint is that of the last
  transition, or of the last but one while its `Save` is pending (`Checkpointed`).
  `PlanFits` goes through the statements of the plans once, and shows of each that
  it is legal where it stands; `EffectAdvances` then takes a run from place `k` to
  `k + 1`, whichever statement it executes, and `Judged` and `NewPlan` from the end
  of one plan to the start of the next. `RunsAreNotRefused` is the safety half of
  `Terminates`: the statement that is next is always enabled.

Every invariant, action property and refinement that a passing run checks is thus
proved. Model-checked only: `Terminates`, the one liveness property, which
is out of the prover's reach with anything about fairness and `ENABLED`. From
`NothingRefused` and the plans, which are finite, it is clear to a reader that it
holds for all values of the constants, but that last step is not machine-checked.
The violations are counterexamples, and TLC's alone.

## 5. Not modelled, and the plan

Nothing that changes shared state is left to be modelled, with one exception: the
local control plane is modelled as `run_demo` calls it. Several approvals,
rejections and other callers are left out, because `run_demo` is its only caller
in the repository; there an approval names a state without a version, and would
be accepted at a later visit to that state. In `Pipeline` a half-deleted
workspace is not told from a complete one, and the retrieval of skills, which
changes nothing, is left out.

Said by the documentation and not checked: README.md:100 has `RECOVERING` preserve
the version and resume at the exact breakpoint. The move raises the version like
any other, and the interrupted state is in the log only (native_mcp.py:382).

A module of clients with lost replies and retries is not needed on top of
`StateAuthority`: its callers know any version and make any call at any time, so a
repeated or a late call is one more call.

Left out for good: tokens, HTTP and JSON-RPC framing, the wording of
`state_describe` other than its report on the breaker, the text synthesis of skill
patches, the CLI, configuration loading, the toy service under repair: they hold
no state others depend on. Overlapping commands of the oracle are not modelled,
since its package keeps it offline.
