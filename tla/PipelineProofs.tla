--------------------------- MODULE PipelineProofs ---------------------------
(***************************************************************************)
(* Theorems about Pipeline: whatever the suites report and wherever        *)
(* earlier processes died, a run of the demo is refused nothing, leaves a  *)
(* checkpoint of its own, verifies what it patched and ends decided.       *)
(*                                                                         *)
(* run_demo is straight-line code between its two decisions, so what holds *)
(* is a matter of how much of the present plan has been executed.          *)
(***************************************************************************)
EXTENDS Pipeline, FiniteSetTheorems, SequenceTheorems, TLAPS

-----------------------------------------------------------------------------
(* Plans                                                                   *)

Loop   == {"first", "second"}
Stages == Loop \union {"released", "given_up"}

\* What run_demo executes from its start, or from one verdict to the next.
Plan(p, stage) ==
  CASE stage = "first"    -> UpToPatched \o Attempt(p, 1)
    [] stage = "second"   -> <<Move("PATCHED", "executor")>> \o Attempt(p, 2)
    [] stage = "released" -> Released
    [] stage = "given_up" -> <<Move("PATCHED", "executor")>> \o GivenUp

\* The state of the task after the first k of the n statements of a plan.
InFirst(n, k) ==
  CASE k <= 1          -> "RECEIVED"
    [] k \in 2..3      -> "FUSED"
    [] k \in 4..5      -> "TRIAGED"
    [] k \in 6..7      -> "BOOTSTRAPPED"
    [] k \in 8..9      -> "LOCATED"
    [] k \in 10..12    -> "PLANNED"
    [] k \in 13..14    -> "AWAITING_APPROVAL"
    [] k \in 15..n - 5 -> "PATCHED"
    [] k > n - 5       -> "VERIFYING"

InSecond(n, k) == IF k \in 1..n - 5 THEN "PATCHED" ELSE "VERIFYING"

InReleased(k) ==
  CASE k = 0      -> "VERIFYING"
    [] k = 1      -> "RELEASE_READY"
    [] k \in 2..4 -> "POSTMORTEM"
    [] k = 5      -> "SKILL_DISTILLING"
    [] k >= 6     -> "CLOSED"

InGivenUp(k) ==
  CASE k = 0 -> "VERIFYING" [] k = 1 -> "PATCHED" [] k >= 2 -> "NEEDS_HUMAN"

Reached(stage, n, k) ==
  CASE stage = "first"    -> InFirst(n, k)
    [] stage = "second"   -> InSecond(n, k)
    [] stage = "released" -> InReleased(k)
    [] stage = "given_up" -> InGivenUp(k)

-----------------------------------------------------------------------------
(* Invariants                                                              *)

PlainOps ==
  {"evidence", "save", "request", "approve", "prepare", "patch", "copy", "execute", "verify",
   "judge", "open", "write"}

Agents == DOMAIN PIPELINE_AGENTS

Statements ==
  [op : PlainOps] \union [op : {"move"}, target : States, actor : Agents]
                  \union [op : {"publish"}, type : ArtifactTypes]

TaskRecords ==
  [state : States, version : Nat, artifacts : Seq(ArtifactTypes), evidence : Nat,
   approval : {"NONE", "PENDING", "APPROVED"}]

Outcomes == {"pass", "fail", "unknown"}
Results  == [public : Outcomes, hidden : Outcomes]

\* A transition puts its checkpoint before what is left of the plan.
SavePending == todo # << >> /\ Head(todo).op = "save"
Left        == IF SavePending THEN Tail(todo) ELSE todo

PipelineTypes ==
  /\ provider \in Providers
  /\ phase \in {"running", "dead", "ended"}
  /\ todo \in Seq(Statements)
  /\ attempt \in 1..2
  /\ verdicts \in Seq(Results)
  /\ task \in TaskRecords
  /\ saved = Nothing \/ saved \in TaskRecords
  /\ phase = "running" => Left # << >>

\* The checkpoint is the task of the last transition but one, or of the last one.
Checkpointed ==
  /\ task.version = 0 => task.state = "RECEIVED"
  /\ SavePending => task.version > 0
  /\ task.version > (IF SavePending THEN 1 ELSE 0) =>
       /\ saved \in TaskRecords
       /\ saved.version = task.version - (IF SavePending THEN 1 ELSE 0)
       /\ Len(saved.artifacts) <= Len(task.artifacts)
       /\ \A i \in 1..Len(saved.artifacts) : task.artifacts[i] = saved.artifacts[i]
       /\ ~SavePending => saved.state = task.state

\* What is left of a plan when k of its n statements have been executed.
IsLeft(p, left, stage, n, k) ==
  /\ n = Len(Plan(p, stage))
  /\ k \in 0..n /\ Len(left) = n - k
  /\ \A i \in 1..n - k : left[i] = Plan(p, stage)[k + i]

OnPlan(stage, n, k) == IsLeft(provider, Left, stage, n, k)

CountIn(rows, type) == Cardinality({i \in DOMAIN rows : rows[i] = type})
Count(type)         == CountIn(task.artifacts, type)

\* How many of this round's verdicts, bundles and reports there are.
Counted(stage, n, k) ==
  IF stage \in Loop
  THEN /\ attempt = IF stage = "first" THEN 1 ELSE 2
       /\ Len(verdicts) = IF k <= n - 4 THEN attempt - 1 ELSE attempt
       /\ Count("PatchBundle") = IF k <= n - 6 THEN attempt - 1 ELSE attempt
       /\ Count("VerificationReport") = IF k <= n - 2 THEN attempt - 1 ELSE attempt
  ELSE /\ Len(verdicts) > 0
       /\ Count("PatchBundle") = Len(verdicts) /\ Count("VerificationReport") = Len(verdicts)
       /\ Passed <=> stage = "released"

\* Where the approval stands.
Asked(stage, k) ==
  /\ stage = "first" /\ k \in 12..13 => task.approval = "PENDING"
  /\ stage # "first" \/ k >= 14 => task.approval = "APPROVED"

\* Where the patches are, when the run works on workspaces.
Worked(stage, n, k) ==
  provider = "fixture-local" /\ stage \in Loop =>
    /\ k = n - 9 \/ (stage = "second" /\ k <= n - 9) => workspace = 1..attempt - 1
    /\ k >= n - 8 => workspace = 1..attempt
    /\ k >= n - 7 => verifier = workspace

At(stage, n, k) ==
  /\ OnPlan(stage, n, k)
  /\ task.state = Reached(stage, n, k)
  /\ Counted(stage, n, k) /\ Asked(stage, k) /\ Worked(stage, n, k)

PipelineInv ==
  /\ PipelineTypes /\ Checkpointed
  /\ \E stage \in Stages : \E n, k \in 0..30 : At(stage, n, k)
  /\ phase = "ended" => EndsDecided

-----------------------------------------------------------------------------
(* The statements of the plans                                             *)

\* What the proofs need of statement s, executed after k of the n of its plan.
Fits(p, stage, n, k, s) ==
  /\ s.op # "save"
  /\ Reached(stage, n, k + 1) = IF s.op = "move" THEN s.target ELSE Reached(stage, n, k)
  /\ s.op = "move" => /\ s.target \in States
                      /\ s.target \in TRANSITIONS[Reached(stage, n, k)]
                      /\ s.target \in PIPELINE_AGENTS[s.actor]
  /\ s.op = "publish" => s.type \in ArtifactTypes
  /\ s.op = "request" <=> stage = "first" /\ k = 11
  /\ s.op = "approve" <=> stage = "first" /\ k = 13
  /\ s.op = "verify" <=> stage \in Loop /\ k = n - 4
  /\ s.op = "judge" <=> stage \in Loop /\ k = n - 1
  /\ s.op = "write" <=> stage \notin Loop /\ k = n - 1
  /\ s.op = "publish" /\ s.type = "PatchBundle" <=> stage \in Loop /\ k = n - 6
  /\ s.op = "publish" /\ s.type = "VerificationReport" <=> stage \in Loop /\ k = n - 2
  /\ s.op = "prepare" <=> p = "fixture-local" /\ stage = "first" /\ k = n - 10
  /\ s.op = "patch" <=> p = "fixture-local" /\ stage \in Loop /\ k = n - 9
  /\ s.op = "copy" <=> p = "fixture-local" /\ stage \in Loop /\ k = n - 8

LEMMA StatementsTyped ==
  /\ Evidence \in Statements /\ Request \in Statements /\ Approve \in Statements
  /\ Prepare \in Statements /\ Patch \in Statements /\ Copy \in Statements
  /\ Execute \in Statements /\ Verify \in Statements /\ Judge \in Statements
  /\ OpenPack \in Statements /\ WritePack \in Statements /\ Save \in Statements
  /\ \A target \in States, actor \in Agents : Move(target, actor) \in Statements
  /\ \A type \in ArtifactTypes : Publish(type) \in Statements
<1>1. \A op \in PlainOps : [op |-> op] \in Statements
  BY DEF Statements
<1>2. \A target \in States, actor \in Agents : Move(target, actor) \in Statements
  BY DEF Statements, Move
<1>3. \A type \in ArtifactTypes : Publish(type) \in Statements
  BY DEF Statements, Publish
<1>4. Evidence \in Statements /\ Request \in Statements /\ Approve \in Statements
  BY <1>1 DEF Evidence, Request, Approve, PlainOps
<1>5. /\ Prepare \in Statements /\ Patch \in Statements /\ Copy \in Statements
      /\ Execute \in Statements /\ Verify \in Statements /\ Judge \in Statements
      /\ OpenPack \in Statements /\ WritePack \in Statements /\ Save \in Statements
  BY <1>1 DEF Prepare, Patch, Copy, Execute, Verify, Judge, OpenPack, WritePack, Save, PlainOps
<1> QED
  BY <1>2, <1>3, <1>4, <1>5

\* The states, agents and types of artifact that the plans name.
LEMMA NamesKnown ==
  /\ {"RECEIVED", "FUSED", "TRIAGED", "BOOTSTRAPPED", "LOCATED", "PLANNED",
      "AWAITING_APPROVAL", "PATCHED", "VERIFYING", "RELEASE_READY", "POSTMORTEM",
      "SKILL_DISTILLING", "CLOSED", "NEEDS_HUMAN"} \subseteq States
  /\ {"intake", "triage", "env_bootstrap", "repo_analyst", "plan", "executor", "verifier",
      "postmortem"} \subseteq Agents
  /\ {"IssueCluster", "RiskAssessment", "EnvironmentSnapshot", "RootCauseHypotheses",
      "ChangePlan", "PatchBundle", "VerificationReport", "SkillCandidate"}
       \subseteq ArtifactTypes
<1>1. \A x : x \in States <=> x \in DOMAIN TRANSITIONS
  BY DEF States
<1> QED
  BY <1>1 DEF TRANSITIONS, Agents, PIPELINE_AGENTS, ArtifactTypes, ARTIFACT_PRODUCERS

LEMMA Joined ==
  ASSUME NEW S, NEW a \in Seq(S), NEW b \in Seq(S)
  PROVE  /\ a \o b \in Seq(S) /\ Len(a \o b) = Len(a) + Len(b)
         /\ \A i \in 1..Len(a) : (a \o b)[i] = a[i]
         /\ \A i \in 1..Len(b) : (a \o b)[Len(a) + i] = b[i]
OBVIOUS

LEMMA FirstRows ==
  /\ UpToPatched \in Seq(Statements) /\ Len(UpToPatched) = 15
  /\ UpToPatched[1] = Evidence
  /\ UpToPatched[2] = Move("FUSED", "intake")
  /\ UpToPatched[3] = Publish("IssueCluster")
  /\ UpToPatched[4] = Move("TRIAGED", "triage")
  /\ UpToPatched[5] = Publish("RiskAssessment")
  /\ UpToPatched[6] = Move("BOOTSTRAPPED", "env_bootstrap")
  /\ UpToPatched[7] = Publish("EnvironmentSnapshot")
  /\ UpToPatched[8] = Move("LOCATED", "repo_analyst")
  /\ UpToPatched[9] = Publish("RootCauseHypotheses")
  /\ UpToPatched[10] = Move("PLANNED", "plan")
  /\ UpToPatched[11] = Publish("ChangePlan")
  /\ UpToPatched[12] = Request
  /\ UpToPatched[13] = Move("AWAITING_APPROVAL", "plan")
  /\ UpToPatched[14] = Approve
  /\ UpToPatched[15] = Move("PATCHED", "executor")
<1>1. UpToPatched \in Seq(Statements)
  <2>1. /\ Move("FUSED", "intake") \in Statements
        /\ Move("TRIAGED", "triage") \in Statements
        /\ Move("BOOTSTRAPPED", "env_bootstrap") \in Statements
        /\ Move("LOCATED", "repo_analyst") \in Statements
        /\ Move("PLANNED", "plan") \in Statements
        /\ Move("AWAITING_APPROVAL", "plan") \in Statements
        /\ Move("PATCHED", "executor") \in Statements
    BY StatementsTyped, NamesKnown
  <2>2. /\ Publish("IssueCluster") \in Statements /\ Publish("RiskAssessment") \in Statements
        /\ Publish("EnvironmentSnapshot") \in Statements
        /\ Publish("RootCauseHypotheses") \in Statements /\ Publish("ChangePlan") \in Statements
    BY StatementsTyped, NamesKnown
  <2> QED
    BY <2>1, <2>2, StatementsTyped DEF UpToPatched
<1> QED
  BY <1>1 DEF UpToPatched

\* The last seven statements of an attempt.
AttemptTail == << Evidence, Publish("PatchBundle"), Move("VERIFYING", "verifier"),
                  Verify, Evidence, Publish("VerificationReport"), Judge >>

LEMMA TailRows ==
  /\ AttemptTail \in Seq(Statements) /\ Len(AttemptTail) = 7
  /\ AttemptTail[1] = Evidence /\ AttemptTail[2] = Publish("PatchBundle")
  /\ AttemptTail[3] = Move("VERIFYING", "verifier") /\ AttemptTail[4] = Verify
  /\ AttemptTail[5] = Evidence /\ AttemptTail[6] = Publish("VerificationReport")
  /\ AttemptTail[7] = Judge
<1>1. AttemptTail \in Seq(Statements)
  <2>1. /\ Move("VERIFYING", "verifier") \in Statements
        /\ Publish("PatchBundle") \in Statements /\ Publish("VerificationReport") \in Statements
    BY StatementsTyped, NamesKnown
  <2> QED
    BY <2>1, StatementsTyped DEF AttemptTail
<1> QED
  BY <1>1 DEF AttemptTail

LEMMA ExecutionRows ==
  ASSUME NEW p, NEW m \in 1..2
  PROVE  /\ Execution(p, m) \in Seq(Statements)
         /\ p = "fixture-local" /\ m = 1 =>
              /\ Len(Execution(p, m)) = 3
              /\ Execution(p, m)[1] = Prepare /\ Execution(p, m)[2] = Patch
              /\ Execution(p, m)[3] = Copy
         /\ p = "fixture-local" /\ m = 2 =>
              /\ Len(Execution(p, m)) = 2
              /\ Execution(p, m)[1] = Patch /\ Execution(p, m)[2] = Copy
         /\ p # "fixture-local" =>
              Len(Execution(p, m)) = 1 /\ Execution(p, m)[1] = Execute
<1>0. /\ << >> \in Seq(Statements) /\ <<Prepare>> \in Seq(Statements)
      /\ <<Patch, Copy>> \in Seq(Statements) /\ <<Execute>> \in Seq(Statements)
  BY StatementsTyped
<1> HIDE DEF Statements
<1>1. /\ <<Prepare>> \o <<Patch, Copy>> \in Seq(Statements)
      /\ << >> \o <<Patch, Copy>> \in Seq(Statements)
  BY <1>0
<1>2. LET e == <<Prepare>> \o <<Patch, Copy>>
      IN Len(e) = 3 /\ e[1] = Prepare /\ e[2] = Patch /\ e[3] = Copy
  OBVIOUS
<1>3. LET e == << >> \o <<Patch, Copy>>
      IN Len(e) = 2 /\ e[1] = Patch /\ e[2] = Copy
  OBVIOUS
<1>4. LET e == <<Execute>> IN Len(e) = 1 /\ e[1] = Execute
  OBVIOUS
<1>5. CASE p = "fixture-local" /\ m = 1
  <2>1. Execution(p, m) = <<Prepare>> \o <<Patch, Copy>>
    BY <1>5 DEF Execution
  <2> QED
    BY <1>1, <1>2, <1>5, <2>1, Zenon
<1>6. CASE p = "fixture-local" /\ m = 2
  <2>1. Execution(p, m) = << >> \o <<Patch, Copy>>
    BY <1>6 DEF Execution
  <2>2. m # 1
    BY <1>6
  <2> QED
    BY <1>1, <1>3, <1>6, <2>1, <2>2, Zenon
<1>7. CASE p # "fixture-local"
  <2>1. Execution(p, m) = <<Execute>>
    BY <1>7 DEF Execution
  <2> QED
    BY <1>0, <1>4, <1>7, <2>1, Zenon
<1>8. m = 1 \/ m = 2
  OBVIOUS
<1> QED
  BY <1>5, <1>6, <1>7, <1>8

LEMMA AttemptRows ==
  ASSUME NEW p, NEW m \in 1..2
  PROVE  /\ Attempt(p, m) \in Seq(Statements)
         /\ Len(Attempt(p, m)) = Len(Execution(p, m)) + 7
         /\ \A i \in 1..Len(Execution(p, m)) : Attempt(p, m)[i] = Execution(p, m)[i]
         /\ \A i \in 1..7 : Attempt(p, m)[Len(Execution(p, m)) + i] = AttemptTail[i]
<1>1. PICK e, w : e = Execution(p, m) /\ w = AttemptTail
  OBVIOUS
<1>2. Attempt(p, m) = e \o w
  BY <1>1 DEF Attempt, AttemptTail
<1>3. e \in Seq(Statements) /\ w \in Seq(Statements) /\ Len(w) = 7
  BY <1>1, ExecutionRows, TailRows
<1>4. /\ e \o w \in Seq(Statements) /\ Len(e \o w) = Len(e) + Len(w)
      /\ \A i \in 1..Len(e) : (e \o w)[i] = e[i]
      /\ \A i \in 1..Len(w) : (e \o w)[Len(e) + i] = w[i]
  <2>1. e \in Seq(Statements) /\ w \in Seq(Statements)
    BY <1>3
  <2> QED
    BY <2>1, Joined
<1>5. 1..Len(w) = 1..7
  BY <1>3
<1> QED
  BY <1>1, <1>2, <1>3, <1>4, <1>5, Zenon

\* The statements up to the first patch are in their place.
LEMMA FirstFits ==
  ASSUME NEW p, NEW n, n = IF p = "fixture-local" THEN 25 ELSE 23, NEW k \in 0..14
  PROVE  Fits(p, "first", n, k, UpToPatched[k + 1])
<1>0. n \in {23, 25} /\ k \in 0..14
  OBVIOUS
<1> USE <1>0, FirstRows, NamesKnown
<1> USE DEF Fits, Loop, Reached, InFirst
<1>1. CASE k = 0
  BY <1>1 DEF Evidence
<1>2. CASE k = 1
  BY <1>2 DEF Move, TRANSITIONS, PIPELINE_AGENTS
<1>3. CASE k = 2
  BY <1>3 DEF Publish
<1>4. CASE k = 3
  BY <1>4 DEF Move, TRANSITIONS, PIPELINE_AGENTS
<1>5. CASE k = 4
  BY <1>5 DEF Publish
<1>6. CASE k = 5
  BY <1>6 DEF Move, TRANSITIONS, PIPELINE_AGENTS
<1>7. CASE k = 6
  BY <1>7 DEF Publish
<1>8. CASE k = 7
  BY <1>8 DEF Move, TRANSITIONS, PIPELINE_AGENTS
<1>9. CASE k = 8
  BY <1>9 DEF Publish
<1>10. CASE k = 9
  BY <1>10 DEF Move, TRANSITIONS, PIPELINE_AGENTS
<1>11. CASE k = 10
  BY <1>11 DEF Publish
<1>12. CASE k = 11
  BY <1>12 DEF Request
<1>13. CASE k = 12
  BY <1>13 DEF Move, TRANSITIONS, PIPELINE_AGENTS
<1>14. CASE k = 13
  BY <1>14 DEF Approve
<1>15. CASE k = 14
  BY <1>15 DEF Move, TRANSITIONS, PIPELINE_AGENTS
<1> HIDE FirstRows, NamesKnown
<1> HIDE DEF Fits, Loop, Reached, InFirst
<1> QED
  BY <1>1, <1>2, <1>3, <1>4, <1>5, <1>6, <1>7, <1>8, <1>9, <1>10, <1>11, <1>12, <1>13, <1>14, <1>15

\* How many statements a plan has.
Length(p, stage) ==
  CASE stage = "first"    -> IF p = "fixture-local" THEN 25 ELSE 23
    [] stage = "second"   -> IF p = "fixture-local" THEN 10 ELSE 9
    [] stage = "released" -> 8
    [] stage = "given_up" -> 4

LEMMA LengthKnown ==
  ASSUME NEW p, NEW stage \in Stages
  PROVE  /\ Length(p, stage) \in 4..25
         /\ stage \in Loop => stage = "first" \/ stage = "second"
BY DEF Length, Stages, Loop

LEMMA TailFits ==
  ASSUME NEW p, NEW stage \in Loop, NEW n, n = Length(p, stage), NEW j \in 1..7
  PROVE  Fits(p, stage, n, n - 8 + j, AttemptTail[j])
<1>0. \/ stage = "first" /\ (n = 25 \/ n = 23)
      \/ stage = "second" /\ (n = 10 \/ n = 9)
  BY DEF Loop, Length
<1>a. j \in {1, 2, 3, 4, 5, 6, 7}
  OBVIOUS
<1> USE NamesKnown DEF Fits, Loop, Reached, InFirst, InSecond
<1>1. /\ Fits(p, "first", 25, 18, Evidence)
      /\ Fits(p, "first", 23, 16, Evidence)
      /\ Fits(p, "second", 10, 3, Evidence)
      /\ Fits(p, "second", 9, 2, Evidence)
  BY DEF Evidence
<1>2. /\ Fits(p, "first", 25, 19, Publish("PatchBundle"))
      /\ Fits(p, "first", 23, 17, Publish("PatchBundle"))
      /\ Fits(p, "second", 10, 4, Publish("PatchBundle"))
      /\ Fits(p, "second", 9, 3, Publish("PatchBundle"))
  BY DEF Publish
<1>3. /\ Fits(p, "first", 25, 20, Move("VERIFYING", "verifier"))
      /\ Fits(p, "first", 23, 18, Move("VERIFYING", "verifier"))
      /\ Fits(p, "second", 10, 5, Move("VERIFYING", "verifier"))
      /\ Fits(p, "second", 9, 4, Move("VERIFYING", "verifier"))
  BY DEF Move, TRANSITIONS, PIPELINE_AGENTS
<1>4. /\ Fits(p, "first", 25, 21, Verify)
      /\ Fits(p, "first", 23, 19, Verify)
      /\ Fits(p, "second", 10, 6, Verify)
      /\ Fits(p, "second", 9, 5, Verify)
  BY DEF Verify
<1>5. /\ Fits(p, "first", 25, 22, Evidence)
      /\ Fits(p, "first", 23, 20, Evidence)
      /\ Fits(p, "second", 10, 7, Evidence)
      /\ Fits(p, "second", 9, 6, Evidence)
  BY DEF Evidence
<1>6. /\ Fits(p, "first", 25, 23, Publish("VerificationReport"))
      /\ Fits(p, "first", 23, 21, Publish("VerificationReport"))
      /\ Fits(p, "second", 10, 8, Publish("VerificationReport"))
      /\ Fits(p, "second", 9, 7, Publish("VerificationReport"))
  BY DEF Publish
<1>7. /\ Fits(p, "first", 25, 24, Judge)
      /\ Fits(p, "first", 23, 22, Judge)
      /\ Fits(p, "second", 10, 9, Judge)
      /\ Fits(p, "second", 9, 8, Judge)
  BY DEF Judge
<1> HIDE NamesKnown DEF Fits, Loop, Reached, InFirst, InSecond
<1>8. CASE stage = "first" /\ n = 25
  <2>1. \/ (j = 1 /\ n - 8 + j = 18) \/ (j = 2 /\ n - 8 + j = 19) \/ (j = 3 /\ n - 8 + j = 20)
        \/ (j = 4 /\ n - 8 + j = 21) \/ (j = 5 /\ n - 8 + j = 22) \/ (j = 6 /\ n - 8 + j = 23)
        \/ (j = 7 /\ n - 8 + j = 24)
    BY <1>a, <1>8
  <2> QED
    BY <1>1, <1>2, <1>3, <1>4, <1>5, <1>6, <1>7, <1>8, <2>1, TailRows, Zenon
<1>9. CASE stage = "first" /\ n = 23
  <2>1. \/ (j = 1 /\ n - 8 + j = 16) \/ (j = 2 /\ n - 8 + j = 17) \/ (j = 3 /\ n - 8 + j = 18)
        \/ (j = 4 /\ n - 8 + j = 19) \/ (j = 5 /\ n - 8 + j = 20) \/ (j = 6 /\ n - 8 + j = 21)
        \/ (j = 7 /\ n - 8 + j = 22)
    BY <1>a, <1>9
  <2> QED
    BY <1>1, <1>2, <1>3, <1>4, <1>5, <1>6, <1>7, <1>9, <2>1, TailRows, Zenon
<1>10. CASE stage = "second" /\ n = 10
  <2>1. \/ (j = 1 /\ n - 8 + j = 3) \/ (j = 2 /\ n - 8 + j = 4) \/ (j = 3 /\ n - 8 + j = 5)
        \/ (j = 4 /\ n - 8 + j = 6) \/ (j = 5 /\ n - 8 + j = 7) \/ (j = 6 /\ n - 8 + j = 8)
        \/ (j = 7 /\ n - 8 + j = 9)
    BY <1>a, <1>10
  <2> QED
    BY <1>1, <1>2, <1>3, <1>4, <1>5, <1>6, <1>7, <1>10, <2>1, TailRows, Zenon
<1>11. CASE stage = "second" /\ n = 9
  <2>1. \/ (j = 1 /\ n - 8 + j = 2) \/ (j = 2 /\ n - 8 + j = 3) \/ (j = 3 /\ n - 8 + j = 4)
        \/ (j = 4 /\ n - 8 + j = 5) \/ (j = 5 /\ n - 8 + j = 6) \/ (j = 6 /\ n - 8 + j = 7)
        \/ (j = 7 /\ n - 8 + j = 8)
    BY <1>a, <1>11
  <2> QED
    BY <1>1, <1>2, <1>3, <1>4, <1>5, <1>6, <1>7, <1>11, <2>1, TailRows, Zenon
<1> QED
  BY <1>0, <1>8, <1>9, <1>10, <1>11

LEMMA ExecutionFits ==
  ASSUME NEW p
  PROVE  /\ p = "fixture-local" =>
              /\ Fits(p, "first", 25, 15, Prepare) /\ Fits(p, "first", 25, 16, Patch)
              /\ Fits(p, "first", 25, 17, Copy)
              /\ Fits(p, "second", 10, 0, Move("PATCHED", "executor"))
              /\ Fits(p, "second", 10, 1, Patch) /\ Fits(p, "second", 10, 2, Copy)
         /\ p # "fixture-local" =>
              /\ Fits(p, "first", 23, 15, Execute)
              /\ Fits(p, "second", 9, 0, Move("PATCHED", "executor"))
              /\ Fits(p, "second", 9, 1, Execute)
<1> USE DEF Fits, Loop, Reached, InFirst, InSecond
<1>1. ASSUME p = "fixture-local"
      PROVE  /\ Fits(p, "first", 25, 15, Prepare) /\ Fits(p, "first", 25, 16, Patch)
             /\ Fits(p, "first", 25, 17, Copy)
  BY <1>1 DEF Prepare, Patch, Copy
<1>2. ASSUME p = "fixture-local"
      PROVE  Fits(p, "second", 10, 1, Patch) /\ Fits(p, "second", 10, 2, Copy)
  BY <1>2 DEF Patch, Copy
<1>3. ASSUME p # "fixture-local"
      PROVE  Fits(p, "first", 23, 15, Execute) /\ Fits(p, "second", 9, 1, Execute)
  BY <1>3 DEF Execute
<1>4. /\ Fits(p, "second", 10, 0, Move("PATCHED", "executor"))
      /\ p # "fixture-local" => Fits(p, "second", 9, 0, Move("PATCHED", "executor"))
  BY NamesKnown DEF Move, TRANSITIONS, PIPELINE_AGENTS
<1> HIDE DEF Fits, Loop, Reached, InFirst, InSecond
<1> QED
  BY <1>1, <1>2, <1>3, <1>4, Zenon

LEMMA ReleasedRows ==
  /\ Released \in Seq(Statements) /\ Len(Released) = 8
  /\ Released[1] = Move("RELEASE_READY", "verifier")
  /\ Released[2] = Move("POSTMORTEM", "postmortem")
  /\ Released[3] = Evidence /\ Released[4] = Publish("SkillCandidate")
  /\ Released[5] = Move("SKILL_DISTILLING", "postmortem")
  /\ Released[6] = Move("CLOSED", "postmortem")
  /\ Released[7] = OpenPack /\ Released[8] = WritePack
<1>1. Released \in Seq(Statements)
  <2>1. /\ Move("RELEASE_READY", "verifier") \in Statements
        /\ Move("POSTMORTEM", "postmortem") \in Statements
        /\ Move("SKILL_DISTILLING", "postmortem") \in Statements
        /\ Move("CLOSED", "postmortem") \in Statements
        /\ Publish("SkillCandidate") \in Statements
    BY StatementsTyped, NamesKnown
  <2> QED
    BY <2>1, StatementsTyped DEF Released
<1> QED
  BY <1>1 DEF Released

LEMMA ReleasedFits ==
  ASSUME NEW p, NEW k \in 0..7
  PROVE  Fits(p, "released", 8, k, Released[k + 1])
<1>0. k \in 0..7
  OBVIOUS
<1> USE <1>0, ReleasedRows, NamesKnown
<1> USE DEF Fits, Loop, Reached, InReleased
<1>1. CASE k = 0
  BY <1>1 DEF Move, TRANSITIONS, PIPELINE_AGENTS
<1>2. CASE k = 1
  BY <1>2 DEF Move, TRANSITIONS, PIPELINE_AGENTS
<1>3. CASE k = 2
  BY <1>3 DEF Evidence
<1>4. CASE k = 3
  BY <1>4 DEF Publish
<1>5. CASE k = 4
  BY <1>5 DEF Move, TRANSITIONS, PIPELINE_AGENTS
<1>6. CASE k = 5
  BY <1>6 DEF Move, TRANSITIONS, PIPELINE_AGENTS
<1>7. CASE k = 6
  BY <1>7 DEF OpenPack
<1>8. CASE k = 7
  BY <1>8 DEF WritePack
<1> HIDE ReleasedRows, NamesKnown
<1> HIDE DEF Fits, Loop, Reached, InReleased
<1> QED
  BY <1>1, <1>2, <1>3, <1>4, <1>5, <1>6, <1>7, <1>8

LEMMA GivenUpRows ==
  /\ GivenUp \in Seq(Statements) /\ Len(GivenUp) = 3
  /\ GivenUp[1] = Move("NEEDS_HUMAN", "verifier")
  /\ GivenUp[2] = OpenPack /\ GivenUp[3] = WritePack
<1>1. GivenUp \in Seq(Statements)
  <2>1. Move("NEEDS_HUMAN", "verifier") \in Statements
    BY StatementsTyped, NamesKnown
  <2> QED
    BY <2>1, StatementsTyped DEF GivenUp
<1> QED
  BY <1>1 DEF GivenUp

LEMMA GivenUpFits ==
  ASSUME NEW p
  PROVE  /\ Fits(p, "given_up", 4, 0, Move("PATCHED", "executor"))
         /\ Fits(p, "given_up", 4, 1, GivenUp[1]) /\ Fits(p, "given_up", 4, 2, GivenUp[2])
         /\ Fits(p, "given_up", 4, 3, GivenUp[3])
<1> USE GivenUpRows, NamesKnown DEF Fits, Loop, Reached, InGivenUp
<1>1. Fits(p, "given_up", 4, 0, Move("PATCHED", "executor"))
  BY DEF Move, TRANSITIONS, PIPELINE_AGENTS
<1>2. Fits(p, "given_up", 4, 1, GivenUp[1])
  BY DEF Move, TRANSITIONS, PIPELINE_AGENTS
<1>3. Fits(p, "given_up", 4, 2, GivenUp[2])
  BY DEF OpenPack
<1>4. Fits(p, "given_up", 4, 3, GivenUp[3])
  BY DEF WritePack
<1> HIDE DEF Fits
<1> QED
  BY <1>1, <1>2, <1>3, <1>4

\* What comes before an attempt in its plan.
Offset(m) == IF m = 1 THEN 15 ELSE 1

LEMMA AttemptFits ==
  ASSUME NEW p, NEW m \in 1..2, NEW stage, stage = (IF m = 1 THEN "first" ELSE "second"),
         NEW n, n = Length(p, stage)
  PROVE  /\ Len(Attempt(p, m)) = n - Offset(m)
         /\ \A i \in 1..n - Offset(m) :
              Fits(p, stage, n, Offset(m) + i - 1, Attempt(p, m)[i])
<1>0. PICK h : h = Offset(m) /\ h = (IF m = 1 THEN 15 ELSE 1)
  BY DEF Offset
<1>1. PICK e : e = Len(Execution(p, m))
  OBVIOUS
<1>2. /\ m = 1 \/ m = 2
      /\ e = IF p = "fixture-local" THEN (IF m = 1 THEN 3 ELSE 2) ELSE 1
      /\ n = h + e + 7
  <2>1. m = 1 \/ m = 2
    OBVIOUS
  <2>2. e = IF p = "fixture-local" THEN (IF m = 1 THEN 3 ELSE 2) ELSE 1
    BY <1>1, <2>1, ExecutionRows
  <2>3. m = 1 => stage = "first" /\ h = 15
    BY <1>0
  <2>4. m # 1 => stage = "second" /\ h = 1
    BY <1>0
  <2> QED
    BY <2>1, <2>2, <2>3, <2>4 DEF Length
<1>3. e \in 1..3 /\ h \in {1, 15} /\ n - h = e + 7 /\ stage \in Loop
  BY <1>0, <1>2 DEF Loop
<1>4. ASSUME NEW i \in 1..e
      PROVE  Fits(p, stage, n, h + i - 1, Attempt(p, m)[i])
  <2>1. Attempt(p, m)[i] = Execution(p, m)[i]
    BY <1>1, AttemptRows
  <2>2. CASE p = "fixture-local" /\ m = 1
    <3>1. n = 25 /\ h = 15 /\ (i = 1 \/ i = 2 \/ i = 3)
      BY <1>0, <1>2, <2>2
    <3> QED
      BY <2>1, <2>2, <3>1, ExecutionRows, ExecutionFits
  <2>3. CASE p = "fixture-local" /\ m = 2
    <3>1. n = 10 /\ h = 1 /\ (i = 1 \/ i = 2)
      BY <1>0, <1>2, <2>3
    <3> QED
      BY <2>1, <2>3, <3>1, ExecutionRows, ExecutionFits
  <2>4. CASE p # "fixture-local"
    <3>1. i = 1 /\ (m = 1 => n = 23 /\ h = 15) /\ (m = 2 => n = 9 /\ h = 1)
      BY <1>0, <1>2, <2>4
    <3> QED
      BY <1>2, <2>1, <2>4, <3>1, ExecutionRows, ExecutionFits
  <2> QED
    BY <1>2, <2>2, <2>3, <2>4
<1>5. ASSUME NEW j \in 1..7
      PROVE  Fits(p, stage, n, h + (e + j) - 1, Attempt(p, m)[e + j])
  <2>1. Attempt(p, m)[e + j] = AttemptTail[j]
    BY <1>1, AttemptRows
  <2>2. h + (e + j) - 1 = n - 8 + j
    BY <1>2, <1>3
  <2>3. Fits(p, stage, n, n - 8 + j, AttemptTail[j])
    BY <1>3, TailFits
  <2> QED
    BY <2>1, <2>2, <2>3
<1>6. ASSUME NEW i \in 1..n - h
      PROVE  Fits(p, stage, n, h + i - 1, Attempt(p, m)[i])
  <2>1. CASE i <= e
    BY <1>3, <1>4, <2>1
  <2>2. CASE i > e
    <3>1. PICK j \in 1..7 : i = e + j
      <4>1. i - e \in 1..7 /\ i = e + (i - e)
        BY <1>3, <2>2
      <4> QED
        BY <4>1
    <3> QED
      BY <1>5, <3>1
  <2> QED
    BY <1>3, <2>1, <2>2
<1>7. Len(Attempt(p, m)) = n - h
  BY <1>1, <1>3, AttemptRows
<1> QED
  BY <1>0, <1>6, <1>7

LEMMA PlanFits ==
  ASSUME NEW p, NEW stage \in Stages, NEW n, n = Length(p, stage)
  PROVE  /\ Plan(p, stage) \in Seq(Statements) /\ Len(Plan(p, stage)) = n
         /\ \A k \in 0..n - 1 : Fits(p, stage, n, k, Plan(p, stage)[k + 1])
<1>1. CASE stage = "first"
  <2>1. PICK a : a = Attempt(p, 1)
    OBVIOUS
  <2>2. Plan(p, stage) = UpToPatched \o a
    BY <1>1, <2>1 DEF Plan
  <2>3. /\ a \in Seq(Statements) /\ Len(a) = n - 15
        /\ \A i \in 1..n - 15 : Fits(p, stage, n, 15 + i - 1, a[i])
    <3>1. 1 \in 1..2 /\ Offset(1) = 15
      BY DEF Offset
    <3>2. stage = (IF 1 = 1 THEN "first" ELSE "second")
      BY <1>1
    <3>3. /\ Len(Attempt(p, 1)) = n - Offset(1)
          /\ \A i \in 1..n - Offset(1) :
               Fits(p, stage, n, Offset(1) + i - 1, Attempt(p, 1)[i])
      BY <3>1, <3>2, AttemptFits
    <3>4. Attempt(p, 1) \in Seq(Statements)
      BY <3>1, AttemptRows
    <3> QED
      BY <2>1, <3>1, <3>3, <3>4
  <2>4. UpToPatched \in Seq(Statements) /\ Len(UpToPatched) = 15
    BY FirstRows
  <2>5. /\ UpToPatched \o a \in Seq(Statements)
        /\ Len(UpToPatched \o a) = Len(UpToPatched) + Len(a)
        /\ \A i \in 1..Len(UpToPatched) : (UpToPatched \o a)[i] = UpToPatched[i]
        /\ \A i \in 1..Len(a) : (UpToPatched \o a)[Len(UpToPatched) + i] = a[i]
    <3>1. UpToPatched \in Seq(Statements) /\ a \in Seq(Statements)
      BY <2>3, <2>4
    <3> QED
      BY <3>1, Joined
  <2>6. n \in {23, 25} /\ n = IF p = "fixture-local" THEN 25 ELSE 23
    BY <1>1 DEF Length
  <2>7. ASSUME NEW k \in 0..n - 1
        PROVE  Fits(p, stage, n, k, Plan(p, stage)[k + 1])
    <3>1. CASE k <= 14
      <4>1. Fits(p, "first", n, k, UpToPatched[k + 1])
        <5>1. k \in 0..14
          BY <2>6, <3>1
        <5>2. n = IF p = "fixture-local" THEN 25 ELSE 23
          BY <2>6
        <5> QED
          BY <5>1, <5>2, FirstFits
      <4>2. (UpToPatched \o a)[k + 1] = UpToPatched[k + 1]
        BY <2>4, <2>5, <3>1
      <4> QED
        BY <1>1, <2>2, <4>1, <4>2
    <3>2. CASE k > 14
      <4>1. PICK i \in 1..n - 15 : k = 15 + i - 1 /\ k + 1 = 15 + i
        <5>1. k - 14 \in 1..n - 15 /\ k = 15 + (k - 14) - 1 /\ k + 1 = 15 + (k - 14)
          BY <2>6, <3>2
        <5> QED
          BY <5>1
      <4>2. (UpToPatched \o a)[k + 1] = a[i]
        BY <2>3, <2>4, <2>5, <4>1
      <4> QED
        BY <2>2, <2>3, <4>1, <4>2
    <3> QED
      BY <2>6, <3>1, <3>2
  <2>8. Len(Plan(p, stage)) = n
    BY <2>2, <2>3, <2>4, <2>5, <2>6
  <2> QED
    BY <2>2, <2>5, <2>7, <2>8
<1>2. CASE stage = "second"
  <2>1. PICK a, m : a = Attempt(p, 2) /\ m = Move("PATCHED", "executor")
    OBVIOUS
  <2>2. Plan(p, stage) = <<m>> \o a
    BY <1>2, <2>1 DEF Plan
  <2>3. /\ a \in Seq(Statements) /\ Len(a) = n - 1
        /\ \A i \in 1..n - 1 : Fits(p, stage, n, 1 + i - 1, a[i])
    <3>1. 2 \in 1..2 /\ Offset(2) = 1
      BY DEF Offset
    <3>2. stage = (IF 2 = 1 THEN "first" ELSE "second")
      BY <1>2
    <3>3. /\ Len(Attempt(p, 2)) = n - Offset(2)
          /\ \A i \in 1..n - Offset(2) :
               Fits(p, stage, n, Offset(2) + i - 1, Attempt(p, 2)[i])
      BY <3>1, <3>2, AttemptFits
    <3>4. Attempt(p, 2) \in Seq(Statements)
      BY <3>1, AttemptRows
    <3> QED
      BY <2>1, <3>1, <3>3, <3>4
  <2>4. <<m>> \in Seq(Statements) /\ Len(<<m>>) = 1 /\ <<m>>[1] = m
    BY <2>1, StatementsTyped, NamesKnown
  <2>5. /\ <<m>> \o a \in Seq(Statements)
        /\ Len(<<m>> \o a) = Len(<<m>>) + Len(a)
        /\ \A i \in 1..Len(<<m>>) : (<<m>> \o a)[i] = <<m>>[i]
        /\ \A i \in 1..Len(a) : (<<m>> \o a)[Len(<<m>>) + i] = a[i]
    <3>1. <<m>> \in Seq(Statements) /\ a \in Seq(Statements)
      BY <2>3, <2>4
    <3> QED
      BY <3>1, Joined
  <2>6. n \in {9, 10} /\ n = IF p = "fixture-local" THEN 10 ELSE 9
    BY <1>2 DEF Length
  <2>7. ASSUME NEW k \in 0..n - 1
        PROVE  Fits(p, stage, n, k, Plan(p, stage)[k + 1])
    <3>1. CASE k = 0
      <4>1. Fits(p, "second", n, 0, m)
        BY <2>1, <2>6, ExecutionFits
      <4>2. (<<m>> \o a)[1] = m
        BY <2>4, <2>5
      <4> QED
        BY <1>2, <2>2, <3>1, <4>1, <4>2
    <3>2. CASE k > 0
      <4>1. k \in 1..n - 1 /\ k = 1 + k - 1 /\ k + 1 = 1 + k
        BY <2>6, <3>2
      <4>2. (<<m>> \o a)[k + 1] = a[k]
        BY <2>3, <2>4, <2>5, <4>1
      <4> QED
        BY <2>2, <2>3, <4>1, <4>2
    <3> QED
      BY <2>6, <3>1, <3>2
  <2>8. Len(Plan(p, stage)) = n
    BY <2>2, <2>3, <2>4, <2>5, <2>6
  <2> QED
    BY <2>2, <2>5, <2>7, <2>8
<1>3. CASE stage = "released"
  <2>1. n = 8 /\ Plan(p, stage) = Released
    BY <1>3 DEF Length, Plan
  <2>2. \A k \in 0..7 : Fits(p, "released", 8, k, Released[k + 1])
    BY ReleasedFits
  <2>3. 0..n - 1 = 0..7
    BY <2>1
  <2>4. Released \in Seq(Statements) /\ Len(Released) = 8
    BY ReleasedRows
  <2> QED
    BY <1>3, <2>1, <2>2, <2>3, <2>4
<1>4. CASE stage = "given_up"
  <2>1. PICK m : m = Move("PATCHED", "executor")
    OBVIOUS
  <2>2. n = 4 /\ Plan(p, stage) = <<m>> \o GivenUp
    BY <1>4, <2>1 DEF Length, Plan
  <2>3. <<m>> \in Seq(Statements) /\ Len(<<m>>) = 1 /\ <<m>>[1] = m
    BY <2>1, StatementsTyped, NamesKnown
  <2>4. GivenUp \in Seq(Statements) /\ Len(GivenUp) = 3
    BY GivenUpRows
  <2>5. /\ <<m>> \o GivenUp \in Seq(Statements)
        /\ Len(<<m>> \o GivenUp) = Len(<<m>>) + Len(GivenUp)
        /\ \A i \in 1..Len(<<m>>) : (<<m>> \o GivenUp)[i] = <<m>>[i]
        /\ \A i \in 1..Len(GivenUp) : (<<m>> \o GivenUp)[Len(<<m>>) + i] = GivenUp[i]
    <3>1. <<m>> \in Seq(Statements) /\ GivenUp \in Seq(Statements)
      BY <2>3, <2>4
    <3> QED
      BY <3>1, Joined
  <2>6. /\ Plan(p, stage)[0 + 1] = m /\ Plan(p, stage)[1 + 1] = GivenUp[1]
        /\ Plan(p, stage)[2 + 1] = GivenUp[2] /\ Plan(p, stage)[3 + 1] = GivenUp[3]
    BY <2>2, <2>3, <2>4, <2>5
  <2>7. ASSUME NEW k \in 0..n - 1
        PROVE  k = 0 \/ k = 1 \/ k = 2 \/ k = 3
    BY <2>2
  <2>8. Len(Plan(p, stage)) = n
    BY <2>2, <2>3, <2>4, <2>5
  <2>9. ASSUME NEW k \in 0..n - 1
        PROVE  Fits(p, stage, n, k, Plan(p, stage)[k + 1])
    BY <1>4, <2>1, <2>2, <2>6, <2>7, GivenUpFits
  <2>10. Plan(p, stage) \in Seq(Statements)
    BY <2>2, <2>5
  <2> QED
    BY <2>8, <2>9, <2>10
<1> QED
  BY <1>1, <1>2, <1>3, <1>4 DEF Stages, Loop

-----------------------------------------------------------------------------
(* One statement more                                                      *)

\* The statement that is next, and what is left after it.
LEMMA Popped ==
  ASSUME PipelineTypes, phase = "running", ~SavePending,
         NEW stage \in Stages, NEW n, NEW k, OnPlan(stage, n, k)
  PROVE  /\ n = Length(provider, stage) /\ n \in 4..25 /\ k \in 0..n - 1
         /\ Fits(provider, stage, n, k, Head(todo))
         /\ Tail(todo) \in Seq(Statements)
         /\ Tail(todo) # << >> => Head(Tail(todo)).op # "save"
         /\ Head(todo).op \notin {"judge", "write"} => Tail(todo) # << >>
         /\ IsLeft(provider, Tail(todo), stage, n, k + 1)
<1>1. PICK plan, td : plan = Plan(provider, stage) /\ td = todo
  OBVIOUS
<1>2. /\ td \in Seq(Statements) /\ td # << >> /\ Left = td
  BY <1>1 DEF PipelineTypes, Left
<1>3. /\ n = Len(plan) /\ k \in 0..n /\ Len(td) = n - k
      /\ \A i \in 1..n - k : td[i] = plan[k + i]
  BY <1>1, <1>2 DEF OnPlan, IsLeft
<1>4. /\ n = Length(provider, stage) /\ \A m \in 0..n - 1 : Fits(provider, stage, n, m, plan[m + 1])
  BY <1>1, <1>3, PlanFits
<1>5. n \in 4..25
  BY <1>4, LengthKnown
<1>6. Len(td) \in Nat \ {0}
  BY <1>2
<1>7. k \in 0..n - 1
  BY <1>3, <1>5, <1>6
<1>8. Head(td) = plan[k + 1]
  <2>1. Head(td) = td[1] /\ 1 \in 1..n - k
    BY <1>2, <1>3, <1>6
  <2> QED
    BY <1>3, <2>1
<1>9. Fits(provider, stage, n, k, Head(td))
  BY <1>4, <1>7, <1>8
<1>10. /\ Tail(td) \in Seq(Statements) /\ Len(Tail(td)) = n - (k + 1)
       /\ \A i \in 1..n - (k + 1) : Tail(td)[i] = td[i + 1]
  <2>1. Len(Tail(td)) = Len(td) - 1 /\ \A i \in 1..Len(td) - 1 : Tail(td)[i] = td[i + 1]
    BY <1>2
  <2>2. Len(td) - 1 = n - (k + 1)
    BY <1>3, <1>5, <1>7
  <2> QED
    BY <1>2, <2>1, <2>2
<1>11. ASSUME NEW i \in 1..n - (k + 1)
       PROVE  Tail(td)[i] = plan[k + 1 + i]
  <2>1. i + 1 \in 1..n - k /\ k + (i + 1) = k + 1 + i
    BY <1>5, <1>7
  <2> QED
    BY <1>3, <1>10, <2>1
<1>12. ASSUME Tail(td) # << >>
       PROVE  Head(Tail(td)).op # "save"
  <2>1. Head(Tail(td)) = Tail(td)[1] /\ Len(Tail(td)) > 0
    BY <1>10, <1>12
  <2>2. 1 \in 1..n - (k + 1) /\ k + 1 \in 0..n - 1
    BY <1>5, <1>7, <1>10, <2>1
  <2>3. Head(Tail(td)) = plan[(k + 1) + 1]
    BY <1>11, <2>1, <2>2
  <2>4. Fits(provider, stage, n, k + 1, Head(Tail(td)))
    BY <1>4, <2>2, <2>3
  <2> QED
    BY <2>4 DEF Fits
<1>13. IsLeft(provider, Tail(td), stage, n, k + 1)
  <2>1. k + 1 \in 0..n
    BY <1>5, <1>7
  <2> QED
    BY <1>1, <1>3, <1>10, <1>11, <2>1 DEF IsLeft
<1>14. ASSUME Head(td).op \notin {"judge", "write"}
       PROVE  Tail(td) # << >>
  <2>1. k # n - 1
    BY <1>9, <1>14 DEF Fits
  <2>2. n - (k + 1) # 0
    BY <1>5, <1>7, <2>1
  <2> QED
    BY <1>10, <2>2
<1> QED
  BY <1>1, <1>4, <1>5, <1>7, <1>9, <1>10, <1>12, <1>13, <1>14

LEMMA CountAppend ==
  ASSUME NEW rows \in Seq(ArtifactTypes), NEW x \in ArtifactTypes, NEW type
  PROVE  /\ CountIn(rows, type) \in Nat
         /\ CountIn(Append(rows, x), type) =
              CountIn(rows, type) + (IF x = type THEN 1 ELSE 0)
<1> DEFINE A == {i \in DOMAIN rows : rows[i] = type}
           B == {i \in DOMAIN Append(rows, x) : Append(rows, x)[i] = type}
<1>1. /\ Len(rows) \in Nat /\ DOMAIN rows = 1..Len(rows)
      /\ DOMAIN Append(rows, x) = 1..Len(rows) + 1
      /\ \A i \in 1..Len(rows) : Append(rows, x)[i] = rows[i]
      /\ Append(rows, x)[Len(rows) + 1] = x
  OBVIOUS
<1>2. IsFiniteSet(A)
  <2>1. IsFiniteSet(1..Len(rows)) /\ A \subseteq 1..Len(rows)
    BY <1>1, FS_Interval
  <2> QED
    BY <2>1, FS_Subset
<1>3. B = IF x = type THEN A \union {Len(rows) + 1} ELSE A
  BY <1>1
<1>4. Len(rows) + 1 \notin A
  BY <1>1
<1>5. Cardinality(A) \in Nat
  BY <1>2, FS_CardinalityType
<1>6. Cardinality(A \union {Len(rows) + 1}) = Cardinality(A) + 1
  BY <1>2, <1>4, FS_AddElement
<1>7. Cardinality(B) = Cardinality(A) + (IF x = type THEN 1 ELSE 0)
  <2> HIDE DEF A, B
  <2>1. CASE x = type
    BY <1>3, <1>6, <2>1
  <2>2. CASE x # type
    BY <1>3, <1>5, <2>2
  <2> QED
    BY <2>1, <2>2
<1> QED
  BY <1>5, <1>7 DEF CountIn

Counts == {"PatchBundle", "VerificationReport"}

\* What executing statement s does to the state of the run.
Effect(s) ==
  /\ provider' = provider /\ attempt' = attempt
  /\ task'.state = IF s.op = "move" THEN s.target ELSE task.state
  /\ task'.approval = IF s.op = "request" THEN "PENDING"
                      ELSE IF s.op = "approve" THEN "APPROVED" ELSE task.approval
  /\ \A type \in Counts :
       CountIn(task'.artifacts, type) =
         Count(type) + (IF s.op = "publish" /\ s.type = type THEN 1 ELSE 0)
  /\ IF s.op = "verify" THEN Len(verdicts') = Len(verdicts) + 1 ELSE verdicts' = verdicts
  /\ workspace' = IF s.op = "prepare" THEN {}
                  ELSE IF s.op = "patch" THEN workspace \union {attempt} ELSE workspace
  /\ verifier' = IF s.op = "prepare" THEN {} ELSE IF s.op = "copy" THEN workspace ELSE verifier

\* A statement that is no decision takes the run one place further.
LEMMA EffectAdvances ==
  ASSUME PipelineTypes, NEW stage \in Stages, NEW n \in 4..25, NEW k \in 0..n - 1,
         At(stage, n, k), NEW s, Fits(provider, stage, n, k, s), s.op # "judge", Effect(s),
         IsLeft(provider, Left', stage, n, k + 1), n = Length(provider, stage)
  PROVE  At(stage, n, k + 1)'
<1>1. provider' = provider /\ attempt' = attempt /\ attempt \in 1..2 /\ Len(verdicts) \in Nat
  BY DEF Effect, PipelineTypes
<1>2. OnPlan(stage, n, k + 1)'
  BY <1>1 DEF OnPlan
<1>3. task'.state = Reached(stage, n, k + 1)
  BY DEF Effect, Fits, At
<1>4. Counted(stage, n, k + 1)'
  <2>1. /\ CountIn(task'.artifacts, "PatchBundle") = Count("PatchBundle")
             + (IF s.op = "publish" /\ s.type = "PatchBundle" THEN 1 ELSE 0)
        /\ CountIn(task'.artifacts, "VerificationReport") = Count("VerificationReport")
             + (IF s.op = "publish" /\ s.type = "VerificationReport" THEN 1 ELSE 0)
    BY DEF Effect, Counts
  <2>2. CASE stage \in Loop
    <3>1. /\ attempt = IF stage = "first" THEN 1 ELSE 2
          /\ Len(verdicts) = IF k <= n - 4 THEN attempt - 1 ELSE attempt
          /\ Count("PatchBundle") = IF k <= n - 6 THEN attempt - 1 ELSE attempt
          /\ Count("VerificationReport") = IF k <= n - 2 THEN attempt - 1 ELSE attempt
      BY <2>2 DEF At, Counted
    <3>2. Len(verdicts') = IF k + 1 <= n - 4 THEN attempt - 1 ELSE attempt
      <4>1. s.op = "verify" <=> k = n - 4
        BY <2>2 DEF Fits
      <4>2. CASE k = n - 4
        BY <1>1, <3>1, <4>1, <4>2 DEF Effect
      <4>3. CASE k # n - 4
        <5>1. k <= n - 4 <=> k + 1 <= n - 4
          BY <4>3
        <5> QED
          BY <3>1, <4>1, <4>3, <5>1 DEF Effect
      <4> QED
        BY <4>2, <4>3
    <3>3. CountIn(task'.artifacts, "PatchBundle") = IF k + 1 <= n - 6 THEN attempt - 1 ELSE attempt
      <4>1. s.op = "publish" /\ s.type = "PatchBundle" <=> k = n - 6
        BY <2>2 DEF Fits
      <4>2. k # n - 6 => (k <= n - 6 <=> k + 1 <= n - 6)
        OBVIOUS
      <4> QED
        BY <1>1, <2>1, <3>1, <4>1, <4>2
    <3>4. CountIn(task'.artifacts, "VerificationReport") =
            IF k + 1 <= n - 2 THEN attempt - 1 ELSE attempt
      <4>1. s.op = "publish" /\ s.type = "VerificationReport" <=> k = n - 2
        BY <2>2 DEF Fits
      <4>2. k # n - 2 => (k <= n - 2 <=> k + 1 <= n - 2)
        OBVIOUS
      <4> QED
        BY <1>1, <2>1, <3>1, <4>1, <4>2
    <3> QED
      BY <1>1, <2>2, <3>1, <3>2, <3>3, <3>4 DEF Counted, Count
  <2>3. CASE stage \notin Loop
    <3>1. /\ verdicts' = verdicts
          /\ ~(s.op = "publish" /\ s.type = "PatchBundle")
          /\ ~(s.op = "publish" /\ s.type = "VerificationReport")
      BY <2>3 DEF Fits, Effect
    <3>2. /\ Len(verdicts) > 0
          /\ Count("PatchBundle") = Len(verdicts) /\ Count("VerificationReport") = Len(verdicts)
          /\ Passed <=> stage = "released"
      BY <2>3 DEF At, Counted
    <3>3. CountIn(task'.artifacts, "PatchBundle") = Len(verdicts)
          /\ CountIn(task'.artifacts, "VerificationReport") = Len(verdicts)
      BY <1>1, <2>1, <3>1, <3>2
    <3>4. Passed' <=> Passed
      BY <3>1 DEF Passed
    <3> QED
      BY <2>3, <3>1, <3>2, <3>3, <3>4 DEF Counted, Count
  <2> QED
    BY <2>2, <2>3
<1>5. Asked(stage, k + 1)'
  <2>1. /\ s.op = "request" <=> stage = "first" /\ k = 11
        /\ s.op = "approve" <=> stage = "first" /\ k = 13
    BY DEF Fits
  <2>2. /\ stage = "first" /\ k \in 12..13 => task.approval = "PENDING"
        /\ stage # "first" \/ k >= 14 => task.approval = "APPROVED"
    BY DEF At, Asked
  <2>3. task'.approval = IF s.op = "request" THEN "PENDING"
                         ELSE IF s.op = "approve" THEN "APPROVED" ELSE task.approval
    BY DEF Effect
  <2> QED
    BY <2>1, <2>2, <2>3 DEF Asked
<1>6. Worked(stage, n, k + 1)'
  <2> SUFFICES ASSUME provider = "fixture-local", stage \in Loop
               PROVE  /\ k + 1 = n - 9 \/ (stage = "second" /\ k + 1 <= n - 9)
                           => workspace' = 1..attempt - 1
                      /\ k + 1 >= n - 8 => workspace' = 1..attempt
                      /\ k + 1 >= n - 7 => verifier' = workspace'
    BY <1>1 DEF Worked
  <2>1. /\ s.op = "prepare" <=> stage = "first" /\ k = n - 10
        /\ s.op = "patch" <=> k = n - 9
        /\ s.op = "copy" <=> k = n - 8
    BY DEF Fits
  <2>2. /\ k = n - 9 \/ (stage = "second" /\ k <= n - 9) => workspace = 1..attempt - 1
        /\ k >= n - 8 => workspace = 1..attempt
        /\ k >= n - 7 => verifier = workspace
    BY DEF At, Worked
  <2>3. stage = "first" => attempt = 1
    BY DEF At, Counted
  <2>4. CASE k < n - 10 \/ (k = n - 10 /\ stage = "second")
    <3>1. workspace' = workspace
      BY <2>1, <2>4 DEF Effect, Loop
    <3> QED
      BY <2>2, <2>4, <3>1
  <2>5. CASE k = n - 10 /\ stage # "second"
    <3>1. stage = "first" /\ s.op = "prepare" /\ attempt = 1
      BY <2>1, <2>3, <2>5 DEF Loop
    <3>2. workspace' = {} /\ 1..attempt - 1 = {}
      BY <3>1 DEF Effect
    <3> QED
      BY <2>5, <3>2
  <2>6. CASE k = n - 9
    <3>1. s.op = "patch" /\ workspace = 1..attempt - 1
      BY <2>1, <2>2, <2>6
    <3>2. workspace' = (1..attempt - 1) \union {attempt}
      BY <3>1 DEF Effect
    <3>3. workspace' = 1..attempt
      BY <1>1, <3>2
    <3> QED
      BY <2>6, <3>3
  <2>7. CASE k = n - 8
    <3>1. s.op = "copy" /\ workspace = 1..attempt
      BY <2>1, <2>2, <2>7
    <3>2. workspace' = workspace /\ verifier' = workspace
      BY <3>1 DEF Effect
    <3> QED
      BY <2>7, <3>1, <3>2
  <2>8. CASE k > n - 8
    <3>1. workspace' = workspace /\ verifier' = verifier
      BY <2>1, <2>8 DEF Effect
    <3> QED
      BY <2>2, <2>8, <3>1
  <2>9. \/ k < n - 10 \/ k = n - 10 \/ k = n - 9 \/ k = n - 8 \/ k > n - 8
    OBVIOUS
  <2> QED
    BY <2>4, <2>5, <2>6, <2>7, <2>8, <2>9
<1> QED
  BY <1>2, <1>3, <1>4, <1>5, <1>6 DEF At

LEMMA CountKnown ==
  ASSUME PipelineTypes, NEW type
  PROVE  Count(type) \in Nat
<1>1. task.artifacts \in Seq(ArtifactTypes)
  BY DEF PipelineTypes, TaskRecords
<1>2. \E x : x \in ArtifactTypes
  BY NamesKnown
<1> QED
  BY <1>1, <1>2, CountAppend DEF Count

\* A statement other than a move, a checkpoint, a decision or the last one.
LEMMA PlainStep ==
  ASSUME PipelineInv, phase = "running", todo' = Tail(todo),
         Head(todo).op \notin {"save", "judge", "write", "move"}, Effect(Head(todo)),
         task' \in TaskRecords, task'.version = task.version,
         Len(task.artifacts) <= Len(task'.artifacts),
         \A i \in 1..Len(task.artifacts) : task'.artifacts[i] = task.artifacts[i],
         verdicts' \in Seq(Results),
         UNCHANGED <<phase, saved>>
  PROVE  PipelineInv'
<1>1. PipelineTypes /\ Checkpointed /\ ~SavePending
  BY DEF PipelineInv, SavePending
<1>2. PICK stage \in Stages, n \in 0..30, k \in 0..30 : At(stage, n, k)
  BY DEF PipelineInv
<1>3. /\ n = Length(provider, stage) /\ n \in 4..25 /\ k \in 0..n - 1
      /\ Fits(provider, stage, n, k, Head(todo)) /\ Tail(todo) \in Seq(Statements)
      /\ Tail(todo) # << >> => Head(Tail(todo)).op # "save"
      /\ Head(todo).op \notin {"judge", "write"} => Tail(todo) # << >>
      /\ IsLeft(provider, Tail(todo), stage, n, k + 1)
  BY <1>1, <1>2, Popped DEF At
<1>4. ~SavePending' /\ Left' = Tail(todo)
  BY <1>3 DEF SavePending, Left
<1>5. k + 1 \in 0..30
  <2>1. n \in 4..25 /\ k \in 0..n - 1
    BY <1>3
  <2> QED
    BY <2>1
<1>6. Left' # << >>
  BY <1>3, <1>4
<1>7. PipelineTypes'
  <2>1. provider' = provider /\ attempt' = attempt
    BY DEF Effect
  <2> QED
    BY <1>1, <1>3, <1>6, <2>1 DEF PipelineTypes
<1>8. Checkpointed'
  <2>1. task'.state = task.state
    BY DEF Effect
  <2>2. /\ task.version = 0 => task.state = "RECEIVED"
        /\ task.version > 0 =>
             /\ saved \in TaskRecords /\ saved.version = task.version - 0
             /\ Len(saved.artifacts) <= Len(task.artifacts)
             /\ \A i \in 1..Len(saved.artifacts) : task.artifacts[i] = saved.artifacts[i]
             /\ saved.state = task.state
    BY <1>1 DEF Checkpointed
  <2>3. ASSUME task.version > 0
        PROVE  /\ Len(saved.artifacts) <= Len(task'.artifacts)
               /\ \A i \in 1..Len(saved.artifacts) : task'.artifacts[i] = saved.artifacts[i]
    <3>1. Len(saved.artifacts) \in Nat /\ Len(task.artifacts) \in Nat
          /\ Len(task'.artifacts) \in Nat
      BY <1>1, <2>2, <2>3 DEF PipelineTypes, TaskRecords
    <3> QED
      BY <2>2, <2>3, <3>1
  <2> QED
    BY <1>4, <2>1, <2>2, <2>3 DEF Checkpointed
<1>9. At(stage, n, k + 1)'
  BY <1>1, <1>2, <1>3, <1>4, EffectAdvances
<1> QED
  BY <1>3, <1>5, <1>7, <1>8, <1>9 DEF PipelineInv

\* What a statement that leaves the task's artifacts alone does to it.
LEMMA SameArtifacts ==
  ASSUME PipelineTypes, task'.artifacts = task.artifacts, NEW s, s.op # "publish"
  PROVE  /\ Len(task.artifacts) <= Len(task'.artifacts)
         /\ \A i \in 1..Len(task.artifacts) : task'.artifacts[i] = task.artifacts[i]
         /\ \A type \in Counts :
              CountIn(task'.artifacts, type) =
                Count(type) + (IF s.op = "publish" /\ s.type = type THEN 1 ELSE 0)
<1>1. Len(task.artifacts) \in Nat
  BY DEF PipelineTypes, TaskRecords
<1>2. ASSUME NEW type
      PROVE  CountIn(task'.artifacts, type) = Count(type) + 0
  <2>1. Count(type) \in Nat
    BY CountKnown
  <2>2. CountIn(task'.artifacts, type) = Count(type)
    BY DEF Count
  <2> QED
    BY <2>1, <2>2
<1> QED
  BY <1>1, <1>2

\* A statement that changes neither the task nor the verdicts.
LEMMA TaskKept ==
  ASSUME PipelineInv, phase = "running", todo' = Tail(todo),
         Head(todo).op \in {"prepare", "patch", "copy", "execute", "open"},
         workspace' = (IF Head(todo).op = "prepare" THEN {}
                       ELSE IF Head(todo).op = "patch" THEN workspace \union {attempt}
                       ELSE workspace),
         verifier' = (IF Head(todo).op = "prepare" THEN {}
                      ELSE IF Head(todo).op = "copy" THEN workspace ELSE verifier),
         UNCHANGED <<provider, phase, attempt, verdicts, task, saved>>
  PROVE  PipelineInv'
<1>1. PICK s : s = Head(todo)
  OBVIOUS
<1>2. PipelineTypes
  BY DEF PipelineInv
<1>3. s.op \notin {"publish", "move", "request", "approve", "verify", "save", "judge", "write"}
  BY <1>1
<1>4. task'.artifacts = task.artifacts
  OBVIOUS
<1>5. /\ Len(task.artifacts) <= Len(task'.artifacts)
      /\ \A i \in 1..Len(task.artifacts) : task'.artifacts[i] = task.artifacts[i]
      /\ \A type \in Counts :
           CountIn(task'.artifacts, type) =
             Count(type) + (IF s.op = "publish" /\ s.type = type THEN 1 ELSE 0)
  BY <1>2, <1>3, <1>4, SameArtifacts
<1>6. Effect(s)
  BY <1>1, <1>3, <1>5 DEF Effect
<1>7. /\ task' \in TaskRecords /\ task'.version = task.version
      /\ verdicts' \in Seq(Results)
  BY <1>2 DEF PipelineTypes
<1> QED
  BY <1>1, <1>3, <1>5, <1>6, <1>7, PlainStep

\* A statement that changes only the task, and neither its state nor its version.
LEMMA TaskNoted ==
  ASSUME PipelineInv, phase = "running", todo' = Tail(todo),
         Head(todo).op \in {"evidence", "publish", "request", "approve"},
         task' \in TaskRecords, task'.version = task.version, task'.state = task.state,
         task'.approval = (IF Head(todo).op = "request" THEN "PENDING"
                           ELSE IF Head(todo).op = "approve" THEN "APPROVED"
                           ELSE task.approval),
         task'.artifacts = (IF Head(todo).op = "publish"
                            THEN Append(task.artifacts, Head(todo).type) ELSE task.artifacts),
         Head(todo).op = "publish" => Head(todo).type \in ArtifactTypes,
         UNCHANGED <<provider, phase, attempt, verdicts, saved, workspace, verifier>>
  PROVE  PipelineInv'
<1>1. PICK s : s = Head(todo)
  OBVIOUS
<1>2. PipelineTypes
  BY DEF PipelineInv
<1>3. s.op \notin {"move", "verify", "save", "judge", "write", "prepare", "patch", "copy"}
  BY <1>1
<1>4. /\ Len(task.artifacts) <= Len(task'.artifacts)
      /\ \A i \in 1..Len(task.artifacts) : task'.artifacts[i] = task.artifacts[i]
      /\ \A type \in Counts :
           CountIn(task'.artifacts, type) =
             Count(type) + (IF s.op = "publish" /\ s.type = type THEN 1 ELSE 0)
  <2>1. CASE s.op # "publish"
    <3>1. task'.artifacts = task.artifacts
      BY <1>1, <2>1
    <3> QED
      BY <1>2, <2>1, <3>1, SameArtifacts
  <2>2. CASE s.op = "publish"
    <3>1. PICK rows, x : rows = task.artifacts /\ x = s.type
      OBVIOUS
    <3>2. rows \in Seq(ArtifactTypes) /\ x \in ArtifactTypes
      BY <1>1, <1>2, <2>2, <3>1 DEF PipelineTypes, TaskRecords
    <3>3. task'.artifacts = Append(rows, x)
      BY <1>1, <2>2, <3>1
    <3>4. /\ Len(rows) <= Len(Append(rows, x))
          /\ \A i \in 1..Len(rows) : Append(rows, x)[i] = rows[i]
      BY <3>2
    <3>5. \A type : CountIn(Append(rows, x), type) =
                      CountIn(rows, type) + (IF x = type THEN 1 ELSE 0)
      BY <3>2, CountAppend
    <3>6. \A type : CountIn(rows, type) = Count(type)
      BY <3>1 DEF Count
    <3>7. ASSUME NEW type
          PROVE  CountIn(task'.artifacts, type) =
                   Count(type) + (IF s.op = "publish" /\ s.type = type THEN 1 ELSE 0)
      <4>1. CountIn(Append(rows, x), type) = Count(type) + (IF x = type THEN 1 ELSE 0)
        BY <3>5, <3>6
      <4> QED
        BY <2>2, <3>1, <3>3, <4>1
    <3>8. /\ Len(task.artifacts) <= Len(task'.artifacts)
          /\ \A i \in 1..Len(task.artifacts) : task'.artifacts[i] = task.artifacts[i]
      BY <3>1, <3>3, <3>4
    <3> QED
      BY <3>7, <3>8
  <2> QED
    BY <2>1, <2>2
<1>5. Effect(s)
  <2>1. task'.approval = IF s.op = "request" THEN "PENDING"
                         ELSE IF s.op = "approve" THEN "APPROVED" ELSE task.approval
    BY <1>1
  <2> QED
    BY <1>3, <1>4, <2>1 DEF Effect
<1>6. verdicts' \in Seq(Results)
  BY <1>2 DEF PipelineTypes
<1> QED
  BY <1>1, <1>3, <1>4, <1>5, <1>6, PlainStep

LEMMA RecordEvidenceKeeps ==
  ASSUME PipelineInv, RecordEvidence
  PROVE  PipelineInv'
<1>1. task \in TaskRecords
  BY DEF PipelineInv, PipelineTypes
<1>2. /\ task' \in TaskRecords /\ task'.version = task.version /\ task'.state = task.state
      /\ task'.approval = task.approval /\ task'.artifacts = task.artifacts
  BY <1>1 DEF RecordEvidence, TaskRecords
<1> QED
  BY <1>2, TaskNoted DEF RecordEvidence, Next1, process, files

LEMMA PublishKeeps ==
  ASSUME PipelineInv, PublishArtifact
  PROVE  PipelineInv'
<1>1. PICK s : s = Head(todo) /\ s.op = "publish"
  BY DEF PublishArtifact, Next1
<1>2. task \in TaskRecords /\ PipelineTypes /\ phase = "running" /\ ~SavePending
  BY <1>1 DEF PipelineInv, PipelineTypes, PublishArtifact, Next1, SavePending
<1>3. s.type \in ArtifactTypes
  <2>1. PICK stage \in Stages, n \in 0..30, k \in 0..30 : At(stage, n, k)
    BY DEF PipelineInv
  <2>2. Fits(provider, stage, n, k, s)
    BY <1>1, <1>2, <2>1, Popped DEF At
  <2> QED
    BY <1>1, <2>2 DEF Fits
<1>4. PICK rows : rows = Append(task.artifacts, s.type) /\ rows \in Seq(ArtifactTypes)
  <2>1. PICK before, x : /\ before = task.artifacts /\ before \in Seq(ArtifactTypes)
                         /\ x = s.type /\ x \in ArtifactTypes
    BY <1>2, <1>3 DEF TaskRecords
  <2>2. Append(before, x) \in Seq(ArtifactTypes)
    BY <2>1
  <2> QED
    BY <2>1, <2>2
<1>5. task' = [task EXCEPT !.artifacts = rows]
  BY <1>1, <1>4 DEF PublishArtifact
<1>6. /\ task' \in TaskRecords /\ task'.version = task.version /\ task'.state = task.state
      /\ task'.approval = task.approval /\ task'.artifacts = rows
  BY <1>2, <1>4, <1>5 DEF TaskRecords
<1>7. task'.artifacts = (IF Head(todo).op = "publish"
                         THEN Append(task.artifacts, Head(todo).type) ELSE task.artifacts)
  BY <1>1, <1>4, <1>6
<1>8. todo' = Tail(todo) /\ UNCHANGED <<provider, phase, attempt, verdicts, saved, workspace, verifier>>
  BY DEF PublishArtifact, process, files
<1>9. task'.approval = (IF Head(todo).op = "request" THEN "PENDING"
                        ELSE IF Head(todo).op = "approve" THEN "APPROVED"
                        ELSE task.approval)
  BY <1>1, <1>6
<1>10. /\ Head(todo).op \in {"evidence", "publish", "request", "approve"}
       /\ Head(todo).op = "publish" => Head(todo).type \in ArtifactTypes
  BY <1>1, <1>3
<1> QED
  BY <1>2, <1>6, <1>7, <1>8, <1>9, <1>10, TaskNoted

LEMMA RequestKeeps ==
  ASSUME PipelineInv, RequestApproval
  PROVE  PipelineInv'
<1>1. task \in TaskRecords
  BY DEF PipelineInv, PipelineTypes
<1>2. /\ task' \in TaskRecords /\ task'.version = task.version /\ task'.state = task.state
      /\ task'.approval = "PENDING" /\ task'.artifacts = task.artifacts
  BY <1>1 DEF RequestApproval, TaskRecords
<1> QED
  BY <1>2, TaskNoted DEF RequestApproval, Next1, process, files

LEMMA DecideKeeps ==
  ASSUME PipelineInv, DecideApproval
  PROVE  PipelineInv'
<1>1. task \in TaskRecords
  BY DEF PipelineInv, PipelineTypes
<1>2. /\ task' \in TaskRecords /\ task'.version = task.version /\ task'.state = task.state
      /\ task'.approval = "APPROVED" /\ task'.artifacts = task.artifacts
  BY <1>1 DEF DecideApproval, TaskRecords
<1> QED
  BY <1>2, TaskNoted DEF DecideApproval, Next1, process, files

LEMMA WorkspacesKeep ==
  ASSUME PipelineInv,
         PrepareWorkspaces \/ ApplyPatch \/ CopyToVerifier \/ ExecuteElsewhere \/ TruncatePack
  PROVE  PipelineInv'
<1> DEFINE Into(o) == IF o = "prepare" THEN {} ELSE IF o = "patch" THEN workspace \union {attempt}
                      ELSE workspace
           Copied(o) == IF o = "prepare" THEN {} ELSE IF o = "copy" THEN workspace ELSE verifier
<1>0. ASSUME NEW o, o \in {"prepare", "patch", "copy", "execute", "open"}, Next1(o),
             todo' = Tail(todo), workspace' = Into(o), verifier' = Copied(o),
             UNCHANGED <<provider, phase, attempt, verdicts, task, saved>>
      PROVE  PipelineInv'
  BY <1>0, TaskKept DEF Next1
<1>1. CASE PrepareWorkspaces
  <2>1. /\ Next1("prepare") /\ todo' = Tail(todo)
        /\ workspace' = Into("prepare") /\ verifier' = Copied("prepare")
        /\ UNCHANGED <<provider, phase, attempt, verdicts, task, saved>>
    BY <1>1 DEF PrepareWorkspaces, FreshWorkspace, process, files
  <2> QED
    BY <1>0, <2>1
<1>2. CASE ApplyPatch
  <2>1. /\ Next1("patch") /\ todo' = Tail(todo)
        /\ workspace' = Into("patch") /\ verifier' = Copied("patch")
        /\ UNCHANGED <<provider, phase, attempt, verdicts, task, saved>>
    BY <1>2 DEF ApplyPatch, process, files
  <2> QED
    BY <1>0, <2>1
<1>3. CASE CopyToVerifier
  <2>1. /\ Next1("copy") /\ todo' = Tail(todo)
        /\ workspace' = Into("copy") /\ verifier' = Copied("copy")
        /\ UNCHANGED <<provider, phase, attempt, verdicts, task, saved>>
    BY <1>3 DEF CopyToVerifier, CopyPatched, process, files
  <2> QED
    BY <1>0, <2>1
<1>4. CASE ExecuteElsewhere
  <2>1. /\ Next1("execute") /\ todo' = Tail(todo)
        /\ workspace' = Into("execute") /\ verifier' = Copied("execute")
        /\ UNCHANGED <<provider, phase, attempt, verdicts, task, saved>>
    BY <1>4 DEF ExecuteElsewhere, process, files
  <2> QED
    BY <1>0, <2>1
<1>5. CASE TruncatePack
  <2>1. /\ Next1("open") /\ todo' = Tail(todo)
        /\ workspace' = Into("open") /\ verifier' = Copied("open")
        /\ UNCHANGED <<provider, phase, attempt, verdicts, task, saved>>
    BY <1>5 DEF TruncatePack, process, files
  <2> QED
    BY <1>0, <2>1
<1> QED
  BY <1>1, <1>2, <1>3, <1>4, <1>5

LEMMA VerificationKeeps ==
  ASSUME PipelineInv, NEW report \in Reports, RunVerification(report)
  PROVE  PipelineInv'
<1>1. PICK s : s = Head(todo) /\ s.op = "verify"
  BY DEF RunVerification, Next1
<1>2. PipelineTypes
  BY DEF PipelineInv
<1>3. report \in Results
  BY DEF Reports, Results, Outcomes
<1>4. PICK results : results = verdicts /\ results \in Seq(Results)
  BY <1>2 DEF PipelineTypes
<1>5. /\ Append(results, report) \in Seq(Results)
      /\ Len(Append(results, report)) = Len(results) + 1
  BY <1>3, <1>4
<1>6. verdicts' = Append(results, report) /\ task' = task
  BY <1>4 DEF RunVerification
<1>7. /\ Len(task.artifacts) <= Len(task'.artifacts)
      /\ \A i \in 1..Len(task.artifacts) : task'.artifacts[i] = task.artifacts[i]
      /\ \A type \in Counts :
           CountIn(task'.artifacts, type) =
             Count(type) + (IF s.op = "publish" /\ s.type = type THEN 1 ELSE 0)
  BY <1>1, <1>2, <1>6, SameArtifacts
<1>8. Effect(s)
  BY <1>1, <1>4, <1>5, <1>6, <1>7 DEF Effect, RunVerification, process, files
<1>9. /\ todo' = Tail(todo) /\ phase = "running"
      /\ UNCHANGED <<provider, phase, attempt, saved, workspace, verifier>>
  BY DEF RunVerification, Next1, process, files
<1>10. task' \in TaskRecords /\ task'.version = task.version /\ verdicts' \in Seq(Results)
  BY <1>2, <1>5, <1>6 DEF PipelineTypes
<1> QED
  BY <1>1, <1>7, <1>8, <1>9, <1>10, PlainStep

\* A move with its checkpoint put before the rest of the plan.
LEMMA TransitionKeeps ==
  ASSUME PipelineInv, Transition
  PROVE  PipelineInv'
<1>1. PICK s, rest : s = Head(todo) /\ s.op = "move" /\ rest = Tail(todo)
  BY DEF Transition, Next1
<1>2. /\ PipelineTypes /\ Checkpointed /\ ~SavePending /\ phase = "running"
  BY <1>1 DEF PipelineInv, SavePending, Transition, Next1
<1>3. PICK stage \in Stages, n \in 0..30, k \in 0..30 : At(stage, n, k)
  BY DEF PipelineInv
<1>4. /\ n = Length(provider, stage) /\ n \in 4..25 /\ k \in 0..n - 1
      /\ Fits(provider, stage, n, k, s) /\ rest \in Seq(Statements) /\ rest # << >>
      /\ IsLeft(provider, rest, stage, n, k + 1)
  BY <1>1, <1>2, <1>3, Popped DEF At
<1>5. k + 1 \in 0..30
  <2>1. n \in 4..25 /\ k \in 0..n - 1
    BY <1>4
  <2> QED
    BY <2>1
<1>6. PICK td : td = <<Save>> \o rest
  OBVIOUS
<1>7. todo' = td
  BY <1>1, <1>6 DEF Transition, SaveNext
<1>8. /\ td \in Seq(Statements) /\ td # << >> /\ Head(td) = Save
      /\ Tail(td) \in Seq(Statements) /\ Len(Tail(td)) = Len(rest)
      /\ \A i \in 1..Len(rest) : Tail(td)[i] = rest[i]
  <2>1. <<Save>> \in Seq(Statements) /\ Len(<<Save>>) = 1 /\ <<Save>>[1] = Save
    BY StatementsTyped
  <2>2. rest \in Seq(Statements) /\ Len(rest) \in Nat
    BY <1>4
  <2>3. /\ <<Save>> \o rest \in Seq(Statements)
        /\ Len(<<Save>> \o rest) = Len(<<Save>>) + Len(rest)
        /\ \A i \in 1..Len(<<Save>>) : (<<Save>> \o rest)[i] = <<Save>>[i]
        /\ \A i \in 1..Len(rest) : (<<Save>> \o rest)[Len(<<Save>>) + i] = rest[i]
    <3>1. <<Save>> \in Seq(Statements) /\ rest \in Seq(Statements)
      BY <2>1, <2>2
    <3> QED
      BY <3>1, Joined
  <2>4. td \in Seq(Statements) /\ Len(td) = 1 + Len(rest) /\ td[1] = Save
        /\ \A i \in 1..Len(rest) : td[1 + i] = rest[i]
    BY <1>6, <2>1, <2>3
  <2> HIDE DEF Statements
  <2>5. td # << >> /\ Head(td) = Save /\ Tail(td) \in Seq(Statements) /\ Len(Tail(td)) = Len(rest)
    BY <2>2, <2>4
  <2>6. \A i \in 1..Len(rest) : Tail(td)[i] = td[i + 1]
    BY <2>2, <2>4
  <2>7. \A i \in 1..Len(rest) : i + 1 = 1 + i
    BY <2>2
  <2> QED
    BY <2>4, <2>5, <2>6, <2>7
<1>9. SavePending' /\ Left' = Tail(td)
  BY <1>7, <1>8 DEF SavePending, Left, Save
<1>10. Left' # << >>
  BY <1>4, <1>8, <1>9
<1>11. IsLeft(provider, Left', stage, n, k + 1)
  <2>1. IsLeft(provider, Tail(td), stage, n, k + 1)
    BY <1>4, <1>8 DEF IsLeft
  <2> QED
    BY <1>9, <2>1
<1>12. /\ task \in TaskRecords /\ s.target \in States
  BY <1>1, <1>2, <1>4 DEF PipelineTypes, Fits
<1>13. task' = [task EXCEPT !.state = s.target, !.version = @ + 1]
  BY <1>1 DEF Transition
<1>14. /\ task' \in TaskRecords /\ task'.version = task.version + 1 /\ task'.state = s.target
       /\ task'.approval = task.approval /\ task'.artifacts = task.artifacts
  <2>1. /\ task.version + 1 \in Nat
        /\ task = [state |-> task.state, version |-> task.version,
                   artifacts |-> task.artifacts, evidence |-> task.evidence,
                   approval |-> task.approval]
    BY <1>12 DEF TaskRecords
  <2>2. task' = [state |-> s.target, version |-> task.version + 1,
                 artifacts |-> task.artifacts, evidence |-> task.evidence,
                 approval |-> task.approval]
    BY <1>13, <2>1
  <2> QED
    BY <1>12, <2>1, <2>2 DEF TaskRecords
<1>15. UNCHANGED <<provider, phase, attempt, verdicts, saved, workspace, verifier>>
  BY DEF Transition, process, files
<1>16. PipelineTypes'
  BY <1>2, <1>7, <1>8, <1>10, <1>14, <1>15 DEF PipelineTypes
<1>17. Checkpointed'
  <2>1. task.version \in Nat
    BY <1>12 DEF TaskRecords
  <2>2. task.version > 0 =>
             /\ saved \in TaskRecords /\ saved.version = task.version - 0
             /\ Len(saved.artifacts) <= Len(task.artifacts)
             /\ \A i \in 1..Len(saved.artifacts) : task.artifacts[i] = saved.artifacts[i]
    BY <1>2 DEF Checkpointed
  <2>3. task'.version > 0 /\ (task'.version > 1 => task.version > 0)
        /\ task'.version - 1 = task.version - 0
    BY <1>14, <2>1
  <2> QED
    BY <1>9, <1>14, <1>15, <2>2, <2>3 DEF Checkpointed
<1>18. Effect(s)
  <2>1. /\ \A type \in Counts :
             CountIn(task'.artifacts, type) =
               Count(type) + (IF s.op = "publish" /\ s.type = type THEN 1 ELSE 0)
    BY <1>1, <1>2, <1>14, SameArtifacts
  <2> QED
    BY <1>1, <1>14, <1>15, <2>1 DEF Effect
<1>19. At(stage, n, k + 1)'
  BY <1>1, <1>2, <1>3, <1>4, <1>11, <1>18, EffectAdvances
<1> QED
  BY <1>2, <1>5, <1>15, <1>16, <1>17, <1>19 DEF PipelineInv

LEMMA CheckpointKeeps ==
  ASSUME PipelineInv, Checkpoint
  PROVE  PipelineInv'
<1>1. /\ PipelineTypes /\ Checkpointed /\ SavePending /\ phase = "running"
  BY DEF PipelineInv, SavePending, Checkpoint, Next1
<1>2. PICK stage \in Stages, n \in 0..30, k \in 0..30 : At(stage, n, k)
  BY DEF PipelineInv
<1>3. PICK rest : rest = Tail(todo) /\ rest \in Seq(Statements) /\ rest = Left
  <2>1. PICK td : td = todo /\ td \in Seq(Statements) /\ td # << >>
    BY <1>1 DEF PipelineTypes, SavePending
  <2>2. Tail(td) \in Seq(Statements)
    BY <2>1
  <2>3. Left = Tail(td)
    BY <1>1, <2>1 DEF Left
  <2> QED
    BY <2>1, <2>2, <2>3
<1>4. rest # << >> /\ IsLeft(provider, rest, stage, n, k)
  BY <1>1, <1>2, <1>3 DEF PipelineTypes, At, OnPlan
<1>5. Head(rest).op # "save"
  <2>1. /\ Head(rest) = rest[1] /\ Len(rest) \in Nat \ {0}
    BY <1>3, <1>4
  <2>2. /\ n = Length(provider, stage) /\ n \in 4..25
        /\ \A m \in 0..n - 1 : Fits(provider, stage, n, m, Plan(provider, stage)[m + 1])
    <3>1. n = Length(provider, stage)
      BY <1>4, PlanFits DEF IsLeft
    <3> QED
      BY <3>1, PlanFits, LengthKnown
  <2>3. 1 \in 1..n - k /\ k \in 0..n - 1
    BY <1>4, <2>1, <2>2 DEF IsLeft
  <2>4. rest[1] = Plan(provider, stage)[k + 1]
    BY <1>4, <2>3 DEF IsLeft
  <2> QED
    BY <2>1, <2>2, <2>3, <2>4 DEF Fits
<1>6. todo' = rest /\ ~SavePending' /\ Left' = rest
  BY <1>3, <1>5 DEF Checkpoint, SavePending, Left
<1>7. saved' = task /\ UNCHANGED <<provider, phase, attempt, verdicts, task, workspace, verifier>>
  BY DEF Checkpoint, process
<1>8. PipelineTypes'
  BY <1>1, <1>3, <1>4, <1>6, <1>7 DEF PipelineTypes
<1>9. Checkpointed'
  <2>1. task \in TaskRecords /\ task.version \in Nat /\ Len(task.artifacts) \in Nat
    BY <1>1 DEF PipelineTypes, TaskRecords
  <2>2. task.version = 0 => task.state = "RECEIVED"
    BY <1>1 DEF Checkpointed
  <2> QED
    BY <1>6, <1>7, <2>1, <2>2 DEF Checkpointed
<1>10. At(stage, n, k)'
  <2>1. OnPlan(stage, n, k)'
    BY <1>4, <1>6, <1>7 DEF OnPlan
  <2> QED
    BY <1>2, <1>7, <2>1 DEF At, Counted, Count, Passed, Asked, Worked
<1> QED
  BY <1>1, <1>7, <1>8, <1>9, <1>10 DEF PipelineInv

\* A plan of which nothing has been executed.
LEMMA PlanStart ==
  ASSUME NEW p, NEW stage \in Stages
  PROVE  /\ Plan(p, stage) \in Seq(Statements) /\ Plan(p, stage) # << >>
         /\ Head(Plan(p, stage)).op # "save"
         /\ Length(p, stage) \in 4..25
         /\ IsLeft(p, Plan(p, stage), stage, Length(p, stage), 0)
<1>1. PICK plan, n : plan = Plan(p, stage) /\ n = Length(p, stage)
  OBVIOUS
<1>2. plan \in Seq(Statements) /\ Len(plan) = n /\ n \in 4..25
      /\ \A k \in 0..n - 1 : Fits(p, stage, n, k, plan[k + 1])
  BY <1>1, PlanFits, LengthKnown
<1>3. plan # << >> /\ Head(plan) = plan[1]
  BY <1>2
<1>4. 0 \in 0..n - 1 /\ 0 + 1 = 1 /\ 0 \in 0..n /\ n - 0 = n
  BY <1>2
<1>5. Head(plan).op # "save"
  <2>1. Fits(p, stage, n, 0, plan[0 + 1])
    BY <1>2, <1>4
  <2>2. Fits(p, stage, n, 0, Head(plan))
    BY <1>3, <1>4, <2>1
  <2> QED
    BY <2>2 DEF Fits
<1>6. \A i \in 1..n : 0 + i = i
  OBVIOUS
<1>7. IsLeft(p, plan, stage, n, 0)
  <2>1. \A i \in 1..n - 0 : plan[i] = plan[0 + i]
    BY <1>4, <1>6
  <2> QED
    BY <1>1, <1>2, <1>4, <2>1 DEF IsLeft
<1> QED
  BY <1>1, <1>2, <1>3, <1>5, <1>7

\* Where a run stands when it judges an attempt.
LEMMA Judged ==
  ASSUME PipelineInv, Next1("judge"),
         NEW stage \in Stages, NEW n \in 0..30, NEW k \in 0..30, At(stage, n, k)
  PROVE  /\ stage \in Loop /\ task.state = "VERIFYING" /\ task.approval = "APPROVED"
         /\ attempt = IF stage = "first" THEN 1 ELSE 2
         /\ Len(verdicts) = attempt /\ Count("PatchBundle") = attempt
         /\ Count("VerificationReport") = attempt
         /\ provider = "fixture-local" => workspace = 1..attempt
<1>1. PipelineTypes /\ phase = "running" /\ ~SavePending /\ Head(todo).op = "judge"
  BY DEF PipelineInv, Next1, SavePending
<1>2. /\ n = Length(provider, stage) /\ Fits(provider, stage, n, k, Head(todo))
  BY <1>1, Popped DEF At
<1>3. stage \in Loop /\ k = n - 1
  BY <1>1, <1>2 DEF Fits
<1>4. (stage = "first" /\ n \in {23, 25}) \/ (stage = "second" /\ n \in {9, 10})
  BY <1>2, <1>3 DEF Loop, Length
<1>5. task.state = "VERIFYING"
  <2>1. task.state = Reached(stage, n, k)
    BY DEF At
  <2> QED
    BY <1>3, <1>4, <2>1 DEF Reached, InFirst, InSecond
<1>6. task.approval = "APPROVED"
  <2>1. stage # "first" \/ k >= 14
    BY <1>3, <1>4
  <2> QED
    BY <2>1 DEF At, Asked
<1>7. ~(k <= n - 4) /\ ~(k <= n - 6) /\ ~(k <= n - 2) /\ k >= n - 8
  BY <1>3, <1>4
<1>8. /\ attempt = IF stage = "first" THEN 1 ELSE 2
      /\ Len(verdicts) = attempt /\ Count("PatchBundle") = attempt
      /\ Count("VerificationReport") = attempt
  BY <1>3, <1>7 DEF At, Counted
<1>9. provider = "fixture-local" => workspace = 1..attempt
  BY <1>3, <1>7 DEF At, Worked
<1> QED
  BY <1>3, <1>5, <1>6, <1>8, <1>9

\* A decision replaces the plan and leaves the task alone.
LEMMA NewPlan ==
  ASSUME PipelineInv, Next1("judge"), NEW stage \in Stages, todo' = Plan(provider, stage),
         attempt' \in 1..2,
         UNCHANGED <<process, files, verdicts, task>>,
         NEW n, n = Length(provider, stage),
         task.state = Reached(stage, n, 0),
         Counted(stage, n, 0)', Asked(stage, 0)', Worked(stage, n, 0)'
  PROVE  PipelineInv'
<1>1. /\ PipelineTypes /\ Checkpointed /\ ~SavePending /\ phase = "running"
  BY DEF PipelineInv, SavePending, Next1
<1>2. UNCHANGED <<provider, phase, verdicts, task, saved>>
  BY DEF process, files
<1>3. PICK plan : /\ plan = Plan(provider, stage) /\ plan \in Seq(Statements) /\ plan # << >>
                  /\ Head(plan).op # "save" /\ n \in 4..25
                  /\ IsLeft(provider, plan, stage, n, 0)
  BY PlanStart
<1>4. ~SavePending' /\ Left' = plan
  BY <1>3 DEF SavePending, Left
<1>5. PipelineTypes'
  BY <1>1, <1>2, <1>3, <1>4 DEF PipelineTypes
<1>6. Checkpointed'
  BY <1>1, <1>2, <1>4 DEF Checkpointed
<1>7. At(stage, n, 0)'
  BY <1>2, <1>3, <1>4 DEF At, OnPlan
<1>8. n \in 0..30 /\ 0 \in 0..30
  BY <1>3
<1> QED
  BY <1>1, <1>2, <1>5, <1>6, <1>7, <1>8 DEF PipelineInv

LEMMA JudgeKeeps ==
  ASSUME PipelineInv, JudgeAttempt
  PROVE  PipelineInv'
<1>1. Next1("judge") /\ UNCHANGED <<process, files, verdicts, task>>
  BY DEF JudgeAttempt
<1>2. PICK before \in Stages, m \in 0..30, k \in 0..30 : At(before, m, k)
  BY DEF PipelineInv
<1>3. /\ before \in Loop /\ task.state = "VERIFYING" /\ task.approval = "APPROVED"
      /\ attempt = IF before = "first" THEN 1 ELSE 2
      /\ Len(verdicts) = attempt /\ Count("PatchBundle") = attempt
      /\ Count("VerificationReport") = attempt
      /\ provider = "fixture-local" => workspace = 1..attempt
  BY <1>1, <1>2, Judged
<1>4. attempt \in 1..2
  BY DEF PipelineInv, PipelineTypes
<1>5. /\ Count("PatchBundle")' = attempt /\ Count("VerificationReport")' = attempt
      /\ provider' = provider /\ workspace' = workspace /\ verifier' = verifier
      /\ verdicts' = verdicts /\ task' = task
  BY <1>1, <1>3 DEF Count, process, files
<1>6. CASE Verdict = "release"
  <2>1. Passed /\ todo' = Plan(provider, "released") /\ attempt' = attempt
    BY <1>6 DEF JudgeAttempt, Verdict, Plan
  <2>2. "released" \in Stages \ Loop /\ task.state = Reached("released", 8, 0)
        /\ 8 = Length(provider, "released")
    BY <1>3 DEF Stages, Loop, Reached, InReleased, Length
  <2>3. Counted("released", 8, 0)'
    <3>1. Len(verdicts') > 0
      <4>1. verdicts' = verdicts
        BY <1>5
      <4>2. Len(verdicts) = attempt
        BY <1>3
      <4> QED
        BY <1>4, <4>1, <4>2
    <3>2. Count("PatchBundle")' = Len(verdicts') /\ Count("VerificationReport")' = Len(verdicts')
      BY <1>3, <1>5
    <3>3. Passed' <=> "released" = "released"
      BY <1>5, <2>1 DEF Passed
    <3> QED
      BY <2>2, <3>1, <3>2, <3>3 DEF Counted
  <2>4. Asked("released", 0)' /\ Worked("released", 8, 0)'
    BY <1>3, <1>5, <2>2 DEF Asked, Worked
  <2> QED
    BY <1>1, <1>4, <2>1, <2>2, <2>3, <2>4, NewPlan
<1>7. CASE Verdict = "again"
  <2>1. attempt = 1 /\ attempt' = 2
    BY <1>4, <1>7 DEF JudgeAttempt, Verdict
  <2>2. todo' = Plan(provider, "second")
    <3>1. attempt + 1 = 2
      BY <2>1
    <3> QED
      BY <1>7, <3>1 DEF JudgeAttempt, Plan
  <2>3. PICK n : n = Length(provider, "second")
    OBVIOUS
  <2>4. n \in {9, 10} /\ (provider = "fixture-local" => n = 10)
    BY <2>3 DEF Length
  <2>5. "second" \in Stages /\ "second" \in Loop /\ task.state = Reached("second", n, 0)
    BY <1>3, <2>4 DEF Stages, Loop, Reached, InSecond
  <2>6. Counted("second", n, 0)'
    <3>1. 0 <= n - 4 /\ 0 <= n - 6 /\ 0 <= n - 2 /\ 2 - 1 = 1
      BY <2>4
    <3> QED
      BY <1>3, <1>5, <2>1, <2>5, <3>1 DEF Counted
  <2>7. Asked("second", 0)'
    BY <1>3, <1>5 DEF Asked
  <2>8. Worked("second", n, 0)'
    <3>1. provider = "fixture-local" => ~(0 >= n - 8) /\ ~(0 >= n - 7)
      BY <2>4
    <3>2. provider = "fixture-local" => workspace = 1..2 - 1
      BY <1>3, <2>1
    <3> QED
      BY <1>5, <2>1, <3>1, <3>2 DEF Worked
  <2> QED
    BY <1>1, <2>1, <2>2, <2>3, <2>5, <2>6, <2>7, <2>8, NewPlan
<1>8. CASE Verdict = "human"
  <2>1. ~Passed /\ todo' = Plan(provider, "given_up") /\ attempt' = attempt
    BY <1>8 DEF JudgeAttempt, Verdict, Plan
  <2>2. "given_up" \in Stages \ Loop /\ task.state = Reached("given_up", 4, 0)
        /\ 4 = Length(provider, "given_up")
    BY <1>3 DEF Stages, Loop, Reached, InGivenUp, Length
  <2>3. Counted("given_up", 4, 0)'
    <3>1. Len(verdicts') > 0
      <4>1. verdicts' = verdicts
        BY <1>5
      <4>2. Len(verdicts) = attempt
        BY <1>3
      <4> QED
        BY <1>4, <4>1, <4>2
    <3>2. Count("PatchBundle")' = Len(verdicts') /\ Count("VerificationReport")' = Len(verdicts')
      BY <1>3, <1>5
    <3>3. Passed' <=> "given_up" = "released"
      BY <1>5, <2>1 DEF Passed
    <3> QED
      BY <2>2, <3>1, <3>2, <3>3 DEF Counted
  <2>4. Asked("given_up", 0)' /\ Worked("given_up", 4, 0)'
    BY <1>3, <1>5, <2>2 DEF Asked, Worked
  <2> QED
    BY <1>1, <1>4, <2>1, <2>2, <2>3, <2>4, NewPlan
<1> QED
  BY <1>6, <1>7, <1>8 DEF JudgeAttempt

-----------------------------------------------------------------------------
(* The first statement and the last                                        *)

LEMMA NoneCounted ==
  ASSUME NEW type
  PROVE  CountIn(<< >>, type) = 0
<1>1. {i \in DOMAIN << >> : << >>[i] = type} = {}
  OBVIOUS
<1> QED
  BY <1>1, FS_EmptySet DEF CountIn

LEMMA NewTaskKnown ==
  /\ NewTask \in TaskRecords /\ NewTask.state = "RECEIVED" /\ NewTask.version = 0
  /\ NewTask.artifacts = << >>
<1>1. << >> \in Seq(ArtifactTypes) /\ "RECEIVED" \in States
  BY NamesKnown
<1> QED
  BY <1>1 DEF NewTask, TaskRecords

LEMMA InitHolds == Init => PipelineInv
<1> SUFFICES ASSUME Init
             PROVE  PipelineInv
  OBVIOUS
<1>1. PICK plan, n : /\ plan = Plan(provider, "first") /\ n = Length(provider, "first")
  OBVIOUS
<1>2. /\ plan \in Seq(Statements) /\ plan # << >> /\ Head(plan).op # "save" /\ n \in 4..25
      /\ IsLeft(provider, plan, "first", n, 0)
      /\ "first" \in Stages /\ "first" \in Loop
  <2>1. "first" \in Stages /\ "first" \in Loop
    BY DEF Stages, Loop
  <2> QED
    BY <1>1, <2>1, PlanStart
<1>3. todo = plan
  BY <1>1 DEF Init, Plan
<1>4. ~SavePending /\ Left = plan
  BY <1>2, <1>3 DEF SavePending, Left
<1>5. /\ provider \in Providers /\ phase = "running" /\ attempt = 1 /\ verdicts = << >>
      /\ task = NewTask /\ saved = Nothing
  BY DEF Init
<1>6. PipelineTypes
  <2>1. << >> \in Seq(Results) /\ 1 \in 1..2
    OBVIOUS
  <2> QED
    BY <1>2, <1>3, <1>4, <1>5, <2>1, NewTaskKnown DEF PipelineTypes
<1>7. Checkpointed
  BY <1>4, <1>5, NewTaskKnown DEF Checkpointed
<1>8. At("first", n, 0)
  <2>1. n \in {23, 25} /\ (provider = "fixture-local" => n = 25)
    BY <1>1 DEF Length
  <2>2. OnPlan("first", n, 0)
    BY <1>2, <1>4 DEF OnPlan
  <2>3. task.state = Reached("first", n, 0)
    BY <1>5, <2>1, NewTaskKnown DEF Reached, InFirst
  <2>4. Counted("first", n, 0)
    <3>1. Count("PatchBundle") = 0 /\ Count("VerificationReport") = 0
      BY <1>5, NewTaskKnown, NoneCounted DEF Count
    <3>2. 0 <= n - 4 /\ 0 <= n - 6 /\ 0 <= n - 2 /\ 1 - 1 = 0 /\ Len(verdicts) = 0
      BY <1>5, <2>1
    <3> QED
      BY <1>2, <1>5, <3>1, <3>2 DEF Counted
  <2>5. Asked("first", 0)
    BY DEF Asked
  <2>6. Worked("first", n, 0)
    BY <2>1 DEF Worked
  <2> QED
    BY <2>2, <2>3, <2>4, <2>5, <2>6 DEF At
<1>9. n \in 0..30 /\ 0 \in 0..30
  BY <1>2
<1> QED
  BY <1>2, <1>5, <1>6, <1>7, <1>8, <1>9 DEF PipelineInv

\* A run after a crash starts over, and ignores the checkpoint it finds.
LEMMA RunAgainKeeps ==
  ASSUME PipelineInv, RunAgain
  PROVE  PipelineInv'
<1>1. PICK p \in Providers : p = provider'
  BY DEF RunAgain
<1>2. PICK plan, n : /\ plan = Plan(p, "first") /\ n = Length(p, "first")
  OBVIOUS
<1>3. /\ plan \in Seq(Statements) /\ plan # << >> /\ Head(plan).op # "save" /\ n \in 4..25
      /\ IsLeft(p, plan, "first", n, 0)
      /\ "first" \in Stages /\ "first" \in Loop
  <2>1. "first" \in Stages /\ "first" \in Loop
    BY DEF Stages, Loop
  <2> QED
    BY <1>2, <2>1, PlanStart
<1>4. todo' = plan
  BY <1>1, <1>2 DEF RunAgain, Plan
<1>5. ~SavePending' /\ Left' = plan
  BY <1>3, <1>4 DEF SavePending, Left
<1>6. /\ phase' = "running" /\ attempt' = 1 /\ verdicts' = << >>
      /\ task' = NewTask /\ saved' = saved
  BY DEF RunAgain, files
<1>7. PipelineTypes'
  <2>1. << >> \in Seq(Results) /\ 1 \in 1..2
    OBVIOUS
  <2>2. saved = Nothing \/ saved \in TaskRecords
    BY DEF PipelineInv, PipelineTypes
  <2> QED
    BY <1>1, <1>3, <1>4, <1>5, <1>6, <2>1, <2>2, NewTaskKnown DEF PipelineTypes
<1>8. Checkpointed'
  BY <1>5, <1>6, NewTaskKnown DEF Checkpointed
<1>9. At("first", n, 0)'
  <2>1. n \in {23, 25} /\ (p = "fixture-local" => n = 25)
    BY <1>2 DEF Length
  <2>2. OnPlan("first", n, 0)'
    BY <1>1, <1>3, <1>5 DEF OnPlan
  <2>3. task'.state = Reached("first", n, 0)
    BY <1>6, <2>1, NewTaskKnown DEF Reached, InFirst
  <2>4. Counted("first", n, 0)'
    <3>1. CountIn(task'.artifacts, "PatchBundle") = 0
          /\ CountIn(task'.artifacts, "VerificationReport") = 0
      BY <1>6, NewTaskKnown, NoneCounted
    <3>2. 0 <= n - 4 /\ 0 <= n - 6 /\ 0 <= n - 2 /\ 1 - 1 = 0 /\ Len(verdicts') = 0
      BY <1>6, <2>1
    <3> QED
      BY <1>3, <1>6, <3>1, <3>2 DEF Counted, Count
  <2>5. Asked("first", 0)'
    BY DEF Asked
  <2>6. Worked("first", n, 0)'
    BY <1>1, <2>1 DEF Worked
  <2> QED
    BY <2>2, <2>3, <2>4, <2>5, <2>6 DEF At
<1>10. n \in 0..30 /\ 0 \in 0..30
  BY <1>3
<1> QED
  BY <1>3, <1>6, <1>7, <1>8, <1>9, <1>10 DEF PipelineInv

\* The last statement finds the run decided.
LEMMA FillPackKeeps ==
  ASSUME PipelineInv, FillPack
  PROVE  PipelineInv'
<1>1. /\ PipelineTypes /\ Checkpointed /\ ~SavePending /\ phase = "running"
      /\ Head(todo).op = "write"
  BY DEF PipelineInv, SavePending, FillPack, Next1
<1>2. PICK stage \in Stages, n \in 0..30, k \in 0..30 : At(stage, n, k)
  BY DEF PipelineInv
<1>3. /\ n = Length(provider, stage) /\ n \in 4..25 /\ k \in 0..n - 1
      /\ Fits(provider, stage, n, k, Head(todo))
      /\ IsLeft(provider, Tail(todo), stage, n, k + 1)
  BY <1>1, <1>2, Popped DEF At
<1>4. stage \notin Loop /\ k = n - 1 /\ k + 1 = n
  <2>1. stage \notin Loop /\ k = n - 1
    BY <1>1, <1>3 DEF Fits
  <2>2. n \in 4..25
    BY <1>3
  <2> QED
    BY <2>1, <2>2
<1>5. (stage = "released" /\ n = 8 /\ k = 7) \/ (stage = "given_up" /\ n = 4 /\ k = 3)
  BY <1>3, <1>4 DEF Stages, Loop, Length
<1>6. /\ todo' = << >> /\ phase' = "ended"
      /\ pack' = [state |-> task.state, task |-> task, checkpoint |-> saved]
      /\ UNCHANGED <<provider, attempt, verdicts, task, saved, workspace, verifier>>
  BY DEF FillPack
<1>7. ~SavePending' /\ Left' = << >>
  BY <1>6 DEF SavePending, Left
<1>8. PipelineTypes'
  <2>1. << >> \in Seq(Statements)
    OBVIOUS
  <2> QED
    BY <1>1, <1>6, <2>1 DEF PipelineTypes
<1>9. Checkpointed'
  BY <1>1, <1>6, <1>7 DEF Checkpointed
<1>10. At(stage, n, k + 1)'
  <2>1. IsLeft(provider, Left', stage, n, k + 1)
    <3>1. n - (k + 1) = 0 /\ n = Len(Plan(provider, stage)) /\ k + 1 \in 0..n
      BY <1>3, <1>4 DEF IsLeft
    <3> QED
      BY <1>7, <3>1 DEF IsLeft
  <2>2. Effect(Head(todo))
    <3>1. PICK s : s = Head(todo) /\ s.op = "write"
      BY <1>1
    <3>2. \A type \in Counts :
            CountIn(task'.artifacts, type) =
              Count(type) + (IF s.op = "publish" /\ s.type = type THEN 1 ELSE 0)
      BY <1>1, <1>6, <3>1, SameArtifacts
    <3> QED
      BY <1>6, <3>1, <3>2 DEF Effect
  <2> QED
    BY <1>1, <1>2, <1>3, <2>1, <2>2, EffectAdvances
<1>11. EndsDecided'
  <2>1. /\ Count("PatchBundle") = Len(verdicts) /\ Count("VerificationReport") = Len(verdicts)
        /\ Passed <=> stage = "released"
    BY <1>2, <1>4 DEF At, Counted
  <2>2. task.approval = "APPROVED"
    BY <1>2, <1>5 DEF At, Asked
  <2>3. task.state = IF stage = "released" THEN "CLOSED" ELSE "NEEDS_HUMAN"
    BY <1>2, <1>5 DEF At, Reached, InReleased, InGivenUp
  <2>4. task \in TaskRecords /\ task.version \in Nat /\ task.version # 0
    <3>1. task.state # "RECEIVED"
      BY <2>3
    <3> QED
      BY <1>1, <3>1 DEF PipelineTypes, TaskRecords, Checkpointed
  <2>5. saved.version = task.version
    BY <1>1, <2>4 DEF Checkpointed
  <2>6. pack'.checkpoint.version = task'.version
    BY <1>6, <2>5
  <2>7. Passed' <=> Passed
    BY <1>6 DEF Passed
  <2>8. /\ Cardinality({i \in DOMAIN task'.artifacts : task'.artifacts[i] = "PatchBundle"})
             = Len(verdicts')
        /\ Cardinality({i \in DOMAIN task'.artifacts : task'.artifacts[i] = "VerificationReport"})
             = Len(verdicts')
    BY <1>6, <2>1 DEF Count, CountIn
  <2> QED
    BY <1>6, <2>1, <2>2, <2>3, <2>6, <2>7, <2>8 DEF EndsDecided
<1>12. k + 1 \in 0..30
  BY <1>5
<1> QED
  BY <1>8, <1>9, <1>10, <1>11, <1>12 DEF PipelineInv

LEMMA OthersKeep ==
  ASSUME PipelineInv, Die \/ UNCHANGED vars
  PROVE  PipelineInv'
<1>1. /\ UNCHANGED <<provider, todo, attempt, verdicts, task, saved, workspace, verifier>>
      /\ (phase' = phase /\ pack' = pack) \/ phase' = "dead"
  BY DEF Die, files, vars
<1>2. PipelineTypes /\ Checkpointed
  BY DEF PipelineInv
<1>3. SavePending' = SavePending /\ Left' = Left
  BY <1>1 DEF SavePending, Left
<1>4. PipelineTypes'
  <2>1. phase' \in {"running", "dead", "ended"} /\ (phase' = "running" => phase = "running")
    BY <1>1, <1>2 DEF PipelineTypes
  <2> QED
    BY <1>1, <1>2, <1>3, <2>1 DEF PipelineTypes
<1>5. Checkpointed'
  BY <1>1, <1>2, <1>3 DEF Checkpointed
<1>6. PICK stage \in Stages, n \in 0..30, k \in 0..30 : At(stage, n, k)
  BY DEF PipelineInv
<1>7. At(stage, n, k)'
  <2>1. OnPlan(stage, n, k)'
    BY <1>1, <1>3, <1>6 DEF At, OnPlan
  <2> QED
    BY <1>1, <1>6, <2>1 DEF At, Counted, Count, Passed, Asked, Worked
<1>8. phase' = "ended" => EndsDecided'
  <2> SUFFICES ASSUME phase' = "ended"
               PROVE  EndsDecided'
    OBVIOUS
  <2>1. phase = "ended" /\ UNCHANGED <<phase, task, pack, verdicts>>
    BY <1>1
  <2>2. EndsDecided
    BY <2>1 DEF PipelineInv
  <2> QED
    BY <2>1, <2>2 DEF EndsDecided, Passed
<1> QED
  BY <1>4, <1>5, <1>6, <1>7, <1>8 DEF PipelineInv

-----------------------------------------------------------------------------
(* Theorems                                                                *)

\* Every step of a run, of its death or of its repetition keeps the invariant.
THEOREM PipelineInductive == Spec => []PipelineInv
<1>1. Init => PipelineInv
  BY InitHolds
<1>2. PipelineInv /\ [Next]_vars => PipelineInv'
  <2> SUFFICES ASSUME PipelineInv, [Next]_vars
               PROVE  PipelineInv'
    OBVIOUS
  <2>1. CASE RecordEvidence
    BY <2>1, RecordEvidenceKeeps
  <2>2. CASE Transition
    BY <2>2, TransitionKeeps
  <2>3. CASE Checkpoint
    BY <2>3, CheckpointKeeps
  <2>4. CASE PublishArtifact
    BY <2>4, PublishKeeps
  <2>5. CASE RequestApproval
    BY <2>5, RequestKeeps
  <2>6. CASE DecideApproval
    BY <2>6, DecideKeeps
  <2>7. CASE PrepareWorkspaces \/ ApplyPatch \/ CopyToVerifier \/ ExecuteElsewhere \/ TruncatePack
    BY <2>7, WorkspacesKeep
  <2>8. CASE \E report \in Reports : RunVerification(report)
    BY <2>8, VerificationKeeps
  <2>9. CASE JudgeAttempt
    BY <2>9, JudgeKeeps
  <2>10. CASE FillPack
    BY <2>10, FillPackKeeps
  <2>11. CASE Die \/ UNCHANGED vars
    BY <2>11, OthersKeep
  <2>12. CASE RunAgain
    BY <2>12, RunAgainKeeps
  <2> QED
    BY <2>1, <2>2, <2>3, <2>4, <2>5, <2>6, <2>7, <2>8, <2>9, <2>10, <2>11, <2>12 DEF Next, Step
<1> QED
  BY <1>1, <1>2, PTL DEF Spec

\* CheckpointFollows for every provider and any number of runs: the row that
\* _checkpoint leaves is the run's own, one move behind its memory at most.
THEOREM CheckpointsFollow == Spec => []CheckpointFollows
<1>1. PipelineInv => CheckpointFollows
  <2> SUFFICES ASSUME PipelineInv, phase = "running", task.version > 1
               PROVE  /\ saved # Nothing
                      /\ task.version - 1 <= saved.version /\ saved.version <= task.version
                      /\ Prefix(saved.artifacts, task.artifacts)
                      /\ saved.version = task.version => saved.state = task.state
    BY DEF CheckpointFollows
  <2>1. task \in TaskRecords /\ task.version \in Nat /\ task.artifacts \in Seq(ArtifactTypes)
    BY DEF PipelineInv, PipelineTypes, TaskRecords
  <2>2. task.version > (IF SavePending THEN 1 ELSE 0)
    BY <2>1
  <2>3. /\ saved \in TaskRecords
        /\ saved.version = task.version - (IF SavePending THEN 1 ELSE 0)
        /\ Len(saved.artifacts) <= Len(task.artifacts)
        /\ \A i \in 1..Len(saved.artifacts) : task.artifacts[i] = saved.artifacts[i]
        /\ ~SavePending => saved.state = task.state
    BY <2>2 DEF PipelineInv, Checkpointed
  <2>4. saved # Nothing
    <3>1. saved.state \in States
      BY <2>3 DEF TaskRecords
    <3>2. "NONE" \notin States
      BY DEF States, TRANSITIONS
    <3> QED
      BY <3>1, <3>2 DEF Nothing
  <2>5. /\ task.version - 1 <= saved.version /\ saved.version <= task.version
        /\ saved.version = task.version => saved.state = task.state
    BY <2>1, <2>3
  <2>6. Prefix(saved.artifacts, task.artifacts)
    <3>1. PICK a, b : a = saved.artifacts /\ b = task.artifacts
      OBVIOUS
    <3>2. /\ a \in Seq(ArtifactTypes) /\ b \in Seq(ArtifactTypes) /\ Len(a) <= Len(b)
          /\ \A i \in 1..Len(a) : b[i] = a[i]
      BY <2>1, <2>3, <3>1 DEF TaskRecords
    <3>3. Len(a) \in Nat /\ \A i \in 1..Len(a) : b[i] \in ArtifactTypes
      BY <3>2
    <3>4. /\ SubSeq(b, 1, Len(a)) \in Seq(ArtifactTypes)
          /\ Len(SubSeq(b, 1, Len(a))) = IF 1 <= Len(a) THEN Len(a) - 1 + 1 ELSE 0
          /\ \A i \in 1..Len(a) - 1 + 1 : SubSeq(b, 1, Len(a))[i] = b[1 + i - 1]
      BY <3>3, SubSeqProperties
    <3>5. Len(a) = Len(SubSeq(b, 1, Len(a)))
      BY <3>3, <3>4
    <3>6. \A i \in 1..Len(a) : a[i] = SubSeq(b, 1, Len(a))[i]
      <4>1. Len(a) - 1 + 1 = Len(a) /\ \A i \in 1..Len(a) : 1 + i - 1 = i
        BY <3>3
      <4> QED
        BY <3>2, <3>4, <4>1
    <3>7. a = SubSeq(b, 1, Len(a))
      BY <3>2, <3>4, <3>5, <3>6, SeqEqual
    <3> QED
      BY <3>1, <3>2, <3>7 DEF Prefix
  <2> QED
    BY <2>4, <2>5, <2>6
<1> QED
  BY <1>1, PipelineInductive, PTL

\* VerifierSeesPatch for any number of runs: no patch of a dead run is verified
\* with this run's, and none of this run's is missing.
THEOREM VerifiersSeePatches == Spec => []VerifierSeesPatch
<1>1. PipelineInv => VerifierSeesPatch
  <2> SUFFICES ASSUME PipelineInv, provider = "fixture-local", Next1("verify")
               PROVE  verifier = 1..attempt /\ workspace = verifier
    BY DEF VerifierSeesPatch
  <2>1. PipelineTypes /\ phase = "running" /\ ~SavePending /\ Head(todo).op = "verify"
    BY DEF PipelineInv, Next1, SavePending
  <2>2. PICK stage \in Stages, n \in 0..30, k \in 0..30 : At(stage, n, k)
    BY DEF PipelineInv
  <2>3. Fits(provider, stage, n, k, Head(todo)) /\ n \in 4..25
    BY <2>1, <2>2, Popped DEF At
  <2>4. stage \in Loop /\ k = n - 4
    BY <2>1, <2>3 DEF Fits
  <2>5. k >= n - 8 /\ k >= n - 7
    BY <2>3, <2>4
  <2> QED
    BY <2>2, <2>4, <2>5 DEF At, Worked
<1> QED
  BY <1>1, PipelineInductive, PTL

\* NothingRefused for every provider, whatever earlier runs left behind: what
\* run_demo does is accepted by the control plane and by the workspaces.
THEOREM RunsAreNotRefused == Spec => []NothingRefused
<1>1. PipelineInv => NothingRefused
  <2> SUFFICES ASSUME PipelineInv, phase = "running"
               PROVE  /\ todo # << >>
                      /\ Next1("move") => /\ Head(todo).target \in TRANSITIONS[task.state]
                                          /\ Head(todo).target \in PIPELINE_AGENTS[Head(todo).actor]
                      /\ Next1("approve") => /\ task.approval = "PENDING"
                                             /\ task.state = "AWAITING_APPROVAL"
                      /\ Next1("patch") => attempt \notin workspace
    BY DEF NothingRefused
  <2>1. todo # << >>
    BY DEF PipelineInv, PipelineTypes, Left, SavePending
  <2>2. PICK stage \in Stages, n \in 0..30, k \in 0..30 : At(stage, n, k)
    BY DEF PipelineInv
  <2>3. task.state = Reached(stage, n, k) /\ attempt \in 1..2
    BY <2>2 DEF At, PipelineInv, PipelineTypes
  <2>4. ASSUME Head(todo).op # "save"
        PROVE  /\ Fits(provider, stage, n, k, Head(todo))
               /\ n \in 4..25 /\ n = Length(provider, stage)
    <3>1. PipelineTypes /\ ~SavePending
      BY <2>4 DEF PipelineInv, SavePending
    <3> QED
      BY <2>2, <3>1, Popped DEF At
  <2>5. Next1("move") => /\ Head(todo).target \in TRANSITIONS[task.state]
                         /\ Head(todo).target \in PIPELINE_AGENTS[Head(todo).actor]
    BY <2>3, <2>4 DEF Next1, Fits
  <2>6. ASSUME Next1("approve")
        PROVE  task.approval = "PENDING" /\ task.state = "AWAITING_APPROVAL"
    <3>1. Head(todo).op = "approve"
      BY <2>6 DEF Next1
    <3>2. stage = "first" /\ k = 13 /\ n \in {23, 25}
      BY <2>4, <3>1 DEF Fits, Length
    <3> QED
      BY <2>2, <2>3, <3>2 DEF At, Asked, Reached, InFirst
  <2>7. ASSUME Next1("patch")
        PROVE  attempt \notin workspace
    <3>1. Head(todo).op = "patch"
      BY <2>7 DEF Next1
    <3>2. provider = "fixture-local" /\ stage \in Loop /\ k = n - 9
      BY <2>4, <3>1 DEF Fits
    <3>3. workspace = 1..attempt - 1
      BY <2>2, <3>2 DEF At, Worked
    <3> QED
      BY <2>3, <3>3
  <2> QED
    BY <2>1, <2>5, <2>6, <2>7
<1> QED
  BY <1>1, PipelineInductive, PTL

\* EndsDecided for every provider and any number of runs: how every run that is
\* not killed ends.
THEOREM RunsEndDecided == Spec => []EndsDecided
<1>1. PipelineInv => EndsDecided
  <2>1. CASE phase = "ended"
    BY <2>1 DEF PipelineInv
  <2>2. CASE phase # "ended"
    BY <2>2 DEF EndsDecided
  <2> QED
    BY <2>1, <2>2
<1> QED
  BY <1>1, PipelineInductive, PTL

=============================================================================
