--------------------------- MODULE EvidenceExport ---------------------------
(***************************************************************************)
(* The reading tools of SQLiteStateAuthority: evidence_pack, with and      *)
(* without validate=true, and state_describe.                              *)
(*                                                                         *)
(* A reader opens an autocommit connection and sends one SELECT after      *)
(* another, each of which sees the tables of its own moment.  The writing  *)
(* tools run between them, so what the tool answers may be the task of no  *)
(* single moment.  Readers change no table and do not see each other, so   *)
(* one call at a time shows all that a call can see.                       *)
(*                                                                         *)
(* The ledger's tools write to the log of a task too, in whatever state    *)
(* it is.  SideEffectLedger says which rows; here they are just rows.      *)
(***************************************************************************)
EXTENDS StateAuthority

CONSTANT MaxEffectEvents   \* bound on the SIDE_EFFECT_ rows of one task

ASSUME EffectsAssumption == MaxEffectEvents \in Nat

VARIABLES
  effect_events,  \* effect_events[t]: the types of the SIDE_EFFECT_ rows of t
  call,           \* the call in progress: its tool, its task, the SELECTs it still sends
  copy            \* copy[c]: the rows read so far; "pack" is returned, "check" validated

readVars == <<call, copy>>
allVars  == <<vars, effect_events, readVars>>

Tools  == {"evidence_pack", "evidence_pack_validate", "state_describe"}
Copies == {"pack", "check"}

-----------------------------------------------------------------------------
(* What one SELECT returns                                                 *)

ApprovalsOf(t) ==
  LET ids == {i \in DOMAIN approvals : approvals[i].task_id = t}
  IN [i \in ids |-> approvals[i]]

ReportsOf(t) ==
  LET rows == Rows(t, "VerificationReport")
  IN [i \in rows |-> artifacts[t][i]]

\* The events of a moment are the task's chain, in events, and beside it what
\* the ARTIFACT_, APPROVAL_ and SIDE_EFFECT_ rows tell.  The first two repeat a
\* row written by their transaction, so they tell the rows of that moment.
Unread ==
  [state |-> Absent, state_version |-> 0, events |-> << >>, told_artifacts |-> << >>,
   told_approvals |-> << >>, told_effects |-> << >>,
   approvals |-> << >>, artifacts |-> << >>, reports |-> << >>]

\* The copy after the given SELECT about t.
Select(table, t, before) ==
  CASE table = "task" ->
         [before EXCEPT !.state = state[t], !.state_version = state_version[t]]
    [] table = "events" ->
         [before EXCEPT !.events = events[t], !.told_artifacts = artifacts[t],
                        !.told_approvals = ApprovalsOf(t),
                        !.told_effects = effect_events[t]]
    [] table = "approvals" -> [before EXCEPT !.approvals = ApprovalsOf(t)]
    [] table = "artifacts" -> [before EXCEPT !.artifacts = artifacts[t]]
    [] table = "reports"   -> [before EXCEPT !.reports = ReportsOf(t)]

\* Seeded: the artifacts are fetched before the events that announce them.
RowsBeforeEvents ==
  << <<"pack", "task">>, <<"pack", "approvals">>, <<"pack", "artifacts">>,
     <<"pack", "events">> >>

\* Seeded: the task row is fetched last.
TaskRowLast ==
  << <<"pack", "events">>, <<"pack", "approvals">>, <<"pack", "artifacts">>,
     <<"pack", "task">> >>

\* evidence_pack: the SELECTs in the order they are sent.
PackReads ==
  << <<"pack", "task">>, <<"pack", "events">>, <<"pack", "approvals">>,
     <<"pack", "artifacts">> >>

\* Seeded: the validation fetches the artifacts first.
CheckArtifactsFirst ==
  << <<"check", "artifacts">>, <<"check", "task">>, <<"check", "events">>,
     <<"check", "approvals">> >>

\* Seeded: the validation fetches the task row last.
CheckTaskRowLast ==
  << <<"check", "events">>, <<"check", "approvals">>, <<"check", "artifacts">>,
     <<"check", "task">> >>

\* validate_evidence_pack exports the task once more, for itself.
CheckReads ==
  << <<"check", "task">>, <<"check", "events">>, <<"check", "approvals">>,
     <<"check", "artifacts">> >>

\* Seeded: the reports are counted before the task row is fetched.
ReportsBeforeTask ==
  << <<"pack", "artifacts">>, <<"pack", "reports">>, <<"pack", "task">> >>

DescribeReads ==
  << <<"pack", "task">>, <<"pack", "artifacts">>, <<"pack", "reports">> >>

ReadsOf(tool) ==
  CASE tool = "evidence_pack"          -> PackReads
    [] tool = "evidence_pack_validate" -> PackReads \o CheckReads
    [] tool = "state_describe"         -> DescribeReads

-----------------------------------------------------------------------------

\* record_side_effect_intent and record_side_effect_result, as the log of task t
\* shows them: no state is asked for, and a result follows some intent.
RecordSideEffect(t, actor, type) ==
  /\ Created(t)
  /\ actor \in SIDE_EFFECT_WRITERS
  /\ type = "SIDE_EFFECT_RESULT" => effect_events[t] # << >>
  /\ Len(effect_events[t]) < MaxEffectEvents
  /\ effect_events' = [effect_events EXCEPT ![t] = Append(@, type)]
  /\ UNCHANGED <<vars, readVars>>

InitReader ==
  /\ effect_events = [t \in Tasks |-> << >>]
  /\ call = [tool |-> "none", task |-> Absent, reads |-> << >>]
  /\ copy = [c \in Copies |-> Unread]

\* A reading tool is called.  For a task without a row it raises
\* TASK_NOT_FOUND at its first SELECT; rows are never deleted.
Call(tool, t) ==
  /\ call.reads = << >>
  /\ Created(t)
  /\ call' = [tool |-> tool, task |-> t, reads |-> ReadsOf(tool)]
  /\ copy' = [c \in Copies |-> Unread]
  /\ UNCHANGED <<vars, effect_events>>

\* The next SELECT of the call.  When none is left the tool has answered.
Read ==
  /\ call.reads # << >>
  /\ LET c     == Head(call.reads)[1]
         table == Head(call.reads)[2]
     IN copy' = [copy EXCEPT ![c] = Select(table, call.task, @)]
  /\ call' = [call EXCEPT !.reads = Tail(@)]
  /\ UNCHANGED <<vars, effect_events>>

ExportInit == Init /\ InitReader

ExportNext ==
  \/ Next /\ UNCHANGED <<effect_events, readVars>>
  \/ \E t \in Tasks, actor \in Actors, type \in {"SIDE_EFFECT_INTENT", "SIDE_EFFECT_RESULT"} :
        RecordSideEffect(t, actor, type)
  \/ \E tool \in Tools, t \in Tasks : Call(tool, t)
  \/ Read

ExportSpec == ExportInit /\ [][ExportNext]_allVars

-----------------------------------------------------------------------------
(* Reading the answer                                                      *)

\* The tool has answered.
Answered(tool) == call.tool = tool /\ call.reads = << >>
Exported == Answered("evidence_pack") \/ Answered("evidence_pack_validate")

\* The tables as the copy shows them: the rules of the authority, applied to
\* what was read rather than to what is stored.
Seen(c) == INSTANCE StateAuthority WITH
  state         <- [t \in Tasks |-> copy[c].state],
  state_version <- [t \in Tasks |-> copy[c].state_version],
  events        <- [t \in Tasks |-> copy[c].events],
  approvals     <- copy[c].approvals,
  artifacts     <- [t \in Tasks |-> copy[c].artifacts]

\* The copy holds the task of two moments: its log goes on after its row.
Torn(c) == Cardinality(Seen(c)!Steps(call.task)) > copy[c].state_version

\* The validation returned with the pack.
Verdict == Seen("check")!PackValid(call.task)

\* breaker_tripped of state_describe.
DescribedTripped ==
  LET fails(s) == {i \in DOMAIN copy["pack"].reports :
                     /\ copy["pack"].reports[i].payload.verdict = "FAIL"
                     /\ copy["pack"].reports[i].payload.failure_signature = s}
  IN \E s \in Signatures : Cardinality(fails(s)) >= FAILURE_SIGNATURE_BREAKER_THRESHOLD

-----------------------------------------------------------------------------
(* Properties                                                              *)

\* The task row of a pack is never ahead of the log in the same pack: the log
\* reaches the row's version and stands there in the row's state, and it is an
\* unbroken chain even when it goes on.  A pack can only be torn forward.
TornForwardOnly ==
  Exported =>
    LET t == call.task
        p == copy["pack"]
    IN /\ p.state_version <= Cardinality(Seen("pack")!Steps(t))
       /\ p.state = Seen("pack")!StateAt(t, p.state_version)
       /\ \A i \in Seen("pack")!Steps(t) :
            p.events[i].source = Seen("pack")!StateAt(t, i - 2)

\* Every publication and approval that the log of a pack announces has its row
\* in the pack, and a decision announced there is the decision of the row.
EventsBacked ==
  Exported =>
    LET p == copy["pack"] IN
    /\ \A i \in DOMAIN p.told_artifacts :
         i \in DOMAIN p.artifacts /\ p.artifacts[i] = p.told_artifacts[i]
    /\ \A i \in DOMAIN p.told_approvals :
         /\ i \in DOMAIN p.approvals
         /\ p.told_approvals[i].status # "PENDING"
              => p.approvals[i].status = p.told_approvals[i].status

\* A verified task is turned down by the validation only when the copy is
\* torn: commits between the SELECTs cause no other false alarm.
InvalidOnlyIfTorn ==
  /\ Answered("evidence_pack_validate")
  /\ copy["check"].state \in {"RELEASE_READY", "READONLY_VERIFIED", "EVIDENCE_PACKED",
                              "POSTMORTEM", "SKILL_DISTILLING"}
  => Verdict \/ Torn("check")

\* The verdict is about a second copy.  For a verified or closed task it holds
\* for the pack it is returned with when both copies show the same version.
VerdictCarriesOver ==
  /\ Answered("evidence_pack_validate")
  /\ Verdict
  /\ copy["pack"].state_version = copy["check"].state_version
  => /\ Seen("pack")!ChainReplays(call.task)
     /\ copy["pack"].state \in {"RELEASE_READY", "READONLY_VERIFIED", "EVIDENCE_PACKED", "CLOSED"}
          => Seen("pack")!PackValid(call.task)

\* The lead exports with validate=true before he asks for EVIDENCE_PACKED.  As
\* long as the task is at the exported version, the gate agrees with the export.
VerdictStands ==
  /\ Answered("evidence_pack_validate")
  /\ copy["check"].state = "READONLY_VERIFIED"
  /\ copy["check"].state_version = state_version[call.task]
  => Verdict = PackValid(call.task)

\* The pack of a closed task is the last word on what was done: its chain and
\* its artifacts are those of the task for good, and an approval it shows
\* undecided stays so, unless it was asked for in CLOSED itself.  The log is not
\* final: approvals are still asked for and side effects still recorded.
ClosedPackSettled ==
  Exported /\ copy["pack"].state = "CLOSED" =>
    LET p == copy["pack"] IN
    /\ p.events = events[call.task]
    /\ p.artifacts = artifacts[call.task]
    /\ \A i \in DOMAIN p.approvals :
         p.approvals[i].expected_state # "CLOSED" => approvals[i] = p.approvals[i]

\* What state_describe tells a worker about a guarded transition is what the
\* authority decides as long as the worker's version passes the compare-and-swap.
AdviceHolds ==
  /\ Answered("state_describe")
  /\ copy["pack"].state_version = state_version[call.task]
  /\ TRANSITIONS[copy["pack"].state] \intersect BREAKER_GUARDED_TARGETS # {}
  => DescribedTripped = Tripped(call.task)

=============================================================================
