---------------------------- MODULE WorkerOracle ----------------------------
(***************************************************************************)
(* packages/team-leader/scripts/state_machine.py, the conformance oracle   *)
(* shipped with the leader's package: one state.json per task, rewritten   *)
(* by each command with os.replace, so that a command is one step.  The    *)
(* package's SKILL.md keeps it offline, with one caller at a time.         *)
(*                                                                         *)
(* Its tables are a copy of state_machine_def.py.  It knows neither        *)
(* artifacts nor preconditions nor the breaker, and its approvals are made *)
(* in the state they are for.  Events are kept as in StateAuthority.       *)
(***************************************************************************)
EXTENDS StateMachineDef, Integers, Sequences

CONSTANTS
  Tasks,         \* tasks with a state file of their own
  Scopes,        \* scopes an approval may be asked for
  Reasons,       \* reasons given with a transition
  ApprovalIds    \* identities of approvals

VARIABLE file    \* file[t]: the state.json of t, or NoFile

NoFile == [state |-> "ABSENT", state_version |-> 0, events |-> << >>, approvals |-> << >>]

Event(type, actor, version, source, target, reason) ==
  [event_type |-> type, actor |-> actor, state_version |-> version,
   source |-> source, target |-> target, reason |-> reason]

Init == file = [t \in Tasks |-> NoFile]

InitState(t) ==
  /\ file[t] = NoFile
  /\ file' = [file EXCEPT ![t] =
       [state |-> "RECEIVED", state_version |-> 0, approvals |-> << >>,
        events |-> << Event("TASK_CREATED", "lead", 0, "ABSENT", "RECEIVED", "") >>]]

Transition(t, target, actor, reason, expected_version) ==
  /\ file[t].state \in States
  /\ file[t].state_version = expected_version
  /\ target \in TRANSITIONS[file[t].state]
  /\ target \in ACTOR_TARGETS[actor]
  /\ file' = [file EXCEPT ![t] =
       [state |-> target, state_version |-> expected_version + 1, approvals |-> @.approvals,
        events |-> Append(@.events, Event("STATE_TRANSITION", actor, expected_version + 1,
                                          @.state, target, reason))]]

RequestApproval(t, id, scope, expected_state) ==
  LET made == file[t].approvals
      row  == [scope |-> scope, expected_state |-> expected_state,
               requested_state_version |-> file[t].state_version, status |-> "PENDING"]
  IN /\ file[t].state = expected_state
     /\ expected_state \in States
     /\ id \notin DOMAIN made
     /\ file' = [file EXCEPT ![t].approvals =
          [i \in DOMAIN made \union {id} |-> IF i = id THEN row ELSE made[i]]]

Approve(t, id, decision, digest) ==
  LET approval == file[t].approvals[id]
  IN /\ id \in DOMAIN file[t].approvals
     /\ approval.status = "PENDING"
     /\ approval.scope = digest
     /\ file[t].state = approval.expected_state
     /\ file[t].state_version = approval.requested_state_version
     /\ file' = [file EXCEPT ![t].approvals[id].status = decision]

\* A command with another expected version than that of the file is refused.
Next ==
  \E t \in Tasks :
    \/ InitState(t)
    \/ \E target \in States, actor \in Actors, reason \in Reasons :
         Transition(t, target, actor, reason, file[t].state_version)
    \/ \E id \in ApprovalIds, scope \in Scopes, expected_state \in States :
         RequestApproval(t, id, scope, expected_state)
    \/ \E id \in ApprovalIds, decision \in {"APPROVED", "REJECTED"}, digest \in Scopes :
         Approve(t, id, decision, digest)

Spec == Init /\ [][Next]_file

=============================================================================
