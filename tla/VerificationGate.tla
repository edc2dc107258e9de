-------------------------- MODULE VerificationGate --------------------------
(***************************************************************************)
(* What the authority promises about verification, without versions,       *)
(* actors, artifacts or the twenty states.  A task is verified in rounds.  *)
(* A round is opened, reports arrive while it is open, and it ends         *)
(* VERIFIED only when a PASS arrived during that very round.  Failures are *)
(* counted per signature over the whole life of the task and, once one     *)
(* signature has failed Threshold times, no further round is opened.       *)
(***************************************************************************)
EXTENDS Naturals

CONSTANTS Tasks, Signatures, Threshold

VARIABLES
  round,    \* round[t]: "SHUT", "OPEN" or "VERIFIED"
  passed,   \* passed[t]: a PASS arrived in the round that is open
  fails     \* fails[t][s]: FAIL reports with signature s so far

vars == <<round, passed, fails>>

Init ==
  /\ round  = [t \in Tasks |-> "SHUT"]
  /\ passed = [t \in Tasks |-> FALSE]
  /\ fails  = [t \in Tasks |-> [s \in Signatures |-> 0]]

Tripped(t) == \E s \in Signatures : fails[t][s] >= Threshold

Open(t) ==
  /\ round[t] # "OPEN"
  /\ ~Tripped(t)
  /\ round'  = [round EXCEPT ![t] = "OPEN"]
  /\ passed' = [passed EXCEPT ![t] = FALSE]
  /\ UNCHANGED fails

ReportPass(t) ==
  /\ round[t] = "OPEN"
  /\ passed' = [passed EXCEPT ![t] = TRUE]
  /\ UNCHANGED <<round, fails>>

ReportFail(t, s) ==
  /\ round[t] = "OPEN"
  /\ fails' = [fails EXCEPT ![t][s] = @ + 1]
  /\ UNCHANGED <<round, passed>>

Verify(t) ==
  /\ round[t] = "OPEN"
  /\ passed[t]
  /\ round'  = [round EXCEPT ![t] = "VERIFIED"]
  /\ passed' = [passed EXCEPT ![t] = FALSE]
  /\ UNCHANGED fails

Shut(t) ==
  /\ round[t] # "SHUT"
  /\ round'  = [round EXCEPT ![t] = "SHUT"]
  /\ passed' = [passed EXCEPT ![t] = FALSE]
  /\ UNCHANGED fails

Next ==
  \E t \in Tasks :
    \/ Open(t)
    \/ ReportPass(t)
    \/ \E s \in Signatures : ReportFail(t, s)
    \/ Verify(t)
    \/ Shut(t)

Spec == Init /\ [][Next]_vars

=============================================================================
