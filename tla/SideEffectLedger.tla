-------------------------- MODULE SideEffectLedger --------------------------
(***************************************************************************)
(* The side_effects table of src/exoflow/native_mcp.py, its three tools,   *)
(* and the runs of workers that use them around an effect on the outside   *)
(* world: record the intent, perform, record the result.  Runs crash, and  *)
(* a call for a result can be late, lost or repeated.                      *)
(*                                                                         *)
(* A key stands for a pair of an existing task and an idempotency key, an  *)
(* intent for the kind and the intent payload.  An effect_id identifies    *)
(* the row it was returned for, so it is the key.  The runs and the world  *)
(* are not in the repository: they follow the docstrings of the tools.     *)
(***************************************************************************)
EXTENDS StateMachineDef, Integers, Sequences, FiniteSets

CONSTANTS
  Runs,        \* runs of a worker that performs effects
  Keys,        \* pairs of task and idempotency_key
  Intents,     \* pairs of kind and intent
  Fences,      \* how the environment may hold the runs apart
  MaxCrashes,  \* bound on crashes
  MaxEffects   \* bound on effects performed

ASSUME LedgerAssumption ==
  /\ Fences \subseteq {"none", "exclusive", "drained"}
  /\ MaxCrashes \in Nat
  /\ MaxEffects \in Nat

VARIABLES
  ledger,   \* ledger[k]: the row of key k, or NoRow
  results,  \* <<key, status>> of every SIDE_EFFECT_RESULT event
  runs,     \* what each run is doing
  calls,    \* side_effect_result calls under way
  world,    \* the effects performed, in order
  crashes,  \* crashes so far
  fence     \* how the runs are held apart: chosen once

vars == <<ledger, results, runs, calls, world, crashes, fence>>

Outcomes == SIDE_EFFECT_STATUSES \ {"INTENT"}

NoRow == [intent |-> "NONE", status |-> "NONE"]
Off   == [pc |-> "off"]
Ready == [pc |-> "ready"]

Run(pc, k, i, status) == [pc |-> pc, key |-> k, intent |-> i, status |-> status]
Call(r, k, status)    == [run |-> r, key |-> k, status |-> status]

Recorded(k) == ledger[k] # NoRow

-----------------------------------------------------------------------------
Init ==
  /\ ledger  = [k \in Keys |-> NoRow]
  /\ results = {}
  /\ runs    = [r \in Runs |-> Off]
  /\ calls   = {}
  /\ world   = << >>
  /\ crashes = 0
  /\ fence \in Fences

\* A run of a worker starts, or starts over after a crash: at any time, only when
\* no other run is alive, or moreover only when no earlier call is under way.
Begin(r) ==
  /\ runs[r] = Off
  /\ fence # "none" => \A q \in Runs : runs[q] = Off
  /\ fence = "drained" => calls = {}
  /\ runs' = [runs EXCEPT ![r] = Ready]
  /\ UNCHANGED <<ledger, results, calls, world, crashes, fence>>

\* Seeded: a key may be used again with another intent.
AnyIntent(k, i) == TRUE

\* A recorded key is replayed for the same kind and intent only.
SameIntent(k, i) == Recorded(k) => ledger[k].intent = i

\* Seeded: the row is replaced each time the intent is recorded.
FreshRow(k, i) == [intent |-> i, status |-> "INTENT"]

\* The row that recording intent i leaves and returns: a new one, or the old one.
IntentRow(k, i) == IF Recorded(k) THEN ledger[k] ELSE [intent |-> i, status |-> "INTENT"]

\* record_side_effect_intent.  Its reply may be lost; the run calls again then.
RecordIntent(r, actor, k, i, heard) ==
  /\ runs[r] = Ready
  /\ actor \in SIDE_EFFECT_WRITERS
  /\ SameIntent(k, i)
  /\ ledger' = [ledger EXCEPT ![k] = IntentRow(k, i)]
  /\ runs' = [runs EXCEPT ![r] =
       IF heard THEN Run("told", k, i, IntentRow(k, i).status) ELSE Ready]
  /\ UNCHANGED <<results, calls, world, crashes, fence>>

\* list_side_effects: a recovering run reads a row it finds in the ledger.
Consult(r, k) ==
  /\ runs[r] = Ready
  /\ Recorded(k)
  /\ runs' = [runs EXCEPT ![r] = Run("told", k, ledger[k].intent, ledger[k].status)]
  /\ UNCHANGED <<ledger, results, calls, world, crashes, fence>>

\* The ledger says the effect is completed: the run leaves it alone.
Skip(r) ==
  /\ runs[r].pc = "told"
  /\ runs[r].status = "EXECUTED"
  /\ runs' = [runs EXCEPT ![r] = Ready]
  /\ UNCHANGED <<ledger, results, calls, world, crashes, fence>>

\* The run acts on the outside world: the effect stands (EXECUTED), does not
\* happen (FAILED), or is undone at once (ROLLED_BACK).
Perform(r, outcome) ==
  /\ runs[r].pc = "told"
  /\ runs[r].status # "EXECUTED"
  /\ Len(world) < MaxEffects
  /\ world' = Append(world, [key |-> runs[r].key, intent |-> runs[r].intent,
                             outcome |-> outcome])
  /\ runs' = [runs EXCEPT ![r] = Run("done", runs[r].key, runs[r].intent, outcome)]
  /\ UNCHANGED <<ledger, results, calls, crashes, fence>>

SendResult(r) ==
  /\ runs[r].pc = "done"
  /\ calls' = calls \union {Call(r, runs[r].key, runs[r].status)}
  /\ runs' = [runs EXCEPT ![r] = Run("sent", runs[r].key, runs[r].intent, runs[r].status)]
  /\ UNCHANGED <<ledger, results, world, crashes, fence>>

\* Does run c.run wait for the reply to c?
Awaits(c) ==
  /\ runs[c.run].pc = "sent"
  /\ runs[c.run].key = c.key
  /\ runs[c.run].status = c.status

\* record_side_effect_result: the status is written, whatever it was before.
RecordResult(c, actor, heard) ==
  /\ c \in calls
  /\ actor \in SIDE_EFFECT_WRITERS
  /\ c.status \in Outcomes
  /\ Recorded(c.key)
  /\ ledger'  = [ledger EXCEPT ![c.key] = [intent |-> @.intent, status |-> c.status]]
  /\ results' = results \union {<<c.key, c.status>>}
  /\ calls'   = calls \ {c}
  /\ runs'    = IF heard /\ Awaits(c) THEN [runs EXCEPT ![c.run] = Ready] ELSE runs
  /\ UNCHANGED <<world, crashes, fence>>

LoseCall(c) ==
  /\ c \in calls
  /\ calls' = calls \ {c}
  /\ UNCHANGED <<ledger, results, runs, world, crashes, fence>>

\* No reply in time: the run will call again, the first call may still arrive.
Timeout(r) ==
  /\ runs[r].pc = "sent"
  /\ runs' = [runs EXCEPT ![r] = Run("done", runs[r].key, runs[r].intent, runs[r].status)]
  /\ UNCHANGED <<ledger, results, calls, world, crashes, fence>>

Finish(r) ==
  /\ runs[r] = Ready
  /\ runs' = [runs EXCEPT ![r] = Off]
  /\ UNCHANGED <<ledger, results, calls, world, crashes, fence>>

Crash(r) ==
  /\ runs[r] # Off
  /\ crashes < MaxCrashes
  /\ crashes' = crashes + 1
  /\ runs' = [runs EXCEPT ![r] = Off]
  /\ UNCHANGED <<ledger, results, calls, world, fence>>

Next ==
  \/ \E r \in Runs : Begin(r)
  \/ \E r \in Runs, actor \in Actors, k \in Keys, i \in Intents, heard \in BOOLEAN :
        RecordIntent(r, actor, k, i, heard)
  \/ \E r \in Runs, k \in Keys : Consult(r, k)
  \/ \E r \in Runs : Skip(r)
  \/ \E r \in Runs, outcome \in Outcomes : Perform(r, outcome)
  \/ \E r \in Runs : SendResult(r)
  \/ \E c \in calls, actor \in Actors, heard \in BOOLEAN : RecordResult(c, actor, heard)
  \/ \E c \in calls : LoseCall(c)
  \/ \E r \in Runs : Timeout(r)
  \/ \E r \in Runs : Finish(r)
  \/ \E r \in Runs : Crash(r)

Spec == Init /\ [][Next]_vars

-----------------------------------------------------------------------------
LedgerRows == [intent : Intents, status : SIDE_EFFECT_STATUSES]

BusyRuns ==
  [pc : {"told", "done", "sent"}, key : Keys, intent : Intents, status : SIDE_EFFECT_STATUSES]

\* Rows, runs, calls and effects keep their types, and no call reports INTENT.
TypeOK ==
  /\ ledger \in [Keys -> LedgerRows \union {NoRow}]
  /\ results \subseteq Keys \X Outcomes
  /\ runs \in [Runs -> BusyRuns \union {Off, Ready}]
  /\ calls \subseteq [run : Runs, key : Keys, status : Outcomes]
  /\ world \in Seq([key : Keys, intent : Intents, outcome : Outcomes])
  /\ crashes \in 0..MaxCrashes
  /\ fence \in Fences

\* Nothing happens outside that the ledger did not announce: every effect was
\* recorded before, and with the very intent it was performed with, although
\* other runs that overlap record the same key before, after and in between.
EffectsAsIntended ==
  \A n \in DOMAIN world :
    /\ Recorded(world[n].key)
    /\ ledger[world[n].key].intent = world[n].intent

\* An effect whose completion is recorded is never performed again: what
\* list_side_effects promises to a recovered run.  It takes runs that start one
\* at a time and when earlier calls are settled: a run may otherwise have read
\* the ledger before the result arrived, and record_side_effect_result lets one
\* run's status overwrite another's.
CompletedNotRepeated ==
  [][fence = "drained" =>
       \A n \in DOMAIN world' \ DOMAIN world :
         <<world'[n].key, "EXECUTED">> \notin results]_vars

\* list_side_effects, "the ledger is consulted ... so a recovered run never
\* repeats a completed one": a run that consults the ledger after a completion
\* was recorded, and not undone, is told of it.
CompletionTold ==
  [][\A r \in Runs :
        runs[r] = Ready /\ runs'[r] # Ready /\ runs'[r] # Off
          => LET k == runs'[r].key IN
             <<k, "EXECUTED">> \in results /\ <<k, "ROLLED_BACK">> \notin results
               => runs'[r].status = "EXECUTED"]_vars

\* Performances of key k that stand.
Standing(k) == {n \in DOMAIN world : world[n].key = k /\ world[n].outcome = "EXECUTED"}

\* Between runs so held apart, an effect that stands is repeated at most once
\* per crash, the one between performing and recording: lost and repeated
\* calls, and failures before, do not repeat it.
RepeatedOnlyByCrash ==
  fence = "drained" => \A k \in Keys : Cardinality(Standing(k)) <= 1 + crashes

=============================================================================
