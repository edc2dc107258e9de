----------------------- MODULE SideEffectLedgerProofs -----------------------
(***************************************************************************)
(* Theorems about SideEffectLedger, for every set of runs, keys and        *)
(* intents, and every bound.                                               *)
(***************************************************************************)
EXTENDS SideEffectLedger, FiniteSetTheorems, TLAPS

\* A run that is busy has a key, an intent and a status.
LEMMA BusyRun ==
  ASSUME TypeOK, NEW r \in Runs, runs[r].pc \in {"told", "done", "sent"}
  PROVE  runs[r] \in BusyRuns
  BY DEF TypeOK, Off, Ready

\* No row is the missing row, and a recorded key has a row.
LEMMA RecordedRow ==
  ASSUME TypeOK, NEW k \in Keys, Recorded(k)
  PROVE  ledger[k] \in LedgerRows
  BY DEF TypeOK, Recorded

LEMMA NewStatus ==
  /\ "INTENT" \in SIDE_EFFECT_STATUSES
  /\ Outcomes \subseteq SIDE_EFFECT_STATUSES
  BY DEF Outcomes, SIDE_EFFECT_STATUSES

\* A fresh row is a row, not the missing one.
LEMMA FreshIsRecorded ==
  ASSUME NEW i, NEW status \in SIDE_EFFECT_STATUSES
  PROVE  [intent |-> i, status |-> status] # NoRow
  BY DEF NoRow, SIDE_EFFECT_STATUSES

-----------------------------------------------------------------------------
(* Type correctness                                                        *)

LEMMA InitType == Init => TypeOK
  BY LedgerAssumption DEF Init, TypeOK

LEMMA RecordIntentType ==
  ASSUME TypeOK, NEW r \in Runs, NEW actor, NEW k \in Keys, NEW i \in Intents,
         NEW heard \in BOOLEAN, RecordIntent(r, actor, k, i, heard)
  PROVE  TypeOK'
  <1>1. IntentRow(k, i) \in LedgerRows
    BY RecordedRow, NewStatus DEF IntentRow, LedgerRows
  <1>2. Run("told", k, i, IntentRow(k, i).status) \in BusyRuns
    BY <1>1 DEF Run, BusyRuns, LedgerRows
  <1>. QED
    BY <1>1, <1>2 DEF RecordIntent, TypeOK

LEMMA RecordResultType ==
  ASSUME TypeOK, NEW c \in calls, NEW actor, NEW heard \in BOOLEAN,
         RecordResult(c, actor, heard)
  PROVE  TypeOK'
  <1>1. c \in [run : Runs, key : Keys, status : Outcomes]
    BY DEF TypeOK
  <1>2. [intent |-> ledger[c.key].intent, status |-> c.status] \in LedgerRows
    BY <1>1, RecordedRow, NewStatus DEF RecordResult, LedgerRows
  <1>3. ledger' \in [Keys -> LedgerRows \union {NoRow}]
    BY <1>1, <1>2 DEF RecordResult, TypeOK
  <1>4. runs' \in [Runs -> BusyRuns \union {Off, Ready}]
    BY <1>1 DEF RecordResult, TypeOK
  <1>5. /\ results' \subseteq Keys \X Outcomes
        /\ calls' \subseteq [run : Runs, key : Keys, status : Outcomes]
    BY <1>1 DEF RecordResult, TypeOK
  <1>. QED
    BY <1>3, <1>4, <1>5 DEF RecordResult, TypeOK

LEMMA PerformType ==
  ASSUME TypeOK, NEW r \in Runs, NEW outcome \in Outcomes, Perform(r, outcome)
  PROVE  TypeOK'
  <1>1. runs[r] \in BusyRuns
    BY BusyRun DEF Perform
  <1>2. [key |-> runs[r].key, intent |-> runs[r].intent, outcome |-> outcome]
          \in [key : Keys, intent : Intents, outcome : Outcomes]
    BY <1>1 DEF BusyRuns
  <1>3. Run("done", runs[r].key, runs[r].intent, outcome) \in BusyRuns
    BY <1>1, NewStatus DEF BusyRuns, Run
  <1>. QED
    BY <1>2, <1>3 DEF Perform, TypeOK

\* The result a run reports is one of the outcomes: it has performed.
DoneOutcome ==
  \A r \in Runs : runs[r].pc \in {"done", "sent"} => runs[r].status \in Outcomes

LEMMA SendResultType ==
  ASSUME TypeOK, DoneOutcome, NEW r \in Runs, SendResult(r)
  PROVE  TypeOK'
  <1>1. runs[r] \in BusyRuns /\ runs[r].status \in Outcomes
    BY BusyRun DEF SendResult, DoneOutcome
  <1>2. Call(r, runs[r].key, runs[r].status) \in [run : Runs, key : Keys, status : Outcomes]
    BY <1>1 DEF BusyRuns, Call
  <1>3. Run("sent", runs[r].key, runs[r].intent, runs[r].status) \in BusyRuns
    BY <1>1 DEF BusyRuns, Run
  <1>. QED
    BY <1>2, <1>3 DEF SendResult, TypeOK

LEMMA TimeoutType ==
  ASSUME TypeOK, NEW r \in Runs, Timeout(r)
  PROVE  TypeOK'
  <1>1. runs[r] \in BusyRuns
    BY BusyRun DEF Timeout
  <1>2. Run("done", runs[r].key, runs[r].intent, runs[r].status) \in BusyRuns
    BY <1>1 DEF BusyRuns, Run
  <1>. QED
    BY <1>2 DEF Timeout, TypeOK

LEMMA ConsultType ==
  ASSUME TypeOK, NEW r \in Runs, NEW k \in Keys, Consult(r, k)
  PROVE  TypeOK'
  <1>1. Run("told", k, ledger[k].intent, ledger[k].status) \in BusyRuns
    BY RecordedRow DEF Consult, Run, BusyRuns, LedgerRows
  <1>. QED
    BY <1>1 DEF Consult, TypeOK

\* The steps that only start, end or release a run.
LEMMA OtherType ==
  ASSUME TypeOK, NEW r \in Runs, Begin(r) \/ Skip(r) \/ Finish(r) \/ Crash(r)
  PROVE  TypeOK'
  BY LedgerAssumption DEF TypeOK, Begin, Skip, Finish, Crash

LEMMA LoseCallType ==
  ASSUME TypeOK, NEW c \in calls, LoseCall(c)
  PROVE  TypeOK'
  BY DEF TypeOK, LoseCall

-----------------------------------------------------------------------------
(* Effects are announced, with the intent they are performed with          *)

\* A run that was told of a row acts on the intent of that row.
IntentKnown ==
  \A r \in Runs : runs[r].pc \in {"told", "done", "sent"} =>
    /\ Recorded(runs[r].key)
    /\ ledger[runs[r].key].intent = runs[r].intent

LedgerInv ==
  /\ TypeOK
  /\ DoneOutcome
  /\ IntentKnown
  /\ EffectsAsIntended

\* A row is never removed and its intent never changes.
LEMMA RowKept ==
  ASSUME TypeOK, [Next]_vars, NEW k \in Keys, Recorded(k)
  PROVE  ledger'[k] # NoRow /\ ledger'[k].intent = ledger[k].intent
  <1>1. CASE ledger' = ledger
    BY <1>1 DEF Recorded
  <1>2. ASSUME NEW r \in Runs, NEW actor \in Actors, NEW j \in Keys, NEW i \in Intents,
               NEW heard \in BOOLEAN, RecordIntent(r, actor, j, i, heard)
        PROVE  ledger'[k] # NoRow /\ ledger'[k].intent = ledger[k].intent
    BY <1>2 DEF RecordIntent, IntentRow, Recorded, TypeOK
  <1>3. ASSUME NEW c \in calls, NEW actor \in Actors, NEW heard \in BOOLEAN,
               RecordResult(c, actor, heard)
        PROVE  ledger'[k] # NoRow /\ ledger'[k].intent = ledger[k].intent
    <2>1. c.key \in Keys /\ c.status \in SIDE_EFFECT_STATUSES
      BY <1>3, NewStatus DEF TypeOK
    <2>2. [intent |-> ledger[k].intent, status |-> c.status] # NoRow
      BY <2>1, FreshIsRecorded
    <2>. QED
      BY <1>3, <2>1, <2>2 DEF RecordResult, Recorded, TypeOK
  <1>. QED
    BY <1>1, <1>2, <1>3 DEF Next, vars, Begin, Consult, Skip, Perform, SendResult,
       LoseCall, Timeout, Finish, Crash

\* A step either leaves the world alone or is a busy run performing its effect.
LEMMA WorldStep ==
  ASSUME TypeOK, [Next]_vars, world' # world
  PROVE  \E r \in Runs, outcome \in Outcomes : Perform(r, outcome)
  BY DEF Next, vars, Begin, RecordIntent, Consult, Skip, SendResult, RecordResult,
     LoseCall, Timeout, Finish, Crash

\* What a run knows after a step, it knew before or was told in this step.
LEMMA BusyStep ==
  ASSUME TypeOK, [Next]_vars, NEW r \in Runs, runs'[r].pc \in {"told", "done", "sent"}
  PROVE  \/ /\ runs[r].pc \in {"told", "done", "sent"}
            /\ runs'[r].key = runs[r].key
            /\ runs'[r].intent = runs[r].intent
         \/ \E k \in Keys : Consult(r, k)
         \/ \E actor \in Actors, k \in Keys, i \in Intents, heard \in BOOLEAN :
               RecordIntent(r, actor, k, i, heard) /\ heard
  <1>. DEFINE Known == /\ runs[r].pc \in {"told", "done", "sent"}
                       /\ runs'[r].key = runs[r].key
                       /\ runs'[r].intent = runs[r].intent
              Read  == \E k \in Keys : Consult(r, k)
              Told  == \E actor \in Actors, k \in Keys, i \in Intents, heard \in BOOLEAN :
                          RecordIntent(r, actor, k, i, heard) /\ heard
  <1>. USE DEF Off, Ready, Run
  <1>1. runs'[r] = runs[r] => Known
    OBVIOUS
  <1>2. ASSUME NEW q \in Runs, \/ Begin(q) \/ Skip(q) \/ Finish(q) \/ Crash(q)
        PROVE  Known
    BY <1>1, <1>2 DEF Begin, Skip, Finish, Crash, TypeOK
  <1>3. ASSUME NEW q \in Runs, NEW outcome \in Outcomes, Perform(q, outcome)
        PROVE  Known
    BY <1>3 DEF Perform, TypeOK
  <1>4. ASSUME NEW q \in Runs, SendResult(q) \/ Timeout(q)
        PROVE  Known
    BY <1>4 DEF SendResult, Timeout, TypeOK
  <1>5. ASSUME NEW q \in Runs, NEW k \in Keys, Consult(q, k)
        PROVE  Known \/ Read
    <2>1. runs'[r] = runs[r] \/ q = r
      BY <1>5 DEF Consult, TypeOK
    <2>. QED
      BY <1>1, <1>5, <2>1
  <1>6. ASSUME NEW q \in Runs, NEW actor \in Actors, NEW k \in Keys, NEW i \in Intents,
               NEW heard \in BOOLEAN, RecordIntent(q, actor, k, i, heard)
        PROVE  Known \/ Told
    <2>1. runs'[r] = runs[r] \/ (q = r /\ heard)
      BY <1>6 DEF RecordIntent, TypeOK
    <2>. QED
      BY <1>1, <1>6, <2>1
  <1>7. ASSUME NEW c \in calls, NEW actor \in Actors, NEW heard \in BOOLEAN,
               RecordResult(c, actor, heard)
        PROVE  Known
    BY <1>1, <1>7 DEF RecordResult, TypeOK
  <1>8. ASSUME NEW c \in calls, LoseCall(c)
        PROVE  Known
    BY <1>1, <1>8 DEF LoseCall
  <1>9. UNCHANGED vars => Known
    BY <1>1 DEF vars
  <1>10. Known \/ Read \/ Told
    <2>. HIDE DEF Known, Read, Told
    <2>. QED
      BY <1>2, <1>3, <1>4, <1>5, <1>6, <1>7, <1>8, <1>9 DEF Next
  <1>. QED
    BY <1>10

LEMMA LedgerInvInit == Init => LedgerInv
  BY InitType DEF Init, LedgerInv, DoneOutcome, IntentKnown, EffectsAsIntended, Off

\* Only performing makes a status a result; other steps keep or drop it.
LEMMA DoneOutcomeStep ==
  ASSUME TypeOK, DoneOutcome, [Next]_vars
  PROVE  DoneOutcome'
  <1>. SUFFICES ASSUME NEW r \in Runs, runs'[r].pc \in {"done", "sent"}
                PROVE  runs'[r].status \in Outcomes
    BY DEF DoneOutcome
  <1>. USE DEF Off, Ready, Run
  <1>1. runs'[r] = runs[r] => runs'[r].status \in Outcomes
    BY DEF DoneOutcome
  <1>2. ASSUME NEW q \in Runs, \/ Begin(q) \/ Skip(q) \/ Finish(q) \/ Crash(q)
        PROVE  runs'[r] = runs[r]
    BY <1>2 DEF Begin, Skip, Finish, Crash, TypeOK
  <1>3. ASSUME NEW q \in Runs, NEW outcome \in Outcomes, Perform(q, outcome)
        PROVE  runs'[r].status \in Outcomes
    BY <1>1, <1>3 DEF Perform, TypeOK
  <1>4. ASSUME NEW q \in Runs, SendResult(q) \/ Timeout(q)
        PROVE  runs'[r].status \in Outcomes
    BY <1>1, <1>4 DEF SendResult, Timeout, TypeOK, DoneOutcome
  <1>5. ASSUME NEW q \in Runs, NEW k \in Keys, Consult(q, k)
        PROVE  runs'[r] = runs[r]
    BY <1>5 DEF Consult, TypeOK
  <1>6. ASSUME NEW q \in Runs, NEW actor \in Actors, NEW k \in Keys, NEW i \in Intents,
               NEW heard \in BOOLEAN, RecordIntent(q, actor, k, i, heard)
        PROVE  runs'[r] = runs[r]
    BY <1>6 DEF RecordIntent, TypeOK
  <1>7. ASSUME NEW c \in calls, NEW actor \in Actors, NEW heard \in BOOLEAN,
               RecordResult(c, actor, heard)
        PROVE  runs'[r] = runs[r]
    BY <1>7 DEF RecordResult, TypeOK
  <1>8. ASSUME NEW c \in calls, LoseCall(c)
        PROVE  runs'[r] = runs[r]
    BY <1>8 DEF LoseCall
  <1>9. UNCHANGED vars => runs'[r] = runs[r]
    BY DEF vars
  <1>. QED
    BY <1>1, <1>2, <1>3, <1>4, <1>5, <1>6, <1>7, <1>8, <1>9 DEF Next

LEMMA TypeStep ==
  ASSUME TypeOK, DoneOutcome, [Next]_vars
  PROVE  TypeOK'
  <1>1. CASE UNCHANGED vars
    BY <1>1 DEF vars, TypeOK
  <1>2. ASSUME NEW r \in Runs,
               \/ Begin(r) \/ Skip(r) \/ SendResult(r) \/ Timeout(r) \/ Finish(r) \/ Crash(r)
        PROVE  TypeOK'
    BY <1>2, SendResultType, TimeoutType, OtherType
  <1>3. CASE Next
    BY <1>2, LoseCallType, <1>3, RecordIntentType, ConsultType, PerformType, RecordResultType DEF Next
  <1>. QED
    BY <1>1, <1>3

\* A run knows the intent of its row because it read it, or recorded it and was
\* not refused; and the row keeps its intent (RowKept).
LEMMA IntentKnownStep ==
  ASSUME TypeOK, IntentKnown, [Next]_vars
  PROVE  IntentKnown'
  <1>. SUFFICES ASSUME NEW r \in Runs, runs'[r].pc \in {"told", "done", "sent"}
                PROVE  /\ ledger'[runs'[r].key] # NoRow
                       /\ ledger'[runs'[r].key].intent = runs'[r].intent
    BY DEF IntentKnown, Recorded
  <1>1. CASE /\ runs[r].pc \in {"told", "done", "sent"}
             /\ runs'[r].key = runs[r].key
             /\ runs'[r].intent = runs[r].intent
    <2>1. runs[r].key \in Keys
      BY <1>1, BusyRun DEF BusyRuns
    <2>. QED
      BY <1>1, <2>1, RowKept DEF IntentKnown, Recorded
  <1>2. ASSUME NEW k \in Keys, Consult(r, k)
        PROVE  /\ ledger'[runs'[r].key] # NoRow
               /\ ledger'[runs'[r].key].intent = runs'[r].intent
    BY <1>2 DEF Consult, Recorded, Run, TypeOK
  <1>3. ASSUME NEW actor \in Actors, NEW k \in Keys, NEW i \in Intents,
               NEW heard \in BOOLEAN, RecordIntent(r, actor, k, i, heard), heard
        PROVE  /\ ledger'[runs'[r].key] # NoRow
               /\ ledger'[runs'[r].key].intent = runs'[r].intent
    <2>1. runs'[r].key = k /\ runs'[r].intent = i
      BY <1>3 DEF RecordIntent, Run, TypeOK
    <2>2. IntentRow(k, i) # NoRow /\ IntentRow(k, i).intent = i
      BY <1>3, NewStatus, FreshIsRecorded DEF RecordIntent, SameIntent, IntentRow, Recorded
    <2>3. ledger'[k] = IntentRow(k, i)
      BY <1>3 DEF RecordIntent, TypeOK
    <2>. QED
      BY <2>1, <2>2, <2>3 DEF Recorded
  <1>. QED
    BY <1>1, <1>2, <1>3, BusyStep

LEMMA EffectsAsIntendedStep ==
  ASSUME TypeOK, IntentKnown, EffectsAsIntended, [Next]_vars
  PROVE  EffectsAsIntended'
  <1>1. ASSUME NEW n \in DOMAIN world
        PROVE  /\ ledger'[world[n].key] # NoRow
               /\ ledger'[world[n].key].intent = world[n].intent
    <2>1. world[n] \in [key : Keys, intent : Intents, outcome : Outcomes]
      <3>. DEFINE Effects == [key : Keys, intent : Intents, outcome : Outcomes]
      <3>1. world \in Seq(Effects)
        BY DEF TypeOK
      <3>. HIDE DEF Effects
      <3>2. world[n] \in Effects
        BY <3>1
      <3>. QED
        BY <3>2 DEF Effects
    <2>. QED
      BY <2>1, RowKept DEF EffectsAsIntended, Recorded
  <1>2. CASE world' = world
    BY <1>1, <1>2 DEF EffectsAsIntended, Recorded
  <1>3. CASE world' # world
    <2>1. PICK r \in Runs, outcome \in Outcomes : Perform(r, outcome)
      BY <1>3, WorldStep
    <2>2. runs[r].key \in Keys /\ Recorded(runs[r].key)
      BY <2>1, BusyRun DEF Perform, BusyRuns, IntentKnown
    <2>3. /\ ledger'[runs[r].key] # NoRow
          /\ ledger'[runs[r].key].intent = runs[r].intent
      BY <2>1, <2>2 DEF Perform, IntentKnown, Recorded
    <2>4. world' = Append(world, [key |-> runs[r].key, intent |-> runs[r].intent,
                                  outcome |-> outcome])
      BY <2>1 DEF Perform
    <2>5. world \in Seq([key : Keys, intent : Intents, outcome : Outcomes])
      BY DEF TypeOK
    <2>6. ASSUME NEW n \in DOMAIN world'
          PROVE  \/ n \in DOMAIN world /\ world'[n] = world[n]
                 \/ world'[n].key = runs[r].key /\ world'[n].intent = runs[r].intent
      BY <2>4, <2>5
    <2>. QED
      BY <1>1, <2>3, <2>6 DEF EffectsAsIntended, Recorded
  <1>. QED
    BY <1>2, <1>3

LEMMA LedgerInvAlways == Spec => []LedgerInv
  <1>1. LedgerInv /\ [Next]_vars => LedgerInv'
    BY TypeStep, DoneOutcomeStep, IntentKnownStep, EffectsAsIntendedStep DEF LedgerInv
  <1>. QED
    BY <1>1, LedgerInvInit, PTL DEF Spec

\* Types are kept by every run, crash and call.
THEOREM LedgerTypeCorrect == Spec => []TypeOK
  <1>1. LedgerInv => TypeOK
    BY DEF LedgerInv
  <1>. QED
    BY <1>1, LedgerInvAlways, PTL

\* Write-ahead: no effect happens that its row does not announce, with its very
\* intent, whether or not the runs are held apart.
THEOREM EffectsAnnounced == Spec => []EffectsAsIntended
  <1>1. LedgerInv => EffectsAsIntended
    BY DEF LedgerInv
  <1>. QED
    BY <1>1, LedgerInvAlways, PTL

-----------------------------------------------------------------------------
(* Runs that are held apart do not repeat a completed effect               *)

Drained == fence = "drained"

Busy(r) == runs[r].pc \in {"told", "done", "sent"}

OneAlive == \A q, r \in Runs : runs[q] # Off /\ runs[r] # Off => q = r

\* A call under way is the call of the run that is alive, if one is.
CallsOfTheLiving ==
  \A c \in calls, r \in Runs : runs[r] # Off =>
    /\ runs[r].pc \in {"done", "sent"}
    /\ c = Call(r, runs[r].key, runs[r].status)

OneCall == \A c, d \in calls : c = d

\* A recorded completion is what the row, every call and every run says.
CompletionStands ==
  \A k \in Keys : <<k, "EXECUTED">> \in results =>
    /\ ledger[k].status = "EXECUTED"
    /\ \A c \in calls : c.key = k => c.status = "EXECUTED"
    /\ \A r \in Runs : Busy(r) /\ runs[r].key = k => runs[r].status = "EXECUTED"

FenceInv == OneAlive /\ CallsOfTheLiving /\ OneCall /\ CompletionStands

LEMMA FenceBegin ==
  ASSUME Drained, TypeOK, FenceInv, NEW r \in Runs, Begin(r)
  PROVE  FenceInv'
  BY DEF TypeOK, FenceInv, OneAlive, CallsOfTheLiving, OneCall, CompletionStands, Busy,
     Begin, Off, Ready, Call, Drained

LEMMA FenceRecordIntent ==
  ASSUME TypeOK, FenceInv, NEW r \in Runs, NEW actor, NEW k \in Keys, NEW i \in Intents,
         NEW heard \in BOOLEAN, RecordIntent(r, actor, k, i, heard)
  PROVE  FenceInv'
  <1>. USE DEF FenceInv, Off, Ready, Run, Call
  <1>1. calls = {}
    BY DEF RecordIntent, CallsOfTheLiving
  <1>2. calls' = {} /\ results' = results
    BY <1>1 DEF RecordIntent
  <1>3. OneAlive'
    BY DEF RecordIntent, OneAlive, TypeOK
  <1>4. <<k, "EXECUTED">> \in results => IntentRow(k, i) = ledger[k]
    BY DEF CompletionStands, IntentRow, Recorded, NoRow
  <1>5. CompletionStands'
    <2>. SUFFICES ASSUME NEW j \in Keys, <<j, "EXECUTED">> \in results
                  PROVE  /\ ledger'[j].status = "EXECUTED"
                         /\ \A q \in Runs : Busy(q)' /\ runs'[q].key = j
                                              => runs'[q].status = "EXECUTED"
      BY <1>2 DEF CompletionStands
    <2>1. ledger'[j] = ledger[j]
      BY <1>4 DEF RecordIntent, TypeOK
    <2>2. ASSUME NEW q \in Runs, Busy(q)', runs'[q].key = j
          PROVE  runs'[q].status = "EXECUTED"
      <3>1. CASE q = r
        BY <1>4, <2>2, <3>1 DEF RecordIntent, CompletionStands, Busy, TypeOK
      <3>2. CASE q # r
        BY <2>2, <3>2 DEF RecordIntent, CompletionStands, Busy, TypeOK
      <3>. QED
        BY <3>1, <3>2
    <2>. QED
      BY <2>1, <2>2 DEF CompletionStands
  <1>. QED
    BY <1>2, <1>3, <1>5 DEF CallsOfTheLiving, OneCall

LEMMA FenceConsult ==
  ASSUME TypeOK, FenceInv, NEW r \in Runs, NEW k \in Keys, Consult(r, k)
  PROVE  FenceInv'
  <1>. USE DEF FenceInv, Off, Ready, Run, Call
  <1>1. calls = {}
    BY DEF Consult, CallsOfTheLiving
  <1>2. OneAlive'
    BY DEF Consult, OneAlive, TypeOK
  <1>3. CompletionStands'
    BY <1>1 DEF Consult, CompletionStands, Busy, TypeOK
  <1>. QED
    BY <1>1, <1>2, <1>3 DEF Consult, CallsOfTheLiving, OneCall

LEMMA FencePerform ==
  ASSUME TypeOK, FenceInv, NEW r \in Runs, NEW outcome \in Outcomes, Perform(r, outcome)
  PROVE  FenceInv'
  <1>. USE DEF FenceInv, Off, Ready, Run, Call
  <1>1. calls = {}
    BY DEF Perform, CallsOfTheLiving
  <1>2. OneAlive'
    BY DEF Perform, OneAlive, TypeOK
  <1>3. CompletionStands'
    BY <1>1 DEF Perform, CompletionStands, Busy, TypeOK
  <1>. QED
    BY <1>1, <1>2, <1>3 DEF Perform, CallsOfTheLiving, OneCall

LEMMA FenceSendResult ==
  ASSUME TypeOK, FenceInv, NEW r \in Runs, SendResult(r) \/ Timeout(r)
  PROVE  FenceInv'
  <1>. USE DEF FenceInv, Off, Ready, Run, Call
  <1>1. /\ runs' \in {[runs EXCEPT ![r] = Run(pc, runs[r].key, runs[r].intent, runs[r].status)]
                        : pc \in {"done", "sent"}}
        /\ runs[r].pc \in {"done", "sent"}
        /\ calls' \subseteq calls \union {Call(r, runs[r].key, runs[r].status)}
        /\ ledger' = ledger /\ results' = results
    BY DEF SendResult, Timeout
  <1>2. OneAlive'
    BY <1>1 DEF OneAlive, TypeOK
  <1>3. \A c \in calls' : c = Call(r, runs[r].key, runs[r].status)
    BY <1>1 DEF CallsOfTheLiving
  <1>4. CallsOfTheLiving' /\ OneCall'
    BY <1>1, <1>2, <1>3 DEF CallsOfTheLiving, OneCall, OneAlive, TypeOK
  <1>5. CompletionStands'
    BY <1>1, <1>3 DEF CompletionStands, Busy, TypeOK
  <1>. QED
    BY <1>2, <1>4, <1>5

LEMMA FenceRecordResult ==
  ASSUME TypeOK, FenceInv, NEW c \in calls, NEW actor, NEW heard \in BOOLEAN,
         RecordResult(c, actor, heard)
  PROVE  FenceInv'
  <1>. USE DEF FenceInv, Off, Ready, Call
  <1>1. calls' = {}
    BY DEF RecordResult, OneCall
  <1>2. \A q \in Runs : runs'[q] = runs[q] \/ (runs'[q] = Ready /\ runs[q] # Off)
    BY DEF RecordResult, Awaits, TypeOK
  <1>3. OneAlive'
    BY <1>2 DEF OneAlive
  <1>4. CompletionStands'
    <2>. SUFFICES ASSUME NEW k \in Keys, <<k, "EXECUTED">> \in results'
                  PROVE  /\ ledger'[k].status = "EXECUTED"
                         /\ \A r \in Runs : Busy(r)' /\ runs'[r].key = k
                                              => runs'[r].status = "EXECUTED"
      BY <1>1 DEF CompletionStands
    <2>1. CASE k = c.key
      <3>1. c.status = "EXECUTED"
        BY <2>1 DEF RecordResult, CompletionStands
      <3>2. ledger'[k].status = "EXECUTED"
        BY <2>1, <3>1 DEF RecordResult, TypeOK
      <3>3. \A r \in Runs : Busy(r)' => runs'[r].status = "EXECUTED"
        BY <1>2, <3>1 DEF CallsOfTheLiving, Busy
      <3>. QED
        BY <3>2, <3>3
    <2>2. CASE k # c.key
      BY <1>2, <2>2 DEF RecordResult, CompletionStands, Busy, TypeOK
    <2>. QED
      BY <2>1, <2>2
  <1>. QED
    BY <1>1, <1>3, <1>4 DEF CallsOfTheLiving, OneCall

LEMMA FenceOther ==
  ASSUME TypeOK, FenceInv, NEW r, NEW c,
         \/ r \in Runs /\ (Skip(r) \/ Finish(r) \/ Crash(r))
         \/ LoseCall(c)
         \/ UNCHANGED vars
  PROVE  FenceInv'
  <1>. USE DEF FenceInv, Off, Ready, Call
  <1>1. /\ ledger' = ledger /\ results' = results /\ calls' \subseteq calls
        /\ \A q \in Runs : \/ runs'[q] = runs[q]
                           \/ runs'[q] = Off
                           \/ runs'[q] = Ready /\ runs[q].pc = "told"
    BY DEF Skip, Finish, Crash, LoseCall, vars, TypeOK
  <1>2. OneAlive'
    BY <1>1 DEF OneAlive
  <1>3. CallsOfTheLiving' /\ OneCall'
    BY <1>1 DEF CallsOfTheLiving, OneCall
  <1>4. CompletionStands'
    BY <1>1 DEF CompletionStands, Busy
  <1>. QED
    BY <1>2, <1>3, <1>4

LEMMA FenceStep ==
  ASSUME Drained, TypeOK, FenceInv, [Next]_vars
  PROVE  FenceInv'
  <1>1. CASE UNCHANGED vars
    BY <1>1, FenceOther
  <1>2. ASSUME NEW r \in Runs,
               \/ Begin(r) \/ Skip(r) \/ SendResult(r) \/ Timeout(r) \/ Finish(r) \/ Crash(r)
        PROVE  FenceInv'
    BY <1>2, FenceBegin, FenceSendResult, FenceOther
  <1>3. ASSUME NEW c \in calls, LoseCall(c)
        PROVE  FenceInv'
    BY <1>3, FenceOther
  <1>4. CASE Next
    BY <1>2, <1>3, <1>4, FenceRecordIntent, FenceConsult, FencePerform,
       FenceRecordResult DEF Next
  <1>. QED
    BY <1>1, <1>4

\* The runs are held apart in one way for good.
LEMMA FenceKept ==
  ASSUME [Next]_vars
  PROVE  fence' = fence
  BY DEF Next, vars, Begin, RecordIntent, Consult, Skip, Perform, SendResult,
     RecordResult, LoseCall, Timeout, Finish, Crash

\* A recovered run never repeats a completed effect, provided that it starts
\* when no other run is alive and no earlier call is under way.
THEOREM FencedRunsDoNotRepeat == Spec => CompletedNotRepeated
  <1>1. Init => (Drained => FenceInv)
    BY DEF Init, FenceInv, OneAlive, CallsOfTheLiving, OneCall, CompletionStands
  <1>2. TypeOK /\ (Drained => FenceInv) /\ [Next]_vars => (Drained => FenceInv)'
    BY FenceStep, FenceKept DEF Drained
  <1>3. ASSUME TypeOK, FenceInv, [Next]_vars, NEW n \in DOMAIN world' \ DOMAIN world
        PROVE  <<world'[n].key, "EXECUTED">> \notin results
    <2>1. PICK r \in Runs, outcome \in Outcomes : Perform(r, outcome)
      BY <1>3, WorldStep
    <2>2. world' = Append(world, [key |-> runs[r].key, intent |-> runs[r].intent,
                                  outcome |-> outcome])
      BY <2>1 DEF Perform
    <2>3. world \in Seq([key : Keys, intent : Intents, outcome : Outcomes])
      BY <1>3 DEF TypeOK
    <2>4. world'[n].key = runs[r].key
      BY <1>3, <2>2, <2>3
    <2>5. runs[r].key \in Keys
      BY <1>3, <2>1, BusyRun DEF Perform, BusyRuns
    <2>. QED
      BY <1>3, <2>1, <2>4, <2>5 DEF Perform, FenceInv, CompletionStands, Busy
  <1>4. TypeOK /\ (Drained => FenceInv) /\ [Next]_vars
          => [fence = "drained" =>
                \A n \in DOMAIN world' \ DOMAIN world :
                  <<world'[n].key, "EXECUTED">> \notin results]_vars
    BY <1>3 DEF Drained
  <1>. QED
    BY <1>1, <1>2, <1>4, LedgerTypeCorrect, PTL DEF Spec, CompletedNotRepeated

-----------------------------------------------------------------------------
(* One repetition for each crash                                           *)

Completed(k) == <<k, "EXECUTED">> \in results

\* A run that is alive has performed k and has not been told that it is recorded.
Holding(k) ==
  \E r \in Runs :
    /\ runs[r].pc \in {"done", "sent"}
    /\ runs[r].key = k
    /\ runs[r].status = "EXECUTED"

\* Each performance that stands is paid for: by a crash, or by the one that is
\* recorded or still held.
RepeatInv ==
  \A k \in Keys :
    Cardinality(Standing(k)) <= crashes + IF Completed(k) \/ Holding(k) THEN 1 ELSE 0

LEMMA StandingFinite ==
  ASSUME TypeOK, NEW k
  PROVE  /\ IsFiniteSet(Standing(k))
         /\ Cardinality(Standing(k)) \in Nat
  <1>1. DOMAIN world = 1..Len(world) /\ Len(world) \in Nat
    BY DEF TypeOK
  <1>2. IsFiniteSet(1..Len(world))
    BY <1>1, FS_Interval
  <1>3. Standing(k) \in SUBSET (1..Len(world))
    BY <1>1 DEF Standing
  <1>. QED
    BY <1>2, <1>3, FS_Subset, FS_CardinalityType

\* No step but a crash takes away what pays for a performance.
LEMMA StillPaid ==
  ASSUME TypeOK, [Next]_vars, NEW k \in Keys, Completed(k) \/ Holding(k), crashes' = crashes
  PROVE  Completed(k)' \/ Holding(k)'
  <1>. USE DEF Completed, Off, Ready, Run
  <1>1. CASE Completed(k)
    BY <1>1 DEF Next, vars, Begin, RecordIntent, Consult, Skip, Perform, SendResult,
       RecordResult, LoseCall, Timeout, Finish, Crash
  <1>2. CASE Holding(k)
    <2>1. PICK r \in Runs : /\ runs[r].pc \in {"done", "sent"}
                            /\ runs[r].key = k
                            /\ runs[r].status = "EXECUTED"
      BY <1>2 DEF Holding
    <2>2. /\ runs \in [Runs -> BusyRuns \union {Off, Ready}]
          /\ crashes \in Nat
      BY LedgerAssumption DEF TypeOK
    <2>3. \/ /\ runs'[r].pc \in {"done", "sent"}
             /\ runs'[r].key = k
             /\ runs'[r].status = "EXECUTED"
          \/ Completed(k)'
      <3>1. ASSUME NEW c \in calls, NEW actor, NEW heard, RecordResult(c, actor, heard)
            PROVE  runs'[r] = runs[r] \/ Completed(k)'
        BY <2>1, <2>2, <3>1 DEF RecordResult, Awaits
      <3>2. ASSUME NEW q \in Runs,
                   \/ Begin(q) \/ Skip(q) \/ Finish(q) \/ Crash(q)
                   \/ \E i, actor, j, heard : RecordIntent(q, actor, j, i, heard)
                   \/ \E j : Consult(q, j)
                   \/ \E outcome : Perform(q, outcome)
            PROVE  runs'[r] = runs[r]
        <4>1. CASE q = r
          <5>1. runs[r] # Off /\ runs[r] # Ready /\ runs[r].pc # "told"
            BY <2>1
          <5>2. Crash(r)
            BY <3>2, <4>1, <5>1 DEF Begin, Skip, Finish, RecordIntent, Consult, Perform
          <5>. QED
            BY <2>2, <5>2 DEF Crash
        <4>2. CASE q # r
          BY <2>2, <3>2, <4>2
          DEF Begin, Skip, Finish, Crash, RecordIntent, Consult, Perform
        <4>. QED
          BY <4>1, <4>2
      <3>3. ASSUME NEW q \in Runs, SendResult(q) \/ Timeout(q)
            PROVE  /\ runs'[r].pc \in {"done", "sent"}
                   /\ runs'[r].key = k
                   /\ runs'[r].status = "EXECUTED"
        BY <2>1, <2>2, <3>3 DEF SendResult, Timeout
      <3>4. ASSUME NEW c \in calls, LoseCall(c)
            PROVE  runs'[r] = runs[r]
        BY <3>4 DEF LoseCall
      <3>5. CASE UNCHANGED vars
        BY <2>1, <3>5 DEF vars
      <3>6. CASE Next
        <4>1. \/ \E q \in Runs :
                    \/ Begin(q) \/ Skip(q) \/ Finish(q) \/ Crash(q)
                    \/ \E i, actor, j, heard : RecordIntent(q, actor, j, i, heard)
                    \/ \E j : Consult(q, j)
                    \/ \E outcome : Perform(q, outcome)
              \/ \E q \in Runs : SendResult(q) \/ Timeout(q)
              \/ \E c \in calls : \E actor, heard : RecordResult(c, actor, heard)
              \/ \E c \in calls : LoseCall(c)
          BY <3>6 DEF Next
        <4>. QED
          BY <2>1, <3>1, <3>2, <3>3, <3>4, <4>1
      <3>. QED
        BY <3>5, <3>6
    <2>. QED
      BY <2>3 DEF Holding
  <1>. QED
    BY <1>1, <1>2

\* A performance that is to stand is the first one that is not paid for by crashes.
LEMMA PerformUnpaid ==
  ASSUME TypeOK, FenceInv, NEW r \in Runs, NEW outcome \in Outcomes, Perform(r, outcome)
  PROVE  /\ ~Completed(runs[r].key)
         /\ ~Holding(runs[r].key)
  <1>1. runs[r] \in BusyRuns /\ runs[r].pc = "told"
    BY BusyRun DEF Perform
  <1>2. ~Completed(runs[r].key)
    BY <1>1 DEF Perform, FenceInv, CompletionStands, Busy, Completed, BusyRuns
  <1>3. \A q \in Runs : runs[q].pc \in {"done", "sent"} => q = r
    BY <1>1 DEF FenceInv, OneAlive, Off
  <1>. QED
    BY <1>1, <1>2, <1>3 DEF Holding

LEMMA RepeatStep ==
  ASSUME TypeOK, TypeOK', FenceInv, RepeatInv, [Next]_vars
  PROVE  RepeatInv'
  <1>. SUFFICES ASSUME NEW k \in Keys
                PROVE  Cardinality(Standing(k)')
                         <= crashes' + IF Completed(k)' \/ Holding(k)' THEN 1 ELSE 0
    BY DEF RepeatInv
  <1>. DEFINE N == Cardinality(Standing(k))
              M == Cardinality(Standing(k)')
  <1>1. N \in Nat /\ crashes \in Nat /\ crashes' \in Nat
    BY StandingFinite, LedgerAssumption DEF TypeOK
  <1>2. M \in Nat
    <2>1. DOMAIN world' = 1..Len(world') /\ Len(world') \in Nat
      BY DEF TypeOK
    <2>2. IsFiniteSet(1..Len(world'))
      BY <2>1, FS_Interval
    <2>3. Standing(k)' \in SUBSET (1..Len(world'))
      BY <2>1 DEF Standing
    <2>. QED
      BY <2>2, <2>3, FS_Subset, FS_CardinalityType
  <1>3. N <= crashes + IF Completed(k) \/ Holding(k) THEN 1 ELSE 0
    BY DEF RepeatInv
  <1>4. CASE world' = world
    <2>1. M = N
      BY <1>4 DEF Standing
    <2>2. crashes' = crashes \/ crashes' = crashes + 1
      BY DEF Next, vars, Begin, RecordIntent, Consult, Skip, Perform, SendResult,
         RecordResult, LoseCall, Timeout, Finish, Crash
    <2>3. CASE crashes' = crashes + 1
      BY <1>1, <1>3, <2>1, <2>3
    <2>4. CASE crashes' = crashes
      BY <1>1, <1>3, <2>1, <2>4, StillPaid
    <2>. QED
      BY <2>2, <2>3, <2>4
  <1>5. ASSUME NEW r \in Runs, NEW outcome \in Outcomes, Perform(r, outcome)
        PROVE  M <= crashes' + IF Completed(k)' \/ Holding(k)' THEN 1 ELSE 0
    <2>. DEFINE effect == [key |-> runs[r].key, intent |-> runs[r].intent,
                           outcome |-> outcome]
                Effects == [key : Keys, intent : Intents, outcome : Outcomes]
    <2>1. runs[r] \in BusyRuns
      BY <1>5, BusyRun DEF Perform
    <2>2. effect \in Effects /\ world \in Seq(Effects)
      BY <2>1 DEF TypeOK, BusyRuns
    <2>3. world' = Append(world, effect) /\ crashes' = crashes /\ results' = results
      BY <1>5 DEF Perform
    <2>4. effect.key = runs[r].key /\ effect.outcome = outcome
      OBVIOUS
    <2>. HIDE DEF effect, Effects
    <2>5. /\ DOMAIN world' = 1..Len(world) + 1
          /\ DOMAIN world = 1..Len(world) /\ Len(world) \in Nat
          /\ world'[Len(world) + 1] = effect
          /\ \A n \in 1..Len(world) : world'[n] = world[n]
      BY <2>2, <2>3
    <2>6. CASE runs[r].key = k /\ outcome = "EXECUTED"
      <3>1. N <= crashes
        BY <1>1, <1>3, <1>5, <2>6, PerformUnpaid
      <3>2. Standing(k)' = Standing(k) \union {Len(world) + 1}
        BY <2>4, <2>5, <2>6 DEF Standing
      <3>3. M <= N + 1
        <4>1. Cardinality(Standing(k) \union {Len(world) + 1})
                = IF Len(world) + 1 \in Standing(k) THEN N ELSE N + 1
          BY StandingFinite, FS_AddElement
        <4>. QED
          BY <1>1, <3>2, <4>1
      <3>4. Holding(k)'
        <4>1. runs'[r] = Run("done", k, runs[r].intent, "EXECUTED")
          BY <1>5, <2>6 DEF Perform, TypeOK
        <4>2. /\ runs'[r].pc = "done"
              /\ runs'[r].key = k
              /\ runs'[r].status = "EXECUTED"
          BY <4>1 DEF Run
        <4>. QED
          BY <4>2 DEF Holding
      <3>. QED
        BY <1>1, <1>2, <2>3, <3>1, <3>3, <3>4
    <2>7. CASE ~(runs[r].key = k /\ outcome = "EXECUTED")
      <3>1. Standing(k)' = Standing(k)
        BY <2>4, <2>5, <2>7 DEF Standing
      <3>. QED
        BY <1>1, <1>3, <2>3, <3>1, StillPaid
    <2>. QED
      BY <2>6, <2>7
  <1>. QED
    BY <1>4, <1>5, WorldStep

\* An effect that stands is performed at most once, and once more for each crash,
\* provided that runs start when no other is alive and no call is under way.
THEOREM CrashesBoundRepetition == Spec => []RepeatedOnlyByCrash
  <1>1. Init => FenceInv /\ RepeatInv
    <2>. SUFFICES ASSUME Init PROVE FenceInv /\ RepeatInv
      OBVIOUS
    <2>1. FenceInv
      BY DEF Init, FenceInv, OneAlive, CallsOfTheLiving, OneCall, CompletionStands
    <2>2. \A k : Standing(k) = {}
      BY DEF Init, Standing
    <2>3. \A k : Cardinality(Standing(k)) = 0
      BY <2>2, FS_EmptySet
    <2>. QED
      BY <2>1, <2>3 DEF Init, RepeatInv
  <1>2. TypeOK /\ TypeOK' /\ (Drained => FenceInv /\ RepeatInv) /\ [Next]_vars
          => (Drained => FenceInv /\ RepeatInv)'
    BY FenceStep, RepeatStep, FenceKept DEF Drained
  <1>3. TypeOK /\ (Drained => RepeatInv) => RepeatedOnlyByCrash
    <2>. SUFFICES ASSUME TypeOK, RepeatInv, NEW k \in Keys
                  PROVE  Cardinality(Standing(k)) <= 1 + crashes
      BY DEF RepeatedOnlyByCrash, Drained
    <2>. QED
      BY StandingFinite, LedgerAssumption DEF RepeatInv, TypeOK
  <1>. QED
    BY <1>1, <1>2, <1>3, LedgerTypeCorrect, PTL DEF Spec

=============================================================================
