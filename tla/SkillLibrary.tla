---------------------------- MODULE SkillLibrary ----------------------------
(***************************************************************************)
(* src/exoflow/skill_distill.py: evidence packs of finished tasks gather   *)
(* in a trace pool, distill turns them into a candidate for a skill, a     *)
(* human reviews it, and publish and rollback rewrite the skill matrix.    *)
(*                                                                         *)
(* Trace files and the matrix are written with write_text, which empties   *)
(* the file before it fills it, and there is no lock: processes that write *)
(* overlap, and one that dies leaves what it had done.  distill reads each *)
(* trace file once and no property relates two of them, so it is one step. *)
(* The texts of lessons are left out; what matters of a failure signature  *)
(* is the title it gets, cut at 48 characters, whether the scan finds it   *)
(* sensitive, and which pattern titles its topic occurs in.                *)
(*                                                                         *)
(* The success analyst looks for artifact_type at the top level of an      *)
(* ARTIFACT_PUBLISHED event.  A pack written by hand may "name" it there,  *)
(* as the tests do; evidence_pack has "exported" it inside the payload.    *)
(***************************************************************************)
EXTENDS Integers, Sequences, FiniteSets

CONSTANTS
  Processes,      \* processes that call the library
  Drafts,         \* names under which callers hold a candidate
  Skills,         \* target skills
  Packs,          \* evidence packs that may be ingested, reduced to what is read
  Signatures,     \* failure signatures
  TitleOf,        \* TitleOf[l]: the title of the patch for lesson l
  Sensitive,      \* signatures that the sensitive or license scan finds
  Echoes,         \* Echoes[s]: patterns whose title holds the topic of s
  Contradicts,    \* Contradicts[s]: patterns whose topic is that of s
  MaxIngests,     \* bound on the packs ingested
  MaxVersions,    \* bound on the history of one skill
  MaxRollbacks    \* bound on the rollbacks of one skill

Patterns == {"sequence", "verify_first"}
Lessons  == Signatures \union Patterns \union {"escalate"}

TraceIds  == {pack.task : pack \in Packs}
Domains   == {pack.domain : pack \in Packs}
AnyDomain == "ANY_DOMAIN"
Matrix    == "skill_matrix.json"
Files     == TraceIds \union {Matrix}

ASSUME BoundsAssumption ==
  MaxIngests \in Nat /\ MaxVersions \in Nat /\ MaxRollbacks \in Nat

ASSUME InputsAssumption ==
  /\ Packs \subseteq
       [task : TraceIds, domain : Domains, verdict : {"PASS", "FAIL", "NONE"},
        signatures : SUBSET Signatures, published : {"none", "named", "exported"},
        escalated : BOOLEAN]
  /\ Matrix \notin TraceIds
  /\ Signatures \intersect (Patterns \union {"escalate"}) = {}
  /\ DOMAIN TitleOf = Lessons
  /\ Sensitive \subseteq Signatures
  /\ Echoes \in [Signatures -> SUBSET Patterns]
  /\ Contradicts \in [Signatures -> SUBSET Patterns]

VARIABLES
  file,        \* file[f]: what trace file f, or the matrix, holds
  writer,      \* writer[p]: the write_text of process p that is in progress
  draft,       \* draft[d]: the candidate held under the name d
  ingested,    \* history: the packs of the ingest calls so far
  acked,       \* history: acked[s], the publications of s that returned, in order
  overlapped,  \* history: two calls that rewrite the matrix have overlapped
  damaged      \* history: a process died while it was writing the matrix

vars == <<file, writer, draft, ingested, acked, overlapped, damaged>>

NoFile      == [holds |-> "nothing"]
Torn        == [holds |-> "fragment"]     \* json.loads raises
Trace(pack) == [holds |-> "trace", pack |-> pack]
Library(skills) == [holds |-> "matrix", skills |-> skills]

Unpublished == [current_version |-> 0, history |-> << >>, rollbacks |-> << >>]
NoDraft     == [review_status |-> "none"]
Idle        == [at |-> "idle"]

-----------------------------------------------------------------------------
(* Stage B: patches proposed from the records of the pool                  *)

Patch(kind, lesson, records) ==
  [kind |-> kind, lesson |-> lesson, source_traces |-> {r.task : r \in records}]

\* Seeded: patterns are credited to every record, passed or not.
PatternsOfAll(records) ==
  LET passed == {r \in records : r.verdict = "PASS"}
  IN {Patch("pattern", "verify_first", records) : r \in passed}
       \union {Patch("pattern", "sequence", records) :
                 r \in {q \in passed : q.published = "named"}}

\* propose_success_patches: nothing without a PASS record.  A PASS comes from a
\* VerificationReport, so every passed record counts as verified.
PatternsFrom(records) ==
  LET passed == {r \in records : r.verdict = "PASS"}
  IN {Patch("pattern", "verify_first", passed) : r \in passed}
       \union {Patch("pattern", "sequence", passed) :
                 r \in {q \in passed : q.published = "named"}}

\* The sequence of an exported pack is a sequence of None, which cannot be joined
\* to a text, nor compared with another one: propose_success_patches raises.
SequenceRaises(records) ==
  \E r \in records : r.verdict = "PASS" /\ r.published = "exported"

\* propose_failure_patches: a guard for each signature, and one for escalations
\* of any record once some record has failed.
GuardsFrom(records) ==
  LET failed    == {r \in records : r.verdict = "FAIL" \/ r.signatures # {}}
      escalated == {r \in records : r.escalated}
      seen      == UNION {r.signatures : r \in failed}
  IN {Patch("guard", s, {r \in failed : s \in r.signatures}) : s \in seen}
       \union {Patch("guard", "escalate", escalated) : r \in {q \in failed : escalated # {}}}

-----------------------------------------------------------------------------
(* Stage C: merge, scan and evaluation                                     *)

\* merge_patches: DUPLICATE_PATCH or CONTRADICTORY_PATCH.
HardConflict(patches) ==
  \/ \E a, b \in patches : a # b /\ TitleOf[a.lesson] = TitleOf[b.lesson]
  \/ \E g, a \in patches : g.lesson \in Signatures /\ a.lesson \in Contradicts[g.lesson]

\* Seeded: only the document the candidate starts from is scanned.
BaseScanned(patches, sensitive_base) == sensitive_base

\* scan_sensitive and scan_license over the merged document.
ScanHit(patches, sensitive_base) ==
  sensitive_base \/ \E a \in patches : a.lesson \in Sensitive

\* default_counterexample
CounterexampleKill(patches) ==
  \E g, a \in patches : g.lesson \in Signatures /\ a.lesson \in Echoes[g.lesson]

\* The status distill leaves a candidate in.  Fidelity cannot fail here: without
\* a hard conflict the merged document holds every title.
StatusOf(patches, sensitive_base) ==
  CASE HardConflict(patches) \/ ScanHit(patches, sensitive_base) -> "blocked"
    [] ~HardConflict(patches) /\ ~ScanHit(patches, sensitive_base)
       /\ (patches = {} \/ CounterexampleKill(patches))          -> "evaluation_failed"
    [] OTHER                                                     -> "evaluation_passed"

-----------------------------------------------------------------------------
(* Publish and rollback, as computed from the matrix that was read         *)

\* The skills of the file; publish starts an empty matrix when there is none.
SkillsIn(content) ==
  IF content.holds = "matrix" THEN content.skills ELSE [s \in Skills |-> Unpublished]

Versions(entry) == {entry.history[i].version : i \in DOMAIN entry.history}

NextVersion(entry) == entry.current_version + 1

Publication(entry, candidate) ==
  [version |-> NextVersion(entry), patches |-> candidate.patches,
   source_traces |-> candidate.source_traces, review |-> candidate.review_status]

\* Seeded: the publication does not become the current version.
PublishedAside(entry, candidate) ==
  [entry EXCEPT !.history = Append(@, Publication(entry, candidate))]

Published(entry, candidate) ==
  [current_version |-> NextVersion(entry),
   history         |-> Append(entry.history, Publication(entry, candidate)),
   rollbacks       |-> entry.rollbacks]

\* Seeded: rolling back drops the newer publications.
RolledBackHard(entry, to_version) ==
  [entry EXCEPT !.current_version = to_version, !.rollbacks = Append(@, to_version),
                !.history = SelectSeq(@, LAMBDA h : h.version <= to_version)]

RolledBack(entry, to_version) ==
  [current_version |-> to_version, history |-> entry.history,
   rollbacks       |-> Append(entry.rollbacks, to_version)]

-----------------------------------------------------------------------------
(* Calls                                                                   *)

Init ==
  /\ file       = [f \in Files |-> NoFile]
  /\ writer     = [p \in Processes |-> Idle]
  /\ draft      = [d \in Drafts |-> NoDraft]
  /\ ingested   = {}
  /\ acked      = [s \in Skills |-> << >>]
  /\ overlapped = FALSE
  /\ damaged    = FALSE

\* p has read what it needs and is about to write content to f.
Prepare(p, f, content, news) ==
  /\ writer[p] = Idle
  /\ writer' = [writer EXCEPT ![p] =
       [at |-> "ready", to |-> f, content |-> content, found |-> file[f],
        news |-> news, mixed |-> FALSE]]

NoNews == [s \in Skills |-> << >>]

\* TracePool.ingest: the file of the task is written again when it exists.
Ingest(p, pack) ==
  /\ Cardinality(ingested \union {pack}) <= MaxIngests
  /\ Prepare(p, pack.task, Trace(pack), NoNews)
  /\ ingested' = ingested \union {pack}
  /\ UNCHANGED <<file, draft, acked, overlapped, damaged>>

Pooled == {t \in TraceIds : file[t] # NoFile}

\* distill: a trace file that does not parse raises, whatever its domain, and so
\* does a selection without records, or with a passed pack that was exported.
Distill(d, skill, domain, sensitive_base) ==
  LET records == {r \in {file[t].pack : t \in Pooled} : domain \in {AnyDomain, r.domain}}
      patches == PatternsFrom(records) \union GuardsFrom(records)
  IN /\ \A t \in Pooled : file[t] # Torn
     /\ records # {}
     /\ ~SequenceRaises(records)
     /\ draft' = [draft EXCEPT ![d] =
          [review_status |-> StatusOf(patches, sensitive_base), target_skill |-> skill,
           patches |-> patches, source_traces |-> {r.task : r \in records}]]
     /\ UNCHANGED <<file, writer, ingested, acked, overlapped, damaged>>

\* Seeded: any candidate may be reviewed.
ReviewableAlways(candidate) == candidate.review_status # "none"

Reviewable(candidate) == candidate.review_status = "evaluation_passed"

\* record_human_review
Review(d, approved) ==
  /\ Reviewable(draft[d])
  /\ draft' = [draft EXCEPT ![d].review_status = IF approved THEN "approved" ELSE "rejected"]
  /\ UNCHANGED <<file, writer, ingested, acked, overlapped, damaged>>

\* Seeded: a rejected candidate may be published too.
PublishableReviewed(candidate) == candidate.review_status \in {"approved", "rejected"}

Publishable(candidate) == candidate.review_status = "approved"

\* publish, up to its write_text.
Publish(p, d) ==
  LET s      == draft[d].target_skill
      skills == SkillsIn(file[Matrix])
  IN /\ Publishable(draft[d])
     /\ file[Matrix] # Torn
     /\ Len(skills[s].history) < MaxVersions
     /\ Prepare(p, Matrix, Library([skills EXCEPT ![s] = Published(@, draft[d])]),
                [NoNews EXCEPT ![s] = << Publication(skills[s], draft[d]) >>])
     /\ UNCHANGED <<file, draft, ingested, acked, overlapped, damaged>>

\* rollback, up to its write_text: only to a version in the history.
Rollback(p, s, to_version) ==
  LET skills == SkillsIn(file[Matrix])
  IN /\ file[Matrix].holds = "matrix"
     /\ to_version \in Versions(skills[s])
     /\ Len(skills[s].rollbacks) < MaxRollbacks
     /\ Prepare(p, Matrix, Library([skills EXCEPT ![s] = RolledBack(@, to_version)]), NoNews)
     /\ UNCHANGED <<file, draft, ingested, acked, overlapped, damaged>>

\* write_text opens the file, which empties it.
Truncate(p) ==
  /\ writer[p].at = "ready"
  /\ writer' = [writer EXCEPT ![p].at = "emptied"]
  /\ file' = [file EXCEPT ![writer[p].to] = Torn]
  /\ overlapped' = (overlapped \/ (writer[p].to = Matrix /\ file[Matrix] # writer[p].found))
  /\ UNCHANGED <<draft, ingested, acked, damaged>>

\* Processes that have emptied the same file as p write over what p leaves there.
Ended(p) ==
  [q \in Processes |->
     IF q = p THEN Idle
     ELSE IF /\ writer[p].at = "emptied"
             /\ writer[q].at = "emptied"
             /\ writer[q].to = writer[p].to
     THEN [writer[q] EXCEPT !.mixed = TRUE]
     ELSE writer[q]]

\* write_text fills the file, and the call returns.  Over the content of another
\* process the two contents may end up mixed.
Write(p) ==
  /\ writer[p].at = "emptied"
  /\ \E left \in {writer[p].content} \union (IF writer[p].mixed THEN {Torn} ELSE {}) :
       file' = [file EXCEPT ![writer[p].to] = left]
  /\ writer' = Ended(p)
  /\ acked' = [s \in Skills |-> acked[s] \o writer[p].news[s]]
  /\ UNCHANGED <<draft, ingested, overlapped, damaged>>

\* p dies, before it opens the file, while it writes, or when it has written and
\* not yet returned.
Crash(p) ==
  /\ writer[p] # Idle
  /\ \/ writer[p].at = "ready" /\ UNCHANGED <<file, damaged>>
     \/ /\ writer[p].at = "emptied"
        /\ \E left \in {Torn, writer[p].content} :
             file' = [file EXCEPT ![writer[p].to] = left]
        /\ damaged' = (damaged \/ writer[p].to = Matrix)
  /\ writer' = Ended(p)
  /\ UNCHANGED <<draft, ingested, acked, overlapped>>

Next ==
  \/ \E p \in Processes :
       \/ \E pack \in Packs : Ingest(p, pack)
       \/ \E d \in Drafts : Publish(p, d)
       \/ \E s \in Skills, to_version \in 1..MaxVersions : Rollback(p, s, to_version)
       \/ Truncate(p)
       \/ Write(p)
       \/ Crash(p)
  \/ \E d \in Drafts, skill \in Skills, domain \in Domains \union {AnyDomain},
        sensitive_base \in BOOLEAN : Distill(d, skill, domain, sensitive_base)
  \/ \E d \in Drafts, approved \in BOOLEAN : Review(d, approved)

Spec == Init /\ [][Next]_vars

-----------------------------------------------------------------------------
(* Properties                                                              *)

PatchRecords ==
  [kind : {"pattern", "guard"}, lesson : Lessons, source_traces : SUBSET TraceIds]

HistoryRows ==
  [version : Nat \ {0}, patches : SUBSET PatchRecords, source_traces : SUBSET TraceIds,
   review : {"approved"}]

Entries ==
  [current_version : Nat, history : Seq(HistoryRows), rollbacks : Seq(Nat \ {0})]

Contents ==
  {NoFile, Torn} \union [holds : {"trace"}, pack : Packs]
    \union [holds : {"matrix"}, skills : [Skills -> Entries]]

WriteTexts ==
  [at : {"ready", "emptied"}, to : Files, content : Contents, found : Contents,
   news : [Skills -> Seq(HistoryRows)], mixed : BOOLEAN]

Candidates ==
  [review_status : {"blocked", "evaluation_failed", "evaluation_passed", "approved",
                    "rejected"},
   target_skill : Skills, patches : SUBSET PatchRecords, source_traces : SUBSET TraceIds]

\* Files, writes, candidates and publications keep their types; what is published
\* is numbered from 1 and was approved.
TypeOK ==
  /\ file \in [Files -> Contents]
  /\ writer \in [Processes -> {Idle} \union WriteTexts]
  /\ draft \in [Drafts -> {NoDraft} \union Candidates]
  /\ ingested \subseteq Packs
  /\ acked \in [Skills -> Seq(HistoryRows)]
  /\ overlapped \in BOOLEAN
  /\ damaged \in BOOLEAN

Readable == file[Matrix].holds = "matrix"
Entry(s) == SkillsIn(file[Matrix])[s]

\* Whatever calls overlap and die, a matrix that parses is a possible history:
\* the current version was published, no number is skipped, and a number is
\* taken twice only when a rollback had gone below it.
VersionsCoherent ==
  \A s \in Skills :
    LET entry == Entry(s)
        number(i) == entry.history[i].version
    IN /\ entry.current_version \in Versions(entry) \union {0}
       /\ entry.current_version = 0 <=> entry.history = << >>
       /\ \A i \in DOMAIN entry.history :
            number(i) = 1 \/ \E j \in 1..i - 1 : number(j) = number(i) - 1
       /\ \A i, j \in DOMAIN entry.history :
            number(i) = number(j) =>
              i = j \/ \E k \in DOMAIN entry.rollbacks : entry.rollbacks[k] < number(i)

\* Nothing reaches the matrix past a gate: no sensitive text, no two lessons
\* under one title, no guard against a pattern it stands beside, and each
\* publication was approved by a human.
PublishedVetted ==
  \A s \in Skills : \A i \in DOMAIN Entry(s).history :
    LET h == Entry(s).history[i] IN
    /\ h.patches # {}
    /\ h.review = "approved"
    /\ \A a \in h.patches : a.lesson \notin Sensitive
    /\ \A a, b \in h.patches :
         /\ TitleOf[a.lesson] = TitleOf[b.lesson] => a = b
         /\ a.lesson \in Signatures => b.lesson \notin Echoes[a.lesson]

\* The traces a published lesson names were ingested and taught that lesson: a
\* PASS for a pattern, the very signature for a guard.  It speaks of the packs as
\* they were ingested: a later ingest may have replaced the file of the trace.
LessonsGrounded ==
  \A s \in Skills : \A i \in DOMAIN Entry(s).history :
    \A a \in Entry(s).history[i].patches :
      /\ a.source_traces # {}
      /\ \A t \in a.source_traces :
           \E pack \in ingested :
             /\ pack.task = t
             /\ a.kind = "pattern"        => pack.verdict = "PASS"
             /\ a.lesson \in Signatures   => a.lesson \in pack.signatures
             /\ a.lesson = "escalate"     => pack.escalated

\* A publication that returned is lost from a matrix that parses only when two
\* calls overlapped, and the matrix stops parsing, with nobody writing it, only
\* when calls overlapped or a process died writing it.
AckedKept ==
  ~overlapped =>
    /\ Readable =>
         \A s \in Skills :
           /\ Len(acked[s]) <= Len(Entry(s).history)
           /\ \A i \in DOMAIN acked[s] : \E j \in DOMAIN Entry(s).history :
                Entry(s).history[j] = acked[s][i]
    /\ ~damaged /\ (\A p \in Processes : writer[p].at = "emptied" => writer[p].to # Matrix)
         => file[Matrix] # Torn /\ (Readable \/ \A s \in Skills : acked[s] = << >>)

-----------------------------------------------------------------------------
(* What the documentation says and the code does not do                    *)

\* skill_distill.py: "closed tasks' Evidence Packs accumulate in a trace pool",
\* for two analysts who "each propose patches".  Whatever packs were ingested, a
\* pool of whole traces can be distilled.
PoolDistills ==
  Pooled # {} /\ (\A t \in Pooled : file[t] # Torn) =>
    \E d \in Drafts, skill \in Skills : ENABLED Distill(d, skill, AnyDomain, FALSE)

=============================================================================
