------------------------- MODULE SkillLibraryProofs -------------------------
(***************************************************************************)
(* Theorems about SkillLibrary: what a file that many processes rewrite    *)
(* without a lock still guarantees, for every number of processes, skills, *)
(* packs and versions.                                                     *)
(*                                                                         *)
(* A property of the matrix is first a property of one entry, carried      *)
(* along as a value: it holds of what a writer read, of what it computed   *)
(* from that, of what it leaves in the file, whoever writes in between.    *)
(***************************************************************************)
EXTENDS SkillLibrary, SequenceTheorems, TLAPS

-----------------------------------------------------------------------------
(* Entries of the matrix                                                   *)

\* A version above the current one was left behind by a rollback below it.
Outrun(e) ==
  \A i \in DOMAIN e.history :
    e.history[i].version > e.current_version =>
      \E k \in DOMAIN e.rollbacks : e.rollbacks[k] < e.history[i].version

\* What VersionsCoherent says of one entry.
Coherent(e) ==
  /\ e.current_version \in Versions(e) \union {0}
  /\ e.current_version = 0 <=> e.history = << >>
  /\ \A i \in DOMAIN e.history :
       \/ e.history[i].version = 1
       \/ \E j \in 1..i - 1 : e.history[j].version = e.history[i].version - 1
  /\ \A i, j \in DOMAIN e.history :
       e.history[i].version = e.history[j].version =>
         i = j \/ \E k \in DOMAIN e.rollbacks : e.rollbacks[k] < e.history[i].version

\* Patches that passed the merge, the scans and the evaluation.
Vetted(patches) ==
  /\ patches # {}
  /\ \A a \in patches : a.lesson \notin Sensitive
  /\ \A a, b \in patches :
       /\ TitleOf[a.lesson] = TitleOf[b.lesson] => a = b
       /\ a.lesson \in Signatures => b.lesson \notin Echoes[a.lesson]

\* The traces a patch names are traces of these packs, and taught its lesson.
Grounded(a, packs) ==
  /\ a.source_traces # {}
  /\ \A t \in a.source_traces :
       \E pack \in packs :
         /\ pack.task = t
         /\ a.kind = "pattern"      => pack.verdict = "PASS"
         /\ a.lesson \in Signatures => a.lesson \in pack.signatures
         /\ a.lesson = "escalate"   => pack.escalated

PatchesGood(patches, packs) == Vetted(patches) /\ \A a \in patches : Grounded(a, packs)

EntryGood(e, packs) ==
  /\ e \in Entries
  /\ Coherent(e)
  /\ Outrun(e)
  /\ \A i \in DOMAIN e.history : PatchesGood(e.history[i].patches, packs)

LEMMA PatchesStayGood ==
  ASSUME NEW patches, NEW P, NEW Q, P \subseteq Q, PatchesGood(patches, P)
  PROVE  PatchesGood(patches, Q)
<1>1. ASSUME NEW a \in patches
      PROVE  Grounded(a, Q)
  BY DEF PatchesGood, Grounded
<1> QED
  BY <1>1 DEF PatchesGood

LEMMA EntryStaysGood ==
  ASSUME NEW e, NEW P, NEW Q, P \subseteq Q, EntryGood(e, P)
  PROVE  EntryGood(e, Q)
BY PatchesStayGood DEF EntryGood

LEMMA UnpublishedGood ==
  ASSUME NEW P
  PROVE  EntryGood(Unpublished, P)
<1>1. Unpublished \in Entries
  BY DEF Unpublished, Entries
<1>2. Unpublished.history = << >> /\ Unpublished.current_version = 0
  BY DEF Unpublished
<1> QED
  BY <1>1, <1>2 DEF EntryGood, Coherent, Outrun

\* A publication is the last row of the entry it makes, and its current version.
LEMMA PublishedGood ==
  ASSUME NEW P, NEW e, EntryGood(e, P), NEW candidate \in Candidates,
         Publishable(candidate), PatchesGood(candidate.patches, P)
  PROVE  /\ EntryGood(Published(e, candidate), P)
         /\ Published(e, candidate).history = e.history \o << Publication(e, candidate) >>
         /\ Publication(e, candidate) \in HistoryRows
<1> DEFINE row  == Publication(e, candidate)
           next == Published(e, candidate)
           n    == Len(e.history)
<1>1. /\ e \in Entries /\ e.current_version \in Nat /\ n \in Nat
      /\ e.history \in Seq(HistoryRows) /\ DOMAIN e.history = 1..n
      /\ e.rollbacks \in Seq(Nat \ {0})
  BY DEF EntryGood, Entries
<1>2. /\ row \in HistoryRows
      /\ row.version = e.current_version + 1
      /\ row.patches = candidate.patches
  BY <1>1 DEF Publication, NextVersion, HistoryRows, Candidates, Publishable
<1>3. next = [current_version |-> e.current_version + 1,
              history |-> Append(e.history, row), rollbacks |-> e.rollbacks]
  BY DEF Published, NextVersion
<1> HIDE DEF row, next
<1>4. /\ next.current_version = e.current_version + 1
      /\ next.history = Append(e.history, row)
      /\ next.rollbacks = e.rollbacks
  BY <1>3
<1> DEFINE longer == Append(e.history, row)
<1>5. /\ longer \in Seq(HistoryRows)
      /\ DOMAIN longer = 1..n + 1
      /\ longer[n + 1] = row
      /\ \A i \in 1..n : longer[i] = e.history[i]
  BY <1>1, <1>2
<1>6. longer[n + 1].version = e.current_version + 1
  BY <1>2, <1>5
<1>7. \A i \in 1..n + 1 : i \in 1..n \/ i = n + 1
  BY <1>1
<1>8. longer = e.history \o << row >>
  BY <1>1, <1>2, AppendIsConcat
<1> HIDE DEF longer
<1>9. next.history = longer
  BY <1>4 DEF longer
<1>10. next \in Entries
  BY <1>1, <1>3, <1>5 DEF Entries, longer
<1>11. \A i \in 1..n : e.history[i].version \in Nat \ {0}
  <2>1. \A i \in 1..n : e.history[i] \in HistoryRows
    BY <1>1
  <2> QED
    BY <2>1 DEF HistoryRows
<1>12. Outrun(next)
  <2> SUFFICES ASSUME NEW i \in 1..n + 1, longer[i].version > e.current_version + 1
               PROVE  \E k \in DOMAIN e.rollbacks : e.rollbacks[k] < longer[i].version
    BY <1>4, <1>5, <1>9 DEF Outrun
  <2>1. i \in 1..n /\ longer[i] = e.history[i]
    BY <1>1, <1>2, <1>5
  <2>2. e.history[i].version > e.current_version
    BY <1>1, <1>11, <2>1
  <2> QED
    BY <1>1, <2>1, <2>2 DEF EntryGood, Outrun
<1>13. Coherent(next)
  <2>1. next.current_version \in Versions(next)
    <3>1. longer[n + 1].version = next.current_version /\ n + 1 \in 1..n + 1
      BY <1>1, <1>2, <1>4, <1>5
    <3> QED
      BY <1>5, <1>9, <3>1 DEF Versions
  <2>2. next.current_version # 0 /\ next.history # << >>
    BY <1>1, <1>4, <1>5, <1>9
  <2>3. ASSUME NEW i \in 1..n + 1
        PROVE  \/ longer[i].version = 1
               \/ \E j \in 1..i - 1 : longer[j].version = longer[i].version - 1
    <3>1. CASE i \in 1..n
      <4>1. \/ e.history[i].version = 1
            \/ \E j \in 1..i - 1 : e.history[j].version = e.history[i].version - 1
        BY <1>1, <3>1 DEF EntryGood, Coherent
      <4>2. \A j \in 1..i - 1 : longer[j] = e.history[j]
        BY <1>1, <1>5, <3>1
      <4> QED
        BY <1>5, <3>1, <4>1, <4>2
    <3>2. CASE i = n + 1
      <4>1. CASE e.current_version = 0
        BY <1>2, <1>5, <3>2, <4>1
      <4>2. CASE e.current_version # 0
        <5>1. PICK j \in 1..n : e.history[j].version = e.current_version
          BY <1>1, <4>2 DEF EntryGood, Coherent, Versions
        <5>2. j \in 1..i - 1 /\ longer[j].version = e.current_version
          <6>1. j \in 1..i - 1
            BY <1>1, <3>2
          <6>2. longer[j] = e.history[j]
            BY <1>5
          <6> QED
            BY <5>1, <6>1, <6>2
        <5>3. longer[i].version - 1 = e.current_version
          <6>1. longer[i].version = e.current_version + 1
            BY <1>6, <3>2
          <6>2. e.current_version \in Nat
            BY <1>1
          <6> QED
            BY <6>1, <6>2
        <5> QED
          BY <5>2, <5>3
      <4> QED
        BY <4>1, <4>2
    <3> QED
      BY <1>1, <3>1, <3>2
  <2>4. ASSUME NEW i \in 1..n + 1, NEW j \in 1..n + 1,
               longer[i].version = longer[j].version
        PROVE  \/ i = j
               \/ \E k \in DOMAIN e.rollbacks : e.rollbacks[k] < longer[i].version
    <3>1. CASE i \in 1..n /\ j \in 1..n
      BY <1>1, <1>5, <2>4, <3>1 DEF EntryGood, Coherent
    <3>2. ASSUME NEW m \in 1..n, longer[m].version = row.version
          PROVE  \E k \in DOMAIN e.rollbacks : e.rollbacks[k] < row.version
      <4>1. e.history[m].version > e.current_version
        BY <1>1, <1>2, <1>5, <3>2
      <4> QED
        BY <1>1, <1>5, <3>2, <4>1 DEF EntryGood, Outrun
    <3>3. CASE i = n + 1 /\ j \in 1..n
      BY <1>5, <2>4, <3>2, <3>3
    <3>4. CASE j = n + 1 /\ i \in 1..n
      BY <1>5, <2>4, <3>2, <3>4
    <3> QED
      BY <1>7, <3>1, <3>3, <3>4
  <2> QED
    BY <1>4, <1>5, <1>9, <2>1, <2>2, <2>3, <2>4 DEF Coherent
<1>14. \A i \in 1..n + 1 : PatchesGood(longer[i].patches, P)
  <2>1. \A i \in 1..n : PatchesGood(longer[i].patches, P)
    BY <1>1, <1>5 DEF EntryGood
  <2>2. PatchesGood(longer[n + 1].patches, P)
    BY <1>2, <1>5
  <2> QED
    BY <1>7, <2>1, <2>2
<1>15. EntryGood(next, P)
  BY <1>5, <1>9, <1>10, <1>12, <1>13, <1>14 DEF EntryGood
<1> QED
  BY <1>2, <1>9, <1>15, <1>8 DEF next, row

LEMMA RolledBackGood ==
  ASSUME NEW P, NEW e, EntryGood(e, P), NEW to_version \in Versions(e)
  PROVE  /\ EntryGood(RolledBack(e, to_version), P)
         /\ RolledBack(e, to_version).history = e.history
<1> DEFINE next  == RolledBack(e, to_version)
           n     == Len(e.history)
           backs == e.rollbacks
           more  == Append(backs, to_version)
<1>1. /\ e \in Entries /\ n \in Nat /\ DOMAIN e.history = 1..n
      /\ e.history \in Seq(HistoryRows)
      /\ backs \in Seq(Nat \ {0})
  BY DEF EntryGood, Entries
<1>2. to_version \in Nat \ {0}
  <2>1. PICK i \in 1..n : to_version = e.history[i].version
    BY <1>1 DEF Versions
  <2>2. e.history[i] \in HistoryRows
    BY <1>1
  <2> QED
    BY <2>1, <2>2 DEF HistoryRows
<1>3. next = [current_version |-> to_version, history |-> e.history, rollbacks |-> more]
  BY DEF RolledBack
<1> HIDE DEF next, backs
<1>4. /\ more \in Seq(Nat \ {0})
      /\ Len(backs) \in Nat
      /\ DOMAIN backs = 1..Len(backs)
      /\ DOMAIN more = 1..Len(backs) + 1
      /\ more[Len(backs) + 1] = to_version
      /\ \A k \in 1..Len(backs) : more[k] = backs[k]
  BY <1>1, <1>2
<1> HIDE DEF more
<1>5. /\ next.current_version = to_version
      /\ next.history = e.history
      /\ next.rollbacks = more
  BY <1>3
<1>6. next \in Entries
  BY <1>1, <1>2, <1>3, <1>4 DEF Entries
<1>7. ASSUME NEW v, \E k \in DOMAIN backs : backs[k] < v
      PROVE  \E k \in DOMAIN more : more[k] < v
  BY <1>4, <1>7
<1>8. Outrun(next)
  <2>1. Len(backs) + 1 \in DOMAIN more
    BY <1>4
  <2> QED
    BY <1>1, <1>2, <1>4, <1>5, <2>1 DEF Outrun, HistoryRows
<1>9. Coherent(next)
  <2>1. Versions(next) = Versions(e)
    BY <1>5 DEF Versions
  <2>2. e.history # << >>
    BY <1>1 DEF Versions
  <2> QED
    BY <1>2, <1>5, <1>7, <2>1, <2>2 DEF Coherent, EntryGood, backs
<1> QED
  BY <1>5, <1>6, <1>8, <1>9 DEF EntryGood, next

-----------------------------------------------------------------------------
(* Distillation                                                            *)

\* What a pool of records proposes is a patch that its records taught.
LEMMA ProposalsGrounded ==
  ASSUME NEW packs \in SUBSET Packs, NEW records \in SUBSET packs,
         NEW a \in PatternsFrom(records) \union GuardsFrom(records)
  PROVE  a \in PatchRecords /\ Grounded(a, packs)
<1> DEFINE passed    == {r \in records : r.verdict = "PASS"}
           failed    == {r \in records : r.verdict = "FAIL" \/ r.signatures # {}}
           escalated == {r \in records : r.escalated}
           teaching(s) == {r \in failed : s \in r.signatures}
<1>1. \A r \in records : /\ r.task \in TraceIds
                         /\ r.signatures \subseteq Signatures
                         /\ r \in packs
  BY InputsAssumption
<1>2. ASSUME NEW kind \in {"pattern", "guard"}, NEW lesson \in Lessons,
             NEW taught \in SUBSET records, taught # {}, a = Patch(kind, lesson, taught)
      PROVE  /\ a \in PatchRecords
             /\ a.kind = kind /\ a.lesson = lesson
             /\ a.source_traces # {}
             /\ \A t \in a.source_traces : \E r \in taught : r.task = t
  BY <1>1, <1>2 DEF Patch, PatchRecords
<1>3. /\ "verify_first" \in Lessons /\ "sequence" \in Lessons /\ "escalate" \in Lessons
      /\ Signatures \subseteq Lessons
      /\ "verify_first" \notin Signatures /\ "sequence" \notin Signatures
      /\ "escalate" \notin Signatures
  BY InputsAssumption DEF Lessons, Patterns
<1>4. CASE \E lesson \in Patterns : a = Patch("pattern", lesson, passed) /\ passed # {}
  <2>1. PICK lesson \in Patterns : a = Patch("pattern", lesson, passed) /\ passed # {}
    BY <1>4
  <2>2. /\ lesson \in Lessons /\ lesson \notin Signatures /\ lesson # "escalate"
        /\ passed \in SUBSET records
    BY <1>3 DEF Patterns
  <2>3. /\ a \in PatchRecords /\ a.lesson = lesson
        /\ a.source_traces # {}
        /\ \A t \in a.source_traces : \E r \in passed : r.task = t
    BY <1>2, <2>1, <2>2
  <2> QED
    BY <1>1, <2>2, <2>3 DEF Grounded
<1>5. CASE \E s \in Signatures : a = Patch("guard", s, teaching(s)) /\ teaching(s) # {}
  <2>1. PICK s \in Signatures : a = Patch("guard", s, teaching(s)) /\ teaching(s) # {}
    BY <1>5
  <2>2. s \in Lessons /\ s # "escalate" /\ teaching(s) \in SUBSET records
    BY <1>3
  <2>3. /\ a \in PatchRecords /\ a.lesson = s /\ a.kind = "guard"
        /\ a.source_traces # {}
        /\ \A t \in a.source_traces : \E r \in teaching(s) : r.task = t
    BY <1>2, <2>1, <2>2
  <2> QED
    BY <1>1, <2>2, <2>3 DEF Grounded
<1>6. CASE a = Patch("guard", "escalate", escalated) /\ escalated # {}
  <2>1. /\ a \in PatchRecords /\ a.lesson = "escalate" /\ a.kind = "guard"
        /\ a.source_traces # {}
        /\ \A t \in a.source_traces : \E r \in escalated : r.task = t
    BY <1>2, <1>3, <1>6
  <2> QED
    BY <1>1, <1>3, <2>1 DEF Grounded
<1>7. a \in PatternsFrom(records) =>
        \E lesson \in Patterns : a = Patch("pattern", lesson, passed) /\ passed # {}
  BY DEF PatternsFrom, Patterns
<1>8. a \in GuardsFrom(records) =>
        \/ \E s \in Signatures : a = Patch("guard", s, teaching(s)) /\ teaching(s) # {}
        \/ a = Patch("guard", "escalate", escalated) /\ escalated # {}
  BY <1>1 DEF GuardsFrom
<1> QED
  BY <1>4, <1>5, <1>6, <1>7, <1>8

\* A candidate that passes its evaluation went through every gate.
LEMMA PassedIsVetted ==
  ASSUME NEW patches, NEW sensitive_base,
         StatusOf(patches, sensitive_base) = "evaluation_passed"
  PROVE  Vetted(patches)
BY DEF StatusOf, HardConflict, ScanHit, CounterexampleKill, Vetted

-----------------------------------------------------------------------------
(* Files, writes and candidates                                            *)

\* A trace file holds nothing, a fragment, or an ingested pack of its task.
TraceGood(content, t, packs) ==
  \/ content \in {NoFile, Torn}
  \/ \E pack \in packs : pack.task = t /\ content = Trace(pack)

\* The matrix file holds nothing, a fragment, or good entries.
MatrixGood(content, packs) ==
  \/ content \in {NoFile, Torn}
  \/ /\ content \in [holds : {"matrix"}, skills : [Skills -> Entries]]
     /\ \A s \in Skills : EntryGood(content.skills[s], packs)

\* A write of a trace brings an ingested pack.
TraceWrite(w, packs) ==
  /\ w.to \in TraceIds
  /\ w.content # NoFile /\ w.content # Torn
  /\ TraceGood(w.content, w.to, packs)
  /\ w.news = NoNews

\* A write of the matrix keeps the history that was found and adds the news.
MatrixWrite(w, packs) ==
  /\ w.to = Matrix
  /\ w.content.holds = "matrix" /\ MatrixGood(w.content, packs)
  /\ w.found # Torn /\ MatrixGood(w.found, packs)
  /\ \A s \in Skills :
       w.content.skills[s].history = SkillsIn(w.found)[s].history \o w.news[s]

\* Only a write that has emptied its file can mix with another.
WriteGood(w, packs) ==
  /\ w \in WriteTexts
  /\ w.mixed => w.at = "emptied"
  /\ TraceWrite(w, packs) \/ MatrixWrite(w, packs)

CandidateGood(c, packs) ==
  /\ c \in Candidates
  /\ c.review_status \in {"evaluation_passed", "approved", "rejected"}
       => PatchesGood(c.patches, packs)

FilesGood ==
  /\ file \in [Files -> Contents]
  /\ MatrixGood(file[Matrix], ingested)
  /\ \A t \in TraceIds : TraceGood(file[t], t, ingested)

WritersGood ==
  /\ writer \in [Processes -> {Idle} \union WriteTexts]
  /\ \A p \in Processes : writer[p] # Idle => WriteGood(writer[p], ingested)

DraftsGood ==
  /\ draft \in [Drafts -> {NoDraft} \union Candidates]
  /\ \A d \in Drafts : draft[d] # NoDraft => CandidateGood(draft[d], ingested)

\* Whatever a process has read, computed, left behind or holds is good.
LibraryInv == TypeOK /\ FilesGood /\ WritersGood /\ DraftsGood

LEMMA FileNames ==
  /\ Matrix \in Files /\ TraceIds \subseteq Files
  /\ \A f \in Files : f = Matrix \/ f \in TraceIds
  /\ Matrix \notin TraceIds
BY InputsAssumption DEF Files

LEMMA ContentTypes ==
  /\ NoFile \in Contents /\ Torn \in Contents /\ NoFile # Torn
  /\ NoFile.holds = "nothing" /\ Torn.holds = "fragment"
  /\ \A pack \in Packs : Trace(pack) \in Contents /\ Trace(pack).pack = pack
  /\ \A pack : Trace(pack) # NoFile /\ Trace(pack) # Torn
  /\ \A skills \in [Skills -> Entries] :
       /\ Library(skills) \in Contents
       /\ Library(skills).holds = "matrix"
       /\ Library(skills).skills = skills
<1>1. /\ NoFile \in Contents /\ Torn \in Contents /\ NoFile # Torn
      /\ NoFile.holds = "nothing" /\ Torn.holds = "fragment"
  BY DEF NoFile, Torn, Contents
<1>2. \A pack \in Packs : Trace(pack) \in Contents
  BY DEF Trace, Contents
<1>3. \A pack : Trace(pack).pack = pack /\ Trace(pack) # NoFile /\ Trace(pack) # Torn
  BY DEF Trace, NoFile, Torn
<1>4. \A skills \in [Skills -> Entries] :
        /\ Library(skills) \in Contents
        /\ Library(skills).holds = "matrix"
        /\ Library(skills).skills = skills
  BY DEF Library, Contents
<1> QED
  BY <1>1, <1>2, <1>3, <1>4

\* Ingesting more packs spoils nothing.
LEMMA StaysGood ==
  ASSUME NEW P, NEW Q, P \subseteq Q
  PROVE  /\ \A content, t : TraceGood(content, t, P) => TraceGood(content, t, Q)
         /\ \A content : MatrixGood(content, P) => MatrixGood(content, Q)
         /\ \A w : WriteGood(w, P) => WriteGood(w, Q)
         /\ \A c : CandidateGood(c, P) => CandidateGood(c, Q)
<1>1. \A content, t : TraceGood(content, t, P) => TraceGood(content, t, Q)
  BY DEF TraceGood
<1>2. \A content : MatrixGood(content, P) => MatrixGood(content, Q)
  BY EntryStaysGood DEF MatrixGood
<1>3. \A w : WriteGood(w, P) => WriteGood(w, Q)
  BY <1>1, <1>2 DEF WriteGood, TraceWrite, MatrixWrite
<1>4. \A c : CandidateGood(c, P) => CandidateGood(c, Q)
  BY PatchesStayGood DEF CandidateGood
<1> QED
  BY <1>1, <1>2, <1>3, <1>4

\* What publish and rollback read from a matrix that parses, or is not there.
LEMMA SkillsGood ==
  ASSUME NEW P, NEW content, MatrixGood(content, P), content # Torn
  PROVE  /\ SkillsIn(content) \in [Skills -> Entries]
         /\ \A s \in Skills : EntryGood(SkillsIn(content)[s], P)
<1>1. CASE content = NoFile
  BY <1>1, ContentTypes, UnpublishedGood DEF SkillsIn, EntryGood
<1>2. CASE content # NoFile
  <2>1. content.holds = "matrix" /\ content.skills \in [Skills -> Entries]
    BY <1>2 DEF MatrixGood
  <2> QED
    BY <1>2, <2>1 DEF SkillsIn, MatrixGood
<1> QED
  BY <1>1, <1>2

LEMMA LibraryGood ==
  ASSUME NEW P, NEW skills \in [Skills -> Entries], \A s \in Skills : EntryGood(skills[s], P)
  PROVE  MatrixGood(Library(skills), P)
BY DEF Library, MatrixGood

\* Preparing a good write leaves good writes.
LEMMA PrepareGood ==
  ASSUME WritersGood, ingested \subseteq ingested', NEW p \in Processes,
         NEW f, NEW content, NEW news, Prepare(p, f, content, news),
         WriteGood([at |-> "ready", to |-> f, content |-> content, found |-> file[f],
                    news |-> news, mixed |-> FALSE], ingested')
  PROVE  WritersGood'
<1> DEFINE w == [at |-> "ready", to |-> f, content |-> content, found |-> file[f],
                 news |-> news, mixed |-> FALSE]
<1>1. w \in WriteTexts /\ WriteGood(w, ingested')
  BY DEF WriteGood
<1>2. writer' = [writer EXCEPT ![p] = w]
  BY DEF Prepare
<1> HIDE DEF w
<1>3. writer' \in [Processes -> {Idle} \union WriteTexts]
  BY <1>1, <1>2 DEF WritersGood
<1>4. ASSUME NEW q \in Processes, writer'[q] # Idle
      PROVE  WriteGood(writer'[q], ingested')
  <2>1. CASE q = p
    BY <1>1, <1>2, <2>1 DEF WritersGood
  <2>2. CASE q # p
    BY <1>2, <1>4, <2>2, StaysGood DEF WritersGood
  <2> QED
    BY <2>1, <2>2
<1> QED
  BY <1>3, <1>4 DEF WritersGood

LEMMA FilesStayGood ==
  ASSUME FilesGood, file' = file, ingested \subseteq ingested'
  PROVE  FilesGood'
BY StaysGood DEF FilesGood

LEMMA WritersStayGood ==
  ASSUME WritersGood, writer' = writer, ingested \subseteq ingested'
  PROVE  WritersGood'
BY StaysGood DEF WritersGood

LEMMA DraftsStayGood ==
  ASSUME DraftsGood, draft' = draft, ingested \subseteq ingested'
  PROVE  DraftsGood'
BY StaysGood DEF DraftsGood

LEMMA NoNewsType == NoNews \in [Skills -> Seq(HistoryRows)]
BY DEF NoNews

LEMMA IngestGood ==
  ASSUME LibraryInv, NEW p \in Processes, NEW pack \in Packs, Ingest(p, pack)
  PROVE  LibraryInv'
<1> DEFINE w == [at |-> "ready", to |-> pack.task, content |-> Trace(pack),
                 found |-> file[pack.task], news |-> NoNews, mixed |-> FALSE]
<1>1. /\ ingested' = ingested \union {pack}
      /\ file' = file /\ draft' = draft /\ acked' = acked
      /\ overlapped' = overlapped /\ damaged' = damaged
      /\ Prepare(p, pack.task, Trace(pack), NoNews)
  BY DEF Ingest
<1>2. pack.task \in TraceIds /\ pack.task \in Files
  BY FileNames DEF TraceIds
<1>3. Trace(pack) \in Contents /\ file[pack.task] \in Contents
  BY <1>2, ContentTypes DEF LibraryInv, FilesGood
<1>4. /\ w \in WriteTexts /\ w.to = pack.task /\ w.content = Trace(pack)
      /\ w.news = NoNews /\ w.mixed = FALSE
  BY <1>2, <1>3, NoNewsType DEF WriteTexts
<1>5. TraceWrite(w, ingested')
  BY <1>1, <1>2, <1>4, ContentTypes DEF TraceWrite, TraceGood
<1>6. WriteGood(w, ingested')
  BY <1>4, <1>5 DEF WriteGood
<1>7. FilesGood' /\ DraftsGood'
  BY <1>1, FilesStayGood, DraftsStayGood DEF LibraryInv
<1>8. WritersGood'
  BY <1>1, <1>6, PrepareGood DEF LibraryInv
<1>9. TypeOK'
  BY <1>1, <1>7, <1>8 DEF LibraryInv, TypeOK, FilesGood, WritersGood, DraftsGood
<1> QED
  BY <1>7, <1>8, <1>9 DEF LibraryInv

LEMMA DistillGood ==
  ASSUME LibraryInv, NEW d \in Drafts, NEW skill \in Skills, NEW domain,
         NEW sensitive_base \in BOOLEAN, Distill(d, skill, domain, sensitive_base)
  PROVE  LibraryInv'
<1> DEFINE traces  == {t \in TraceIds : file[t] # NoFile}
           records == {r \in {file[t].pack : t \in traces} : domain \in {AnyDomain, r.domain}}
           patches == PatternsFrom(records) \union GuardsFrom(records)
           status  == StatusOf(patches, sensitive_base)
           sources == {r.task : r \in records}
           candidate == [review_status |-> status, target_skill |-> skill,
                         patches |-> patches, source_traces |-> sources]
<1>1. /\ \A t \in traces : file[t] # Torn
      /\ draft' = [draft EXCEPT ![d] = candidate]
      /\ file' = file /\ writer' = writer /\ ingested' = ingested /\ acked' = acked
      /\ overlapped' = overlapped /\ damaged' = damaged
  BY DEF Distill, Pooled
<1>2. ingested \in SUBSET Packs
  BY DEF LibraryInv, TypeOK
<1>3. records \in SUBSET ingested
  <2>1. ASSUME NEW t \in traces
        PROVE  file[t].pack \in ingested
    <3>1. TraceGood(file[t], t, ingested) /\ file[t] # NoFile /\ file[t] # Torn
      BY <1>1 DEF LibraryInv, FilesGood
    <3>2. PICK pack \in ingested : file[t] = Trace(pack)
      BY <3>1 DEF TraceGood
    <3> QED
      BY <1>2, <3>2, ContentTypes
  <2>2. ASSUME NEW r \in records
        PROVE  r \in ingested
    <3>1. PICK t \in traces : r = file[t].pack
      OBVIOUS
    <3> QED
      BY <2>1, <3>1
  <2> HIDE DEF records
  <2> QED
    BY <2>2
<1>4. sources \in SUBSET TraceIds
  BY <1>2, <1>3 DEF TraceIds
<1> HIDE DEF records
<1>5. \A a \in patches : a \in PatchRecords /\ Grounded(a, ingested)
  BY <1>2, <1>3, ProposalsGrounded
<1> HIDE DEF patches, sources
<1>6. status \in {"blocked", "evaluation_failed", "evaluation_passed"}
  BY DEF StatusOf
<1>7. status = "evaluation_passed" => PatchesGood(patches, ingested)
  BY <1>5, PassedIsVetted DEF PatchesGood
<1> HIDE DEF status
<1>8. /\ candidate \in Candidates
      /\ candidate.review_status = status /\ candidate.patches = patches
  BY <1>4, <1>5, <1>6 DEF Candidates
<1> HIDE DEF candidate
<1>9. CandidateGood(candidate, ingested)
  BY <1>6, <1>7, <1>8 DEF CandidateGood
<1>10. DraftsGood'
  BY <1>1, <1>8, <1>9 DEF LibraryInv, DraftsGood
<1>11. FilesGood' /\ WritersGood'
  BY <1>1, FilesStayGood, WritersStayGood DEF LibraryInv
<1>12. TypeOK'
  BY <1>1, <1>10, <1>11 DEF LibraryInv, TypeOK, FilesGood, WritersGood, DraftsGood
<1> QED
  BY <1>10, <1>11, <1>12 DEF LibraryInv

LEMMA ReviewGood ==
  ASSUME LibraryInv, NEW d \in Drafts, NEW approved \in BOOLEAN, Review(d, approved)
  PROVE  LibraryInv'
<1> DEFINE status == IF approved THEN "approved" ELSE "rejected"
           candidate == [draft[d] EXCEPT !.review_status = status]
<1>1. /\ draft[d].review_status = "evaluation_passed"
      /\ draft' = [draft EXCEPT ![d] = candidate]
      /\ file' = file /\ writer' = writer /\ ingested' = ingested /\ acked' = acked
      /\ overlapped' = overlapped /\ damaged' = damaged
  BY DEF Review, Reviewable
<1>2. status \in {"approved", "rejected"}
  OBVIOUS
<1> HIDE DEF status
<1>3. draft[d] \in Candidates /\ PatchesGood(draft[d].patches, ingested)
  BY <1>1 DEF LibraryInv, DraftsGood, CandidateGood, NoDraft
<1>4. candidate \in Candidates /\ candidate.patches = draft[d].patches
  BY <1>2, <1>3 DEF Candidates
<1> HIDE DEF candidate
<1>5. CandidateGood(candidate, ingested)
  BY <1>3, <1>4 DEF CandidateGood
<1>6. DraftsGood'
  BY <1>1, <1>4, <1>5 DEF LibraryInv, DraftsGood
<1>7. FilesGood' /\ WritersGood'
  BY <1>1, FilesStayGood, WritersStayGood DEF LibraryInv
<1>8. TypeOK'
  BY <1>1, <1>6, <1>7 DEF LibraryInv, TypeOK, FilesGood, WritersGood, DraftsGood
<1> QED
  BY <1>6, <1>7, <1>8 DEF LibraryInv

\* A call about to write good skills, with the history found and its news.
LEMMA RewriteGood ==
  ASSUME LibraryInv, NEW p \in Processes, NEW skills \in [Skills -> Entries],
         NEW news \in [Skills -> Seq(HistoryRows)],
         file[Matrix] # Torn,
         \A s \in Skills : EntryGood(skills[s], ingested),
         \A s \in Skills :
           skills[s].history = SkillsIn(file[Matrix])[s].history \o news[s],
         Prepare(p, Matrix, Library(skills), news),
         UNCHANGED <<file, draft, ingested, acked, overlapped, damaged>>
  PROVE  LibraryInv'
<1> DEFINE w == [at |-> "ready", to |-> Matrix, content |-> Library(skills),
                 found |-> file[Matrix], news |-> news, mixed |-> FALSE]
<1>1. file[Matrix] \in Contents /\ MatrixGood(file[Matrix], ingested)
  BY FileNames DEF LibraryInv, FilesGood
<1>2. /\ w \in WriteTexts /\ w.to = Matrix /\ w.content = Library(skills)
      /\ w.found = file[Matrix] /\ w.news = news /\ w.mixed = FALSE
  BY <1>1, FileNames, ContentTypes DEF WriteTexts
<1>3. MatrixWrite(w, ingested)
  BY <1>1, <1>2, ContentTypes, LibraryGood DEF MatrixWrite
<1>4. WriteGood(w, ingested)
  BY <1>2, <1>3 DEF WriteGood
<1>5. FilesGood' /\ DraftsGood'
  BY FilesStayGood, DraftsStayGood DEF LibraryInv
<1>6. WritersGood'
  BY <1>4, PrepareGood DEF LibraryInv
<1>7. TypeOK'
  BY <1>5, <1>6 DEF LibraryInv, TypeOK, FilesGood, WritersGood, DraftsGood
<1> QED
  BY <1>5, <1>6, <1>7 DEF LibraryInv

LEMMA PublishGood ==
  ASSUME LibraryInv, NEW p \in Processes, NEW d \in Drafts, Publish(p, d)
  PROVE  LibraryInv'
<1> DEFINE s      == draft[d].target_skill
           skills == SkillsIn(file[Matrix])
           entry  == Published(skills[s], draft[d])
           next   == [skills EXCEPT ![s] = entry]
           row    == Publication(skills[s], draft[d])
           news   == [NoNews EXCEPT ![s] = << row >>]
<1>1. /\ draft[d].review_status = "approved" /\ Publishable(draft[d])
      /\ file[Matrix] # Torn
      /\ Prepare(p, Matrix, Library(next), news)
      /\ UNCHANGED <<file, draft, ingested, acked, overlapped, damaged>>
  BY DEF Publish, Publishable
<1>2. /\ draft[d] \in Candidates /\ PatchesGood(draft[d].patches, ingested)
      /\ s \in Skills
  BY <1>1 DEF LibraryInv, DraftsGood, CandidateGood, NoDraft, Candidates
<1>3. /\ skills \in [Skills -> Entries]
      /\ \A k \in Skills : EntryGood(skills[k], ingested)
  BY <1>1, SkillsGood DEF LibraryInv, FilesGood
<1>4. /\ EntryGood(entry, ingested)
      /\ entry.history = skills[s].history \o << row >>
      /\ row \in HistoryRows
  BY <1>1, <1>2, <1>3, PublishedGood
<1> HIDE DEF entry, row, skills
<1> DEFINE one == << row >>
<1>5. entry \in Entries /\ one \in Seq(HistoryRows)
  BY <1>4 DEF EntryGood
<1> HIDE DEF one
<1>6. /\ next \in [Skills -> Entries] /\ next[s] = entry
      /\ \A k \in Skills \ {s} : next[k] = skills[k]
  BY <1>2, <1>3, <1>5
<1>7. /\ news \in [Skills -> Seq(HistoryRows)] /\ news[s] = one
      /\ \A k \in Skills \ {s} : news[k] = << >>
  <2>1. news = [NoNews EXCEPT ![s] = one]
    BY DEF one
  <2> HIDE DEF news, s
  <2> QED
    BY <1>2, <1>5, <2>1, NoNewsType DEF NoNews
<1> HIDE DEF next, news, s
<1>8. \A k \in Skills : EntryGood(next[k], ingested)
  BY <1>3, <1>4, <1>6
<1>9. ASSUME NEW k \in Skills
      PROVE  next[k].history = skills[k].history \o news[k]
  <2>1. CASE k = s
    BY <1>4, <1>6, <1>7, <2>1 DEF one
  <2>2. CASE k # s
    <3>1. skills[k].history \in Seq(HistoryRows)
      BY <1>3 DEF Entries
    <3>2. next[k] = skills[k] /\ news[k] = << >>
      BY <1>6, <1>7, <2>2
    <3> QED
      BY <3>1, <3>2, ConcatEmptySeq
  <2> QED
    BY <2>1, <2>2
<1> QED
  BY <1>1, <1>6, <1>7, <1>8, <1>9, RewriteGood DEF skills

LEMMA RollbackGood ==
  ASSUME LibraryInv, NEW p \in Processes, NEW s \in Skills, NEW to_version,
         Rollback(p, s, to_version)
  PROVE  LibraryInv'
<1> DEFINE skills == SkillsIn(file[Matrix])
           entry  == RolledBack(skills[s], to_version)
           next   == [skills EXCEPT ![s] = entry]
<1>1. /\ file[Matrix].holds = "matrix"
      /\ to_version \in Versions(skills[s])
      /\ Prepare(p, Matrix, Library(next), NoNews)
      /\ UNCHANGED <<file, draft, ingested, acked, overlapped, damaged>>
  BY DEF Rollback
<1>2. file[Matrix] # Torn
  BY <1>1, ContentTypes
<1>3. /\ skills \in [Skills -> Entries]
      /\ \A k \in Skills : EntryGood(skills[k], ingested)
  BY <1>2, SkillsGood DEF LibraryInv, FilesGood
<1>4. EntryGood(entry, ingested) /\ entry.history = skills[s].history
  BY <1>1, <1>3, RolledBackGood
<1> HIDE DEF entry, skills
<1>5. entry \in Entries
  BY <1>4 DEF EntryGood
<1>6. /\ next \in [Skills -> Entries] /\ next[s] = entry
      /\ \A k \in Skills \ {s} : next[k] = skills[k]
  BY <1>3, <1>5
<1> HIDE DEF next
<1>7. \A k \in Skills : EntryGood(next[k], ingested) /\ next[k].history = skills[k].history
  BY <1>3, <1>4, <1>6
<1>8. ASSUME NEW k \in Skills
      PROVE  next[k].history = skills[k].history \o NoNews[k]
  <2>1. skills[k].history \in Seq(HistoryRows) /\ NoNews[k] = << >>
    BY <1>3 DEF Entries, NoNews
  <2> QED
    BY <1>7, <2>1, ConcatEmptySeq
<1> QED
  BY <1>1, <1>2, <1>6, <1>7, <1>8, NoNewsType, RewriteGood DEF skills

\* Where a write stands does not touch what it writes.
LEMMA StandsAnywhere ==
  ASSUME NEW P, NEW w, WriteGood(w, P)
  PROVE  /\ WriteGood([w EXCEPT !.at = "emptied"], P)
         /\ w.at = "emptied" => WriteGood([w EXCEPT !.mixed = TRUE], P)
<1> DEFINE v == [w EXCEPT !.at = "emptied"]
           m == [w EXCEPT !.mixed = TRUE]
<1>1. w \in WriteTexts
  BY DEF WriteGood
<1>2. /\ v \in WriteTexts
      /\ v.at = "emptied" /\ v.to = w.to /\ v.content = w.content /\ v.found = w.found /\ v.news = w.news
  BY <1>1 DEF WriteTexts
<1>3. /\ m \in WriteTexts
      /\ m.at = w.at /\ m.to = w.to /\ m.content = w.content /\ m.found = w.found /\ m.news = w.news
  BY <1>1 DEF WriteTexts
<1> HIDE DEF v, m
<1>4. WriteGood(v, P)
  BY <1>2 DEF WriteGood, TraceWrite, MatrixWrite
<1>5. w.at = "emptied" => WriteGood(m, P)
  BY <1>3 DEF WriteGood, TraceWrite, MatrixWrite
<1> QED
  BY <1>4, <1>5 DEF v, m

\* What a write may leave in its file.
LEMMA LeavingGood ==
  ASSUME LibraryInv, NEW p \in Processes, writer[p] # Idle,
         NEW left \in {Torn, writer[p].content},
         file' = [file EXCEPT ![writer[p].to] = left], ingested' = ingested
  PROVE  FilesGood'
<1>1. writer[p] \in WriteTexts /\ WriteGood(writer[p], ingested)
  BY DEF LibraryInv, WritersGood
<1>2. /\ file \in [Files -> Contents]
      /\ MatrixGood(file[Matrix], ingested)
      /\ \A t \in TraceIds : TraceGood(file[t], t, ingested)
  BY DEF LibraryInv, FilesGood
<1>3. writer[p].to \in Files /\ left \in Contents
  BY <1>1, ContentTypes DEF WriteTexts
<1>4. /\ file' \in [Files -> Contents] /\ file'[writer[p].to] = left
      /\ \A f \in Files \ {writer[p].to} : file'[f] = file[f]
  BY <1>2, <1>3
<1>5. CASE TraceWrite(writer[p], ingested)
  <2>1. writer[p].to \in TraceIds /\ TraceGood(left, writer[p].to, ingested)
    BY <1>5 DEF TraceWrite, TraceGood
  <2>2. file'[Matrix] = file[Matrix]
    BY <1>4, <2>1, FileNames
  <2>3. \A t \in TraceIds : TraceGood(file'[t], t, ingested)
    BY <1>2, <1>4, <2>1, FileNames
  <2> QED
    BY <1>2, <1>4, <2>2, <2>3 DEF FilesGood
<1>6. CASE MatrixWrite(writer[p], ingested)
  <2>1. writer[p].to = Matrix /\ MatrixGood(left, ingested)
    BY <1>6 DEF MatrixWrite, MatrixGood
  <2>2. \A t \in TraceIds : file'[t] = file[t]
    BY <1>4, <2>1, FileNames
  <2> QED
    BY <1>2, <1>4, <2>1, <2>2 DEF FilesGood
<1> QED
  BY <1>1, <1>5, <1>6 DEF WriteGood

LEMMA EndedGood ==
  ASSUME LibraryInv, NEW p \in Processes, writer' = Ended(p), ingested' = ingested
  PROVE  WritersGood'
<1>1. ASSUME NEW q \in Processes
      PROVE  \/ writer'[q] = Idle
             \/ writer'[q] \in WriteTexts /\ WriteGood(writer'[q], ingested)
  <2>1. \/ writer'[q] = Idle
        \/ writer'[q] = writer[q]
        \/ writer[q].at = "emptied" /\ writer'[q] = [writer[q] EXCEPT !.mixed = TRUE]
    BY DEF Ended
  <2>2. writer[q] # Idle =>
          /\ WriteGood(writer[q], ingested)
          /\ writer[q].at = "emptied" =>
               WriteGood([writer[q] EXCEPT !.mixed = TRUE], ingested)
    BY StandsAnywhere DEF LibraryInv, WritersGood
  <2>3. writer[q].at = "emptied" => writer[q] # Idle
    BY DEF Idle
  <2> QED
    BY <2>1, <2>2, <2>3 DEF WriteGood
<1>2. writer' \in [Processes -> {Idle} \union WriteTexts]
  <2>1. writer' = [q \in Processes |-> writer'[q]]
    BY DEF Ended
  <2> QED
    BY <1>1, <2>1
<1> QED
  BY <1>1, <1>2 DEF WritersGood

LEMMA TruncateGood ==
  ASSUME LibraryInv, NEW p \in Processes, Truncate(p)
  PROVE  LibraryInv'
<1>1. /\ writer[p].at = "ready"
      /\ writer' = [writer EXCEPT ![p].at = "emptied"]
      /\ file' = [file EXCEPT ![writer[p].to] = Torn]
      /\ overlapped' = (overlapped \/ (writer[p].to = Matrix /\ file[Matrix] # writer[p].found))
      /\ draft' = draft /\ ingested' = ingested /\ acked' = acked /\ damaged' = damaged
  BY DEF Truncate
<1>2. /\ writer[p] # Idle
      /\ writer \in [Processes -> {Idle} \union WriteTexts]
      /\ WriteGood(writer[p], ingested)
  BY <1>1 DEF Idle, LibraryInv, WritersGood
<1>3. FilesGood'
  BY <1>1, <1>2, LeavingGood
<1> DEFINE w == [writer[p] EXCEPT !.at = "emptied"]
<1>4. writer' = [writer EXCEPT ![p] = w]
  BY <1>1
<1>5. WriteGood(w, ingested) /\ w \in WriteTexts
  BY <1>2, StandsAnywhere DEF WriteGood
<1> HIDE DEF w
<1>6. writer' \in [Processes -> {Idle} \union WriteTexts]
  BY <1>2, <1>4, <1>5
<1>7. \A q \in Processes : writer'[q] # Idle => WriteGood(writer'[q], ingested)
  BY <1>2, <1>4, <1>5 DEF LibraryInv, WritersGood
<1>8. WritersGood' /\ DraftsGood'
  BY <1>1, <1>6, <1>7, DraftsStayGood DEF WritersGood, LibraryInv
<1>9. overlapped' \in BOOLEAN
  BY <1>1 DEF LibraryInv, TypeOK
<1>10. TypeOK'
  BY <1>1, <1>3, <1>8, <1>9 DEF LibraryInv, TypeOK, FilesGood, WritersGood, DraftsGood
<1> QED
  BY <1>3, <1>8, <1>10 DEF LibraryInv

\* A publication that returns is one more row of its skill.
LEMMA AckedType ==
  ASSUME LibraryInv, NEW p \in Processes, writer[p] # Idle,
         acked' = [s \in Skills |-> acked[s] \o writer[p].news[s]]
  PROVE  acked' \in [Skills -> Seq(HistoryRows)]
<1>1. acked \in [Skills -> Seq(HistoryRows)]
  BY DEF LibraryInv, TypeOK
<1>2. writer[p].news \in [Skills -> Seq(HistoryRows)]
  BY DEF LibraryInv, TypeOK, WriteTexts
<1>3. \A s \in Skills : acked[s] \o writer[p].news[s] \in Seq(HistoryRows)
  BY <1>1, <1>2, ConcatProperties
<1> QED
  BY <1>3

LEMMA WriteStepGood ==
  ASSUME LibraryInv, NEW p \in Processes, Write(p)
  PROVE  LibraryInv'
<1>1. writer[p] # Idle
  BY DEF Write, Idle
<1>2. PICK left \in {Torn, writer[p].content} :
        file' = [file EXCEPT ![writer[p].to] = left]
  BY DEF Write
<1>3. /\ writer' = Ended(p)
      /\ acked' = [s \in Skills |-> acked[s] \o writer[p].news[s]]
      /\ draft' = draft /\ ingested' = ingested
      /\ overlapped' = overlapped /\ damaged' = damaged
  BY DEF Write
<1>4. FilesGood'
  BY <1>1, <1>2, <1>3, LeavingGood
<1>5. WritersGood' /\ DraftsGood'
  BY <1>3, EndedGood, DraftsStayGood DEF LibraryInv
<1>6. acked' \in [Skills -> Seq(HistoryRows)]
  BY <1>1, <1>3, AckedType
<1>7. TypeOK'
  BY <1>3, <1>4, <1>5, <1>6 DEF LibraryInv, TypeOK, FilesGood, WritersGood, DraftsGood
<1> QED
  BY <1>4, <1>5, <1>7 DEF LibraryInv

LEMMA CrashGood ==
  ASSUME LibraryInv, NEW p \in Processes, Crash(p)
  PROVE  LibraryInv'
<1>1. writer[p] # Idle
  BY DEF Crash
<1>2. /\ writer' = Ended(p)
      /\ draft' = draft /\ ingested' = ingested /\ acked' = acked
      /\ overlapped' = overlapped
  BY DEF Crash
<1>3. damaged' \in BOOLEAN
  BY DEF Crash, LibraryInv, TypeOK
<1>4. FilesGood'
  <2>1. CASE file' = file
    BY <1>2, <2>1, FilesStayGood DEF LibraryInv
  <2>2. CASE \E left \in {Torn, writer[p].content} :
               file' = [file EXCEPT ![writer[p].to] = left]
    <3>1. PICK left \in {Torn, writer[p].content} :
            file' = [file EXCEPT ![writer[p].to] = left]
      BY <2>2
    <3> QED
      BY <1>1, <1>2, <3>1, LeavingGood
  <2> QED
    BY <2>1, <2>2 DEF Crash
<1>5. WritersGood' /\ DraftsGood'
  BY <1>2, EndedGood, DraftsStayGood DEF LibraryInv
<1>6. TypeOK'
  BY <1>2, <1>3, <1>4, <1>5 DEF LibraryInv, TypeOK, FilesGood, WritersGood, DraftsGood
<1> QED
  BY <1>4, <1>5, <1>6 DEF LibraryInv

-----------------------------------------------------------------------------
(* The invariant, and what follows from it alone                           *)

LEMMA LibraryInit == Init => LibraryInv
<1> SUFFICES ASSUME Init
             PROVE  LibraryInv
  OBVIOUS
<1>1. FilesGood
  BY FileNames, ContentTypes DEF Init, FilesGood, MatrixGood, TraceGood
<1>2. WritersGood /\ DraftsGood
  BY DEF Init, WritersGood, DraftsGood
<1>3. acked \in [Skills -> Seq(HistoryRows)]
  BY DEF Init
<1>4. TypeOK
  BY <1>1, <1>2, <1>3 DEF Init, TypeOK, FilesGood, WritersGood, DraftsGood
<1> QED
  BY <1>1, <1>2, <1>4 DEF LibraryInv

LEMMA LibraryStep == LibraryInv /\ [Next]_vars => LibraryInv'
<1> SUFFICES ASSUME LibraryInv, [Next]_vars
             PROVE  LibraryInv'
  OBVIOUS
<1>1. ASSUME NEW p \in Processes, NEW pack \in Packs, Ingest(p, pack)
      PROVE  LibraryInv'
  BY <1>1, IngestGood
<1>2. ASSUME NEW p \in Processes, NEW d \in Drafts, Publish(p, d)
      PROVE  LibraryInv'
  BY <1>2, PublishGood
<1>3. ASSUME NEW p \in Processes, NEW s \in Skills, NEW to_version \in 1..MaxVersions,
             Rollback(p, s, to_version)
      PROVE  LibraryInv'
  BY <1>3, RollbackGood
<1>4. ASSUME NEW p \in Processes, Truncate(p)
      PROVE  LibraryInv'
  BY <1>4, TruncateGood
<1>5. ASSUME NEW p \in Processes, Write(p)
      PROVE  LibraryInv'
  BY <1>5, WriteStepGood
<1>6. ASSUME NEW p \in Processes, Crash(p)
      PROVE  LibraryInv'
  BY <1>6, CrashGood
<1>7. ASSUME NEW d \in Drafts, NEW skill \in Skills, NEW domain,
             NEW sensitive_base \in BOOLEAN, Distill(d, skill, domain, sensitive_base)
      PROVE  LibraryInv'
  BY <1>7, DistillGood
<1>8. ASSUME NEW d \in Drafts, NEW approved \in BOOLEAN, Review(d, approved)
      PROVE  LibraryInv'
  BY <1>8, ReviewGood
<1>9. CASE UNCHANGED vars
  <2>1. FilesGood' /\ WritersGood' /\ DraftsGood'
    BY <1>9, FilesStayGood, WritersStayGood, DraftsStayGood DEF vars, LibraryInv
  <2> QED
    BY <1>9, <2>1 DEF vars, LibraryInv, TypeOK
<1> QED
  BY <1>1, <1>2, <1>3, <1>4, <1>5, <1>6, <1>7, <1>8, <1>9 DEF Next

LEMMA LibraryAlways == Spec => []LibraryInv
BY LibraryInit, LibraryStep, PTL DEF Spec

LEMMA EntriesGood ==
  ASSUME LibraryInv, NEW s \in Skills
  PROVE  EntryGood(Entry(s), ingested)
<1>1. MatrixGood(file[Matrix], ingested)
  BY DEF LibraryInv, FilesGood
<1>2. CASE file[Matrix] = Torn
  BY <1>2, ContentTypes, UnpublishedGood DEF Entry, SkillsIn
<1>3. CASE file[Matrix] # Torn
  BY <1>1, <1>3, SkillsGood DEF Entry
<1> QED
  BY <1>2, <1>3

\* Files, writes and candidates keep their types in skill_distill.py, and every
\* publication anywhere is numbered from 1 and approved.
THEOREM LibraryTypes == Spec => []TypeOK
BY LibraryAlways, PTL DEF LibraryInv

\* Whatever processes overlap, overwrite each other or die, publish and rollback
\* leave a matrix that is a possible history of versions.
THEOREM AlwaysCoherent == Spec => []VersionsCoherent
<1>1. LibraryInv => VersionsCoherent
  BY EntriesGood DEF VersionsCoherent, EntryGood, Coherent
<1> QED
  BY <1>1, LibraryAlways, PTL

\* No text reaches the matrix past the merge, the scans, the evaluation and the
\* human review of skill_distill.py, by any writer.
THEOREM OnlyVettedPublished == Spec => []PublishedVetted
<1>1. ASSUME LibraryInv, NEW s \in Skills, NEW i \in DOMAIN Entry(s).history
      PROVE  /\ Vetted(Entry(s).history[i].patches)
             /\ Entry(s).history[i].review = "approved"
  <2>1. EntryGood(Entry(s), ingested)
    BY <1>1, EntriesGood
  <2>2. Entry(s).history[i] \in HistoryRows
    BY <1>1, <2>1 DEF EntryGood, Entries
  <2> QED
    BY <1>1, <2>1, <2>2 DEF EntryGood, PatchesGood, HistoryRows
<1>2. LibraryInv => PublishedVetted
  BY <1>1 DEF PublishedVetted, Vetted
<1> QED
  BY <1>2, LibraryAlways, PTL

\* Every published lesson was taught by the traces it names, also when their
\* files were replaced or torn since distill read them.
THEOREM LessonsStayGrounded == Spec => []LessonsGrounded
<1>1. ASSUME LibraryInv, NEW s \in Skills, NEW i \in DOMAIN Entry(s).history,
             NEW a \in Entry(s).history[i].patches
      PROVE  Grounded(a, ingested)
  BY <1>1, EntriesGood DEF EntryGood, PatchesGood
<1>2. LibraryInv => LessonsGrounded
  BY <1>1 DEF LessonsGrounded, Grounded
<1> QED
  BY <1>2, LibraryAlways, PTL

-----------------------------------------------------------------------------
(* Publications that returned                                              *)

\* Each row of a is a row of h.
Keeps(a, h) ==
  /\ Len(a) <= Len(h)
  /\ \A i \in DOMAIN a : \E j \in DOMAIN h : h[j] = a[i]

\* A matrix that holds what returned so far; no file holds nothing.
Holds(content, returned) ==
  \A s \in Skills : Keeps(returned[s], SkillsIn(content)[s].history)

\* p has opened the matrix file and not yet written it.
Rewriting(p) == writer[p].at = "emptied" /\ writer[p].to = Matrix

\* As long as no two calls have overlapped: the file holds what returned; the one
\* call that rewrites it has read all that, and will leave it; the file is torn
\* only by that call or by a process that died.
AckInv ==
  ~overlapped =>
    /\ file[Matrix] # Torn => Holds(file[Matrix], acked)
    /\ \A p \in Processes : Rewriting(p) =>
         ~writer[p].mixed /\ Holds(writer[p].found, acked) /\ file[Matrix] = Torn
    /\ \A p, q \in Processes : Rewriting(p) /\ Rewriting(q) => p = q
    /\ file[Matrix] = Torn => damaged \/ \E p \in Processes : Rewriting(p)

LEMMA KeepsMore ==
  ASSUME NEW S, NEW a \in Seq(S), NEW h \in Seq(S), NEW n \in Seq(S), Keeps(a, h)
  PROVE  Keeps(a \o n, h \o n)
<1> DEFINE b == a \o n
           g == h \o n
<1>1. /\ Len(a) \in Nat /\ Len(h) \in Nat /\ Len(n) \in Nat /\ Len(a) <= Len(h)
      /\ DOMAIN a = 1..Len(a) /\ DOMAIN h = 1..Len(h) /\ DOMAIN n = 1..Len(n)
  BY DEF Keeps
<1>2. /\ b \in Seq(S) /\ Len(b) = Len(a) + Len(n)
      /\ \A i \in 1..Len(a) + Len(n) :
           b[i] = IF i <= Len(a) THEN a[i] ELSE n[i - Len(a)]
  BY ConcatProperties
<1>3. /\ g \in Seq(S) /\ Len(g) = Len(h) + Len(n)
      /\ \A i \in 1..Len(h) + Len(n) :
           g[i] = IF i <= Len(h) THEN h[i] ELSE n[i - Len(h)]
  BY ConcatProperties
<1> HIDE DEF b, g
<1>4. DOMAIN b = 1..Len(a) + Len(n) /\ DOMAIN g = 1..Len(h) + Len(n)
  BY <1>2, <1>3
<1>5. ASSUME NEW i \in DOMAIN b
      PROVE  \E j \in DOMAIN g : g[j] = b[i]
  <2>1. CASE i <= Len(a)
    <3>1. PICK j \in 1..Len(h) : h[j] = a[i]
      BY <1>1, <1>4, <2>1 DEF Keeps
    <3>2. j \in DOMAIN g /\ g[j] = h[j] /\ b[i] = a[i]
      BY <1>1, <1>2, <1>3, <1>4, <2>1
    <3> QED
      BY <3>1, <3>2
  <2>2. CASE ~(i <= Len(a))
    <3> DEFINE j == i - Len(a) + Len(h)
    <3>1. j \in DOMAIN g /\ ~(j <= Len(h)) /\ j - Len(h) = i - Len(a)
      BY <1>1, <1>4, <2>2
    <3>2. g[j] = n[i - Len(a)] /\ b[i] = n[i - Len(a)]
      <4> HIDE DEF j
      <4> QED
        BY <1>1, <1>2, <1>3, <1>4, <2>2, <3>1
    <3> QED
      BY <3>1, <3>2
  <2> QED
    BY <2>1, <2>2
<1>6. Len(b) <= Len(g)
  BY <1>1, <1>2, <1>3
<1> QED
  BY <1>5, <1>6 DEF Keeps, b, g

\* What a call that rewrites the matrix leaves holds what it returns, too.
LEMMA ContentKeeps ==
  ASSUME LibraryInv, NEW p \in Processes, Rewriting(p), Holds(writer[p].found, acked)
  PROVE  \A s \in Skills :
           /\ Keeps(acked[s], SkillsIn(writer[p].content)[s].history)
           /\ Keeps(acked[s] \o writer[p].news[s], SkillsIn(writer[p].content)[s].history)
<1>1. writer[p] # Idle
  BY DEF Rewriting, Idle
<1>2. writer[p] \in WriteTexts /\ MatrixWrite(writer[p], ingested)
  BY <1>1, FileNames DEF LibraryInv, WritersGood, WriteGood, TraceWrite, Rewriting
<1> SUFFICES ASSUME NEW s \in Skills
             PROVE  /\ Keeps(acked[s], SkillsIn(writer[p].content)[s].history)
                    /\ Keeps(acked[s] \o writer[p].news[s],
                             SkillsIn(writer[p].content)[s].history)
  OBVIOUS
<1> DEFINE h == SkillsIn(writer[p].found)[s].history
           n == writer[p].news[s]
           a == acked[s]
<1>3. SkillsIn(writer[p].content)[s].history = h \o n
  BY <1>2 DEF MatrixWrite, SkillsIn
<1>4. h \in Seq(HistoryRows)
  BY <1>2, SkillsGood DEF MatrixWrite, Entries
<1>5. n \in Seq(HistoryRows)
  BY <1>2 DEF WriteTexts
<1>6. a \in Seq(HistoryRows)
  BY DEF LibraryInv, TypeOK
<1>7. Keeps(a, h)
  BY DEF Holds
<1> HIDE DEF h, n, a
<1>8. Keeps(a \o n, h \o n)
  BY <1>4, <1>5, <1>6, <1>7, KeepsMore
<1>9. Keeps(a, h \o n)
  <2> DEFINE g == h \o n
  <2>1. /\ g \in Seq(HistoryRows) /\ Len(g) = Len(h) + Len(n)
        /\ \A i \in 1..Len(h) : g[i] = h[i]
    BY <1>4, <1>5, ConcatProperties
  <2>2. Len(h) \in Nat /\ Len(n) \in Nat /\ Len(a) \in Nat /\ DOMAIN h = 1..Len(h)
    BY <1>4, <1>5, <1>6
  <2> HIDE DEF g
  <2>3. DOMAIN g = 1..Len(h) + Len(n)
    BY <2>1
  <2> QED
    BY <1>7, <2>1, <2>2, <2>3 DEF Keeps, g
<1> QED
  BY <1>3, <1>8, <1>9 DEF a, n

\* The content that a good write found, and the one it leaves, parse or are absent.
LEMMA RewriteFound ==
  ASSUME LibraryInv, NEW p \in Processes, writer[p].at \in {"ready", "emptied"},
         writer[p].to = Matrix
  PROVE  /\ writer[p].found # Torn /\ writer[p].content # Torn
         /\ writer[p].at = "ready" => ~writer[p].mixed
<1>1. writer[p] # Idle
  BY DEF Idle
<1>2. WriteGood(writer[p], ingested) /\ MatrixWrite(writer[p], ingested)
  BY <1>1, FileNames DEF LibraryInv, WritersGood, WriteGood, TraceWrite
<1> QED
  BY <1>2, ContentTypes DEF WriteGood, MatrixWrite

\* No call has read, or leaves, more than it did: only who rewrites may change.
LEMMA AckStays ==
  ASSUME AckInv, file'[Matrix] = file[Matrix], acked' = acked,
         overlapped' = overlapped, damaged' = damaged,
         \A q \in Processes : Rewriting(q)' <=> Rewriting(q),
         \A q \in Processes : Rewriting(q) => writer'[q] = writer[q]
  PROVE  AckInv'
<1> SUFFICES ASSUME ~overlapped'
             PROVE  AckInv'
  BY DEF AckInv
<1>1. \A q \in Processes : Rewriting(q)' =>
        ~writer'[q].mixed /\ Holds(writer'[q].found, acked') /\ file'[Matrix] = Torn
  BY DEF AckInv
<1>2. \A p, q \in Processes : Rewriting(p)' /\ Rewriting(q)' => p = q
  BY DEF AckInv
<1>3. file'[Matrix] = Torn => damaged' \/ \E p \in Processes : Rewriting(p)'
  BY DEF AckInv
<1>4. file'[Matrix] # Torn => Holds(file'[Matrix], acked')
  BY DEF AckInv
<1> QED
  BY <1>1, <1>2, <1>3, <1>4 DEF AckInv

LEMMA AckPrepare ==
  ASSUME LibraryInv, AckInv, NEW p \in Processes, NEW f, NEW content, NEW news,
         Prepare(p, f, content, news),
         UNCHANGED <<file, acked, overlapped, damaged>>
  PROVE  AckInv'
<1>1. /\ writer \in [Processes -> {Idle} \union WriteTexts]
      /\ writer[p] = Idle
      /\ writer' = [writer EXCEPT ![p] =
           [at |-> "ready", to |-> f, content |-> content, found |-> file[f],
            news |-> news, mixed |-> FALSE]]
  BY DEF LibraryInv, TypeOK, Prepare
<1>2. ~Rewriting(p) /\ writer'[p].at = "ready"
  BY <1>1 DEF Rewriting, Idle
<1>3. ASSUME NEW q \in Processes
      PROVE  (Rewriting(q)' <=> Rewriting(q)) /\ (Rewriting(q) => writer'[q] = writer[q])
  <2>1. CASE q = p
    BY <1>2, <2>1 DEF Rewriting
  <2>2. CASE q # p
    <3>1. writer'[q] = writer[q]
      BY <1>1, <2>2
    <3> QED
      BY <3>1 DEF Rewriting
  <2> QED
    BY <2>1, <2>2
<1> QED
  BY <1>3, AckStays

LEMMA AckTruncate ==
  ASSUME LibraryInv, AckInv, NEW p \in Processes, Truncate(p)
  PROVE  AckInv'
<1>1. /\ writer[p].at = "ready"
      /\ writer' = [writer EXCEPT ![p].at = "emptied"]
      /\ file' = [file EXCEPT ![writer[p].to] = Torn]
      /\ overlapped' = (overlapped \/ (writer[p].to = Matrix /\ file[Matrix] # writer[p].found))
      /\ acked' = acked /\ damaged' = damaged
  BY DEF Truncate
<1>2. /\ writer \in [Processes -> {Idle} \union WriteTexts]
      /\ writer[p] \in WriteTexts
      /\ file \in [Files -> Contents]
      /\ overlapped \in BOOLEAN
  BY <1>1 DEF LibraryInv, TypeOK, Idle
<1>3. /\ \A q \in Processes \ {p} : writer'[q] = writer[q]
      /\ writer'[p] = [writer[p] EXCEPT !.at = "emptied"]
  BY <1>1, <1>2
<1>4. /\ writer'[p].at = "emptied" /\ writer'[p].to = writer[p].to
      /\ writer'[p].found = writer[p].found /\ writer'[p].mixed = writer[p].mixed
  BY <1>2, <1>3 DEF WriteTexts
<1>5. \A q \in Processes \ {p} : Rewriting(q)' <=> Rewriting(q)
  BY <1>3 DEF Rewriting
<1>6. ~Rewriting(p)
  BY <1>1 DEF Rewriting
<1>7. CASE writer[p].to # Matrix
  <2>1. ~Rewriting(p)'
    BY <1>4, <1>7 DEF Rewriting
  <2>2. file'[Matrix] = file[Matrix] /\ overlapped' = overlapped
    BY <1>1, <1>2, <1>7, FileNames
  <2> QED
    BY <1>1, <1>3, <1>5, <1>6, <2>1, <2>2, AckStays
<1>8. CASE writer[p].to = Matrix
  <2> SUFFICES ASSUME ~overlapped'
               PROVE  AckInv'
    BY DEF AckInv
  <2>1. ~overlapped /\ file[Matrix] = writer[p].found
    BY <1>1, <1>2, <1>8
  <2>2. file[Matrix] # Torn
    BY <1>1, <1>8, <2>1, RewriteFound
  <2>3. Holds(file[Matrix], acked) /\ \A q \in Processes : ~Rewriting(q)
    BY <2>1, <2>2 DEF AckInv
  <2>4. file'[Matrix] = Torn
    BY <1>1, <1>2, <1>8, FileNames
  <2>5. Rewriting(p)' /\ \A q \in Processes : Rewriting(q)' => q = p
    BY <1>4, <1>5, <1>8, <2>3 DEF Rewriting
  <2>6. ~writer'[p].mixed
    BY <1>1, <1>4, <1>8, RewriteFound
  <2>7. Holds(writer'[p].found, acked')
    BY <1>1, <1>4, <2>1, <2>3
  <2> QED
    BY <2>4, <2>5, <2>6, <2>7 DEF AckInv
<1> QED
  BY <1>7, <1>8

\* A call that ends without having emptied the matrix disturbs no rewriting call.
LEMMA EndedElsewhere ==
  ASSUME LibraryInv, NEW p \in Processes, ~Rewriting(p), writer' = Ended(p),
         NEW q \in Processes
  PROVE  (Rewriting(q)' <=> Rewriting(q)) /\ (Rewriting(q) => writer'[q] = writer[q])
<1>1. CASE q = p
  <2>1. writer'[q] = Idle
    BY <1>1 DEF Ended
  <2> QED
    BY <1>1, <2>1 DEF Rewriting, Idle
<1>2. CASE q # p /\ writer[p].at = "emptied" /\ writer[q].at = "emptied"
           /\ writer[q].to = writer[p].to
  <2>1. writer'[q] = [writer[q] EXCEPT !.mixed = TRUE]
    BY <1>2 DEF Ended
  <2>2. writer[q] \in WriteTexts
    BY <1>2 DEF LibraryInv, TypeOK, Idle
  <2>3. writer'[q].to = writer[q].to
    BY <2>1, <2>2 DEF WriteTexts
  <2> QED
    BY <1>2, <2>3 DEF Rewriting
<1>3. CASE q # p /\ ~(/\ writer[p].at = "emptied" /\ writer[q].at = "emptied"
                     /\ writer[q].to = writer[p].to)
  <2>1. writer'[q] = writer[q]
    BY <1>3 DEF Ended
  <2> QED
    BY <2>1 DEF Rewriting
<1> QED
  BY <1>1, <1>2, <1>3

\* When the one call that rewrites the matrix ends, no call rewrites it.
LEMMA EndedLast ==
  ASSUME LibraryInv, NEW p \in Processes, writer' = Ended(p),
         \A q \in Processes : Rewriting(q) => q = p
  PROVE  \A q \in Processes : ~Rewriting(q)'
<1> SUFFICES ASSUME NEW q \in Processes
             PROVE  ~Rewriting(q)'
  OBVIOUS
<1>1. CASE q = p
  <2>1. writer'[q] = Idle
    BY <1>1 DEF Ended
  <2> QED
    BY <2>1 DEF Rewriting, Idle
<1>2. CASE q # p
  <2>1. \/ writer'[q] = writer[q]
        \/ /\ writer[q].at = "emptied"
           /\ writer'[q] = [writer[q] EXCEPT !.mixed = TRUE]
    BY <1>2 DEF Ended
  <2>2. writer[q].at = "emptied" => writer[q] \in WriteTexts
    BY DEF LibraryInv, TypeOK, Idle
  <2>3. writer'[q].at = writer[q].at /\ writer'[q].to = writer[q].to
    BY <2>1, <2>2 DEF WriteTexts
  <2> QED
    BY <1>2, <2>3 DEF Rewriting
<1> QED
  BY <1>1, <1>2

\* A write that is not of the matrix changes no matrix and returns no publication.
LEMMA TraceReturns ==
  ASSUME LibraryInv, NEW p \in Processes, writer[p].at = "emptied", ~Rewriting(p)
  PROVE  /\ writer[p].to \in Files /\ writer[p].to # Matrix
         /\ acked = [s \in Skills |-> acked[s] \o writer[p].news[s]]
<1>1. writer[p] # Idle
  BY DEF Idle
<1>2. writer[p].to # Matrix
  BY DEF Rewriting
<1>3. writer[p] \in WriteTexts /\ TraceWrite(writer[p], ingested)
  BY <1>1, <1>2 DEF LibraryInv, WritersGood, WriteGood, MatrixWrite
<1>4. acked \in [Skills -> Seq(HistoryRows)]
  BY DEF LibraryInv, TypeOK
<1>5. ASSUME NEW s \in Skills
      PROVE  acked[s] \o writer[p].news[s] = acked[s]
  <2>1. acked[s] \in Seq(HistoryRows) /\ writer[p].news[s] = << >>
    BY <1>3, <1>4 DEF TraceWrite, NoNews
  <2> QED
    BY <2>1, ConcatEmptySeq
<1> QED
  BY <1>2, <1>3, <1>4, <1>5 DEF WriteTexts

LEMMA AckWrite ==
  ASSUME LibraryInv, AckInv, NEW p \in Processes, Write(p)
  PROVE  AckInv'
<1>1. /\ writer[p].at = "emptied"
      /\ writer' = Ended(p)
      /\ acked' = [s \in Skills |-> acked[s] \o writer[p].news[s]]
      /\ overlapped' = overlapped /\ damaged' = damaged
      /\ file \in [Files -> Contents]
  BY DEF Write, LibraryInv, TypeOK
<1>2. CASE ~Rewriting(p)
  <2>1. writer[p].to # Matrix /\ acked' = acked
    BY <1>1, <1>2, TraceReturns
  <2>2. file'[Matrix] = file[Matrix]
    BY <1>1, <2>1, FileNames DEF Write
  <2> QED
    BY <1>1, <1>2, <2>1, <2>2, EndedElsewhere, AckStays
<1>3. CASE Rewriting(p)
  <2> SUFFICES ASSUME ~overlapped'
               PROVE  AckInv'
    BY DEF AckInv
  <2>1. /\ ~writer[p].mixed /\ Holds(writer[p].found, acked)
        /\ \A q \in Processes : Rewriting(q) => q = p
    BY <1>1, <1>3 DEF AckInv
  <2>2. file'[Matrix] = writer[p].content
    <3>1. writer[p].to = Matrix
      BY <1>3 DEF Rewriting
    <3>2. PICK left \in {writer[p].content} \union (IF writer[p].mixed THEN {Torn} ELSE {}) :
            file' = [file EXCEPT ![writer[p].to] = left]
      BY DEF Write
    <3>3. left = writer[p].content
      BY <2>1, <3>2
    <3> QED
      BY <1>1, <3>1, <3>2, <3>3, FileNames
  <2>3. writer[p].content # Torn
    BY <1>1, <1>3, RewriteFound DEF Rewriting
  <2>4. ASSUME NEW s \in Skills
        PROVE  Keeps(acked'[s], SkillsIn(writer[p].content)[s].history)
    <3>1. acked'[s] = acked[s] \o writer[p].news[s]
      BY <1>1
    <3> QED
      BY <1>3, <2>1, <3>1, ContentKeeps
  <2>5. Holds(file'[Matrix], acked')
    BY <2>2, <2>4 DEF Holds
  <2>6. \A q \in Processes : ~Rewriting(q)'
    BY <1>1, <2>1, EndedLast
  <2> QED
    BY <2>2, <2>3, <2>5, <2>6 DEF AckInv
<1> QED
  BY <1>2, <1>3

LEMMA AckCrash ==
  ASSUME LibraryInv, AckInv, NEW p \in Processes, Crash(p)
  PROVE  AckInv'
<1>1. /\ writer' = Ended(p) /\ acked' = acked /\ overlapped' = overlapped
      /\ file \in [Files -> Contents]
  BY DEF Crash, LibraryInv, TypeOK
<1>2. CASE writer[p].at = "ready"
  <2>1. ~Rewriting(p) /\ file' = file /\ damaged' = damaged
    BY <1>2 DEF Rewriting, Crash
  <2> QED
    BY <1>1, <2>1, EndedElsewhere, AckStays
<1>3. CASE writer[p].at = "emptied" /\ ~Rewriting(p)
  <2>1. writer[p].to # Matrix
    BY <1>3, TraceReturns
  <2>2. file'[Matrix] = file[Matrix]
    BY <1>1, <1>3, <2>1, FileNames DEF Crash
  <2>3. damaged' = damaged
    BY <1>3, <2>1 DEF Crash, LibraryInv, TypeOK
  <2> QED
    BY <1>1, <1>3, <2>2, <2>3, EndedElsewhere, AckStays
<1>4. CASE Rewriting(p)
  <2> SUFFICES ASSUME ~overlapped'
               PROVE  AckInv'
    BY DEF AckInv
  <2>1. /\ Holds(writer[p].found, acked)
        /\ \A q \in Processes : Rewriting(q) => q = p
    BY <1>1, <1>4 DEF AckInv
  <2>2. writer[p].at = "emptied" /\ writer[p].to = Matrix /\ damaged'
    BY <1>4 DEF Rewriting, Crash
  <2>3. PICK left \in {Torn, writer[p].content} : file'[Matrix] = left
    BY <1>1, <2>2, FileNames DEF Crash
  <2>4. Holds(writer[p].content, acked')
    BY <1>1, <1>4, <2>1, ContentKeeps DEF Holds
  <2>5. \A q \in Processes : ~Rewriting(q)'
    BY <1>1, <2>1, EndedLast
  <2> QED
    BY <2>2, <2>3, <2>4, <2>5 DEF AckInv
<1> QED
  BY <1>2, <1>3, <1>4 DEF Crash

LEMMA AckInit == Init => AckInv
<1> SUFFICES ASSUME Init
             PROVE  AckInv
  OBVIOUS
<1>1. file[Matrix] = NoFile /\ \A p \in Processes : ~Rewriting(p)
  BY FileNames DEF Init, Rewriting, Idle
<1>2. ASSUME NEW s \in Skills
      PROVE  Keeps(acked[s], SkillsIn(NoFile)[s].history)
  <2>1. acked[s] = << >> /\ SkillsIn(NoFile)[s].history = << >>
    BY ContentTypes DEF Init, SkillsIn, Unpublished
  <2> QED
    BY <2>1 DEF Keeps
<1> QED
  BY <1>1, <1>2, ContentTypes DEF AckInv, Holds

LEMMA AckStep == LibraryInv /\ AckInv /\ [Next]_vars => AckInv'
<1> SUFFICES ASSUME LibraryInv, AckInv, [Next]_vars
             PROVE  AckInv'
  OBVIOUS
<1>1. ASSUME NEW p \in Processes, NEW pack \in Packs, Ingest(p, pack)
      PROVE  AckInv'
  BY <1>1, AckPrepare DEF Ingest
<1>2. ASSUME NEW p \in Processes, NEW d \in Drafts, Publish(p, d)
      PROVE  AckInv'
  BY <1>2, AckPrepare DEF Publish
<1>3. ASSUME NEW p \in Processes, NEW s \in Skills, NEW to_version \in 1..MaxVersions,
             Rollback(p, s, to_version)
      PROVE  AckInv'
  BY <1>3, AckPrepare DEF Rollback
<1>4. ASSUME NEW p \in Processes, Truncate(p)
      PROVE  AckInv'
  BY <1>4, AckTruncate
<1>5. ASSUME NEW p \in Processes, Write(p)
      PROVE  AckInv'
  BY <1>5, AckWrite
<1>6. ASSUME NEW p \in Processes, Crash(p)
      PROVE  AckInv'
  BY <1>6, AckCrash
<1>7. ASSUME UNCHANGED <<file, writer, acked, overlapped, damaged>>
      PROVE  AckInv'
  <2>1. \A q \in Processes : (Rewriting(q)' <=> Rewriting(q)) /\ writer'[q] = writer[q]
    BY <1>7 DEF Rewriting
  <2> QED
    BY <1>7, <2>1, AckStays
<1>8. ASSUME NEW d \in Drafts, NEW skill \in Skills, NEW domain,
             NEW sensitive_base \in BOOLEAN, Distill(d, skill, domain, sensitive_base)
      PROVE  AckInv'
  BY <1>7, <1>8 DEF Distill
<1>9. ASSUME NEW d \in Drafts, NEW approved \in BOOLEAN, Review(d, approved)
      PROVE  AckInv'
  BY <1>7, <1>9 DEF Review
<1>10. CASE UNCHANGED vars
  BY <1>7, <1>10 DEF vars
<1> QED
  BY <1>1, <1>2, <1>3, <1>4, <1>5, <1>6, <1>8, <1>9, <1>10 DEF Next

\* Without a lock, a publication that publish returned is lost only when two
\* calls that rewrite the matrix overlapped, and the matrix stops parsing for good
\* only then or when a process died while it wrote it.
THEOREM ReturnedIsKept == Spec => []AckedKept
<1>1. LibraryInv /\ AckInv => AckedKept
  <2> SUFFICES ASSUME LibraryInv, AckInv, ~overlapped
               PROVE  AckedKept
    BY DEF AckedKept
  <2>1. ASSUME Readable, NEW s \in Skills
        PROVE  Keeps(acked[s], Entry(s).history)
    <3>1. file[Matrix] # Torn
      BY <2>1, ContentTypes DEF Readable
    <3> QED
      BY <3>1 DEF AckInv, Holds, Entry
  <2>2. ASSUME ~damaged, \A p \in Processes : writer[p].at = "emptied" => writer[p].to # Matrix
        PROVE  /\ file[Matrix] # Torn
               /\ Readable \/ \A s \in Skills : acked[s] = << >>
    <3>1. file[Matrix] # Torn /\ Holds(file[Matrix], acked)
      BY <2>2 DEF AckInv, Rewriting
    <3>2. CASE file[Matrix] = NoFile
      <4>1. ASSUME NEW s \in Skills
            PROVE  acked[s] = << >>
        <5>1. SkillsIn(file[Matrix])[s].history = << >>
          BY <3>2, ContentTypes DEF SkillsIn, Unpublished
        <5>2. Len(acked[s]) <= 0
          BY <3>1, <5>1 DEF Holds, Keeps
        <5>3. acked[s] \in Seq(HistoryRows)
          BY DEF LibraryInv, TypeOK
        <5> QED
          BY <5>2, <5>3
      <4> QED
        BY <3>1, <4>1
    <3>3. CASE file[Matrix] # NoFile
      BY <3>1, <3>3 DEF LibraryInv, FilesGood, MatrixGood, Readable
    <3> QED
      BY <3>2, <3>3
  <2> QED
    BY <2>1, <2>2 DEF AckedKept, Keeps
<1>2. Spec => []AckInv
  <2>1. Init => AckInv
    BY AckInit
  <2>2. LibraryInv /\ AckInv /\ [Next]_vars => AckInv'
    BY AckStep
  <2> QED
    BY <2>1, <2>2, LibraryAlways, PTL DEF Spec
<1> QED
  BY <1>1, <1>2, LibraryAlways, PTL

=============================================================================
