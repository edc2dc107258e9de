--------------------------- MODULE MCSkillLibrary ---------------------------
(***************************************************************************)
(* A small instance of SkillLibrary: two processes, one skill, and packs   *)
(* that pass or trip each of the gates.                                    *)
(***************************************************************************)
EXTENDS SkillLibrary, TLC

CONSTANTS p1, p2, d1, k1

TwoProcesses == {p1, p2}
OneDraft     == {d1}
OneSkill     == {k1}

ProcessSymmetry == Permutations(TwoProcesses)

\* "long_a" and "long_b" agree in their first 48 characters; "digest" holds 64
\* hexadecimal digits; the topic of "echo" occurs in a pattern title, and that of
\* "clash" is the topic of a pattern.
SomeSignatures == {"plain", "long_a", "long_b", "digest", "echo", "clash"}

SomeTitles ==
  [l \in Lessons |-> IF l \in {"long_a", "long_b"} THEN "long" ELSE l]

SensitiveOnes == {"digest"}
SomeContradicts == [s \in SomeSignatures |-> IF s = "clash" THEN {"sequence"} ELSE {}]
SomeEchoes ==
  [SomeContradicts EXCEPT !["echo"] = {"verify_first"}]

Pack(task, domain, verdict, signatures, published, escalated) ==
  [task |-> task, domain |-> domain, verdict |-> verdict, signatures |-> signatures,
   published |-> published, escalated |-> escalated]

SomePacks ==
  { Pack("a", "python", "PASS", {}, "named", FALSE),
    Pack("a", "python", "PASS", {"echo"}, "none", FALSE),
    Pack("a", "python", "PASS", {"clash"}, "named", FALSE),
    Pack("a", "python", "PASS", {"plain"}, "exported", FALSE),
    Pack("b", "java", "FAIL", {"plain"}, "exported", TRUE),
    Pack("b", "java", "NONE", {"long_a", "long_b"}, "none", FALSE),
    Pack("b", "java", "FAIL", {"digest"}, "exported", FALSE) }

\* Packs as evidence_pack exports them, of a task that failed and one that passed.
ExportedPacks == {pack \in SomePacks : pack.published = "exported"}

OneAtATime == \E p \in Processes : writer[p] = Idle
NoneBeyond(n) == \A s \in Skills : Len(Entry(s).history) <= n

\* Calls overlap while there is one pack and at most one version; a second pack
\* or later versions and rollbacks are watched with one call at a time.
FewSteps ==
  \/ Cardinality(ingested) <= 1 /\ (NoneBeyond(1) \/ OneAtATime)
  \/ NoneBeyond(1) /\ OneAtATime /\ \A s \in Skills : Entry(s).rollbacks = << >>
=============================================================================
