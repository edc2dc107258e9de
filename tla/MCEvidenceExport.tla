-------------------------- MODULE MCEvidenceExport --------------------------
(***************************************************************************)
(* A small instance of EvidenceExport: one task that is verified, closed   *)
(* or sent back while a reader collects its rows.                          *)
(***************************************************************************)
EXTENDS EvidenceExport

CONSTANTS t1, s1, f1

OneTask      == {t1}
OneSignature == {s1}
OneScope     == {{f1}}

\* The read-only path to its end, and rounds that end in recovery.
ReadRequests ==
  { <<"executor", "RECOVERING">>, <<"verifier", "READONLY_VERIFYING">>,
    <<"verifier", "READONLY_VERIFIED">>, <<"lead", "EVIDENCE_PACKED">>,
    <<"lead", "CLOSED">> }

ReportsOnly == {"VerificationReport"}
AskedFor    == {"EVIDENCE_PACKED", "CLOSED"}
Unexplained == {""}

\* Three reports trip the breaker; an approval, or a side effect, is watched
\* beside one report.
FewRows == Len(artifacts[t1]) + 2 * Len(approvals) + 2 * Len(effect_events[t1]) <= 3
=============================================================================
