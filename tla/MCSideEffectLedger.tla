------------------------- MODULE MCSideEffectLedger -------------------------
(***************************************************************************)
(* Small instances of SideEffectLedger: two runs, one of which may be the  *)
(* recovery of the other.                                                  *)
(***************************************************************************)
EXTENDS SideEffectLedger, TLC

CONSTANTS r1, r2, k1, k2, i1, i2

TwoRuns    == {r1, r2}
OneKey     == {k1}
TwoKeys    == {k1, k2}
OneIntent  == {i1}
TwoIntents == {i1, i2}

AnyFence      == {"none", "exclusive", "drained"}
ExclusiveOnly == {"exclusive"}

\* Runs that are not held apart are followed for three effects and one crash.
FewOverlaps == fence # "drained" => Len(world) <= 3 /\ crashes <= 1

LedgerSymmetry ==
  Permutations(TwoRuns) \union Permutations(TwoKeys) \union Permutations(TwoIntents)
=============================================================================
