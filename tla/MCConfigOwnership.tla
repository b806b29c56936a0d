------------------------- MODULE MCConfigOwnership -------------------------
(* Small instances of ConfigOwnership for TLC. *)
EXTENDS ConfigOwnership, TLC

CONSTANTS A, B, r1, r2, n0, n1

Both == {A, B}
NoRequest == {}
OneRequest == {r1}
TwoRequests == {r1, r2}
RequestedByB == [r \in Requests |-> B]
RequestedByEach == (r1 :> B) @@ (r2 :> A)
TwoLogins == {n0, n1}
AllKinds == Kinds
ManagedOnly == {"managed"}

Bounds(s, c, l, r, e, f) ==
  [switch |-> s, crash |-> c, login |-> l, refresh |-> r, edit |-> e, fail |-> f]

CrashBudget == Bounds(2, 2, 1, 0, 0, 0)
RaceBudget == Bounds(2, 0, 1, 1, 1, 1)
LeaseBudget == Bounds(2, 1, 0, 0, 0, 1)
TerminationBudget == Bounds(2, 1, 0, 1, 0, 1)
HandOverBudget == Bounds(2, 0, 0, 0, 0, 2)
LoginAfterCrashBudget == Bounds(1, 1, 1, 0, 0, 0)
LoginUnscopedBudget == Bounds(2, 1, 1, 0, 0, 0)
BackupMarkerBudget == Bounds(2, 1, 0, 0, 0, 0)
HandOverCrashBudget == Bounds(1, 1, 0, 0, 0, 0)
=============================================================================
