------------------------ MODULE MCSoarPlaybookLedger ------------------------
(* Small instances of the SOAR playbook ledger.                             *)
EXTENDS SoarPlaybookLedger, TLC

CONSTANTS p1, p2, alice, bob, c1, c2

TwoPlaybooks == {p1, p2}
TwoActors == {alice, bob}
TwoCallers == {c1, c2}
Symmetry == Permutations(TwoPlaybooks) \cup Permutations(TwoActors)
                \cup Permutations(TwoCallers)
=============================================================================
