------------------------- MODULE MCHumanCaIssuance -------------------------
(* Two certificates of one actor, a journal of two entries, two archives:   *)
(* enough for a rotation to be refused and for a serial to be used again.   *)
EXTENDS HumanCaIssuance, TLC

CONSTANTS c1, c2, alice

MCActorOf == [c \in {c1, c2} |-> alice]
Interchangeable == Permutations({c1, c2}) \cup Permutations(Deliveries)
                     \cup Permutations(Archives)
=============================================================================
