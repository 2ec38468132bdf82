---------------------- MODULE MCProducerReplayJournal ----------------------
(* Two request ids, nonces, bodies and admissions, so that a retry, a reuse *)
(* of the id, of the nonce and of both with another body all occur, and two *)
(* service generations.                                                     *)
EXTENDS ProducerReplayJournal, TLC

CONSTANTS q1, q2, n1, n2, b1, b2, c1, c2, g1, g2, done, failed
MCRequestIds == {q1, q2}
MCNonces == {n1, n2}
MCBodies == {b1, b2}
MCCorrelations == {c1, c2}
MCResults == {done, failed}
MCGenerations == {g1, g2}

(* Nothing distinguishes the values of one set, so they may be permuted.    *)
Symmetry ==
    Permutations(MCRequestIds) \cup Permutations(MCNonces)
        \cup Permutations(MCBodies) \cup Permutations(MCCorrelations)
        \cup Permutations(MCResults) \cup Permutations(MCGenerations)
============================================================================
