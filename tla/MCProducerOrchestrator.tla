---------------------- MODULE MCProducerOrchestrator ----------------------
(* Two handler threads, as in the service; r1 submits two attacks, so that  *)
(* a batch can be persisted in part; r2 shares an attack with r1 and holds  *)
(* a normal row; r3 reuses the id or nonce of r1 for a rejected row.        *)
EXTENDS ProducerOrchestrator, TLC

CONSTANTS h1, h2, r1, r2, r3, e1, e2, e3, e4
MCHandlers == {h1, h2}
MCRecords == {r1, r2, r3}
MCEvents == {e1, e2, e3, e4}
MCBatch == (r1 :> <<e1, e2>>) @@ (r2 :> <<e3, e1>>) @@ (r3 :> <<e4>>)
MCVerdict == (e1 :> "Attack") @@ (e2 :> "Attack") @@ (e3 :> "Normal")
                 @@ (e4 :> "rejected")
MCClashes == {<<r1, r3>>, <<r3, r1>>}

(* A request retried with two failures; requests in pairs, and a clash or a *)
(* third submission after a retry, with one; all of them with none.         *)
Workload(a, b, c, f) ==
    [submissions |-> (r1 :> a) @@ (r2 :> b) @@ (r3 :> c), faults |-> f]
MCWorkloads ==
    {Workload(2, 0, 0, 2), Workload(1, 1, 0, 1), Workload(1, 0, 1, 1),
     Workload(2, 0, 1, 0), Workload(2, 1, 0, 0)}
===========================================================================
