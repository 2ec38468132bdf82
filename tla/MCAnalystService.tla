--------------------------- MODULE MCAnalystService ---------------------------
(* One alert and two analysts, who both begin the review from version 0, one  *)
(* of whom ends it under the id the other used: commands meet on one version  *)
(* and on one id over the two listeners, each repeated at will.               *)
EXTENDS AnalystService, TLC

CONSTANTS a1, i1, i2, ann, bob, eve

Post(id, version, to, actor) ==
    [id |-> id, alert |-> a1, version |-> version, to |-> to, actor |-> actor]
MCClients ==
    {[at |-> "browser", person |-> ann, request |-> Reading],
     [at |-> "browser", person |-> ann, request |-> Post(i1, 0, "in_review", ann)],
     [at |-> "browser", person |-> ann, request |-> Post(i2, 1, "closed", ann)],
     [at |-> "api", person |-> bob, request |-> Post(i2, 0, "in_review", bob)]}
=============================================================================
