------------------------- MODULE MCProducerTlsTransport -------------------------
(* One handler and two clients.   The registry rotates from k1 to k2; one more  *)
(* candidate overlaps too long and is refused.                                  *)
EXTENDS ProducerTlsTransport, TLC

CONSTANTS h1, c1, c2, k1, k2, k3
MCHandlers == {h1}
MCClients == {c1, c2}

Entry(k, from, until, enabled, revoked) ==
    [cert |-> k, from |-> from, until |-> until, enabled |-> enabled, revoked |-> revoked]
MCRegistries ==
    {{Entry(k1, 0, 3, TRUE, FALSE), Entry(k2, 2, 9, TRUE, FALSE), Entry(k3, 0, 9, TRUE, TRUE)},
     {Entry(k1, 0, 9, TRUE, FALSE), Entry(k2, 2, 9, TRUE, FALSE)}}

Plan(k, records, length) ==
    [cert |-> k, named |-> TRUE, head |-> "valid", length |-> length, records |-> records,
     envelope |-> "registered", produced |-> 1]

(* The head is two bytes, a chunk two: whole, split, dripped, short and overlong *)
(* requests.                                                                     *)
Good == Plan(k1, <<3, 1>>, 2)
Rotated == Plan(k2, <<4>>, 2)
Dripped == Plan(k1, <<1, 1, 1, 1>>, 2)
Short == Plan(k1, <<3>>, 2)
ChunkOver == Plan(k1, <<2, 3>>, 2)
ByteOver == Plan(k1, <<4>>, 1)
LateOver == Plan(k2, <<3, 1>>, 1)
Revoked == Plan(k3, <<4>>, 2)
Unnamed == [Good EXCEPT !.named = FALSE]
BadHead == [Good EXCEPT !.head = "invalid"]
Foreign == [Rotated EXCEPT !.envelope = "foreign"]
Malformed == [Rotated EXCEPT !.envelope = "malformed"]
Empty == Plan(k1, <<2>>, 0)
Stale == [Rotated EXCEPT !.produced = 0]

MCMixes ==
    {c1 :> p : p \in {Good, Rotated, Dripped, Short, ChunkOver, ByteOver, LateOver, Revoked,
                      Unnamed, BadHead, Foreign, Malformed, Empty, Stale}}
    \cup {(c1 :> p) @@ (c2 :> q) : p \in {Good, Short}, q \in {Rotated, Dripped}}
=============================================================================
