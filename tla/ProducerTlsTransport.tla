-------------------------- MODULE ProducerTlsTransport --------------------------
(* The producer listener, the life of one TLS connection and the admission of   *)
(* the one request it carries (producer_tls_transport, producer_admission), as  *)
(* the handler threads of the orchestrator drive them.                          *)
(*                                                                              *)
(* A client is a plan: its certificate, its request and the TLS records it      *)
(* sends, of which only the sizes matter.  Of a head the model keeps whether it *)
(* parses and the length it declares; of an envelope what admission makes of    *)
(* it.  Time is counted in ticks; a tick never passes a deadline that is due.   *)
(* What happens to an admitted request is in ProducerOrchestrator.              *)
EXTENDS Integers, Sequences, FiniteSets, FiniteSetsExt

CONSTANTS
    Handlers, Clients, NoClient,
    Registries,      \* candidate certificate registries
    Mixes,           \* plans, chosen together, of the clients that connect
    Backlog,         \* listen_backlog
    HeadBytes,       \* bytes of a request head, up to CRLFCRLF
    Chunk,           \* SOCKET_READ_CHUNK_BYTES
    AcceptSeconds, HandshakeTotal, ReadTotal, ReadIdle, WriteTotal, WriteIdle,
    MaxValidity, MaxOverlap,
    Past, Future,    \* window of produced_at around the trusted time
    MaxTime          \* bound: the last instant told apart

ASSUME TransportConfiguration ==
    /\ NoClient \notin Clients
    /\ \A k \in {Backlog, HeadBytes, Chunk, AcceptSeconds, HandshakeTotal, ReadTotal, ReadIdle,
                 WriteTotal, WriteIdle} : k \in Nat \ {0}
    /\ \A k \in {MaxValidity, MaxOverlap, Past, Future, MaxTime} : k \in Nat
    /\ \A mix \in Mixes : \A c \in DOMAIN mix :
          c \in Clients /\ mix[c].length \in Nat /\ mix[c].records \in Seq(Nat)

VARIABLES
    now,        \* the trusted clock
    listener,   \* none, open, closed
    registry,   \* the certificate registry
    plan,       \* what each client will do
    client,     \* how far each client is
    handler,    \* the handler threads
    conn        \* the connections

transportVars == <<now, listener, registry, plan, client, handler, conn>>

-----------------------------------------------------------------------------
(* CertificateRegistry.__init__.  A registry is a set of records with one       *)
(* record per certificate.                                                      *)
Active(reg) == {r \in reg : r.enabled /\ ~r.revoked}

Overlap(a, b) == Min({a.until, b.until}) - Max({a.from, b.from})

ValidRecord(r) == r.from < r.until /\ r.until - r.from <= MaxValidity

ValidRegistry(reg) ==
    /\ reg # {} /\ \A r \in reg : ValidRecord(r)
    /\ \A r, s \in reg : r.cert = s.cert => r = s
    /\ Cardinality(Active(reg)) <= 2
    /\ \A r, s \in Active(reg) : r # s => Overlap(r, s) <= MaxOverlap

(* authenticate: the certificate is registered, usable at the time and names *)
(* the producer by its one URI.                                              *)
Authenticates(p, time) ==
    /\ p.named
    /\ \E r \in registry : /\ r.cert = p.cert /\ r.enabled /\ ~r.revoked
                           /\ r.from <= time /\ time < r.until

-----------------------------------------------------------------------------
NoConnection ==
    [stage |-> "none", token |-> 0, record |-> 0, buffered |-> 0, got |-> 0, age |-> 0, idle |-> 0]

IdleHandler == [pc |-> "idle", client |-> NoClient, asOf |-> 0, timer |-> 0, held |-> 0, cap |-> 0]

TransportInit ==
    /\ now = 0 /\ listener = "none"
    /\ registry \in {reg \in Registries : ValidRegistry(reg)}
    /\ plan \in Mixes
    /\ client = [c \in Clients |-> [state |-> "new", sent |-> 0]]
    /\ handler = [h \in Handlers |-> IdleHandler]
    /\ conn = [c \in Clients |-> NoConnection]

Fixed == UNCHANGED <<registry, plan>>

-----------------------------------------------------------------------------
(* The listener and the clients. *)
Of(h) == handler[h].client

Open ==
    /\ listener = "none" /\ listener' = "open"
    /\ Fixed /\ UNCHANGED <<now, client, handler, conn>>

Waiting == {c \in Clients : client[c].state \in {"waiting", "shaken"} /\ conn[c].stage = "none"}

(* Closing resets the connections nobody accepted. *)
Close ==
    /\ listener = "open" /\ listener' = "closed"
    /\ client' = [c \in Clients |-> IF c \in Waiting THEN [client[c] EXCEPT !.state = "gone"]
                                    ELSE client[c]]
    /\ Fixed /\ UNCHANGED <<now, handler, conn>>

ClientMoves(c, state, sent) ==
    /\ client' = [client EXCEPT ![c] = [state |-> state, sent |-> sent]]
    /\ Fixed /\ UNCHANGED <<now, listener, handler, conn>>

Connect(c) ==
    /\ c \in DOMAIN plan /\ client[c].state = "new"
    /\ listener = "open" /\ Cardinality(Waiting) < Backlog
    /\ ClientMoves(c, "waiting", 0)

(* The client's part of the handshake. *)
Shake(c) == client[c].state = "waiting" /\ ClientMoves(c, "shaken", 0)

Send(c) ==
    /\ client[c].state = "shaken" /\ conn[c].stage \in {"authenticated", "head_validated"}
    /\ client[c].sent < Len(plan[c].records)
    /\ ClientMoves(c, "shaken", client[c].sent + 1)

(* The client takes the response off the connection; it need not. *)
TakeResponse(c) ==
    /\ client[c].state = "shaken" /\ \E h \in Handlers : Of(h) = c /\ handler[h].pc = "write"
    /\ ClientMoves(c, "served", client[c].sent)

HangUp(c) ==
    /\ client[c].state \in {"waiting", "shaken", "served"} /\ conn[c].stage # "closed"
    /\ ClientMoves(c, "gone", client[c].sent)

-----------------------------------------------------------------------------
(* Deadlines. *)
Reading(h) == handler[h].pc \in {"head", "body"}

(* _remaining, for the whole request: head and body share one start. *)
Remaining(c) == conn[c].age < ReadTotal

(* Mutant: do_handshake() without a timeout. *)
ExpiredButShaking(h) ==
    \/ handler[h].pc = "accept" /\ handler[h].timer >= AcceptSeconds
    \/ Reading(h) /\ (~Remaining(Of(h)) \/ conn[Of(h)].idle >= ReadIdle)
    \/ handler[h].pc = "write" /\ handler[h].timer >= WriteTotal

(* A response is one sendall, which the lesser of the two limits bounds whole. *)
Expired(h) ==
    CASE handler[h].pc = "accept" -> handler[h].timer >= AcceptSeconds
      [] handler[h].pc = "handshake" -> handler[h].timer >= HandshakeTotal
      [] Reading(h) -> ~Remaining(Of(h)) \/ conn[Of(h)].idle >= ReadIdle
      [] handler[h].pc = "write" -> handler[h].timer >= WriteTotal \/ handler[h].timer >= WriteIdle
      [] OTHER -> FALSE

(* Bound: ticks are counted up to one past every deadline. *)
Ceiling == AcceptSeconds + HandshakeTotal + ReadTotal + WriteTotal + 1
Later(ticks) == Min({ticks + 1, Ceiling})

(* Where the handler waits for the listener or its client, and is timed for it. *)
Timed(h) == handler[h].pc \in {"accept", "handshake", "write"}
Holds(h) == handler[h].pc \in {"handshake", "write"} \/ Reading(h)

Older(h) ==
    [handler[h] EXCEPT !.timer = IF Timed(h) THEN Later(@) ELSE @,
                       !.held = IF Holds(h) THEN Later(@) ELSE @]

Tick ==
    /\ \E h \in Handlers : handler[h].pc # "idle"
    /\ \A h \in Handlers : ~Expired(h)
    /\ now' = Min({now + 1, MaxTime})
    /\ handler' = [h \in Handlers |-> Older(h)]
    /\ conn' = [c \in Clients |->
                  IF \E h \in Handlers : Of(h) = c /\ Reading(h)
                  THEN [conn[c] EXCEPT !.age = Later(@), !.idle = Later(@)] ELSE conn[c]]
    /\ Fixed /\ UNCHANGED <<listener, client>>

-----------------------------------------------------------------------------
(* Steps of a handler. *)
Goes(h, record) ==
    /\ handler' = [handler EXCEPT ![h] = record]
    /\ Fixed /\ UNCHANGED <<now, listener, client>>

(* process_one takes the trusted time before it waits for a connection. *)
ProcessOne(h) ==
    /\ handler[h].pc = "idle" /\ listener = "open"
    /\ Goes(h, [IdleHandler EXCEPT !.pc = "accept", !.asOf = now])
    /\ UNCHANGED conn

AcceptEnds(h) ==
    /\ handler[h].pc = "accept"
    /\ listener # "open" \/ (Expired(h) /\ Waiting = {})
    /\ Goes(h, IdleHandler) /\ UNCHANGED conn

AcceptConnection(h, c) ==
    /\ handler[h].pc = "accept" /\ listener = "open" /\ c \in Waiting
    /\ conn' = [conn EXCEPT ![c].stage = "accepted"]
    /\ Goes(h, [handler[h] EXCEPT !.pc = "handshake", !.client = c, !.timer = 0])

(* _abort and the return of process_one. *)
Aborted == [NoConnection EXCEPT !.stage = "closed"]
Abort(h) ==
    /\ conn' = [conn EXCEPT ![Of(h)] = Aborted]
    /\ Goes(h, IdleHandler)

(* The capability of the next stage replaces the one just used. *)
Enter(c, stage) == [conn[c] EXCEPT !.stage = stage, !.token = @ + 1]
NextStage(h, pc, c) == [handler[h] EXCEPT !.pc = pc, !.cap = conn[c].token + 1, !.timer = 0]

Shaken(h) == handler[h].pc = "handshake" /\ client[Of(h)].state = "shaken"

Authenticate(h) ==
    /\ Shaken(h) /\ ~Expired(h)
    /\ Authenticates(plan[Of(h)], handler[h].asOf)
    /\ conn' = [conn EXCEPT ![Of(h)] = Enter(Of(h), "authenticated")]
    /\ Goes(h, NextStage(h, "head", Of(h)))

AuthenticationFails(h) ==
    /\ handler[h].pc = "handshake"
    /\ \/ Expired(h) \/ client[Of(h)].state = "gone"
       \/ Shaken(h) /\ ~Authenticates(plan[Of(h)], handler[h].asOf)
    /\ Abort(h)

(* _require: the capability belongs to this stage and is the latest one. *)
Require(h, stages) == conn[Of(h)].stage \in stages /\ handler[h].cap = conn[Of(h)].token

-----------------------------------------------------------------------------
(* _recv.  What is left of a decrypted record is returned first; at most one *)
(* record per call.                                                          *)
Arrived(c) == conn[c].buffered > 0 \/ conn[c].record < client[c].sent

Decrypted(c) ==
    IF conn[c].buffered > 0 THEN conn[c]
    ELSE [conn[c] EXCEPT !.record = @ + 1, !.buffered = plan[c].records[conn[c].record + 1]]

Taken(c, size) == Min({size, Decrypted(c).buffered})

(* Mutant: the clock of the whole request starts again with every read. *)
ReceivedAnew(c, size) ==
    [Decrypted(c) EXCEPT !.buffered = @ - Taken(c, size), !.got = @ + Taken(c, size), !.idle = 0,
                         !.age = 0]

Received(c, size) ==
    [Decrypted(c) EXCEPT !.buffered = @ - Taken(c, size), !.got = @ + Taken(c, size), !.idle = 0]

(* _parse_request_head: request line, header set, each header once, a length. *)
HeadParsed(c) == plan[c].head = "valid" /\ plan[c].length > 0

(* read_request_head: byte by byte, so that the body stays unread. *)
ReadHead(h) ==
    LET c == Of(h)
        next == Received(c, 1)
    IN /\ handler[h].pc = "head" /\ Require(h, {"authenticated"})
       /\ Arrived(c) /\ Remaining(c)
       /\ \/ /\ next.got < HeadBytes
             /\ conn' = [conn EXCEPT ![c] = next]
             /\ Goes(h, handler[h])
          \/ /\ next.got = HeadBytes /\ HeadParsed(c)
             /\ conn' = [conn EXCEPT ![c] =
                   [next EXCEPT !.stage = "head_validated", !.token = @ + 1]]
             /\ Goes(h, NextStage(h, "body", c))
          \/ /\ next.got = HeadBytes /\ ~HeadParsed(c)
             /\ Abort(h)

Missing(c) == HeadBytes + plan[c].length - conn[c].got

(* Mutant: what the last read left decrypted is not looked at. *)
TrailingUnseen(c) == Taken(c, Min({Chunk, Missing(c) + 1})) > Missing(c)

(* One byte more is asked for than is missing, unless the chunk is full: then *)
(* pending() shows it.                                                        *)
Trailing(c) ==
    LET size == Min({Chunk, Missing(c) + 1})
    IN \/ Taken(c, size) > Missing(c)
       \/ Taken(c, size) = Missing(c) /\ Received(c, size).buffered > 0

ReadBody(h) ==
    LET c == Of(h)
        next == Received(c, Min({Chunk, Missing(c) + 1}))
    IN /\ handler[h].pc = "body" /\ Require(h, {"head_validated"})
       /\ Arrived(c) /\ Remaining(c)
       /\ \/ Trailing(c) /\ Abort(h)
          \/ /\ ~Trailing(c) /\ next.got < HeadBytes + plan[c].length
             /\ conn' = [conn EXCEPT ![c] = next]
             /\ Goes(h, handler[h])
          \/ /\ ~Trailing(c) /\ next.got >= HeadBytes + plan[c].length
             /\ conn' = [conn EXCEPT ![c] =
                   [next EXCEPT !.stage = "body_read", !.token = @ + 1]]
             /\ Goes(h, NextStage(h, "admit", c))

(* A deadline, or the end of the stream. *)
ReadEnds(h) ==
    /\ Reading(h)
    /\ Expired(h) \/ (client[Of(h)].state = "gone" /\ ~Arrived(Of(h)))
    /\ Abort(h)

-----------------------------------------------------------------------------
(* _validate_request_time *)
InTime(p, time) == p.produced - time <= Future /\ time - p.produced <= Past

(* decode_producer_envelope: strict JSON, the exact schema, distinct records. *)
Decoded(p) == p.envelope # "malformed"

(* admit_producer_request: authenticated again, decoded, the producer and its *)
(* contract, the time.                                                        *)
Admissible(p, time) ==
    /\ Authenticates(p, time)
    /\ Decoded(p) /\ p.envelope = "registered"
    /\ InTime(p, time)

(* The trusted time is read again for admission.  What is admitted, the        *)
(* orchestrator processes.                                                     *)
Admit(h) ==
    /\ handler[h].pc = "admit"
    /\ Goes(h, [handler[h] EXCEPT !.pc =
                   IF Admissible(plan[Of(h)], now) THEN "process" ELSE "answer"])
    /\ UNCHANGED conn

(* The orchestrator has an answer, or gives the request up without one. *)
Process(h) ==
    /\ handler[h].pc = "process"
    /\ \/ Goes(h, [handler[h] EXCEPT !.pc = "answer"]) /\ UNCHANGED conn
       \/ Require(h, {"authenticated", "head_validated", "body_read"}) /\ Abort(h)

(* write_response sends the response, or the fixed body of an internal error    *)
(* where the response does not serialize.                                       *)
WriteResponse(h) ==
    /\ handler[h].pc = "answer" /\ Require(h, {"head_validated", "body_read"})
    /\ Goes(h, [handler[h] EXCEPT !.pc = "write", !.timer = 0])
    /\ UNCHANGED conn

(* The connection is closed whatever becomes of the response: taken, lost with *)
(* its client, or given up at the deadline.                                    *)
WriteEnds(h) ==
    /\ handler[h].pc = "write"
    /\ client[Of(h)].state \in {"served", "gone"} \/ Expired(h)
    /\ Abort(h)

HandlerStep(h) ==
    \/ ProcessOne(h) \/ AcceptEnds(h) \/ \E c \in Clients : AcceptConnection(h, c)
    \/ Authenticate(h) \/ AuthenticationFails(h)
    \/ ReadHead(h) \/ ReadBody(h) \/ ReadEnds(h)
    \/ Admit(h) \/ Process(h) \/ WriteResponse(h) \/ WriteEnds(h)

ClientStep(c) == Connect(c) \/ Shake(c) \/ Send(c) \/ TakeResponse(c) \/ HangUp(c)

TransportNext ==
    \/ Open \/ Close \/ Tick
    \/ \E h \in Handlers : HandlerStep(h)
    \/ \E c \in Clients : ClientStep(c)

TransportSpec == TransportInit /\ [][TransportNext]_transportVars

(* The threads run and time passes; a client may do nothing at all. *)
FairTransportSpec ==
    /\ TransportSpec /\ WF_transportVars(Tick)
    /\ \A h \in Handlers : WF_transportVars(HandlerStep(h))

-----------------------------------------------------------------------------
(* A client that feeds its request byte by byte, each before the idle limit, and *)
(* then never takes the response off the connection, still holds a handler for   *)
(* no longer than the totals of accept_authenticated, _read_timeout and          *)
(* _send_wire together.                                                          *)
HandlerFreed == \A h \in Handlers : handler[h].held <= HandshakeTotal + ReadTotal + WriteTotal

(* A request is read to its declared length and no further, and nothing the      *)
(* client sent in the same record behind it is overlooked, whatever the sizes of *)
(* records and chunks are (read_body).                                           *)
BodyExact ==
    \A c \in Clients : conn[c].stage = "body_read" =>
        conn[c].got = HeadBytes + plan[c].length /\ conn[c].buffered = 0

(* Every connection that is accepted is closed, however its client behaves.      *)
ConnectionsEnd ==
    \A c \in Clients : conn[c].stage = "accepted" ~> conn[c].stage = "closed"
=============================================================================
