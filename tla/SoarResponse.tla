---------------------------- MODULE SoarResponse ----------------------------
(* From an analyst's approval to a dropped source: approve_live_soar, the        *)
(* dispatch to the contract server, directly or through n8n, TheHive's outbox,   *)
(* and the one DROP rule of the range's victim.                                  *)
EXTENDS ConsoleState

FlowsOnly == <<lastId, campaigns, store, books, keys, cases, range, notes, post, budget>>

Books(f, states) == {b \in DOMAIN books : books[b].candidate = Candidate(f) /\ books[b].state \in states}

FirstOf(found) == CHOOSE b \in found : \A c \in found : b <= c

BeginResponse(t, kind, actors) ==
    /\ MayBegin(t, kind)
    /\ \E f \in 1 .. lastId, a \in actors :
          Begin(t, kind, [pc |-> kind, flow |-> f, actor |-> a])
    /\ UNCHANGED <<flows, lastId, campaigns, store, books, keys, cases, range, notes, post>>

ApproveRoute(t) == BeginResponse(t, "approve", Actors)
DispatchRoute(t) == BeginResponse(t, "dispatch", {None})
RangeRoute(t) == BeginResponse(t, "contain", {None}) \/ BeginResponse(t, "rollback", {None})

-----------------------------------------------------------------------------
(* approve_live_soar *)
ApproveRead(t) ==
    /\ At(t, "approve")
    /\ LET f == req[t].flow
           approved == Books(f, {"approved"})
           pending == Books(f, {"pending"})
       IN IF f \notin DOMAIN flows
          THEN Answer(t, "flow_not_stored")
          ELSE req' = [req EXCEPT
                  ![t].row = flows[f],
                  ![t].pc = IF approved # {} THEN "receipt"
                            ELSE IF pending # {} THEN "decide" ELSE "recommend",
                  ![t].book = IF approved # {} THEN FirstOf(approved)
                              ELSE IF pending # {} THEN FirstOf(pending) ELSE 0]
    /\ UNCHANGED <<flows, FlowsOnly>>

(* recommend_actions_for_alert: two requests that both found nothing make two. *)
Recommend(t) ==
    /\ At(t, "recommend")
    /\ books' = Append(books, [candidate |-> Candidate(req[t].flow), state |-> "pending",
                               version |-> 1, born |-> 0, timed |-> FALSE])
    /\ req' = [req EXCEPT ![t].pc = "decide", ![t].book = Len(books) + 1]
    /\ UNCHANGED <<flows, lastId, campaigns, store, keys, cases, range, notes, post, budget>>

(* decide_recommendation, with the version that was read. *)
Decide(t) ==
    /\ At(t, "decide")
    /\ LET b == req[t].book
       IN \/ /\ books[b].state = "pending" /\ books[b].version = 1
             /\ books' = [books EXCEPT ![b].state = "approved", ![b].version = 2,
                                       ![b].born = req[t].row.born]
             /\ Goto(t, "receipt")
          \/ /\ books[b].state # "pending"
             /\ Answer(t, "conflict") /\ UNCHANGED books
    /\ UNCHANGED <<flows, lastId, campaigns, store, keys, cases, range, notes, post, budget>>

(* _store_flow_receipt: an UPDATE, of no row when it was deleted meanwhile. *)
FlowReceipt(f, b) ==
    IF f \in DOMAIN flows THEN [flows EXCEPT ![f].playbook = b, ![f].receipt = TRUE] ELSE flows

ReceiptStored(t) ==
    /\ At(t, "receipt")
    /\ flows' = FlowReceipt(req[t].flow, req[t].book)
    /\ req' = [req EXCEPT ![t].pc = "stamp", ![t].outcome = "approved"]
    /\ UNCHANGED FlowsOnly

-----------------------------------------------------------------------------
(* dispatch_approved_callback.  webhook is read from the environment.            *)
DispatchRead(t) ==
    /\ At(t, "dispatch")
    /\ LET f == req[t].flow
           approved == Books(f, {"approved"})
       IN IF f \notin DOMAIN flows THEN Answer(t, "flow_not_stored")
          ELSE IF flows[f].recorded # 0 THEN Answer(t, "already_recorded")
          ELSE IF approved = {} THEN Answer(t, "playbook_not_approved")
          ELSE req' = [req EXCEPT ![t].row = flows[f], ![t].book = FirstOf(approved),
                                  ![t].pc = IF keys.webhook THEN "case" ELSE "verify"]
    /\ UNCHANGED <<flows, FlowsOnly>>

Key(scope, b) == <<scope, b, books[b].version>>

Contract(scope, b, chained) ==
    [pc |-> "check", scope |-> scope, book |-> b, key |-> Key(scope, b), status |-> 0,
     chained |-> chained, fresh |-> Key(scope, b) \notin keys.answered]

Sent(t, scope, chained, pc) ==
    /\ post[t] = NoPost
    /\ post' = [post EXCEPT ![t] = Contract(scope, req[t].book, chained)]
    /\ keys' = [keys EXCEPT !.sent = @ \cup {<<scope, req[t].book>>}]
    /\ Goto(t, pc)
    /\ UNCHANGED <<flows, lastId, campaigns, store, books, cases, range, notes, budget>>

VerifySent(t) == At(t, "verify") /\ Sent(t, "verify", FALSE, "await_verify")
CallbackSent(t) == At(t, "callback") /\ Sent(t, "callback", FALSE, "await_callback")
WebhookSent(t) == At(t, "webhook") /\ Sent(t, "verify", TRUE, "await_n8n")

RecordCase(f) == cases' = Append(cases, Candidate(f))

(* create_case_from_soar: an approved record, then the outbox. *)
CaseCreated(t) ==
    /\ At(t, "case")
    /\ books[req[t].book].state \in {"approved", "executed"}
    /\ RecordCase(req[t].flow)
    /\ req' = [req EXCEPT ![t].case = Len(cases) + 1,
                          ![t].pc = IF keys.webhook THEN "webhook" ELSE "callback"]
    /\ UNCHANGED <<flows, lastId, campaigns, store, books, keys, range, notes, post, budget>>

PathMarked(f, path) ==
    flows' = IF f \in DOMAIN flows THEN [flows EXCEPT ![f].path = path] ELSE flows

Refusal(pc) == CASE pc = "await_verify" -> "verify_rejected"
                 [] pc = "await_callback" -> "callback_rejected"
                 [] OTHER -> "n8n_refused"

Continues(p) == p.pc = "done" /\ p.chained /\ p.scope = "verify" /\ p.status = 200

(* The answer comes, or the client stops waiting (5 s, 30 s for n8n) while the   *)
(* other side goes on.                                                           *)
Awaited(t) ==
    /\ req[t] # Idle /\ req[t].pc \in {"await_verify", "await_callback", "await_n8n"}
    /\ LET p == post[t]
           pc == req[t].pc
           accepted == p.pc = "done" /\ p.status = 200 /\ (pc = "await_n8n" => p.scope = "callback")
       IN \/ /\ accepted
             /\ Goto(t, IF pc = "await_verify" THEN "case" ELSE "record")
             /\ post' = [post EXCEPT ![t] = NoPost] /\ UNCHANGED flows
          \/ /\ ~accepted
             /\ Answer(t, Refusal(pc))
             /\ IF pc = "await_callback" THEN UNCHANGED flows
                ELSE PathMarked(req[t].flow, IF pc = "await_n8n" THEN "n8n" ELSE "local")
             /\ post' = IF p.pc = "done" /\ ~Continues(p) THEN [post EXCEPT ![t] = NoPost] ELSE post
    /\ UNCHANGED <<lastId, campaigns, store, books, keys, cases, range, notes, budget>>

(* _store_callback_receipt *)
CallbackReceipt(f, case, path) ==
    IF f \in DOMAIN flows THEN [flows EXCEPT ![f].recorded = case, ![f].path = path] ELSE flows

CallbackStored(t) ==
    /\ At(t, "record")
    /\ flows' = CallbackReceipt(req[t].flow, req[t].case, IF keys.webhook THEN "n8n" ELSE "local")
    /\ Answer(t, "recorded")
    /\ UNCHANGED FlowsOnly

-----------------------------------------------------------------------------
(* The contract server's verify-state and callback: the key is looked up under   *)
(* the lock, the ledger is read outside it, the key is committed under it again. *)
PostOnly == <<flows, lastId, campaigns, store, books, cases, range, notes, req>>

Replayed(key) == key \in keys.memory \cup keys.disk

PostDone(t, status) == [post EXCEPT ![t].pc = "done", ![t].status = status]

(* _idempotency_is_replay under the lock, once the signature holds. *)
LookedUp(t) ==
    /\ post[t].pc = "check"
    /\ \/ /\ Replayed(post[t].key)
          /\ post' = PostDone(t, 409) /\ UNCHANGED <<keys, budget>>
       \/ /\ ~Replayed(post[t].key)
          /\ post' = [post EXCEPT ![t].pc = "ledger"] /\ UNCHANGED <<keys, budget>>
       \/ /\ post[t].key \notin keys.memory     \* sqlite3.Error: not a replay
          /\ Spend("dbfault")
          /\ keys' = [keys EXCEPT !.unsure = @ \cup {post[t].key}]
          /\ post' = [post EXCEPT ![t].pc = "ledger"]
    /\ UNCHANGED PostOnly

VerifyKeyChecked(t) == post[t].scope = "verify" /\ LookedUp(t)
CallbackKeyChecked(t) == post[t].scope = "callback" /\ LookedUp(t)

LedgerAgrees(p) == books[p.book].state \in {"approved", "executed"}

VerifyLedgerChecked(t) ==
    /\ post[t].pc = "ledger" /\ post[t].scope = "verify"
    /\ post' = IF LedgerAgrees(post[t]) THEN [post EXCEPT ![t].pc = "commit"] ELSE PostDone(t, 403)
    /\ UNCHANGED <<PostOnly, keys, budget>>

(* record_callback_verification writes the timing into the record first. *)
CallbackLedgerChecked(t) ==
    /\ post[t].pc = "ledger" /\ post[t].scope = "callback"
    /\ IF LedgerAgrees(post[t])
       THEN /\ books' = [books EXCEPT ![post[t].book].timed = TRUE]
            /\ post' = [post EXCEPT ![t].pc = "commit"]
       ELSE post' = PostDone(t, 403) /\ UNCHANGED books
    /\ UNCHANGED <<flows, lastId, campaigns, store, cases, range, notes, req, keys, budget>>

CommittedInMemory(key) == [keys EXCEPT !.memory = @ \cup {key}, !.answered = @ \cup {key}]

(* _idempotency_commit: memory, then disk; a database error is ignored. *)
Committed(key) == [keys EXCEPT !.memory = @ \cup {key}, !.disk = @ \cup {key},
                               !.answered = @ \cup {key}]

KeyCommitted(t) ==
    /\ \/ keys' = Committed(post[t].key) /\ UNCHANGED budget
       \/ /\ Spend("dbfault")
          /\ keys' = [CommittedInMemory(post[t].key) EXCEPT !.unsure = @ \cup {post[t].key}]
    /\ post' = PostDone(t, 200)
    /\ UNCHANGED PostOnly

VerifyAnswered(t) == post[t].pc = "commit" /\ post[t].scope = "verify" /\ KeyCommitted(t)
CallbackAnswered(t) == post[t].pc = "commit" /\ post[t].scope = "callback" /\ KeyCommitted(t)

(* The n8n workflow goes on to the callback once verify-state accepted. *)
N8nContinues(t) ==
    /\ Continues(post[t])
    /\ post' = [post EXCEPT ![t] = Contract("callback", @.book, TRUE)]
    /\ keys' = [keys EXCEPT !.sent = @ \cup {<<"callback", post[t].book>>}]
    /\ UNCHANGED <<PostOnly, budget>>

(* Nobody waits for the answer any more. *)
PostForgotten(t) ==
    /\ post[t].pc = "done" /\ req[t] = Idle /\ ~Continues(post[t])
    /\ post' = [post EXCEPT ![t] = NoPost]
    /\ UNCHANGED <<PostOnly, keys, budget>>

(* The same signed bytes arrive again. *)
Resent(t) ==
    /\ Quiet(t) /\ Spend("resend")
    /\ \E s \in keys.sent : post' = [post EXCEPT ![t] = Contract(s[1], s[2], FALSE)]
    /\ req' = Disturbed
    /\ UNCHANGED <<flows, lastId, campaigns, store, books, keys, cases, range, notes>>

PostStep(t) ==
    post[t] # NoPost /\ (\/ VerifyKeyChecked(t) \/ VerifyLedgerChecked(t) \/ VerifyAnswered(t)
                         \/ CallbackKeyChecked(t) \/ CallbackLedgerChecked(t) \/ CallbackAnswered(t)
                         \/ N8nContinues(t) \/ PostForgotten(t))

-----------------------------------------------------------------------------
(* The range.  _authorized_range_flow gates both ways. *)
Authorized(f) ==
    /\ f \in DOMAIN flows
    /\ Shape[flows[f].shape].range
    /\ flows[f].recorded # 0
    /\ Books(f, {"approved", "executed"}) # {}

RangeOnly == <<flows, lastId, campaigns, store, books, keys, cases, notes, post>>

ContainRead(t) ==
    /\ At(t, "contain")
    /\ IF Authorized(req[t].flow) /\ range.running THEN Goto(t, "drop_check") ELSE Answer(t, "refused")
    /\ UNCHANGED <<RangeOnly, range, budget>>

RollbackRead(t) ==
    /\ At(t, "rollback")
    /\ IF Authorized(req[t].flow) /\ flows[req[t].flow].containment = "applied" /\ range.running
       THEN Goto(t, "remove") ELSE Answer(t, "refused")
    /\ UNCHANGED <<RangeOnly, range, budget>>

(* iptables -C and -I: two containers calls, so two requests may both insert. *)
DropChecked(t) ==
    /\ At(t, "drop_check")
    /\ Goto(t, IF range.running /\ range.rules > 0 THEN "probe" ELSE "drop")
    /\ UNCHANGED <<RangeOnly, range, budget>>

Dropped(t) ==
    /\ At(t, "drop")
    /\ IF range.running
       THEN range' = [range EXCEPT !.rules = @ + 1] /\ Goto(t, "probe")
       ELSE Answer(t, "command_failed") /\ UNCHANGED range
    /\ UNCHANGED <<RangeOnly, budget>>

(* iptables -D removes one rule. *)
Removed(t) ==
    /\ At(t, "remove")
    /\ IF range.rules > 0
       THEN range' = [range EXCEPT !.rules = @ - 1] /\ Goto(t, "probe")
       ELSE Answer(t, "rule_missing") /\ UNCHANGED range
    /\ UNCHANGED <<RangeOnly, budget>>

Verdict(t, reachable) ==
    IF req[t].kind = "contain"
    THEN IF reachable THEN Goto(t, "undo") ELSE Goto(t, "applied")
    ELSE IF reachable THEN Goto(t, "rolled_back") ELSE Answer(t, "not_observed")

(* The curl from the attacker; it may also fail for reasons of its own. *)
Reachable == range.running /\ range.rules = 0

(* Believing iptables instead of asking the attacker's side. *)
ProbedNot(t) ==
    /\ At(t, "probe")
    /\ Verdict(t, req[t].kind = "rollback") /\ UNCHANGED budget
    /\ UNCHANGED <<RangeOnly, range>>

Probed(t) ==
    /\ At(t, "probe")
    /\ \/ Verdict(t, Reachable) /\ UNCHANGED budget
       \/ Reachable /\ Spend("probe_lost") /\ Verdict(t, FALSE)
    /\ UNCHANGED <<RangeOnly, range>>

Undone(t) ==
    /\ At(t, "undo")
    /\ range' = [range EXCEPT !.rules = IF @ > 0 THEN @ - 1 ELSE 0]
    /\ Answer(t, "not_observed")
    /\ UNCHANGED <<RangeOnly, budget>>

ContainmentStored(t) ==
    /\ At(t, "applied") \/ At(t, "rolled_back")
    /\ flows' = IF req[t].flow \in DOMAIN flows
                THEN [flows EXCEPT ![req[t].flow].containment = req[t].pc] ELSE flows
    /\ Answer(t, req[t].pc)
    /\ UNCHANGED FlowsOnly

(* The victim's container stops, its rules with it, or starts again. *)
VictimToggled ==
    /\ Spend("victim")
    /\ range' = [running |-> ~range.running, rules |-> 0]
    /\ req' = Disturbed
    /\ UNCHANGED <<flows, lastId, campaigns, store, books, keys, cases, notes, post>>

ResponseStep(t) ==
    \/ ApproveRoute(t) \/ DispatchRoute(t) \/ RangeRoute(t)
    \/ ApproveRead(t) \/ Recommend(t) \/ Decide(t) \/ ReceiptStored(t)
    \/ DispatchRead(t) \/ VerifySent(t) \/ CallbackSent(t) \/ WebhookSent(t) \/ CaseCreated(t)
    \/ Awaited(t) \/ CallbackStored(t)
    \/ PostStep(t) \/ Resent(t)
    \/ ContainRead(t) \/ RollbackRead(t) \/ DropChecked(t) \/ Dropped(t) \/ Removed(t)
    \/ Probed(t) \/ Undone(t) \/ ContainmentStored(t)
=============================================================================
