------------------------ MODULE ProducerReplayJournal ------------------------
(***************************************************************************)
(* The durable request journal of db/producer_replay_journal.py: the       *)
(* replay_requests table and the three transactions on it.                 *)
(*                                                                         *)
(* Each transaction is one BEGIN IMMEDIATE ... COMMIT, so it is one step.  *)
(* Several journal objects (one per service generation) may be open on the *)
(* same file, and a caller may keep a ReplayClaim for any time and present *)
(* it late, twice or through another generation's object.  A database      *)
(* error may be reported after the commit took effect.                     *)
(***************************************************************************)
EXTENDS Naturals

CONSTANTS
    RequestIds, Nonces, Bodies,   \* the authenticated evidence of a request
    Correlations,                 \* server correlation ids, one per admission
    Answers,                      \* what a response says beside its correlation
    Generations,                  \* service_generation_id of the journal objects
    NoResponse,                   \* a NULL response_bytes
    MaxTokens                     \* bound: claim() calls that draw a token

VARIABLES
    rows,      \* the replay_requests table
    tokens,    \* number of ownership tokens drawn so far
    granted,   \* ReplayClaim objects handed to a claimant
    served,    \* cached responses handed out, with the evidence they answer
    reply      \* disposition or error code of the last call

journalVars == <<rows, tokens, granted, served, reply>>

NoClaimToken == 0   \* a NULL claim_token_sha256

ReplayRecords == [request_id : RequestIds, nonce : Nonces, body : Bodies,
                  correlation : Correlations]
Responses == [correlation : Correlations, result : Answers]
States == {"in_progress", "completed", "outcome_unknown"}
Rows == [request_id : RequestIds, nonce : Nonces, body : Bodies,
         correlation : Correlations, state : States,
         generation : Generations, token : Nat,
         response : Responses \cup {NoResponse}]
Claims == [request_id : RequestIds, generation : Generations, token : Nat]
Replies == {"none", "request_claimed", "request_in_progress",
            "request_completed", "outcome_unknown", "request_replay_rejected",
            "claim_not_active", "completed", "recovered",
            "recovery_request_invalid", "journal_write_failed"}

(* NULL is no response, and a bound on the calls. *)
ASSUME JournalConfiguration == NoResponse \notin Responses /\ MaxTokens \in Nat

(* The columns _record_evidence and _row_evidence compare. *)
Evidence(x) == <<x.request_id, x.nonce, x.body>>

JournalTypes ==
    /\ rows \subseteq Rows
    /\ tokens \in Nat
    /\ granted \subseteq Claims
    /\ served \subseteq
           [evidence : RequestIds \X Nonces \X Bodies, response : Responses]
    /\ reply \in Replies

JournalInit ==
    /\ rows = {} /\ tokens = 0 /\ granted = {} /\ served = {}
    /\ reply = "none"

-----------------------------------------------------------------------------
(* Mutant: a request whose outcome is unknown may be claimed again. *)
ExistingRowsKnown(record) ==
    {row \in rows : /\ row.state # "outcome_unknown"
                    /\ \/ row.request_id = record.request_id
                       \/ row.nonce = record.nonce}

(* _existing_rows: the request id or the nonce is already in the table. *)
ExistingRows(record) ==
    {row \in rows : \/ row.request_id = record.request_id
                    \/ row.nonce = record.nonce}

(* The journal holds this very request, and nothing that clashes with it. *)
KnownRow(record, row) ==
    /\ ExistingRows(record) = {row}
    /\ Evidence(row) = Evidence(record)

NewRow(g, record, token) ==
    [request_id |-> record.request_id, nonce |-> record.nonce,
     body |-> record.body, correlation |-> record.correlation,
     state |-> "in_progress", generation |-> g, token |-> token,
     response |-> NoResponse]

DrawToken == tokens < MaxTokens /\ tokens' = tokens + 1

(* claim() of an unknown request by the journal object of generation g. *)
ClaimNew(g, record) ==
    /\ DrawToken
    /\ ExistingRows(record) = {}
    /\ rows' = rows \cup {NewRow(g, record, tokens + 1)}
    /\ granted' = granted \cup {[request_id |-> record.request_id,
                                 generation |-> g, token |-> tokens + 1]}
    /\ reply' = "request_claimed"
    /\ UNCHANGED served

(* claim() fails in the database: the insert may still be durable, and then *)
(* nobody holds the token of the row.                                       *)
ClaimUncertain(g, record) ==
    /\ DrawToken
    /\ \/ rows' = rows
       \/ /\ ExistingRows(record) = {}
          /\ rows' = rows \cup {NewRow(g, record, tokens + 1)}
    /\ reply' = "journal_write_failed"
    /\ UNCHANGED <<granted, served>>

(* claim() of a request whose claim is still active. *)
ClaimActive(record) ==
    /\ DrawToken
    /\ \E row \in rows : KnownRow(record, row) /\ row.state = "in_progress"
    /\ reply' = "request_in_progress"
    /\ UNCHANGED <<rows, granted, served>>

(* claim() of a completed request: the cached response, under its first     *)
(* correlation id (_completed_response).                                    *)
ClaimCached(record) ==
    /\ DrawToken
    /\ \E row \in rows :
          /\ KnownRow(record, row)
          /\ row.state = "completed"
          /\ row.response.correlation = row.correlation
          /\ served' = served \cup {[evidence |-> Evidence(record),
                                     response |-> row.response]}
    /\ reply' = "request_completed"
    /\ UNCHANGED <<rows, granted>>

(* claim() of a request some recovery gave up. *)
ClaimUnknown(record) ==
    /\ DrawToken
    /\ \E row \in rows : KnownRow(record, row) /\ row.state = "outcome_unknown"
    /\ reply' = "outcome_unknown"
    /\ UNCHANGED <<rows, granted, served>>

(* claim() that reuses a request id or a nonce with other evidence. *)
ClaimRejected(record) ==
    /\ DrawToken
    /\ ExistingRows(record) # {}
    /\ ~ \E row \in rows : KnownRow(record, row)
    /\ reply' = "request_replay_rejected"
    /\ UNCHANGED <<rows, granted, served>>

-----------------------------------------------------------------------------
(* The row complete() may settle: active, of this generation, under this    *)
(* token, for a response that carries its first correlation id.             *)
Settles(g, claim, response, row) ==
    /\ row.request_id = claim.request_id
    /\ row.state = "in_progress"
    /\ claim.generation = g
    /\ row.generation = g
    /\ row.token = claim.token
    /\ response.correlation = row.correlation

CompletedRow(row, response) ==
    [row EXCEPT !.state = "completed", !.token = NoClaimToken,
                !.response = response]

(* complete() through the journal object of generation g; the database may  *)
(* report a failure although the update is durable.                         *)
Complete(g, claim, response) ==
    /\ \E row \in rows :
          /\ Settles(g, claim, response, row)
          /\ rows' = (rows \ {row}) \cup {CompletedRow(row, response)}
    /\ reply' \in {"completed", "journal_write_failed"}
    /\ UNCHANGED <<tokens, granted, served>>

CompleteRefused(g, claim, response) ==
    /\ ~ \E row \in rows : Settles(g, claim, response, row)
    /\ reply' = "claim_not_active"
    /\ UNCHANGED <<rows, tokens, granted, served>>

(* A claim or completion that fails with no effect at all. *)
CallFails ==
    /\ reply' = "journal_write_failed"
    /\ UNCHANGED <<rows, tokens, granted, served>>

UnknownRow(row) ==
    [row EXCEPT !.state = "outcome_unknown", !.token = NoClaimToken]

(* Mutant: recovery also takes the completed rows of the generation. *)
AbandonedAny(a) == {row \in rows : row.generation = a}

Abandoned(a) == {row \in rows : row.state = "in_progress" /\ row.generation = a}

(* recover_abandoned_generation(a) through the object of generation g. *)
RecoverAbandonedGeneration(g, a) ==
    /\ a # g
    /\ rows' = (rows \ Abandoned(a)) \cup {UnknownRow(row) : row \in Abandoned(a)}
    /\ reply' \in {"recovered", "journal_write_failed"}
    /\ UNCHANGED <<tokens, granted, served>>

RecoverRefused(g) ==
    /\ reply' = "recovery_request_invalid"
    /\ UNCHANGED <<rows, tokens, granted, served>>

JournalNext ==
    \/ \E g \in Generations, record \in ReplayRecords :
          ClaimNew(g, record) \/ ClaimUncertain(g, record)
    \/ \E record \in ReplayRecords :
          \/ ClaimActive(record) \/ ClaimCached(record)
          \/ ClaimUnknown(record) \/ ClaimRejected(record)
    \/ \E g \in Generations, claim \in granted, response \in Responses :
          Complete(g, claim, response) \/ CompleteRefused(g, claim, response)
    \/ CallFails
    \/ \E g, a \in Generations : RecoverAbandonedGeneration(g, a)
    \/ \E g \in Generations : RecoverRefused(g)

JournalSpec == JournalInit /\ [][JournalNext]_journalVars

-----------------------------------------------------------------------------
(* However requests, retries, clashing reuses, failures and recoveries are  *)
(* ordered, no two rows share a request id or a nonce: claim() looks both   *)
(* up in the transaction that inserts (_existing_rows).                     *)
UniqueEvidence ==
    \A a, b \in rows :
        a.request_id = b.request_id \/ a.nonce = b.nonce => a = b

(* At most one claimant ever gets a token for a request id: not after a     *)
(* completion, a recovery or a claim whose commit was reported as failed.   *)
SingleGrant ==
    /\ \A c, d \in granted : c.request_id = d.request_id => c = d
    /\ \A c \in granted : \E row \in rows : row.request_id = c.request_id

(* What the table CHECK demands of each state, and that a stored response   *)
(* answers under the correlation id of the first submission.                *)
RowShape ==
    \A row \in rows :
        /\ row.state = "in_progress" <=> row.token # NoClaimToken
        /\ row.state = "completed" <=> row.response # NoResponse
        /\ row.state = "completed" =>
               row.response.correlation = row.correlation
        /\ row.token <= tokens

(* Every retry that gets a cached response gets the same one, the one still *)
(* in the table, and only for the exact evidence of the first submission.   *)
CachedResponseStable ==
    \A s \in served :
        \E row \in rows : /\ row.state = "completed"
                          /\ Evidence(row) = s.evidence
                          /\ row.response = s.response

(* The only owner of an active row is the claimant that was given its       *)
(* token: a claim of another request or generation cannot settle it.        *)
ActiveOwner ==
    \A c \in granted, row \in rows :
        row.state = "in_progress" /\ row.request_id = c.request_id
            => row.token = c.token /\ row.generation = c.generation

(* A terminal row is never changed or deleted, whatever late completion or  *)
(* repeated recovery arrives, and an active row keeps its evidence, its     *)
(* correlation id and its generation.                                       *)
TerminalForever ==
    [][\A row \in rows :
          /\ row.state # "in_progress" => row \in rows'
          /\ \E next \in rows' : /\ Evidence(next) = Evidence(row)
                                 /\ next.correlation = row.correlation
                                 /\ next.generation = row.generation
      ]_journalVars

(* The journal seen as a ledger over request ids. *)
LedgerEntry(q) ==
    IF \E row \in rows : row.request_id = q
    THEN LET row == CHOOSE row \in rows : row.request_id = q
         IN [state |-> row.state, response |-> row.response]
    ELSE [state |-> "absent", response |-> NoResponse]

Ledger == INSTANCE ReplayLedger
          WITH Requests <- RequestIds,
               ledger <- [q \in RequestIds |-> LedgerEntry(q)]

(* The table and its transactions implement the replay ledger.              *)
LedgerRefinement == Ledger!Spec

(* One row, one grant and one answer for the evidence of a request, however  *)
(* it is repeated, reused, cut short or recovered.                           *)
EvidenceSound == UniqueEvidence /\ SingleGrant /\ CachedResponseStable
=============================================================================
