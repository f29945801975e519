------------------------------ MODULE Requests ------------------------------
(***************************************************************************)
(* The API requests that change something: send, cancel, replace, and the   *)
(* two signing endpoints (transaction/api, signing/api), from the checks of *)
(* the handler through the rate limiter to the admission of a transaction   *)
(* (transaction/db/admission.rs, add_transaction in transactions_queues.rs). *)
(*                                                                          *)
(* A Request is a slot of the rate limiter.  Its handler is a future that   *)
(* is dropped, at any await, when the client hangs up.  What the queue does *)
(* with an admitted transaction is RelayerQueue's; here it is only queued.  *)
(***************************************************************************)
EXTENDS RateLimiter

CONSTANTS
  Wanted,        \* what a client may ask for: the members of Demand that are tried
  ExternalId,
  NoExternalId,
  Digest,        \* digests of (to, value, data, speed)
  NoKey,         \* no rate limit header
  FallbackToRelayer,  \* fallback_to_relayer
  Nobody

Request == Slot

\* Answers that name no transaction.
Reason == {"none", "refused", "limited", "conflict", "error", "gone", "done"}

Edit == {"cancel", "replace"}
Sign == {"sign_text", "sign_typed_data"}

Demand == [kind : {"send"} \cup Edit \cup Sign, key : User \cup {NoKey}, relayer : Relayer,
           ext : ExternalId \cup {NoExternalId}, digest : Digest]

ASSUME RequestsAssumption ==
  /\ Wanted \subseteq Demand
  /\ FallbackToRelayer => Relayer \subseteq User
  /\ Nobody \notin Request \cup Demand
  /\ Request \cap Reason = {}

VARIABLES
  pc,       \* where each handler is
  ask,      \* what each request asks for
  answer,   \* the transaction id of its answer, "done" for the others, or why it has none
  holder,   \* the request that holds the mutex of TransactionsQueues
  row,      \* relayer.transaction: the status of the row of each request's transaction
  inflight, \* statements the database has taken whose caller went away or was told of an error
  queued,   \* transactions that were pushed to pending_transactions
  nonce,    \* the nonce of each row
  next,     \* the nonce manager of each relayer
  counted   \* (history) the charges of each counter's window that were not given back

requestVars == <<pc, ask, answer, holder, row, inflight, queued, nonce, next, counted>>
vars == <<clock, usage, slot, pc, ask, answer, holder, row, inflight, queued, nonce, next, counted>>

Init ==
  /\ LimiterInit
  /\ pc = [r \in Request |-> "out"]
  /\ ask = [r \in Request |-> Nobody]
  /\ answer = [r \in Request |-> "none"]
  /\ holder = Nobody
  /\ row = [r \in Request |-> "absent"]
  /\ inflight = {}
  /\ queued = {}
  /\ nonce = [r \in Request |-> 0]
  /\ next = [x \in Relayer |-> 0]
  /\ counted = [k \in Key |-> {}]

Goto(r, from, to) ==
  /\ pc[r] = from
  /\ pc' = [pc EXCEPT ![r] = to]

\* The rows with the external id of a request, of whatever status.
RowsOf(r) ==
  {q \in Request : /\ ask[r].ext # NoExternalId
                   /\ row[q] # "absent"
                   /\ ask[q].ext = ask[r].ext
                   /\ ask[q].relayer = ask[r].relayer}

\* Mutant: the digest is not compared.
StoredForAnyDigest(r) == RowsOf(r)

Stored(r) == {q \in RowsOf(r) : ask[q].digest = ask[r].digest}
Conflict(r) == RowsOf(r) # {} /\ Stored(r) = {}

-----------------------------------------------------------------------------
(***************************************************************************)
(* Answers.  A reservation that is not committed is dropped with the         *)
(* handler, and the task it spawns outlives it.                             *)
(***************************************************************************)
Answer(r, what) ==
  /\ pc' = [pc EXCEPT ![r] = "done"]
  /\ answer' = [answer EXCEPT ![r] = what]

\* find_admitted_transaction with a row: the same request gets its id, another one a 409.
AnswerFromRow(r) ==
  \/ \E q \in Stored(r) : Answer(r, q)
  \/ Conflict(r) /\ Answer(r, "conflict")

\* Mutant: a reservation has no Drop.
LetGoSilently(r) == UNCHANGED limiterVars

LetGo(r) ==
  IF SlotAt(r, "held") THEN DropReservation(r) ELSE UNCHANGED limiterVars

Keep(r) ==
  IF SlotAt(r, "held") THEN Commit(r) ELSE UNCHANGED limiterVars

Unlock(r) == holder' = IF holder = r THEN Nobody ELSE holder

\* An error, before or after the reservation.
Fail(r) ==
  /\ Answer(r, "error")
  /\ LetGo(r)
  /\ Unlock(r)

-----------------------------------------------------------------------------
(***************************************************************************)
(* The way to the work.                                                     *)
(***************************************************************************)
\* Only a send looks for its external id before it is counted.
FirstStep(d) == IF d.kind = "send" THEN "find" ELSE "limit"

Arrive(r, d) ==
  /\ Goto(r, "out", FirstStep(d))
  /\ ask' = [ask EXCEPT ![r] = d]
  /\ UNCHANGED <<clock, usage, slot, answer, holder, row, inflight, queued, nonce, next, counted>>

\* Basic auth, the relayer or the transaction, api key, policy, internal only, permissions,
\* blobs; paused, for the signing endpoints; the chain of the typed data.
Refuse(r) ==
  /\ ask[r] # Nobody /\ pc[r] = FirstStep(ask[r])
  /\ Answer(r, "refused")
  /\ UNCHANGED <<clock, usage, slot, ask, holder, row, inflight, queued, nonce, next, counted>>

\* find_admitted_transaction, outside the mutex: a duplicate costs nothing.
FindStored(r) ==
  /\ pc[r] = "find"
  /\ \/ AnswerFromRow(r)
     \/ RowsOf(r) = {} /\ pc' = [pc EXCEPT ![r] = "limit"] /\ UNCHANGED answer
  /\ UNCHANGED <<clock, usage, slot, ask, holder, row, inflight, queued, nonce, next, counted>>

\* RateLimitDetector::detect.
RateKey(d) == IF d.key = NoKey /\ FallbackToRelayer THEN d.relayer ELSE d.key

LimiterProfile(d) ==
  [user |-> RateKey(d), relayer |-> d.relayer,
   op |-> IF d.kind \in Sign THEN "signing" ELSE "tx"]

Working(d) == IF d.kind \in Sign THEN "sign" ELSE "lock"

\* check_and_reserve_rate_limit: without a key nothing is checked, whatever the relayer's
\* limits are.
EnterLimiter(r) ==
  /\ pc[r] = "limit"
  /\ \/ /\ RateKey(ask[r]) # NoKey
        /\ Begin(r, LimiterProfile(ask[r]))
        /\ Goto(r, "limit", "limiting")
        /\ UNCHANGED answer
     \/ /\ RateKey(ask[r]) = NoKey
        /\ Goto(r, "limit", Working(ask[r]))
        /\ UNCHANGED <<clock, usage, slot, answer>>
     \/ \* The relayer was deleted since.
        /\ Answer(r, "error")
        /\ UNCHANGED <<clock, usage, slot>>
  /\ UNCHANGED <<ask, holder, row, inflight, queued, nonce, next, counted>>

Limited(r) ==
  /\ pc[r] = "limiting"
  /\ \/ Check(r) /\ UNCHANGED <<pc, answer, counted>>
     \/ Exceed(r) /\ Answer(r, "limited") /\ UNCHANGED counted
     \/ /\ Charge(r)
        /\ LET k == KeyOf(NextToCharge(slot[r].left), slot[r].profile)
               renewed == usage[k] # NoUsage /\ usage'[k].start # usage[k].start
           IN counted' = [counted EXCEPT ![k] = IF renewed THEN {r} ELSE @ \cup {r}]
        /\ pc' = IF slot'[r].at = "held" THEN [pc EXCEPT ![r] = Working(ask[r])] ELSE pc
        /\ UNCHANGED answer
  /\ UNCHANGED <<ask, holder, row, inflight, queued, nonce, next>>

\* The task of a dropped reservation.
GiveBack(r) ==
  /\ Revert(r)
  /\ counted' = [counted EXCEPT
       ![KeyOf(NextToCharge(slot[r].left), slot[r].profile)] = @ \ {r}]
  /\ UNCHANGED <<pc, ask, answer, holder, row, inflight, queued, nonce, next>>

-----------------------------------------------------------------------------
(***************************************************************************)
(* The work.                                                                *)
(***************************************************************************)
\* convert_blob_strings_to_blobs, after the reservation.
BadBlobs(r) ==
  /\ pc[r] = "lock" /\ ask[r].kind = "send"
  /\ Fail(r)
  /\ UNCHANGED <<ask, row, inflight, queued, nonce, next, counted>>

\* The mutex of TransactionsQueues.
Lock(r) ==
  /\ holder = Nobody
  /\ Goto(r, "lock", IF ask[r].kind = "send" THEN "admit" ELSE "edit")
  /\ holder' = r
  /\ UNCHANGED <<clock, usage, slot, ask, answer, row, inflight, queued, nonce, next, counted>>

\* cancel_transaction, replace_transaction: what they do is RelayerQueue's.  A cancel that
\* finds nothing to cancel is answered all the same, and keeps its charge.
EditDone(r) ==
  /\ pc[r] = "edit"
  /\ Answer(r, "done")
  /\ Keep(r)
  /\ Unlock(r)
  /\ UNCHANGED <<ask, row, inflight, queued, nonce, next, counted>>

\* The queue is paused or gone, or a call of the operation fails.
EditFails(r) ==
  /\ pc[r] = "edit"
  /\ Fail(r)
  /\ UNCHANGED <<ask, row, inflight, queued, nonce, next, counted>>

\* The wallet signs and the signature is recorded.
Signed(r) ==
  /\ pc[r] = "sign"
  /\ Answer(r, "done")
  /\ Keep(r)
  /\ UNCHANGED <<ask, holder, row, inflight, queued, nonce, next, counted>>

\* restricted_personal_signing comes after the reservation; the wallet or the record may fail.
SignFails(r) ==
  /\ pc[r] = "sign"
  /\ Fail(r)
  /\ UNCHANGED <<ask, row, inflight, queued, nonce, next, counted>>

\* Mutant: a duplicate keeps its charge.
AnswerStoredKept(r) ==
  /\ pc[r] = "admit"
  /\ AnswerFromRow(r)
  /\ Keep(r)
  /\ Unlock(r)
  /\ UNCHANGED <<ask, row, inflight, queued, nonce, next, counted>>

\* add_transaction looks again, under the mutex, then at the queue and at the chain.
AnswerStored(r) ==
  /\ pc[r] = "admit"
  /\ AnswerFromRow(r)
  /\ LetGo(r)
  /\ Unlock(r)
  /\ UNCHANGED <<ask, row, inflight, queued, nonce, next, counted>>

Prepare(r) ==
  /\ Goto(r, "admit", "estimate")
  /\ RowsOf(r) = {}
  /\ UNCHANGED <<clock, usage, slot, ask, answer, holder, row, inflight, queued, nonce, next, counted>>

\* The search fails, or there is no queue, a paused one, unsupported blobs, no nonce or no
\* price: nothing was written.
AdmitFails(r) ==
  /\ pc[r] = "admit"
  /\ Fail(r)
  /\ UNCHANGED <<ask, row, inflight, queued, nonce, next, counted>>

\* idx_transaction_relayer_external_id.
UniqueViolation(r) == RowsOf(r) # {}

\* The gas estimation fails, or the balance does not cover it: a FAILED row is saved with
\* the external id and an error is answered, unless another request's row came first.
EstimationFails(r) ==
  /\ pc[r] = "estimate"
  /\ \/ ~UniqueViolation(r) /\ row' = [row EXCEPT ![r] = "FAILED"] /\ Answer(r, "error")
     \/ Answer(r, "error") /\ UNCHANGED row
     \/ UniqueViolation(r) /\ AnswerFromRow(r) /\ UNCHANGED row
  /\ LetGo(r)
  /\ Unlock(r)
  /\ UNCHANGED <<ask, inflight, queued, nonce, next, counted>>

\* get_and_increment, after the estimation.
Reserve(r) ==
  /\ Goto(r, "estimate", "save")
  /\ nonce' = [nonce EXCEPT ![r] = next[ask[r].relayer]]
  /\ next' = [next EXCEPT ![ask[r].relayer] = @ + 1]
  /\ UNCHANGED <<clock, usage, slot, ask, answer, holder, row, inflight, queued, counted>>

\* Mutant: the counter goes one too far back.
ReleasedTooFar(r) == [next EXCEPT ![ask[r].relayer] = nonce[r] - 1]

\* Mutant: the nonce of a row that came second is not released.
ReleasedNever(r) == next

Released(r) ==
  [next EXCEPT ![ask[r].relayer] = IF @ = nonce[r] + 1 THEN nonce[r] ELSE @]

\* save_admitted_transaction: both tables in one commit.
Saved(r) ==
  /\ Goto(r, "save", "push")
  /\ ~UniqueViolation(r)
  /\ row' = [row EXCEPT ![r] = "PENDING"]
  /\ UNCHANGED <<clock, usage, slot, ask, answer, holder, inflight, queued, nonce, next, counted>>

\* resolve_admission_insert_error: the row of another request came first.
Beaten(r) ==
  /\ pc[r] = "save" /\ UniqueViolation(r)
  /\ AnswerFromRow(r)
  /\ next' = Released(r)
  /\ LetGo(r)
  /\ Unlock(r)
  /\ UNCHANGED <<ask, row, inflight, queued, nonce, counted>>

\* The insert fails, or so it seems: the commit may still be on its way.
SaveFails(r) ==
  /\ pc[r] = "save"
  /\ inflight' \in {inflight, inflight \cup {r}}
  /\ next' = Released(r)
  /\ Fail(r)
  /\ UNCHANGED <<ask, row, queued, nonce, counted>>

\* A statement that nobody waits for takes effect, or is rolled back.
Settle(r) ==
  /\ r \in inflight
  /\ inflight' = inflight \ {r}
  /\ row' \in IF UniqueViolation(r) THEN {row} ELSE {row, [row EXCEPT ![r] = "PENDING"]}
  /\ UNCHANGED <<clock, usage, slot, pc, ask, answer, holder, queued, nonce, next, counted>>

\* add_pending_transaction, and the answer.
Push(r) ==
  /\ pc[r] = "push"
  /\ queued' = queued \cup {r}
  /\ Answer(r, r)
  /\ Keep(r)
  /\ Unlock(r)
  /\ UNCHANGED <<ask, row, inflight, nonce, next, counted>>

\* The client hangs up: everything the handler holds is dropped where it awaits.
HangUp(r) ==
  /\ pc[r] \notin {"out", "done"}
  /\ Answer(r, "gone")
  /\ IF slot[r].at \in {"checking", "charging"} THEN Abandon(r) ELSE LetGo(r)
  /\ inflight' \in IF pc[r] = "save" THEN {inflight, inflight \cup {r}} ELSE {inflight}
  /\ Unlock(r)
  /\ UNCHANGED <<ask, row, queued, nonce, next, counted>>

-----------------------------------------------------------------------------
Admission(r) ==
  \/ AnswerStored(r) \/ Prepare(r) \/ AdmitFails(r) \/ EstimationFails(r) \/ Reserve(r)
  \/ Saved(r) \/ Beaten(r) \/ SaveFails(r) \/ Push(r)

Handler(r) ==
  \/ Refuse(r) \/ FindStored(r) \/ EnterLimiter(r) \/ Limited(r)
  \/ BadBlobs(r) \/ Lock(r) \/ EditDone(r) \/ EditFails(r) \/ Signed(r) \/ SignFails(r) \/ Admission(r)

Next ==
  \/ \E r \in Request :
       \/ \E d \in Wanted : Arrive(r, d)
       \/ Handler(r) \/ GiveBack(r) \/ HangUp(r) \/ Settle(r)
  \/ Tick /\ UNCHANGED requestVars

Spec == Init /\ [][Next]_vars

\* A future that can go on is polled; tokio's mutex is fair; a call to the database, to the
\* node or to the wallet ends, if only with an error.
Fairness ==
  \A r \in Request : /\ WF_vars(Handler(r) /\ pc[r] # "lock")
                     /\ SF_vars(Lock(r))
                     /\ WF_vars(GiveBack(r))

FairSpec == Spec /\ Fairness

-----------------------------------------------------------------------------
(***************************************************************************)
(* Properties.                                                              *)
(***************************************************************************)
TypeOK ==
  /\ clock \in 0..MaxClock
  /\ usage \in [Key -> UsageWindow \cup {NoUsage}]
  /\ \A r \in Request :
       /\ slot[r].at \in {"idle", "checking", "charging", "held", "reverting"}
       /\ pc[r] \in {"out", "find", "limit", "limiting", "lock", "edit", "sign",
                     "admit", "estimate", "save", "push", "done"}
       /\ pc[r] # "out" => ask[r] \in Wanted
       /\ answer[r] \in Reason \cup Request
       /\ row[r] \in {"absent", "PENDING", "FAILED"}
  /\ holder \in Request \cup {Nobody}
  /\ inflight \subseteq Request /\ queued \subseteq Request
  /\ nonce \in [Request -> Nat] /\ next \in [Relayer -> Nat]
  /\ counted \in [Key -> SUBSET Request]

\* find_admitted_transaction is asked twice, once without the mutex, and the insert may race a
\* commit nobody waited for: still, clients that repeat one request to one relayer under an
\* external id are never told of two transactions, and another request never gets its id.
SameRequestSameTransaction ==
  \A r, q \in Request :
    ( /\ {answer[r], answer[q]} \subseteq Request
      /\ ask[r].ext = ask[q].ext /\ ask[r].ext # NoExternalId
      /\ ask[r].relayer = ask[q].relayer )
    => answer[r] = answer[q] /\ ask[r].digest = ask[q].digest

\* A counter counts no request that was refused, failed, or was given its charge back, and
\* until its window is over it misses none of the others.
LedgerKept ==
  \A p \in Profile, scope \in ConfiguredScopes :
    LET k == KeyOf(scope, p) IN
    usage[k] # NoUsage =>
      /\ usage[k].count <= Cardinality(counted[k])
      /\ clock < LimitsOf(scope).window => usage[k].count = Cardinality(counted[k])

\* The charge of a request is kept exactly when its own work was done: a duplicate, a refusal
\* and a failure are free, whichever step they end at.  (A client that hangs up between two
\* charges leaves some of them, and one that hangs up after the commit pays nothing.)
PaidWhenServed ==
  \A r \in Request : pc[r] = "done" /\ SlotAt(r, "idle") /\ answer[r] # "gone" =>
    /\ (\E k \in Key : r \in counted[k]) => answer[r] \in {"done", r}
    /\ ( /\ answer[r] \in {"done", r}
         /\ RateKey(ask[r]) # NoKey
         /\ \A scope \in ConfiguredScopes : clock < LimitsOf(scope).window )
       => \A scope \in ConfiguredScopes :
            r \in counted[KeyOf(scope, LimiterProfile(ask[r]))]

\* release_unbroadcast_nonce and get_and_increment around a save that may fail, lose to another
\* row, or be abandoned: two rows share a nonce only if the save of one of them seemed to fail,
\* and a nonce is skipped only if the client of its transaction hung up.
NoncesAccounted ==
  /\ \A r, q \in Request :
       ( /\ r # q /\ row[r] = "PENDING" /\ row[q] = "PENDING"
         /\ ask[r].relayer = ask[q].relayer /\ nonce[r] = nonce[q] )
       => "error" \in {answer[r], answer[q]}
  /\ \A x \in Relayer : \A n \in 0 .. next[x] - 1 :
       \E r \in Request :
         /\ ask[r] # Nobody /\ ask[r].relayer = x /\ nonce[r] = n
         /\ row[r] = "PENDING" \/ pc[r] = "save" \/ answer[r] = "gone"

\* Whatever locks a request waits for, and whatever the requests before it met, it is answered
\* and its reservation is committed or given back.
EveryRequestSettles ==
  \A r \in Request : pc[r] # "out" ~> pc[r] = "done" /\ SlotAt(r, "idle")
=============================================================================
