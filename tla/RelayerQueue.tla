---------------------------- MODULE RelayerQueue ----------------------------
(***************************************************************************)
(* The transaction queue of one relayer: admission, cancellation and        *)
(* replacement by the API, the pending, in-mempool and mined loops, the     *)
(* transaction table with its audit log, crashes, and the startup that      *)
(* rebuilds the queues from the table.                                      *)
(*                                                                          *)
(* Every operation holds the mutex of the TransactionsQueues and of the     *)
(* relayer's queue from its first await to its last, so at most one is in   *)
(* flight (op).  An operation is cut at its awaits: the database, the node, *)
(* the clock and a crash can all come between two of its steps.             *)
(***************************************************************************)
EXTENDS EvmNode, NonceManager, SequencesExt

CONSTANTS User,     \* ids of transactions the API admits
          Quotes,   \* the prices the gas oracle may quote
          MaxGas    \* the price cap: SUPER times max_gas_price_multiplier

ASSUME QueueAssumption ==
  /\ User \subseteq TxId
  /\ MaxGas \in Nat \ {0}
  /\ Quotes \subseteq 1..MaxGas /\ Quotes # {}

\* Ids (and payloads) of the transactions that cancel or replace another.
Rival == TxId \ User

Status == {"PENDING", "INMEMPOOL", "MINED", "CONFIRMED", "FAILED", "EXPIRED",
           "CANCELLED", "REPLACED"}

\* A Transaction: what is kept of it both in a queue and in its row.  The hash is
\* known_transaction_hash with sent_with_gas and sent_at; failed is failed_reason
\* with failed_at; by is cancelled_by_transaction_id; ext is external_id.
Entry == [id : TxId, nonce : Nat, payload : Payload, hash : Hash \cup {None},
          failed : BOOLEAN, by : TxId \cup {None}, ext : TxId \cup {None}]

ASSUME NoneIsNoEntry == None \notin Entry

\* A CompetitiveTransaction of the in-mempool queue.
Contest == [orig : Entry, comp : {None}, kind : {"none"}]
             \cup [orig : Entry, comp : Entry, kind : {"cancel", "replace"}]

VARIABLES
  db,       \* relayer.transaction: the row of each id
  audit,    \* recorded attempts of each id, in the order they were first recorded
  pendq,    \* pending_transactions
  inq,      \* inmempool_transactions
  minedq,   \* ids in mined_transactions
  nm,       \* the nonce manager's next nonce
  boot,     \* how far the process has started
  op,       \* the operation in flight
  expired,  \* ids whose expires_at has passed
  moved     \* (history) ids whose nonce the in-mempool loop has reassigned

rowVars == <<db, audit>>
queueVars == <<pendq, inq, minedq, nm>>
vars == <<db, audit, pendq, inq, minedq, nm, boot, op, expired, moved,
          chain, pool, stray, left>>

Row == [status : Status \cup {"absent"}, tx : Entry]

Kind == {"pending", "bump", "cancel", "replace"}
Stage == {"persisted", "accepted", "rejected", "conflict", "linking", "settling"}
Idle == [at |-> "idle", kind |-> "none", tx |-> None]
Op == {Idle}
        \cup [at : Stage \ {"linking", "settling"}, kind : Kind, tx : Entry]
        \cup [at : {"linking", "settling"}, kind : {"cancel", "replace"}, tx : Entry]

NewEntry(t, n) ==
  [id |-> t, nonce |-> n, payload |-> t, hash |-> None, failed |-> FALSE,
   by |-> None, ext |-> None]

\* transaction_to_noop and the fields every caller on the pending queue wipes.
Emptied(e) == [e EXCEPT !.payload = Noop, !.hash = None]

\* What an absent row holds is never read.
NoRow(t) == [status |-> "absent", tx |-> Emptied(NewEntry(t, 0))]

TypeOK ==
  /\ NodeTypeOK
  /\ db \in [TxId -> Row]
  /\ audit \in [TxId -> Seq(Hash)]
  /\ pendq \in Seq(Entry)
  /\ inq \in Seq(Contest)
  /\ minedq \subseteq TxId
  /\ nm \in Nat
  /\ boot \in {"down", "unpoisoned", "repaired", "online", "offline"}
  /\ op \in Op
  /\ expired \subseteq TxId
  /\ moved \subseteq TxId

Init ==
  /\ NodeInit
  /\ db = [t \in TxId |-> NoRow(t)]
  /\ audit = [t \in TxId |-> <<>>]
  /\ pendq = <<>> /\ inq = <<>> /\ minedq = {}
  /\ nm = 0
  /\ boot = "online"
  /\ op = Idle
  /\ expired = {} /\ moved = {}

Ready == boot = "online" /\ op = Idle

-----------------------------------------------------------------------------
(***************************************************************************)
(* Statements of transaction/db/write.rs.                                   *)
(***************************************************************************)
With(s) == {t \in TxId : db[t].status = s}

SaveTransaction(e, s) == db' = [db EXCEPT ![e.id] = [status |-> s, tx |-> e]]

SetStatus(t, s) == db' = [db EXCEPT ![t].status = s]

\* transaction_sent, and recover_landed_transaction_attempt once its guards hold.
SetSent(t, h) ==
  db' = [db EXCEPT ![t] = [status |-> "INMEMPOOL", tx |-> [db[t].tx EXCEPT !.hash = h]]]

\* Mutant: the row is written without its audit record.
RecordRowOnly(e, s) ==
  /\ SaveTransaction([e EXCEPT !.failed = db[e.id].tx.failed], s)
  /\ UNCHANGED audit

\* transaction_broadcast_attempt: the row is inserted or overwritten, failed_at and
\* failed_reason excepted, and the attempt is audited in the same commit.
RecordAttempt(e, s) ==
  /\ SaveTransaction([e EXCEPT !.failed = db[e.id].tx.failed], s)
  /\ audit' = IF \E i \in DOMAIN audit[e.id] : audit[e.id][i] = e.hash
              THEN audit
              ELSE [audit EXCEPT ![e.id] = Append(@, e.hash)]

\* Mutant: an attempt that has left the pool because it was mined is not found.
FirstPooled(t) ==
  LET a == audit[t]
      absent == {i \in 1..Len(a) : \A j \in 1..i : a[j] \notin pool}
  IN  IF absent = 1..Len(a) THEN None ELSE a[Cardinality(absent) + 1]

\* find_landed_attempt: the first recorded attempt that the node knows.
FirstLanded(t) ==
  LET a == audit[t]
      absent == {i \in 1..Len(a) : \A j \in 1..i : ~Exists(a[j])}
  IN  IF absent = 1..Len(a) THEN None ELSE a[Cardinality(absent) + 1]

-----------------------------------------------------------------------------
(***************************************************************************)
(* Operations on the in-memory queues.                                      *)
(***************************************************************************)
\* add_pending_transaction: before the first entry with a larger nonce.
InsertByNonce(q, e) ==
  LET before == {i \in 1..Len(q) : \A j \in 1..i : q[j].nonce <= e.nonce}
  IN  InsertAt(q, Cardinality(before) + 1, e)

\* update_pending_transaction
Updated(q, e) == [i \in DOMAIN q |-> IF q[i].id = e.id THEN e ELSE q[i]]

\* The orders in which rows read ORDER BY nonce, or entries sorted by nonce, can come.
EntriesByNonce(S) ==
  {q \in SetToSeqs(S) : \A i, j \in DOMAIN q : i < j => q[i].nonce <= q[j].nonce}

ContestsByNonce(S) ==
  {q \in SetToSeqs(S) : \A i, j \in DOMAIN q : i < j => q[i].orig.nonce <= q[j].orig.nonce}

Alone(e) == [orig |-> e, comp |-> None, kind |-> "none"]

\* Mutant: a rival is never polled.
OriginalOnly(c) == c.orig

\* get_active_transaction: the one that is polled and bumped.
Active(c) == IF c.comp = None THEN c.orig ELSE c.comp

\* get_transaction_by_id_mut followed by an overwrite.
WithTx(c, e) ==
  IF c.orig.id = e.id THEN [c EXCEPT !.orig = e]
  ELSE IF c.comp # None /\ c.comp.id = e.id THEN [c EXCEPT !.comp = e]
  ELSE c

\* Mutant: the sent copy is not queued again.
DropPending(e) ==
  IF pendq # <<>> /\ Head(pendq).id = e.id
  THEN pendq' = Tail(pendq) /\ UNCHANGED inq
  ELSE UNCHANGED <<pendq, inq>>

\* move_pending_to_inmempool: the front leaves, and the copy that was sent enters.
MovePendingToInmempool(e) ==
  IF pendq # <<>> /\ Head(pendq).id = e.id
  THEN pendq' = Tail(pendq) /\ inq' = Append(inq, Alone(e))
  ELSE UNCHANGED <<pendq, inq>>

-----------------------------------------------------------------------------
(***************************************************************************)
(* send_transaction up to its first effect: price, expiry, signature, and   *)
(* persist_attempt.                                                         *)
(***************************************************************************)
LastGas(e) == IF e.hash = None THEN 0 ELSE e.hash.gas

\* compute_gas_price_for_transaction: after a first send, strictly above the last
\* price unless the cap is reached.
Prices(last) ==
  IF last = 0 THEN Quotes
  ELSE {IF q > last THEN q ELSE IF last < MaxGas THEN last + 1 ELSE MaxGas : q \in Quotes}

Signed(e, gas) ==
  LET p == IF e.id \in expired THEN Noop ELSE e.payload
  IN  [e EXCEPT !.payload = p,
                !.hash = [nonce |-> e.nonce, payload |-> p, gas |-> gas]]

Send(e, s, k, last) ==
  /\ \E gas \in Prices(last) :
       /\ RecordAttempt(Signed(e, gas), s)
       /\ op' = [at |-> "persisted", kind |-> k, tx |-> Signed(e, gas)]
  /\ UNCHANGED <<queueVars, boot, expired, moved, nodeVars>>

-----------------------------------------------------------------------------
(***************************************************************************)
(* The API.                                                                 *)
(***************************************************************************)
Admittable(t) == Ready /\ t \in User /\ db[t].status = "absent"

\* add_transaction: synchronise, reserve, save, queue.
Admit(t) ==
  LET n == SyncedWith(nm, PendingNonce)
      e == NewEntry(t, n)
  IN  /\ Admittable(t)
      /\ SaveTransaction(e, "PENDING")
      /\ pendq' = InsertByNonce(pendq, e)
      /\ nm' = Incremented(n)
      /\ UNCHANGED <<audit, inq, minedq, boot, op, expired, moved, nodeVars>>

\* The gas estimation fails: the row is saved FAILED, and no nonce is reserved.
AdmitUnestimable(t) ==
  /\ Admittable(t)
  /\ SaveTransaction([NewEntry(t, PendingNonce) EXCEPT !.failed = TRUE], "FAILED")
  /\ nm' = SyncedWith(nm, PendingNonce)
  /\ Spend("reject")
  /\ UNCHANGED <<audit, pendq, inq, minedq, boot, op, expired, moved, chain, pool, stray>>

\* The row cannot be saved: the reservation is released.
AdmitUnsaved(t) ==
  LET n == SyncedWith(nm, PendingNonce)
  IN  /\ Admittable(t)
      /\ nm' = Released(Incremented(n), n)
      /\ Spend("db")
      /\ UNCHANGED <<rowVars, pendq, inq, minedq, boot, op, expired, moved,
                     chain, pool, stray>>

\* cancel_transaction and replace_transaction on a pending entry, in place.
EditPending(e) ==
  /\ SaveTransaction(e, "PENDING")
  /\ pendq' = Updated(pendq, e)
  /\ UNCHANGED <<audit, inq, minedq, nm, boot, op, expired, moved, nodeVars>>

CancelPending(t) ==
  /\ Ready
  /\ \E i \in DOMAIN pendq : pendq[i].id = t /\ EditPending(Emptied(pendq[i]))

\* A rival id names both the transaction that would compete and its payload.
Fresh(c) ==
  /\ c \in Rival
  /\ db[c].status = "absent"
  /\ \A t \in TxId : /\ db[t].tx.payload # c
                     /\ \A i \in DOMAIN audit[t] : audit[t][i].payload # c
  /\ \A i \in DOMAIN pendq : pendq[i].payload # c
  /\ \A i \in DOMAIN inq : /\ inq[i].orig.payload # c
                           /\ inq[i].comp # None => inq[i].comp.payload # c

\* The known hash stays: only transaction_replace's fields change.
ReplacePending(t) ==
  /\ Ready
  /\ \E c \in Rival : /\ Fresh(c)
                      /\ \E i \in DOMAIN pendq :
                           /\ pendq[i].id = t
                           /\ EditPending([pendq[i] EXCEPT !.payload = c])

\* The same on an in-mempool entry, wherever it stands in its queue: a rival with the
\* same nonce is sent, priced above a bump of the original's price.
SendRival(t, k) ==
  /\ Ready
  /\ t \in User
  /\ \A i \in DOMAIN pendq : pendq[i].id # t
  /\ \E c \in Rival, i \in DOMAIN inq :
       /\ Fresh(c)
       /\ inq[i].orig.id = t
       /\ inq[i].orig.hash # None
       /\ LET o == inq[i].orig
              e == [NewEntry(c, o.nonce) EXCEPT
                      !.payload = IF k = "cancel" THEN Noop ELSE c, !.ext = t]
          IN  Send(e, "PENDING", k, o.hash.gas + 1)

CancelInmempool(t) == SendRival(t, "cancel")
ReplaceInmempool(t) == SendRival(t, "replace")

-----------------------------------------------------------------------------
(***************************************************************************)
(* The pending and the in-mempool loop start a send.                        *)
(***************************************************************************)
SendPending ==
  /\ Ready
  /\ pendq # <<>>
  /\ Send(Head(pendq), "PENDING", "pending", LastGas(Head(pendq)))

\* A replaced payload is estimated again before it is signed.
EstimateRejects ==
  /\ Ready
  /\ pendq # <<>>
  /\ Head(pendq).payload \in Rival
  /\ Head(pendq).id \notin expired
  /\ Spend("reject")
  /\ op' = [at |-> "rejected", kind |-> "pending", tx |-> Head(pendq)]
  /\ UNCHANGED <<rowVars, queueVars, boot, expired, moved, chain, pool, stray>>

\* No receipt for the active hash, and its price is below the cap.
BumpGas ==
  /\ Ready
  /\ inq # <<>>
  /\ LET a == Active(Head(inq))
     IN  /\ a.hash # None
         /\ ~HasReceipt(a.hash)
         /\ a.hash.gas < MaxGas
         /\ Send(a, "INMEMPOOL", "bump", a.hash.gas)

-----------------------------------------------------------------------------
(***************************************************************************)
(* The rest of a send.                                                      *)
(***************************************************************************)
At(s) == boot = "online" /\ op.at = s

\* The node's answer, and which of the handler's branches it selects.
Deliver ==
  /\ At("persisted")
  /\ \E r \in Reply :
       /\ Broadcast(op.tx.hash, r)
       /\ op' = IF \/ r = "accepted"
                   \/ r = "conflict" /\ op.kind \in {"pending", "bump"}
                   \/ r = "rejected" /\ op.kind = "pending"
                THEN [op EXCEPT !.at = r]
                ELSE Idle
  /\ UNCHANGED <<rowVars, queueVars, boot, expired, moved>>

\* mark_sent, and what its caller does to memory afterwards.
MarkPendingSent ==
  /\ At("accepted") /\ op.kind = "pending"
  /\ SetSent(op.tx.id, op.tx.hash)
  /\ MovePendingToInmempool(op.tx)
  /\ op' = Idle
  /\ UNCHANGED <<audit, minedq, nm, boot, expired, moved, nodeVars>>

MarkBumpSent ==
  /\ At("accepted") /\ op.kind = "bump"
  /\ SetSent(op.tx.id, op.tx.hash)
  /\ inq' = [inq EXCEPT ![1] = WithTx(@, op.tx)]
  /\ op' = Idle
  /\ UNCHANGED <<audit, pendq, minedq, nm, boot, expired, moved, nodeVars>>

MarkRivalSent ==
  /\ At("accepted") /\ op.kind \in {"cancel", "replace"}
  /\ SetSent(op.tx.id, op.tx.hash)
  /\ op' = [op EXCEPT !.at = "linking"]
  /\ UNCHANGED <<audit, queueVars, boot, expired, moved, nodeVars>>

\* transaction_update of the original, then add_competitor_to_inmempool_transaction,
\* which looks at the front of the queue only.
LinkRival ==
  /\ At("linking")
  /\ \E i \in DOMAIN inq :
       /\ inq[i].orig.id = op.tx.ext
       /\ LET o == [inq[i].orig EXCEPT !.by = op.tx.id]
          IN  /\ SaveTransaction(o, "INMEMPOOL")
              /\ inq' = IF i = 1
                        THEN [inq EXCEPT ![1] = [orig |-> o, comp |-> op.tx, kind |-> op.kind]]
                        ELSE inq
  /\ op' = Idle
  /\ UNCHANGED <<audit, pendq, minedq, nm, boot, expired, moved, nodeVars>>

\* close_out_pending_transaction_as_noop
CloseOut ==
  LET e == [Emptied(op.tx) EXCEPT !.failed = TRUE]
  IN  /\ At("rejected")
      /\ SaveTransaction(e, "PENDING")
      /\ pendq' = Updated(pendq, e)
      /\ op' = Idle
      /\ UNCHANGED <<audit, inq, minedq, nm, boot, expired, moved, nodeVars>>

\* recover_nonce_synchronization, then persist_then_advance_transaction_nonce.
RecoveredNonce == SyncedWith(nm, PendingNonce)

\* update_pending_transaction_nonce, on one entry.
Renumbered(e, t) == [e EXCEPT !.nonce = IF e.id = t THEN RecoveredNonce ELSE @]

PersistThenAdvanceNonce(e) ==
  /\ db' = [db EXCEPT ![e.id].tx.nonce = RecoveredNonce]
  /\ nm' = AdvancedPast(nm, RecoveredNonce)

\* An attempt of ours holds the nonce.  One that is only pooled is adopted by
\* recover_landed_transaction_attempt, which refuses a row with a failed_at.
AdoptLanded ==
  LET h == FirstLanded(op.tx.id)
  IN  /\ At("conflict") /\ op.kind = "pending"
      /\ h # None
      /\ IF HasReceipt(h) \/ ~db[op.tx.id].tx.failed
         THEN /\ SetSent(op.tx.id, h)
              /\ MovePendingToInmempool([op.tx EXCEPT !.hash = h])
         ELSE UNCHANGED <<db, pendq, inq>>
      /\ op' = Idle
      /\ UNCHANGED <<audit, minedq, nm, boot, expired, moved, nodeVars>>

\* No attempt of ours exists: the queued entry, not the signed copy, gets a new nonce,
\* and the queue is sorted again.
ReassignPending ==
  /\ At("conflict") /\ op.kind = "pending"
  /\ FirstLanded(op.tx.id) = None
  /\ PersistThenAdvanceNonce(op.tx)
  /\ pendq' \in EntriesByNonce({Renumbered(pendq[i], op.tx.id) : i \in DOMAIN pendq})
  /\ op' = Idle
  /\ UNCHANGED <<audit, inq, minedq, boot, expired, moved, nodeVars>>

\* A nonce conflict of a bump looks for the receipt of the hash just signed.
ConflictMined ==
  /\ At("conflict") /\ op.kind = "bump"
  /\ HasReceipt(op.tx.hash)
  /\ op' = Idle
  /\ UNCHANGED <<rowVars, queueVars, boot, expired, moved, nodeVars>>

ReassignInmempool ==
  /\ At("conflict") /\ op.kind = "bump"
  /\ ~HasReceipt(op.tx.hash)
  /\ PersistThenAdvanceNonce(op.tx)
  /\ inq' = [inq EXCEPT ![1] =
               WithTx(@, [Active(@) EXCEPT !.nonce = RecoveredNonce])]
  /\ moved' = moved \cup {op.tx.id}
  /\ op' = Idle
  /\ UNCHANGED <<audit, pendq, minedq, boot, expired, nodeVars>>

\* A statement or a query of the handler fails: it returns and memory stays.
StepFails ==
  /\ boot = "online" /\ op.at \notin {"idle", "persisted"}
  /\ Spend(IF op.at = "conflict" THEN "rpc" ELSE "db")
  /\ op' = Idle
  /\ UNCHANGED <<rowVars, queueVars, boot, expired, moved, chain, pool, stray>>

-----------------------------------------------------------------------------
(***************************************************************************)
(* Receipts: process_single_inmempool and process_single_mined.             *)
(***************************************************************************)
\* Mutants: the receipt's status is not read; a payload that expired is not told from
\* the empty transaction sent in its place.
OutcomeOfAnyReceipt(c, ok) ==
  IF c.comp = None /\ Active(c).payload = Noop /\ Active(c).failed THEN "FAILED" ELSE "MINED"

OutcomeByClock(c, ok) ==
  IF ~ok THEN "FAILED" ELSE IF Active(c).id \in expired THEN "EXPIRED" ELSE "MINED"

\* The winner's status in move_inmempool_to_mining.
Outcome(c, ok) ==
  LET a == Active(c)
      noop == ok /\ c.comp = None /\ a.payload = Noop
  IN  IF ~ok \/ (noop /\ a.failed) THEN "FAILED"
      ELSE IF noop /\ a.id \in expired THEN "EXPIRED"
      ELSE "MINED"

\* What transaction_mined, transaction_expired and update_transaction_failed write.
Resolved(e, s) ==
  LET tx == db[e.id].tx
  IN  CASE s = "MINED"   -> [tx EXCEPT !.payload = e.payload, !.nonce = e.nonce,
                                       !.hash = e.hash]
        [] s = "EXPIRED" -> tx
        [] s = "FAILED"  -> [tx EXCEPT !.failed = TRUE]

\* The original of a decided contest, as transaction_update will write it.
Loser(c) ==
  IF c.kind = "cancel"
  THEN [c.orig EXCEPT !.payload = Noop, !.by = c.comp.id]
  ELSE c.orig

\* Memory first: the contest leaves the queue before its winner's row is written.
MoveInmempoolToMining(s) ==
  /\ inq' = Tail(inq)
  /\ minedq' = IF s = "MINED" THEN minedq \cup {Active(Head(inq)).id} ELSE minedq

ResolveReceipt ==
  /\ Ready
  /\ inq # <<>>
  /\ LET c == Head(inq)
         a == Active(c)
     IN  \E b \in Receipts :
           /\ a.hash # None /\ b.hash = a.hash
           /\ LET s == Outcome(c, b.ok)
              IN  /\ MoveInmempoolToMining(s)
                  /\ SaveTransaction(Resolved(a, s), s)
                  /\ op' = IF s = "MINED" /\ c.comp # None
                           THEN [at |-> "settling", kind |-> c.kind, tx |-> Loser(c)]
                           ELSE Idle
  /\ UNCHANGED <<audit, pendq, nm, boot, expired, moved, nodeVars>>

\* The winner's row cannot be written; memory has already moved on.
ResolveReceiptUnsaved ==
  /\ Ready
  /\ inq # <<>>
  /\ LET a == Active(Head(inq))
     IN  \E b \in Receipts :
           /\ a.hash # None /\ b.hash = a.hash
           /\ MoveInmempoolToMining(Outcome(Head(inq), b.ok))
  /\ Spend("db")
  /\ UNCHANGED <<rowVars, pendq, nm, boot, op, expired, moved, chain, pool, stray>>

\* The loser's row is written after the winner's, in a commit of its own.
SettleLoser ==
  /\ At("settling")
  /\ SaveTransaction(op.tx, IF op.kind = "cancel" THEN "CANCELLED" ELSE "REPLACED")
  /\ op' = Idle
  /\ UNCHANGED <<audit, queueVars, boot, expired, moved, nodeVars>>

MoveMiningToConfirmed(t) == minedq' = minedq \ {t}

\* process_single_mined, deep enough below the head of the chain.
Confirm(t) ==
  /\ Ready
  /\ t \in minedq
  /\ SetStatus(t, "CONFIRMED")
  /\ MoveMiningToConfirmed(t)
  /\ UNCHANGED <<audit, pendq, inq, nm, boot, op, expired, moved, nodeVars>>

-----------------------------------------------------------------------------
(***************************************************************************)
(* Crash and startup_transactions_queues.                                   *)
(***************************************************************************)
Crash ==
  /\ boot' = "down"
  /\ pendq' = <<>> /\ inq' = <<>> /\ minedq' = {}
  /\ nm' = 0
  /\ op' = Idle
  /\ Spend("crash")
  /\ UNCHANGED <<rowVars, expired, moved, chain, pool, stray>>

\* repair_poisoned_pending_transactions_for_relayer
RepairPoisoned ==
  /\ boot = "down"
  /\ db' = [t \in TxId |->
              IF t \in With("PENDING") /\ db[t].tx.failed /\ db[t].tx.hash = None
              THEN [db[t] EXCEPT !.status = "FAILED"] ELSE db[t]]
  /\ boot' = "unpoisoned"
  /\ UNCHANGED <<audit, queueVars, op, expired, moved, nodeVars>>

\* Mutants: rows that are no longer PENDING are repaired too; a row at another nonce than
\* the chain's is failed before its attempts are looked up.
RepairedAnyRow(t) ==
  IF db[t].tx.hash = None THEN db[t]
  ELSE IF FirstLanded(t) # None
  THEN [status |-> "INMEMPOOL", tx |-> [db[t].tx EXCEPT !.hash = FirstLanded(t)]]
  ELSE db[t]

RepairedByNonce(t) ==
  IF t \notin With("PENDING") \/ db[t].tx.hash = None \/ db[t].tx.failed
  THEN db[t]
  ELSE IF db[t].tx.nonce # PendingNonce
  THEN [status |-> "FAILED", tx |-> [db[t].tx EXCEPT !.failed = TRUE]]
  ELSE [db[t] EXCEPT !.status = "INMEMPOOL"]

\* repair_recorded_attempts_for_relayer, and repair_absent_pending_transactions_for_relayer
\* for attempts the node does not know at a nonce other than the chain's.
RepairedRow(t) ==
  IF t \notin With("PENDING") \/ db[t].tx.hash = None \/ db[t].tx.failed
  THEN db[t]
  ELSE IF FirstLanded(t) # None
  THEN [status |-> "INMEMPOOL", tx |-> [db[t].tx EXCEPT !.hash = FirstLanded(t)]]
  ELSE IF db[t].tx.nonce # PendingNonce
  THEN [status |-> "FAILED", tx |-> [db[t].tx EXCEPT !.failed = TRUE]]
  ELSE db[t]

RepairAttempts ==
  /\ boot = "unpoisoned"
  /\ db' = [t \in TxId |-> RepairedRow(t)]
  /\ boot' = "repaired"
  /\ UNCHANGED <<audit, queueVars, op, expired, moved, nodeVars>>

\* A statement or a call of a repair fails: the startup goes on without this relayer.  The
\* landed attempts recovered so far stay recovered, the absent ones fail together at the end.
StaysOffline == boot' = "offline" /\ UNCHANGED <<audit, queueVars, op, expired, moved, chain, pool, stray>>

PoisonedUnrepaired ==
  /\ boot = "down"
  /\ Spend("db")
  /\ StaysOffline /\ UNCHANGED db

Recoverable ==
  {t \in With("PENDING") : db[t].tx.hash # None /\ ~db[t].tx.failed /\ FirstLanded(t) # None}

AttemptsUnrepaired ==
  /\ boot = "unpoisoned"
  /\ Spend("db") \/ Spend("rpc")
  /\ \E done \in SUBSET Recoverable : db' = [t \in TxId |-> IF t \in done THEN RepairedRow(t) ELSE db[t]]
  /\ StaysOffline

\* The process is started again; until then the relayer has no queue.
StartAgain ==
  /\ boot = "offline"
  /\ boot' = "down"
  /\ UNCHANGED <<rowVars, queueVars, op, expired, moved, nodeVars>>

\* repopulate_competitive_transaction_queue: a row linked to another INMEMPOOL row
\* competes with it, every other row stands alone.
LiveEntries == {db[t].tx : t \in With("INMEMPOOL")}

RivalsOf(e) == {r \in LiveEntries : r.id = e.by}

ContestOf(e) ==
  IF RivalsOf(e) = {} THEN Alone(e)
  ELSE LET r == CHOOSE r \in RivalsOf(e) : TRUE
       IN  [orig |-> e, comp |-> r, kind |-> IF r.payload = Noop THEN "cancel" ELSE "replace"]

Contests == {ContestOf(e) : e \in {e \in LiveEntries : \A o \in LiveEntries : o.by # e.id}}

\* repopulate_transaction_queue(Pending), and a mutant that skips what was ever signed.
UnsignedPendingEntries == {db[t].tx : t \in {t \in With("PENDING") : db[t].tx.hash = None}}

PendingEntries == {db[t].tx : t \in With("PENDING")}

\* Mutant: the in-mempool transactions are not looked at.
PendingNonces == {e.nonce : e \in PendingEntries}

QueuedNonces ==
  {e.nonce : e \in PendingEntries}
    \cup {c.orig.nonce : c \in Contests}
    \cup {c.comp.nonce : c \in {c \in Contests : c.comp # None}}

LoadQueues ==
  /\ boot = "repaired"
  /\ pendq' \in EntriesByNonce(PendingEntries)
  /\ inq' \in ContestsByNonce(Contests)
  /\ minedq' = With("MINED")
  /\ nm' \in EffectiveStartupNonce(PendingNonce, QueuedNonces)
  /\ boot' = "online"
  /\ UNCHANGED <<rowVars, op, expired, moved, nodeVars>>

\* Rows that cannot be read, or no nonce, end the whole startup: the process starts again.
LoadFails ==
  /\ boot = "repaired"
  /\ Spend("db") \/ Spend("rpc")
  /\ boot' = "down"
  /\ UNCHANGED <<rowVars, queueVars, op, expired, moved, chain, pool, stray>>

-----------------------------------------------------------------------------
\* expires_at passes while the transaction can still be sent.
Expire(t) ==
  /\ t \in (With("PENDING") \cup With("INMEMPOOL")) \ expired
  /\ expired' = expired \cup {t}
  /\ Spend("expire")
  /\ UNCHANGED <<rowVars, queueVars, boot, op, moved, chain, pool, stray>>

Network ==
  /\ NodeStep
  /\ UNCHANGED <<rowVars, queueVars, boot, op, expired, moved>>

Api(t) ==
  \/ Admit(t) \/ AdmitUnestimable(t) \/ AdmitUnsaved(t)
  \/ CancelPending(t) \/ ReplacePending(t)
  \/ CancelInmempool(t) \/ ReplaceInmempool(t)

Loops ==
  \/ SendPending \/ EstimateRejects \/ BumpGas
  \/ ResolveReceipt \/ ResolveReceiptUnsaved
  \/ \E t \in TxId : Confirm(t)

Continue ==
  \/ Deliver
  \/ MarkPendingSent \/ MarkBumpSent \/ MarkRivalSent \/ LinkRival
  \/ CloseOut \/ AdoptLanded \/ ReassignPending
  \/ ConflictMined \/ ReassignInmempool \/ StepFails \/ SettleLoser

Startup == RepairPoisoned \/ RepairAttempts \/ LoadQueues

StartupFails == PoisonedUnrepaired \/ AttemptsUnrepaired \/ LoadFails

Next ==
  \/ \E t \in TxId : Api(t) \/ Expire(t)
  \/ Loops
  \/ Continue
  \/ Crash
  \/ Startup \/ StartupFails \/ StartAgain
  \/ Network

Spec == Init /\ [][Next]_vars
=============================================================================
