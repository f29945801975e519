----------------------- MODULE RelayerQueueProperties -----------------------
(***************************************************************************)
(* What the queue of one relayer has to guarantee, and the fairness under   *)
(* which it makes progress.                                                 *)
(***************************************************************************)
EXTENDS RelayerQueue

Attempts(t) == {audit[t][i] : i \in DOMAIN audit[t]}

\* The transactions memory tracks.
Queued ==
  {pendq[i] : i \in DOMAIN pendq}
    \cup {inq[i].orig : i \in DOMAIN inq}
    \cup {c.comp : c \in {inq[i] : i \in {i \in DOMAIN inq : inq[i].comp # None}}}

Terminal == {"CONFIRMED", "FAILED", "EXPIRED", "CANCELLED", "REPLACED"}

MinedOk(h) == \E b \in Receipts : b.ok /\ b.hash = h

-----------------------------------------------------------------------------
(***************************************************************************)
(* Safety.                                                                  *)
(***************************************************************************)
\* Every signed transaction that is out in the network, pooled, forgotten by our node or
\* mined, is a recorded attempt of some transaction: persist_and_broadcast makes the hash
\* durable before any byte reaches an RPC endpoint, and nothing deletes it.
WriteAhead ==
  \A h \in pool \cup stray \cup {b.hash : b \in Receipts} :
    h # None => \E t \in TxId : \E i \in DOMAIN audit[t] : audit[t][i] = h

\* The attempt about to be broadcast is on record.
InFlightRecorded ==
  op.at = "persisted" => \E i \in DOMAIN audit[op.tx.id] : audit[op.tx.id][i] = op.tx.hash

\* No transaction in memory, in flight included, holds a nonce the nonce manager may
\* still hand out: admission, conflict recovery and startup all leave the counter above.
ReservationsProtected ==
  boot = "online" =>
    /\ \A e \in Queued : e.nonce < nm
    /\ op.tx # None => op.tx.nonce < nm

\* Two queued transactions share a nonce only when one competes with the other, or both
\* with the same original.
Compete(e, f) == e.ext = f.id \/ f.ext = e.id \/ (e.ext # None /\ e.ext = f.ext)

OneTransactionPerNonce ==
  boot = "online" =>
    \A e, f \in Queued : e.nonce = f.nonce => e.id = f.id \/ Compete(e, f)

\* A live broadcast keeps its nonce: the nonce of a pooled transaction is never free
\* for a new one, whatever was lost between the broadcast and the bookkeeping.
LiveBroadcastsProtected ==
  boot = "online" => \A h \in pool : h.nonce < nm

\* A payload takes effect at most once, unless the in-mempool loop has given a
\* transaction that carried it a fresh nonce.
AtMostOnceUnlessMoved ==
  \A p \in TxId :
    Executions(p) <= 1 \/ \E t \in moved : \E h \in Attempts(t) : h.payload = p

\* A row is MINED only with a hash that was mined and did not revert, and CONFIRMED only
\* if one of its recorded attempts did; a failed transaction_mined may leave an older hash.
MinedAttempt ==
  \A t \in TxId :
    /\ db[t].status = "MINED" => MinedOk(db[t].tx.hash)
    /\ db[t].status \in {"MINED", "CONFIRMED"} => \E h \in Attempts(t) : MinedOk(h)

\* What a rival that won carries: a cancellation is empty, and so is a replacement that
\* expired before it was signed.
DecidingPayload(c, s) ==
  \/ db[c].tx.payload = Noop /\ (s = "REPLACED" => c \in expired)
  \/ db[c].tx.payload = c /\ s = "REPLACED"

\* Exactly one side of a contest wins: the original is CANCELLED or REPLACED only if its
\* rival was mined, and its own payload then never takes effect unless one of the two
\* was given another nonce.
ContestDecided ==
  \A t \in TxId : db[t].status \in {"CANCELLED", "REPLACED"} =>
    \E c \in TxId :
      /\ db[c].status \in {"MINED", "CONFIRMED"}
      /\ db[c].tx.ext = t
      /\ DecidingPayload(c, db[t].status)
      /\ Executions(t) = 0 \/ t \in moved \/ c \in moved

\* Every open row of a user's transaction is in memory while the relayer is online, and
\* memory tracks no user's transaction that is not open.
OpenRowsQueued ==
  Ready => {t \in User : db[t].status \in {"PENDING", "INMEMPOOL"}}
             = {e.id : e \in Queued} \cap User

\* Every nonce between the chain and the nonce manager is held by a queued transaction:
\* no gap can block the account.
NonceCoverage ==
  Ready => \A n \in Len(chain)..(nm - 1) : \E e \in Queued : e.nonce = n

\* A status that ends a transaction is never overwritten, not even by a restart.
TerminalStable ==
  [][\A t \in TxId : db[t].status \in Terminal => db'[t].status = db[t].status]_vars

\* The queue implements the lifecycle it promises.
Lifecycle == INSTANCE TransactionLifecycle
  WITH status <- [t \in TxId |-> db[t].status],
       executed <- {t \in TxId : Executions(t) > 0}

Refines == Lifecycle!LifecycleSpec

-----------------------------------------------------------------------------
(***************************************************************************)
(* Liveness.  The mutex the loops contend for is tokio's, which is FIFO:    *)
(* a loop that waits for it gets it, so each loop's step is strongly fair.  *)
(* A handler that holds the mutex goes on, the startup of a process that    *)
(* runs goes on, and the network mines what it can.  Nobody has to start     *)
(* the process again for the sake of a relayer that its startup skipped.     *)
(***************************************************************************)
Fairness ==
  /\ SF_vars(SendPending)
  /\ SF_vars(ResolveReceipt)
  /\ \A t \in TxId : SF_vars(Confirm(t))
  /\ WF_vars(Continue)
  /\ WF_vars(Startup)
  /\ WF_vars(Mine /\ UNCHANGED <<rowVars, queueVars, boot, op, expired, moved>>)

FairSpec == Spec /\ Fairness

\* Every transaction that is not final becomes so, whatever a restart finds or fails to repair,
\* unless another user of the key has taken one of the account's nonces (at the gas cap no bump
\* discovers that), or a failed repair has the startup leave the relayer offline: its rows stay
\* open then until the process is started again, and settle after that.
Settles ==
  \A t \in User :
    db[t].status \in {"PENDING", "INMEMPOOL", "MINED"}
      ~> \/ db[t].status \in Terminal
         \/ \E b \in Receipts : b.hash = None
         \/ boot = "offline"

-----------------------------------------------------------------------------
(***************************************************************************)
(* A statement of a comment which the code does not keep.                   *)
(***************************************************************************)
\* Comment at transactions_queues.rs:1932-1938: the receipt is checked during a bump's nonce
\* conflict because reassigning a mined transaction "would re-execute its payload".
AtMostOnce == \A p \in TxId : Executions(p) <= 1
=============================================================================
