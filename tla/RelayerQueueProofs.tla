------------------------- MODULE RelayerQueueProofs -------------------------
(***************************************************************************)
(* Proofs about the queue of one relayer, for every set of transactions,    *)
(* every gas cap and every budget of faults: types, records ahead of        *)
(* broadcasts and reserved nonces, then the entries that memory holds for   *)
(* the rows, what a MINED row stands for, and that a final status stays.    *)
(***************************************************************************)
EXTENDS RelayerQueueProperties, FiniteSetTheorems, TLAPS

-----------------------------------------------------------------------------
(***************************************************************************)
(* Sequences and finite sets.                                               *)
(***************************************************************************)
\* A prefix-closed or any other set of positions is no larger than the sequence.
LEMMA PositionCount ==
  ASSUME NEW n \in Nat, NEW P \in SUBSET (1..n)
  PROVE  /\ Cardinality(P) \in Nat
         /\ Cardinality(P) <= n
         /\ P # 1..n => Cardinality(P) + 1 \in 1..n
<1>1. IsFiniteSet(1..n) /\ Cardinality(1..n) = n
  BY FS_Interval
<1>2. IsFiniteSet(P) /\ Cardinality(P) <= n /\ (Cardinality(P) = n => P = 1..n)
  BY <1>1, FS_Subset
<1>3. Cardinality(P) \in Nat
  BY <1>2, FS_CardinalityType
<1> QED
  BY <1>2, <1>3

\* The image of a finite set under a function is finite.
LEMMA ImageFinite ==
  ASSUME NEW S, IsFiniteSet(S), NEW f
  PROVE  IsFiniteSet({f[x] : x \in S})
<1> DEFINE T == {f[x] : x \in S}
           g == [x \in S |-> f[x]]
<1>1. g \in Surjection(S, T)
  BY DEF Surjection
<1> QED
  BY <1>1, FS_Surjection

\* What a sequence over T read by position is made of.
LEMMA FunctionIsSequence ==
  ASSUME NEW T, NEW n \in Nat, NEW q \in [1..n -> T]
  PROVE  q \in Seq(T)
  OBVIOUS

\* InsertAt keeps the elements' type when the position is in the sequence or behind it.
LEMMA InsertAtType ==
  ASSUME NEW T, NEW q \in Seq(T), NEW e \in T, NEW i \in 1..(Len(q) + 1)
  PROVE  InsertAt(q, i, e) \in Seq(T)
<1>1. SubSeq(q, 1, i - 1) \in Seq(T)
  OBVIOUS
<1>2. SubSeq(q, i, Len(q)) \in Seq(T)
  OBVIOUS
<1> QED
  BY <1>1, <1>2 DEF InsertAt

-----------------------------------------------------------------------------
(***************************************************************************)
(* The types of what the model's operators return.                          *)
(***************************************************************************)
\* The pending count of the account is a nonce.
LEMMA PendingNonceType ==
  ASSUME NodeTypeOK
  PROVE  PendingNonce \in Nat
<1> DEFINE run == {h \in pool : \A n \in Len(chain)..h.nonce : \E g \in pool : g.nonce = n}
<1>1. IsFiniteSet(run)
  BY FS_Subset DEF NodeTypeOK
<1>2. Cardinality(run) \in Nat
  BY <1>1, FS_CardinalityType
<1>3. Len(chain) \in Nat
  BY DEF NodeTypeOK
<1> QED
  BY <1>2, <1>3 DEF PendingNonce

\* find_landed_attempt returns a recorded attempt, or none.
LEMMA FirstLandedType ==
  ASSUME TypeOK, NEW t \in TxId
  PROVE  FirstLanded(t) \in Hash \cup {None}
<1> DEFINE a == audit[t]
           absent == {i \in 1..Len(a) : \A j \in 1..i : ~Exists(a[j])}
<1>1. a \in Seq(Hash)
  BY DEF TypeOK
<1>2. Len(a) \in Nat
  BY <1>1
<1>3. absent # 1..Len(a) => Cardinality(absent) + 1 \in 1..Len(a)
  BY <1>2, PositionCount
<1>4. \A k \in 1..Len(a) : a[k] \in Hash
  BY <1>1
<1>5. absent # 1..Len(a) => a[Cardinality(absent) + 1] \in Hash
  BY <1>3, <1>4
<1> QED
  BY <1>5 DEF FirstLanded

\* add_pending_transaction keeps a queue of entries.
LEMMA InsertByNonceType ==
  ASSUME NEW q \in Seq(Entry), NEW e \in Entry
  PROVE  InsertByNonce(q, e) \in Seq(Entry)
<1> DEFINE before == {i \in 1..Len(q) : \A j \in 1..i : q[j].nonce <= e.nonce}
<1>1. Len(q) \in Nat
  OBVIOUS
<1>2. Cardinality(before) + 1 \in 1..(Len(q) + 1)
  BY <1>1, PositionCount
<1>3. InsertAt(q, Cardinality(before) + 1, e) \in Seq(Entry)
  BY <1>2, InsertAtType
<1> QED
  BY <1>3 DEF InsertByNonce

\* update_pending_transaction keeps a queue of entries.
LEMMA UpdatedType ==
  ASSUME NEW q \in Seq(Entry), NEW e \in Entry
  PROVE  Updated(q, e) \in Seq(Entry)
<1>1. /\ Len(q) \in Nat
      /\ DOMAIN q = 1..Len(q)
      /\ \A i \in 1..Len(q) : q[i] \in Entry
  OBVIOUS
<1>2. Updated(q, e) \in [1..Len(q) -> Entry]
  BY <1>1 DEF Updated
<1> QED
  BY <1>1, <1>2, FunctionIsSequence

\* Rows read in the order of their nonces make a queue.
LEMMA EntriesByNonceType ==
  ASSUME NEW S \in SUBSET Entry, IsFiniteSet(S), NEW q \in EntriesByNonce(S)
  PROVE  q \in Seq(Entry)
<1>1. Cardinality(S) \in Nat
  BY FS_CardinalityType
<1>2. q \in [1..Cardinality(S) -> Entry]
  BY DEF EntriesByNonce, SetToSeqs
<1> QED
  BY <1>1, <1>2, FunctionIsSequence

\* The in-mempool queue read at startup is a queue of contests.
LEMMA ContestsByNonceType ==
  ASSUME NEW S \in SUBSET Contest, IsFiniteSet(S), NEW q \in ContestsByNonce(S)
  PROVE  q \in Seq(Contest)
<1>1. Cardinality(S) \in Nat
  BY FS_CardinalityType
<1>2. q \in [1..Cardinality(S) -> Contest]
  BY DEF ContestsByNonce, SetToSeqs
<1> QED
  BY <1>1, <1>2, FunctionIsSequence

\* The counter stays a nonce.
LEMMA NonceManagerType ==
  ASSUME NEW next \in Nat, NEW n \in Nat
  PROVE  /\ SyncedWith(next, n) \in Nat
         /\ Incremented(next) \in Nat
         /\ Released(next, n) \in Nat
         /\ AdvancedPast(next, n) \in Nat
  BY DEF SyncedWith, Incremented, Released, AdvancedPast

\* effective_startup_nonce is at least the chain's nonce and past every queued one.
LEMMA EffectiveStartupNonceType ==
  ASSUME NEW onchain \in Nat, NEW queued \in SUBSET Nat,
         NEW m \in EffectiveStartupNonce(onchain, queued)
  PROVE  /\ m \in Nat
         /\ onchain <= m
         /\ \A n \in queued : n < m
<1> DEFINE S == {onchain} \cup {n + 1 : n \in queued}
<1>1. m \in S /\ \A n \in S : n <= m
  BY DEF EffectiveStartupNonce
<1>2. S \subseteq Nat
  OBVIOUS
<1>3. \A n \in queued : n + 1 <= m
  BY <1>1
<1> QED
  BY <1>1, <1>2, <1>3

\* Entries built from entries are entries.
LEMMA EntryType ==
  ASSUME NEW t \in TxId, NEW n \in Nat, NEW e \in Entry
  PROVE  /\ NewEntry(t, n) \in Entry
         /\ Emptied(e) \in Entry
         /\ Alone(e) \in Contest
         /\ NoRow(t) \in Row
  BY DEF NewEntry, Emptied, Entry, Alone, Contest, NoRow, Row, Payload

\* get_active_transaction returns an entry, and an overwrite by id leaves a contest.
LEMMA ActiveType ==
  ASSUME NEW c \in Contest
  PROVE  /\ Active(c) \in Entry
         /\ \A e \in Entry : WithTx(c, e) \in Contest
  BY DEF Active, WithTx, Contest

-----------------------------------------------------------------------------
(***************************************************************************)
(* The effects of statements and of queue operations keep the types.        *)
(***************************************************************************)
\* A row written whole is a row.
LEMMA SaveTransactionType ==
  ASSUME TypeOK, NEW e \in Entry, NEW s \in Status, SaveTransaction(e, s)
  PROVE  db' \in [TxId -> Row]
<1>1. [status |-> s, tx |-> e] \in Row
  BY DEF Row
<1> QED
  BY <1>1 DEF SaveTransaction, TypeOK

\* A row whose status alone is written stays a row.
LEMMA SetStatusType ==
  ASSUME TypeOK, NEW t \in TxId, NEW s \in Status, SetStatus(t, s)
  PROVE  db' \in [TxId -> Row]
<1>1. [db[t] EXCEPT !.status = s] \in Row
  BY DEF TypeOK, Row
<1>2. db' = [db EXCEPT ![t] = [db[t] EXCEPT !.status = s]]
  BY DEF SetStatus
<1> QED
  BY <1>1, <1>2 DEF TypeOK

\* transaction_sent leaves a row.
LEMMA SetSentType ==
  ASSUME TypeOK, NEW t \in TxId, NEW h \in Hash \cup {None}, SetSent(t, h)
  PROVE  db' \in [TxId -> Row]
<1> DEFINE row == [status |-> "INMEMPOOL", tx |-> [db[t].tx EXCEPT !.hash = h]]
<1>1. db[t].tx \in Entry
  BY DEF TypeOK, Row
<1>2. [db[t].tx EXCEPT !.hash = h] \in Entry
  BY <1>1 DEF Entry
<1>3. row \in Row
  BY <1>2 DEF Row, Status
<1> QED
  BY <1>3 DEF SetSent, TypeOK

\* The attempt recorded for e is the one that is about to be broadcast.
LEMMA RecordAttemptType ==
  ASSUME TypeOK, NEW e \in Entry, e.hash # None, NEW s \in Status, RecordAttempt(e, s)
  PROVE  /\ db' \in [TxId -> Row]
         /\ audit' \in [TxId -> Seq(Hash)]
<1>1. e.hash \in Hash /\ e.id \in TxId
  BY DEF Entry
<1>2. [e EXCEPT !.failed = db[e.id].tx.failed] \in Entry
  BY <1>1 DEF TypeOK, Row, Entry
<1>3. db' \in [TxId -> Row]
  BY <1>2, SaveTransactionType DEF RecordAttempt
<1>4. audit' \in [TxId -> Seq(Hash)]
  BY <1>1 DEF RecordAttempt, TypeOK
<1> QED
  BY <1>3, <1>4

\* A record is never removed, and the recorded attempt is there afterwards.
LEMMA RecordAttemptRecords ==
  ASSUME TypeOK, NEW e \in Entry, NEW s, RecordAttempt(e, s)
  PROVE  /\ \E i \in DOMAIN audit'[e.id] : audit'[e.id][i] = e.hash
         /\ \A t \in TxId : \A i \in DOMAIN audit[t] :
              i \in DOMAIN audit'[t] /\ audit'[t][i] = audit[t][i]
<1>1. e.id \in TxId
  BY DEF Entry
<1>2. CASE \E i \in DOMAIN audit[e.id] : audit[e.id][i] = e.hash
  <2>1. audit' = audit
    BY <1>2 DEF RecordAttempt
  <2> QED
    BY <1>2, <2>1
<1>3. CASE ~(\E i \in DOMAIN audit[e.id] : audit[e.id][i] = e.hash)
  <2> DEFINE a == audit[e.id]
  <2>1. audit' = [audit EXCEPT ![e.id] = Append(a, e.hash)]
    BY <1>3 DEF RecordAttempt
  <2>2. a \in Seq(Hash)
    BY <1>1 DEF TypeOK
  <2>3. /\ Len(a) + 1 \in DOMAIN Append(a, e.hash)
        /\ Append(a, e.hash)[Len(a) + 1] = e.hash
        /\ \A i \in DOMAIN a : i \in DOMAIN Append(a, e.hash) /\ Append(a, e.hash)[i] = a[i]
    BY <2>2
  <2>4. audit'[e.id] = Append(a, e.hash) /\ \A t \in TxId \ {e.id} : audit'[t] = audit[t]
    BY <1>1, <2>1 DEF TypeOK
  <2> QED
    BY <1>1, <2>3, <2>4
<1> QED
  BY <1>2, <1>3

\* move_pending_to_inmempool keeps both queues' types.
LEMMA MovePendingToInmempoolType ==
  ASSUME TypeOK, NEW e \in Entry, MovePendingToInmempool(e)
  PROVE  pendq' \in Seq(Entry) /\ inq' \in Seq(Contest)
<1>1. Alone(e) \in Contest
  BY DEF Alone, Contest
<1>2. pendq # <<>> => Tail(pendq) \in Seq(Entry)
  BY DEF TypeOK
<1>3. Append(inq, Alone(e)) \in Seq(Contest)
  BY <1>1 DEF TypeOK
<1> QED
  BY <1>2, <1>3 DEF MovePendingToInmempool, TypeOK

\* Every price offered is a price.
LEMMA PricesType ==
  ASSUME NEW e \in Entry, NEW n \in Nat
  PROVE  /\ LastGas(e) \in Nat
         /\ Prices(n) \subseteq Nat
<1>1. LastGas(e) \in Nat
  BY DEF LastGas, Entry, Hash
<1>2. Quotes \subseteq Nat /\ MaxGas \in Nat
  BY QueueAssumption
<1>3. \A q \in Quotes : (IF q > n THEN q ELSE IF n < MaxGas THEN n + 1 ELSE MaxGas) \in Nat
  BY <1>2
<1>4. Prices(n) \subseteq Nat
  <2>1. CASE n = 0
    BY <1>2, <2>1 DEF Prices
  <2>2. CASE n # 0
    BY <1>3, <2>2, Zenon DEF Prices
  <2> QED
    BY <2>1, <2>2
<1> QED
  BY <1>1, <1>4

\* What send_transaction signs keeps its id and its nonce, and has a hash.
LEMMA SignedType ==
  ASSUME NEW e \in Entry, NEW gas \in Nat
  PROVE  /\ Signed(e, gas) \in Entry
         /\ Signed(e, gas).hash \in Hash
         /\ Signed(e, gas).hash # None
         /\ Signed(e, gas).id = e.id
         /\ Signed(e, gas).nonce = e.nonce
<1> DEFINE p == IF e.id \in expired THEN Noop ELSE e.payload
           h == [nonce |-> e.nonce, payload |-> p, gas |-> gas]
<1>1. p \in Payload
  BY DEF Payload, Entry
<1>2. h \in Hash
  BY <1>1 DEF Hash, Entry
<1>3. Signed(e, gas) = [e EXCEPT !.payload = p, !.hash = h]
  BY DEF Signed
<1>4. /\ [e EXCEPT !.payload = p, !.hash = h] \in Entry
      /\ [e EXCEPT !.payload = p, !.hash = h].hash = h
      /\ [e EXCEPT !.payload = p, !.hash = h].id = e.id
      /\ [e EXCEPT !.payload = p, !.hash = h].nonce = e.nonce
  <2> HIDE DEF p, h
  <2> QED  BY <1>1, <1>2 DEF Entry
<1> QED
  BY <1>2, <1>3, <1>4, NoneIsNoHash

\* What is in flight is one of the operations.
LEMMA OperationType ==
  ASSUME TypeOK, op.at # "idle"
  PROVE  /\ op \in [at : Stage, kind : Kind, tx : Entry]
         /\ op.at \in {"linking", "settling"} => op.kind \in {"cancel", "replace"}
         /\ op.tx \in Entry /\ op.tx.id \in TxId /\ op.tx.nonce \in Nat
         /\ op.tx.hash \in Hash \cup {None}
<1>1. /\ op \in [at : Stage, kind : Kind, tx : Entry]
      /\ op.at \in {"linking", "settling"} => op.kind \in {"cancel", "replace"}
  BY DEF TypeOK, Op, Idle, Stage, Kind
<1> QED
  BY <1>1 DEF Entry

-----------------------------------------------------------------------------
(***************************************************************************)
(* The node's steps keep the types.                                         *)
(***************************************************************************)
\* A fault that strikes leaves a budget.
LEMMA SpendType ==
  ASSUME NodeTypeOK, NEW f \in Fault, Spend(f)
  PROVE  left' \in [Fault -> Nat]
<1>1. left[f] - 1 \in Nat
  BY DEF NodeTypeOK, Spend
<1> QED
  BY <1>1 DEF NodeTypeOK, Spend

\* What the node forgets was signed.
LEMMA StraysType ==
  ASSUME NodeTypeOK, NEW S \in SUBSET Hash
  PROVE  Strays(S) \subseteq Hash
  BY DEF Strays, NodeTypeOK

\* The pool that takes a transaction stays a finite set of signed transactions.
LEMMA PoolType ==
  ASSUME NodeTypeOK, NEW h \in Hash, Pool(h)
  PROVE  /\ pool' \subseteq Hash /\ IsFiniteSet(pool')
         /\ stray' \subseteq Hash
<1>1. SameNonce(h) \subseteq Hash /\ pool \subseteq Hash /\ IsFiniteSet(pool)
  BY DEF SameNonce, NodeTypeOK
<1>2. IsFiniteSet(pool \ SameNonce(h))
  BY <1>1, FS_Subset
<1>3. IsFiniteSet((pool \ SameNonce(h)) \cup {h})
  BY <1>2, FS_AddElement
<1>4. Strays(SameNonce(h)) \subseteq Hash
  BY <1>1, StraysType
<1> QED
  BY <1>1, <1>3, <1>4 DEF Pool

\* Every answer of the node keeps its state's types.
LEMMA BroadcastType ==
  ASSUME NodeTypeOK, NEW h \in Hash, NEW r \in Reply, Broadcast(h, r)
  PROVE  NodeTypeOK'
<1>1. CASE Pool(h) /\ UNCHANGED <<chain, left>>
  BY <1>1, PoolType DEF NodeTypeOK
<1>2. CASE Pool(h) /\ Spend("rpc") /\ UNCHANGED chain
  <2>1. left' \in [Fault -> Nat]
    BY <1>2, SpendType DEF Fault
  <2> QED
    BY <1>2, <2>1, PoolType DEF NodeTypeOK
<1>3. CASE (Spend("rpc") \/ Spend("reject")) /\ UNCHANGED <<chain, pool, stray>>
  <2>1. left' \in [Fault -> Nat]
    BY <1>3, SpendType DEF Fault
  <2> QED
    BY <1>3, <2>1 DEF NodeTypeOK
<1>4. CASE UNCHANGED nodeVars
  BY <1>4 DEF NodeTypeOK, nodeVars
<1> QED
  BY <1>1, <1>2, <1>3, <1>4 DEF Broadcast

\* A block with at most one transaction of the account extends the chain.
LEMMA IncludeType ==
  ASSUME NodeTypeOK, NEW b \in Block, Include(b)
  PROVE  /\ chain' \in Seq(Block)
         /\ pool' \subseteq Hash /\ IsFiniteSet(pool')
         /\ stray' \subseteq Hash
<1>1. IsFiniteSet({g \in pool : g.nonce # Len(chain)})
  BY FS_Subset DEF NodeTypeOK
<1> QED
  BY <1>1 DEF Include, NodeTypeOK

\* Every step the network takes on its own keeps its state's types.
LEMMA NodeStepType ==
  ASSUME NodeTypeOK, NodeStep
  PROVE  NodeTypeOK'
<1>1. ASSUME Mine PROVE NodeTypeOK'
  <2>1. PICK h \in pool : Include([hash |-> h, ok |-> TRUE]) /\ UNCHANGED left
    BY <1>1 DEF Mine
  <2>2. [hash |-> h, ok |-> TRUE] \in Block
    BY DEF NodeTypeOK, Block
  <2> QED
    BY <2>1, <2>2, IncludeType DEF NodeTypeOK
<1>2. ASSUME MineReverted PROVE NodeTypeOK'
  <2>1. PICK h \in pool : Include([hash |-> h, ok |-> FALSE]) /\ Spend("revert")
    BY <1>2 DEF MineReverted
  <2>2. [hash |-> h, ok |-> FALSE] \in Block
    BY DEF NodeTypeOK, Block
  <2>3. left' \in [Fault -> Nat]
    BY <2>1, SpendType DEF Fault
  <2> QED
    BY <2>1, <2>2, <2>3, IncludeType DEF NodeTypeOK
<1>3. ASSUME MineStray PROVE NodeTypeOK'
  <2>1. PICK h \in stray : Include([hash |-> h, ok |-> TRUE]) /\ Spend("late")
    BY <1>3 DEF MineStray
  <2>2. [hash |-> h, ok |-> TRUE] \in Block
    BY DEF NodeTypeOK, Block
  <2>3. left' \in [Fault -> Nat]
    BY <2>1, SpendType DEF Fault
  <2> QED
    BY <2>1, <2>2, <2>3, IncludeType DEF NodeTypeOK
<1>4. ASSUME MineExternal PROVE NodeTypeOK'
  <2>1. [hash |-> None, ok |-> TRUE] \in Block
    BY DEF Block
  <2>2. left' \in [Fault -> Nat]
    BY <1>4, SpendType DEF Fault, MineExternal
  <2> QED
    BY <1>4, <2>1, <2>2, IncludeType DEF NodeTypeOK, MineExternal
<1>5. ASSUME Evict PROVE NodeTypeOK'
  <2>1. PICK h \in pool : /\ pool' = pool \ {h} /\ stray' = Strays({h})
                          /\ Spend("evict") /\ UNCHANGED chain
    BY <1>5 DEF Evict
  <2>2. left' \in [Fault -> Nat]
    BY <2>1, SpendType DEF Fault
  <2>3. IsFiniteSet(pool') /\ pool' \subseteq Hash
    BY <2>1, FS_Subset DEF NodeTypeOK
  <2>4. stray' \subseteq Hash
    BY <2>1, StraysType DEF NodeTypeOK
  <2> QED
    BY <2>1, <2>2, <2>3, <2>4 DEF NodeTypeOK
<1> QED
  BY <1>1, <1>2, <1>3, <1>4, <1>5 DEF NodeStep

-----------------------------------------------------------------------------
(***************************************************************************)
(* Every action keeps the types.                                            *)
(***************************************************************************)
\* add_transaction keeps the types.
LEMMA AdmitType ==
  ASSUME TypeOK, NEW t \in TxId, Admit(t)
  PROVE  TypeOK'
<1> DEFINE n == SyncedWith(nm, PendingNonce)
           e == NewEntry(t, n)
<1>1. n \in Nat
  BY PendingNonceType, NonceManagerType DEF TypeOK
<1>2. e \in Entry
  BY <1>1, EntryType DEF NewEntry, Entry, Payload
<1>3. /\ SaveTransaction(e, "PENDING")
      /\ pendq' = InsertByNonce(pendq, e)
      /\ nm' = Incremented(n)
      /\ UNCHANGED <<audit, inq, minedq, boot, op, expired, moved, nodeVars>>
  BY DEF Admit
<1> HIDE DEF n, e
<1>4. db' \in [TxId -> Row]
  BY <1>2, <1>3, SaveTransactionType DEF Status
<1>5. pendq' \in Seq(Entry)
  BY <1>2, <1>3, InsertByNonceType DEF TypeOK
<1>6. nm' \in Nat
  BY <1>1, <1>3, NonceManagerType
<1> QED
  BY <1>3, <1>4, <1>5, <1>6 DEF TypeOK, NodeTypeOK, nodeVars

\* A rejected gas estimate at admission keeps the types.
LEMMA AdmitUnestimableType ==
  ASSUME TypeOK, NEW t \in TxId, AdmitUnestimable(t)
  PROVE  TypeOK'
<1> DEFINE e == [NewEntry(t, PendingNonce) EXCEPT !.failed = TRUE]
<1>1. PendingNonce \in Nat
  BY PendingNonceType DEF TypeOK
<1>2. e \in Entry
  BY <1>1 DEF NewEntry, Entry, Payload
<1>3. /\ SaveTransaction(e, "FAILED")
      /\ nm' = SyncedWith(nm, PendingNonce)
      /\ Spend("reject")
      /\ UNCHANGED <<audit, pendq, inq, minedq, boot, op, expired, moved, chain, pool, stray>>
  BY DEF AdmitUnestimable
<1> HIDE DEF e
<1>4. db' \in [TxId -> Row]
  BY <1>2, <1>3, SaveTransactionType DEF Status
<1>5. left' \in [Fault -> Nat]
  BY <1>3, SpendType DEF TypeOK, Fault
<1>6. nm' \in Nat
  BY <1>1, <1>3, NonceManagerType DEF TypeOK
<1> QED
  BY <1>3, <1>4, <1>5, <1>6 DEF TypeOK, NodeTypeOK

\* An admission whose row is not saved keeps the types.
LEMMA AdmitUnsavedType ==
  ASSUME TypeOK, NEW t \in TxId, AdmitUnsaved(t)
  PROVE  TypeOK'
<1> DEFINE n == SyncedWith(nm, PendingNonce)
<1>1. n \in Nat
  BY PendingNonceType, NonceManagerType DEF TypeOK
<1>2. nm' \in Nat
  BY <1>1, NonceManagerType DEF AdmitUnsaved
<1>3. left' \in [Fault -> Nat]
  BY SpendType DEF TypeOK, Fault, AdmitUnsaved
<1> QED
  BY <1>2, <1>3 DEF AdmitUnsaved, TypeOK, NodeTypeOK, rowVars

\* An edit in place of a pending entry keeps the types.
LEMMA EditPendingType ==
  ASSUME TypeOK, NEW e \in Entry, EditPending(e)
  PROVE  TypeOK'
<1>1. db' \in [TxId -> Row]
  BY SaveTransactionType DEF EditPending, Status
<1>2. pendq' \in Seq(Entry)
  BY UpdatedType DEF EditPending, TypeOK
<1> QED
  BY <1>1, <1>2 DEF EditPending, TypeOK, NodeTypeOK, nodeVars

\* cancel_transaction on a pending entry keeps the types.
LEMMA CancelPendingType ==
  ASSUME TypeOK, NEW t \in TxId, CancelPending(t)
  PROVE  TypeOK'
<1>1. PICK i \in DOMAIN pendq : EditPending(Emptied(pendq[i]))
  BY DEF CancelPending
<1>2. pendq[i] \in Entry
  BY DEF TypeOK
<1>3. Emptied(pendq[i]) \in Entry
  BY <1>2 DEF Emptied, Entry, Payload
<1> QED
  BY <1>1, <1>3, EditPendingType

\* replace_transaction on a pending entry keeps the types.
LEMMA ReplacePendingType ==
  ASSUME TypeOK, NEW t \in TxId, ReplacePending(t)
  PROVE  TypeOK'
<1>1. PICK c \in Rival, i \in DOMAIN pendq : EditPending([pendq[i] EXCEPT !.payload = c])
  BY DEF ReplacePending
<1>2. pendq[i] \in Entry
  BY DEF TypeOK
<1>3. [pendq[i] EXCEPT !.payload = c] \in Entry
  BY <1>2 DEF Entry, Payload, Rival
<1> QED
  BY <1>1, <1>3, EditPendingType

\* A send that starts records its attempt and leaves the queues alone.
LEMMA SendType ==
  ASSUME TypeOK, NEW e \in Entry, NEW s \in Status, NEW k \in Kind, NEW n \in Nat,
         Send(e, s, k, n)
  PROVE  TypeOK'
<1>1. PICK gas \in Prices(n) :
        /\ RecordAttempt(Signed(e, gas), s)
        /\ op' = [at |-> "persisted", kind |-> k, tx |-> Signed(e, gas)]
  BY DEF Send
<1>2. gas \in Nat
  BY PricesType
<1>3. Signed(e, gas) \in Entry /\ Signed(e, gas).hash # None
  BY <1>2, SignedType
<1>4. db' \in [TxId -> Row] /\ audit' \in [TxId -> Seq(Hash)]
  BY <1>1, <1>3, RecordAttemptType
<1>5. op' \in Op
  BY <1>1, <1>3 DEF Op, Stage
<1>6. UNCHANGED <<queueVars, boot, expired, moved, nodeVars>>
  BY DEF Send
<1> QED
  BY <1>4, <1>5, <1>6 DEF TypeOK, NodeTypeOK, nodeVars, queueVars

\* A rival is sent at the nonce of an entry of the in-mempool queue.
LEMMA SendRivalSends ==
  ASSUME TypeOK, NEW t \in TxId, NEW k \in {"cancel", "replace"}, SendRival(t, k)
  PROVE  \E i \in DOMAIN inq, e \in Entry, n \in Nat :
           e.nonce = inq[i].orig.nonce /\ Send(e, "PENDING", k, n)
<1>1. PICK c \in Rival, i \in DOMAIN inq :
        /\ inq[i].orig.hash # None
        /\ Send([NewEntry(c, inq[i].orig.nonce) EXCEPT
                    !.payload = IF k = "cancel" THEN Noop ELSE c, !.ext = t],
                "PENDING", k, inq[i].orig.hash.gas + 1)
  BY DEF SendRival
<1>2. inq[i].orig \in Entry
  <2>1. inq[i] \in Contest
    BY DEF TypeOK
  <2> QED
    BY <2>1 DEF Contest
<1>3. inq[i].orig.hash.gas + 1 \in Nat
  BY <1>1, <1>2 DEF Entry, Hash
<1>4. [NewEntry(c, inq[i].orig.nonce) EXCEPT
         !.payload = IF k = "cancel" THEN Noop ELSE c, !.ext = t] \in Entry
  BY <1>2 DEF NewEntry, Entry, Payload, Rival
<1>5. [NewEntry(c, inq[i].orig.nonce) EXCEPT
         !.payload = IF k = "cancel" THEN Noop ELSE c, !.ext = t].nonce = inq[i].orig.nonce
  BY DEF NewEntry
<1> QED
  BY <1>1, <1>3, <1>4, <1>5

\* The send of a rival keeps the types.
LEMMA SendRivalType ==
  ASSUME TypeOK, NEW t \in TxId, NEW k \in {"cancel", "replace"}, SendRival(t, k)
  PROVE  TypeOK'
<1>1. PICK e \in Entry, n \in Nat : Send(e, "PENDING", k, n)
  BY SendRivalSends
<1> QED
  BY <1>1, SendType DEF Status, Kind

\* Every call of the API keeps the types.
LEMMA ApiType ==
  ASSUME TypeOK, NEW t \in TxId, Api(t)
  PROVE  TypeOK'
  BY AdmitType, AdmitUnestimableType, AdmitUnsavedType, CancelPendingType,
     ReplacePendingType, SendRivalType DEF Api, CancelInmempool, ReplaceInmempool

\* The start of process_single_pending keeps the types.
LEMMA SendPendingType ==
  ASSUME TypeOK, SendPending
  PROVE  TypeOK'
<1>1. Head(pendq) \in Entry
  BY DEF SendPending, TypeOK
<1>2. LastGas(Head(pendq)) \in Nat
  BY <1>1, PricesType
<1> QED
  BY <1>1, <1>2, SendType DEF SendPending, Status, Kind

\* A rejected estimate of a replaced payload keeps the types.
LEMMA EstimateRejectsType ==
  ASSUME TypeOK, EstimateRejects
  PROVE  TypeOK'
<1>1. Head(pendq) \in Entry
  BY DEF EstimateRejects, TypeOK
<1>2. op' \in Op
  BY <1>1 DEF EstimateRejects, Op, Stage, Kind
<1>3. left' \in [Fault -> Nat]
  BY SpendType DEF EstimateRejects, TypeOK, Fault
<1> QED
  BY <1>2, <1>3 DEF EstimateRejects, TypeOK, NodeTypeOK, rowVars, queueVars

\* What process_single_inmempool reads at the front of its queue.
LEMMA HeadOfInmempoolType ==
  ASSUME TypeOK, inq # <<>>
  PROVE  /\ 1 \in DOMAIN inq /\ inq[1] = Head(inq)
         /\ Head(inq) \in Contest
         /\ Tail(inq) \in Seq(Contest)
         /\ Active(Head(inq)) \in Entry
<1>1. Head(inq) \in Contest /\ Tail(inq) \in Seq(Contest) /\ 1 \in DOMAIN inq /\ inq[1] = Head(inq)
  BY DEF TypeOK
<1> QED
  BY <1>1, ActiveType

\* The start of a gas bump keeps the types.
LEMMA BumpGasType ==
  ASSUME TypeOK, BumpGas
  PROVE  TypeOK'
<1> DEFINE a == Active(Head(inq))
<1>1. /\ inq # <<>>
      /\ a.hash # None
      /\ Send(a, "INMEMPOOL", "bump", a.hash.gas)
  BY DEF BumpGas
<1>2. a \in Entry
  BY <1>1, HeadOfInmempoolType
<1> HIDE DEF a
<1>3. a.hash.gas \in Nat
  BY <1>1, <1>2 DEF Entry, Hash
<1> QED
  BY <1>1, <1>2, <1>3, SendType DEF Status, Kind

\* The attempt that is broadcast is one that was recorded, hence a signed transaction.
LEMMA InFlightHash ==
  ASSUME TypeOK, InFlightRecorded, op.at = "persisted"
  PROVE  op.tx.hash \in Hash
<1>1. op.tx.id \in TxId
  BY OperationType
<1>2. audit[op.tx.id] \in Seq(Hash)
  BY <1>1 DEF TypeOK
<1>3. PICK i \in DOMAIN audit[op.tx.id] : audit[op.tx.id][i] = op.tx.hash
  BY DEF InFlightRecorded
<1> QED
  BY <1>2, <1>3

\* The answer to a broadcast keeps the types.
LEMMA DeliverType ==
  ASSUME TypeOK, InFlightRecorded, Deliver
  PROVE  TypeOK'
<1>1. PICK r \in Reply :
        /\ Broadcast(op.tx.hash, r)
        /\ op' = IF \/ r = "accepted"
                    \/ r = "conflict" /\ op.kind \in {"pending", "bump"}
                    \/ r = "rejected" /\ op.kind = "pending"
                 THEN [op EXCEPT !.at = r]
                 ELSE Idle
  BY DEF Deliver
<1>2. NodeTypeOK'
  BY <1>1, InFlightHash, BroadcastType DEF Deliver, At, TypeOK
<1>3. op' \in Op
  <2>1. op \in [at : Stage, kind : Kind, tx : Entry]
    BY OperationType DEF Deliver, At
  <2>2. r \in {"accepted", "conflict", "rejected"} => [op EXCEPT !.at = r] \in Op
    BY <2>1 DEF Op, Stage
  <2> QED
    BY <1>1, <2>2 DEF Op
<1> QED
  BY <1>2, <1>3 DEF Deliver, TypeOK, rowVars, queueVars

\* mark_sent of a pending transaction keeps the types.
LEMMA MarkPendingSentType ==
  ASSUME TypeOK, MarkPendingSent
  PROVE  TypeOK'
<1>1. op.tx \in Entry /\ op.tx.id \in TxId /\ op.tx.hash \in Hash \cup {None}
  BY OperationType DEF MarkPendingSent, At
<1>2. db' \in [TxId -> Row]
  BY <1>1, SetSentType DEF MarkPendingSent
<1>3. pendq' \in Seq(Entry) /\ inq' \in Seq(Contest)
  BY <1>1, MovePendingToInmempoolType DEF MarkPendingSent
<1> QED
  BY <1>2, <1>3 DEF MarkPendingSent, TypeOK, NodeTypeOK, nodeVars, Op

\* The front of the in-mempool queue is overwritten in place.
LEMMA FrontUpdateType ==
  ASSUME TypeOK, NEW e \in Entry, inq' = [inq EXCEPT ![1] = WithTx(@, e)]
  PROVE  inq' \in Seq(Contest)
<1>1. /\ Len(inq) \in Nat
      /\ inq \in [1..Len(inq) -> Contest]
  BY DEF TypeOK
<1>2. 1 \in 1..Len(inq) => WithTx(inq[1], e) \in Contest
  BY <1>1, ActiveType
<1>3. inq' \in [1..Len(inq) -> Contest]
  BY <1>1, <1>2
<1> QED
  BY <1>1, <1>3, FunctionIsSequence

\* mark_sent of a gas bump keeps the types.
LEMMA MarkBumpSentType ==
  ASSUME TypeOK, MarkBumpSent
  PROVE  TypeOK'
<1>1. op.tx \in Entry /\ op.tx.id \in TxId /\ op.tx.hash \in Hash \cup {None}
  BY OperationType DEF MarkBumpSent, At
<1>2. db' \in [TxId -> Row]
  BY <1>1, SetSentType DEF MarkBumpSent
<1>3. inq' \in Seq(Contest)
  BY <1>1, FrontUpdateType DEF MarkBumpSent
<1> QED
  BY <1>2, <1>3 DEF MarkBumpSent, TypeOK, NodeTypeOK, nodeVars, Op

\* mark_sent of a rival keeps the types.
LEMMA MarkRivalSentType ==
  ASSUME TypeOK, MarkRivalSent
  PROVE  TypeOK'
<1>1. /\ op \in [at : Stage, kind : Kind, tx : Entry]
      /\ op.tx.id \in TxId /\ op.tx.hash \in Hash \cup {None}
  BY OperationType DEF MarkRivalSent, At
<1>2. db' \in [TxId -> Row]
  BY <1>1, SetSentType DEF MarkRivalSent
<1>3. op' \in Op
  BY <1>1 DEF MarkRivalSent, Op, Stage
<1> QED
  BY <1>2, <1>3 DEF MarkRivalSent, TypeOK, NodeTypeOK, nodeVars, queueVars

\* The link of an original to its rival keeps the types.
LEMMA LinkRivalType ==
  ASSUME TypeOK, LinkRival
  PROVE  TypeOK'
<1>1. op.tx \in Entry /\ op.tx.id \in TxId
  BY OperationType DEF LinkRival, At
<1>2. PICK i \in DOMAIN inq :
        LET o == [inq[i].orig EXCEPT !.by = op.tx.id]
        IN  /\ SaveTransaction(o, "INMEMPOOL")
            /\ inq' = IF i = 1
                      THEN [inq EXCEPT ![1] = [orig |-> o, comp |-> op.tx, kind |-> op.kind]]
                      ELSE inq
  BY DEF LinkRival
<1>3. inq[i].orig \in Entry
  <2>1. inq[i] \in Contest
    BY DEF TypeOK
  <2> QED
    BY <2>1 DEF Contest
<1>4. [inq[i].orig EXCEPT !.by = op.tx.id] \in Entry
  BY <1>1, <1>3 DEF Entry
<1>5. db' \in [TxId -> Row]
  BY <1>2, <1>4, SaveTransactionType DEF Status
<1>6. [orig |-> [inq[i].orig EXCEPT !.by = op.tx.id], comp |-> op.tx, kind |-> op.kind]
        \in Contest
  BY <1>1, <1>4, OperationType DEF Contest, LinkRival, At
<1>7. inq' \in Seq(Contest)
  <2>1. /\ Len(inq) \in Nat
        /\ inq \in [1..Len(inq) -> Contest]
    BY DEF TypeOK
  <2>2. inq' \in [1..Len(inq) -> Contest]
    BY <1>2, <1>6, <2>1
  <2> QED
    BY <2>1, <2>2, FunctionIsSequence
<1> QED
  BY <1>5, <1>7 DEF LinkRival, TypeOK, NodeTypeOK, nodeVars, Op

\* close_out_pending_transaction_as_noop keeps the types.
LEMMA CloseOutType ==
  ASSUME TypeOK, CloseOut
  PROVE  TypeOK'
<1> DEFINE e == [Emptied(op.tx) EXCEPT !.failed = TRUE]
<1>1. op.tx \in Entry
  BY OperationType DEF CloseOut, At
<1>2. e \in Entry
  BY <1>1 DEF Emptied, Entry, Payload
<1>3. SaveTransaction(e, "PENDING") /\ pendq' = Updated(pendq, e)
  BY DEF CloseOut
<1> HIDE DEF e
<1>4. db' \in [TxId -> Row]
  BY <1>2, <1>3, SaveTransactionType DEF Status
<1>5. pendq' \in Seq(Entry)
  BY <1>2, <1>3, UpdatedType DEF TypeOK
<1> QED
  BY <1>4, <1>5 DEF CloseOut, TypeOK, NodeTypeOK, nodeVars, Op

\* recover_nonce_synchronization returns a nonce.
LEMMA RecoveredNonceType ==
  ASSUME TypeOK
  PROVE  RecoveredNonce \in Nat
  BY PendingNonceType, NonceManagerType DEF RecoveredNonce, TypeOK

\* A persisted reassignment leaves a row and a nonce.
LEMMA PersistThenAdvanceNonceType ==
  ASSUME TypeOK, NEW e \in Entry, PersistThenAdvanceNonce(e)
  PROVE  db' \in [TxId -> Row] /\ nm' \in Nat
<1>1. RecoveredNonce \in Nat /\ e.id \in TxId
  BY RecoveredNonceType DEF Entry
<1>2. db[e.id] \in Row
  BY <1>1 DEF TypeOK
<1>3. [db[e.id] EXCEPT !.tx = [db[e.id].tx EXCEPT !.nonce = RecoveredNonce]] \in Row
  <2>1. [db[e.id].tx EXCEPT !.nonce = RecoveredNonce] \in Entry
    BY <1>1, <1>2 DEF Row, Entry
  <2> QED
    BY <1>2, <2>1 DEF Row
<1>4. db' = [db EXCEPT ![e.id] =
              [db[e.id] EXCEPT !.tx = [db[e.id].tx EXCEPT !.nonce = RecoveredNonce]]]
  BY DEF PersistThenAdvanceNonce
<1>5. nm' \in Nat
  BY <1>1, NonceManagerType DEF PersistThenAdvanceNonce, TypeOK
<1> QED
  BY <1>3, <1>4, <1>5 DEF TypeOK

\* The adoption of a landed attempt keeps the types.
LEMMA AdoptLandedType ==
  ASSUME TypeOK, AdoptLanded
  PROVE  TypeOK'
<1> DEFINE h == FirstLanded(op.tx.id)
<1>1. op.tx \in Entry /\ op.tx.id \in TxId
  BY OperationType DEF AdoptLanded, At
<1>2. h \in Hash \cup {None}
  BY <1>1, FirstLandedType
<1>3. [op.tx EXCEPT !.hash = h] \in Entry
  <2> HIDE DEF h
  <2> QED
    BY <1>1, <1>2 DEF Entry
<1>4. \/ /\ SetSent(op.tx.id, h)
         /\ MovePendingToInmempool([op.tx EXCEPT !.hash = h])
      \/ UNCHANGED <<db, pendq, inq>>
  BY DEF AdoptLanded
<1> HIDE DEF h
<1>5. db' \in [TxId -> Row] /\ pendq' \in Seq(Entry) /\ inq' \in Seq(Contest)
  BY <1>1, <1>2, <1>3, <1>4, SetSentType, MovePendingToInmempoolType DEF TypeOK
<1> QED
  BY <1>5 DEF AdoptLanded, TypeOK, NodeTypeOK, nodeVars, Op

\* A pending transaction's new nonce and the sort keep the types.
LEMMA ReassignPendingType ==
  ASSUME TypeOK, ReassignPending
  PROVE  TypeOK'
<1> DEFINE f == [i \in 1..Len(pendq) |-> Renumbered(pendq[i], op.tx.id)]
           S == {f[i] : i \in 1..Len(pendq)}
<1>1. op.tx \in Entry
  BY OperationType DEF ReassignPending, At
<1>2. db' \in [TxId -> Row] /\ nm' \in Nat
  BY <1>1, PersistThenAdvanceNonceType DEF ReassignPending
<1>3. Len(pendq) \in Nat /\ DOMAIN pendq = 1..Len(pendq)
  BY DEF TypeOK
<1>4. \A i \in 1..Len(pendq) : Renumbered(pendq[i], op.tx.id) \in Entry
  <2>1. \A i \in 1..Len(pendq) : pendq[i] \in Entry
    BY DEF TypeOK
  <2>2. \A e \in Entry : Renumbered(e, op.tx.id) \in Entry
    BY RecoveredNonceType DEF Renumbered, Entry
  <2> QED
    BY <2>1, <2>2
<1>5. S \subseteq Entry
  BY <1>4
<1>6. IsFiniteSet(S)
  <2>1. IsFiniteSet(1..Len(pendq))
    BY <1>3, FS_Interval
  <2> HIDE DEF f
  <2> QED
    BY <2>1, ImageFinite
<1>7. S = {Renumbered(pendq[i], op.tx.id) : i \in DOMAIN pendq}
  BY <1>3
<1>8. pendq' \in EntriesByNonce(S)
  BY <1>7 DEF ReassignPending
<1> HIDE DEF S
<1>9. pendq' \in Seq(Entry)
  BY <1>5, <1>6, <1>8, EntriesByNonceType
<1> QED
  BY <1>2, <1>9 DEF ReassignPending, TypeOK, NodeTypeOK, nodeVars, Op

\* An in-mempool transaction's new nonce keeps the types.
LEMMA ReassignInmempoolType ==
  ASSUME TypeOK, ReassignInmempool
  PROVE  TypeOK'
<1>1. op.tx \in Entry /\ op.tx.id \in TxId
  BY OperationType DEF ReassignInmempool, At
<1>2. db' \in [TxId -> Row] /\ nm' \in Nat
  BY <1>1, PersistThenAdvanceNonceType DEF ReassignInmempool
<1>3. inq' \in Seq(Contest)
  <2>1. /\ Len(inq) \in Nat
        /\ inq \in [1..Len(inq) -> Contest]
    BY DEF TypeOK
  <2> DEFINE e == [Active(inq[1]) EXCEPT !.nonce = RecoveredNonce]
  <2>2. 1 \in 1..Len(inq) => e \in Entry
    <3>1. \A a \in Entry : [a EXCEPT !.nonce = RecoveredNonce] \in Entry
      BY RecoveredNonceType DEF Entry
    <3> QED
      BY <2>1, <3>1, ActiveType
  <2>3. 1 \in 1..Len(inq) => WithTx(inq[1], e) \in Contest
    BY <2>1, <2>2, ActiveType
  <2>4. inq' = [inq EXCEPT ![1] = WithTx(inq[1], e)]
    BY DEF ReassignInmempool
  <2> HIDE DEF e
  <2>5. inq' \in [1..Len(inq) -> Contest]
    BY <2>1, <2>3, <2>4
  <2> QED
    BY <2>1, <2>5, FunctionIsSequence
<1>4. moved' \subseteq TxId
  BY <1>1 DEF ReassignInmempool, TypeOK
<1> QED
  BY <1>2, <1>3, <1>4 DEF ReassignInmempool, TypeOK, NodeTypeOK, nodeVars, Op

\* A handler that returns early keeps the types.
LEMMA StepFailsType ==
  ASSUME TypeOK, StepFails
  PROVE  TypeOK'
<1>1. left' \in [Fault -> Nat]
  BY SpendType DEF StepFails, TypeOK, Fault
<1> QED
  BY <1>1 DEF StepFails, TypeOK, NodeTypeOK, rowVars, queueVars, Op

\* move_inmempool_to_mining keeps the types of both queues.
LEMMA MoveInmempoolToMiningType ==
  ASSUME TypeOK, inq # <<>>, NEW s \in Status, MoveInmempoolToMining(s)
  PROVE  inq' \in Seq(Contest) /\ minedq' \subseteq TxId
<1>1. Active(Head(inq)) \in Entry /\ Tail(inq) \in Seq(Contest)
  BY HeadOfInmempoolType
<1>2. Active(Head(inq)).id \in TxId
  BY <1>1 DEF Entry
<1> QED
  BY <1>1, <1>2 DEF MoveInmempoolToMining, TypeOK

\* A receipt gives one of three statuses.
LEMMA OutcomeType ==
  ASSUME NEW c, NEW ok
  PROVE  Outcome(c, ok) \in {"MINED", "FAILED", "EXPIRED"}
  BY DEF Outcome

\* What is written for a winner is an entry.
LEMMA ResolvedType ==
  ASSUME TypeOK, NEW e \in Entry, NEW s \in {"MINED", "FAILED", "EXPIRED"}
  PROVE  Resolved(e, s) \in Entry
<1>1. db[e.id].tx \in Entry
  BY DEF TypeOK, Entry, Row
<1>2. CASE s = "MINED"
  <2>1. [db[e.id].tx EXCEPT !.payload = e.payload, !.nonce = e.nonce, !.hash = e.hash] \in Entry
    BY <1>1 DEF Entry
  <2> QED
    BY <1>2, <2>1 DEF Resolved
<1>3. CASE s = "FAILED"
  <2>1. [db[e.id].tx EXCEPT !.failed = TRUE] \in Entry
    BY <1>1 DEF Entry
  <2> QED
    BY <1>3, <2>1 DEF Resolved
<1>4. CASE s = "EXPIRED"
  BY <1>1, <1>4 DEF Resolved
<1> QED
  BY <1>2, <1>3, <1>4

\* What is written for the original of a decided contest is an entry.
LEMMA LoserType ==
  ASSUME NEW c \in Contest, c.comp # None
  PROVE  /\ Loser(c) \in Entry
         /\ c.kind \in {"cancel", "replace"}
<1>1. c.orig \in Entry /\ c.comp \in Entry /\ c.kind \in {"cancel", "replace"}
  BY DEF Contest
<1>2. c.comp.id \in TxId
  BY <1>1 DEF Entry
<1>3. [c.orig EXCEPT !.payload = Noop, !.by = c.comp.id] \in Entry
  BY <1>1, <1>2 DEF Entry, Payload
<1> QED
  BY <1>1, <1>3 DEF Loser

\* A bump that finds its hash mined keeps the types.
LEMMA ConflictMinedType ==
  ASSUME TypeOK, ConflictMined
  PROVE  TypeOK'
  BY DEF ConflictMined, TypeOK, NodeTypeOK, nodeVars, rowVars, queueVars, Op

\* A receipt read by process_single_inmempool keeps the types.
LEMMA ResolveReceiptType ==
  ASSUME TypeOK, ResolveReceipt
  PROVE  TypeOK'
<1> DEFINE c == Head(inq)
           a == Active(c)
<1>1. /\ inq # <<>>
      /\ UNCHANGED <<audit, pendq, nm, boot, expired, moved, nodeVars>>
  BY DEF ResolveReceipt
<1>2. PICK b \in Receipts :
        LET s == Outcome(c, b.ok)
        IN  /\ MoveInmempoolToMining(s)
            /\ SaveTransaction(Resolved(a, s), s)
            /\ op' = IF s = "MINED" /\ c.comp # None
                     THEN [at |-> "settling", kind |-> c.kind, tx |-> Loser(c)]
                     ELSE Idle
  BY DEF ResolveReceipt
<1>3. c \in Contest /\ a \in Entry
  BY <1>1, HeadOfInmempoolType
<1> DEFINE s == Outcome(c, b.ok)
<1>4. s \in {"MINED", "FAILED", "EXPIRED"}
  BY OutcomeType
<1>5. /\ MoveInmempoolToMining(s)
      /\ SaveTransaction(Resolved(a, s), s)
      /\ op' = IF s = "MINED" /\ c.comp # None
               THEN [at |-> "settling", kind |-> c.kind, tx |-> Loser(c)]
               ELSE Idle
  BY <1>2
<1> HIDE DEF s
<1>6. inq' \in Seq(Contest) /\ minedq' \subseteq TxId
  BY <1>1, <1>4, <1>5, MoveInmempoolToMiningType DEF Status
<1>7. db' \in [TxId -> Row]
  <2> HIDE DEF a
  <2>1. Resolved(a, s) \in Entry
    BY <1>3, <1>4, ResolvedType
  <2> QED
    BY <1>4, <1>5, <2>1, SaveTransactionType DEF Status
<1>8. op' \in Op
  <2> HIDE DEF c
  <2>1. c.comp # None => Loser(c) \in Entry /\ c.kind \in {"cancel", "replace"}
    BY <1>3, LoserType
  <2> QED
    BY <1>5, <2>1 DEF Op
<1> QED
  BY <1>1, <1>6, <1>7, <1>8 DEF TypeOK, NodeTypeOK, nodeVars

\* A receipt whose row cannot be written keeps the types.
LEMMA ResolveReceiptUnsavedType ==
  ASSUME TypeOK, ResolveReceiptUnsaved
  PROVE  TypeOK'
<1>1. PICK b \in Receipts : MoveInmempoolToMining(Outcome(Head(inq), b.ok))
  BY DEF ResolveReceiptUnsaved
<1>2. Outcome(Head(inq), b.ok) \in Status
  BY OutcomeType DEF Status
<1>3. inq' \in Seq(Contest) /\ minedq' \subseteq TxId
  BY <1>1, <1>2, MoveInmempoolToMiningType DEF ResolveReceiptUnsaved
<1>4. left' \in [Fault -> Nat]
  BY SpendType DEF ResolveReceiptUnsaved, TypeOK, Fault
<1> QED
  BY <1>3, <1>4 DEF ResolveReceiptUnsaved, TypeOK, NodeTypeOK, rowVars

\* The write of a contest's loser keeps the types.
LEMMA SettleLoserType ==
  ASSUME TypeOK, SettleLoser
  PROVE  TypeOK'
<1>1. op.tx \in Entry
  BY OperationType DEF SettleLoser, At
<1>2. db' \in [TxId -> Row]
  BY <1>1, SaveTransactionType DEF SettleLoser, Status
<1> QED
  BY <1>2 DEF SettleLoser, TypeOK, NodeTypeOK, nodeVars, queueVars, Op

\* process_single_mined keeps the types.
LEMMA ConfirmType ==
  ASSUME TypeOK, NEW t \in TxId, Confirm(t)
  PROVE  TypeOK'
<1>1. db' \in [TxId -> Row]
  BY SetStatusType DEF Confirm, Status
<1> QED
  BY <1>1 DEF Confirm, MoveMiningToConfirmed, TypeOK, NodeTypeOK, nodeVars

\* A crash keeps the types.
LEMMA CrashType ==
  ASSUME TypeOK, Crash
  PROVE  TypeOK'
<1>1. left' \in [Fault -> Nat]
  BY SpendType DEF Crash, TypeOK, Fault
<1> QED
  BY <1>1 DEF Crash, TypeOK, NodeTypeOK, rowVars, Op

-----------------------------------------------------------------------------
(***************************************************************************)
(* Startup keeps the types.                                                 *)
(***************************************************************************)
\* A startup that fails, and the process started again: no queue before, no queue after.
Setback == StartupFails \/ StartAgain

\* All that a setback changes is the rows recovered before it.
LEMMA SetbackEffect ==
  ASSUME TypeOK, Setback
  PROVE  /\ boot # "online" /\ boot' \in {"down", "offline"}
         /\ UNCHANGED <<audit, pendq, inq, minedq, nm, op, expired, moved, chain, pool, stray>>
         /\ UNCHANGED left \/ Spend("db") \/ Spend("rpc")
         /\ \E done \in SUBSET Recoverable :
              db' = [t \in TxId |-> IF t \in done THEN RepairedRow(t) ELSE db[t]]
<1>1. db = [t \in TxId |-> db[t]]
  BY DEF TypeOK
<1>2. UNCHANGED db =>
        db' = [t \in TxId |-> IF t \in {} THEN RepairedRow(t) ELSE db[t]]
  BY <1>1
<1>3. {} \in SUBSET Recoverable
  OBVIOUS
<1>4. CASE PoisonedUnrepaired
  BY <1>2, <1>3, <1>4 DEF PoisonedUnrepaired, StaysOffline, queueVars
<1>5. CASE AttemptsUnrepaired
  BY <1>5 DEF AttemptsUnrepaired, StaysOffline, queueVars
<1>6. CASE LoadFails
  BY <1>2, <1>3, <1>6 DEF LoadFails, rowVars, queueVars
<1>7. CASE StartAgain
  BY <1>2, <1>3, <1>7 DEF StartAgain, rowVars, queueVars, nodeVars
<1> QED
  BY <1>4, <1>5, <1>6, <1>7 DEF Setback, StartupFails

\* A row that a setback changes was pending, and an attempt of it has landed.
LEMMA SetbackRow ==
  ASSUME TypeOK, Setback, NEW t \in TxId, db'[t] # db[t]
  PROVE  /\ t \in With("PENDING") /\ db[t].tx.hash # None /\ ~db[t].tx.failed
         /\ FirstLanded(t) # None /\ db'[t] = RepairedRow(t)
  BY SetbackEffect DEF Recoverable

\* The repair of poisoned rows keeps the types.
LEMMA RepairPoisonedType ==
  ASSUME TypeOK, RepairPoisoned
  PROVE  TypeOK'
<1>1. \A t \in TxId : db[t] \in Row /\ [db[t] EXCEPT !.status = "FAILED"] \in Row
  BY DEF TypeOK, Row, Status
<1>2. db' \in [TxId -> Row]
  BY <1>1 DEF RepairPoisoned
<1> QED
  BY <1>2 DEF RepairPoisoned, TypeOK, NodeTypeOK, nodeVars, queueVars

\* A row repaired from its recorded attempts is a row.
LEMMA RepairedRowType ==
  ASSUME TypeOK, NEW t \in TxId
  PROVE  RepairedRow(t) \in Row
<1>1. db[t] \in Row /\ db[t].tx \in Entry
  BY DEF TypeOK, Row
<1>2. FirstLanded(t) \in Hash \cup {None}
  BY FirstLandedType
<1>3. [db[t].tx EXCEPT !.hash = FirstLanded(t)] \in Entry
  BY <1>1, <1>2 DEF Entry
<1>4. [db[t].tx EXCEPT !.failed = TRUE] \in Entry
  BY <1>1 DEF Entry
<1> QED
  BY <1>1, <1>3, <1>4 DEF RepairedRow, Row, Status

\* The repair of recorded attempts keeps the types.
LEMMA RepairAttemptsType ==
  ASSUME TypeOK, RepairAttempts
  PROVE  TypeOK'
<1>1. db' \in [TxId -> Row]
  BY RepairedRowType DEF RepairAttempts
<1> QED
  BY <1>1 DEF RepairAttempts, TypeOK, NodeTypeOK, nodeVars, queueVars

\* A setback keeps the types.
LEMMA SetbackType ==
  ASSUME TypeOK, Setback
  PROVE  TypeOK'
<1>1. db' \in [TxId -> Row]
  <2>1. \A t \in TxId : RepairedRow(t) \in Row /\ db[t] \in Row
    BY RepairedRowType DEF TypeOK
  <2> QED
    BY <2>1, SetbackEffect
<1>2. left' \in [Fault -> Nat]
  <2>1. NodeTypeOK /\ "db" \in Fault /\ "rpc" \in Fault
    BY DEF TypeOK, Fault
  <2>2. UNCHANGED left \/ Spend("db") \/ Spend("rpc")
    BY SetbackEffect
  <2>3. left \in [Fault -> Nat]
    BY <2>1 DEF NodeTypeOK
  <2> QED
    BY <2>1, <2>2, <2>3, SpendType
<1> QED
  BY <1>1, <1>2, SetbackEffect DEF TypeOK, NodeTypeOK

\* The rows of the queues are finitely many entries.
LEMMA RowsType ==
  ASSUME TypeOK, NEW s
  PROVE  /\ {db[t].tx : t \in With(s)} \subseteq Entry
         /\ IsFiniteSet({db[t].tx : t \in With(s)})
<1> DEFINE f == [t \in TxId |-> db[t].tx]
<1>1. With(s) \subseteq TxId /\ IsFiniteSet(With(s))
  BY NodeAssumption, FS_Subset DEF With
<1>2. \A t \in With(s) : f[t] = db[t].tx /\ f[t] \in Entry
  BY <1>1 DEF TypeOK, Row
<1>3. {f[t] : t \in With(s)} = {db[t].tx : t \in With(s)}
  BY <1>2
<1>4. IsFiniteSet({f[t] : t \in With(s)})
  <2> HIDE DEF f
  <2> QED
    BY <1>1, ImageFinite
<1> QED
  BY <1>2, <1>3, <1>4

\* A contest is rebuilt from the rows of its two sides.
LEMMA ContestOfType ==
  ASSUME TypeOK, NEW e \in LiveEntries
  PROVE  /\ ContestOf(e) \in Contest
         /\ ContestOf(e).orig \in LiveEntries
         /\ ContestOf(e).comp \in LiveEntries \cup {None}
<1>1. LiveEntries \subseteq Entry
  BY RowsType DEF LiveEntries
<1>2. CASE RivalsOf(e) = {}
  BY <1>1, <1>2 DEF ContestOf, Alone, Contest
<1>3. CASE RivalsOf(e) # {}
  <2> DEFINE r == CHOOSE r \in RivalsOf(e) : TRUE
  <2>1. r \in RivalsOf(e)
    BY <1>3
  <2>2. r \in LiveEntries
    BY <2>1 DEF RivalsOf
  <2>3. ContestOf(e)
          = [orig |-> e, comp |-> r, kind |-> IF r.payload = Noop THEN "cancel" ELSE "replace"]
    BY <1>3 DEF ContestOf
  <2> HIDE DEF r
  <2> QED
    BY <1>1, <2>2, <2>3 DEF Contest
<1> QED
  BY <1>2, <1>3

\* The in-mempool rows make finitely many contests.
LEMMA ContestsType ==
  ASSUME TypeOK
  PROVE  /\ Contests \subseteq Contest
         /\ IsFiniteSet(Contests)
<1> DEFINE S == {e \in LiveEntries : \A o \in LiveEntries : o.by # e.id}
           f == [e \in LiveEntries |-> ContestOf(e)]
<1>1. IsFiniteSet(S)
  <2>1. IsFiniteSet(LiveEntries)
    BY RowsType DEF LiveEntries
  <2> QED
    BY <2>1, FS_Subset
<1>2. Contests = {f[e] : e \in S}
  BY DEF Contests
<1>3. IsFiniteSet({f[e] : e \in S})
  <2> HIDE DEF f, S
  <2> QED
    BY <1>1, ImageFinite
<1>4. Contests \subseteq Contest
  BY ContestOfType DEF Contests
<1> QED
  BY <1>2, <1>3, <1>4

\* Startup collects nonces.
LEMMA QueuedNoncesType ==
  ASSUME TypeOK
  PROVE  QueuedNonces \subseteq Nat
<1>1. \A e \in PendingEntries : e.nonce \in Nat
  <2>1. PendingEntries \subseteq Entry
    BY RowsType DEF PendingEntries
  <2> QED
    BY <2>1 DEF Entry
<1>2. \A c \in Contests : c.orig.nonce \in Nat /\ (c.comp # None => c.comp.nonce \in Nat)
  BY ContestsType DEF Contest, Entry
<1> QED
  BY <1>1, <1>2 DEF QueuedNonces

\* The rebuilt queues and nonce manager have their types.
LEMMA LoadQueuesType ==
  ASSUME TypeOK, LoadQueues
  PROVE  TypeOK'
<1>1. pendq' \in Seq(Entry)
  BY RowsType, EntriesByNonceType DEF LoadQueues, PendingEntries
<1>2. inq' \in Seq(Contest)
  BY ContestsType, ContestsByNonceType DEF LoadQueues
<1>3. nm' \in Nat
  BY PendingNonceType, QueuedNoncesType, EffectiveStartupNonceType DEF LoadQueues, TypeOK
<1>4. minedq' \subseteq TxId
  BY DEF LoadQueues, With
<1> QED
  BY <1>1, <1>2, <1>3, <1>4 DEF LoadQueues, TypeOK, NodeTypeOK, nodeVars, rowVars

\* A deadline that passes keeps the types.
LEMMA ExpireType ==
  ASSUME TypeOK, NEW t \in TxId, Expire(t)
  PROVE  TypeOK'
<1>1. left' \in [Fault -> Nat]
  BY SpendType DEF Expire, TypeOK, Fault
<1> QED
  BY <1>1 DEF Expire, TypeOK, NodeTypeOK, rowVars, queueVars

\* The network's own steps keep the types.
LEMMA NetworkType ==
  ASSUME TypeOK, Network
  PROVE  TypeOK'
<1>1. NodeTypeOK'
  BY NodeStepType DEF Network, TypeOK
<1> QED
  BY <1>1 DEF Network, TypeOK, rowVars, queueVars

-----------------------------------------------------------------------------
(***************************************************************************)
(* Type correctness.                                                        *)
(***************************************************************************)
\* The relayer starts with empty queues, an empty table and a fresh account.
LEMMA InitType ==
  ASSUME Init
  PROVE  TypeOK
<1>1. \A t \in TxId : NoRow(t) \in Row
  BY DEF NoRow, Row, Emptied, NewEntry, Entry, Payload
<1>2. NodeTypeOK
  BY NodeAssumption, FS_EmptySet DEF Init, NodeInit, NodeTypeOK
<1> QED
  BY <1>1, <1>2 DEF Init, TypeOK, Op

\* Every step keeps the types.  Only Deliver needs more than the types: the hash it
\* hands to the node is a recorded attempt, hence a signed transaction.
LEMMA NextType ==
  ASSUME TypeOK, InFlightRecorded, [Next]_vars
  PROVE  TypeOK'
<1>1. CASE \E t \in TxId : Api(t) \/ Expire(t)
  BY <1>1, ApiType, ExpireType
<1>2. CASE Loops
  BY <1>2, SendPendingType, EstimateRejectsType, BumpGasType, ResolveReceiptType,
     ResolveReceiptUnsavedType, ConfirmType DEF Loops
<1>3. CASE Continue
  BY <1>3, DeliverType, MarkPendingSentType, MarkBumpSentType, MarkRivalSentType,
     LinkRivalType, CloseOutType, AdoptLandedType, ReassignPendingType, ConflictMinedType,
     ReassignInmempoolType, StepFailsType, SettleLoserType DEF Continue
<1>4. CASE Crash
  BY <1>4, CrashType
<1>5. CASE Startup
  BY <1>5, RepairPoisonedType, RepairAttemptsType, LoadQueuesType DEF Startup
<1>6. CASE Network
  BY <1>6, NetworkType
<1>7. CASE UNCHANGED vars
  BY <1>7 DEF vars, TypeOK, NodeTypeOK
<1>8. CASE StartupFails \/ StartAgain
  BY <1>8, SetbackType DEF Setback
<1> QED
  BY <1>1, <1>2, <1>3, <1>4, <1>5, <1>6, <1>7, <1>8 DEF Next

-----------------------------------------------------------------------------
(***************************************************************************)
(* The record comes before the broadcast.                                   *)
(***************************************************************************)
Recorded(h) == \E t \in TxId : \E i \in DOMAIN audit[t] : audit[t][i] = h

\* Every hash the network has or had.
Out == pool \cup stray \cup {b.hash : b \in Receipts}

\* Only the start of a send writes the audit log, and only it puts an attempt in flight.
LEMMA OnlySendsRecord ==
  ASSUME TypeOK, [Next]_vars
  PROVE  \/ UNCHANGED audit /\ (op'.at = "persisted" => op' = op)
         \/ \E e \in Entry, s \in Status, k \in Kind, n \in Nat : Send(e, s, k, n)
<1> DEFINE Quiet == UNCHANGED audit /\ (op'.at = "persisted" => op' = op)
           Starts == \E e \in Entry, s \in Status, k \in Kind, n \in Nat : Send(e, s, k, n)
<1>1. ASSUME NEW t \in TxId, Api(t)
      PROVE  Quiet \/ Starts
  <2>1. CASE Admit(t) \/ AdmitUnestimable(t) \/ AdmitUnsaved(t)
    BY <2>1 DEF Admit, AdmitUnestimable, AdmitUnsaved, rowVars
  <2>2. CASE CancelPending(t) \/ ReplacePending(t)
    BY <2>2 DEF CancelPending, ReplacePending, EditPending
  <2>3. CASE CancelInmempool(t) \/ ReplaceInmempool(t)
    <3>1. PICK k \in {"cancel", "replace"} : SendRival(t, k)
      BY <2>3 DEF CancelInmempool, ReplaceInmempool
    <3>2. PICK e \in Entry, n \in Nat : Send(e, "PENDING", k, n)
      BY <3>1, SendRivalSends
    <3> QED
      BY <3>2 DEF Status, Kind
  <2> QED
    BY <1>1, <2>1, <2>2, <2>3 DEF Api
<1>2. ASSUME Loops
      PROVE  Quiet \/ Starts
  <2>1. CASE SendPending
    <3>1. Head(pendq) \in Entry /\ LastGas(Head(pendq)) \in Nat
      BY <2>1, PricesType DEF SendPending, TypeOK
    <3> QED
      BY <2>1, <3>1 DEF SendPending, Status, Kind
  <2>2. CASE BumpGas
    <3> DEFINE a == Active(Head(inq))
    <3>1. inq # <<>> /\ a.hash # None /\ Send(a, "INMEMPOOL", "bump", a.hash.gas)
      BY <2>2 DEF BumpGas
    <3>2. a \in Entry
      BY <3>1, HeadOfInmempoolType
    <3> HIDE DEF a
    <3>3. a.hash.gas \in Nat
      BY <3>1, <3>2 DEF Entry, Hash
    <3> QED
      BY <3>1, <3>2, <3>3 DEF Status, Kind
  <2>3. CASE EstimateRejects
    BY <2>3 DEF EstimateRejects, rowVars
  <2>4. CASE ResolveReceipt
    BY <2>4 DEF ResolveReceipt, Idle
  <2>5. CASE ResolveReceiptUnsaved \/ \E t \in TxId : Confirm(t)
    BY <2>5 DEF ResolveReceiptUnsaved, Confirm, rowVars
  <2> QED
    BY <1>2, <2>1, <2>2, <2>3, <2>4, <2>5 DEF Loops
<1>3. ASSUME Continue
      PROVE  Quiet
  <2>1. CASE Deliver
    <3>1. op \in [at : Stage, kind : Kind, tx : Entry]
      BY <2>1, OperationType DEF Deliver, At
    <3>2. PICK r \in {"accepted", "conflict", "rejected"} : op' \in {[op EXCEPT !.at = r], Idle}
      BY <2>1 DEF Deliver
    <3>3. op'.at # "persisted"
      BY <3>1, <3>2 DEF Idle
    <3> QED
      BY <2>1, <3>3 DEF Deliver, rowVars
  <2>2. CASE MarkRivalSent
    <3>1. op \in [at : Stage, kind : Kind, tx : Entry]
      BY <2>2, OperationType DEF MarkRivalSent, At
    <3> QED
      BY <2>2, <3>1 DEF MarkRivalSent
  <2>3. CASE \/ MarkPendingSent \/ MarkBumpSent \/ LinkRival \/ CloseOut \/ AdoptLanded
             \/ ReassignPending \/ ConflictMined \/ ReassignInmempool \/ StepFails \/ SettleLoser
    BY <2>3 DEF MarkPendingSent, MarkBumpSent, LinkRival, CloseOut, AdoptLanded,
       ReassignPending, ConflictMined, ReassignInmempool, StepFails, SettleLoser, rowVars, Idle
  <2> QED
    BY <1>3, <2>1, <2>2, <2>3 DEF Continue
<1>4. ASSUME Crash \/ Startup \/ Network \/ UNCHANGED vars \/ \E t \in TxId : Expire(t)
      PROVE  Quiet
  BY <1>4 DEF Crash, Startup, RepairPoisoned, RepairAttempts, LoadQueues, Network, Expire,
     rowVars, vars, Idle
<1>5. ASSUME Setback
      PROVE  Quiet
  BY <1>5, SetbackEffect
<1> QED
  BY <1>1, <1>2, <1>3, <1>4, <1>5 DEF Next, Setback

\* A record is never removed.
LEMMA RecordsStay ==
  ASSUME TypeOK, [Next]_vars, NEW h, Recorded(h)
  PROVE  Recorded(h)'
<1>1. CASE UNCHANGED audit
  BY <1>1 DEF Recorded
<1>2. CASE \E e \in Entry, s \in Status, k \in Kind, n \in Nat : Send(e, s, k, n)
  <2>1. PICK e \in Entry, s \in Status, k \in Kind, n \in Nat : Send(e, s, k, n)
    BY <1>2
  <2>2. PICK gas \in Prices(n) : RecordAttempt(Signed(e, gas), s)
    BY <2>1 DEF Send
  <2>3. Signed(e, gas) \in Entry
    BY PricesType, SignedType
  <2> QED
    BY <2>2, <2>3, RecordAttemptRecords DEF Recorded
<1> QED
  BY <1>1, <1>2, OnlySendsRecord

\* What is in flight towards the node stays on record.
LEMMA InFlightStays ==
  ASSUME TypeOK, InFlightRecorded, [Next]_vars
  PROVE  InFlightRecorded'
<1>1. CASE UNCHANGED audit /\ (op'.at = "persisted" => op' = op)
  BY <1>1 DEF InFlightRecorded
<1>2. CASE \E e \in Entry, s \in Status, k \in Kind, n \in Nat : Send(e, s, k, n)
  <2>1. PICK e \in Entry, s \in Status, k \in Kind, n \in Nat : Send(e, s, k, n)
    BY <1>2
  <2>2. PICK gas \in Prices(n) :
          /\ RecordAttempt(Signed(e, gas), s)
          /\ op' = [at |-> "persisted", kind |-> k, tx |-> Signed(e, gas)]
    BY <2>1 DEF Send
  <2>3. Signed(e, gas) \in Entry
    BY PricesType, SignedType
  <2>4. op'.tx = Signed(e, gas)
    BY <2>2
  <2>5. \E i \in DOMAIN audit'[Signed(e, gas).id] :
          audit'[Signed(e, gas).id][i] = Signed(e, gas).hash
    BY <2>2, <2>3, RecordAttemptRecords
  <2> QED
    BY <2>4, <2>5 DEF InFlightRecorded
<1> QED
  BY <1>1, <1>2, OnlySendsRecord

\* On its own the network only moves hashes about.
LEMMA NodeStepOut ==
  ASSUME NodeTypeOK, NodeStep
  PROVE  Out' \subseteq Out \cup {None}
<1>1. ASSUME NEW b \in Block, Include(b)
      PROVE  Out' \subseteq Out \cup {b.hash}
  <2>1. Receipts' = Receipts \cup {b}
    BY <1>1 DEF Include, Receipts, NodeTypeOK
  <2>2. pool' \subseteq pool /\ stray' \subseteq stray
    BY <1>1 DEF Include
  <2> QED
    BY <2>1, <2>2 DEF Out
<1>2. ASSUME NEW h \in pool \cup stray, NEW ok \in BOOLEAN, Include([hash |-> h, ok |-> ok])
      PROVE  Out' \subseteq Out
  <2>1. [hash |-> h, ok |-> ok] \in Block
    BY DEF NodeTypeOK, Block
  <2>2. Out' \subseteq Out \cup {[hash |-> h, ok |-> ok].hash}
    BY <1>1, <1>2, <2>1
  <2> QED
    BY <2>2 DEF Out
<1>3. CASE Mine \/ MineReverted \/ MineStray
  BY <1>2, <1>3 DEF Mine, MineReverted, MineStray
<1>4. CASE MineExternal
  <2>1. [hash |-> None, ok |-> TRUE] \in Block
    BY DEF Block
  <2>2. Out' \subseteq Out \cup {[hash |-> None, ok |-> TRUE].hash}
    BY <1>1, <1>4, <2>1 DEF MineExternal
  <2> QED
    BY <2>2
<1>5. CASE Evict
  BY <1>5 DEF Evict, Strays, Out, Receipts
<1> QED
  BY <1>3, <1>4, <1>5 DEF NodeStep

\* An answer adds at most the hash that was sent.
LEMMA BroadcastOut ==
  ASSUME NodeTypeOK, NEW h \in Hash, NEW r \in Reply, Broadcast(h, r)
  PROVE  Out' \subseteq Out \cup {h}
<1>1. CASE Pool(h) /\ UNCHANGED chain
  BY <1>1 DEF Pool, Strays, SameNonce, Out, Receipts
<1>2. CASE UNCHANGED <<chain, pool, stray>>
  BY <1>2 DEF Out, Receipts
<1> QED
  BY <1>1, <1>2 DEF Broadcast, nodeVars

\* Nothing but the node's own steps and a broadcast changes what is out.
LEMMA OnlyDeliverSends ==
  ASSUME TypeOK, InFlightRecorded, [Next]_vars
  PROVE  \A h \in Out' : h \in Out \/ h = None \/ Recorded(h)
<1>1. CASE Network
  BY <1>1, NodeStepOut DEF Network, TypeOK
<1>2. CASE Deliver
  <2>1. op.tx.hash \in Hash
    BY <1>2, InFlightHash DEF Deliver, At
  <2>2. Recorded(op.tx.hash)
    BY <1>2, OperationType DEF InFlightRecorded, Recorded, Deliver, At
  <2>3. PICK r \in Reply : Broadcast(op.tx.hash, r)
    BY <1>2 DEF Deliver
  <2>4. Out' \subseteq Out \cup {op.tx.hash}
    BY <2>1, <2>3, BroadcastOut DEF TypeOK
  <2> QED
    BY <2>2, <2>4
<1>3. ASSUME UNCHANGED <<chain, pool, stray>>
      PROVE  Out' = Out
  BY <1>3 DEF Out, Receipts
<1>4. CASE \E t \in TxId : Api(t) \/ Expire(t)
  BY <1>3, <1>4 DEF Api, Admit, AdmitUnestimable, AdmitUnsaved, CancelPending, ReplacePending,
     CancelInmempool, ReplaceInmempool, SendRival, EditPending, Send, Expire, nodeVars
<1>5. CASE Loops
  BY <1>3, <1>5 DEF Loops, SendPending, EstimateRejects, BumpGas, ResolveReceipt,
     ResolveReceiptUnsaved, Confirm, Send, nodeVars
<1>6. CASE Continue
  BY <1>2, <1>3, <1>6 DEF Continue, MarkPendingSent, MarkBumpSent, MarkRivalSent, LinkRival,
     CloseOut, AdoptLanded, ReassignPending, ConflictMined, ReassignInmempool, StepFails,
     SettleLoser, nodeVars
<1>7. CASE Crash \/ Startup \/ UNCHANGED vars
  BY <1>3, <1>7 DEF Crash, Startup, RepairPoisoned, RepairAttempts, LoadQueues, vars, nodeVars
<1>8. CASE Setback
  BY <1>3, <1>8, SetbackEffect
<1> QED
  BY <1>1, <1>4, <1>5, <1>6, <1>7, <1>8 DEF Next, Setback

\* Whatever a step puts out was on record, and what was on record stays there.
LEMMA WriteAheadStays ==
  ASSUME TypeOK, InFlightRecorded, WriteAhead, [Next]_vars
  PROVE  WriteAhead'
<1>1. \A h \in Out : h # None => Recorded(h)
  BY DEF WriteAhead, Out, Recorded
<1>2. \A h \in Out' : h # None => Recorded(h)
  BY <1>1, OnlyDeliverSends
<1>3. \A h \in Out' : h # None => Recorded(h)'
  BY <1>2, RecordsStay
<1> QED
  BY <1>3 DEF WriteAhead, Out, Recorded

\* Every reachable state has the declared types: each statement writes a whole row, each
\* queue holds whole entries, and the nonce counter never drops below zero.
THEOREM Typing == Spec => []TypeOK
<1> DEFINE IInv == TypeOK /\ InFlightRecorded
<1>1. Init => IInv
  BY InitType DEF Init, InFlightRecorded, Idle
<1>2. IInv /\ [Next]_vars => IInv'
  BY NextType, InFlightStays
<1> QED
  BY <1>1, <1>2, PTL DEF Spec

\* persist_and_broadcast writes the hash of an attempt before any byte of it reaches an
\* endpoint, so whatever is pooled, kept elsewhere or mined can be found in the audit log.
THEOREM AttemptsWrittenAhead == Spec => []WriteAhead
<1> DEFINE IInv == TypeOK /\ InFlightRecorded /\ WriteAhead
<1>1. Init => IInv
  <2>1. Init => WriteAhead
    BY DEF Init, NodeInit, WriteAhead, Receipts
  <2> QED
    BY <2>1, InitType DEF Init, InFlightRecorded, Idle
<1>2. IInv /\ [Next]_vars => IInv'
  BY NextType, InFlightStays, WriteAheadStays
<1> QED
  BY <1>1, <1>2, PTL DEF Spec

-----------------------------------------------------------------------------
(***************************************************************************)
(* No nonce in use can be handed out again.                                 *)
(***************************************************************************)
ContestBelow(c, n) == c.orig.nonce < n /\ (c.comp # None => c.comp.nonce < n)

\* The induction: what is in flight counts even while nothing is queued for it, and a
\* process that is down or starting has nothing in flight.
Reserved ==
  /\ \A i \in DOMAIN pendq : pendq[i].nonce < nm
  /\ \A i \in DOMAIN inq : ContestBelow(inq[i], nm)
  /\ op.at # "idle" => op.tx.nonce < nm

ReservedWhileUp == IF boot = "online" THEN Reserved ELSE op = Idle

\* The induction's invariant is about every transaction memory tracks.
LEMMA ReservedImplies ==
  ASSUME TypeOK, ReservedWhileUp
  PROVE  ReservationsProtected
<1>1. op.at = "idle" => op.tx = None
  BY DEF TypeOK, Op, Idle, Stage
<1>2. boot = "online" => \A e \in Queued : e.nonce < nm
  BY DEF ReservedWhileUp, Reserved, ContestBelow, Queued
<1> QED
  BY <1>1, <1>2 DEF ReservationsProtected, ReservedWhileUp, Reserved

\* The counter never drops below a nonce that was below it.
LEMMA CounterGrows ==
  ASSUME NEW next \in Nat, NEW n \in Nat
  PROVE  /\ next <= SyncedWith(next, n)
         /\ next <= AdvancedPast(next, n) /\ n < AdvancedPast(next, n)
         /\ n < Incremented(n)
         /\ Released(Incremented(n), n) = n
  BY DEF SyncedWith, AdvancedPast, Incremented, Released

\* Queues that stay, or lose their front, stay below a counter that does not drop.
LEMMA BelowMonotone ==
  ASSUME TypeOK, NEW m \in Nat, nm <= m
  PROVE  /\ \A i \in DOMAIN pendq : pendq[i].nonce < nm => pendq[i].nonce < m
         /\ \A i \in DOMAIN inq : ContestBelow(inq[i], nm) => ContestBelow(inq[i], m)
         /\ op.at # "idle" /\ op.tx.nonce < nm => op.tx.nonce < m
<1>1. \A i \in DOMAIN pendq : pendq[i].nonce \in Nat
  <2>1. \A i \in DOMAIN pendq : pendq[i] \in Entry
    BY DEF TypeOK
  <2> QED
    BY <2>1 DEF Entry
<1>2. \A c \in Contest : c.orig.nonce \in Nat /\ (c.comp # None => c.comp.nonce \in Nat)
  BY DEF Contest, Entry
<1>3. \A i \in DOMAIN inq : inq[i] \in Contest
  BY DEF TypeOK
<1>4. op.at # "idle" => op.tx.nonce \in Nat
  BY OperationType
<1>5. nm \in Nat
  BY DEF TypeOK
<1> QED
  BY <1>1, <1>2, <1>3, <1>4, <1>5 DEF ContestBelow

\* What an insertion puts in the queue is the new entry or was there.
LEMMA InsertAtElements ==
  ASSUME NEW T, NEW q \in Seq(T), NEW e \in T, NEW i \in 1..(Len(q) + 1),
         NEW k \in DOMAIN InsertAt(q, i, e)
  PROVE  InsertAt(q, i, e)[k] = e \/ \E j \in DOMAIN q : InsertAt(q, i, e)[k] = q[j]
<1> DEFINE a == SubSeq(q, 1, i - 1)
           z == SubSeq(q, i, Len(q))
<1>1. a \in Seq(T) /\ z \in Seq(T) /\ Len(a) = i - 1 /\ Len(z) = Len(q) - i + 1
  OBVIOUS
<1>2. /\ \A j \in 1..(i - 1) : a[j] = q[j]
      /\ \A j \in 1..(Len(q) - i + 1) : z[j] = q[i + j - 1]
  OBVIOUS
<1>3. InsertAt(q, i, e) = (a \o <<e>>) \o z
  BY DEF InsertAt
<1> HIDE DEF a, z
<1>4. k \in 1..(Len(q) + 1)
  BY <1>1, <1>3
<1>5. CASE k < i
  <2>1. InsertAt(q, i, e)[k] = a[k]
    BY <1>1, <1>3, <1>4, <1>5
  <2> QED
    BY <1>2, <1>4, <1>5, <2>1
<1>6. CASE k = i
  BY <1>1, <1>3, <1>6
<1>7. CASE k > i
  <2>1. InsertAt(q, i, e)[k] = z[k - i]
    BY <1>1, <1>3, <1>4, <1>7
  <2> QED
    BY <1>2, <1>4, <1>7, <2>1
<1> QED
  BY <1>4, <1>5, <1>6, <1>7

\* add_pending_transaction adds the new entry and nothing else.
LEMMA InsertByNonceElements ==
  ASSUME NEW q \in Seq(Entry), NEW e \in Entry, NEW k \in DOMAIN InsertByNonce(q, e)
  PROVE  InsertByNonce(q, e)[k] = e \/ \E j \in DOMAIN q : InsertByNonce(q, e)[k] = q[j]
<1> DEFINE before == {i \in 1..Len(q) : \A j \in 1..i : q[j].nonce <= e.nonce}
<1>1. Cardinality(before) + 1 \in 1..(Len(q) + 1)
  BY PositionCount
<1>2. InsertByNonce(q, e) = InsertAt(q, Cardinality(before) + 1, e)
  BY DEF InsertByNonce
<1> HIDE DEF before
<1> QED
  BY <1>1, <1>2, InsertAtElements

\* Admission reserves the nonce it queues.
LEMMA AdmitReserves ==
  ASSUME TypeOK, Reserved, NEW t \in TxId, Admit(t)
  PROVE  Reserved'
<1> DEFINE n == SyncedWith(nm, PendingNonce)
           e == NewEntry(t, n)
<1>1. n \in Nat /\ nm \in Nat /\ nm <= n
  BY PendingNonceType, NonceManagerType, CounterGrows DEF TypeOK
<1>2. e \in Entry /\ e.nonce = n
  <2> HIDE DEF n
  <2> QED
    BY <1>1 DEF NewEntry, Entry, Payload
<1>3. /\ pendq' = InsertByNonce(pendq, e)
      /\ nm' = Incremented(n)
      /\ UNCHANGED <<inq, op>>
  BY DEF Admit
<1> HIDE DEF n, e
<1>4. nm' \in Nat /\ nm <= nm' /\ n < nm'
  BY <1>1, <1>3, NonceManagerType, CounterGrows DEF Incremented
<1>5. \A i \in DOMAIN pendq' : pendq'[i].nonce < nm'
  <2>1. \A i \in DOMAIN pendq : pendq[i].nonce < nm'
    BY <1>4, BelowMonotone DEF Reserved
  <2>2. pendq \in Seq(Entry)
    BY DEF TypeOK
  <2> QED
    BY <1>2, <1>3, <1>4, <2>1, <2>2, InsertByNonceElements
<1>6. \A i \in DOMAIN inq : ContestBelow(inq[i], nm')
  BY <1>4, BelowMonotone DEF Reserved
<1>7. op.at # "idle" => op.tx.nonce < nm'
  BY <1>4, BelowMonotone DEF Reserved
<1> QED
  BY <1>3, <1>5, <1>6, <1>7 DEF Reserved

\* An admission that fails leaves the counter where the chain puts it.
LEMMA AdmitFailsReserves ==
  ASSUME TypeOK, Reserved, NEW t \in TxId, AdmitUnestimable(t) \/ AdmitUnsaved(t)
  PROVE  Reserved'
<1>1. UNCHANGED <<pendq, inq, op>>
  BY DEF AdmitUnestimable, AdmitUnsaved
<1>2. nm' \in Nat /\ nm <= nm'
  <2> DEFINE n == SyncedWith(nm, PendingNonce)
  <2>1. n \in Nat /\ nm <= n
    BY PendingNonceType, NonceManagerType, CounterGrows DEF TypeOK
  <2>2. nm' \in {n, Released(Incremented(n), n)}
    BY DEF AdmitUnestimable, AdmitUnsaved
  <2> HIDE DEF n
  <2> QED
    BY <2>1, <2>2, CounterGrows
<1> QED
  BY <1>1, <1>2, BelowMonotone DEF Reserved

\* A pending entry is edited at its own nonce.
LEMMA EditReserves ==
  ASSUME TypeOK, Reserved, NEW i \in DOMAIN pendq, NEW e \in Entry,
         e.nonce = pendq[i].nonce, EditPending(e)
  PROVE  Reserved'
<1>1. UNCHANGED <<inq, nm, op>> /\ pendq' = Updated(pendq, e)
  BY DEF EditPending
<1>2. \A k \in DOMAIN pendq' : k \in DOMAIN pendq /\ pendq'[k] \in {e, pendq[k]}
  BY <1>1 DEF Updated
<1> QED
  BY <1>1, <1>2 DEF Reserved

\* cancel_transaction and replace_transaction leave a pending entry its nonce.
LEMMA EditPendingReserves ==
  ASSUME TypeOK, Reserved, NEW t \in TxId, CancelPending(t) \/ ReplacePending(t)
  PROVE  Reserved'
<1>1. \A i \in DOMAIN pendq : pendq[i] \in Entry
  BY DEF TypeOK
<1>2. CASE CancelPending(t)
  <2>1. PICK i \in DOMAIN pendq : EditPending(Emptied(pendq[i]))
    BY <1>2 DEF CancelPending
  <2>2. Emptied(pendq[i]) \in Entry /\ Emptied(pendq[i]).nonce = pendq[i].nonce
    BY <1>1 DEF Emptied, Entry, Payload
  <2> QED
    BY <2>1, <2>2, EditReserves
<1>3. CASE ReplacePending(t)
  <2>1. PICK c \in Rival, i \in DOMAIN pendq : EditPending([pendq[i] EXCEPT !.payload = c])
    BY <1>3 DEF ReplacePending
  <2>2. /\ [pendq[i] EXCEPT !.payload = c] \in Entry
        /\ [pendq[i] EXCEPT !.payload = c].nonce = pendq[i].nonce
    BY <1>1 DEF Entry, Payload, Rival
  <2> QED
    BY <2>1, <2>2, EditReserves
<1> QED
  BY <1>2, <1>3

\* A send puts a copy at a queued nonce in flight.
LEMMA SendReserves ==
  ASSUME TypeOK, Reserved, NEW e \in Entry, NEW s \in Status, NEW k \in Kind, NEW n \in Nat,
         Send(e, s, k, n), e.nonce < nm
  PROVE  Reserved'
<1>1. PICK gas \in Prices(n) : op' = [at |-> "persisted", kind |-> k, tx |-> Signed(e, gas)]
  BY DEF Send
<1>2. Signed(e, gas).nonce = e.nonce
  BY PricesType, SignedType
<1>3. op'.tx.nonce < nm
  BY <1>1, <1>2
<1> QED
  BY <1>3 DEF Send, Reserved, queueVars

\* The nonces of the front of the in-mempool queue.
LEMMA FrontBelow ==
  ASSUME TypeOK, Reserved, inq # <<>>
  PROVE  /\ ContestBelow(Head(inq), nm)
         /\ Active(Head(inq)).nonce < nm
<1>1. 1 \in DOMAIN inq /\ inq[1] = Head(inq)
  BY HeadOfInmempoolType
<1> QED
  BY <1>1 DEF Reserved, ContestBelow, Active

\* A queue that loses its front keeps what is behind it.
LEMMA TailReserves ==
  ASSUME TypeOK, Reserved
  PROVE  /\ pendq # <<>> => \A i \in DOMAIN Tail(pendq) : Tail(pendq)[i].nonce < nm
         /\ inq # <<>> => \A i \in DOMAIN Tail(inq) : ContestBelow(Tail(inq)[i], nm)
<1>1. pendq # <<>> =>
        \A i \in DOMAIN Tail(pendq) : i + 1 \in DOMAIN pendq /\ Tail(pendq)[i] = pendq[i + 1]
  BY DEF TypeOK
<1>2. inq # <<>> =>
        \A i \in DOMAIN Tail(inq) : i + 1 \in DOMAIN inq /\ Tail(inq)[i] = inq[i + 1]
  BY DEF TypeOK
<1> QED
  BY <1>1, <1>2 DEF Reserved

\* No call of the API brings a nonce to or above the counter.
LEMMA ApiReserves ==
  ASSUME TypeOK, Reserved, NEW t \in TxId, Api(t)
  PROVE  Reserved'
<1>1. CASE CancelInmempool(t) \/ ReplaceInmempool(t)
  <2>1. PICK k \in {"cancel", "replace"} : SendRival(t, k)
    BY <1>1 DEF CancelInmempool, ReplaceInmempool
  <2>2. PICK i \in DOMAIN inq, e \in Entry, n \in Nat :
          e.nonce = inq[i].orig.nonce /\ Send(e, "PENDING", k, n)
    BY <2>1, SendRivalSends
  <2>3. e.nonce < nm
    BY <2>2 DEF Reserved, ContestBelow
  <2> QED
    BY <2>2, <2>3, SendReserves DEF Status, Kind
<1> QED
  BY <1>1, AdmitReserves, AdmitFailsReserves, EditPendingReserves DEF Api

\* No step a loop starts with brings a nonce to or above the counter.
LEMMA LoopsReserve ==
  ASSUME TypeOK, Reserved, Loops
  PROVE  Reserved'
<1>1. CASE SendPending
  <2>1. /\ Head(pendq) \in Entry /\ LastGas(Head(pendq)) \in Nat
        /\ Head(pendq).nonce < nm
    BY <1>1, PricesType DEF SendPending, TypeOK, Reserved
  <2> QED
    BY <1>1, <2>1, SendReserves DEF SendPending, Status, Kind
<1>2. CASE BumpGas
  <2> DEFINE a == Active(Head(inq))
  <2>1. inq # <<>> /\ a.hash # None /\ Send(a, "INMEMPOOL", "bump", a.hash.gas)
    BY <1>2 DEF BumpGas
  <2>2. a \in Entry /\ a.nonce < nm
    BY <2>1, HeadOfInmempoolType, FrontBelow
  <2> HIDE DEF a
  <2>3. a.hash.gas \in Nat
    BY <2>1, <2>2 DEF Entry, Hash
  <2> QED
    BY <2>1, <2>2, <2>3, SendReserves DEF Status, Kind
<1>3. CASE EstimateRejects
  <2>1. Head(pendq).nonce < nm
    BY <1>3 DEF EstimateRejects, TypeOK, Reserved
  <2> QED
    BY <1>3, <2>1 DEF EstimateRejects, Reserved, queueVars
<1>4. CASE ResolveReceipt
  <2>1. PICK b \in Receipts :
          LET s == Outcome(Head(inq), b.ok)
          IN  /\ inq' = Tail(inq)
              /\ op' = IF s = "MINED" /\ Head(inq).comp # None
                       THEN [at |-> "settling", kind |-> Head(inq).kind, tx |-> Loser(Head(inq))]
                       ELSE Idle
    BY <1>4 DEF ResolveReceipt, MoveInmempoolToMining
  <2>2. inq # <<>> /\ UNCHANGED <<pendq, nm>>
    BY <1>4 DEF ResolveReceipt
  <2>3. Loser(Head(inq)).nonce < nm
    <3>1. Head(inq).orig.nonce < nm
      BY <2>2, FrontBelow DEF ContestBelow
    <3> QED
      BY <3>1 DEF Loser
  <2>4. op'.at # "idle" => op'.tx.nonce < nm
    BY <2>1, <2>3 DEF Idle
  <2> QED
    BY <2>1, <2>2, <2>4, TailReserves DEF Reserved
<1>5. CASE ResolveReceiptUnsaved
  <2>1. inq # <<>> /\ inq' = Tail(inq) /\ UNCHANGED <<pendq, nm, op>>
    BY <1>5 DEF ResolveReceiptUnsaved, MoveInmempoolToMining
  <2> QED
    BY <2>1, TailReserves DEF Reserved
<1>6. CASE \E t \in TxId : Confirm(t)
  BY <1>6 DEF Confirm, Reserved
<1> QED
  BY <1>1, <1>2, <1>3, <1>4, <1>5, <1>6 DEF Loops

\* The copy that was sent enters the in-mempool queue at the nonce it was sent with.
LEMMA MoveReserves ==
  ASSUME TypeOK, Reserved, NEW e \in Entry, e.nonce < nm, MovePendingToInmempool(e),
         nm' = nm, op' = Idle
  PROVE  Reserved'
<1>1. CASE UNCHANGED <<pendq, inq>>
  BY <1>1 DEF Reserved, Idle
<1>2. CASE pendq # <<>> /\ pendq' = Tail(pendq) /\ inq' = Append(inq, Alone(e))
  <2>1. ContestBelow(Alone(e), nm)
    BY DEF Alone, ContestBelow
  <2>2. \A i \in DOMAIN inq' :
          inq'[i] = Alone(e) \/ (i \in DOMAIN inq /\ inq'[i] = inq[i])
    <3>1. inq \in Seq(Contest) /\ Alone(e) \in Contest
      BY DEF TypeOK, Alone, Contest
    <3> QED
      BY <1>2, <3>1
  <2> QED
    BY <1>2, <2>1, <2>2, TailReserves DEF Reserved, Idle
<1> QED
  BY <1>1, <1>2 DEF MovePendingToInmempool

\* An overwrite of the front with an entry below the counter.
LEMMA FrontUpdateReserves ==
  ASSUME TypeOK, NEW m, NEW e, e.nonce < m,
         \A i \in DOMAIN inq : ContestBelow(inq[i], m),
         inq' = [inq EXCEPT ![1] = WithTx(@, e)]
  PROVE  \A i \in DOMAIN inq' : ContestBelow(inq'[i], m)
<1>1. \A c \in Contest : ContestBelow(c, m) => ContestBelow(WithTx(c, e), m)
  <2> SUFFICES ASSUME NEW c \in Contest, ContestBelow(c, m)
               PROVE  ContestBelow(WithTx(c, e), m)
    OBVIOUS
  <2>1. CASE c.orig.id = e.id
    <3>1. WithTx(c, e) = [c EXCEPT !.orig = e]
      BY <2>1 DEF WithTx
    <3>2. [c EXCEPT !.orig = e].orig = e /\ [c EXCEPT !.orig = e].comp = c.comp
      BY DEF Contest
    <3> QED
      BY <3>1, <3>2 DEF ContestBelow
  <2>2. CASE c.orig.id # e.id /\ c.comp # None /\ c.comp.id = e.id
    <3>1. WithTx(c, e) = [c EXCEPT !.comp = e]
      BY <2>2 DEF WithTx
    <3>2. [c EXCEPT !.comp = e].orig = c.orig /\ [c EXCEPT !.comp = e].comp = e
      BY DEF Contest
    <3> QED
      BY <3>1, <3>2 DEF ContestBelow
  <2>3. CASE c.orig.id # e.id /\ ~(c.comp # None /\ c.comp.id = e.id)
    BY <2>3 DEF WithTx
  <2> QED
    BY <2>1, <2>2, <2>3
<1>2. \A i \in DOMAIN inq : inq[i] \in Contest
  BY DEF TypeOK
<1>3. \A i \in DOMAIN inq' : i \in DOMAIN inq /\ inq'[i] \in {inq[i], WithTx(inq[i], e)}
  BY DEF TypeOK
<1> QED
  BY <1>1, <1>2, <1>3

\* A reassigned nonce is reserved by the advance that follows its persistence.
LEMMA ReassignedBelow ==
  ASSUME TypeOK, Reserved, NEW e \in Entry, PersistThenAdvanceNonce(e)
  PROVE  /\ RecoveredNonce < nm'
         /\ \A i \in DOMAIN pendq : pendq[i].nonce < nm'
         /\ \A i \in DOMAIN inq : ContestBelow(inq[i], nm')
<1>1. RecoveredNonce \in Nat /\ nm \in Nat /\ nm' \in Nat
  BY RecoveredNonceType, PersistThenAdvanceNonceType DEF TypeOK
<1>2. nm <= nm' /\ RecoveredNonce < nm'
  BY <1>1, CounterGrows DEF PersistThenAdvanceNonce
<1> QED
  BY <1>1, <1>2, BelowMonotone DEF Reserved

\* A reassigned transaction holds a nonce that the counter has passed.
LEMMA ReassignReserves ==
  ASSUME TypeOK, Reserved, ReassignPending \/ ReassignInmempool
  PROVE  Reserved'
<1>1. op.tx \in Entry /\ PersistThenAdvanceNonce(op.tx) /\ op' = Idle
  BY OperationType DEF ReassignPending, ReassignInmempool, At
<1>2. /\ RecoveredNonce < nm'
      /\ \A i \in DOMAIN pendq : pendq[i].nonce < nm'
      /\ \A i \in DOMAIN inq : ContestBelow(inq[i], nm')
  BY <1>1, ReassignedBelow
<1>3. CASE ReassignPending
  <2> DEFINE S == {Renumbered(pendq[i], op.tx.id) : i \in DOMAIN pendq}
  <2>1. \A i \in DOMAIN pendq : pendq[i] \in Entry
    BY DEF TypeOK
  <2>2. \A e \in S : e.nonce < nm'
    <3>1. \A e \in Entry :
            Renumbered(e, op.tx.id).nonce = IF e.id = op.tx.id THEN RecoveredNonce ELSE e.nonce
      BY DEF Renumbered, Entry
    <3> QED
      BY <1>2, <2>1, <3>1
  <2>3. pendq' \in [1..Cardinality(S) -> S]
    BY <1>3 DEF ReassignPending, EntriesByNonce, SetToSeqs
  <2> HIDE DEF S
  <2>4. \A i \in DOMAIN pendq' : pendq'[i].nonce < nm'
    BY <2>2, <2>3
  <2> QED
    BY <1>1, <1>2, <1>3, <2>4 DEF ReassignPending, Reserved, Idle
<1>4. CASE ReassignInmempool
  <2> DEFINE e == [Active(inq[1]) EXCEPT !.nonce = RecoveredNonce]
  <2>1. inq' = [inq EXCEPT ![1] = WithTx(@, e)]
    BY <1>4 DEF ReassignInmempool
  <2>2. 1 \in DOMAIN inq => e.nonce = RecoveredNonce
    <3>1. 1 \in DOMAIN inq => inq[1] \in Contest
      BY DEF TypeOK
    <3>2. 1 \in DOMAIN inq => Active(inq[1]) \in Entry
      BY <3>1, ActiveType
    <3> QED
      BY <3>2 DEF Entry
  <2> HIDE DEF e
  <2>3. \A i \in DOMAIN inq' : ContestBelow(inq'[i], nm')
    <3>1. CASE 1 \in DOMAIN inq
      BY <1>2, <2>1, <2>2, <3>1, FrontUpdateReserves
    <3>2. CASE 1 \notin DOMAIN inq
      BY <1>2, <2>1, <3>2 DEF TypeOK
    <3> QED
      BY <3>1, <3>2
  <2> QED
    BY <1>1, <1>2, <1>4, <2>3 DEF ReassignInmempool, Reserved, Idle
<1> QED
  BY <1>3, <1>4

\* A linked rival shares the nonce of its original, which is below the counter.
LEMMA LinkReserves ==
  ASSUME TypeOK, Reserved, LinkRival
  PROVE  Reserved'
<1>1. op.tx.nonce < nm /\ op' = Idle /\ UNCHANGED <<pendq, nm>>
  BY DEF LinkRival, Reserved, At
<1>2. PICK i \in DOMAIN inq :
        LET o == [inq[i].orig EXCEPT !.by = op.tx.id]
        IN  inq' = IF i = 1
                   THEN [inq EXCEPT ![1] = [orig |-> o, comp |-> op.tx, kind |-> op.kind]]
                   ELSE inq
  BY DEF LinkRival
<1>3. \A k \in DOMAIN inq :
        [inq[k].orig EXCEPT !.by = op.tx.id].nonce = inq[k].orig.nonce
  <2>1. \A k \in DOMAIN inq : inq[k] \in Contest
    BY DEF TypeOK
  <2>2. \A k \in DOMAIN inq : inq[k].orig \in Entry
    BY <2>1 DEF Contest
  <2> QED
    BY <2>2 DEF Entry
<1> DEFINE linked == [orig |-> [inq[1].orig EXCEPT !.by = op.tx.id],
                      comp |-> op.tx, kind |-> op.kind]
<1>4. 1 \in DOMAIN inq => ContestBelow(linked, nm)
  BY <1>1, <1>3 DEF ContestBelow, Reserved
<1>5. \/ UNCHANGED inq
      \/ 1 \in DOMAIN inq /\ inq' = [inq EXCEPT ![1] = linked]
  BY <1>2
<1> HIDE DEF linked
<1>6. \A k \in DOMAIN inq' : ContestBelow(inq'[k], nm)
  BY <1>4, <1>5 DEF Reserved, TypeOK
<1> QED
  BY <1>1, <1>6 DEF Reserved, Idle

\* A closed-out transaction keeps its nonce.
LEMMA CloseOutReserves ==
  ASSUME TypeOK, Reserved, CloseOut
  PROVE  Reserved'
<1> DEFINE e == [Emptied(op.tx) EXCEPT !.failed = TRUE]
<1>1. op.tx \in Entry /\ op.tx.nonce < nm
  BY OperationType DEF CloseOut, At, Reserved
<1>2. e.nonce < nm
  BY <1>1 DEF Emptied, Entry
<1>3. pendq' = Updated(pendq, e) /\ op' = Idle /\ UNCHANGED <<inq, nm>>
  BY DEF CloseOut
<1> HIDE DEF e
<1>4. \A k \in DOMAIN pendq' : k \in DOMAIN pendq /\ pendq'[k] \in {e, pendq[k]}
  BY <1>3 DEF Updated
<1> QED
  BY <1>2, <1>3, <1>4 DEF Reserved, Idle

\* No step a handler goes on with brings a nonce to or above the counter.
LEMMA ContinueReserves ==
  ASSUME TypeOK, Reserved, Continue
  PROVE  Reserved'
<1>1. CASE Deliver
  <2>1. op \in [at : Stage, kind : Kind, tx : Entry] /\ op.tx.nonce < nm
    BY <1>1, OperationType DEF Deliver, At, Reserved
  <2>2. PICK r \in Reply : op' \in {[op EXCEPT !.at = r], Idle}
    BY <1>1 DEF Deliver
  <2>3. op'.at # "idle" => op'.tx = op.tx
    BY <2>1, <2>2 DEF Idle
  <2> QED
    BY <1>1, <2>1, <2>3 DEF Deliver, Reserved, queueVars
<1>2. CASE MarkPendingSent
  <2>1. op.tx \in Entry /\ op.tx.nonce < nm
    BY <1>2, OperationType DEF MarkPendingSent, At, Reserved
  <2> QED
    BY <1>2, <2>1, MoveReserves DEF MarkPendingSent
<1>3. CASE MarkBumpSent
  <2>1. op.tx.nonce < nm /\ inq' = [inq EXCEPT ![1] = WithTx(@, op.tx)]
    BY <1>3 DEF MarkBumpSent, At, Reserved
  <2>2. \A i \in DOMAIN inq' : ContestBelow(inq'[i], nm)
    BY <2>1, FrontUpdateReserves DEF Reserved
  <2> QED
    BY <1>3, <2>2 DEF MarkBumpSent, Reserved, Idle
<1>4. CASE MarkRivalSent
  <2>1. op \in [at : Stage, kind : Kind, tx : Entry] /\ op.tx.nonce < nm
    BY <1>4, OperationType DEF MarkRivalSent, At, Reserved
  <2>2. op'.tx = op.tx
    BY <1>4, <2>1 DEF MarkRivalSent
  <2> QED
    BY <1>4, <2>1, <2>2 DEF MarkRivalSent, Reserved, queueVars
<1>5. CASE AdoptLanded
  <2> DEFINE e == [op.tx EXCEPT !.hash = FirstLanded(op.tx.id)]
  <2>1. op.tx \in Entry /\ op.tx.id \in TxId /\ op.tx.nonce < nm
    BY <1>5, OperationType DEF AdoptLanded, At, Reserved
  <2>2. e \in Entry /\ e.nonce < nm
    BY <2>1, FirstLandedType DEF Entry
  <2>3. /\ (MovePendingToInmempool(e) \/ UNCHANGED <<pendq, inq>>)
        /\ op' = Idle /\ nm' = nm
    BY <1>5 DEF AdoptLanded
  <2> HIDE DEF e
  <2> QED
    BY <2>2, <2>3, MoveReserves DEF Reserved, Idle
<1>6. CASE ConflictMined \/ StepFails \/ SettleLoser
  BY <1>6 DEF ConflictMined, StepFails, SettleLoser, Reserved, queueVars, Idle
<1> QED
  BY <1>1, <1>2, <1>3, <1>4, <1>5, <1>6, LinkReserves, CloseOutReserves, ReassignReserves
  DEF Continue

\* Startup computes the counter from everything it puts in the queues.
LEMMA LoadQueuesReserves ==
  ASSUME TypeOK, op = Idle, LoadQueues
  PROVE  Reserved'
<1>1. \A n \in QueuedNonces : n < nm'
  BY PendingNonceType, QueuedNoncesType, EffectiveStartupNonceType DEF LoadQueues, TypeOK
<1>2. \A i \in DOMAIN pendq' : pendq'[i] \in PendingEntries
  BY DEF LoadQueues, EntriesByNonce, SetToSeqs
<1>3. \A i \in DOMAIN inq' : inq'[i] \in Contests
  BY DEF LoadQueues, ContestsByNonce, SetToSeqs
<1>4. \A e \in PendingEntries : e.nonce \in QueuedNonces
  BY DEF QueuedNonces
<1>5. \A c \in Contests : /\ c.orig.nonce \in QueuedNonces
                          /\ c.comp # None => c.comp.nonce \in QueuedNonces
  BY DEF QueuedNonces
<1>6. op' = Idle
  BY DEF LoadQueues
<1> QED
  BY <1>1, <1>2, <1>3, <1>4, <1>5, <1>6 DEF Reserved, ContestBelow, Idle

\* Every step keeps the nonces in use below the counter; only startup rebuilds them.
LEMMA ReservedStays ==
  ASSUME TypeOK, ReservedWhileUp, [Next]_vars
  PROVE  ReservedWhileUp'
<1>1. CASE \E t \in TxId : Api(t)
  <2>1. boot = "online" /\ UNCHANGED boot
    BY <1>1 DEF Api, Admit, AdmitUnestimable, AdmitUnsaved, Admittable, Ready, CancelPending,
       ReplacePending, CancelInmempool, ReplaceInmempool, SendRival, EditPending, Send
  <2> QED
    BY <1>1, <2>1, ApiReserves DEF ReservedWhileUp
<1>2. CASE Loops
  <2>1. boot = "online" /\ UNCHANGED boot
    BY <1>2 DEF Loops, SendPending, EstimateRejects, BumpGas, ResolveReceipt,
       ResolveReceiptUnsaved, Confirm, Send, Ready
  <2> QED
    BY <1>2, <2>1, LoopsReserve DEF ReservedWhileUp
<1>3. CASE Continue
  <2>1. boot = "online" /\ UNCHANGED boot
    BY <1>3 DEF Continue, Deliver, MarkPendingSent, MarkBumpSent, MarkRivalSent, LinkRival,
       CloseOut, AdoptLanded, ReassignPending, ConflictMined, ReassignInmempool, StepFails,
       SettleLoser, At
  <2> QED
    BY <1>3, <2>1, ContinueReserves DEF ReservedWhileUp
<1>4. CASE Crash
  BY <1>4 DEF Crash, ReservedWhileUp
<1>5. CASE Startup
  <2>1. op = Idle
    BY <1>5 DEF Startup, RepairPoisoned, RepairAttempts, LoadQueues, ReservedWhileUp
  <2>2. CASE RepairPoisoned \/ RepairAttempts
    BY <2>1, <2>2 DEF RepairPoisoned, RepairAttempts, ReservedWhileUp
  <2>3. CASE LoadQueues
    BY <2>1, <2>3, LoadQueuesReserves DEF LoadQueues, ReservedWhileUp
  <2> QED
    BY <1>5, <2>2, <2>3 DEF Startup
<1>6. CASE Network \/ UNCHANGED vars \/ \E t \in TxId : Expire(t)
  BY <1>6 DEF Network, Expire, vars, queueVars, ReservedWhileUp, Reserved
<1>7. CASE Setback
  BY <1>7, SetbackEffect DEF ReservedWhileUp
<1> QED
  BY <1>1, <1>2, <1>3, <1>4, <1>5, <1>6, <1>7 DEF Next, Setback

\* Admission, conflict recovery and startup all leave the nonce manager above every nonce
\* that a transaction in memory or in flight holds: no nonce is handed out twice.
THEOREM NoncesReserved == Spec => []ReservationsProtected
<1> DEFINE IInv == TypeOK /\ InFlightRecorded /\ ReservedWhileUp
<1>1. Init => IInv
  <2>1. Init => ReservedWhileUp
    BY DEF Init, ReservedWhileUp, Reserved, Idle
  <2> QED
    BY <2>1, InitType DEF Init, InFlightRecorded, Idle
<1>2. IInv /\ [Next]_vars => IInv'
  BY NextType, InFlightStays, ReservedStays
<1>3. IInv => ReservationsProtected
  BY ReservedImplies
<1> QED
  BY <1>1, <1>2, <1>3, PTL DEF Spec

-----------------------------------------------------------------------------
(***************************************************************************)
(* The entries memory holds.                                                *)
(***************************************************************************)
Sides(c) == IF c.comp = None THEN {c.orig} ELSE {c.orig, c.comp}

Pending == {pendq[i] : i \in DOMAIN pendq}
InMempool == UNION {Sides(inq[i]) : i \in DOMAIN inq}
InFlight == IF op.at = "idle" THEN {} ELSE {op.tx}

Held == Pending \cup InMempool \cup InFlight

\* The sets are made of the queues' positions.
LEMMA HeldPositions ==
  /\ \A e : e \in Pending <=> \E i \in DOMAIN pendq : e = pendq[i]
  /\ \A e : e \in InMempool <=> \E i \in DOMAIN inq : e \in Sides(inq[i])
  BY DEF Pending, InMempool

\* The same of the state after a step.
LEMMA HeldPositionsAfter ==
  /\ \A e : e \in Pending' <=> \E i \in DOMAIN pendq' : e = pendq'[i]
  /\ \A e : e \in InMempool' <=> \E i \in DOMAIN inq' : e \in Sides(inq'[i])
  /\ InFlight' = IF op'.at = "idle" THEN {} ELSE {op'.tx}
  /\ Held' = Pending' \cup InMempool' \cup InFlight'
  BY DEF Pending, InMempool, InFlight, Held, Sides

\* A contest has entries for sides, and the active one is among them.
LEMMA SidesType ==
  ASSUME NEW c \in Contest
  PROVE  /\ Sides(c) \subseteq Entry
         /\ c.orig \in Sides(c) /\ Active(c) \in Sides(c) /\ Active(c) \in Entry
         /\ c.comp # None => Sides(c) = {c.orig, c.comp} /\ Active(c) = c.comp
         /\ c.comp = None => Sides(c) = {c.orig} /\ Active(c) = c.orig
<1>1. c.orig \in Entry /\ (c.comp # None => c.comp \in Entry)
  BY DEF Contest
<1> QED
  BY <1>1 DEF Sides, Active

\* A transaction that stands alone has one side.
LEMMA AloneSides ==
  ASSUME NEW e
  PROVE  Sides(Alone(e)) = {e}
  BY DEF Sides, Alone

\* Memory holds entries.
LEMMA HeldType ==
  ASSUME TypeOK
  PROVE  /\ Pending \subseteq Entry /\ InMempool \subseteq Entry /\ InFlight \subseteq Entry
         /\ Held \subseteq Entry
         /\ \A e \in Entry : e.id \in TxId
         /\ \A e \in Held : e.id \in TxId
<1>1. Pending \subseteq Entry
  <2>1. \A i \in DOMAIN pendq : pendq[i] \in Entry
    BY DEF TypeOK
  <2> QED
    BY <2>1 DEF Pending
<1>2. InMempool \subseteq Entry
  <2>1. \A i \in DOMAIN inq : inq[i] \in Contest
    BY DEF TypeOK
  <2>2. \A i \in DOMAIN inq : Sides(inq[i]) \subseteq Entry
    BY <2>1, SidesType
  <2> QED
    BY <2>2, HeldPositions
<1>3. InFlight \subseteq Entry
  BY OperationType DEF InFlight
<1>4. Held \subseteq Entry
  BY <1>1, <1>2, <1>3 DEF Held
<1>5. \A e \in Entry : e.id \in TxId
  BY DEF Entry
<1> QED
  BY <1>1, <1>2, <1>3, <1>4, <1>5

\* A row written whole, and every other row as it was.
LEMMA SaveTransactionRows ==
  ASSUME TypeOK, NEW e \in Entry, NEW s, SaveTransaction(e, s)
  PROVE  /\ e.id \in TxId
         /\ db'[e.id] = [status |-> s, tx |-> e]
         /\ \A t \in TxId : t # e.id => db'[t] = db[t]
<1>1. e.id \in TxId
  BY DEF Entry
<1>2. db \in [TxId -> Row]
  BY DEF TypeOK
<1> QED
  BY <1>1, <1>2 DEF SaveTransaction

\* A status written alone.
LEMMA SetStatusRows ==
  ASSUME TypeOK, NEW t \in TxId, NEW s, SetStatus(t, s)
  PROVE  /\ db'[t].status = s /\ db'[t].tx = db[t].tx
         /\ \A u \in TxId : u # t => db'[u] = db[u]
<1>1. db \in [TxId -> Row]
  BY DEF TypeOK
<1>2. db[t] \in Row
  BY <1>1
<1>3. db' = [db EXCEPT ![t] = [db[t] EXCEPT !.status = s]]
  BY DEF SetStatus
<1>4. [db[t] EXCEPT !.status = s].status = s /\ [db[t] EXCEPT !.status = s].tx = db[t].tx
  BY <1>2 DEF Row
<1> QED
  BY <1>1, <1>3, <1>4

\* transaction_sent changes the row's status and hash.
LEMMA SetSentRows ==
  ASSUME TypeOK, NEW t \in TxId, NEW h, SetSent(t, h)
  PROVE  /\ db'[t].status = "INMEMPOOL"
         /\ db'[t].tx = [db[t].tx EXCEPT !.hash = h]
         /\ db'[t].tx.hash = h
         /\ db'[t].tx.id = db[t].tx.id /\ db'[t].tx.nonce = db[t].tx.nonce
         /\ db'[t].tx.payload = db[t].tx.payload /\ db'[t].tx.failed = db[t].tx.failed
         /\ db'[t].tx.by = db[t].tx.by /\ db'[t].tx.ext = db[t].tx.ext
         /\ \A u \in TxId : u # t => db'[u] = db[u]
<1>1. db \in [TxId -> Row] /\ db[t].tx \in Entry
  BY DEF TypeOK, Row
<1>2. db' = [db EXCEPT ![t] = [status |-> "INMEMPOOL", tx |-> [db[t].tx EXCEPT !.hash = h]]]
  BY DEF SetSent
<1>3. db'[t] = [status |-> "INMEMPOOL", tx |-> [db[t].tx EXCEPT !.hash = h]]
  BY <1>1, <1>2
<1>4. \A e \in Entry : LET f == [e EXCEPT !.hash = h] IN
        /\ f.hash = h /\ f.id = e.id /\ f.nonce = e.nonce /\ f.payload = e.payload
        /\ f.failed = e.failed /\ f.by = e.by /\ f.ext = e.ext
  BY DEF Entry
<1>5. \A u \in TxId : u # t => db'[u] = db[u]
  BY <1>1, <1>2
<1>6. db'[t].status = "INMEMPOOL" /\ db'[t].tx = [db[t].tx EXCEPT !.hash = h]
  BY <1>3
<1> QED
  BY <1>1, <1>4, <1>5, <1>6

\* A row holds an entry.
LEMMA RowTx ==
  ASSUME TypeOK, NEW t \in TxId
  PROVE  db[t] \in Row /\ db[t].tx \in Entry /\ db[t].status \in Status \cup {"absent"}
         /\ db[t].tx.id \in TxId /\ db[t].tx.nonce \in Nat /\ db[t].tx.payload \in Payload
  BY DEF TypeOK, Row, Entry

\* A prefix-closed set of positions is the prefix of its size.
LEMMA PrefixClosed ==
  ASSUME NEW n \in Nat, NEW P \in SUBSET (1..n), \A i \in P : \A j \in 1..i : j \in P
  PROVE  P = 1..Cardinality(P)
<1>0. IsFiniteSet(1..n)
  BY FS_Interval
<1>1. IsFiniteSet(P) /\ Cardinality(P) \in Nat
  BY <1>0, FS_Subset, FS_CardinalityType
<1>2. ASSUME NEW i \in P PROVE i \in 1..Cardinality(P)
  <2>1. i \in Nat /\ i >= 1 /\ 1..i \subseteq P
    OBVIOUS
  <2>2. Cardinality(1..i) = i
    BY <2>1, FS_Interval
  <2>3. Cardinality(1..i) <= Cardinality(P)
    BY <1>1, <2>1, FS_Subset
  <2> QED
    BY <1>1, <2>1, <2>2, <2>3
<1>3. P \subseteq 1..Cardinality(P)
  BY <1>2
<1>4. IsFiniteSet(1..Cardinality(P)) /\ Cardinality(1..Cardinality(P)) = Cardinality(P)
  BY <1>1, FS_Interval
<1> QED
  BY <1>3, <1>4, FS_Subset

\* What the audit log has for a transaction.
RecordedFor(t, h) == \E i \in DOMAIN audit[t] : audit[t][i] = h

\* A send of e writes its signed copy f to the row, to the log and in flight.
SignedCopy(e, f) ==
  /\ f \in Entry
  /\ f.id = e.id /\ f.nonce = e.nonce /\ f.by = e.by /\ f.ext = e.ext
  /\ f.payload = IF e.id \in expired THEN Noop ELSE e.payload
  /\ f.hash \in Hash /\ f.hash # None
  /\ f.hash.nonce = e.nonce /\ f.hash.payload = f.payload

SameButFailed(e, f) ==
  /\ e.id = f.id /\ e.nonce = f.nonce /\ e.payload = f.payload /\ e.hash = f.hash
  /\ e.by = f.by /\ e.ext = f.ext

\* What is signed is the entry with a hash, and the empty payload once it has expired.
LEMMA SignedCopies ==
  ASSUME NEW e \in Entry, NEW gas \in Nat
  PROVE  SignedCopy(e, Signed(e, gas))
<1> DEFINE p == IF e.id \in expired THEN Noop ELSE e.payload
           h == [nonce |-> e.nonce, payload |-> p, gas |-> gas]
<1>1. p \in Payload
  BY DEF Payload, Entry
<1>2. h \in Hash /\ h.nonce = e.nonce /\ h.payload = p
  BY <1>1 DEF Hash, Entry
<1>3. Signed(e, gas) = [e EXCEPT !.payload = p, !.hash = h]
  BY DEF Signed
<1> HIDE DEF h, p
<1>4. LET f == [e EXCEPT !.payload = p, !.hash = h] IN
      /\ f \in Entry /\ f.id = e.id /\ f.nonce = e.nonce /\ f.by = e.by /\ f.ext = e.ext
      /\ f.payload = p /\ f.hash = h
  BY <1>1, <1>2 DEF Entry
<1>5. p = IF e.id \in expired THEN Noop ELSE e.payload
  BY DEF p
<1> QED
  BY <1>2, <1>3, <1>4, <1>5, NoneIsNoHash DEF SignedCopy

\* persist_attempt: the row takes the signed copy, and the log one record at most.
LEMMA RecordAttemptRows ==
  ASSUME TypeOK, NEW e \in Entry, NEW s, RecordAttempt(e, s)
  PROVE  /\ db'[e.id].status = s /\ SameButFailed(db'[e.id].tx, e)
         /\ \A t \in TxId : t # e.id => db'[t] = db[t] /\ audit'[t] = audit[t]
         /\ \E i \in DOMAIN audit'[e.id] : audit'[e.id][i] = e.hash
         /\ \A i \in DOMAIN audit'[e.id] :
              audit'[e.id][i] = e.hash \/ RecordedFor(e.id, audit'[e.id][i])
<1> DEFINE f == [e EXCEPT !.failed = db[e.id].tx.failed]
<1>1. e.id \in TxId
  BY DEF Entry
<1>2. f \in Entry /\ SameButFailed(f, e) /\ f.id = e.id
  BY <1>1 DEF TypeOK, Row, Entry, SameButFailed
<1>3. SaveTransaction(f, s)
  BY DEF RecordAttempt
<1> HIDE DEF f
<1>4. /\ db'[e.id] = [status |-> s, tx |-> f]
      /\ \A t \in TxId : t # e.id => db'[t] = db[t]
  BY <1>2, <1>3, SaveTransactionRows
<1>5. \E i \in DOMAIN audit'[e.id] : audit'[e.id][i] = e.hash
  BY RecordAttemptRecords
<1>6. CASE audit' = audit
  BY <1>2, <1>4, <1>5, <1>6 DEF RecordedFor
<1>7. CASE audit' = [audit EXCEPT ![e.id] = Append(@, e.hash)]
  <2>1. audit \in [TxId -> Seq(Hash)]
    BY DEF TypeOK
  <2>2. audit'[e.id] = Append(audit[e.id], e.hash)
    BY <1>1, <1>7, <2>1
  <2>3. \A t \in TxId : t # e.id => audit'[t] = audit[t]
    BY <1>1, <1>7, <2>1
  <2>4. audit[e.id] \in Seq(Hash)
    BY <1>1, <2>1
  <2>5. \A i \in DOMAIN Append(audit[e.id], e.hash) :
          \/ Append(audit[e.id], e.hash)[i] = e.hash
          \/ i \in DOMAIN audit[e.id] /\ Append(audit[e.id], e.hash)[i] = audit[e.id][i]
    BY <2>4
  <2> QED
    BY <1>2, <1>4, <1>5, <2>2, <2>3, <2>5 DEF RecordedFor
<1> QED
  BY <1>6, <1>7 DEF RecordAttempt

\* send_transaction up to its first effect.
Sends(e, s, k, f) ==
  /\ SignedCopy(e, f)
  /\ db'[e.id].status = s /\ SameButFailed(db'[e.id].tx, f)
  /\ \A t \in TxId : t # e.id => db'[t] = db[t] /\ audit'[t] = audit[t]
  /\ \E i \in DOMAIN audit'[e.id] : audit'[e.id][i] = f.hash
  /\ \A i \in DOMAIN audit'[e.id] :
       audit'[e.id][i] = f.hash \/ RecordedFor(e.id, audit'[e.id][i])
  /\ op' = [at |-> "persisted", kind |-> k, tx |-> f]
  /\ UNCHANGED <<pendq, inq, minedq, nm, boot, expired, moved, chain, pool, stray, left>>

\* Every send has a signed copy.
LEMMA SendCopies ==
  ASSUME TypeOK, NEW e \in Entry, NEW s \in Status, NEW k, NEW last \in Nat, Send(e, s, k, last)
  PROVE  \E f \in Entry : Sends(e, s, k, f)
<1>1. PICK gas \in Prices(last) :
        /\ RecordAttempt(Signed(e, gas), s)
        /\ op' = [at |-> "persisted", kind |-> k, tx |-> Signed(e, gas)]
  BY DEF Send
<1>2. gas \in Nat
  BY <1>1, PricesType
<1>3. SignedCopy(e, Signed(e, gas))
  BY <1>2, SignedCopies
<1>4. PICK f \in Entry : f = Signed(e, gas)
  BY <1>3 DEF SignedCopy
<1>5. /\ f.id = e.id /\ SignedCopy(e, f)
      /\ RecordAttempt(f, s) /\ op' = [at |-> "persisted", kind |-> k, tx |-> f]
  BY <1>1, <1>3, <1>4 DEF SignedCopy
<1>6. UNCHANGED <<pendq, inq, minedq, nm, boot, expired, moved, chain, pool, stray, left>>
  BY DEF Send, queueVars, nodeVars
<1>7. /\ db'[f.id].status = s /\ SameButFailed(db'[f.id].tx, f)
      /\ \A t \in TxId : t # f.id => db'[t] = db[t] /\ audit'[t] = audit[t]
      /\ \E i \in DOMAIN audit'[f.id] : audit'[f.id][i] = f.hash
      /\ \A i \in DOMAIN audit'[f.id] :
           audit'[f.id][i] = f.hash \/ RecordedFor(f.id, audit'[f.id][i])
  BY <1>5, RecordAttemptRows
<1>8. Sends(e, s, k, f)
  BY <1>5, <1>6, <1>7 DEF Sends
<1> QED
  BY <1>8

\* The pending loop sends the front of its queue.
LEMMA SendPendingSends ==
  ASSUME TypeOK, SendPending
  PROVE  /\ op = Idle /\ boot = "online" /\ pendq # <<>>
         /\ Head(pendq) \in Entry /\ Head(pendq) = pendq[1] /\ 1 \in DOMAIN pendq
         /\ Head(pendq) \in Pending
         /\ \E f \in Entry : Sends(Head(pendq), "PENDING", "pending", f)
<1>1. pendq \in Seq(Entry) /\ pendq # <<>> /\ op = Idle /\ boot = "online"
  BY DEF TypeOK, SendPending, Ready
<1>2. Head(pendq) \in Entry /\ Head(pendq) = pendq[1] /\ 1 \in DOMAIN pendq
  BY <1>1
<1>3. LastGas(Head(pendq)) \in Nat
  BY <1>2, PricesType
<1>4. \E f \in Entry : Sends(Head(pendq), "PENDING", "pending", f)
  BY <1>2, <1>3, SendCopies DEF SendPending, Status
<1> QED
  BY <1>1, <1>2, <1>4 DEF Pending

\* The front of the in-mempool queue.
LEMMA FrontOfInmempool ==
  ASSUME TypeOK, inq # <<>>
  PROVE  /\ 1 \in DOMAIN inq /\ Head(inq) = inq[1] /\ inq[1] \in Contest
         /\ Active(Head(inq)) \in Entry /\ Active(Head(inq)) \in Sides(inq[1])
         /\ Sides(inq[1]) \subseteq InMempool
<1>1. inq \in Seq(Contest)
  BY DEF TypeOK
<1>2. 1 \in DOMAIN inq /\ Head(inq) = inq[1] /\ inq[1] \in Contest
  BY <1>1
<1> QED
  BY <1>2, SidesType DEF InMempool

\* The in-mempool loop sends the active side of its front.
LEMMA BumpGasSends ==
  ASSUME TypeOK, BumpGas
  PROVE  /\ op = Idle /\ boot = "online" /\ inq # <<>>
         /\ \E f \in Entry : Sends(Active(Head(inq)), "INMEMPOOL", "bump", f)
<1>1. inq # <<>> /\ op = Idle /\ boot = "online"
  BY DEF BumpGas, Ready
<1> DEFINE a == Active(Head(inq))
<1>2. a \in Entry
  BY <1>1, FrontOfInmempool
<1>3. a.hash # None /\ Send(a, "INMEMPOOL", "bump", a.hash.gas)
  BY DEF BumpGas
<1> HIDE DEF a
<1>4. a.hash.gas \in Nat
  BY <1>2, <1>3 DEF Entry, Hash
<1>5. \E f \in Entry : Sends(a, "INMEMPOOL", "bump", f)
  BY <1>2, <1>3, <1>4, SendCopies DEF Status
<1> QED
  BY <1>1, <1>5 DEF a

\* cancel_transaction and replace_transaction send a new entry for a queued original.
RivalOf(e, c, o, k) ==
  /\ e \in Entry
  /\ e.id = c /\ e.nonce = o.nonce /\ e.hash = None /\ e.by = None /\ e.ext = o.id
  /\ e.payload = IF k = "cancel" THEN Noop ELSE c

LEMMA SendRivalCopies ==
  ASSUME TypeOK, NEW t \in TxId, NEW k \in {"cancel", "replace"}, SendRival(t, k)
  PROVE  /\ op = Idle /\ boot = "online" /\ t \in User
         /\ \A i \in DOMAIN pendq : pendq[i].id # t
         /\ \E c \in Rival, i \in DOMAIN inq, e \in Entry, f \in Entry :
              /\ Fresh(c) /\ inq[i].orig.id = t /\ inq[i].orig.hash # None
              /\ RivalOf(e, c, inq[i].orig, k)
              /\ Sends(e, "PENDING", k, f)
<1>1. /\ op = Idle /\ boot = "online" /\ t \in User
      /\ \A i \in DOMAIN pendq : pendq[i].id # t
  BY DEF SendRival, Ready
<1>2. PICK c \in Rival, i \in DOMAIN inq :
        /\ Fresh(c) /\ inq[i].orig.id = t /\ inq[i].orig.hash # None
        /\ LET o == inq[i].orig
               e == [NewEntry(c, o.nonce) EXCEPT
                       !.payload = IF k = "cancel" THEN Noop ELSE c, !.ext = t]
           IN  Send(e, "PENDING", k, o.hash.gas + 1)
  BY Zenon DEF SendRival
<1> DEFINE o == inq[i].orig
           e == [NewEntry(c, o.nonce) EXCEPT
                   !.payload = IF k = "cancel" THEN Noop ELSE c, !.ext = t]
<1>3. Send(e, "PENDING", k, o.hash.gas + 1)
  BY <1>2
<1>4. o \in Entry /\ o.nonce \in Nat /\ o.hash.gas + 1 \in Nat
  <2>1. inq[i] \in Contest
    BY DEF TypeOK
  <2>2. o \in Entry
    BY <2>1, SidesType
  <2> HIDE DEF o
  <2>3. o.hash \in Hash
    BY <1>2, <2>2 DEF Entry, o
  <2>4. o.hash.gas + 1 \in Nat
    BY <2>3 DEF Hash
  <2> QED
    BY <2>2, <2>4 DEF Entry
<1>5. c \in TxId
  BY DEF Rival
<1>6. RivalOf(e, c, o, k)
  <2> HIDE DEF o
  <2> QED
    BY <1>2, <1>4, <1>5 DEF RivalOf, NewEntry, Entry, Payload, o
<1> HIDE DEF e, o
<1>7. e \in Entry
  BY <1>6 DEF RivalOf
<1>8. \E f \in Entry : Sends(e, "PENDING", k, f)
  BY <1>3, <1>4, <1>7, SendCopies DEF Status
<1> QED
  BY <1>1, <1>2, <1>6, <1>7, <1>8 DEF o

-----------------------------------------------------------------------------
(***************************************************************************)
(* What each action does to the three sets.                                 *)
(***************************************************************************)
\* A queue that stays keeps its members.
LEMMA SameMembers ==
  /\ UNCHANGED pendq => Pending' = Pending
  /\ UNCHANGED inq => InMempool' = InMempool
  /\ UNCHANGED op => InFlight' = InFlight
  /\ op' = Idle => InFlight' = {}
  /\ op = Idle => InFlight = {}
  BY DEF Pending, InMempool, Sides, InFlight, Idle

\* The front of a queue leaves.
LEMMA TailMembers ==
  ASSUME TypeOK
  PROVE  /\ pendq # <<>> /\ pendq' = Tail(pendq) => Pending' \subseteq Pending
         /\ inq # <<>> /\ inq' = Tail(inq) => InMempool' \subseteq InMempool
<1>1. pendq # <<>> =>
        \A i \in DOMAIN Tail(pendq) : i + 1 \in DOMAIN pendq /\ Tail(pendq)[i] = pendq[i + 1]
  BY DEF TypeOK
<1>2. inq # <<>> =>
        \A i \in DOMAIN Tail(inq) : i + 1 \in DOMAIN inq /\ Tail(inq)[i] = inq[i + 1]
  BY DEF TypeOK
<1>3. ASSUME pendq # <<>>, pendq' = Tail(pendq)
      PROVE  Pending' \subseteq Pending
  BY <1>1, <1>3, HeldPositions, HeldPositionsAfter
<1>4. ASSUME inq # <<>>, inq' = Tail(inq)
      PROVE  InMempool' \subseteq InMempool
  BY <1>2, <1>4, HeldPositions, HeldPositionsAfter
<1> QED
  BY <1>3, <1>4

\* A pending entry is added, or overwritten by its id.
LEMMA PendingMembers ==
  ASSUME TypeOK, NEW e \in Entry
  PROVE  /\ pendq' = InsertByNonce(pendq, e) => Pending' \subseteq Pending \cup {e}
         /\ pendq' = Updated(pendq, e) =>
              /\ DOMAIN pendq' = DOMAIN pendq
              /\ \A i \in DOMAIN pendq : pendq'[i] = IF pendq[i].id = e.id THEN e ELSE pendq[i]
              /\ Pending' \subseteq Pending \cup {e}
<1>1. pendq \in Seq(Entry)
  BY DEF TypeOK
<1>2. ASSUME pendq' = InsertByNonce(pendq, e)
      PROVE  Pending' \subseteq Pending \cup {e}
  BY <1>1, <1>2, InsertByNonceElements, HeldPositions, HeldPositionsAfter
<1>3. ASSUME pendq' = Updated(pendq, e)
      PROVE  /\ DOMAIN pendq' = DOMAIN pendq
             /\ \A i \in DOMAIN pendq : pendq'[i] = IF pendq[i].id = e.id THEN e ELSE pendq[i]
  BY <1>1, <1>3 DEF Updated
<1>4. ASSUME pendq' = Updated(pendq, e)
      PROVE  Pending' \subseteq Pending \cup {e}
  BY <1>3, <1>4, HeldPositions, HeldPositionsAfter
<1> QED
  BY <1>2, <1>3, <1>4

\* A transaction enters the in-mempool queue on its own.
LEMMA AppendMembers ==
  ASSUME TypeOK, NEW e \in Entry, inq' = Append(inq, Alone(e))
  PROVE  InMempool' \subseteq InMempool \cup {e}
<1>1. \A i \in DOMAIN inq' : inq'[i] = Alone(e) \/ (i \in DOMAIN inq /\ inq'[i] = inq[i])
  BY DEF TypeOK
<1> QED
  BY <1>1, AloneSides, HeldPositions, HeldPositionsAfter

\* The front of the in-mempool queue is overwritten.
LEMMA FrontMembers ==
  ASSUME TypeOK, NEW c, inq' = [inq EXCEPT ![1] = c]
  PROVE  InMempool' \subseteq InMempool \cup Sides(c)
<1>1. \A i \in DOMAIN inq' : i \in DOMAIN inq /\ inq'[i] \in {inq[i], c}
  BY DEF TypeOK
<1> QED
  BY <1>1, HeldPositions, HeldPositionsAfter

\* An overwrite by id replaces the side that has the id, and no other.
LEMMA WithTxSides ==
  ASSUME NEW c \in Contest, NEW e \in Entry
  PROVE  /\ Sides(WithTx(c, e)) \subseteq Sides(c) \cup {e}
         /\ WithTx(c, e) \in Contest
         /\ WithTx(c, e).kind = c.kind /\ (WithTx(c, e).comp = None <=> c.comp = None)
         /\ c.orig.id = e.id => WithTx(c, e).orig = e /\ WithTx(c, e).comp = c.comp
         /\ c.orig.id # e.id /\ c.comp # None /\ c.comp.id = e.id =>
              WithTx(c, e).orig = c.orig /\ WithTx(c, e).comp = e
<1>1. CASE c.orig.id = e.id
  <2>1. WithTx(c, e) = [c EXCEPT !.orig = e]
    BY <1>1 DEF WithTx
  <2>2. /\ [c EXCEPT !.orig = e].orig = e /\ [c EXCEPT !.orig = e].comp = c.comp
        /\ [c EXCEPT !.orig = e].kind = c.kind
    BY DEF Contest
  <2> QED
    BY <1>1, <2>1, <2>2, ActiveType DEF Sides
<1>2. CASE c.orig.id # e.id /\ c.comp # None /\ c.comp.id = e.id
  <2>1. WithTx(c, e) = [c EXCEPT !.comp = e]
    BY <1>2 DEF WithTx
  <2>2. /\ [c EXCEPT !.comp = e].orig = c.orig /\ [c EXCEPT !.comp = e].comp = e
        /\ [c EXCEPT !.comp = e].kind = c.kind
    BY DEF Contest
  <2>3. e # None
    BY NoneIsNoEntry
  <2> QED
    BY <1>2, <2>1, <2>2, <2>3, ActiveType DEF Sides
<1>3. CASE c.orig.id # e.id /\ ~(c.comp # None /\ c.comp.id = e.id)
  BY <1>3 DEF WithTx
<1> QED
  BY <1>1, <1>2, <1>3

\* The sent copy leaves the pending queue for the in-mempool queue.
LEMMA MoveMembers ==
  ASSUME TypeOK, NEW e \in Entry, MovePendingToInmempool(e)
  PROVE  Pending' \subseteq Pending /\ InMempool' \subseteq InMempool \cup {e}
  BY TailMembers, AppendMembers, SameMembers DEF MovePendingToInmempool

\* One side of the front is overwritten by its id.
LEMMA FrontRewritten ==
  ASSUME TypeOK, NEW e \in Entry, inq' = [inq EXCEPT ![1] = WithTx(inq[1], e)]
  PROVE  InMempool' \subseteq InMempool \cup {e}
<1>1. CASE inq = <<>>
  <2>1. inq' = inq
    BY <1>1
  <2> QED
    BY <2>1, SameMembers
<1>2. CASE inq # <<>>
  <2>1. inq[1] \in Contest /\ 1 \in DOMAIN inq
    BY <1>2 DEF TypeOK
  <2>2. Sides(WithTx(inq[1], e)) \subseteq Sides(inq[1]) \cup {e}
    BY <2>1, WithTxSides
  <2>3. Sides(inq[1]) \subseteq InMempool
    BY <2>1, HeldPositions
  <2>4. InMempool' \subseteq InMempool \cup Sides(WithTx(inq[1], e))
    BY FrontMembers
  <2> QED
    BY <2>2, <2>3, <2>4
<1> QED
  BY <1>1, <1>2

\* add_transaction: a new entry at a nonce that was not handed out yet.
LEMMA AdmitEffect ==
  ASSUME TypeOK, NEW t \in TxId, Admit(t)
  PROVE  /\ op = Idle /\ boot = "online" /\ t \in User /\ db[t].status = "absent"
         /\ UNCHANGED <<audit, inq, minedq, boot, op, expired, moved, chain, pool, stray, left>>
         /\ \E e \in Entry :
              /\ e = NewEntry(t, e.nonce) /\ nm <= e.nonce /\ nm' = e.nonce + 1
              /\ SaveTransaction(e, "PENDING")
              /\ pendq' = InsertByNonce(pendq, e)
<1> DEFINE n == SyncedWith(nm, PendingNonce)
<1>1. n \in Nat /\ nm <= n
  BY PendingNonceType, NonceManagerType, CounterGrows DEF TypeOK
<1>2. PICK m \in Nat : m = n
  BY <1>1
<1>3. PICK e \in Entry : e = NewEntry(t, m)
  BY EntryType DEF NewEntry, Entry, Payload
<1>4. e.nonce = m
  BY <1>3 DEF NewEntry
<1>5. /\ SaveTransaction(NewEntry(t, n), "PENDING")
      /\ pendq' = InsertByNonce(pendq, NewEntry(t, n))
      /\ nm' = n + 1
      /\ UNCHANGED <<audit, inq, minedq, boot, op, expired, moved, nodeVars>>
      /\ op = Idle /\ boot = "online" /\ t \in User /\ db[t].status = "absent"
  BY DEF Admit, Admittable, Ready, Incremented
<1>6. /\ SaveTransaction(e, "PENDING") /\ pendq' = InsertByNonce(pendq, e) /\ nm' = m + 1
  BY <1>2, <1>3, <1>5
<1> HIDE DEF n
<1> QED
  BY <1>1, <1>2, <1>3, <1>4, <1>5, <1>6 DEF nodeVars

\* A rejected estimate leaves a FAILED row and no entry.
LEMMA AdmitUnestimableEffect ==
  ASSUME TypeOK, NEW t \in TxId, AdmitUnestimable(t)
  PROVE  /\ op = Idle /\ boot = "online" /\ t \in User /\ db[t].status = "absent"
         /\ UNCHANGED <<audit, pendq, inq, minedq, boot, op, expired, moved, chain, pool, stray>>
         /\ nm' \in Nat /\ nm <= nm'
         /\ \E e \in Entry :
              /\ e = [NewEntry(t, e.nonce) EXCEPT !.failed = TRUE]
              /\ SaveTransaction(e, "FAILED")
<1>1. PendingNonce \in Nat /\ nm \in Nat
  BY PendingNonceType DEF TypeOK
<1>2. PICK m \in Nat : m = PendingNonce
  BY <1>1
<1>3. PICK e \in Entry : e = [NewEntry(t, m) EXCEPT !.failed = TRUE]
  BY DEF NewEntry, Entry, Payload
<1>4. e.nonce = m
  BY <1>3 DEF NewEntry
<1>5. SaveTransaction(e, "FAILED")
  BY <1>2, <1>3 DEF AdmitUnestimable
<1>6. nm' \in Nat /\ nm <= nm'
  BY <1>1, NonceManagerType, CounterGrows DEF AdmitUnestimable
<1> QED
  BY <1>3, <1>4, <1>5, <1>6 DEF AdmitUnestimable, Admittable, Ready

\* A reservation that is given back never moves the counter back past what it was.
LEMMA AdmitUnsavedEffect ==
  ASSUME TypeOK, NEW t \in TxId, AdmitUnsaved(t)
  PROVE  /\ op = Idle /\ boot = "online"
         /\ UNCHANGED <<rowVars, pendq, inq, minedq, boot, op, expired, moved,
                        chain, pool, stray>>
         /\ nm' \in Nat /\ nm <= nm'
<1>1. PendingNonce \in Nat /\ nm \in Nat
  BY PendingNonceType DEF TypeOK
<1>2. SyncedWith(nm, PendingNonce) \in Nat /\ nm <= SyncedWith(nm, PendingNonce)
  BY <1>1, NonceManagerType, CounterGrows
<1>3. nm' = Released(Incremented(SyncedWith(nm, PendingNonce)), SyncedWith(nm, PendingNonce))
  BY DEF AdmitUnsaved
<1>4. nm' = SyncedWith(nm, PendingNonce)
  BY <1>2, <1>3, CounterGrows
<1> QED
  BY <1>2, <1>4 DEF AdmitUnsaved, Admittable, Ready

\* An edit in place keeps the entry's id, nonce and links.
SameLinks(e, f) == e.id = f.id /\ e.nonce = f.nonce /\ e.by = f.by /\ e.ext = f.ext

LEMMA EditEffect ==
  ASSUME TypeOK, NEW t \in TxId, CancelPending(t) \/ ReplacePending(t)
  PROVE  /\ op = Idle /\ boot = "online"
         /\ UNCHANGED <<audit, inq, minedq, nm, boot, op, expired, moved,
                        chain, pool, stray, left>>
         /\ \E i \in DOMAIN pendq, e \in Entry :
              /\ pendq[i].id = t /\ SameLinks(e, pendq[i])
              /\ \/ e.payload = Noop /\ e.hash = None
                 \/ /\ e.payload \in Rival /\ Fresh(e.payload)
                    /\ e.hash = pendq[i].hash
              /\ SaveTransaction(e, "PENDING") /\ pendq' = Updated(pendq, e)
<1>1. \A i \in DOMAIN pendq : pendq[i] \in Entry
  BY DEF TypeOK
<1>2. \A e \in Entry : Emptied(e) \in Entry /\ SameLinks(Emptied(e), e)
                         /\ Emptied(e).payload = Noop /\ Emptied(e).hash = None
  BY DEF Entry, Emptied, SameLinks, Payload
<1>3. \A e \in Entry, c \in Rival : LET f == [e EXCEPT !.payload = c] IN
        f \in Entry /\ SameLinks(f, e) /\ f.payload = c /\ f.hash = e.hash
  BY DEF Entry, SameLinks, Payload, Rival
<1>4. op = Idle /\ boot = "online"
  BY DEF CancelPending, ReplacePending, Ready
<1>5. CASE CancelPending(t)
  <2>1. PICK i \in DOMAIN pendq : pendq[i].id = t /\ EditPending(Emptied(pendq[i]))
    BY <1>5 DEF CancelPending
  <2>2. PICK e \in Entry : e = Emptied(pendq[i])
    BY <1>1, <1>2
  <2>3. EditPending(e)
    BY <2>1, <2>2
  <2> QED
    BY <1>1, <1>2, <1>4, <2>1, <2>2, <2>3 DEF EditPending, nodeVars
<1>6. CASE ReplacePending(t)
  <2>1. PICK c \in Rival, i \in DOMAIN pendq :
          Fresh(c) /\ pendq[i].id = t /\ EditPending([pendq[i] EXCEPT !.payload = c])
    BY <1>6 DEF ReplacePending
  <2>2. PICK e \in Entry : e = [pendq[i] EXCEPT !.payload = c]
    BY <1>1, <1>3
  <2>3. EditPending(e) /\ SameLinks(e, pendq[i]) /\ e.payload = c /\ e.hash = pendq[i].hash
    BY <1>1, <1>3, <2>1, <2>2
  <2> QED
    BY <1>4, <2>1, <2>3 DEF EditPending, nodeVars
<1> QED
  BY <1>5, <1>6

\* The entry whose estimate is rejected is in flight, unsent.
LEMMA EstimateRejectsEffect ==
  ASSUME TypeOK, EstimateRejects
  PROVE  /\ op = Idle /\ boot = "online" /\ pendq # <<>>
         /\ Head(pendq) \in Entry /\ Head(pendq) \in Pending /\ Head(pendq) = pendq[1]
         /\ op'.at = "rejected" /\ op'.kind = "pending" /\ op'.tx = Head(pendq)
         /\ UNCHANGED <<rowVars, queueVars, boot, expired, moved, chain, pool, stray>>
<1>1. pendq \in Seq(Entry) /\ pendq # <<>>
  BY DEF TypeOK, EstimateRejects
<1>2. Head(pendq) \in Entry /\ Head(pendq) = pendq[1] /\ 1 \in DOMAIN pendq
  BY <1>1
<1> QED
  BY <1>1, <1>2 DEF EstimateRejects, Ready, Pending

\* An answer leaves the same transaction in flight, or none; a conflict is a nonce that is
\* used up.
LEMMA DeliverEffect ==
  ASSUME TypeOK, Deliver
  PROVE  /\ boot = "online" /\ op.at = "persisted" /\ op.tx \in Entry
         /\ UNCHANGED <<rowVars, queueVars, boot, expired, moved>>
         /\ \/ op' = Idle
            \/ /\ op'.at \in {"accepted", "rejected", "conflict"}
               /\ op'.kind = op.kind /\ op'.tx = op.tx
               /\ op'.at \in {"rejected", "conflict"} => op.kind \in {"pending", "bump"}
               /\ op'.at = "rejected" => op.kind = "pending"
               /\ op'.at = "conflict" => op.tx.hash.nonce < Len(chain) /\ UNCHANGED nodeVars
<1>1. boot = "online" /\ op.at = "persisted"
  BY DEF Deliver, At
<1>2. op \in [at : Stage, kind : Kind, tx : Entry]
  BY <1>1, OperationType
<1>3. PICK r \in Reply :
        /\ Broadcast(op.tx.hash, r)
        /\ op' = IF \/ r = "accepted"
                    \/ r = "conflict" /\ op.kind \in {"pending", "bump"}
                    \/ r = "rejected" /\ op.kind = "pending"
                 THEN [op EXCEPT !.at = r]
                 ELSE Idle
  BY DEF Deliver
<1>4. [op EXCEPT !.at = r].at = r /\ [op EXCEPT !.at = r].kind = op.kind
      /\ [op EXCEPT !.at = r].tx = op.tx
  BY <1>2
<1>5. r = "conflict" => op.tx.hash.nonce < Len(chain) /\ UNCHANGED nodeVars
  BY <1>3 DEF Broadcast
<1>6. UNCHANGED <<rowVars, queueVars, boot, expired, moved>>
  BY DEF Deliver
<1> QED
  BY <1>1, <1>2, <1>3, <1>4, <1>5, <1>6

\* The three steps that mark a transaction as sent.
LEMMA MarkPendingSentEffect ==
  ASSUME TypeOK, MarkPendingSent
  PROVE  /\ boot = "online" /\ op.at = "accepted" /\ op.kind = "pending" /\ op.tx \in Entry
         /\ SetSent(op.tx.id, op.tx.hash) /\ op' = Idle
         /\ MovePendingToInmempool(op.tx)
         /\ Pending' \subseteq Pending /\ InMempool' \subseteq InMempool \cup {op.tx}
         /\ UNCHANGED <<audit, minedq, nm, boot, expired, moved, chain, pool, stray, left>>
<1>1. boot = "online" /\ op.at = "accepted" /\ op.kind = "pending" /\ op.tx \in Entry
  BY OperationType DEF MarkPendingSent, At
<1> QED
  BY <1>1, MoveMembers DEF MarkPendingSent, nodeVars

LEMMA MarkBumpSentEffect ==
  ASSUME TypeOK, MarkBumpSent
  PROVE  /\ boot = "online" /\ op.at = "accepted" /\ op.kind = "bump" /\ op.tx \in Entry
         /\ SetSent(op.tx.id, op.tx.hash) /\ op' = Idle
         /\ inq' = [inq EXCEPT ![1] = WithTx(inq[1], op.tx)]
         /\ UNCHANGED <<audit, pendq, minedq, nm, boot, expired, moved, chain, pool, stray, left>>
<1>1. boot = "online" /\ op.at = "accepted" /\ op.kind = "bump" /\ op.tx \in Entry
  BY OperationType DEF MarkBumpSent, At
<1> QED
  BY <1>1 DEF MarkBumpSent, nodeVars

LEMMA MarkRivalSentEffect ==
  ASSUME TypeOK, MarkRivalSent
  PROVE  /\ boot = "online" /\ op.at = "accepted" /\ op.kind \in {"cancel", "replace"}
         /\ op.tx \in Entry /\ SetSent(op.tx.id, op.tx.hash)
         /\ op'.at = "linking" /\ op'.kind = op.kind /\ op'.tx = op.tx
         /\ UNCHANGED <<audit, queueVars, boot, expired, moved, chain, pool, stray, left>>
<1>1. /\ boot = "online" /\ op.at = "accepted" /\ op.kind \in {"cancel", "replace"}
      /\ op \in [at : Stage, kind : Kind, tx : Entry]
  BY OperationType DEF MarkRivalSent, At
<1>2. op' = [op EXCEPT !.at = "linking"]
  BY DEF MarkRivalSent
<1> QED
  BY <1>1, <1>2 DEF MarkRivalSent, nodeVars

\* The original learns of its rival; only the front of the queue takes it in.
LEMMA LinkRivalEffect ==
  ASSUME TypeOK, LinkRival
  PROVE  /\ boot = "online" /\ op.at = "linking" /\ op.kind \in {"cancel", "replace"}
         /\ op.tx \in Entry /\ op' = Idle
         /\ UNCHANGED <<audit, pendq, minedq, nm, boot, expired, moved, chain, pool, stray, left>>
         /\ \E i \in DOMAIN inq, o \in Entry, c \in Contest :
              /\ inq[i].orig.id = op.tx.ext
              /\ o.id = inq[i].orig.id /\ o.nonce = inq[i].orig.nonce
              /\ o.payload = inq[i].orig.payload /\ o.hash = inq[i].orig.hash
              /\ o.ext = inq[i].orig.ext /\ o.by = op.tx.id
              /\ SaveTransaction(o, "INMEMPOOL")
              /\ c.orig = o /\ c.comp = op.tx /\ c.kind = op.kind /\ Sides(c) = {o, op.tx}
              /\ inq' = IF i = 1 THEN [inq EXCEPT ![1] = c] ELSE inq
<1>1. /\ boot = "online" /\ op.at = "linking" /\ op.kind \in {"cancel", "replace"}
      /\ op.tx \in Entry /\ op.tx.id \in TxId
  BY OperationType DEF LinkRival, At
<1>2. PICK i \in DOMAIN inq :
        /\ inq[i].orig.id = op.tx.ext
        /\ SaveTransaction([inq[i].orig EXCEPT !.by = op.tx.id], "INMEMPOOL")
        /\ inq' = IF i = 1
                  THEN [inq EXCEPT ![1] = [orig |-> [inq[i].orig EXCEPT !.by = op.tx.id],
                                           comp |-> op.tx, kind |-> op.kind]]
                  ELSE inq
  BY Zenon DEF LinkRival
<1>3. inq[i].orig \in Entry
  <2>1. inq[i] \in Contest
    BY DEF TypeOK
  <2> QED
    BY <2>1, SidesType
<1>4. \A e \in Entry, b \in TxId : LET o == [e EXCEPT !.by = b] IN
        /\ o \in Entry /\ o.id = e.id /\ o.nonce = e.nonce /\ o.payload = e.payload
        /\ o.hash = e.hash /\ o.ext = e.ext /\ o.by = b
  BY DEF Entry
<1>5. PICK o \in Entry : o = [inq[i].orig EXCEPT !.by = op.tx.id]
  BY <1>1, <1>3, <1>4
<1>6. PICK c \in Contest : c = [orig |-> o, comp |-> op.tx, kind |-> op.kind]
  BY <1>1 DEF Contest
<1>7. /\ c.orig = o /\ c.comp = op.tx /\ c.kind = op.kind
  BY <1>6
<1>8. Sides(c) = {o, op.tx}
  BY <1>1, <1>7, NoneIsNoEntry DEF Sides
<1>9. /\ o.id = inq[i].orig.id /\ o.nonce = inq[i].orig.nonce
      /\ o.payload = inq[i].orig.payload /\ o.hash = inq[i].orig.hash
      /\ o.ext = inq[i].orig.ext /\ o.by = op.tx.id
  BY <1>1, <1>3, <1>4, <1>5
<1>10. /\ SaveTransaction(o, "INMEMPOOL")
       /\ inq' = IF i = 1 THEN [inq EXCEPT ![1] = c] ELSE inq
  BY <1>2, <1>5, <1>6
<1>11. /\ op' = Idle
       /\ UNCHANGED <<audit, pendq, minedq, nm, boot, expired, moved, chain, pool, stray, left>>
  BY DEF LinkRival, nodeVars
<1> QED
  BY <1>1, <1>2, <1>7, <1>8, <1>9, <1>10, <1>11

\* A rejected transaction is closed out as an empty one that is still to be sent.
LEMMA CloseOutEffect ==
  ASSUME TypeOK, CloseOut
  PROVE  /\ boot = "online" /\ op.at = "rejected" /\ op.tx \in Entry /\ op' = Idle
         /\ UNCHANGED <<audit, inq, minedq, nm, boot, expired, moved, chain, pool, stray, left>>
         /\ \E e \in Entry :
              /\ SameLinks(e, op.tx) /\ e.payload = Noop /\ e.hash = None
              /\ SaveTransaction(e, "PENDING") /\ pendq' = Updated(pendq, e)
<1>1. boot = "online" /\ op.at = "rejected" /\ op.tx \in Entry
  BY OperationType DEF CloseOut, At
<1>2. \A e \in Entry : LET f == [Emptied(e) EXCEPT !.failed = TRUE] IN
        f \in Entry /\ SameLinks(f, e) /\ f.payload = Noop /\ f.hash = None
  BY DEF Entry, Emptied, SameLinks, Payload
<1>3. PICK e \in Entry : e = [Emptied(op.tx) EXCEPT !.failed = TRUE]
  BY <1>1, <1>2
<1>4. SaveTransaction(e, "PENDING") /\ pendq' = Updated(pendq, e)
  BY <1>3 DEF CloseOut
<1>5. SameLinks(e, op.tx) /\ e.payload = Noop /\ e.hash = None
  BY <1>1, <1>2, <1>3
<1> QED
  BY <1>1, <1>4, <1>5 DEF CloseOut, nodeVars

\* find_landed_attempt returns an attempt of the transaction that the node knows.
LEMMA FirstLandedKnown ==
  ASSUME TypeOK, NEW t \in TxId
  PROVE  /\ FirstLanded(t) # None =>
              RecordedFor(t, FirstLanded(t)) /\ Exists(FirstLanded(t))
         /\ FirstLanded(t) = None => \A i \in DOMAIN audit[t] : ~Exists(audit[t][i])
<1> DEFINE a == audit[t]
           absent == {i \in 1..Len(a) : \A j \in 1..i : ~Exists(a[j])}
           k == Cardinality(absent) + 1
<1>1. a \in Seq(Hash) /\ Len(a) \in Nat /\ DOMAIN a = 1..Len(a)
  BY DEF TypeOK
<1>2. absent # 1..Len(a) => k \in 1..Len(a)
  BY <1>1, PositionCount
<1>3. FirstLanded(t) = IF absent = 1..Len(a) THEN None ELSE a[k]
  BY DEF FirstLanded
<1>4. \A i \in 1..Len(a) : a[i] \in Hash
  BY <1>1
<1>5. absent # 1..Len(a) => Exists(a[k])
  <2>1. SUFFICES ASSUME absent # 1..Len(a), ~Exists(a[k])
                 PROVE  FALSE
    OBVIOUS
  <2>2. k \in 1..Len(a) /\ Cardinality(absent) \in Nat
    BY <1>2, <2>1, <1>1, PositionCount
  <2>3. \A i \in absent : \A j \in 1..i : j \in absent
    BY <1>1
  <2>4. absent = 1..(k - 1)
    <3>1. absent \in SUBSET (1..Len(a))
      OBVIOUS
    <3>2. k - 1 = Cardinality(absent)
      BY <2>2
    <3> HIDE DEF absent, k, a
    <3>3. absent = 1..Cardinality(absent)
      BY <1>1, <2>3, <3>1, PrefixClosed
    <3> QED
      BY <3>2, <3>3
  <2>5. \A j \in 1..(k - 1) : ~Exists(a[j])
    <3>1. \A j \in absent : ~Exists(a[j])
      BY <1>1
    <3> QED
      BY <2>4, <3>1
  <2>6. \A j \in 1..k : ~Exists(a[j])
    <3>1. \A j \in 1..k : j = k \/ j \in 1..(k - 1)
      BY <2>2
    <3> HIDE DEF a, k, absent
    <3> QED
      BY <2>1, <2>5, <3>1
  <2>7. k \in absent
    BY <2>2, <2>6
  <2>8. k \notin 1..(k - 1)
    BY <2>2
  <2> QED
    BY <2>4, <2>7, <2>8
<1>6. FirstLanded(t) # None => RecordedFor(t, FirstLanded(t)) /\ Exists(FirstLanded(t))
  <2> HIDE DEF a, k, absent
  <2>1. FirstLanded(t) # None => absent # 1..Len(a) /\ FirstLanded(t) = a[k]
    BY <1>3
  <2>2. FirstLanded(t) # None => \E i \in DOMAIN a : a[i] = FirstLanded(t)
    BY <1>1, <1>2, <2>1
  <2> QED
    BY <1>5, <2>1, <2>2 DEF RecordedFor, a
<1>7. ASSUME FirstLanded(t) = None PROVE \A i \in DOMAIN audit[t] : ~Exists(audit[t][i])
  <2>1. absent = 1..Len(a)
    <3> HIDE DEF a, k, absent
    <3> QED
      BY <1>2, <1>3, <1>4, <1>7, NoneIsNoHash
  <2>2. \A i \in absent : ~Exists(a[i])
    BY <1>1
  <2> QED
    BY <1>1, <2>1, <2>2
<1> QED
  BY <1>6, <1>7

\* An attempt that the node knows is adopted, unless its row has failed.
LEMMA AdoptLandedEffect ==
  ASSUME TypeOK, AdoptLanded
  PROVE  /\ boot = "online" /\ op.at = "conflict" /\ op.kind = "pending" /\ op.tx \in Entry
         /\ op' = Idle
         /\ UNCHANGED <<audit, minedq, nm, boot, expired, moved, chain, pool, stray, left>>
         /\ \E e \in Entry :
              /\ SameLinks(e, op.tx) /\ e.payload = op.tx.payload
              /\ e.hash # None /\ RecordedFor(e.id, e.hash) /\ Exists(e.hash)
              /\ \/ SetSent(e.id, e.hash) /\ MovePendingToInmempool(e)
                 \/ UNCHANGED <<db, pendq, inq>>
<1>1. /\ boot = "online" /\ op.at = "conflict" /\ op.kind = "pending"
      /\ op.tx \in Entry /\ op.tx.id \in TxId
  BY OperationType DEF AdoptLanded, At
<1>2. FirstLanded(op.tx.id) # None
  BY DEF AdoptLanded
<1>3. PICK h \in Hash : h = FirstLanded(op.tx.id) /\ h # None
  BY <1>1, <1>2, FirstLandedType
<1>4. RecordedFor(op.tx.id, h) /\ Exists(h)
  BY <1>1, <1>2, <1>3, FirstLandedKnown
<1>5. \A f \in Entry : LET e == [f EXCEPT !.hash = h] IN
        e \in Entry /\ SameLinks(e, f) /\ e.payload = f.payload /\ e.hash = h
  BY <1>3 DEF Entry, SameLinks
<1>6. PICK e \in Entry : e = [op.tx EXCEPT !.hash = h]
  BY <1>1, <1>5
<1>7. SameLinks(e, op.tx) /\ e.payload = op.tx.payload /\ e.hash = h /\ e.id = op.tx.id
  BY <1>1, <1>5, <1>6 DEF SameLinks
<1>8. \/ SetSent(e.id, e.hash) /\ MovePendingToInmempool(e)
      \/ UNCHANGED <<db, pendq, inq>>
  BY <1>3, <1>6, <1>7 DEF AdoptLanded
<1> QED
  BY <1>1, <1>3, <1>4, <1>7, <1>8 DEF AdoptLanded, nodeVars

\* persist_then_advance_transaction_nonce: one row gets a nonce that no counter has given.
LEMMA ReassignedRow ==
  ASSUME TypeOK, NEW e \in Entry, PersistThenAdvanceNonce(e)
  PROVE  \E n \in Nat :
           /\ n = RecoveredNonce /\ nm <= n /\ nm' = n + 1
           /\ db'[e.id].status = db[e.id].status
           /\ db'[e.id].tx = [db[e.id].tx EXCEPT !.nonce = n]
           /\ \A t \in TxId : t # e.id => db'[t] = db[t]
<1>1. RecoveredNonce \in Nat /\ nm \in Nat /\ e.id \in TxId /\ db \in [TxId -> Row]
  BY RecoveredNonceType DEF TypeOK, Entry
<1>2. nm <= RecoveredNonce
  BY <1>1, PendingNonceType, CounterGrows DEF RecoveredNonce, TypeOK
<1>3. PICK n \in Nat : n = RecoveredNonce
  BY <1>1
<1>4. nm' = n + 1
  BY <1>1, <1>2, <1>3 DEF PersistThenAdvanceNonce, AdvancedPast
<1>5. db' = [db EXCEPT ![e.id] = [db[e.id] EXCEPT !.tx = [db[e.id].tx EXCEPT !.nonce = n]]]
  BY <1>3 DEF PersistThenAdvanceNonce
<1>6. \A r \in Row : \A x : [r EXCEPT !.tx = x].status = r.status /\ [r EXCEPT !.tx = x].tx = x
  BY DEF Row
<1>7. db[e.id] \in Row
  BY <1>1
<1> QED
  BY <1>1, <1>2, <1>3, <1>4, <1>5, <1>6, <1>7

\* Another nonce changes nothing else of an entry.
AtNonce(e, n) == [e EXCEPT !.nonce = n]

LEMMA AtNonceType ==
  ASSUME NEW e \in Entry, NEW n \in Nat
  PROVE  /\ AtNonce(e, n) \in Entry /\ AtNonce(e, n).nonce = n
         /\ AtNonce(e, n).id = e.id /\ AtNonce(e, n).payload = e.payload
         /\ AtNonce(e, n).hash = e.hash /\ AtNonce(e, n).failed = e.failed
         /\ AtNonce(e, n).by = e.by /\ AtNonce(e, n).ext = e.ext
  BY DEF AtNonce, Entry

\* A queue read or sorted by nonce has every entry once.
LEMMA SortedOnce ==
  /\ \A S, q : q \in EntriesByNonce(S) =>
       /\ \A i \in DOMAIN q : q[i] \in S
       /\ \A i, j \in DOMAIN q : q[i] = q[j] => i = j
  /\ \A S, q : q \in ContestsByNonce(S) =>
       /\ \A i \in DOMAIN q : q[i] \in S
       /\ \A i, j \in DOMAIN q : q[i] = q[j] => i = j
  BY DEF EntriesByNonce, ContestsByNonce, SetToSeqs

\* The pending entry of the transaction gets the new nonce, the others keep theirs.
LEMMA ReassignPendingEffect ==
  ASSUME TypeOK, ReassignPending
  PROVE  /\ boot = "online" /\ op.at = "conflict" /\ op.kind = "pending" /\ op.tx \in Entry
         /\ op' = Idle
         /\ \A i \in DOMAIN audit[op.tx.id] : ~Exists(audit[op.tx.id][i])
         /\ UNCHANGED <<audit, inq, minedq, boot, expired, moved, chain, pool, stray, left>>
         /\ \A i, j \in DOMAIN pendq' : pendq'[i] = pendq'[j] => i = j
         /\ \E n \in Nat :
              /\ nm <= n /\ nm' = n + 1
              /\ db'[op.tx.id].status = db[op.tx.id].status
              /\ db'[op.tx.id].tx = AtNonce(db[op.tx.id].tx, n)
              /\ \A t \in TxId : t # op.tx.id => db'[t] = db[t]
              /\ \A e \in Pending' : \E f \in Pending :
                   e = IF f.id = op.tx.id THEN AtNonce(f, n) ELSE f
<1>1. /\ boot = "online" /\ op.at = "conflict" /\ op.kind = "pending"
      /\ op.tx \in Entry /\ op.tx.id \in TxId
  BY OperationType DEF ReassignPending, At
<1>2. /\ FirstLanded(op.tx.id) = None /\ PersistThenAdvanceNonce(op.tx) /\ op' = Idle
      /\ UNCHANGED <<audit, inq, minedq, boot, expired, moved, nodeVars>>
      /\ pendq' \in EntriesByNonce({Renumbered(pendq[i], op.tx.id) : i \in DOMAIN pendq})
  BY DEF ReassignPending
<1>3. \A i \in DOMAIN audit[op.tx.id] : ~Exists(audit[op.tx.id][i])
  BY <1>1, <1>2, FirstLandedKnown
<1>4. PICK n \in Nat :
        /\ n = RecoveredNonce /\ nm <= n /\ nm' = n + 1
        /\ db'[op.tx.id].status = db[op.tx.id].status
        /\ db'[op.tx.id].tx = [db[op.tx.id].tx EXCEPT !.nonce = n]
        /\ \A t \in TxId : t # op.tx.id => db'[t] = db[t]
  BY <1>1, <1>2, ReassignedRow
<1>5. \A f \in Entry : Renumbered(f, op.tx.id) = IF f.id = op.tx.id THEN AtNonce(f, n) ELSE f
  BY <1>4 DEF Renumbered, AtNonce, Entry
<1>6. /\ \A i \in DOMAIN pendq' :
           pendq'[i] \in {Renumbered(pendq[j], op.tx.id) : j \in DOMAIN pendq}
      /\ \A i, j \in DOMAIN pendq' : pendq'[i] = pendq'[j] => i = j
  BY <1>2, SortedOnce
<1>7. ASSUME NEW e \in Pending'
      PROVE  \E f \in Pending : e = IF f.id = op.tx.id THEN AtNonce(f, n) ELSE f
  <2>1. PICK i \in DOMAIN pendq' : e = pendq'[i]
    BY HeldPositionsAfter
  <2>2. PICK j \in DOMAIN pendq : e = Renumbered(pendq[j], op.tx.id)
    BY <1>6, <2>1
  <2>3. pendq[j] \in Pending /\ pendq[j] \in Entry
    BY HeldType DEF Pending
  <2> QED
    BY <1>5, <2>2, <2>3
<1>8. db'[op.tx.id].tx = AtNonce(db[op.tx.id].tx, n)
  BY <1>4 DEF AtNonce
<1> QED
  BY <1>1, <1>2, <1>3, <1>4, <1>6, <1>7, <1>8 DEF nodeVars

\* The active side of the front gets the new nonce.
LEMMA ReassignInmempoolEffect ==
  ASSUME TypeOK, ReassignInmempool
  PROVE  /\ boot = "online" /\ op.at = "conflict" /\ op.kind = "bump" /\ op.tx \in Entry
         /\ op' = Idle /\ moved' = moved \cup {op.tx.id}
         /\ UNCHANGED <<audit, pendq, minedq, boot, expired, chain, pool, stray, left>>
         /\ \E n \in Nat :
              /\ nm <= n /\ nm' = n + 1
              /\ db'[op.tx.id].status = db[op.tx.id].status
              /\ db'[op.tx.id].tx = AtNonce(db[op.tx.id].tx, n)
              /\ \A t \in TxId : t # op.tx.id => db'[t] = db[t]
              /\ inq' = [inq EXCEPT ![1] = WithTx(inq[1], AtNonce(Active(inq[1]), n))]
<1>1. /\ boot = "online" /\ op.at = "conflict" /\ op.kind = "bump"
      /\ op.tx \in Entry /\ op.tx.id \in TxId
  BY OperationType DEF ReassignInmempool, At
<1>2. /\ PersistThenAdvanceNonce(op.tx) /\ op' = Idle /\ moved' = moved \cup {op.tx.id}
      /\ UNCHANGED <<audit, pendq, minedq, boot, expired, nodeVars>>
      /\ inq' = [inq EXCEPT ![1] =
                   WithTx(inq[1], [Active(inq[1]) EXCEPT !.nonce = RecoveredNonce])]
  BY DEF ReassignInmempool
<1>3. PICK n \in Nat :
        /\ n = RecoveredNonce /\ nm <= n /\ nm' = n + 1
        /\ db'[op.tx.id].status = db[op.tx.id].status
        /\ db'[op.tx.id].tx = [db[op.tx.id].tx EXCEPT !.nonce = n]
        /\ \A t \in TxId : t # op.tx.id => db'[t] = db[t]
  BY <1>1, <1>2, ReassignedRow
<1>4. /\ db'[op.tx.id].tx = AtNonce(db[op.tx.id].tx, n)
      /\ inq' = [inq EXCEPT ![1] = WithTx(inq[1], AtNonce(Active(inq[1]), n))]
  BY <1>2, <1>3 DEF AtNonce
<1> QED
  BY <1>1, <1>2, <1>3, <1>4 DEF nodeVars

\* A handler that stops leaves the rows and the queues alone.
LEMMA StopEffect ==
  ASSUME TypeOK, ConflictMined \/ StepFails
  PROVE  /\ boot = "online" /\ op' = Idle
         /\ UNCHANGED <<rowVars, queueVars, boot, expired, moved, chain, pool, stray>>
  BY DEF ConflictMined, StepFails, At, nodeVars

\* The loser of a decided contest, ready to be written.
LEMMA LoserIs ==
  ASSUME NEW c \in Contest, c.comp # None
  PROVE  /\ Loser(c) \in Entry
         /\ Loser(c).id = c.orig.id /\ Loser(c).nonce = c.orig.nonce
         /\ Loser(c).hash = c.orig.hash /\ Loser(c).ext = c.orig.ext
         /\ Loser(c).payload \in {c.orig.payload, Noop}
         /\ Loser(c).by \in {c.orig.by, c.comp.id}
         /\ c.kind \in {"cancel", "replace"}
<1>1. c.orig \in Entry /\ c.comp \in Entry /\ c.kind \in {"cancel", "replace"}
  BY DEF Contest
<1>2. c.comp.id \in TxId
  BY <1>1 DEF Entry
<1>4. CASE c.kind = "cancel"
  <2>1. Loser(c) = [c.orig EXCEPT !.payload = Noop, !.by = c.comp.id]
    BY <1>4 DEF Loser
  <2>2. PICK e \in Entry, b \in TxId : e = c.orig /\ b = c.comp.id
    BY <1>1, <1>2
  <2>3. LET f == [e EXCEPT !.payload = Noop, !.by = b] IN
        /\ f \in Entry /\ f.id = e.id /\ f.nonce = e.nonce /\ f.hash = e.hash
        /\ f.ext = e.ext /\ f.payload = Noop /\ f.by = b
    BY DEF Entry, Payload
  <2>4. Loser(c) = [e EXCEPT !.payload = Noop, !.by = b]
    BY <2>1, <2>2
  <2> QED
    BY <1>1, <2>2, <2>3, <2>4
<1>5. CASE c.kind # "cancel"
  BY <1>1, <1>5 DEF Loser
<1> QED
  BY <1>4, <1>5

\* What a receipt writes: a mined winner's row takes what was signed, and another only its
\* status.
WinnerRow(x, a, s) ==
  /\ x.id = db[a.id].tx.id /\ x.by = db[a.id].tx.by /\ x.ext = db[a.id].tx.ext
  /\ IF s = "MINED"
     THEN x.payload = a.payload /\ x.nonce = a.nonce /\ x.hash = a.hash
     ELSE /\ x.payload = db[a.id].tx.payload /\ x.nonce = db[a.id].tx.nonce
          /\ x.hash = db[a.id].tx.hash

LEMMA ResolvedIs ==
  ASSUME TypeOK, NEW a \in Entry, NEW s \in {"MINED", "FAILED", "EXPIRED"}
  PROVE  Resolved(a, s) \in Entry /\ WinnerRow(Resolved(a, s), a, s)
<1>1. Resolved(a, s) \in Entry
  BY ResolvedType
<1>2. db[a.id].tx \in Entry
  BY DEF TypeOK, Entry, Row
<1>3. PICK e \in Entry : e = db[a.id].tx
  BY <1>2
<1>4. CASE s = "MINED"
  <2>1. Resolved(a, s) = [e EXCEPT !.payload = a.payload, !.nonce = a.nonce, !.hash = a.hash]
    BY <1>3, <1>4 DEF Resolved
  <2>2. LET f == [e EXCEPT !.payload = a.payload, !.nonce = a.nonce, !.hash = a.hash]
        IN  /\ f.id = e.id /\ f.by = e.by /\ f.ext = e.ext
            /\ f.payload = a.payload /\ f.nonce = a.nonce /\ f.hash = a.hash
    BY DEF Entry
  <2> QED
    BY <1>1, <1>3, <1>4, <2>1, <2>2 DEF WinnerRow
<1>5. CASE s = "FAILED"
  <2>1. Resolved(a, s) = [e EXCEPT !.failed = TRUE]
    BY <1>3, <1>5 DEF Resolved
  <2>2. LET f == [e EXCEPT !.failed = TRUE]
        IN  /\ f.id = e.id /\ f.by = e.by /\ f.ext = e.ext
            /\ f.payload = e.payload /\ f.nonce = e.nonce /\ f.hash = e.hash
    BY DEF Entry
  <2> QED
    BY <1>1, <1>3, <1>5, <2>1, <2>2 DEF WinnerRow
<1>6. CASE s = "EXPIRED"
  BY <1>1, <1>6 DEF Resolved, WinnerRow
<1> QED
  BY <1>4, <1>5, <1>6

\* A receipt for the front of the in-mempool queue.
LEMMA ResolveReceiptEffect ==
  ASSUME TypeOK, ResolveReceipt
  PROVE  /\ op = Idle /\ boot = "online" /\ inq # <<>>
         /\ UNCHANGED <<audit, pendq, nm, boot, expired, moved, chain, pool, stray, left>>
         /\ inq' = Tail(inq)
         /\ \E a \in Entry, x \in Entry, s \in {"MINED", "FAILED", "EXPIRED"} :
              /\ a = Active(Head(inq)) /\ a.hash # None
              /\ s = "MINED" => MinedOk(a.hash)
              /\ WinnerRow(x, a, s) /\ SaveTransaction(x, s)
              /\ minedq' = IF s = "MINED" THEN minedq \cup {a.id} ELSE minedq
              /\ IF s = "MINED" /\ Head(inq).comp # None
                 THEN /\ op'.at = "settling" /\ op'.kind = Head(inq).kind
                      /\ op'.tx = Loser(Head(inq))
                 ELSE op' = Idle
<1>1. /\ inq # <<>> /\ op = Idle /\ boot = "online"
      /\ UNCHANGED <<audit, pendq, nm, boot, expired, moved, chain, pool, stray, left>>
  BY DEF ResolveReceipt, Ready, nodeVars
<1> DEFINE c == Head(inq)
<1>2. PICK b \in Receipts :
        /\ Active(c).hash # None /\ b.hash = Active(c).hash
        /\ LET s == Outcome(c, b.ok)
           IN  /\ MoveInmempoolToMining(s)
               /\ SaveTransaction(Resolved(Active(c), s), s)
               /\ op' = IF s = "MINED" /\ c.comp # None
                        THEN [at |-> "settling", kind |-> c.kind, tx |-> Loser(c)]
                        ELSE Idle
  BY DEF ResolveReceipt
<1>3. PICK a \in Entry : a = Active(c)
  BY <1>1, FrontOfInmempool
<1>4. PICK s \in {"MINED", "FAILED", "EXPIRED"} : s = Outcome(c, b.ok)
  BY OutcomeType
<1>5. PICK x \in Entry : x = Resolved(a, s)
  BY ResolvedIs
<1>6. WinnerRow(x, a, s)
  BY <1>5, ResolvedIs
<1>7. /\ MoveInmempoolToMining(s) /\ SaveTransaction(x, s)
      /\ op' = IF s = "MINED" /\ c.comp # None
               THEN [at |-> "settling", kind |-> c.kind, tx |-> Loser(c)]
               ELSE Idle
      /\ a.hash # None /\ b.hash = a.hash
  BY <1>2, <1>3, <1>4, <1>5
<1>8. s = "MINED" => MinedOk(a.hash)
  <2>1. s = "MINED" => b.ok
    BY <1>4 DEF Outcome
  <2> QED
    BY <1>7, <2>1 DEF MinedOk
<1>9. inq' = Tail(inq) /\ minedq' = IF s = "MINED" THEN minedq \cup {a.id} ELSE minedq
  BY <1>3, <1>7 DEF MoveInmempoolToMining
<1>10. IF s = "MINED" /\ c.comp # None
       THEN op'.at = "settling" /\ op'.kind = c.kind /\ op'.tx = Loser(c)
       ELSE op' = Idle
  <2> HIDE DEF c
  <2> QED
    BY <1>7
<1> QED
  BY <1>1, <1>3, <1>6, <1>7, <1>8, <1>9, <1>10

\* The same with the winner's row unwritten.
LEMMA ResolveReceiptUnsavedEffect ==
  ASSUME TypeOK, ResolveReceiptUnsaved
  PROVE  /\ op = Idle /\ boot = "online" /\ inq # <<>>
         /\ UNCHANGED <<rowVars, pendq, nm, boot, op, expired, moved, chain, pool, stray>>
         /\ inq' = Tail(inq)
         /\ LET a == Active(Head(inq))
            IN  /\ a.hash # None
                /\ \/ minedq' = minedq
                   \/ minedq' = minedq \cup {a.id} /\ MinedOk(a.hash)
<1>1. /\ inq # <<>> /\ op = Idle /\ boot = "online"
      /\ UNCHANGED <<rowVars, pendq, nm, boot, op, expired, moved, chain, pool, stray>>
  BY DEF ResolveReceiptUnsaved, Ready
<1> DEFINE c == Head(inq)
<1>2. PICK b \in Receipts :
        /\ Active(c).hash # None /\ b.hash = Active(c).hash
        /\ MoveInmempoolToMining(Outcome(c, b.ok))
  BY DEF ResolveReceiptUnsaved
<1>3. Outcome(c, b.ok) = "MINED" => b.ok
  BY DEF Outcome
<1>4. /\ inq' = Tail(inq)
      /\ minedq' = IF Outcome(c, b.ok) = "MINED" THEN minedq \cup {Active(c).id} ELSE minedq
  BY <1>2 DEF MoveInmempoolToMining
<1> HIDE DEF c
<1>5. /\ Active(c).hash # None
      /\ \/ minedq' = minedq
         \/ minedq' = minedq \cup {Active(c).id} /\ MinedOk(Active(c).hash)
  BY <1>2, <1>3, <1>4 DEF MinedOk
<1> QED
  BY <1>1, <1>4, <1>5 DEF c

\* The loser is written, and the handler ends.
LEMMA SettleLoserEffect ==
  ASSUME TypeOK, SettleLoser
  PROVE  /\ boot = "online" /\ op.at = "settling" /\ op.tx \in Entry /\ op' = Idle
         /\ SaveTransaction(op.tx, IF op.kind = "cancel" THEN "CANCELLED" ELSE "REPLACED")
         /\ UNCHANGED <<audit, queueVars, boot, expired, moved, chain, pool, stray, left>>
  BY OperationType DEF SettleLoser, At, nodeVars

\* Every repair at startup, failed or not, keeps what a row says besides its status, its hash
\* and its failure.
Repairing == RepairPoisoned \/ RepairAttempts \/ Setback

LEMMA RepairEffect ==
  ASSUME TypeOK, Repairing
  PROVE  /\ boot # "online" /\ boot' # "online"
         /\ UNCHANGED <<audit, queueVars, op, expired, moved, chain, pool, stray>>
         /\ \A t \in TxId :
              \/ db'[t] = db[t]
              \/ /\ db[t].status = "PENDING" /\ db'[t].status \in {"INMEMPOOL", "FAILED"}
                 /\ SameLinks(db'[t].tx, db[t].tx) /\ db'[t].tx.payload = db[t].tx.payload
                 /\ db'[t].tx.hash = db[t].tx.hash \/ RecordedFor(t, db'[t].tx.hash)
<1>1. \A r \in Row :
        /\ [r EXCEPT !.status = "FAILED"].status = "FAILED"
        /\ [r EXCEPT !.status = "FAILED"].tx = r.tx
  BY DEF Row
<1>2. \A e \in Entry :
        LET f == [e EXCEPT !.failed = TRUE] IN
          SameLinks(f, e) /\ f.payload = e.payload /\ f.hash = e.hash
  BY DEF Entry, SameLinks
<1>3. \A e \in Entry : \A h :
        LET f == [e EXCEPT !.hash = h] IN
          SameLinks(f, e) /\ f.payload = e.payload /\ f.hash = h
  BY DEF Entry, SameLinks
<1>4. \A e : SameLinks(e, e)
  BY DEF SameLinks
<1>5. CASE RepairPoisoned
  <2> SUFFICES ASSUME NEW t \in TxId
               PROVE  \/ db'[t] = db[t]
                      \/ /\ db[t].status = "PENDING" /\ db'[t].status = "FAILED"
                         /\ db'[t].tx = db[t].tx
    BY <1>4, <1>5 DEF RepairPoisoned, nodeVars
  <2>1. db[t] \in Row
    BY RowTx
  <2>2. db'[t] = IF t \in With("PENDING") /\ db[t].tx.failed /\ db[t].tx.hash = None
                 THEN [db[t] EXCEPT !.status = "FAILED"] ELSE db[t]
    BY <1>5 DEF RepairPoisoned
  <2> QED
    BY <1>1, <2>1, <2>2 DEF With
<1>6. CASE RepairAttempts
  <2> SUFFICES ASSUME NEW t \in TxId
               PROVE  \/ db'[t] = db[t]
                      \/ /\ db[t].status = "PENDING" /\ db'[t].status \in {"INMEMPOOL", "FAILED"}
                         /\ SameLinks(db'[t].tx, db[t].tx)
                         /\ db'[t].tx.payload = db[t].tx.payload
                         /\ db'[t].tx.hash = db[t].tx.hash \/ RecordedFor(t, db'[t].tx.hash)
    BY <1>6 DEF RepairAttempts, nodeVars
  <2>1. db[t].tx \in Entry
    BY RowTx
  <2>2. db'[t] = RepairedRow(t)
    BY <1>6 DEF RepairAttempts
  <2>3. CASE db'[t] = db[t]
    BY <2>3
  <2>4. CASE db'[t] # db[t]
    <3>1. db[t].status = "PENDING"
      BY <2>2, <2>4 DEF RepairedRow, With
    <3>2. CASE FirstLanded(t) # None
      <4>1. /\ db'[t].status = "INMEMPOOL"
            /\ db'[t].tx = [db[t].tx EXCEPT !.hash = FirstLanded(t)]
        BY <2>2, <2>4, <3>2 DEF RepairedRow
      <4>2. RecordedFor(t, FirstLanded(t))
        BY <3>2, FirstLandedKnown
      <4> QED
        BY <1>3, <2>1, <3>1, <4>1, <4>2
    <3>3. CASE FirstLanded(t) = None
      <4>1. db'[t].status = "FAILED" /\ db'[t].tx = [db[t].tx EXCEPT !.failed = TRUE]
        BY <2>2, <2>4, <3>3 DEF RepairedRow
      <4> QED
        BY <1>2, <2>1, <3>1, <4>1
    <3> QED
      BY <3>2, <3>3
  <2> QED
    BY <2>3, <2>4
<1>7. CASE Setback
  <2>1. ASSUME NEW t \in TxId, db'[t] # db[t]
        PROVE  /\ db[t].status = "PENDING" /\ db'[t].status = "INMEMPOOL"
               /\ SameLinks(db'[t].tx, db[t].tx) /\ db'[t].tx.payload = db[t].tx.payload
               /\ RecordedFor(t, db'[t].tx.hash)
    <3>1. /\ db[t].status = "PENDING" /\ db'[t].status = "INMEMPOOL"
          /\ FirstLanded(t) # None
          /\ db'[t].tx = [db[t].tx EXCEPT !.hash = FirstLanded(t)]
      <4>1. /\ t \in With("PENDING") /\ db[t].tx.hash # None /\ ~db[t].tx.failed
            /\ FirstLanded(t) # None /\ db'[t] = RepairedRow(t)
        BY <1>7, <2>1, SetbackRow
      <4>2. db'[t] = [status |-> "INMEMPOOL", tx |-> [db[t].tx EXCEPT !.hash = FirstLanded(t)]]
        BY <4>1 DEF RepairedRow
      <4> QED
        BY <4>1, <4>2 DEF With
    <3>2. db[t].tx \in Entry /\ RecordedFor(t, FirstLanded(t))
      BY <3>1, RowTx, FirstLandedKnown
    <3> QED
      BY <1>3, <3>1, <3>2
  <2>2. /\ boot # "online" /\ boot' # "online"
        /\ UNCHANGED <<audit, queueVars, op, expired, moved, chain, pool, stray>>
    BY <1>7, SetbackEffect DEF queueVars
  <2> QED
    BY <2>1, <2>2
<1> QED
  BY <1>5, <1>6, <1>7 DEF Repairing

\* Startup's queues hold what the open rows hold.
LEMMA LoadQueuesEffect ==
  ASSUME TypeOK, LoadQueues
  PROVE  /\ boot = "repaired" /\ boot' = "online"
         /\ UNCHANGED <<rowVars, op, expired, moved, chain, pool, stray, left>>
         /\ minedq' = With("MINED")
         /\ \A i \in DOMAIN pendq' : \E t \in With("PENDING") : pendq'[i] = db[t].tx
         /\ \A i, j \in DOMAIN pendq' : pendq'[i] = pendq'[j] => i = j
         /\ \A i \in DOMAIN inq' : inq'[i] \in Contests
         /\ \A i, j \in DOMAIN inq' : inq'[i] = inq'[j] => i = j
         /\ \A e \in Pending' : \E t \in With("PENDING") : e = db[t].tx
         /\ \A e \in InMempool' : \E t \in With("INMEMPOOL") : e = db[t].tx
<1>1. /\ boot = "repaired" /\ boot' = "online" /\ minedq' = With("MINED")
      /\ UNCHANGED <<rowVars, op, expired, moved, nodeVars>>
      /\ pendq' \in EntriesByNonce(PendingEntries)
      /\ inq' \in ContestsByNonce(Contests)
  BY DEF LoadQueues
<1>2. \A e \in PendingEntries : \E t \in With("PENDING") : e = db[t].tx
  BY DEF PendingEntries
<1>3. /\ \A i \in DOMAIN pendq' : pendq'[i] \in PendingEntries
      /\ \A i, j \in DOMAIN pendq' : pendq'[i] = pendq'[j] => i = j
      /\ \A i \in DOMAIN inq' : inq'[i] \in Contests
      /\ \A i, j \in DOMAIN inq' : inq'[i] = inq'[j] => i = j
  BY <1>1, SortedOnce
<1>4. ASSUME NEW c \in Contests
      PROVE  Sides(c) \subseteq LiveEntries
  <2>1. PICK e \in LiveEntries : c = ContestOf(e)
    BY DEF Contests
  <2>2. c.orig \in LiveEntries /\ c.comp \in LiveEntries \cup {None}
    BY <2>1, ContestOfType
  <2> QED
    BY <2>2 DEF Sides
<1>5. \A e \in LiveEntries : \E t \in With("INMEMPOOL") : e = db[t].tx
  BY DEF LiveEntries
<1>6. \A e \in InMempool' : \E t \in With("INMEMPOOL") : e = db[t].tx
  BY <1>3, <1>4, <1>5, HeldPositionsAfter
<1>7. \A e \in Pending' : \E t \in With("PENDING") : e = db[t].tx
  BY <1>2, <1>3, HeldPositionsAfter
<1> QED
  BY <1>1, <1>2, <1>3, <1>6, <1>7 DEF nodeVars

\* A process that is gone holds nothing.
LEMMA CrashEffect ==
  ASSUME Crash
  PROVE  /\ boot' = "down" /\ op' = Idle /\ minedq' = {} /\ pendq' = <<>> /\ inq' = <<>>
         /\ Pending' = {} /\ InMempool' = {} /\ InFlight' = {}
         /\ UNCHANGED <<rowVars, expired, moved, chain, pool, stray>>
<1>1. /\ boot' = "down" /\ op' = Idle /\ minedq' = {} /\ pendq' = <<>> /\ inq' = <<>>
      /\ UNCHANGED <<rowVars, expired, moved, chain, pool, stray>>
  BY DEF Crash
<1>2. DOMAIN pendq' = {} /\ DOMAIN inq' = {}
  BY <1>1
<1> QED
  BY <1>1, <1>2, HeldPositionsAfter DEF Idle

-----------------------------------------------------------------------------
(***************************************************************************)
(* A MINED row has a receipt.                                               *)
(***************************************************************************)
OnRecord(e) == e.hash = None \/ RecordedFor(e.id, e.hash)

RowsRecorded == \A t \in TxId : db[t].tx.id = t /\ OnRecord(db[t].tx)

HeldRecorded == \A e \in Held : OnRecord(e)

\* What is on its way to the node, or has been taken by it, is signed.
FlightSigned ==
  op.at \in {"persisted", "accepted", "conflict", "linking"} => op.tx.hash # None

\* The induction: no hash, in a row or in memory, is of an attempt that is not on record.
HashesRecorded == RowsRecorded /\ HeldRecorded /\ FlightSigned

Landed(t) == \E i \in DOMAIN audit[t] : MinedOk(audit[t][i])

\* What is confirmed or waits for it has an attempt that was mined; a MINED row names it.
MinedRecorded ==
  \A t \in TxId :
    /\ t \in minedq \/ db[t].status \in {"MINED", "CONFIRMED"} => Landed(t)
    /\ db[t].status = "MINED" => db[t].tx.hash # None /\ MinedOk(db[t].tx.hash)

\* The audit log never loses what it has for a transaction.
LEMMA RecordedForStays ==
  ASSUME TypeOK, [Next]_vars, NEW t \in TxId, NEW h, RecordedFor(t, h)
  PROVE  RecordedFor(t, h)'
<1>1. CASE UNCHANGED audit
  BY <1>1 DEF RecordedFor
<1>2. CASE \E e \in Entry, s \in Status, k \in Kind, n \in Nat : Send(e, s, k, n)
  <2>1. PICK e \in Entry, s \in Status, k \in Kind, n \in Nat : Send(e, s, k, n)
    BY <1>2
  <2>2. PICK gas \in Prices(n) : RecordAttempt(Signed(e, gas), s)
    BY <2>1 DEF Send
  <2>3. Signed(e, gas) \in Entry
    BY PricesType, SignedType
  <2>4. \A i \in DOMAIN audit[t] : i \in DOMAIN audit'[t] /\ audit'[t][i] = audit[t][i]
    BY <2>2, <2>3, RecordAttemptRecords
  <2> QED
    BY <2>4 DEF RecordedFor
<1> QED
  BY <1>1, <1>2, OnlySendsRecord

\* An entry whose hash is on record stays one.
LEMMA OnRecordStays ==
  ASSUME TypeOK, [Next]_vars, NEW e \in Entry, OnRecord(e)
  PROVE  OnRecord(e)'
<1>1. e.id \in TxId
  BY DEF Entry
<1> QED
  BY <1>1, RecordedForStays DEF OnRecord

\* A row saved from an entry on record, the others as they were.
LEMMA SaveRecorded ==
  ASSUME TypeOK, [Next]_vars, RowsRecorded, NEW e \in Entry, OnRecord(e), NEW s,
         SaveTransaction(e, s)
  PROVE  RowsRecorded'
<1>0. /\ e.id \in TxId /\ db'[e.id] = [status |-> s, tx |-> e]
      /\ \A t \in TxId : t # e.id => db'[t] = db[t]
  BY SaveTransactionRows
<1>1. /\ e.id \in TxId /\ db'[e.id].tx = e
      /\ \A t \in TxId : t # e.id => db'[t] = db[t]
  BY <1>0
<1>2. OnRecord(e)'
  BY OnRecordStays
<1>3. \A t \in TxId : db[t].tx \in Entry
  BY RowTx
<1>4. \A t \in TxId : t # e.id => db'[t].tx.id = t /\ OnRecord(db[t].tx)
  BY <1>1 DEF RowsRecorded
<1>5. ASSUME NEW t \in TxId PROVE db'[t].tx.id = t /\ OnRecord(db[t].tx)'
  <2>1. CASE t = e.id
    BY <1>1, <1>2, <2>1 DEF OnRecord, RecordedFor
  <2>2. CASE t # e.id
    <3>1. PICK f \in Entry : f = db[t].tx
      BY <1>3
    <3>2. OnRecord(f)'
      BY <1>4, <2>2, <3>1, OnRecordStays
    <3> QED
      BY <1>1, <1>4, <2>2, <3>1, <3>2 DEF OnRecord, RecordedFor
  <2> QED
    BY <2>1, <2>2
<1> QED
  BY <1>5 DEF RowsRecorded

\* Rows whose entries keep id and hash stay on record.
LEMMA RowsStayRecorded ==
  ASSUME TypeOK, [Next]_vars, RowsRecorded,
         \A t \in TxId : /\ db'[t].tx.id = db[t].tx.id
                         /\ \/ db'[t].tx.hash = db[t].tx.hash
                            \/ db'[t].tx.hash = None
                            \/ RecordedFor(t, db'[t].tx.hash)
  PROVE  RowsRecorded'
<1> SUFFICES ASSUME NEW t \in TxId
             PROVE  (db[t].tx.id = t /\ OnRecord(db[t].tx))'
  BY DEF RowsRecorded
<1>1. db[t].tx.id = t /\ OnRecord(db[t].tx)
  BY DEF RowsRecorded
<1>2. PICK h : h = db'[t].tx.hash
  OBVIOUS
<1>3. h = None \/ RecordedFor(t, h)
  BY <1>1, <1>2 DEF OnRecord
<1>4. h = None \/ RecordedFor(t, h)'
  BY <1>3, RecordedForStays
<1> QED
  BY <1>1, <1>2, <1>4 DEF OnRecord, RecordedFor

\* Memory stays on record when what it gains is.
LEMMA HeldStaysRecorded ==
  ASSUME TypeOK, [Next]_vars, HeldRecorded, NEW S \in SUBSET Entry,
         \A e \in S : OnRecord(e)',
         Pending' \cup InMempool' \cup InFlight' \subseteq Held \cup S
  PROVE  HeldRecorded'
<1>1. Held' \subseteq Held \cup S
  BY HeldPositionsAfter
<1>2. \A e \in Held : e \in Entry /\ OnRecord(e)
  BY HeldType DEF HeldRecorded
<1>3. \A e \in Held \cup S : OnRecord(e)'
  BY <1>2, OnRecordStays
<1>4. \A e \in Held' : OnRecord(e)'
  BY <1>1, <1>3
<1> QED
  BY <1>4 DEF HeldRecorded

\* What a send puts in the row, in the log and in flight is one hash.
LEMMA SendRecorded ==
  ASSUME TypeOK, [Next]_vars, HashesRecorded, NEW e \in Entry, NEW s, NEW k, NEW f \in Entry,
         op = Idle, Sends(e, s, k, f)
  PROVE  HashesRecorded'
<1>1. /\ f.id = e.id /\ e.id \in TxId /\ f.hash # None
      /\ SameButFailed(db'[e.id].tx, f)
      /\ \A t \in TxId : t # e.id => db'[t] = db[t]
      /\ op' = [at |-> "persisted", kind |-> k, tx |-> f]
      /\ UNCHANGED <<pendq, inq>>
  BY DEF Sends, SignedCopy, Entry
<1>2. OnRecord(f)'
  BY <1>1 DEF Sends, OnRecord, RecordedFor
<1>3. InFlight' = {f} /\ Pending' = Pending /\ InMempool' = InMempool
  BY <1>1, SameMembers DEF InFlight
<1>4. HeldRecorded'
  BY <1>2, <1>3, HeldStaysRecorded DEF HashesRecorded, Held
<1>5. ASSUME NEW t \in TxId PROVE (db[t].tx.id = t /\ OnRecord(db[t].tx))'
  <2>1. CASE t = e.id
    BY <1>1, <1>2, <2>1 DEF OnRecord, RecordedFor, SameButFailed
  <2>2. CASE t # e.id
    <3>1. PICK g \in Entry : g = db[t].tx
      BY RowTx
    <3>2. g.id = t /\ OnRecord(g)'
      BY <3>1, OnRecordStays DEF HashesRecorded, RowsRecorded
    <3> QED
      BY <1>1, <2>2, <3>1, <3>2 DEF OnRecord, RecordedFor
  <2> QED
    BY <2>1, <2>2
<1>6. FlightSigned'
  BY <1>1 DEF FlightSigned
<1> QED
  BY <1>4, <1>5, <1>6 DEF HashesRecorded, RowsRecorded

\* Rows that stay, and a memory that gains nothing.
LEMMA QuietRecorded ==
  ASSUME TypeOK, [Next]_vars, HashesRecorded, UNCHANGED db,
         Pending' \cup InMempool' \cup InFlight' \subseteq Held, FlightSigned'
  PROVE  HashesRecorded'
<1>1. RowsRecorded'
  BY RowsStayRecorded DEF HashesRecorded
<1>2. HeldRecorded'
  <2>1. {} \in SUBSET Entry /\ Held = Held \cup {}
    OBVIOUS
  <2> QED
    BY <2>1, HeldStaysRecorded DEF HashesRecorded
<1> QED
  BY <1>1, <1>2 DEF HashesRecorded

\* An entry without a hash is saved and held.
LEMMA UnsignedRecorded ==
  ASSUME TypeOK, [Next]_vars, HashesRecorded, NEW e \in Entry, OnRecord(e), NEW s,
         SaveTransaction(e, s), op' = Idle,
         Pending' \cup InMempool' \cup InFlight' \subseteq Held \cup {e}
  PROVE  HashesRecorded'
<1>1. RowsRecorded'
  BY SaveRecorded DEF HashesRecorded
<1>2. OnRecord(e)'
  BY OnRecordStays
<1>3. HeldRecorded'
  <2>1. {e} \in SUBSET Entry /\ \A x \in {e} : OnRecord(x)'
    BY <1>2
  <2> QED
    BY <2>1, HeldStaysRecorded DEF HashesRecorded
<1>4. FlightSigned'
  BY DEF FlightSigned, Idle
<1> QED
  BY <1>1, <1>3, <1>4 DEF HashesRecorded

\* transaction_sent with a hash on record.
LEMMA SetSentRecorded ==
  ASSUME TypeOK, [Next]_vars, HashesRecorded, NEW e \in Entry, OnRecord(e),
         SetSent(e.id, e.hash), FlightSigned',
         Pending' \cup InMempool' \cup InFlight' \subseteq Held \cup {e}
  PROVE  HashesRecorded'
<1>1. /\ e.id \in TxId
      /\ db'[e.id].tx.hash = e.hash /\ db'[e.id].tx.id = db[e.id].tx.id
      /\ \A t \in TxId : t # e.id => db'[t] = db[t]
  BY SetSentRows DEF Entry
<1>2. RowsRecorded'
  BY <1>1, RowsStayRecorded DEF HashesRecorded, OnRecord
<1>3. OnRecord(e)'
  BY OnRecordStays
<1>4. HeldRecorded'
  <2>1. {e} \in SUBSET Entry /\ \A x \in {e} : OnRecord(x)'
    BY <1>3
  <2> QED
    BY <2>1, HeldStaysRecorded DEF HashesRecorded
<1> QED
  BY <1>2, <1>4 DEF HashesRecorded

\* The API saves entries without a hash, or with the hash they had.
LEMMA ApiRecorded ==
  ASSUME TypeOK, [Next]_vars, HashesRecorded, NEW t \in TxId, Api(t)
  PROVE  HashesRecorded'
<1>1. CASE Admit(t)
  <2>1. PICK e \in Entry :
          /\ e = NewEntry(t, e.nonce) /\ SaveTransaction(e, "PENDING")
          /\ pendq' = InsertByNonce(pendq, e)
    BY <1>1, AdmitEffect
  <2>2. op = Idle /\ op' = Idle /\ UNCHANGED inq
    BY <1>1, AdmitEffect
  <2>3. OnRecord(e)
    BY <2>1 DEF NewEntry, OnRecord
  <2>4. Pending' \cup InMempool' \cup InFlight' \subseteq Held \cup {e}
    BY <2>1, <2>2, PendingMembers, SameMembers DEF Held
  <2> QED
    BY <2>1, <2>2, <2>3, <2>4, UnsignedRecorded
<1>2. CASE AdmitUnestimable(t)
  <2>1. PICK e \in Entry :
          e = [NewEntry(t, e.nonce) EXCEPT !.failed = TRUE] /\ SaveTransaction(e, "FAILED")
    BY <1>2, AdmitUnestimableEffect
  <2>2. op = Idle /\ op' = Idle /\ UNCHANGED <<pendq, inq>>
    BY <1>2, AdmitUnestimableEffect
  <2>3. OnRecord(e)
    BY <2>1 DEF NewEntry, OnRecord
  <2>4. Pending' \cup InMempool' \cup InFlight' \subseteq Held \cup {e}
    BY <2>2, SameMembers DEF Held
  <2> QED
    BY <2>1, <2>2, <2>3, <2>4, UnsignedRecorded
<1>3. CASE AdmitUnsaved(t)
  BY <1>3, AdmitUnsavedEffect, QuietRecorded, SameMembers
     DEF Held, HashesRecorded, FlightSigned, rowVars
<1>4. CASE CancelPending(t) \/ ReplacePending(t)
  <2>1. PICK i \in DOMAIN pendq, e \in Entry :
          /\ SameLinks(e, pendq[i])
          /\ e.hash = None \/ e.hash = pendq[i].hash
          /\ SaveTransaction(e, "PENDING") /\ pendq' = Updated(pendq, e)
    BY <1>4, EditEffect
  <2>2. op = Idle /\ op' = Idle /\ UNCHANGED inq
    BY <1>4, EditEffect
  <2>3. pendq[i] \in Held
    BY DEF Held, Pending
  <2>4. OnRecord(e)
    BY <2>1, <2>3 DEF HashesRecorded, HeldRecorded, OnRecord, SameLinks
  <2>5. Pending' \cup InMempool' \cup InFlight' \subseteq Held \cup {e}
    BY <2>1, <2>2, PendingMembers, SameMembers DEF Held
  <2> QED
    BY <2>1, <2>2, <2>4, <2>5, UnsignedRecorded
<1>5. ASSUME NEW k \in {"cancel", "replace"}, SendRival(t, k) PROVE HashesRecorded'
  <2>1. PICK e \in Entry, f \in Entry : Sends(e, "PENDING", k, f)
    BY <1>5, SendRivalCopies
  <2>2. op = Idle
    BY <1>5, SendRivalCopies
  <2> QED
    BY <2>1, <2>2, SendRecorded
<1> QED
  BY <1>1, <1>2, <1>3, <1>4, <1>5 DEF Api, CancelInmempool, ReplaceInmempool

\* The loops sign what they send, and drop what is mined.
LEMMA LoopsRecorded ==
  ASSUME TypeOK, [Next]_vars, HashesRecorded, Loops
  PROVE  HashesRecorded'
<1>1. CASE SendPending
  <2>1. PICK e \in Entry, f \in Entry : e = Head(pendq) /\ Sends(Head(pendq), "PENDING", "pending", f)
    BY <1>1, SendPendingSends
  <2>2. Sends(e, "PENDING", "pending", f) /\ op = Idle
    BY <1>1, <2>1, SendPendingSends
  <2> QED
    BY <2>2, SendRecorded
<1>2. CASE EstimateRejects
  <2>1. /\ op'.at = "rejected" /\ op'.tx = Head(pendq) /\ Head(pendq) \in Pending
        /\ UNCHANGED <<rowVars, queueVars>>
    BY <1>2, EstimateRejectsEffect
  <2>2. InFlight' = {Head(pendq)}
    BY <2>1 DEF InFlight
  <2>3. Pending' = Pending /\ InMempool' = InMempool
    BY <2>1, SameMembers DEF queueVars
  <2> QED
    BY <2>1, <2>2, <2>3, QuietRecorded DEF Held, FlightSigned, rowVars
<1>3. CASE BumpGas
  <2>1. PICK e \in Entry, f \in Entry :
          e = Active(Head(inq)) /\ Sends(Active(Head(inq)), "INMEMPOOL", "bump", f)
    BY <1>3, BumpGasSends, FrontOfInmempool
  <2>2. Sends(e, "INMEMPOOL", "bump", f) /\ op = Idle
    BY <1>3, <2>1, BumpGasSends
  <2> QED
    BY <2>2, SendRecorded
<1>4. CASE ResolveReceipt
  <2>1. PICK a \in Entry, x \in Entry, s \in {"MINED", "FAILED", "EXPIRED"} :
          /\ a = Active(Head(inq)) /\ WinnerRow(x, a, s) /\ SaveTransaction(x, s)
          /\ IF s = "MINED" /\ Head(inq).comp # None
             THEN op'.at = "settling" /\ op'.tx = Loser(Head(inq))
             ELSE op' = Idle
    BY <1>4, ResolveReceiptEffect
  <2>2. op = Idle /\ inq # <<>> /\ inq' = Tail(inq) /\ UNCHANGED pendq
    BY <1>4, ResolveReceiptEffect
  <2>3. a \in InMempool /\ inq[1] \in Contest /\ inq[1] = Head(inq) /\ 1 \in DOMAIN inq
    BY <2>1, <2>2, FrontOfInmempool
  <2>4. a.id \in TxId /\ OnRecord(a)
    BY <2>3 DEF Entry, HashesRecorded, HeldRecorded, Held
  <2>5. db[a.id].tx.id = a.id /\ OnRecord(db[a.id].tx)
    BY <2>4 DEF HashesRecorded, RowsRecorded
  <2>6. OnRecord(x)
    BY <2>1, <2>4, <2>5 DEF OnRecord, WinnerRow
  <2>7. RowsRecorded'
    BY <2>1, <2>6, SaveRecorded DEF HashesRecorded
  <2>8. Head(inq).comp # None => Loser(Head(inq)) \in Entry /\ OnRecord(Loser(Head(inq)))
    <3>1. inq[1].orig \in InMempool
      BY <2>3, SidesType, HeldPositions
    <3>2. OnRecord(inq[1].orig)
      BY <3>1 DEF HashesRecorded, HeldRecorded, Held
    <3> QED
      BY <2>3, <3>2, LoserIs DEF OnRecord
  <2>9. \E S \in SUBSET Entry : InFlight' \subseteq S /\ \A e \in S : OnRecord(e)
    <3>1. CASE op' = Idle
      <4>1. InFlight' = {}
        BY <3>1, SameMembers
      <4> QED
        BY <4>1
    <3>2. CASE op' # Idle
      <4>1. op'.tx = Loser(Head(inq)) /\ op'.at = "settling" /\ Head(inq).comp # None
        BY <2>1, <3>2
      <4>2. InFlight' = {Loser(Head(inq))}
        BY <4>1, HeldPositionsAfter
      <4> QED
        BY <2>8, <4>1, <4>2
    <3> QED
      BY <3>1, <3>2
  <2>10. Pending' \subseteq Held /\ InMempool' \subseteq Held
    BY <2>2, SameMembers, TailMembers DEF Held
  <2>11. HeldRecorded'
    <3>1. PICK S \in SUBSET Entry : InFlight' \subseteq S /\ \A e \in S : OnRecord(e)
      BY <2>9
    <3>2. \A e \in S : OnRecord(e)'
      BY <3>1, OnRecordStays
    <3> QED
      BY <2>10, <3>1, <3>2, HeldStaysRecorded DEF HashesRecorded
  <2>12. FlightSigned'
    BY <2>1 DEF FlightSigned, Idle
  <2> QED
    BY <2>7, <2>11, <2>12 DEF HashesRecorded
<1>5. CASE ResolveReceiptUnsaved
  <2>1. inq # <<>> /\ inq' = Tail(inq) /\ UNCHANGED <<db, pendq, op>>
    BY <1>5, ResolveReceiptUnsavedEffect DEF rowVars
  <2>2. Pending' \cup InMempool' \cup InFlight' \subseteq Held
    BY <2>1, SameMembers, TailMembers DEF Held
  <2>3. FlightSigned'
    BY <2>1 DEF HashesRecorded, FlightSigned
  <2> QED
    BY <2>1, <2>2, <2>3, QuietRecorded
<1>6. ASSUME NEW t \in TxId, Confirm(t) PROVE HashesRecorded'
  <2>1. SetStatus(t, "CONFIRMED") /\ UNCHANGED <<pendq, inq, op>>
    BY <1>6 DEF Confirm
  <2>2. \A u \in TxId : db'[u].tx = db[u].tx
    BY <2>1, SetStatusRows
  <2>3. RowsRecorded'
    BY <2>2, RowsStayRecorded DEF HashesRecorded
  <2>4. Pending' \cup InMempool' \cup InFlight' \subseteq Held \cup {}
    BY <2>1, SameMembers DEF Held
  <2>5. HeldRecorded'
    <3>1. {} \in SUBSET Entry /\ \A x \in {} : OnRecord(x)'
      OBVIOUS
    <3> QED
      BY <2>4, <3>1, HeldStaysRecorded DEF HashesRecorded
  <2> QED
    BY <2>1, <2>3, <2>5 DEF HashesRecorded, FlightSigned
<1> QED
  BY <1>1, <1>2, <1>3, <1>4, <1>5, <1>6 DEF Loops

\* The rest of a send moves the signed copy about.
LEMMA ContinueRecorded ==
  ASSUME TypeOK, [Next]_vars, HashesRecorded, Continue
  PROVE  HashesRecorded'
<1>0. op.at # "idle" => op.tx \in Held /\ op.tx \in Entry /\ OnRecord(op.tx)
  BY OperationType DEF Held, InFlight, HashesRecorded, HeldRecorded
<1>1. CASE Deliver
  <2>1. /\ op.at = "persisted" /\ UNCHANGED <<db, pendq, inq>>
        /\ op' = Idle \/ (op'.tx = op.tx /\ op'.at \in {"accepted", "rejected", "conflict"})
    BY <1>1, DeliverEffect DEF rowVars, queueVars
  <2>2. InFlight' \subseteq InFlight
    BY <2>1, HeldPositionsAfter DEF InFlight, Idle
  <2>3. Pending' \cup InMempool' \cup InFlight' \subseteq Held
    BY <2>1, <2>2, SameMembers DEF Held
  <2>4. FlightSigned'
    BY <2>1 DEF HashesRecorded, FlightSigned, Idle
  <2> QED
    BY <2>1, <2>3, <2>4, QuietRecorded
<1>2. CASE MarkPendingSent
  <2>1. PICK e \in Entry : e = op.tx
    BY <1>2, MarkPendingSentEffect
  <2>2. SetSent(e.id, e.hash) /\ op' = Idle /\ OnRecord(e) /\ e \in Held
    BY <1>0, <1>2, <2>1, MarkPendingSentEffect
  <2>3. Pending' \cup InMempool' \cup InFlight' \subseteq Held \cup {e}
    BY <1>2, <2>1, <2>2, MarkPendingSentEffect, SameMembers DEF Held
  <2>4. FlightSigned'
    BY <2>2 DEF FlightSigned, Idle
  <2> QED
    BY <2>2, <2>3, <2>4, SetSentRecorded
<1>3. CASE MarkBumpSent
  <2>1. PICK e \in Entry : e = op.tx
    BY <1>3, MarkBumpSentEffect
  <2>2. /\ SetSent(e.id, e.hash) /\ op' = Idle /\ OnRecord(e) /\ e \in Held
        /\ inq' = [inq EXCEPT ![1] = WithTx(inq[1], e)] /\ UNCHANGED pendq
    BY <1>0, <1>3, <2>1, MarkBumpSentEffect
  <2>3. InMempool' \subseteq InMempool \cup {e}
    BY <2>2, FrontRewritten
  <2>4. Pending' \cup InMempool' \cup InFlight' \subseteq Held \cup {e}
    BY <2>2, <2>3, SameMembers DEF Held
  <2>5. FlightSigned'
    BY <2>2 DEF FlightSigned, Idle
  <2> QED
    BY <2>2, <2>4, <2>5, SetSentRecorded
<1>4. CASE MarkRivalSent
  <2>1. PICK e \in Entry : e = op.tx
    BY <1>4, MarkRivalSentEffect
  <2>2. /\ SetSent(e.id, e.hash) /\ op.at = "accepted" /\ op'.at = "linking" /\ op'.tx = e
        /\ UNCHANGED <<pendq, inq>>
    BY <1>4, <2>1, MarkRivalSentEffect DEF queueVars
  <2>3. OnRecord(e) /\ e.hash # None
    BY <1>0, <2>1, <2>2 DEF HashesRecorded, FlightSigned
  <2>4. Pending' \cup InMempool' \cup InFlight' \subseteq Held \cup {e}
    BY <2>2, SameMembers, HeldPositionsAfter DEF Held
  <2>5. FlightSigned'
    BY <2>2, <2>3 DEF FlightSigned
  <2> QED
    BY <2>2, <2>3, <2>4, <2>5, SetSentRecorded
<1>5. CASE LinkRival
  <2>1. PICK i \in DOMAIN inq, o \in Entry, c \in Contest :
          /\ o.id = inq[i].orig.id /\ o.hash = inq[i].orig.hash
          /\ SaveTransaction(o, "INMEMPOOL") /\ Sides(c) = {o, op.tx}
          /\ inq' = IF i = 1 THEN [inq EXCEPT ![1] = c] ELSE inq
    BY <1>5, LinkRivalEffect
  <2>2. op' = Idle /\ op.at = "linking" /\ UNCHANGED pendq
    BY <1>5, LinkRivalEffect
  <2>3. inq[i].orig \in InMempool
    <3>1. inq[i] \in Contest
      BY DEF TypeOK
    <3> QED
      BY <3>1, SidesType, HeldPositions
  <2>4. OnRecord(o)
    BY <2>1, <2>3 DEF HashesRecorded, HeldRecorded, Held, OnRecord
  <2>5. InMempool' \subseteq InMempool \cup {o, op.tx}
    BY <2>1, FrontMembers, SameMembers
  <2>6. Pending' \cup InMempool' \cup InFlight' \subseteq Held \cup {o}
    BY <1>0, <2>2, <2>5, SameMembers DEF Held
  <2> QED
    BY <2>1, <2>2, <2>4, <2>6, UnsignedRecorded
<1>6. CASE CloseOut
  <2>1. PICK e \in Entry :
          e.hash = None /\ SaveTransaction(e, "PENDING") /\ pendq' = Updated(pendq, e)
    BY <1>6, CloseOutEffect
  <2>2. op' = Idle /\ UNCHANGED inq
    BY <1>6, CloseOutEffect
  <2>3. OnRecord(e)
    BY <2>1 DEF OnRecord
  <2>4. Pending' \cup InMempool' \cup InFlight' \subseteq Held \cup {e}
    BY <2>1, <2>2, PendingMembers, SameMembers DEF Held
  <2> QED
    BY <2>1, <2>2, <2>3, <2>4, UnsignedRecorded
<1>7. CASE AdoptLanded
  <2>1. PICK e \in Entry :
          /\ e.hash # None /\ RecordedFor(e.id, e.hash)
          /\ \/ SetSent(e.id, e.hash) /\ MovePendingToInmempool(e)
             \/ UNCHANGED <<db, pendq, inq>>
    BY <1>7, AdoptLandedEffect
  <2>2. op' = Idle
    BY <1>7, AdoptLandedEffect
  <2>3. OnRecord(e) /\ FlightSigned'
    BY <2>1, <2>2 DEF OnRecord, FlightSigned, Idle
  <2>4. CASE SetSent(e.id, e.hash) /\ MovePendingToInmempool(e)
    <3>1. Pending' \cup InMempool' \cup InFlight' \subseteq Held \cup {e}
      BY <2>2, <2>4, MoveMembers, SameMembers DEF Held
    <3> QED
      BY <2>3, <2>4, <3>1, SetSentRecorded
  <2>5. CASE UNCHANGED <<db, pendq, inq>>
    <3>1. Pending' \cup InMempool' \cup InFlight' \subseteq Held
      BY <2>2, <2>5, SameMembers DEF Held
    <3> QED
      BY <2>3, <2>5, <3>1, QuietRecorded
  <2> QED
    BY <2>1, <2>4, <2>5
<1>8. CASE ReassignPending
  <2>1. PICK n \in Nat :
          /\ db'[op.tx.id].tx = AtNonce(db[op.tx.id].tx, n)
          /\ \A t \in TxId : t # op.tx.id => db'[t] = db[t]
          /\ \A e \in Pending' : \E f \in Pending :
               e = IF f.id = op.tx.id THEN AtNonce(f, n) ELSE f
    BY <1>8, ReassignPendingEffect
  <2>2. op' = Idle /\ op.tx.id \in TxId /\ UNCHANGED inq
    BY <1>8, ReassignPendingEffect DEF Entry
  <2>3. RowsRecorded'
    <3>1. \A t \in TxId : db'[t].tx.id = db[t].tx.id /\ db'[t].tx.hash = db[t].tx.hash
      BY <2>1, <2>2, RowTx, AtNonceType
    <3> QED
      BY <3>1, RowsStayRecorded DEF HashesRecorded
  <2>4. Pending' \in SUBSET Entry /\ \A e \in Pending' : OnRecord(e)
    <3> SUFFICES ASSUME NEW e \in Pending'
                 PROVE  e \in Entry /\ OnRecord(e)
      OBVIOUS
    <3>1. PICK f \in Pending : e = IF f.id = op.tx.id THEN AtNonce(f, n) ELSE f
      BY <2>1
    <3>2. f \in Entry /\ OnRecord(f)
      BY HeldType DEF HashesRecorded, HeldRecorded, Held
    <3> QED
      BY <3>1, <3>2, AtNonceType DEF OnRecord
  <2>5. PICK S \in SUBSET Entry : S = Pending' /\ \A e \in S : OnRecord(e)
    BY <2>4
  <2>6. \A e \in S : OnRecord(e)'
    BY <2>5, OnRecordStays
  <2>7. Pending' \cup InMempool' \cup InFlight' \subseteq Held \cup S
    BY <2>2, <2>5, SameMembers DEF Held
  <2>8. HeldRecorded'
    BY <2>6, <2>7, HeldStaysRecorded DEF HashesRecorded
  <2>9. FlightSigned'
    BY <2>2 DEF FlightSigned, Idle
  <2> QED
    BY <2>3, <2>8, <2>9 DEF HashesRecorded
<1>9. CASE ReassignInmempool
  <2>1. PICK n \in Nat :
          /\ db'[op.tx.id].tx = AtNonce(db[op.tx.id].tx, n)
          /\ \A t \in TxId : t # op.tx.id => db'[t] = db[t]
          /\ inq' = [inq EXCEPT ![1] = WithTx(inq[1], AtNonce(Active(inq[1]), n))]
    BY <1>9, ReassignInmempoolEffect
  <2>2. op' = Idle /\ op.tx.id \in TxId /\ UNCHANGED pendq
    BY <1>9, ReassignInmempoolEffect DEF Entry
  <2>3. RowsRecorded'
    <3>1. \A t \in TxId : db'[t].tx.id = db[t].tx.id /\ db'[t].tx.hash = db[t].tx.hash
      BY <2>1, <2>2, RowTx, AtNonceType
    <3> QED
      BY <3>1, RowsStayRecorded DEF HashesRecorded
  <2>4. CASE inq = <<>>
    <3>1. inq' = inq
      BY <2>1, <2>4
    <3>2. Pending' \cup InMempool' \cup InFlight' \subseteq Held \cup {}
      BY <2>2, <3>1, SameMembers DEF Held
    <3>3. {} \in SUBSET Entry /\ \A x \in {} : OnRecord(x)'
      OBVIOUS
    <3>4. HeldRecorded'
      BY <3>2, <3>3, HeldStaysRecorded DEF HashesRecorded
    <3> QED
      BY <2>2, <2>3, <3>4 DEF HashesRecorded, FlightSigned, Idle
  <2>5. CASE inq # <<>>
    <3>1. Active(inq[1]) \in InMempool /\ Active(inq[1]) \in Entry
      BY <2>5, FrontOfInmempool
    <3>2. OnRecord(Active(inq[1]))
      BY <3>1 DEF HashesRecorded, HeldRecorded, Held
    <3>3. PICK e \in Entry : e = AtNonce(Active(inq[1]), n) /\ OnRecord(e)
      BY <3>1, <3>2, AtNonceType DEF OnRecord
    <3>4. InMempool' \subseteq InMempool \cup {e}
      BY <2>1, <3>3, FrontRewritten
    <3>5. Pending' \cup InMempool' \cup InFlight' \subseteq Held \cup {e}
      BY <2>2, <3>4, SameMembers DEF Held
    <3>6. {e} \in SUBSET Entry /\ \A x \in {e} : OnRecord(x)'
      BY <3>3, OnRecordStays
    <3>7. HeldRecorded'
      BY <3>5, <3>6, HeldStaysRecorded DEF HashesRecorded
    <3> QED
      BY <2>2, <2>3, <3>7 DEF HashesRecorded, FlightSigned, Idle
  <2> QED
    BY <2>4, <2>5
<1>10. CASE ConflictMined \/ StepFails
  <2>1. op' = Idle /\ UNCHANGED <<db, pendq, inq>>
    BY <1>10, StopEffect DEF rowVars, queueVars
  <2>2. Pending' \cup InMempool' \cup InFlight' \subseteq Held
    BY <2>1, SameMembers DEF Held
  <2>3. FlightSigned'
    BY <2>1 DEF FlightSigned, Idle
  <2> QED
    BY <2>1, <2>2, <2>3, QuietRecorded
<1>11. CASE SettleLoser
  <2>1. PICK e \in Entry : e = op.tx /\ \E s : SaveTransaction(e, s)
    BY <1>11, SettleLoserEffect
  <2>2. op' = Idle /\ UNCHANGED <<pendq, inq>> /\ op.at = "settling"
    BY <1>11, SettleLoserEffect DEF queueVars
  <2>3. OnRecord(e)
    BY <1>0, <2>1, <2>2
  <2>4. Pending' \cup InMempool' \cup InFlight' \subseteq Held \cup {e}
    BY <2>2, SameMembers DEF Held
  <2> QED
    BY <2>1, <2>2, <2>3, <2>4, UnsignedRecorded
<1> QED
  BY <1>1, <1>2, <1>3, <1>4, <1>5, <1>6, <1>7, <1>8, <1>9, <1>10, <1>11 DEF Continue

\* Startup reads what was on record, and finds more of it.
LEMMA StartupRecorded ==
  ASSUME TypeOK, [Next]_vars, HashesRecorded, Startup \/ Setback
  PROVE  HashesRecorded'
<1>1. CASE Repairing
  <2>1. /\ UNCHANGED <<pendq, inq, op>>
        /\ \A t \in TxId :
             \/ db'[t] = db[t]
             \/ /\ SameLinks(db'[t].tx, db[t].tx)
                /\ db'[t].tx.hash = db[t].tx.hash \/ RecordedFor(t, db'[t].tx.hash)
    BY <1>1, RepairEffect DEF queueVars
  <2>2. RowsRecorded'
    BY <2>1, RowsStayRecorded DEF HashesRecorded, SameLinks
  <2>3. Pending' \cup InMempool' \cup InFlight' \subseteq Held \cup {}
    BY <2>1, SameMembers DEF Held
  <2>4. {} \in SUBSET Entry /\ \A x \in {} : OnRecord(x)'
    OBVIOUS
  <2>5. HeldRecorded'
    BY <2>3, <2>4, HeldStaysRecorded DEF HashesRecorded
  <2> QED
    BY <2>1, <2>2, <2>5 DEF HashesRecorded, FlightSigned
<1>2. CASE LoadQueues
  <2>1. /\ UNCHANGED <<db, op>>
        /\ \A e \in Pending' : \E t \in With("PENDING") : e = db[t].tx
        /\ \A e \in InMempool' : \E t \in With("INMEMPOOL") : e = db[t].tx
    BY <1>2, LoadQueuesEffect DEF rowVars
  <2>2. \A t \in TxId : db[t].tx \in Entry /\ OnRecord(db[t].tx)
    BY RowTx DEF HashesRecorded, RowsRecorded
  <2> DEFINE R == {db[t].tx : t \in TxId}
  <2>3. PICK S \in SUBSET Entry : S = R /\ \A e \in S : OnRecord(e)
    <3>1. R \in SUBSET Entry /\ \A e \in R : OnRecord(e)
      BY <2>2
    <3> HIDE DEF R
    <3> QED
      BY <3>1
  <2>4. \A e \in S : OnRecord(e)'
    BY <2>3, OnRecordStays
  <2>5. Pending' \cup InMempool' \cup InFlight' \subseteq Held \cup S
    BY <2>1, <2>3, SameMembers DEF Held, With
  <2>6. HeldRecorded'
    BY <2>4, <2>5, HeldStaysRecorded DEF HashesRecorded
  <2>7. RowsRecorded'
    BY <2>1, RowsStayRecorded DEF HashesRecorded
  <2> QED
    BY <2>1, <2>6, <2>7 DEF HashesRecorded, FlightSigned
<1> QED
  BY <1>1, <1>2 DEF Startup, Repairing

\* No step brings a hash into a row or into memory that is not on record.
LEMMA HashesStay ==
  ASSUME TypeOK, HashesRecorded, [Next]_vars
  PROVE  HashesRecorded'
<1>1. CASE UNCHANGED <<db, pendq, inq, op>>
  <2>1. Pending' \cup InMempool' \cup InFlight' \subseteq Held
    BY <1>1, SameMembers DEF Held
  <2>2. FlightSigned'
    BY <1>1 DEF HashesRecorded, FlightSigned
  <2> QED
    BY <1>1, <2>1, <2>2, QuietRecorded
<1>2. CASE Crash
  <2>1. op' = Idle /\ UNCHANGED db /\ Pending' = {} /\ InMempool' = {} /\ InFlight' = {}
    BY <1>2, CrashEffect DEF rowVars
  <2>2. FlightSigned'
    BY <2>1 DEF FlightSigned, Idle
  <2> QED
    BY <2>1, <2>2, QuietRecorded
<1>3. ASSUME NEW t \in TxId, Expire(t) PROVE HashesRecorded'
  BY <1>1, <1>3 DEF Expire, rowVars, queueVars
<1>4. CASE Network
  BY <1>1, <1>4 DEF Network, rowVars, queueVars
<1>5. CASE UNCHANGED vars
  BY <1>1, <1>5 DEF vars
<1> QED
  BY <1>2, <1>3, <1>4, <1>5, ApiRecorded, LoopsRecorded, ContinueRecorded, StartupRecorded
     DEF Next, Setback

\* Only the network's own steps extend the chain, by one block.
LEMMA ChainExtends ==
  ASSUME TypeOK, [Next]_vars
  PROVE  UNCHANGED chain \/ (Network /\ \E b \in Block : Include(b))
<1>1. CASE Network
  <2>1. NodeStep
    BY <1>1 DEF Network
  <2>2. ASSUME NEW h \in Hash, NEW ok \in BOOLEAN PROVE [hash |-> h, ok |-> ok] \in Block
    BY DEF Block
  <2>3. [hash |-> None, ok |-> TRUE] \in Block
    BY DEF Block
  <2>4. pool \subseteq Hash /\ stray \subseteq Hash
    BY DEF TypeOK, NodeTypeOK
  <2>5. CASE Mine \/ MineReverted \/ MineStray
    <3>1. PICK h \in Hash, ok \in BOOLEAN : Include([hash |-> h, ok |-> ok])
      BY <2>4, <2>5 DEF Mine, MineReverted, MineStray
    <3> QED
      BY <1>1, <2>2, <3>1
  <2>6. CASE MineExternal
    BY <1>1, <2>3, <2>6 DEF MineExternal
  <2>7. CASE Evict
    BY <2>7 DEF Evict
  <2> QED
    BY <2>1, <2>5, <2>6, <2>7 DEF NodeStep
<1>2. CASE Deliver
  BY <1>2 DEF Deliver, Broadcast, nodeVars
<1>3. CASE \E t \in TxId : Api(t) \/ Expire(t)
  BY <1>3 DEF Api, Admit, AdmitUnestimable, AdmitUnsaved, CancelPending, ReplacePending,
     CancelInmempool, ReplaceInmempool, SendRival, EditPending, Send, Expire, nodeVars
<1>4. CASE Loops
  BY <1>4 DEF Loops, SendPending, EstimateRejects, BumpGas, ResolveReceipt,
     ResolveReceiptUnsaved, Confirm, Send, nodeVars
<1>5. CASE Continue
  BY <1>2, <1>5 DEF Continue, MarkPendingSent, MarkBumpSent, MarkRivalSent, LinkRival,
     CloseOut, AdoptLanded, ReassignPending, ConflictMined, ReassignInmempool, StepFails,
     SettleLoser, nodeVars
<1>6. CASE Crash \/ Startup \/ UNCHANGED vars
  BY <1>6 DEF Crash, Startup, RepairPoisoned, RepairAttempts, LoadQueues, vars, nodeVars
<1>7. CASE Setback
  BY <1>7, SetbackEffect
<1> QED
  BY <1>1, <1>3, <1>4, <1>5, <1>6, <1>7 DEF Next, Setback

\* A receipt is never lost, and a successful one stays successful.
LEMMA ReceiptsStay ==
  ASSUME TypeOK, [Next]_vars
  PROVE  /\ \A b \in Receipts : b \in Receipts'
         /\ \A h : MinedOk(h) => MinedOk(h)'
         /\ \A h : HasReceipt(h) => HasReceipt(h)'
         /\ \A t \in TxId : Landed(t) => Landed(t)'
<1>1. \A b \in Receipts : b \in Receipts'
  <2>1. CASE UNCHANGED chain
    BY <2>1 DEF Receipts
  <2>2. CASE \E b \in Block : Include(b)
    <3>1. PICK b \in Block : chain' = Append(chain, b)
      BY <2>2 DEF Include
    <3>2. chain \in Seq(Block)
      BY DEF TypeOK, NodeTypeOK
    <3>3. \A i \in DOMAIN chain : i \in DOMAIN chain' /\ chain'[i] = chain[i]
      BY <3>1, <3>2
    <3> QED
      BY <3>3 DEF Receipts
  <2> QED
    BY <2>1, <2>2, ChainExtends
<1>2. \A h : (MinedOk(h) => MinedOk(h)') /\ (HasReceipt(h) => HasReceipt(h)')
  BY <1>1 DEF MinedOk, HasReceipt
<1>3. ASSUME NEW t \in TxId, Landed(t) PROVE Landed(t)'
  <2>1. PICK h : RecordedFor(t, h) /\ MinedOk(h)
    BY <1>3 DEF Landed, RecordedFor
  <2>2. RecordedFor(t, h)' /\ MinedOk(h)'
    BY <1>2, <2>1, RecordedForStays
  <2> QED
    BY <2>2 DEF Landed, RecordedFor
<1> QED
  BY <1>1, <1>2, <1>3

\* A row that is neither MINED nor CONFIRMED afterwards says nothing of the chain.
LEMMA MinedBy ==
  ASSUME TypeOK, [Next]_vars, MinedRecorded,
         \A t \in minedq' : t \in TxId /\ (t \in minedq \/ Landed(t)),
         \A t \in TxId :
           \/ db'[t].status \notin {"MINED", "CONFIRMED"}
           \/ db'[t] = db[t]
           \/ db'[t].status = "CONFIRMED" /\ Landed(t)
           \/ /\ db'[t].status = "MINED" /\ Landed(t)
              /\ db'[t].tx.hash # None /\ MinedOk(db'[t].tx.hash)
  PROVE  MinedRecorded'
<1> SUFFICES ASSUME NEW t \in TxId
             PROVE  (/\ t \in minedq \/ db[t].status \in {"MINED", "CONFIRMED"} => Landed(t)
                     /\ db[t].status = "MINED" => db[t].tx.hash # None /\ MinedOk(db[t].tx.hash))'
  BY DEF MinedRecorded
<1>1. t \in minedq' => Landed(t)'
  <2>1. t \in minedq' => Landed(t)
    BY DEF MinedRecorded
  <2> QED
    BY <2>1, ReceiptsStay
<1>2. db'[t].status \in {"MINED", "CONFIRMED"} => Landed(t)'
  <2>1. db'[t].status \in {"MINED", "CONFIRMED"} => Landed(t)
    BY DEF MinedRecorded
  <2> QED
    BY <2>1, ReceiptsStay
<1>3. ASSUME db'[t].status = "MINED" PROVE db'[t].tx.hash # None /\ MinedOk(db[t].tx.hash)'
  <2>1. PICK h : h = db'[t].tx.hash
    OBVIOUS
  <2>2. h # None /\ MinedOk(h)
    BY <1>3, <2>1 DEF MinedRecorded
  <2>3. MinedOk(h)'
    BY <2>2, ReceiptsStay
  <2> QED
    BY <2>1, <2>2, <2>3 DEF MinedOk
<1> QED
  BY <1>1, <1>2, <1>3

\* A hash on record that was mined makes its transaction a mined one.
LEMMA LandedBy ==
  ASSUME TypeOK, NEW e \in Entry, OnRecord(e), e.hash # None, MinedOk(e.hash)
  PROVE  Landed(e.id)
  BY DEF OnRecord, RecordedFor, Landed

\* The receipt that ends a contest is of a recorded attempt; everything else keeps a MINED
\* row as it is.
LEMMA MinedStays ==
  ASSUME TypeOK, HashesRecorded, MinedRecorded, [Next]_vars
  PROVE  MinedRecorded'
<1>0. minedq \subseteq TxId
  BY DEF TypeOK
<1>1. ASSUME UNCHANGED <<db, minedq>> PROVE MinedRecorded'
  BY <1>0, <1>1, MinedBy
<1>2. ASSUME NEW e \in Entry, NEW s \in Status \ {"MINED", "CONFIRMED"},
             SaveTransaction(e, s), UNCHANGED minedq
      PROVE  MinedRecorded'
  <2>0. /\ db'[e.id] = [status |-> s, tx |-> e]
        /\ \A t \in TxId : t # e.id => db'[t] = db[t]
    BY <1>2, SaveTransactionRows
  <2>1. \A t \in TxId : db'[t].status \notin {"MINED", "CONFIRMED"} \/ db'[t] = db[t]
    BY <1>2, <2>0
  <2> QED
    BY <1>0, <1>2, <2>1, MinedBy
<1>3. ASSUME NEW t \in TxId, NEW h, SetSent(t, h), UNCHANGED minedq
      PROVE  MinedRecorded'
  <2>1. \A u \in TxId : db'[u].status \notin {"MINED", "CONFIRMED"} \/ db'[u] = db[u]
    BY <1>3, SetSentRows
  <2> QED
    BY <1>0, <1>3, <2>1, MinedBy
<1>4. ASSUME NEW e \in Entry, NEW s \in Status \ {"MINED", "CONFIRMED"}, NEW k, NEW f,
             Sends(e, s, k, f)
      PROVE  MinedRecorded'
  <2>1. \A t \in TxId : db'[t].status \notin {"MINED", "CONFIRMED"} \/ db'[t] = db[t]
    BY <1>4 DEF Sends
  <2>2. UNCHANGED minedq
    BY <1>4 DEF Sends
  <2> QED
    BY <1>0, <2>1, <2>2, MinedBy
<1>5. ASSUME NEW t \in TxId, Api(t) PROVE MinedRecorded'
  <2>1. CASE Admit(t)
    BY <1>2, <2>1, AdmitEffect DEF Status
  <2>2. CASE AdmitUnestimable(t)
    BY <1>2, <2>2, AdmitUnestimableEffect DEF Status
  <2>3. CASE AdmitUnsaved(t)
    BY <1>1, <2>3, AdmitUnsavedEffect DEF rowVars
  <2>4. CASE CancelPending(t) \/ ReplacePending(t)
    BY <1>2, <2>4, EditEffect DEF Status
  <2>5. ASSUME NEW k \in {"cancel", "replace"}, SendRival(t, k) PROVE MinedRecorded'
    BY <1>4, <2>5, SendRivalCopies DEF Status
  <2> QED
    BY <1>5, <2>1, <2>2, <2>3, <2>4, <2>5 DEF Api, CancelInmempool, ReplaceInmempool
<1>6. CASE SendPending
  <2>1. PICK e \in Entry, f \in Entry : e = Head(pendq) /\ Sends(Head(pendq), "PENDING", "pending", f)
    BY <1>6, SendPendingSends
  <2>2. Sends(e, "PENDING", "pending", f)
    BY <2>1
  <2> QED
    BY <1>4, <2>2 DEF Status
<1>7. CASE BumpGas
  <2>1. PICK e \in Entry, f \in Entry :
          e = Active(Head(inq)) /\ Sends(Active(Head(inq)), "INMEMPOOL", "bump", f)
    BY <1>7, BumpGasSends, FrontOfInmempool
  <2>2. Sends(e, "INMEMPOOL", "bump", f)
    BY <2>1
  <2> QED
    BY <1>4, <2>2 DEF Status
<1>8. CASE EstimateRejects
  BY <1>1, <1>8, EstimateRejectsEffect DEF rowVars, queueVars
<1>9. CASE ResolveReceipt
  <2>1. PICK a \in Entry, x \in Entry, s \in {"MINED", "FAILED", "EXPIRED"} :
          /\ a = Active(Head(inq)) /\ a.hash # None
          /\ s = "MINED" => MinedOk(a.hash)
          /\ WinnerRow(x, a, s) /\ SaveTransaction(x, s)
          /\ minedq' = IF s = "MINED" THEN minedq \cup {a.id} ELSE minedq
    BY <1>9, ResolveReceiptEffect
  <2>2. a \in InMempool
    BY <1>9, <2>1, ResolveReceiptEffect, FrontOfInmempool
  <2>3. a.id \in TxId /\ OnRecord(a) /\ db[a.id].tx.id = a.id
    BY <2>2 DEF Entry, HashesRecorded, HeldRecorded, RowsRecorded, Held
  <2>4. s = "MINED" => Landed(a.id)
    BY <2>1, <2>3, LandedBy
  <2>5. /\ x.id = a.id /\ db'[x.id] = [status |-> s, tx |-> x]
        /\ \A t \in TxId : t # x.id => db'[t] = db[t]
    BY <2>1, <2>3, SaveTransactionRows DEF WinnerRow
  <2>6. s = "MINED" => x.hash = a.hash
    BY <2>1 DEF WinnerRow
  <2>7. db'[a.id].status = s /\ db'[a.id].tx = x
    BY <2>5
  <2>8. \A t \in TxId :
          \/ db'[t].status \notin {"MINED", "CONFIRMED"}
          \/ db'[t] = db[t]
          \/ /\ db'[t].status = "MINED" /\ Landed(t)
             /\ db'[t].tx.hash # None /\ MinedOk(db'[t].tx.hash)
    BY <2>1, <2>4, <2>5, <2>6, <2>7
  <2>9. \A t \in minedq' : t \in TxId /\ (t \in minedq \/ Landed(t))
    BY <1>0, <2>1, <2>3, <2>4
  <2> QED
    BY <2>8, <2>9, MinedBy
<1>10. CASE ResolveReceiptUnsaved
  <2>1. PICK a \in Entry : a = Active(Head(inq)) /\ a \in InMempool
    BY <1>10, ResolveReceiptUnsavedEffect, FrontOfInmempool
  <2>2. /\ UNCHANGED db /\ a.hash # None
        /\ minedq' = minedq \/ (minedq' = minedq \cup {a.id} /\ MinedOk(a.hash))
    BY <1>10, <2>1, ResolveReceiptUnsavedEffect DEF rowVars
  <2>3. a.id \in TxId /\ OnRecord(a)
    BY <2>1 DEF Entry, HashesRecorded, HeldRecorded, Held
  <2>4. \A t \in minedq' : t \in TxId /\ (t \in minedq \/ Landed(t))
    BY <1>0, <2>2, <2>3, LandedBy
  <2> QED
    BY <2>2, <2>4, MinedBy
<1>11. ASSUME NEW t \in TxId, Confirm(t) PROVE MinedRecorded'
  <2>1. t \in minedq /\ SetStatus(t, "CONFIRMED") /\ minedq' \subseteq minedq
    BY <1>11 DEF Confirm, MoveMiningToConfirmed
  <2>2. Landed(t)
    BY <2>1 DEF MinedRecorded
  <2>3. db'[t].status = "CONFIRMED" /\ \A u \in TxId : u # t => db'[u] = db[u]
    BY <2>1, SetStatusRows
  <2> QED
    BY <1>0, <2>1, <2>2, <2>3, MinedBy
<1>12. CASE Continue
  <2>1. CASE Deliver
    BY <1>1, <2>1, DeliverEffect DEF rowVars, queueVars
  <2>2. CASE MarkPendingSent
    <3>1. SetSent(op.tx.id, op.tx.hash) /\ op.tx.id \in TxId /\ UNCHANGED minedq
      BY <2>2, MarkPendingSentEffect DEF Entry
    <3> QED
      BY <1>3, <3>1
  <2>3. CASE MarkBumpSent
    <3>1. SetSent(op.tx.id, op.tx.hash) /\ op.tx.id \in TxId /\ UNCHANGED minedq
      BY <2>3, MarkBumpSentEffect DEF Entry
    <3> QED
      BY <1>3, <3>1
  <2>4. CASE MarkRivalSent
    <3>1. SetSent(op.tx.id, op.tx.hash) /\ op.tx.id \in TxId /\ UNCHANGED minedq
      BY <2>4, MarkRivalSentEffect DEF Entry, queueVars
    <3> QED
      BY <1>3, <3>1
  <2>5. CASE LinkRival
    BY <1>2, <2>5, LinkRivalEffect DEF Status
  <2>6. CASE CloseOut
    BY <1>2, <2>6, CloseOutEffect DEF Status
  <2>7. CASE AdoptLanded
    <3>1. PICK e \in Entry : SetSent(e.id, e.hash) \/ UNCHANGED db
      BY <2>7, AdoptLandedEffect
    <3>2. e.id \in TxId /\ UNCHANGED minedq
      BY <2>7, AdoptLandedEffect DEF Entry
    <3> QED
      BY <1>1, <1>3, <3>1, <3>2
  <2>8. ASSUME NEW n \in Nat, UNCHANGED minedq, op.tx \in Entry,
               db'[op.tx.id].status = db[op.tx.id].status,
               db'[op.tx.id].tx = AtNonce(db[op.tx.id].tx, n),
               \A t \in TxId : t # op.tx.id => db'[t] = db[t]
        PROVE  MinedRecorded'
    <3>1. op.tx.id \in TxId
      BY <2>8 DEF Entry
    <3>2. db'[op.tx.id].tx.hash = db[op.tx.id].tx.hash
      BY <2>8, <3>1, RowTx, AtNonceType
    <3>3. \A t \in TxId : db'[t].status = db[t].status /\ db'[t].tx.hash = db[t].tx.hash
      BY <2>8, <3>2
    <3>4. \A t \in TxId :
            \/ db'[t].status \notin {"MINED", "CONFIRMED"}
            \/ db'[t].status = "CONFIRMED" /\ Landed(t)
            \/ /\ db'[t].status = "MINED" /\ Landed(t)
               /\ db'[t].tx.hash # None /\ MinedOk(db'[t].tx.hash)
      BY <3>3 DEF MinedRecorded
    <3> QED
      BY <1>0, <2>8, <3>4, MinedBy
  <2>9. CASE ReassignPending
    BY <2>8, <2>9, ReassignPendingEffect
  <2>10. CASE ReassignInmempool
    BY <2>8, <2>10, ReassignInmempoolEffect
  <2>11. CASE ConflictMined \/ StepFails
    BY <1>1, <2>11, StopEffect DEF rowVars, queueVars
  <2>12. CASE SettleLoser
    <3>1. PICK s \in {"CANCELLED", "REPLACED"} : SaveTransaction(op.tx, s)
      BY <2>12, SettleLoserEffect
    <3>2. op.tx \in Entry /\ UNCHANGED minedq
      BY <2>12, SettleLoserEffect DEF queueVars
    <3> QED
      BY <1>2, <3>1, <3>2 DEF Status
  <2> QED
    BY <1>12, <2>1, <2>2, <2>3, <2>4, <2>5, <2>6, <2>7, <2>9, <2>10, <2>11, <2>12 DEF Continue
<1>13. CASE Crash
  <2>1. UNCHANGED db /\ minedq' = {}
    BY <1>13, CrashEffect DEF rowVars
  <2> QED
    BY <2>1, MinedBy
<1>14. CASE Repairing
  <2>1. /\ UNCHANGED minedq
        /\ \A t \in TxId : db'[t] = db[t] \/ db'[t].status \in {"INMEMPOOL", "FAILED"}
    BY <1>14, RepairEffect DEF queueVars
  <2> QED
    BY <1>0, <2>1, MinedBy
<1>15. CASE LoadQueues
  <2>1. UNCHANGED db /\ minedq' = With("MINED")
    BY <1>15, LoadQueuesEffect DEF rowVars
  <2>2. \A t \in minedq' : t \in TxId /\ Landed(t)
    BY <2>1 DEF MinedRecorded, With
  <2> QED
    BY <2>1, <2>2, MinedBy
<1>16. CASE Network \/ (\E t \in TxId : Expire(t)) \/ UNCHANGED vars
  BY <1>1, <1>16 DEF Network, Expire, vars, rowVars, queueVars
<1> QED
  BY <1>5, <1>6, <1>7, <1>8, <1>9, <1>10, <1>11, <1>12, <1>13, <1>14, <1>15, <1>16
     DEF Next, Loops, Startup, Repairing, Setback

\* A row is MINED only with the hash of an attempt that was mined and did not revert, and
\* CONFIRMED only if one of its attempts was: a receipt is read for a hash that memory holds,
\* and every hash memory holds was audited before it was sent.
THEOREM MinedByAttempt == Spec => []MinedAttempt
<1> DEFINE IInv == TypeOK /\ InFlightRecorded /\ HashesRecorded /\ MinedRecorded
<1>1. Init => IInv
  <2> SUFFICES ASSUME Init PROVE IInv
    OBVIOUS
  <2>1. TypeOK /\ InFlightRecorded
    BY InitType DEF Init, InFlightRecorded, Idle
  <2>2. \A t \in TxId : /\ db[t].tx.id = t /\ db[t].tx.hash = None
                        /\ db[t].status = "absent"
    BY DEF Init, NoRow, Emptied, NewEntry
  <2>3. Held = {}
    <3>1. DOMAIN pendq = {} /\ DOMAIN inq = {} /\ op.at = "idle"
      BY DEF Init, Idle
    <3> QED
      BY <3>1 DEF Held, Pending, InMempool, InFlight
  <2>4. HashesRecorded
    <3>1. op.at = "idle"
      BY DEF Init, Idle
    <3> QED
      BY <2>2, <2>3, <3>1 DEF HashesRecorded, RowsRecorded, HeldRecorded, FlightSigned, OnRecord
  <2>5. MinedRecorded
    BY <2>2 DEF Init, MinedRecorded
  <2> QED
    BY <2>1, <2>4, <2>5
<1>2. IInv /\ [Next]_vars => IInv'
  BY NextType, InFlightStays, HashesStay, MinedStays
<1>3. IInv => MinedAttempt
  BY DEF MinedRecorded, MinedAttempt, Attempts, Landed
<1> QED
  BY <1>1, <1>2, <1>3, PTL DEF Spec

-----------------------------------------------------------------------------
(***************************************************************************)
(* Every transaction has one place.                                         *)
(***************************************************************************)
PendingOnce == \A i, j \in DOMAIN pendq : pendq[i].id = pendq[j].id => i = j

InMempoolOnce ==
  \A i, j \in DOMAIN inq : \A e \in Sides(inq[i]), f \in Sides(inq[j]) :
    e.id = f.id => i = j /\ e = f

\* Where memory has a transaction is what its row says.
StatusPlaced ==
  /\ \A e \in Pending : db[e.id].status = "PENDING"
  /\ \A e \in InMempool : db[e.id].status = "INMEMPOOL"
  /\ \A t \in minedq : /\ db[t].status \in {"INMEMPOOL", "MINED"}
                       /\ \A e \in InMempool : e.id # t

\* A rival in memory names the original it stands beside.
ContestsLinked ==
  \A i \in DOMAIN inq : inq[i].comp # None =>
    inq[i].comp.ext = inq[i].orig.id /\ inq[i].comp.id # inq[i].orig.id

QueuesPlaced == PendingOnce /\ InMempoolOnce /\ StatusPlaced /\ ContestsLinked

Unplaced(t) == t \notin minedq /\ \A e \in Pending \cup InMempool : e.id # t

\* What is in flight is at the front of its queue, or in no queue at all.
FlightPlaced ==
  LET t == op.tx.id IN
  /\ op.kind = "pending" => pendq # <<>> /\ pendq[1].id = t
  /\ op.kind = "bump" => inq # <<>> /\ Active(inq[1]).id = t
  /\ op.kind \in {"cancel", "replace"} =>
       /\ Unplaced(t)
       /\ db[t].status = IF op.at \in {"linking", "settling"} THEN "INMEMPOOL" ELSE "PENDING"
  /\ op.at = "rejected" => op.kind = "pending"

\* A process that is not online has nothing in memory.
NothingHeld == pendq = <<>> /\ inq = <<>> /\ minedq = {} /\ op = Idle

Placed == QueuesPlaced /\ FlightPlaced /\ (boot # "online" => NothingHeld)

\* Where an insertion puts the new entry, and where the others are then.
LEMMA InsertAtPositions ==
  ASSUME NEW T, NEW q \in Seq(T), NEW e \in T, NEW i \in 1..(Len(q) + 1)
  PROVE  /\ DOMAIN InsertAt(q, i, e) = 1..(Len(q) + 1)
         /\ InsertAt(q, i, e)[i] = e
         /\ \A k \in 1..(Len(q) + 1) : k < i => InsertAt(q, i, e)[k] = q[k] /\ k \in DOMAIN q
         /\ \A k \in 1..(Len(q) + 1) :
              k > i => InsertAt(q, i, e)[k] = q[k - 1] /\ k - 1 \in DOMAIN q
<1> DEFINE a == SubSeq(q, 1, i - 1)
           z == SubSeq(q, i, Len(q))
<1>1. a \in Seq(T) /\ z \in Seq(T) /\ Len(a) = i - 1 /\ Len(z) = Len(q) - i + 1
  OBVIOUS
<1>2. /\ \A j \in 1..(i - 1) : a[j] = q[j]
      /\ \A j \in 1..(Len(q) - i + 1) : z[j] = q[i + j - 1]
  OBVIOUS
<1>3. InsertAt(q, i, e) = (a \o <<e>>) \o z
  BY DEF InsertAt
<1>4. DOMAIN q = 1..Len(q) /\ Len(q) \in Nat
  OBVIOUS
<1> HIDE DEF a, z
<1>5. DOMAIN InsertAt(q, i, e) = 1..(Len(q) + 1)
  <2>1. a \o <<e>> \in Seq(T) /\ Len(a \o <<e>>) = i
    BY <1>1
  <2>2. (a \o <<e>>) \o z \in Seq(T) /\ Len((a \o <<e>>) \o z) = i + (Len(q) - i + 1)
    BY <1>1, <2>1
  <2>3. i + (Len(q) - i + 1) = Len(q) + 1
    BY <1>4
  <2> QED
    BY <1>3, <2>2, <2>3
<1>6. InsertAt(q, i, e)[i] = e
  BY <1>1, <1>3, <1>4
<1>7. ASSUME NEW k \in 1..(Len(q) + 1), k < i
      PROVE  InsertAt(q, i, e)[k] = q[k] /\ k \in DOMAIN q
  <2>1. InsertAt(q, i, e)[k] = a[k]
    BY <1>1, <1>3, <1>4, <1>7
  <2> QED
    BY <1>2, <1>4, <1>7, <2>1
<1>8. ASSUME NEW k \in 1..(Len(q) + 1), k > i
      PROVE  InsertAt(q, i, e)[k] = q[k - 1] /\ k - 1 \in DOMAIN q
  <2>1. InsertAt(q, i, e)[k] = z[k - i]
    BY <1>1, <1>3, <1>4, <1>8
  <2> QED
    BY <1>2, <1>4, <1>8, <2>1
<1> QED
  BY <1>5, <1>6, <1>7, <1>8

\* A queue of entries with different ids stays one when a new id is inserted.
LEMMA InsertOnce ==
  ASSUME NEW q \in Seq(Entry), NEW e \in Entry,
         \A i, j \in DOMAIN q : q[i].id = q[j].id => i = j,
         \A i \in DOMAIN q : q[i].id # e.id
  PROVE  \A i, j \in DOMAIN InsertByNonce(q, e) :
           InsertByNonce(q, e)[i].id = InsertByNonce(q, e)[j].id => i = j
<1> DEFINE before == {i \in 1..Len(q) : \A j \in 1..i : q[j].nonce <= e.nonce}
<1>1. Cardinality(before) + 1 \in 1..(Len(q) + 1)
  BY PositionCount
<1>2. InsertByNonce(q, e) = InsertAt(q, Cardinality(before) + 1, e)
  BY DEF InsertByNonce
<1> HIDE DEF before
<1>3. PICK p \in 1..(Len(q) + 1) : InsertByNonce(q, e) = InsertAt(q, p, e)
  BY <1>1, <1>2
<1>4. PICK r : r = InsertByNonce(q, e)
  OBVIOUS
<1>5. /\ DOMAIN r = 1..(Len(q) + 1) /\ r[p] = e
      /\ \A k \in DOMAIN r : k < p => r[k] = q[k] /\ k \in DOMAIN q
      /\ \A k \in DOMAIN r : k > p => r[k] = q[k - 1] /\ k - 1 \in DOMAIN q
  BY <1>3, <1>4, InsertAtPositions
<1>6. ASSUME NEW i \in DOMAIN r, NEW j \in DOMAIN r, r[i].id = r[j].id
      PROVE  i = j
  <2>1. i \in Nat /\ j \in Nat /\ p \in Nat /\ Len(q) \in Nat
    BY <1>5
  <2>2. CASE i = p \/ j = p
    BY <1>5, <1>6, <2>1, <2>2
  <2>3. CASE i # p /\ j # p
    <3>1. PICK a \in DOMAIN q : r[i] = q[a] /\ a = IF i < p THEN i ELSE i - 1
      BY <1>5, <2>1, <2>3
    <3>2. PICK b \in DOMAIN q : r[j] = q[b] /\ b = IF j < p THEN j ELSE j - 1
      BY <1>5, <2>1, <2>3
    <3>3. a = b
      BY <1>6, <3>1, <3>2
    <3> QED
      BY <2>1, <2>3, <3>1, <3>2, <3>3
  <2> QED
    BY <2>2, <2>3
<1> QED
  BY <1>4, <1>6

\* Memory that stays is placed as long as no row of its transactions changes status.
LEMMA QueuesStayPlaced ==
  ASSUME TypeOK, QueuesPlaced, UNCHANGED <<pendq, inq, minedq>>,
         \A t \in TxId : db'[t].status = db[t].status \/ Unplaced(t)
  PROVE  QueuesPlaced'
<1>1. Pending' = Pending /\ InMempool' = InMempool
  BY SameMembers
<1>2. \A e \in Pending \cup InMempool : e.id \in TxId /\ ~Unplaced(e.id)
  BY HeldType DEF Unplaced
<1>3. \A t \in minedq : t \in TxId /\ ~Unplaced(t)
  BY DEF TypeOK, Unplaced
<1>4. StatusPlaced'
  BY <1>1, <1>2, <1>3 DEF QueuesPlaced, StatusPlaced
<1>5. PendingOnce' /\ InMempoolOnce' /\ ContestsLinked'
  BY DEF QueuesPlaced, PendingOnce, InMempoolOnce, ContestsLinked, Sides
<1> QED
  BY <1>4, <1>5 DEF QueuesPlaced

\* The in-mempool queue, and what it is to a step that leaves it alone.
LEMMA InMempoolStaysPlaced ==
  ASSUME QueuesPlaced, UNCHANGED inq
  PROVE  InMempoolOnce' /\ ContestsLinked' /\ InMempool' = InMempool
  BY SameMembers DEF QueuesPlaced, InMempoolOnce, ContestsLinked, Sides

\* A new transaction is queued.
LEMMA InsertPlaced ==
  ASSUME TypeOK, QueuesPlaced, NEW e \in Entry, Unplaced(e.id),
         SaveTransaction(e, "PENDING"), pendq' = InsertByNonce(pendq, e),
         UNCHANGED <<inq, minedq>>
  PROVE  QueuesPlaced'
<1>1. /\ db'[e.id] = [status |-> "PENDING", tx |-> e]
      /\ \A t \in TxId : t # e.id => db'[t] = db[t]
  BY SaveTransactionRows
<1>2. \A i \in DOMAIN pendq : pendq[i].id # e.id
  BY DEF Unplaced, Pending
<1>3. PendingOnce'
  BY <1>2, InsertOnce DEF PendingOnce, QueuesPlaced, TypeOK
<1>4. Pending' \subseteq Pending \cup {e}
  BY PendingMembers
<1>5. InMempoolOnce' /\ ContestsLinked' /\ InMempool' = InMempool
  BY InMempoolStaysPlaced
<1>6. \A f \in Pending \cup InMempool : f.id \in TxId /\ f.id # e.id
  BY HeldType DEF Unplaced
<1>7. \A t \in minedq : t \in TxId /\ t # e.id
  BY DEF Unplaced, TypeOK
<1>8. StatusPlaced'
  BY <1>1, <1>4, <1>5, <1>6, <1>7 DEF QueuesPlaced, StatusPlaced
<1> QED
  BY <1>3, <1>5, <1>8 DEF QueuesPlaced

\* A pending transaction is edited in place.
LEMMA UpdatePlaced ==
  ASSUME TypeOK, QueuesPlaced, NEW e \in Entry, NEW i \in DOMAIN pendq, pendq[i].id = e.id,
         SaveTransaction(e, "PENDING"), pendq' = Updated(pendq, e),
         UNCHANGED <<inq, minedq>>
  PROVE  QueuesPlaced'
<1>1. /\ db'[e.id] = [status |-> "PENDING", tx |-> e]
      /\ \A t \in TxId : t # e.id => db'[t] = db[t]
  BY SaveTransactionRows
<1>2. /\ DOMAIN pendq' = DOMAIN pendq
      /\ \A k \in DOMAIN pendq : pendq'[k] = IF pendq[k].id = e.id THEN e ELSE pendq[k]
      /\ Pending' \subseteq Pending \cup {e}
  BY PendingMembers
<1>3. PendingOnce'
  BY <1>2 DEF PendingOnce, QueuesPlaced
<1>4. InMempoolOnce' /\ ContestsLinked' /\ InMempool' = InMempool
  BY InMempoolStaysPlaced
<1>5. db[e.id].status = "PENDING"
  BY DEF QueuesPlaced, StatusPlaced, Pending
<1>6. \A t \in TxId : db'[t].status = db[t].status
  BY <1>1, <1>5
<1>7. \A f \in Pending \cup InMempool : f.id \in TxId
  BY HeldType
<1>8. \A t \in minedq : t \in TxId
  BY DEF TypeOK
<1>9. e.id \in TxId
  BY DEF Entry
<1>10. StatusPlaced'
  BY <1>1, <1>2, <1>4, <1>5, <1>6, <1>7, <1>8, <1>9 DEF QueuesPlaced, StatusPlaced
<1> QED
  BY <1>3, <1>4, <1>10 DEF QueuesPlaced

\* A transaction without a row is nowhere in memory.
LEMMA AbsentUnplaced ==
  ASSUME QueuesPlaced, NEW t \in TxId, db[t].status \notin {"PENDING", "INMEMPOOL", "MINED"}
  PROVE  Unplaced(t)
  BY DEF QueuesPlaced, StatusPlaced, Unplaced

\* The sent copy of the front goes from one queue to the other.
LEMMA MovePlaced ==
  ASSUME TypeOK, QueuesPlaced, NEW e \in Entry, pendq # <<>>, pendq[1].id = e.id,
         NEW h, SetSent(e.id, h), MovePendingToInmempool(e), UNCHANGED minedq
  PROVE  QueuesPlaced'
<1>1. /\ pendq \in Seq(Entry) /\ inq \in Seq(Contest) /\ e.id \in TxId
      /\ pendq' = Tail(pendq) /\ inq' = Append(inq, Alone(e))
  <2>1. pendq \in Seq(Entry) /\ inq \in Seq(Contest) /\ e.id \in TxId
    BY DEF TypeOK, Entry
  <2>2. Head(pendq).id = e.id
    BY <2>1
  <2> QED
    BY <2>1, <2>2 DEF MovePendingToInmempool
<1>2. /\ 1 \in DOMAIN pendq
      /\ \A i \in DOMAIN pendq' : i + 1 \in DOMAIN pendq /\ i + 1 # 1 /\ i \in Nat
                                  /\ pendq'[i] = pendq[i + 1]
  BY <1>1
<1>3. \A i \in DOMAIN inq' :
        \/ i \in DOMAIN inq /\ inq'[i] = inq[i] /\ i # Len(inq) + 1
        \/ i = Len(inq) + 1 /\ inq'[i] = Alone(e)
  BY <1>1
<1>4. /\ db[e.id].status = "PENDING" /\ e.id \notin minedq
      /\ \A f \in InMempool : f.id # e.id
  BY <1>2 DEF QueuesPlaced, StatusPlaced, Pending
<1>5. /\ db'[e.id].status = "INMEMPOOL"
      /\ \A t \in TxId : t # e.id => db'[t] = db[t]
  BY <1>1, SetSentRows
<1>6. PendingOnce'
  <2>1. \A i, j \in DOMAIN pendq : pendq[i].id = pendq[j].id => i = j
    BY DEF QueuesPlaced, PendingOnce
  <2>2. ASSUME NEW i \in DOMAIN pendq', NEW j \in DOMAIN pendq', pendq'[i].id = pendq'[j].id
        PROVE  i = j
    <3>1. i + 1 = j + 1
      BY <1>2, <2>1, <2>2
    <3> QED
      BY <1>2, <2>2, <3>1
  <2> QED
    BY <2>2 DEF PendingOnce
<1>7. \A f \in Pending' : f \in Pending /\ f.id # e.id
  <2>1. \A i \in DOMAIN pendq' : pendq'[i] \in Pending /\ pendq'[i].id # pendq[1].id
    BY <1>2 DEF QueuesPlaced, PendingOnce, Pending
  <2> QED
    BY <2>1, HeldPositionsAfter
<1>8. \A i \in DOMAIN inq : \A f \in Sides(inq[i]) : f.id # e.id
  BY <1>4, HeldPositions
<1>9. InMempoolOnce' /\ ContestsLinked'
  <2>1. Sides(Alone(e)) = {e} /\ Alone(e).comp = None
    BY AloneSides DEF Alone
  <2>2. ContestsLinked'
    BY <1>3, <2>1 DEF ContestsLinked, QueuesPlaced
  <2>3. ASSUME NEW i \in DOMAIN inq', NEW j \in DOMAIN inq',
               NEW x \in Sides(inq'[i]), NEW y \in Sides(inq'[j]), x.id = y.id
        PROVE  i = j /\ x = y
    BY <1>3, <1>8, <2>1, <2>3 DEF QueuesPlaced, InMempoolOnce
  <2>4. InMempoolOnce'
    BY <2>3 DEF InMempoolOnce, Sides
  <2> QED
    BY <2>2, <2>4
<1>10. InMempool' \subseteq InMempool \cup {e}
  BY <1>1, AppendMembers
<1>11. \A f \in Pending \cup InMempool : f.id \in TxId
  BY HeldType
<1>12. \A t \in minedq : t \in TxId
  BY DEF TypeOK
<1>13. StatusPlaced'
  BY <1>4, <1>5, <1>7, <1>10, <1>11, <1>12 DEF QueuesPlaced, StatusPlaced
<1> QED
  BY <1>6, <1>9, <1>13 DEF QueuesPlaced

\* The front of the in-mempool queue is overwritten by a contest of its own transactions and
\* of others that are nowhere else.
LEMMA FrontPlaced ==
  ASSUME TypeOK, QueuesPlaced, inq # <<>>, NEW d \in Contest,
         inq' = [inq EXCEPT ![1] = d], UNCHANGED <<pendq, minedq>>,
         \A x \in Sides(d) : \/ \E y \in Sides(inq[1]) : x.id = y.id
                             \/ Unplaced(x.id),
         \A x, y \in Sides(d) : x.id = y.id => x = y,
         d.comp # None => d.comp.ext = d.orig.id /\ d.comp.id # d.orig.id,
         \A t \in TxId : db'[t].status = db[t].status,
         \A x \in Sides(d) : db[x.id].status = "INMEMPOOL"
  PROVE  QueuesPlaced'
<1>1. 1 \in DOMAIN inq /\ Sides(inq[1]) \subseteq InMempool
  BY FrontOfInmempool
<1>2. \A i \in DOMAIN inq' : /\ i \in DOMAIN inq
                             /\ inq'[i] = IF i = 1 THEN d ELSE inq[i]
  BY <1>1 DEF TypeOK
<1>3. \A i \in DOMAIN inq : \A y \in Sides(inq[i]), x \in Sides(d) : x.id = y.id => i = 1
  BY <1>1, HeldPositions DEF QueuesPlaced, InMempoolOnce, Unplaced
<1>4. ContestsLinked'
  BY <1>2 DEF QueuesPlaced, ContestsLinked
<1>5. ASSUME NEW i \in DOMAIN inq', NEW j \in DOMAIN inq',
             NEW x \in Sides(inq'[i]), NEW y \in Sides(inq'[j]), x.id = y.id
      PROVE  i = j /\ x = y
  <2>1. CASE i = 1 /\ j = 1
    BY <1>2, <1>5, <2>1
  <2>2. CASE i # 1 /\ j # 1
    BY <1>2, <1>5, <2>2 DEF QueuesPlaced, InMempoolOnce
  <2>3. CASE (i = 1 /\ j # 1) \/ (i # 1 /\ j = 1)
    BY <1>2, <1>3, <1>5, <2>3
  <2> QED
    BY <2>1, <2>2, <2>3
<1>6. InMempoolOnce'
  BY <1>5 DEF InMempoolOnce, Sides
<1>7. Pending' = Pending /\ InMempool' \subseteq InMempool \cup Sides(d)
  BY SameMembers, FrontMembers
<1>8. \A e \in Pending \cup InMempool : e.id \in TxId
  BY HeldType
<1>9. \A e \in Sides(d) : e.id \in TxId
  BY SidesType DEF Entry
<1>10. \A t \in minedq : t \in TxId
  BY DEF TypeOK
<1>11. \A t \in minedq, x \in Sides(d) : x.id # t
  BY <1>1 DEF QueuesPlaced, StatusPlaced, Unplaced
<1>12. StatusPlaced'
  BY <1>7, <1>8, <1>9, <1>10, <1>11 DEF QueuesPlaced, StatusPlaced
<1>13. PendingOnce'
  BY DEF QueuesPlaced, PendingOnce
<1> QED
  BY <1>4, <1>6, <1>12, <1>13 DEF QueuesPlaced

\* The active side of the front is overwritten by a copy of itself.
LEMMA ActiveRewritten ==
  ASSUME TypeOK, QueuesPlaced, inq # <<>>, NEW e \in Entry,
         e.id = Active(inq[1]).id, e.ext = Active(inq[1]).ext,
         inq' = [inq EXCEPT ![1] = WithTx(inq[1], e)], UNCHANGED <<pendq, minedq>>,
         \A t \in TxId : db'[t].status = db[t].status
  PROVE  QueuesPlaced'
<1>1. /\ 1 \in DOMAIN inq /\ inq[1] \in Contest /\ Sides(inq[1]) \subseteq InMempool
  BY FrontOfInmempool
<1>2. PICK d \in Contest : d = WithTx(inq[1], e)
  BY <1>1, WithTxSides
<1>3. inq[1].comp # None =>
        inq[1].comp.ext = inq[1].orig.id /\ inq[1].comp.id # inq[1].orig.id
  BY <1>1 DEF QueuesPlaced, ContestsLinked
<1>4. CASE inq[1].comp = None
  <2>2. e.id = inq[1].orig.id /\ inq[1].orig \in Sides(inq[1])
    BY <1>1, <1>4, SidesType
  <2>0. d.orig = e /\ d.comp = None
    BY <1>1, <1>2, <1>4, <2>2, WithTxSides
  <2>1. d.orig = e /\ d.comp = None /\ Sides(d) = {e}
    BY <2>0 DEF Sides
  <2>3. db[e.id].status = "INMEMPOOL"
    BY <1>1, <2>2 DEF QueuesPlaced, StatusPlaced
  <2> QED
    BY <1>2, <2>1, <2>2, <2>3, FrontPlaced
<1>5. CASE inq[1].comp # None
  <2>1. /\ e.id = inq[1].comp.id /\ e.ext = inq[1].comp.ext
        /\ Sides(inq[1]) = {inq[1].orig, inq[1].comp}
    BY <1>1, <1>5, SidesType
  <2>2. d.orig = inq[1].orig /\ d.comp = e /\ Sides(d) = {inq[1].orig, e}
    BY <1>1, <1>2, <1>3, <1>5, <2>1, WithTxSides, NoneIsNoEntry DEF Sides
  <2>3. \A x \in Sides(d) : db[x.id].status = "INMEMPOOL"
    BY <1>1, <2>1, <2>2 DEF QueuesPlaced, StatusPlaced
  <2>4. \A x \in Sides(d) : \E y \in Sides(inq[1]) : x.id = y.id
    BY <2>1, <2>2
  <2>5. /\ \A x, y \in Sides(d) : x.id = y.id => x = y
        /\ d.comp.ext = d.orig.id /\ d.comp.id # d.orig.id
    BY <1>3, <1>5, <2>1, <2>2
  <2>6. inq' = [inq EXCEPT ![1] = d]
    BY <1>2
  <2> QED
    BY <2>3, <2>4, <2>5, <2>6, FrontPlaced
<1> QED
  BY <1>4, <1>5

\* The front of the in-mempool queue has a receipt and leaves.
LEMMA TailPlaced ==
  ASSUME TypeOK, QueuesPlaced, inq # <<>>, NEW a \in Sides(inq[1]),
         inq' = Tail(inq), UNCHANGED pendq,
         \/ minedq' = minedq
         \/ minedq' = minedq \cup {a.id} /\ db'[a.id].status \in {"INMEMPOOL", "MINED"},
         \A t \in TxId : t # a.id => db'[t].status = db[t].status
  PROVE  /\ QueuesPlaced'
         /\ \A e \in Sides(inq[1]) : e.id # a.id => Unplaced(e.id)'
<1>1. /\ inq \in Seq(Contest) /\ 1 \in DOMAIN inq
      /\ Sides(inq[1]) \subseteq InMempool /\ a \in InMempool
  BY FrontOfInmempool DEF TypeOK
<1>2. \A i \in DOMAIN inq' : i + 1 \in DOMAIN inq /\ i + 1 # 1 /\ i \in Nat
                             /\ inq'[i] = inq[i + 1]
  BY <1>1
<1>3. \A i \in DOMAIN inq' : \A x \in Sides(inq'[i]), y \in Sides(inq[1]) : x.id # y.id
  BY <1>1, <1>2 DEF QueuesPlaced, InMempoolOnce
<1>4. \A x \in InMempool' : x \in InMempool /\ \A y \in Sides(inq[1]) : x.id # y.id
  <2>1. \A x \in InMempool' : \E i \in DOMAIN inq' : x \in Sides(inq'[i])
    BY HeldPositionsAfter
  <2> QED
    BY <1>1, <1>3, <2>1, TailMembers
<1>5. Pending' = Pending
  BY SameMembers
<1>6. \A x \in Pending, y \in InMempool : x.id # y.id
  BY DEF QueuesPlaced, StatusPlaced
<1>7. \A x \in Pending \cup InMempool : x.id \in TxId
  BY HeldType
<1>8. \A t \in minedq : t \in TxId /\ \A y \in InMempool : y.id # t
  BY DEF QueuesPlaced, StatusPlaced, TypeOK
<1>9. StatusPlaced'
  <2>1. \A x \in Pending' : db'[x.id].status = "PENDING"
    BY <1>1, <1>5, <1>6, <1>7 DEF QueuesPlaced, StatusPlaced
  <2>2. \A x \in InMempool' : db'[x.id].status = "INMEMPOOL"
    BY <1>1, <1>4, <1>7 DEF QueuesPlaced, StatusPlaced
  <2>3. \A t \in minedq' : /\ db'[t].status \in {"INMEMPOOL", "MINED"}
                           /\ \A x \in InMempool' : x.id # t
    BY <1>1, <1>4, <1>8 DEF QueuesPlaced, StatusPlaced
  <2> QED
    BY <2>1, <2>2, <2>3 DEF StatusPlaced
<1>10. PendingOnce' /\ ContestsLinked'
  BY <1>2 DEF QueuesPlaced, PendingOnce, ContestsLinked
<1>11. ASSUME NEW i \in DOMAIN inq', NEW j \in DOMAIN inq',
              NEW x \in Sides(inq'[i]), NEW y \in Sides(inq'[j]), x.id = y.id
       PROVE  i = j /\ x = y
  <2>1. i + 1 = j + 1 /\ x = y
    BY <1>2, <1>11 DEF QueuesPlaced, InMempoolOnce
  <2> QED
    BY <1>2, <2>1
<1>12. InMempoolOnce'
  BY <1>11 DEF InMempoolOnce, Sides
<1>13. \A e \in Sides(inq[1]) : e.id # a.id =>
         e.id \notin minedq' /\ \A x \in Pending' \cup InMempool' : x.id # e.id
  BY <1>1, <1>4, <1>5, <1>6, <1>8
<1> QED
  BY <1>9, <1>10, <1>12, <1>13 DEF QueuesPlaced, Unplaced

\* A process that has nothing in memory has it all in its place.
LEMMA NothingPlaced ==
  ASSUME NothingHeld
  PROVE  QueuesPlaced /\ FlightPlaced
<1>1. DOMAIN pendq = {} /\ DOMAIN inq = {} /\ minedq = {} /\ op = Idle
  BY DEF NothingHeld
<1>2. Pending = {} /\ InMempool = {}
  BY <1>1, HeldPositions
<1> QED
  BY <1>1, <1>2 DEF QueuesPlaced, PendingOnce, InMempoolOnce, StatusPlaced, ContestsLinked,
                    FlightPlaced, Idle

\* The same of the state after a step.
LEMMA NothingPlacedAfter ==
  ASSUME NothingHeld'
  PROVE  QueuesPlaced' /\ FlightPlaced'
<1>1. DOMAIN pendq' = {} /\ DOMAIN inq' = {} /\ minedq' = {} /\ op' = Idle
  BY DEF NothingHeld
<1>2. Pending' = {} /\ InMempool' = {}
  BY <1>1, HeldPositionsAfter
<1> QED
  BY <1>1, <1>2 DEF QueuesPlaced, PendingOnce, InMempoolOnce, StatusPlaced, ContestsLinked,
                    FlightPlaced, Idle

\* A queue of renumbered entries has the ids it had.
LEMMA RenumberedPlaced ==
  ASSUME TypeOK, QueuesPlaced, NEW t \in TxId, NEW n \in Nat,
         \A i, j \in DOMAIN pendq' : pendq'[i] = pendq'[j] => i = j,
         \A e \in Pending' : \E f \in Pending : e = IF f.id = t THEN AtNonce(f, n) ELSE f,
         UNCHANGED <<inq, minedq>>,
         \A u \in TxId : db'[u].status = db[u].status
  PROVE  QueuesPlaced'
<1>1. \A e \in Entry : AtNonce(e, n).id = e.id
  BY AtNonceType
<1>2. \A e \in Pending' : \E f \in Pending :
        e.id = f.id /\ e = IF f.id = t THEN AtNonce(f, n) ELSE f
  BY <1>1, HeldType
<1>3. \A e, f \in Pending : e.id = f.id => e = f
  BY HeldPositions DEF QueuesPlaced, PendingOnce
<1>4. \A i \in DOMAIN pendq' : pendq'[i] \in Pending'
  BY HeldPositionsAfter
<1>5. ASSUME NEW i \in DOMAIN pendq', NEW j \in DOMAIN pendq', pendq'[i].id = pendq'[j].id
      PROVE  i = j
  <2>1. pendq'[i] = pendq'[j]
    BY <1>2, <1>3, <1>4, <1>5
  <2> QED
    BY <2>1
<1>6. PendingOnce'
  BY <1>5 DEF PendingOnce
<1>7. InMempoolOnce' /\ ContestsLinked' /\ InMempool' = InMempool
  BY InMempoolStaysPlaced
<1>8. \A e \in Pending \cup InMempool : e.id \in TxId
  BY HeldType
<1>9. \A u \in minedq : u \in TxId
  BY DEF TypeOK
<1>10. StatusPlaced'
  BY <1>2, <1>7, <1>8, <1>9 DEF QueuesPlaced, StatusPlaced
<1> QED
  BY <1>6, <1>7, <1>10 DEF QueuesPlaced

\* A mined transaction is confirmed.
LEMMA ConfirmPlaced ==
  ASSUME TypeOK, QueuesPlaced, NEW t \in minedq, UNCHANGED <<pendq, inq>>,
         minedq' = minedq \ {t}, \A u \in TxId : u # t => db'[u].status = db[u].status
  PROVE  QueuesPlaced'
<1>1. Pending' = Pending /\ InMempool' = InMempool
  BY SameMembers
<1>2. \A e \in Pending \cup InMempool : e.id \in TxId /\ e.id # t
  BY HeldType DEF QueuesPlaced, StatusPlaced
<1>3. \A u \in minedq : u \in TxId
  BY DEF TypeOK
<1>4. StatusPlaced'
  BY <1>1, <1>2, <1>3 DEF QueuesPlaced, StatusPlaced
<1>5. PendingOnce' /\ InMempoolOnce' /\ ContestsLinked'
  BY InMempoolStaysPlaced DEF QueuesPlaced, PendingOnce
<1> QED
  BY <1>4, <1>5 DEF QueuesPlaced

-----------------------------------------------------------------------------
(***************************************************************************)
(* A rival and its original name each other.                                *)
(***************************************************************************)
\* An original names the rival that names it; a rival names a user's transaction.
Linked(e) ==
  /\ e.by # None => e.by \in Rival /\ e.id \in User /\ db[e.by].tx.ext = e.id
  /\ e.ext # None => e.id \in Rival /\ e.ext \in User

RowLinked(t) ==
  Linked(db[t].tx) /\ (db[t].status = "absent" => db[t].tx.ext = None)

\* What memory holds of a transaction names the same original as its row.
HeldLinked == \A e \in Held : Linked(e) /\ e.ext = db[e.id].tx.ext

Links == (\A t \in TxId : RowLinked(t)) /\ HeldLinked

SameNames(e, f) == e.id = f.id /\ e.by = f.by /\ e.ext = f.ext

\* The rows that were written take their names from what was held, or from entries as good;
\* a transaction's original is then the same as before.
LEMMA LinksStay ==
  ASSUME TypeOK, RowsRecorded, Links, NEW S \in SUBSET Entry,
         \A e \in S : Linked(e) /\ e.ext = db[e.id].tx.ext,
         \A e \in Held' : e \in Held \cup S \/ \E t \in TxId : e = db[t].tx,
         \A t \in TxId : \/ SameNames(db'[t].tx, db[t].tx)
                         \/ \E e \in Held \cup S : e.id = t /\ SameNames(db'[t].tx, e),
         \A t \in TxId : db'[t].status = "absent" => db[t].status = "absent"
  PROVE  Links'
<1>1. \A e \in Held \cup S : /\ e \in Entry /\ e.id \in TxId
                             /\ Linked(e) /\ e.ext = db[e.id].tx.ext
  BY HeldType DEF Links, HeldLinked
<1>2. \A t \in TxId : db'[t].tx.ext = db[t].tx.ext
  BY <1>1 DEF SameNames
<1>3. Rival \subseteq TxId
  BY DEF Rival
<1>4. ASSUME NEW e, Linked(e), NEW f, SameNames(f, e)
      PROVE  /\ f.by # None => f.by \in Rival /\ f.id \in User /\ db'[f.by].tx.ext = f.id
             /\ f.ext # None => f.id \in Rival /\ f.ext \in User
  BY <1>2, <1>3, <1>4 DEF Linked, SameNames
<1>5. ASSUME NEW t \in TxId
      PROVE  /\ Linked(db[t].tx)'
             /\ db'[t].status = "absent" => db'[t].tx.ext = None
  <2>1. RowLinked(t)
    BY DEF Links
  <2>2. PICK e : Linked(e) /\ SameNames(db'[t].tx, e)
    BY <1>1, <2>1 DEF RowLinked
  <2>3. PICK f : f = db'[t].tx
    OBVIOUS
  <2>4. /\ f.by # None => f.by \in Rival /\ f.id \in User /\ db'[f.by].tx.ext = f.id
        /\ f.ext # None => f.id \in Rival /\ f.ext \in User
    BY <1>4, <2>2, <2>3
  <2>5. db'[t].status = "absent" => db'[t].tx.ext = None
    BY <1>2, <2>1 DEF RowLinked
  <2> QED
    BY <2>3, <2>4, <2>5 DEF Linked
<1>6. ASSUME NEW e \in Held'
      PROVE  Linked(e)' /\ e.ext = db'[e.id].tx.ext
  <2>1. e \in Held \cup S \/ \E t \in TxId : e = db[t].tx
    BY <1>6
  <2>2. PICK f : f = e
    OBVIOUS
  <2>3. Linked(f) /\ f.ext = db[f.id].tx.ext /\ f.id \in TxId
    BY <1>1, <2>1, <2>2 DEF Links, RowLinked, RowsRecorded
  <2>4. /\ f.by # None => f.by \in Rival /\ f.id \in User /\ db'[f.by].tx.ext = f.id
        /\ f.ext # None => f.id \in Rival /\ f.ext \in User
        /\ f.ext = db'[f.id].tx.ext
    BY <1>2, <1>4, <2>3 DEF SameNames
  <2> QED
    BY <2>2, <2>4 DEF Linked
<1>7. \A t \in TxId : RowLinked(t)'
  BY <1>5 DEF RowLinked
<1>8. HeldLinked'
  BY <1>6 DEF HeldLinked
<1> QED
  BY <1>7, <1>8 DEF Links

\* A row that is saved from an entry with the names of its transaction.
LEMMA SavedLinks ==
  ASSUME TypeOK, RowsRecorded, Links, NEW e \in Entry, NEW s, s # "absent",
         SaveTransaction(e, s), Linked(e), e.ext = db[e.id].tx.ext,
         Held' \subseteq Held \cup {e}
  PROVE  Links'
<1>1. /\ e.id \in TxId /\ db'[e.id] = [status |-> s, tx |-> e]
      /\ \A t \in TxId : t # e.id => db'[t] = db[t]
  BY SaveTransactionRows
<1>2. db'[e.id].status = s /\ db'[e.id].tx = e
  BY <1>1
<1>3. \A t \in TxId : \/ SameNames(db'[t].tx, db[t].tx)
                      \/ \E f \in Held \cup {e} : f.id = t /\ SameNames(db'[t].tx, f)
  BY <1>1, <1>2 DEF SameNames
<1>4. \A t \in TxId : db'[t].status = "absent" => db[t].status = "absent"
  BY <1>1, <1>2
<1>5. \A f \in {e} : Linked(f) /\ f.ext = db[f.id].tx.ext
  OBVIOUS
<1> QED
  BY <1>3, <1>4, <1>5, LinksStay

\* Rows that keep their names, and memory that gains nothing with other names.
LEMMA KeptLinks ==
  ASSUME TypeOK, RowsRecorded, Links,
         \A t \in TxId : /\ SameNames(db'[t].tx, db[t].tx)
                         /\ db'[t].status = "absent" => db[t].status = "absent",
         \A e \in Held' : \/ \E f \in Held : SameNames(e, f) /\ e \in Entry
                          \/ \E t \in TxId : e = db[t].tx
  PROVE  Links'
<1> DEFINE S == {e \in Entry : \E f \in Held : SameNames(e, f)}
<1>1. \A f \in Held : /\ f.id \in TxId /\ Linked(f) /\ f.ext = db[f.id].tx.ext
  BY HeldType DEF Links, HeldLinked
<1>2. \A e \in S : Linked(e) /\ e.ext = db[e.id].tx.ext
  BY <1>1 DEF SameNames, Linked
<1>3. S \in SUBSET Entry /\ \A e \in Held' : e \in Held \cup S \/ \E t \in TxId : e = db[t].tx
  OBVIOUS
<1> HIDE DEF S
<1> QED
  BY <1>2, <1>3, LinksStay

\* A new rival names its original, and no one named the rival yet.
LEMMA RivalLinks ==
  ASSUME TypeOK, RowsRecorded, Links, QueuesPlaced, op = Idle,
         NEW t \in User, NEW c \in Rival, db[c].status = "absent",
         NEW f \in Entry, f.id = c, f.by = None, f.ext = t,
         SameNames(db'[c].tx, f), db'[c].status # "absent",
         \A u \in TxId : u # c => db'[u] = db[u],
         Held' \subseteq Held \cup {f}
  PROVE  Links'
<1>1. c \in TxId /\ c \notin User /\ \A u \in TxId : u # None
  BY NodeAssumption DEF Rival
<1>2. db[c].tx.ext = None
  BY <1>1 DEF Links, RowLinked
<1>3. \A e : Linked(e) => e.by # c
  BY <1>1, <1>2, QueueAssumption DEF Linked
<1>4. Unplaced(c)
  BY <1>1, AbsentUnplaced
<1>5. \A e \in Held : e.id # c
  BY <1>4, SameMembers DEF Unplaced, Held
<1>6. Rival \subseteq TxId
  BY DEF Rival
<1>7. ASSUME NEW e, Linked(e), NEW g, SameNames(g, e)
      PROVE  /\ g.by # None => g.by \in Rival /\ g.id \in User /\ db'[g.by].tx.ext = g.id
             /\ g.ext # None => g.id \in Rival /\ g.ext \in User
  BY <1>3, <1>6, <1>7 DEF Linked, SameNames
<1>8. ASSUME NEW u \in TxId PROVE RowLinked(u)'
  <2>1. PICK g : g = db'[u].tx
    OBVIOUS
  <2>2. /\ g.by # None => g.by \in Rival /\ g.id \in User /\ db'[g.by].tx.ext = g.id
        /\ g.ext # None => g.id \in Rival /\ g.ext \in User
    <3>1. CASE u = c
      BY <2>1, <3>1 DEF SameNames
    <3>2. CASE u # c
      <4>1. Linked(db[u].tx) /\ SameNames(g, db[u].tx)
        BY <2>1, <3>2 DEF SameNames, Links, RowLinked
      <4> QED
        BY <1>7, <4>1
    <3> QED
      BY <3>1, <3>2
  <2>3. db'[u].status = "absent" => db'[u].tx.ext = None
    BY DEF Links, RowLinked
  <2> QED
    BY <2>1, <2>2, <2>3 DEF RowLinked, Linked
<1>9. ASSUME NEW e \in Held' PROVE Linked(e)' /\ e.ext = db'[e.id].tx.ext
  <2>1. PICK g : g = e /\ g \in Held \cup {f}
    BY <1>9
  <2>2. CASE g = f
    BY <2>1, <2>2 DEF Linked, SameNames
  <2>3. CASE g \in Held
    <3>1. Linked(g) /\ SameNames(g, g) /\ g.ext = db[g.id].tx.ext /\ g.id \in TxId
      BY <2>3, HeldType DEF Links, HeldLinked, SameNames
    <3>2. g.ext = db'[g.id].tx.ext
      BY <1>5, <2>3, <3>1
    <3>3. /\ g.by # None => g.by \in Rival /\ g.id \in User /\ db'[g.by].tx.ext = g.id
          /\ g.ext # None => g.id \in Rival /\ g.ext \in User
      BY <1>7, <3>1
    <3> QED
      BY <2>1, <3>2, <3>3 DEF Linked
  <2> QED
    BY <2>1, <2>2, <2>3
<1> QED
  BY <1>8, <1>9 DEF Links, HeldLinked

\* Startup's queues have every open transaction once, and every rival beside its original.
LEMMA LoadPlaced ==
  ASSUME TypeOK, RowsRecorded, Links, LoadQueues
  PROVE  QueuesPlaced'
<1>1. /\ UNCHANGED db /\ minedq' = With("MINED")
      /\ \A i \in DOMAIN pendq' : \E t \in With("PENDING") : pendq'[i] = db[t].tx
      /\ \A i, j \in DOMAIN pendq' : pendq'[i] = pendq'[j] => i = j
      /\ \A i \in DOMAIN inq' : inq'[i] \in Contests
      /\ \A i, j \in DOMAIN inq' : inq'[i] = inq'[j] => i = j
      /\ \A e \in Pending' : \E t \in With("PENDING") : e = db[t].tx
      /\ \A e \in InMempool' : \E t \in With("INMEMPOOL") : e = db[t].tx
  BY LoadQueuesEffect DEF rowVars
<1>2. \A t \in TxId : db[t].tx.id = t /\ db[t].tx.id \in TxId
  BY DEF RowsRecorded
<1>3. StatusPlaced'
  <2>1. \A e \in Pending' : db'[e.id].status = "PENDING"
    BY <1>1, <1>2 DEF With
  <2>2. \A e \in InMempool' : db'[e.id].status = "INMEMPOOL"
    BY <1>1, <1>2 DEF With
  <2>3. \A t \in minedq' : db'[t].status = "MINED"
    BY <1>1 DEF With
  <2> QED
    BY <2>1, <2>2, <2>3 DEF StatusPlaced
<1>4. PendingOnce'
  <2>1. ASSUME NEW i \in DOMAIN pendq', NEW j \in DOMAIN pendq', pendq'[i].id = pendq'[j].id
        PROVE  i = j
    <3>1. pendq'[i] = pendq'[j]
      BY <1>1, <1>2, <2>1 DEF With
    <3> QED
      BY <1>1, <3>1
  <2> QED
    BY <2>1 DEF PendingOnce
<1>5. \A e \in LiveEntries : e.id \in TxId /\ e = db[e.id].tx /\ Linked(e)
  BY <1>2 DEF LiveEntries, With, Links, RowLinked
<1>6. ASSUME NEW c \in Contests
      PROVE  /\ c.orig \in LiveEntries /\ c = ContestOf(c.orig)
             /\ \A o \in LiveEntries : o.by # c.orig.id
             /\ c.comp # None => c.comp \in LiveEntries /\ c.comp.id = c.orig.by
  <2>1. PICK e \in LiveEntries : c = ContestOf(e) /\ \A o \in LiveEntries : o.by # e.id
    BY DEF Contests
  <2>2. CASE RivalsOf(e) = {}
    BY <2>1, <2>2 DEF ContestOf, Alone
  <2>3. CASE RivalsOf(e) # {}
    <3> DEFINE r == CHOOSE r \in RivalsOf(e) : TRUE
    <3>1. r \in LiveEntries /\ r.id = e.by
      BY <2>3 DEF RivalsOf
    <3>2. c = [orig |-> e, comp |-> r, kind |-> IF r.payload = Noop THEN "cancel" ELSE "replace"]
      BY <2>1, <2>3 DEF ContestOf
    <3> HIDE DEF r
    <3>3. c.orig = e /\ c.comp = r
      BY <3>2
    <3> QED
      BY <2>1, <3>1, <3>3
  <2> QED
    BY <2>2, <2>3
<1>7. ContestsLinked'
  <2>1. ASSUME NEW c \in Contests, c.comp # None
        PROVE  c.comp.ext = c.orig.id /\ c.comp.id # c.orig.id
    <3>1. /\ c.comp \in LiveEntries /\ c.orig \in LiveEntries
          /\ c.comp.id = c.orig.by /\ c.orig.by # c.orig.id
      BY <1>6, <2>1
    <3>2. c.comp = db[c.orig.by].tx /\ c.orig.by # None
      BY <1>5, <3>1, NodeAssumption
    <3> QED
      BY <1>5, <3>1, <3>2 DEF Linked
  <2> QED
    BY <1>1, <2>1 DEF ContestsLinked
<1>8. ASSUME NEW c \in Contests, NEW d \in Contests,
             NEW x \in Sides(c), NEW y \in Sides(d), x.id = y.id
      PROVE  c = d /\ x = y
  <2>1. /\ x = c.orig \/ (c.comp # None /\ x = c.comp)
        /\ y = d.orig \/ (d.comp # None /\ y = d.comp)
    BY DEF Sides
  <2>2. x \in LiveEntries /\ y \in LiveEntries /\ x = y
    BY <1>5, <1>6, <1>8, <2>1
  <2>3. CASE x = c.orig /\ y = d.orig
    BY <1>6, <2>2, <2>3
  <2>4. CASE x = c.orig /\ d.comp # None /\ y = d.comp
    BY <1>6, <2>2, <2>4
  <2>5. CASE c.comp # None /\ x = c.comp /\ y = d.orig
    BY <1>6, <2>2, <2>5
  <2>6. CASE c.comp # None /\ x = c.comp /\ d.comp # None /\ y = d.comp
    <3>1. c.orig.by = x.id /\ d.orig.by = x.id /\ x.id # None
      BY <1>5, <1>6, <2>2, <2>6, NodeAssumption
    <3>2. db[x.id].tx.ext = c.orig.id /\ db[x.id].tx.ext = d.orig.id
      BY <1>5, <1>6, <3>1 DEF Linked
    <3>3. c.orig = d.orig
      BY <1>5, <1>6, <3>2
    <3> QED
      BY <1>6, <2>2, <3>3
  <2> QED
    BY <2>1, <2>3, <2>4, <2>5, <2>6
<1>9. ASSUME NEW i \in DOMAIN inq', NEW j \in DOMAIN inq',
             NEW x \in Sides(inq'[i]), NEW y \in Sides(inq'[j]), x.id = y.id
      PROVE  i = j /\ x = y
  BY <1>1, <1>8, <1>9
<1>10. InMempoolOnce'
  BY <1>9 DEF InMempoolOnce, Sides
<1> QED
  BY <1>3, <1>4, <1>7, <1>10 DEF QueuesPlaced

-----------------------------------------------------------------------------
(***************************************************************************)
(* A final status stays.                                                    *)
(***************************************************************************)
SettledStays == \A t \in TxId : db[t].status \in Terminal => db'[t].status = db[t].status

LEMMA SavedSettles ==
  ASSUME TypeOK, NEW e \in Entry, NEW s, SaveTransaction(e, s), db[e.id].status \notin Terminal
  PROVE  SettledStays
  BY SaveTransactionRows DEF SettledStays

LEMMA SentSettles ==
  ASSUME TypeOK, NEW t \in TxId, NEW h, SetSent(t, h), db[t].status \notin Terminal
  PROVE  SettledStays
  BY SetSentRows DEF SettledStays

\* What memory holds has a status that is not final.
LEMMA PlacedOpen ==
  ASSUME TypeOK, QueuesPlaced
  PROVE  /\ \A e \in Pending \cup InMempool : e.id \in TxId /\ db[e.id].status \notin Terminal
         /\ \A e \in Pending : db[e.id].status = "PENDING"
         /\ \A e \in InMempool : db[e.id].status = "INMEMPOOL"
         /\ \A t \in minedq : t \in TxId /\ db[t].status \notin Terminal
  BY HeldType DEF QueuesPlaced, StatusPlaced, Terminal, TypeOK

\* A handler that has ended leaves nothing in flight to place.
LEMMA EndedPlaced ==
  ASSUME QueuesPlaced', op' = Idle, boot' = "online"
  PROVE  Placed'
  BY DEF Placed, FlightPlaced, Idle

\* The API's operations.
LEMMA ApiPlaced ==
  ASSUME TypeOK, RowsRecorded, Placed, Links, NEW t \in TxId, Api(t)
  PROVE  Placed' /\ Links' /\ SettledStays
<1>0. QueuesPlaced
  BY DEF Placed
<1>1. CASE Admit(t)
  <2>1. PICK e \in Entry :
          /\ e = NewEntry(t, e.nonce)
          /\ SaveTransaction(e, "PENDING") /\ pendq' = InsertByNonce(pendq, e)
    BY <1>1, AdmitEffect
  <2>2. /\ db[t].status = "absent" /\ op' = Idle /\ op = Idle /\ boot' = "online"
        /\ UNCHANGED <<inq, minedq>>
    BY <1>1, AdmitEffect
  <2>3. e.id = t /\ e.by = None /\ e.ext = None
    BY <2>1 DEF NewEntry
  <2>4. QueuesPlaced'
    BY <1>0, <2>1, <2>2, <2>3, AbsentUnplaced, InsertPlaced
  <2>5. Linked(e) /\ e.ext = db[e.id].tx.ext
    BY <2>2, <2>3 DEF Links, RowLinked, Linked
  <2>6. Held' \subseteq Held \cup {e}
    BY <2>1, <2>2, PendingMembers, SameMembers, HeldPositionsAfter DEF Held
  <2>7. Links'
    BY <2>1, <2>5, <2>6, SavedLinks
  <2>8. SettledStays
    BY <2>1, <2>2, <2>3, SavedSettles DEF Terminal
  <2> QED
    BY <2>2, <2>4, <2>7, <2>8, EndedPlaced
<1>2. CASE AdmitUnestimable(t)
  <2>1. PICK e \in Entry :
          e = [NewEntry(t, e.nonce) EXCEPT !.failed = TRUE] /\ SaveTransaction(e, "FAILED")
    BY <1>2, AdmitUnestimableEffect
  <2>2. /\ db[t].status = "absent" /\ op' = Idle /\ op = Idle /\ boot' = "online"
        /\ UNCHANGED <<pendq, inq, minedq, op>>
    BY <1>2, AdmitUnestimableEffect
  <2>3. e.id = t /\ e.by = None /\ e.ext = None
    BY <2>1 DEF NewEntry
  <2>4. QueuesPlaced'
    <3>1. Unplaced(t)
      BY <1>0, <2>2, AbsentUnplaced
    <3>2. \A u \in TxId : db'[u].status = db[u].status \/ Unplaced(u)
      BY <2>1, <2>3, <3>1, SaveTransactionRows
    <3> QED
      BY <1>0, <2>2, <3>2, QueuesStayPlaced
  <2>5. Linked(e) /\ e.ext = db[e.id].tx.ext
    BY <2>2, <2>3 DEF Links, RowLinked, Linked
  <2>6. Held' \subseteq Held \cup {e}
    BY <2>2, SameMembers, HeldPositionsAfter DEF Held
  <2>7. Links'
    BY <2>1, <2>5, <2>6, SavedLinks
  <2>8. SettledStays
    BY <2>1, <2>2, <2>3, SavedSettles DEF Terminal
  <2> QED
    BY <2>2, <2>4, <2>7, <2>8, EndedPlaced
<1>3. CASE AdmitUnsaved(t)
  <2>1. /\ op' = Idle /\ boot' = "online" /\ UNCHANGED <<db, pendq, inq, minedq, op>>
    BY <1>3, AdmitUnsavedEffect DEF rowVars
  <2>2. QueuesPlaced' /\ SettledStays
    BY <1>0, <2>1, QueuesStayPlaced DEF SettledStays
  <2>3. Held' = Held
    BY <2>1, SameMembers, HeldPositionsAfter DEF Held
  <2>4. Links'
    BY <2>1, <2>3, HeldType, KeptLinks DEF SameNames
  <2> QED
    BY <2>1, <2>2, <2>4, EndedPlaced
<1>4. CASE CancelPending(t) \/ ReplacePending(t)
  <2>1. PICK i \in DOMAIN pendq, e \in Entry :
          /\ SameLinks(e, pendq[i])
          /\ SaveTransaction(e, "PENDING") /\ pendq' = Updated(pendq, e)
    BY <1>4, EditEffect
  <2>2. /\ op' = Idle /\ op = Idle /\ boot' = "online" /\ UNCHANGED <<inq, minedq>>
    BY <1>4, EditEffect
  <2>3. /\ pendq[i] \in Pending /\ pendq[i] \in Held
        /\ pendq[i].id = e.id /\ pendq[i].by = e.by /\ pendq[i].ext = e.ext
    BY <2>1 DEF Pending, Held, SameLinks
  <2>4. QueuesPlaced'
    BY <1>0, <2>1, <2>2, <2>3, UpdatePlaced
  <2>5. Linked(e) /\ e.ext = db[e.id].tx.ext
    BY <2>3 DEF Links, HeldLinked, Linked
  <2>6. Held' \subseteq Held \cup {e}
    BY <2>1, <2>2, PendingMembers, SameMembers, HeldPositionsAfter DEF Held
  <2>7. Links'
    BY <2>1, <2>5, <2>6, SavedLinks
  <2>8. SettledStays
    BY <1>0, <2>1, <2>3, PlacedOpen, SavedSettles
  <2> QED
    BY <2>2, <2>4, <2>7, <2>8, EndedPlaced
<1>5. ASSUME NEW k \in {"cancel", "replace"}, SendRival(t, k)
      PROVE  Placed' /\ Links' /\ SettledStays
  <2>1. PICK c \in Rival, i \in DOMAIN inq, e \in Entry, f \in Entry :
          /\ Fresh(c) /\ inq[i].orig.id = t
          /\ RivalOf(e, c, inq[i].orig, k) /\ Sends(e, "PENDING", k, f)
    BY <1>5, SendRivalCopies
  <2>2. /\ op = Idle /\ boot = "online" /\ t \in User
    BY <1>5, SendRivalCopies
  <2>3. /\ db[c].status = "absent" /\ c \in TxId /\ e.id = c
        /\ f.id = c /\ f.by = None /\ f.ext = t
    BY <2>1 DEF Fresh, RivalOf, Sends, SignedCopy, Rival
  <2>4. /\ db'[c].status = "PENDING" /\ SameNames(db'[c].tx, f)
        /\ \A u \in TxId : u # c => db'[u] = db[u]
        /\ op'.at = "persisted" /\ op'.kind = k /\ op'.tx = f
        /\ UNCHANGED <<pendq, inq, minedq, boot>>
    BY <2>1, <2>3 DEF Sends, SameButFailed, SameNames
  <2>5. Unplaced(c)
    BY <1>0, <2>3, AbsentUnplaced
  <2>6. QueuesPlaced'
    BY <1>0, <2>4, <2>5, QueuesStayPlaced
  <2>7. Pending' = Pending /\ InMempool' = InMempool /\ InFlight' = {f}
    BY <2>4, SameMembers DEF InFlight
  <2>8. Links'
    <3>1. Held' \subseteq Held \cup {f}
      BY <2>7, HeldPositionsAfter DEF Held
    <3> QED
      BY <1>0, <2>2, <2>3, <2>4, <3>1, RivalLinks
  <2>9. FlightPlaced'
    <3>1. Unplaced(c)'
      BY <2>4, <2>5, <2>7 DEF Unplaced
    <3> QED
      BY <1>5, <2>3, <2>4, <3>1 DEF FlightPlaced, Unplaced
  <2>10. SettledStays
    BY <2>3, <2>4 DEF SettledStays, Terminal
  <2> QED
    BY <2>2, <2>4, <2>6, <2>8, <2>9, <2>10 DEF Placed
<1> QED
  BY <1>1, <1>2, <1>3, <1>4, <1>5 DEF Api, CancelInmempool, ReplaceInmempool

\* A loop sends a copy of what memory holds.
LEMMA SendPlaced ==
  ASSUME TypeOK, RowsRecorded, Placed, Links, NEW e \in Pending \cup InMempool, NEW k, NEW f \in Entry,
         op = Idle, Sends(e, db[e.id].status, k, f)
  PROVE  QueuesPlaced' /\ Links' /\ SettledStays
<1>1. e \in Held /\ e.id \in TxId
  BY HeldType DEF Held
<1>2. /\ SameNames(f, e) /\ SameNames(db'[e.id].tx, f)
      /\ \A t \in TxId : db'[t].status = db[t].status
      /\ \A t \in TxId : t # e.id => db'[t] = db[t]
      /\ op'.tx = f /\ op'.at = "persisted" /\ UNCHANGED <<pendq, inq, minedq>>
  BY <1>1 DEF Sends, SignedCopy, SameButFailed, SameNames
<1>3. QueuesPlaced'
  BY <1>2, QueuesStayPlaced DEF Placed
<1>4. Held' \subseteq Held \cup {f}
  <2>1. InFlight' = {f} /\ Pending' = Pending /\ InMempool' = InMempool
    BY <1>2, SameMembers DEF InFlight
  <2> QED
    BY <2>1, HeldPositionsAfter DEF Held
<1>5. Links'
  <2>1. \A g \in {f} : Linked(g) /\ g.ext = db[g.id].tx.ext
    BY <1>1, <1>2 DEF Links, HeldLinked, Linked, SameNames
  <2>2. \A t \in TxId : \/ SameNames(db'[t].tx, db[t].tx)
                        \/ \E g \in Held \cup {f} : g.id = t /\ SameNames(db'[t].tx, g)
    BY <1>2 DEF SameNames
  <2>3. \A t \in TxId : db'[t].status = "absent" => db[t].status = "absent"
    BY <1>2
  <2>4. {f} \in SUBSET Entry /\ \A g \in Held' : g \in Held \cup {f} \/ \E t \in TxId : g = db[t].tx
    BY <1>4
  <2> QED
    BY <2>1, <2>2, <2>3, <2>4, LinksStay
<1> QED
  BY <1>2, <1>3, <1>5 DEF SettledStays

\* The loops that start a send.
LEMMA SendLoopsPlaced ==
  ASSUME TypeOK, RowsRecorded, Placed, Links, SendPending \/ EstimateRejects \/ BumpGas
  PROVE  Placed' /\ Links' /\ SettledStays
<1>0. QueuesPlaced
  BY DEF Placed
<1>1. CASE SendPending
  <2>1. PICK e \in Entry, f \in Entry :
          e = pendq[1] /\ e \in Pending /\ pendq # <<>> /\ Sends(e, "PENDING", "pending", f)
    <3>1. /\ Head(pendq) \in Entry /\ Head(pendq) = pendq[1] /\ Head(pendq) \in Pending
          /\ pendq # <<>> /\ \E f \in Entry : Sends(Head(pendq), "PENDING", "pending", f)
      BY <1>1, SendPendingSends
    <3>2. PICK e \in Entry : e = Head(pendq)
      BY <3>1
    <3>3. \E f \in Entry : Sends(e, "PENDING", "pending", f)
      BY <3>1, <3>2
    <3> QED
      BY <3>1, <3>2, <3>3
  <2>2. op = Idle /\ boot = "online"
    BY <1>1, SendPendingSends
  <2>3. db[e.id].status = "PENDING"
    BY <1>0, <2>1, PlacedOpen
  <2>4. QueuesPlaced' /\ Links' /\ SettledStays
    BY <2>1, <2>2, <2>3, SendPlaced
  <2>5. /\ op'.at = "persisted" /\ op'.kind = "pending" /\ op'.tx = f /\ f.id = e.id
        /\ UNCHANGED <<pendq, boot>>
    BY <2>1 DEF Sends, SignedCopy
  <2>6. FlightPlaced'
    BY <2>1, <2>5 DEF FlightPlaced
  <2> QED
    BY <2>2, <2>4, <2>5, <2>6 DEF Placed
<1>2. CASE EstimateRejects
  <2>1. /\ pendq # <<>> /\ Head(pendq) = pendq[1] /\ Head(pendq) \in Pending
        /\ op'.at = "rejected" /\ op'.kind = "pending" /\ op'.tx = Head(pendq)
        /\ boot = "online" /\ UNCHANGED <<db, pendq, inq, minedq, boot>>
    BY <1>2, EstimateRejectsEffect DEF rowVars, queueVars
  <2>2. QueuesPlaced' /\ SettledStays
    BY <1>0, <2>1, QueuesStayPlaced DEF SettledStays
  <2>3. FlightPlaced'
    BY <2>1 DEF FlightPlaced
  <2>4. Held' \subseteq Held
    <3>1. InFlight' = {Head(pendq)} /\ Pending' = Pending /\ InMempool' = InMempool
      BY <2>1, SameMembers DEF InFlight
    <3> QED
      BY <2>1, <3>1, HeldPositionsAfter DEF Held
  <2>5. Links'
    BY <2>1, <2>4, HeldType, KeptLinks DEF SameNames
  <2> QED
    BY <2>1, <2>2, <2>3, <2>5 DEF Placed
<1>3. CASE BumpGas
  <2>1. PICK e \in Entry, f \in Entry :
          /\ e = Active(Head(inq)) /\ e \in InMempool /\ inq # <<>> /\ Head(inq) = inq[1]
          /\ Sends(e, "INMEMPOOL", "bump", f)
    <3>1. inq # <<>> /\ \E f \in Entry : Sends(Active(Head(inq)), "INMEMPOOL", "bump", f)
      BY <1>3, BumpGasSends
    <3>2. PICK e \in Entry : e = Active(Head(inq)) /\ e \in InMempool /\ Head(inq) = inq[1]
      BY <3>1, FrontOfInmempool
    <3>3. \E f \in Entry : Sends(e, "INMEMPOOL", "bump", f)
      BY <3>1, <3>2
    <3> QED
      BY <3>1, <3>2, <3>3
  <2>2. op = Idle /\ boot = "online"
    BY <1>3, BumpGasSends
  <2>3. db[e.id].status = "INMEMPOOL"
    BY <1>0, <2>1, PlacedOpen
  <2>4. QueuesPlaced' /\ Links' /\ SettledStays
    BY <2>1, <2>2, <2>3, SendPlaced
  <2>5. /\ op'.at = "persisted" /\ op'.kind = "bump" /\ op'.tx = f /\ f.id = e.id
        /\ UNCHANGED <<inq, boot>>
    BY <2>1 DEF Sends, SignedCopy
  <2>6. Active(inq'[1]).id = e.id /\ inq' # <<>>
    BY <2>1, <2>5
  <2>7. FlightPlaced'
    BY <2>5, <2>6 DEF FlightPlaced, Active
  <2> QED
    BY <2>2, <2>4, <2>5, <2>7 DEF Placed
<1> QED
  BY <1>1, <1>2, <1>3

\* The receipts and the confirmations.
LEMMA ReceiptsPlaced ==
  ASSUME TypeOK, RowsRecorded, Placed, Links,
         ResolveReceipt \/ ResolveReceiptUnsaved \/ \E t \in TxId : Confirm(t)
  PROVE  Placed' /\ Links' /\ SettledStays
<1>0. QueuesPlaced
  BY DEF Placed
<1>1. CASE ResolveReceipt
  <2>1. /\ op = Idle /\ boot' = "online" /\ inq # <<>> /\ inq' = Tail(inq)
        /\ UNCHANGED <<pendq>>
    BY <1>1, ResolveReceiptEffect
  <2>2. PICK a \in Entry, x \in Entry, s \in {"MINED", "FAILED", "EXPIRED"} :
          /\ a = Active(Head(inq)) /\ WinnerRow(x, a, s) /\ SaveTransaction(x, s)
          /\ minedq' = IF s = "MINED" THEN minedq \cup {a.id} ELSE minedq
          /\ IF s = "MINED" /\ Head(inq).comp # None
             THEN /\ op'.at = "settling" /\ op'.kind = Head(inq).kind
                  /\ op'.tx = Loser(Head(inq))
             ELSE op' = Idle
    BY <1>1, ResolveReceiptEffect
  <2>3. PICK c \in Contest : c = Head(inq) /\ c = inq[1] /\ Sides(c) \subseteq InMempool
    BY <2>1, FrontOfInmempool
  <2>4. /\ a \in Sides(c) /\ a \in InMempool /\ a \in Held /\ a.id \in TxId
        /\ c.orig \in Sides(c)
        /\ c.comp # None => a = c.comp
    BY <2>2, <2>3, SidesType, HeldType DEF Held
  <2>5. db[a.id].status = "INMEMPOOL" /\ db[a.id].tx.id = a.id
    BY <1>0, <2>4, PlacedOpen DEF RowsRecorded
  <2>6. x.id = a.id /\ SameNames(x, db[a.id].tx)
    BY <2>2, <2>5 DEF WinnerRow, SameNames
  <2>7. /\ db'[a.id] = [status |-> s, tx |-> x]
        /\ \A t \in TxId : t # a.id => db'[t] = db[t]
    BY <2>2, <2>6, SaveTransactionRows
  <2>8. db'[a.id].status = s /\ db'[a.id].tx = x
    BY <2>7
  <2>9. SettledStays
    BY <2>5, <2>7 DEF SettledStays, Terminal
  <2>10. /\ QueuesPlaced'
         /\ \A e \in Sides(c) : e.id # a.id => Unplaced(e.id)'
    <3>1. \/ minedq' = minedq
          \/ minedq' = minedq \cup {a.id} /\ db'[a.id].status \in {"INMEMPOOL", "MINED"}
      BY <2>2, <2>8
    <3> QED
      BY <1>0, <2>1, <2>3, <2>4, <2>7, <3>1, TailPlaced
  <2>11. \A t \in TxId : \/ db'[t] = db[t]
                         \/ SameNames(db'[t].tx, db[t].tx) /\ db'[t].status # "absent"
    BY <2>2, <2>6, <2>7, <2>8
  <2>12. CASE op' = Idle
    <3>1. InMempool' \subseteq InMempool /\ Pending' = Pending /\ InFlight' = {}
      BY <2>1, <2>12, TailMembers, SameMembers
    <3>2. Held' \subseteq Held
      BY <3>1, HeldPositionsAfter DEF Held
    <3>3. Links'
      BY <2>11, <3>2, HeldType, KeptLinks DEF SameNames
    <3> QED
      BY <2>1, <2>9, <2>10, <2>12, <3>3, EndedPlaced
  <2>13. CASE c.comp # None /\ s = "MINED"
    <3>1. /\ op'.at = "settling" /\ op'.kind = c.kind /\ op'.tx = Loser(c)
          /\ c.kind \in {"cancel", "replace"}
      BY <2>2, <2>3, <2>13, LoserIs
    <3>2. PICK l \in Entry : /\ l = Loser(c) /\ l.id = c.orig.id /\ l.ext = c.orig.ext
                             /\ l.by \in {c.orig.by, c.comp.id}
      BY <2>13, LoserIs
    <3>3. /\ c.comp.ext = c.orig.id /\ a.id # c.orig.id
          /\ c.orig \in Held /\ c.orig.id \in TxId
      <4>1. 1 \in DOMAIN inq
        BY <2>1, FrontOfInmempool
      <4> QED
        BY <1>0, <2>3, <2>4, <2>13, <4>1, HeldType DEF QueuesPlaced, ContestsLinked, Held
    <3>4. Linked(l) /\ l.ext = db[l.id].tx.ext
      <4>1. /\ Linked(c.orig) /\ c.orig.ext = db[c.orig.id].tx.ext
            /\ Linked(a) /\ a.ext = db[a.id].tx.ext /\ a.ext = c.orig.id
        BY <2>4, <2>13, <3>3 DEF Links, HeldLinked
      <4>2. a.id \in Rival /\ c.orig.id \in User
        BY <3>3, <4>1, NodeAssumption DEF Linked
      <4> QED
        BY <2>4, <2>13, <3>2, <4>1, <4>2 DEF Linked
    <3>5. Held' \subseteq Held \cup {l}
      <4>1. InMempool' \subseteq InMempool /\ Pending' = Pending /\ InFlight' = {l}
        BY <2>1, <3>1, <3>2, TailMembers, SameMembers DEF InFlight
      <4> QED
        BY <4>1, HeldPositionsAfter DEF Held
    <3>6. Links'
      <4>1. {l} \in SUBSET Entry /\ \A g \in {l} : Linked(g) /\ g.ext = db[g.id].tx.ext
        BY <3>4
      <4>2. \A t \in TxId : SameNames(db'[t].tx, db[t].tx)
        BY <2>11 DEF SameNames
      <4>3. \A t \in TxId : db'[t].status = "absent" => db[t].status = "absent"
        BY <2>11
      <4> QED
        BY <3>5, <4>1, <4>2, <4>3, LinksStay
    <3>7. FlightPlaced'
      <4>1. Unplaced(l.id)'
        BY <2>4, <2>10, <3>2, <3>3
      <4>2. db'[l.id].status = "INMEMPOOL"
        BY <1>0, <2>3, <2>4, <2>7, <3>2, <3>3, PlacedOpen
      <4> QED
        BY <3>1, <3>2, <4>1, <4>2 DEF FlightPlaced, Unplaced
    <3> QED
      BY <2>1, <2>9, <2>10, <3>6, <3>7 DEF Placed
  <2> QED
    BY <2>2, <2>3, <2>12, <2>13
<1>2. CASE ResolveReceiptUnsaved
  <2>1. /\ op' = Idle /\ boot' = "online" /\ inq # <<>> /\ inq' = Tail(inq)
        /\ UNCHANGED <<db, pendq>>
    BY <1>2, ResolveReceiptUnsavedEffect DEF rowVars
  <2>2. PICK a \in Entry :
          /\ a \in Sides(inq[1]) /\ a \in InMempool
          /\ minedq' = minedq \/ minedq' = minedq \cup {a.id}
    <3>1. /\ Active(Head(inq)) \in Entry /\ Active(Head(inq)) \in Sides(inq[1])
          /\ Sides(inq[1]) \subseteq InMempool
      BY <2>1, FrontOfInmempool
    <3>2. minedq' = minedq \/ minedq' = minedq \cup {Active(Head(inq)).id}
      BY <1>2, ResolveReceiptUnsavedEffect
    <3> QED
      BY <3>1, <3>2
  <2>3. QueuesPlaced'
    <3>1. db'[a.id].status = "INMEMPOOL"
      BY <1>0, <2>1, <2>2, PlacedOpen
    <3> QED
      BY <1>0, <2>1, <2>2, <3>1, TailPlaced
  <2>4. Held' \subseteq Held
    <3>1. InMempool' \subseteq InMempool /\ Pending' = Pending /\ InFlight' = {}
      BY <2>1, TailMembers, SameMembers
    <3> QED
      BY <3>1, HeldPositionsAfter DEF Held
  <2>5. Links'
    BY <2>1, <2>4, HeldType, KeptLinks DEF SameNames
  <2> QED
    BY <2>1, <2>3, <2>5, EndedPlaced DEF SettledStays
<1>3. ASSUME NEW t \in TxId, Confirm(t) PROVE Placed' /\ Links' /\ SettledStays
  <2>1. /\ t \in minedq /\ SetStatus(t, "CONFIRMED") /\ minedq' = minedq \ {t}
        /\ op' = Idle /\ boot' = "online" /\ UNCHANGED <<pendq, inq, op>>
    BY <1>3 DEF Confirm, MoveMiningToConfirmed, Ready
  <2>2. /\ db'[t].status = "CONFIRMED" /\ db'[t].tx = db[t].tx
        /\ \A u \in TxId : u # t => db'[u] = db[u]
    BY <2>1, SetStatusRows
  <2>3. QueuesPlaced'
    BY <1>0, <2>1, <2>2, ConfirmPlaced
  <2>4. Held' = Held
    BY <2>1, SameMembers, HeldPositionsAfter DEF Held
  <2>5. Links'
    BY <2>2, <2>4, HeldType, KeptLinks DEF SameNames
  <2>6. SettledStays
    BY <1>0, <2>1, <2>2, PlacedOpen DEF SettledStays
  <2> QED
    BY <2>1, <2>3, <2>5, <2>6, EndedPlaced
<1> QED
  BY <1>1, <1>2, <1>3

\* The steps of a handler after its first effect.
LEMMA ContinuePlaced ==
  ASSUME TypeOK, RowsRecorded, Placed, Links, Continue
  PROVE  Placed' /\ Links' /\ SettledStays
<1>0. QueuesPlaced /\ FlightPlaced
  BY DEF Placed
<1>1. ASSUME op.at # "idle"
      PROVE  /\ op.tx \in Held /\ op.tx \in Entry /\ op.tx.id \in TxId
             /\ Linked(op.tx) /\ op.tx.ext = db[op.tx.id].tx.ext
  BY <1>1, OperationType DEF Held, InFlight, Links, HeldLinked
<1>2. CASE Deliver
  <2>1. /\ boot = "online" /\ op.at = "persisted" /\ UNCHANGED <<db, pendq, inq, minedq, boot>>
        /\ \/ op' = Idle
           \/ /\ op'.at \in {"accepted", "rejected", "conflict"}
              /\ op'.kind = op.kind /\ op'.tx = op.tx
              /\ op'.at = "rejected" => op.kind = "pending"
    BY <1>2, DeliverEffect DEF rowVars, queueVars
  <2>2. QueuesPlaced' /\ SettledStays
    BY <1>0, <2>1, QueuesStayPlaced DEF SettledStays
  <2>3. Held' \subseteq Held
    <3>1. InFlight' \subseteq InFlight /\ Pending' = Pending /\ InMempool' = InMempool
      BY <2>1, SameMembers DEF InFlight
    <3> QED
      BY <3>1, HeldPositionsAfter DEF Held
  <2>4. Links'
    BY <2>1, <2>3, HeldType, KeptLinks DEF SameNames
  <2>5. CASE op' = Idle
    BY <2>1, <2>2, <2>4, <2>5, EndedPlaced
  <2>6. CASE op' # Idle
    <3>1. UNCHANGED <<Pending, InMempool>>
      BY <2>1, SameMembers
    <3>2. \A t \in TxId : Unplaced(t) => t \notin minedq' /\ \A e \in Pending' \cup InMempool' : e.id # t
      BY <2>1, <3>1 DEF Unplaced
    <3>3. FlightPlaced'
      BY <1>0, <1>1, <2>1, <2>6, <3>1, <3>2 DEF FlightPlaced, Unplaced, Active
    <3> QED
      BY <2>1, <2>2, <2>4, <3>3 DEF Placed
  <2> QED
    BY <2>5, <2>6
<1>3. ASSUME NEW e \in Entry, op.kind = "pending", op.at # "idle", op.tx.id = e.id,
             SameNames(e, op.tx),
             SetSent(e.id, e.hash), MovePendingToInmempool(e),
             UNCHANGED minedq, op' = Idle, boot' = "online"
      PROVE  Placed' /\ Links' /\ SettledStays
  <2>1. pendq # <<>> /\ pendq[1].id = e.id
    BY <1>0, <1>3 DEF FlightPlaced
  <2>2. QueuesPlaced'
    BY <1>0, <1>3, <2>1, MovePlaced
  <2>3. db[e.id].status \notin Terminal /\ e.id \in TxId
    <3>1. pendq[1] \in Pending
      BY <2>1 DEF TypeOK, Pending
    <3> QED
      BY <1>0, <2>1, <3>1, PlacedOpen
  <2>4. SettledStays
    BY <1>3, <2>3, SentSettles
  <2>5. \A t \in TxId : SameNames(db'[t].tx, db[t].tx) /\ (db'[t].status = "absent" => db[t].status = "absent")
    BY <1>3, <2>3, SetSentRows DEF SameNames
  <2>6. \A g \in Held' : g \in Held \/ (SameNames(g, op.tx) /\ g \in Entry)
    <3>1. Pending' \subseteq Pending /\ InMempool' \subseteq InMempool \cup {e} /\ InFlight' = {}
      BY <1>3, MoveMembers, SameMembers
    <3> QED
      BY <1>3, <3>1, HeldPositionsAfter DEF Held
  <2>7. Links'
    BY <1>1, <1>3, <2>5, <2>6, HeldType, KeptLinks DEF SameNames
  <2> QED
    BY <1>3, <2>2, <2>4, <2>7, EndedPlaced
<1>4. CASE MarkPendingSent
  <2>1. /\ boot' = "online" /\ op.at = "accepted" /\ op.kind = "pending" /\ op.tx \in Entry
        /\ SetSent(op.tx.id, op.tx.hash) /\ op' = Idle
        /\ MovePendingToInmempool(op.tx) /\ UNCHANGED minedq
    BY <1>4, MarkPendingSentEffect
  <2>2. PICK e \in Entry : e = op.tx
    BY <2>1
  <2> QED
    BY <1>3, <2>1, <2>2 DEF SameNames
<1>5. CASE AdoptLanded
  <2>1. /\ boot' = "online" /\ op.at = "conflict" /\ op.kind = "pending" /\ op.tx \in Entry
        /\ op' = Idle /\ UNCHANGED minedq
    BY <1>5, AdoptLandedEffect
  <2>2. PICK e \in Entry :
          /\ SameLinks(e, op.tx)
          /\ \/ SetSent(e.id, e.hash) /\ MovePendingToInmempool(e)
             \/ UNCHANGED <<db, pendq, inq>>
    BY <1>5, AdoptLandedEffect
  <2>3. CASE SetSent(e.id, e.hash) /\ MovePendingToInmempool(e)
    BY <1>3, <2>1, <2>2, <2>3 DEF SameNames, SameLinks
  <2>4. CASE UNCHANGED <<db, pendq, inq>>
    <3>1. QueuesPlaced' /\ SettledStays
      BY <1>0, <2>1, <2>4, QueuesStayPlaced DEF SettledStays
    <3>2. Held' \subseteq Held
      BY <2>1, <2>4, SameMembers, HeldPositionsAfter DEF Held
    <3>3. Links'
      BY <2>4, <3>2, HeldType, KeptLinks DEF SameNames
    <3> QED
      BY <2>1, <3>1, <3>3, EndedPlaced
  <2> QED
    BY <2>2, <2>3, <2>4
<1>6. CASE MarkBumpSent
  <2>1. /\ boot' = "online" /\ op.at = "accepted" /\ op.kind = "bump" /\ op.tx \in Entry
        /\ SetSent(op.tx.id, op.tx.hash) /\ op' = Idle
        /\ inq' = [inq EXCEPT ![1] = WithTx(inq[1], op.tx)]
        /\ UNCHANGED <<pendq, minedq>>
    BY <1>6, MarkBumpSentEffect
  <2>2. PICK e \in Entry : e = op.tx
    BY <2>1
  <2>3. inq # <<>> /\ Active(inq[1]).id = e.id
    BY <1>0, <2>1, <2>2 DEF FlightPlaced
  <2>4. PICK a \in Entry : a = Active(inq[1]) /\ a \in InMempool /\ a \in Held
    BY <2>3, FrontOfInmempool DEF Held
  <2>5. db[e.id].status = "INMEMPOOL" /\ e.ext = a.ext /\ e.id \in TxId
    BY <1>0, <1>1, <2>1, <2>2, <2>3, <2>4, PlacedOpen DEF Links, HeldLinked
  <2>6. /\ db'[e.id].status = "INMEMPOOL" /\ SameNames(db'[e.id].tx, db[e.id].tx)
        /\ \A t \in TxId : t # e.id => db'[t] = db[t]
    BY <2>1, <2>2, <2>5, SetSentRows DEF SameNames
  <2>7. QueuesPlaced'
    <3>1. \A t \in TxId : db'[t].status = db[t].status
      BY <2>5, <2>6
    <3> QED
      BY <1>0, <2>1, <2>2, <2>3, <2>4, <2>5, <3>1, ActiveRewritten
  <2>8. Held' \subseteq Held
    <3>1. InMempool' \subseteq InMempool \cup {e} /\ Pending' = Pending /\ InFlight' = {} /\ e \in Held
      BY <1>1, <2>1, <2>2, FrontRewritten, SameMembers
    <3> QED
      BY <3>1, HeldPositionsAfter DEF Held
  <2>9. Links'
    <3>1. \A t \in TxId : /\ SameNames(db'[t].tx, db[t].tx)
                          /\ db'[t].status = "absent" => db[t].status = "absent"
      BY <2>6 DEF SameNames
    <3> QED
      BY <2>8, <3>1, HeldType, KeptLinks DEF SameNames
  <2> QED
    BY <2>1, <2>5, <2>6, <2>7, <2>9, EndedPlaced DEF SettledStays, Terminal
<1>7. CASE MarkRivalSent
  <2>1. /\ boot' = "online" /\ op.at = "accepted" /\ op.kind \in {"cancel", "replace"}
        /\ op.tx \in Entry /\ SetSent(op.tx.id, op.tx.hash)
        /\ op'.at = "linking" /\ op'.kind = op.kind /\ op'.tx = op.tx
        /\ UNCHANGED <<pendq, inq, minedq>>
    BY <1>7, MarkRivalSentEffect DEF queueVars
  <2>2. PICK t \in TxId : t = op.tx.id
    BY <1>1, <2>1
  <2>3. Unplaced(t) /\ db[t].status = "PENDING"
    BY <1>0, <2>1, <2>2 DEF FlightPlaced
  <2>4. /\ db'[t].status = "INMEMPOOL" /\ SameNames(db'[t].tx, db[t].tx)
        /\ \A u \in TxId : u # t => db'[u] = db[u]
    BY <2>1, <2>2, SetSentRows DEF SameNames
  <2>5. QueuesPlaced'
    BY <1>0, <2>1, <2>3, <2>4, QueuesStayPlaced
  <2>6. Pending' = Pending /\ InMempool' = InMempool
    BY <2>1, SameMembers
  <2>7. FlightPlaced'
    BY <2>1, <2>2, <2>3, <2>4, <2>6 DEF FlightPlaced, Unplaced
  <2>8. Held' \subseteq Held
    <3>1. InFlight' = InFlight
      BY <2>1 DEF InFlight
    <3> QED
      BY <2>6, <3>1, HeldPositionsAfter DEF Held
  <2>9. Links'
    <3>1. \A u \in TxId : /\ SameNames(db'[u].tx, db[u].tx)
                          /\ db'[u].status = "absent" => db[u].status = "absent"
      BY <2>4 DEF SameNames
    <3> QED
      BY <2>8, <3>1, HeldType, KeptLinks DEF SameNames
  <2> QED
    BY <2>1, <2>3, <2>4, <2>5, <2>7, <2>9 DEF Placed, SettledStays, Terminal
<1>8. CASE LinkRival
  <2>1. /\ boot' = "online" /\ op.at = "linking" /\ op.kind \in {"cancel", "replace"}
        /\ op.tx \in Entry /\ op' = Idle /\ UNCHANGED <<pendq, minedq>>
    BY <1>8, LinkRivalEffect
  <2>2. PICK i \in DOMAIN inq, o \in Entry, c \in Contest :
          /\ inq[i].orig.id = op.tx.ext
          /\ o.id = inq[i].orig.id /\ o.ext = inq[i].orig.ext /\ o.by = op.tx.id
          /\ SaveTransaction(o, "INMEMPOOL")
          /\ c.orig = o /\ c.comp = op.tx /\ Sides(c) = {o, op.tx}
          /\ inq' = IF i = 1 THEN [inq EXCEPT ![1] = c] ELSE inq
    BY <1>8, LinkRivalEffect
  <2>3. /\ op.tx.id \in TxId /\ Unplaced(op.tx.id) /\ db[op.tx.id].status = "INMEMPOOL"
        /\ Linked(op.tx) /\ op.tx.ext = db[op.tx.id].tx.ext /\ op.tx \in Held
    BY <1>0, <1>1, <2>1 DEF FlightPlaced
  <2>4. /\ inq[i].orig \in Sides(inq[i]) /\ Sides(inq[i]) \subseteq InMempool
        /\ inq[i].orig \in Held
    <3>1. inq[i] \in Contest
      BY DEF TypeOK
    <3> QED
      BY <3>1, SidesType, HeldPositions DEF Held
  <2>5. o.id \in TxId /\ db[o.id].status = "INMEMPOOL" /\ o.id # op.tx.id
    BY <1>0, <2>2, <2>3, <2>4, PlacedOpen DEF Unplaced
  <2>6. /\ db'[o.id] = [status |-> "INMEMPOOL", tx |-> o]
        /\ \A t \in TxId : t # o.id => db'[t] = db[t]
    BY <2>2, SaveTransactionRows
  <2>7. \A t \in TxId : db'[t].status = db[t].status
    BY <2>5, <2>6
  <2>8. QueuesPlaced'
    <3>1. CASE i = 1
      <4>1. \A x \in Sides(c) : (\E y \in Sides(inq[1]) : x.id = y.id) \/ Unplaced(x.id)
        BY <2>2, <2>3, <2>4, <3>1
      <4>2. /\ \A x, y \in Sides(c) : x.id = y.id => x = y
            /\ c.comp.ext = c.orig.id /\ c.comp.id # c.orig.id
            /\ \A x \in Sides(c) : db[x.id].status = "INMEMPOOL"
        BY <2>2, <2>3, <2>5
      <4>3. inq # <<>> /\ inq' = [inq EXCEPT ![1] = c]
        BY <2>2, <3>1
      <4> QED
        BY <1>0, <2>1, <2>7, <4>1, <4>2, <4>3, FrontPlaced
    <3>2. CASE i # 1
      BY <1>0, <2>1, <2>2, <2>7, <3>2, QueuesStayPlaced
    <3> QED
      BY <3>1, <3>2
  <2>9. Linked(o) /\ o.ext = db[o.id].tx.ext
    <3>1. Linked(inq[i].orig) /\ inq[i].orig.ext = db[o.id].tx.ext
      BY <2>2, <2>4 DEF Links, HeldLinked
    <3>2. op.tx.id \in Rival /\ o.id \in User
      BY <2>2, <2>3, <2>5, NodeAssumption DEF Linked
    <3> QED
      BY <2>2, <2>3, <3>1, <3>2 DEF Linked
  <2>10. Held' \subseteq Held \cup {o}
    <3>1. InMempool' \subseteq InMempool \cup {o, op.tx}
      BY <2>2, FrontMembers, SameMembers
    <3>2. Pending' = Pending /\ InFlight' = {}
      BY <2>1, SameMembers
    <3> QED
      BY <2>3, <3>1, <3>2, HeldPositionsAfter DEF Held
  <2>11. Links'
    BY <2>2, <2>9, <2>10, SavedLinks
  <2> QED
    BY <2>1, <2>7, <2>8, <2>11, EndedPlaced DEF SettledStays
<1>9. CASE CloseOut
  <2>1. /\ boot' = "online" /\ op.at = "rejected" /\ op.tx \in Entry /\ op' = Idle
        /\ UNCHANGED <<inq, minedq>>
    BY <1>9, CloseOutEffect
  <2>2. PICK e \in Entry : /\ SameLinks(e, op.tx)
                           /\ SaveTransaction(e, "PENDING") /\ pendq' = Updated(pendq, e)
    BY <1>9, CloseOutEffect
  <2>3. pendq # <<>> /\ pendq[1].id = e.id /\ 1 \in DOMAIN pendq /\ pendq[1] \in Pending
    BY <1>0, <2>1, <2>2 DEF FlightPlaced, SameLinks, TypeOK, Pending
  <2>4. QueuesPlaced'
    BY <1>0, <2>1, <2>2, <2>3, UpdatePlaced
  <2>5. Linked(e) /\ e.ext = db[e.id].tx.ext
    BY <1>1, <2>1, <2>2 DEF SameLinks, Linked
  <2>6. Held' \subseteq Held \cup {e}
    BY <2>1, <2>2, PendingMembers, SameMembers, HeldPositionsAfter DEF Held
  <2>7. Links'
    BY <2>2, <2>5, <2>6, SavedLinks
  <2>8. SettledStays
    BY <1>0, <2>2, <2>3, PlacedOpen, SavedSettles
  <2> QED
    BY <2>1, <2>4, <2>7, <2>8, EndedPlaced
<1>10. ASSUME NEW n \in Nat, op.tx \in Entry, op.at # "idle",
              db'[op.tx.id].status = db[op.tx.id].status,
              db'[op.tx.id].tx = AtNonce(db[op.tx.id].tx, n),
              \A t \in TxId : t # op.tx.id => db'[t] = db[t]
       PROVE  /\ SettledStays /\ \A t \in TxId : db'[t].status = db[t].status
              /\ \A t \in TxId : SameNames(db'[t].tx, db[t].tx)
  <2>1. PICK t \in TxId : t = op.tx.id
    BY <1>1, <1>10
  <2>2. SameNames(db'[t].tx, db[t].tx)
    BY <1>10, <2>1, RowTx, AtNonceType DEF SameNames
  <2> QED
    BY <1>10, <2>1, <2>2 DEF SameNames, SettledStays
<1>11. CASE ReassignPending
  <2>1. /\ boot' = "online" /\ op.at = "conflict" /\ op.tx \in Entry /\ op' = Idle
        /\ UNCHANGED <<inq, minedq>>
        /\ \A i, j \in DOMAIN pendq' : pendq'[i] = pendq'[j] => i = j
    BY <1>11, ReassignPendingEffect
  <2>2. PICK n \in Nat :
          /\ db'[op.tx.id].status = db[op.tx.id].status
          /\ db'[op.tx.id].tx = AtNonce(db[op.tx.id].tx, n)
          /\ \A t \in TxId : t # op.tx.id => db'[t] = db[t]
          /\ \A e \in Pending' : \E f \in Pending :
               e = IF f.id = op.tx.id THEN AtNonce(f, n) ELSE f
    BY <1>11, ReassignPendingEffect
  <2>3. PICK t \in TxId : t = op.tx.id
    BY <1>1, <2>1
  <2>4. /\ SettledStays /\ \A u \in TxId : db'[u].status = db[u].status
        /\ \A u \in TxId : SameNames(db'[u].tx, db[u].tx)
    BY <1>10, <2>1, <2>2
  <2>5. QueuesPlaced'
    BY <1>0, <2>1, <2>2, <2>3, <2>4, RenumberedPlaced
  <2>6. \A g \in Held' : \E f \in Held : SameNames(g, f) /\ g \in Entry
    <3>1. \A g \in Pending' : \E f \in Held : SameNames(g, f) /\ g \in Entry
      BY <2>2, HeldType, AtNonceType DEF SameNames, Held
    <3>2. InMempool' = InMempool /\ InFlight' = {}
      BY <2>1, SameMembers
    <3> QED
      BY <3>1, <3>2, HeldType, HeldPositionsAfter DEF Held, SameNames
  <2>7. Links'
    BY <2>4, <2>6, KeptLinks
  <2> QED
    BY <2>1, <2>4, <2>5, <2>7, EndedPlaced
<1>12. CASE ReassignInmempool
  <2>1. /\ boot' = "online" /\ op.at = "conflict" /\ op.kind = "bump" /\ op.tx \in Entry
        /\ op' = Idle /\ UNCHANGED <<pendq, minedq>>
    BY <1>12, ReassignInmempoolEffect
  <2>2. PICK n \in Nat :
          /\ db'[op.tx.id].status = db[op.tx.id].status
          /\ db'[op.tx.id].tx = AtNonce(db[op.tx.id].tx, n)
          /\ \A t \in TxId : t # op.tx.id => db'[t] = db[t]
          /\ inq' = [inq EXCEPT ![1] = WithTx(inq[1], AtNonce(Active(inq[1]), n))]
    BY <1>12, ReassignInmempoolEffect
  <2>3. inq # <<>>
    BY <1>0, <2>1 DEF FlightPlaced
  <2>4. PICK a \in Entry : a = Active(inq[1]) /\ a \in Held
    BY <2>3, FrontOfInmempool DEF Held
  <2>5. PICK e \in Entry : e = AtNonce(a, n) /\ SameNames(e, a)
    BY AtNonceType DEF SameNames
  <2>6. /\ SettledStays /\ \A u \in TxId : db'[u].status = db[u].status
        /\ \A u \in TxId : SameNames(db'[u].tx, db[u].tx)
    BY <1>10, <2>1, <2>2
  <2>7. inq' = [inq EXCEPT ![1] = WithTx(inq[1], e)]
    BY <2>2, <2>4, <2>5
  <2>8. QueuesPlaced'
    BY <1>0, <2>1, <2>3, <2>4, <2>5, <2>6, <2>7, ActiveRewritten DEF SameNames
  <2>9. \A g \in Held' : \E f \in Held : SameNames(g, f) /\ g \in Entry
    <3>1. InMempool' \subseteq InMempool \cup {e} /\ Pending' = Pending /\ InFlight' = {}
      BY <2>1, <2>7, FrontRewritten, SameMembers
    <3> QED
      BY <2>4, <2>5, <3>1, HeldType, HeldPositionsAfter DEF Held, SameNames
  <2>10. Links'
    BY <2>6, <2>9, KeptLinks
  <2> QED
    BY <2>1, <2>6, <2>8, <2>10, EndedPlaced
<1>13. CASE ConflictMined \/ StepFails
  <2>1. boot' = "online" /\ op' = Idle /\ UNCHANGED <<db, pendq, inq, minedq>>
    BY <1>13, StopEffect DEF rowVars, queueVars
  <2>2. QueuesPlaced' /\ SettledStays
    BY <1>0, <2>1, QueuesStayPlaced DEF SettledStays
  <2>3. Held' \subseteq Held
    BY <2>1, SameMembers, HeldPositionsAfter DEF Held
  <2>4. Links'
    BY <2>1, <2>3, HeldType, KeptLinks DEF SameNames
  <2> QED
    BY <2>1, <2>2, <2>4, EndedPlaced
<1>14. CASE SettleLoser
  <2>1. /\ boot' = "online" /\ op.at = "settling" /\ op.tx \in Entry /\ op' = Idle
        /\ UNCHANGED <<pendq, inq, minedq>>
    BY <1>14, SettleLoserEffect DEF queueVars
  <2>2. PICK s \in {"CANCELLED", "REPLACED"} : SaveTransaction(op.tx, s)
    BY <1>14, SettleLoserEffect
  <2>3. PICK e \in Entry : e = op.tx
    BY <2>1
  <2>4. /\ Unplaced(e.id) /\ db[e.id].status = "INMEMPOOL"
        /\ Linked(e) /\ e.ext = db[e.id].tx.ext /\ SaveTransaction(e, s)
    <3>1. op.kind \in {"cancel", "replace"}
      BY <2>1, OperationType
    <3> QED
      BY <1>0, <1>1, <2>1, <2>2, <2>3, <3>1 DEF FlightPlaced
  <2>5. QueuesPlaced'
    <3>1. \A t \in TxId : db'[t].status = db[t].status \/ Unplaced(t)
      BY <2>4, SaveTransactionRows
    <3> QED
      BY <1>0, <2>1, <3>1, QueuesStayPlaced
  <2>6. Held' \subseteq Held \cup {e}
    BY <2>1, SameMembers, HeldPositionsAfter DEF Held
  <2>7. Links'
    BY <2>2, <2>4, <2>6, SavedLinks
  <2>8. SettledStays
    BY <2>4, SavedSettles DEF Terminal
  <2> QED
    BY <2>1, <2>5, <2>7, <2>8, EndedPlaced
<1> QED
  BY <1>2, <1>4, <1>5, <1>6, <1>7, <1>8, <1>9, <1>11, <1>12, <1>13, <1>14 DEF Continue

\* A crash and the steps of a startup.
LEMMA StartupPlaced ==
  ASSUME TypeOK, RowsRecorded, Placed, Links, Crash \/ Startup \/ Setback
  PROVE  Placed' /\ Links' /\ SettledStays
<1>1. CASE Crash
  <2>1. /\ UNCHANGED db /\ boot' = "down" /\ NothingHeld'
        /\ Pending' = {} /\ InMempool' = {} /\ InFlight' = {}
    BY <1>1, CrashEffect DEF rowVars, NothingHeld
  <2>2. Placed'
    BY <2>1, NothingPlacedAfter DEF Placed
  <2>3. Held' = {}
    BY <2>1, HeldPositionsAfter DEF Held
  <2>4. Links'
    BY <2>1, <2>3, KeptLinks DEF SameNames
  <2> QED
    BY <2>1, <2>2, <2>4 DEF SettledStays
<1>2. CASE Repairing
  <2>1. /\ boot # "online" /\ boot' # "online" /\ UNCHANGED <<pendq, inq, minedq, op>>
        /\ \A t \in TxId :
             \/ db'[t] = db[t]
             \/ /\ db[t].status = "PENDING" /\ db'[t].status \in {"INMEMPOOL", "FAILED"}
                /\ SameLinks(db'[t].tx, db[t].tx)
    BY <1>2, RepairEffect DEF queueVars
  <2>2. NothingHeld /\ NothingHeld'
    BY <2>1 DEF Placed, NothingHeld
  <2>3. Placed'
    BY <2>1, <2>2, NothingPlacedAfter DEF Placed
  <2>4. Held' = Held
    BY <2>1, SameMembers, HeldPositionsAfter DEF Held
  <2>5. Links'
    <3>1. \A t \in TxId : /\ SameNames(db'[t].tx, db[t].tx)
                          /\ db'[t].status = "absent" => db[t].status = "absent"
      BY <2>1 DEF SameNames, SameLinks
    <3> QED
      BY <2>4, <3>1, HeldType, KeptLinks DEF SameNames
  <2>6. SettledStays
    BY <2>1 DEF SettledStays, Terminal
  <2> QED
    BY <2>3, <2>5, <2>6
<1>3. CASE LoadQueues
  <2>1. /\ UNCHANGED <<db, op>> /\ boot = "repaired" /\ boot' = "online"
        /\ \A e \in Pending' : \E t \in With("PENDING") : e = db[t].tx
        /\ \A e \in InMempool' : \E t \in With("INMEMPOOL") : e = db[t].tx
    BY <1>3, LoadQueuesEffect DEF rowVars
  <2>2. op' = Idle
    BY <2>1 DEF Placed, NothingHeld
  <2>3. Placed'
    BY <1>3, <2>1, <2>2, LoadPlaced, EndedPlaced
  <2>4. \A e \in Held' : \E t \in TxId : e = db[t].tx
    BY <2>1, <2>2, SameMembers, HeldPositionsAfter DEF With
  <2>5. Links'
    BY <2>1, <2>4, KeptLinks DEF SameNames
  <2> QED
    BY <2>1, <2>3, <2>5 DEF SettledStays
<1> QED
  BY <1>1, <1>2, <1>3 DEF Startup, Repairing

\* The clock, the network, and a step that changes nothing.
LEMMA QuietPlaced ==
  ASSUME TypeOK, RowsRecorded, Placed, Links,
         UNCHANGED <<db, pendq, inq, minedq, op, boot>>
  PROVE  Placed' /\ Links' /\ SettledStays
<1>1. QueuesPlaced'
  BY QueuesStayPlaced DEF Placed
<1>2. Pending' = Pending /\ InMempool' = InMempool /\ Held' = Held
  BY SameMembers, HeldPositionsAfter DEF Held
<1>3. FlightPlaced'
  BY <1>2 DEF Placed, FlightPlaced, Unplaced, Active
<1>4. Links'
  BY <1>2, HeldType, KeptLinks DEF SameNames
<1> QED
  BY <1>1, <1>3, <1>4 DEF Placed, NothingHeld, SettledStays

\* Every step keeps every transaction in its place, and a final status as it is.
LEMMA PlacedStays ==
  ASSUME TypeOK, RowsRecorded, Placed, Links, [Next]_vars
  PROVE  Placed' /\ Links' /\ SettledStays
<1>1. ASSUME NEW t \in TxId, Api(t) PROVE Placed' /\ Links' /\ SettledStays
  BY <1>1, ApiPlaced
<1>2. CASE Loops
  BY <1>2, SendLoopsPlaced, ReceiptsPlaced DEF Loops
<1>3. CASE Continue
  BY <1>3, ContinuePlaced
<1>4. CASE Crash \/ Startup \/ Setback
  BY <1>4, StartupPlaced
<1>5. CASE Network \/ (\E t \in TxId : Expire(t)) \/ UNCHANGED vars
  BY <1>5, QuietPlaced DEF Network, Expire, vars, rowVars, queueVars
<1> QED
  BY <1>1, <1>2, <1>3, <1>4, <1>5 DEF Next, Setback

\* No transaction has a place before the first is admitted.
LEMMA InitPlaced ==
  ASSUME Init
  PROVE  HashesRecorded /\ MinedRecorded /\ Placed /\ Links
<1>1. \A t \in TxId : /\ db[t].tx.id = t /\ db[t].tx.hash = None
                      /\ db[t].tx.by = None /\ db[t].tx.ext = None
                      /\ db[t].status = "absent"
  BY DEF Init, NoRow, Emptied, NewEntry
<1>2. Held = {} /\ op.at = "idle"
  <2>1. DOMAIN pendq = {} /\ DOMAIN inq = {} /\ op.at = "idle"
    BY DEF Init, Idle
  <2> QED
    BY <2>1 DEF Held, Pending, InMempool, InFlight
<1>3. HashesRecorded
  BY <1>1, <1>2 DEF HashesRecorded, RowsRecorded, HeldRecorded, FlightSigned, OnRecord
<1>4. MinedRecorded
  BY <1>1 DEF Init, MinedRecorded
<1>5. Placed
  <2>1. NothingHeld
    BY DEF Init, NothingHeld
  <2> QED
    BY <2>1, NothingPlaced DEF Placed
<1>6. Links
  BY <1>1, <1>2 DEF Links, HeldLinked, RowLinked, Linked
<1> QED
  BY <1>3, <1>4, <1>5, <1>6

\* A status that ends a transaction is never overwritten: what memory holds and may still
\* write is open in its row, an entry is in one place only, and startup reads open rows.
THEOREM FinalStatusStays == Spec => TerminalStable
<1> DEFINE IInv == TypeOK /\ InFlightRecorded /\ HashesRecorded /\ Placed /\ Links
           A == \A t \in TxId : db[t].status \in Terminal => db'[t].status = db[t].status
<1>1. Init => IInv
  BY InitType, InitPlaced DEF Init, InFlightRecorded, Idle
<1>2. IInv /\ [Next]_vars => IInv' /\ A
  BY NextType, InFlightStays, HashesStay, PlacedStays DEF HashesRecorded, SettledStays
<1>3. IInv /\ [Next]_vars => IInv' /\ [A]_vars
  BY <1>2
<1> HIDE DEF IInv
<1> QED
  BY <1>1, <1>3, PTL DEF Spec, TerminalStable
=============================================================================
