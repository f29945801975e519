----------------------- MODULE RelayerQueueRowsProofs -----------------------
(***************************************************************************)
(* Proofs about the nonces, the payloads and the rivals of a relayer's      *)
(* transactions: that a nonce has one owner, that a payload takes effect    *)
(* once, that a contest has one winner, that a live broadcast keeps its     *)
(* nonce, that memory holds every open transaction, and that the queue      *)
(* implements the lifecycle.                                                *)
(*                                                                          *)
(* Every invariant speaks of the entries memory holds, wherever they are    *)
(* (Held): in the pending queue, on a side of a contest, or in flight.      *)
(***************************************************************************)
EXTENDS RelayerQueueProofs

-----------------------------------------------------------------------------
(***************************************************************************)
(* A nonce has one owner.                                                   *)
(***************************************************************************)
\* What memory holds of a transaction has the nonce of its row.
RowNonces == \A e \in Held : e.nonce = db[e.id].tx.nonce

OpenRow(t) == db[t].status \in {"PENDING", "INMEMPOOL"}

OpenBelow ==
  boot = "online" => \A t \in TxId : OpenRow(t) => db[t].tx.nonce < nm

\* Open rows with the same nonce are one, or rivals.
OpenApart ==
  \A t, u \in TxId :
    OpenRow(t) /\ OpenRow(u) /\ db[t].tx.nonce = db[u].tx.nonce =>
      t = u \/ Compete(db[t].tx, db[u].tx)

NoncesApart == RowNonces /\ OpenBelow /\ OpenApart

\* Rows that keep their nonce, and open no more than they did.
LEMMA QuietNonces ==
  ASSUME TypeOK, RowsRecorded, NoncesApart, nm' \in Nat,
         \A t \in TxId : OpenRow(t)' => /\ OpenRow(t) /\ db'[t].tx.id = t
                                        /\ db'[t].tx.nonce = db[t].tx.nonce
                                        /\ db'[t].tx.ext = db[t].tx.ext,
         boot' = "online" => boot = "online" /\ nm <= nm',
         \A e \in Held : db'[e.id].tx.nonce = db[e.id].tx.nonce,
         \A e \in Held' : \E f \in Held : e.id = f.id /\ e.nonce = f.nonce
  PROVE  NoncesApart'
<1>1. RowNonces'
  BY DEF NoncesApart, RowNonces
<1>2. nm \in Nat /\ \A t \in TxId : db[t].tx.nonce \in Nat /\ db[t].tx.id = t
  BY RowTx DEF TypeOK, RowsRecorded
<1>3. OpenBelow'
  BY <1>2 DEF NoncesApart, OpenBelow
<1>4. OpenApart'
  BY <1>2 DEF NoncesApart, OpenApart, Compete
<1> QED
  BY <1>1, <1>3, <1>4 DEF NoncesApart

\* A row saved from a copy of what memory holds of it.
LEMMA SavedNonces ==
  ASSUME TypeOK, RowsRecorded, NoncesApart, Links, nm' \in Nat,
         NEW e \in Entry, NEW f \in Held, e.id = f.id, e.nonce = f.nonce, e.ext = f.ext,
         NEW s, SaveTransaction(e, s), s \in {"PENDING", "INMEMPOOL"} => OpenRow(e.id),
         boot' = "online" => boot = "online" /\ nm <= nm',
         \A g \in Held' : \E h \in Held : g.id = h.id /\ g.nonce = h.nonce
  PROVE  NoncesApart'
<1>1. /\ e.id \in TxId /\ db'[e.id] = [status |-> s, tx |-> e]
      /\ \A t \in TxId : t # e.id => db'[t] = db[t]
  BY SaveTransactionRows
<1>2. db'[e.id].status = s /\ db'[e.id].tx = e
  BY <1>1
<1>3. e.nonce = db[e.id].tx.nonce /\ e.ext = db[e.id].tx.ext
  BY DEF NoncesApart, RowNonces, Links, HeldLinked
<1>4. \A t \in TxId : OpenRow(t)' => /\ OpenRow(t) /\ db'[t].tx.id = t
                                     /\ db'[t].tx.nonce = db[t].tx.nonce
                                     /\ db'[t].tx.ext = db[t].tx.ext
  BY <1>1, <1>2, <1>3 DEF OpenRow, RowsRecorded
<1>5. \A g \in Held : db'[g.id].tx.nonce = db[g.id].tx.nonce
  BY <1>1, <1>2, <1>3, HeldType
<1> QED
  BY <1>4, <1>5, QuietNonces

\* Rows that keep their nonce and their names, and are open only if they were.
LEMMA KeptNonces ==
  ASSUME TypeOK, RowsRecorded, NoncesApart, nm' \in Nat,
         \A t \in TxId : /\ SameNames(db'[t].tx, db[t].tx)
                         /\ db'[t].tx.nonce = db[t].tx.nonce
                         /\ OpenRow(t)' => OpenRow(t),
         boot' = "online" => boot = "online" /\ nm <= nm',
         \A e \in Held' : \E f \in Held : e.id = f.id /\ e.nonce = f.nonce
  PROVE  NoncesApart'
<1>1. \A t \in TxId : OpenRow(t)' => /\ OpenRow(t) /\ db'[t].tx.id = t
                                     /\ db'[t].tx.nonce = db[t].tx.nonce
                                     /\ db'[t].tx.ext = db[t].tx.ext
  BY DEF SameNames, RowsRecorded
<1>2. \A e \in Held : db'[e.id].tx.nonce = db[e.id].tx.nonce
  BY HeldType
<1> QED
  BY <1>1, <1>2, QuietNonces

\* One row gets a nonce that was not handed out yet.
LEMMA NewNonce ==
  ASSUME TypeOK, NoncesApart, boot = "online",
         NEW t \in TxId, NEW n \in Nat, nm <= n, nm' = n + 1, db'[t].tx.nonce = n,
         \A u \in TxId : u # t => db'[u] = db[u],
         \A e \in Held' : e.nonce = db'[e.id].tx.nonce
  PROVE  NoncesApart'
<1>1. nm \in Nat /\ \A u \in TxId : db[u].tx.nonce \in Nat
  BY RowTx DEF TypeOK
<1>2. \A u \in TxId : u # t /\ OpenRow(u)' => OpenRow(u) /\ db[u].tx.nonce < nm
  BY DEF NoncesApart, OpenBelow, OpenRow
<1>3. OpenBelow'
  BY <1>1, <1>2 DEF OpenBelow
<1>4. OpenApart'
  BY <1>1, <1>2 DEF NoncesApart, OpenApart, Compete, OpenRow
<1>5. RowNonces'
  BY DEF RowNonces
<1> QED
  BY <1>3, <1>4, <1>5 DEF NoncesApart

\* A rival takes its original's nonce.
LEMMA RivalNonce ==
  ASSUME TypeOK, RowsRecorded, NoncesApart, Links, nm' = nm, boot' = boot,
         NEW t \in User, NEW c \in Rival, OpenRow(t),
         db'[c].tx.nonce = db[t].tx.nonce, db'[c].tx.ext = t, db'[c].tx.id = c,
         \A u \in TxId : u # c => db'[u] = db[u],
         \A e \in Held' : e.nonce = db'[e.id].tx.nonce
  PROVE  NoncesApart'
<1>1. c \in TxId /\ t \in TxId /\ t # c
  BY QueueAssumption DEF Rival
<1>2. \A u \in TxId : db[u].tx.id = u
  BY DEF RowsRecorded
<1>3. db[t].tx.ext = None
  BY <1>1, <1>2 DEF Links, RowLinked, Linked, Rival
<1>4. OpenBelow'
  BY <1>1 DEF NoncesApart, OpenBelow, OpenRow
<1>5. ASSUME NEW u \in TxId, u # c, OpenRow(u)', db'[u].tx.nonce = db'[c].tx.nonce
      PROVE  db'[u].tx.id = t \/ db'[u].tx.ext = t
  <2>1. OpenRow(u) /\ db[u].tx.nonce = db[t].tx.nonce /\ db'[u] = db[u]
    BY <1>5 DEF OpenRow
  <2>2. t = u \/ Compete(db[t].tx, db[u].tx)
    BY <1>1, <2>1 DEF NoncesApart, OpenApart
  <2> QED
    BY <1>1, <1>2, <1>3, <2>1, <2>2, NodeAssumption DEF Compete
<1>6. OpenApart'
  <2> SUFFICES ASSUME NEW u \in TxId, NEW v \in TxId, OpenRow(u)', OpenRow(v)',
                      db'[u].tx.nonce = db'[v].tx.nonce, u # v
               PROVE  Compete(db[u].tx, db[v].tx)'
    BY DEF OpenApart
  <2>1. CASE u # c /\ v # c
    BY <2>1 DEF NoncesApart, OpenApart, Compete, OpenRow
  <2>2. CASE u = c
    BY <1>1, <1>5, <2>2, NodeAssumption DEF Compete
  <2>3. CASE v = c
    BY <1>1, <1>5, <2>3, NodeAssumption DEF Compete
  <2> QED
    BY <2>1, <2>2, <2>3
<1>7. RowNonces'
  BY DEF RowNonces
<1> QED
  BY <1>4, <1>6, <1>7 DEF NoncesApart

\* The nonces startup counts are those of every open row: a rival's original is no rival,
\* so every open row stands in a contest.
LEMMA LoadedNonces ==
  ASSUME TypeOK, RowsRecorded, Links, NEW t \in TxId, OpenRow(t)
  PROVE  db[t].tx.nonce \in QueuedNonces
<1>1. CASE db[t].status = "PENDING"
  BY <1>1 DEF QueuedNonces, PendingEntries, With
<1>2. CASE db[t].status = "INMEMPOOL"
  <2>1. PICK e \in LiveEntries : e = db[t].tx
    BY <1>2 DEF LiveEntries, With
  <2>2. \A o \in LiveEntries : o.id \in TxId /\ Linked(o) /\ o = db[o.id].tx
    BY DEF LiveEntries, With, RowsRecorded, Links, RowLinked
  <2>3. CASE \A o \in LiveEntries : o.by # e.id
    <3>1. ContestOf(e) \in Contests
      BY <2>3 DEF Contests
    <3>2. ContestOf(e).orig = e
      BY DEF ContestOf, Alone
    <3>3. \E c \in Contests : c.orig = e
      BY <3>1, <3>2
    <3> QED
      BY <2>1, <3>3 DEF QueuedNonces
  <2>4. CASE \E o \in LiveEntries : o.by = e.id
    <3>1. PICK o \in LiveEntries : o.by = e.id
      BY <2>4
    <3>2. o.id \in User /\ e.id \in TxId /\ e.id # None
      BY <2>2, <3>1, NodeAssumption DEF Linked
    <3>3. \A p \in LiveEntries : p.by # o.id
      BY <2>2, <3>2, NodeAssumption, QueueAssumption DEF Linked, Rival
    <3>4. ContestOf(o) \in Contests
      BY <3>3 DEF Contests
    <3>5. RivalsOf(o) = {e}
      BY <2>2, <3>1 DEF RivalsOf
    <3>6. ContestOf(o).comp = e
      <4>1. (CHOOSE r \in RivalsOf(o) : TRUE) = e
        BY <3>5
      <4> QED
        BY <3>5, <4>1 DEF ContestOf
    <3>7. e # None
      BY <2>1, RowTx, NoneIsNoEntry
    <3>8. \E c \in {c \in Contests : c.comp # None} : c.comp = e
      BY <3>4, <3>6, <3>7
    <3> QED
      BY <2>1, <3>8 DEF QueuedNonces
  <2> QED
    BY <2>3, <2>4
<1> QED
  BY <1>1, <1>2 DEF OpenRow

\* The API's operations.
LEMMA ApiNonces ==
  ASSUME TypeOK, RowsRecorded, Placed, Links, NoncesApart, nm' \in Nat, NEW t \in TxId, Api(t)
  PROVE  NoncesApart'
<1>0. QueuesPlaced /\ nm \in Nat
  BY DEF Placed, TypeOK
<1>1. ASSUME op = Idle, NEW c \in TxId, db[c].status = "absent"
      PROVE  \A e \in Held : e.id # c /\ e.id \in TxId
  <2>1. Unplaced(c)
    BY <1>0, <1>1, AbsentUnplaced
  <2> QED
    BY <1>1, <2>1, SameMembers, HeldType DEF Unplaced, Held
<1>2. CASE Admit(t)
  <2>1. PICK e \in Entry :
          /\ e = NewEntry(t, e.nonce) /\ nm <= e.nonce /\ nm' = e.nonce + 1
          /\ SaveTransaction(e, "PENDING") /\ pendq' = InsertByNonce(pendq, e)
    BY <1>2, AdmitEffect
  <2>2. /\ db[t].status = "absent" /\ op = Idle /\ boot = "online" /\ UNCHANGED <<inq, op>>
    BY <1>2, AdmitEffect
  <2>3. e.id = t /\ e.nonce \in Nat
    BY <2>1 DEF NewEntry, Entry
  <2>4. db'[t].tx = e /\ \A u \in TxId : u # t => db'[u] = db[u]
    <3>1. /\ db'[t] = [status |-> "PENDING", tx |-> e]
          /\ \A u \in TxId : u # t => db'[u] = db[u]
      BY <2>1, <2>3, SaveTransactionRows
    <3> QED
      BY <3>1
  <2>5. \A g \in Held' : g \in Held \/ g = e
    BY <2>1, <2>2, PendingMembers, SameMembers, HeldPositionsAfter DEF Held
  <2>6. \A g \in Held' : g.nonce = db'[g.id].tx.nonce
    BY <1>1, <2>2, <2>3, <2>4, <2>5 DEF NoncesApart, RowNonces
  <2> QED
    BY <2>1, <2>2, <2>3, <2>4, <2>6, NewNonce
<1>3. CASE AdmitUnestimable(t)
  <2>1. PICK e \in Entry :
          e = [NewEntry(t, e.nonce) EXCEPT !.failed = TRUE] /\ SaveTransaction(e, "FAILED")
    BY <1>3, AdmitUnestimableEffect
  <2>2. /\ db[t].status = "absent" /\ op = Idle /\ boot = "online" /\ nm <= nm'
        /\ UNCHANGED <<pendq, inq, op>>
    BY <1>3, AdmitUnestimableEffect
  <2>3. e.id = t
    BY <2>1 DEF NewEntry
  <2>4. db'[t].status = "FAILED" /\ \A u \in TxId : u # t => db'[u] = db[u]
    <3>1. /\ db'[t] = [status |-> "FAILED", tx |-> e]
          /\ \A u \in TxId : u # t => db'[u] = db[u]
      BY <2>1, <2>3, SaveTransactionRows
    <3> QED
      BY <3>1
  <2>5. Held' = Held
    BY <2>2, SameMembers, HeldPositionsAfter DEF Held
  <2>6. \A u \in TxId : OpenRow(u)' => OpenRow(u) /\ db'[u] = db[u]
    BY <2>4 DEF OpenRow
  <2>7. \A g \in Held : db'[g.id].tx.nonce = db[g.id].tx.nonce
    BY <1>1, <2>2, <2>4
  <2> QED
    BY <2>2, <2>5, <2>6, <2>7, QuietNonces DEF RowsRecorded
<1>4. CASE AdmitUnsaved(t)
  <2>1. /\ boot = "online" /\ nm <= nm' /\ UNCHANGED <<db, pendq, inq, op>>
    BY <1>4, AdmitUnsavedEffect DEF rowVars
  <2>2. Held' = Held
    BY <2>1, SameMembers, HeldPositionsAfter DEF Held
  <2> QED
    BY <2>1, <2>2, KeptNonces DEF SameNames, OpenRow
<1>5. CASE CancelPending(t) \/ ReplacePending(t)
  <2>1. PICK i \in DOMAIN pendq, e \in Entry :
          /\ SameLinks(e, pendq[i])
          /\ SaveTransaction(e, "PENDING") /\ pendq' = Updated(pendq, e)
    BY <1>5, EditEffect
  <2>2. boot = "online" /\ UNCHANGED <<inq, op, nm>>
    BY <1>5, EditEffect
  <2>3. /\ pendq[i] \in Pending /\ pendq[i] \in Held
        /\ e.id = pendq[i].id /\ e.nonce = pendq[i].nonce /\ e.ext = pendq[i].ext
    BY <2>1 DEF Pending, Held, SameLinks
  <2>4. OpenRow(e.id)
    BY <1>0, <2>3, PlacedOpen DEF OpenRow
  <2>5. \A g \in Held' : g \in Held \/ g = e
    BY <2>1, <2>2, PendingMembers, SameMembers, HeldPositionsAfter DEF Held
  <2>6. \A g \in Held' : \E h \in Held : g.id = h.id /\ g.nonce = h.nonce
    BY <2>3, <2>5
  <2> QED
    BY <1>0, <2>1, <2>2, <2>3, <2>4, <2>6, SavedNonces
<1>6. ASSUME NEW k \in {"cancel", "replace"}, SendRival(t, k)
      PROVE  NoncesApart'
  <2>1. PICK c \in Rival, i \in DOMAIN inq, e \in Entry, f \in Entry :
          /\ Fresh(c) /\ inq[i].orig.id = t
          /\ RivalOf(e, c, inq[i].orig, k) /\ Sends(e, "PENDING", k, f)
    BY <1>6, SendRivalCopies
  <2>2. op = Idle /\ boot = "online" /\ t \in User
    BY <1>6, SendRivalCopies
  <2>3. /\ inq[i].orig \in InMempool /\ inq[i].orig \in Held
    <3>1. inq[i] \in Contest
      BY DEF TypeOK
    <3> QED
      BY <3>1, SidesType, HeldPositions DEF Held
  <2>4. inq[i].orig.nonce = db[t].tx.nonce /\ OpenRow(t)
    BY <1>0, <2>1, <2>3, PlacedOpen DEF NoncesApart, RowNonces, OpenRow
  <2>5. /\ db[c].status = "absent" /\ c \in TxId /\ e.id = c
        /\ f.id = c /\ f.ext = t /\ f.nonce = db[t].tx.nonce
    BY <2>1, <2>4 DEF Fresh, RivalOf, Sends, SignedCopy, Rival
  <2>6. /\ db'[c].tx.nonce = f.nonce /\ db'[c].tx.ext = t /\ db'[c].tx.id = c
        /\ \A u \in TxId : u # c => db'[u] = db[u]
        /\ op'.at = "persisted" /\ op'.tx = f /\ UNCHANGED <<pendq, inq, boot, nm>>
    BY <2>1, <2>5 DEF Sends, SameButFailed
  <2>7. \A g \in Held' : g \in Held \/ g = f
    <3>1. Pending' = Pending /\ InMempool' = InMempool /\ InFlight' = {f}
      BY <2>6, SameMembers DEF InFlight
    <3> QED
      BY <3>1, HeldPositionsAfter DEF Held
  <2>8. \A g \in Held' : g.nonce = db'[g.id].tx.nonce
    BY <1>1, <2>2, <2>5, <2>6, <2>7 DEF NoncesApart, RowNonces
  <2> QED
    BY <2>2, <2>4, <2>5, <2>6, <2>8, RivalNonce
<1> QED
  BY <1>2, <1>3, <1>4, <1>5, <1>6 DEF Api, CancelInmempool, ReplaceInmempool

\* The loops.
LEMMA LoopNonces ==
  ASSUME TypeOK, RowsRecorded, Placed, Links, NoncesApart, nm' \in Nat, Loops
  PROVE  NoncesApart'
<1>0. QueuesPlaced /\ nm \in Nat
  BY DEF Placed, TypeOK
<1>1. ASSUME NEW e \in Pending \cup InMempool, NEW s \in {"PENDING", "INMEMPOOL"}, NEW k,
             NEW f \in Entry, Sends(e, s, k, f), boot = "online"
      PROVE  NoncesApart'
  <2>1. e \in Held /\ e.id \in TxId /\ OpenRow(e.id)
    BY <1>0, PlacedOpen, HeldType DEF Held, OpenRow
  <2>2. /\ f.id = e.id /\ f.nonce = e.nonce /\ f.ext = e.ext /\ f.by = e.by
        /\ db'[e.id].tx.nonce = f.nonce /\ db'[e.id].tx.ext = f.ext /\ db'[e.id].tx.id = e.id
        /\ \A t \in TxId : t # e.id => db'[t] = db[t]
        /\ op'.at = "persisted" /\ op'.tx = f /\ UNCHANGED <<pendq, inq, boot, nm>>
    BY <1>1 DEF Sends, SignedCopy, SameButFailed
  <2>3. e.nonce = db[e.id].tx.nonce /\ e.ext = db[e.id].tx.ext
    BY <2>1 DEF NoncesApart, RowNonces, Links, HeldLinked
  <2>4. \A g \in Held' : g \in Held \/ g = f
    <3>1. Pending' = Pending /\ InMempool' = InMempool /\ InFlight' = {f}
      BY <2>2, SameMembers DEF InFlight
    <3> QED
      BY <3>1, HeldPositionsAfter DEF Held
  <2>5. \A g \in Held' : \E h \in Held : g.id = h.id /\ g.nonce = h.nonce
    BY <2>1, <2>2, <2>4
  <2>6. \A t \in TxId : OpenRow(t)' => /\ OpenRow(t) /\ db'[t].tx.id = t
                                       /\ db'[t].tx.nonce = db[t].tx.nonce
                                       /\ db'[t].tx.ext = db[t].tx.ext
    BY <2>1, <2>2, <2>3 DEF OpenRow, RowsRecorded
  <2>7. \A g \in Held : db'[g.id].tx.nonce = db[g.id].tx.nonce
    BY <2>2, <2>3, HeldType
  <2> QED
    BY <1>0, <1>1, <2>2, <2>5, <2>6, <2>7, QuietNonces
<1>2. CASE SendPending
  <2>1. /\ Head(pendq) \in Entry /\ Head(pendq) \in Pending /\ boot = "online"
        /\ \E f \in Entry : Sends(Head(pendq), "PENDING", "pending", f)
    BY <1>2, SendPendingSends
  <2>2. PICK e \in Pending : e = Head(pendq)
    BY <2>1
  <2>3. PICK f \in Entry : Sends(e, "PENDING", "pending", f)
    BY <2>1, <2>2
  <2> QED
    BY <1>1, <2>1, <2>3
<1>3. CASE BumpGas
  <2>1. /\ inq # <<>> /\ boot = "online"
        /\ \E f \in Entry : Sends(Active(Head(inq)), "INMEMPOOL", "bump", f)
    BY <1>3, BumpGasSends
  <2>2. PICK e \in InMempool : e = Active(Head(inq))
    BY <2>1, FrontOfInmempool
  <2>3. PICK f \in Entry : Sends(e, "INMEMPOOL", "bump", f)
    BY <2>1, <2>2
  <2> QED
    BY <1>1, <2>1, <2>3
<1>4. CASE EstimateRejects
  <2>1. /\ Head(pendq) \in Pending /\ op'.at = "rejected" /\ op'.tx = Head(pendq)
        /\ boot = "online" /\ UNCHANGED <<db, pendq, inq, nm>>
    BY <1>4, EstimateRejectsEffect DEF rowVars, queueVars
  <2>2. Held' \subseteq Held
    <3>1. InFlight' = {Head(pendq)} /\ Pending' = Pending /\ InMempool' = InMempool
      BY <2>1, SameMembers DEF InFlight
    <3> QED
      BY <2>1, <3>1, HeldPositionsAfter DEF Held
  <2> QED
    BY <1>0, <2>1, <2>2, KeptNonces DEF SameNames, OpenRow
<1>5. CASE ResolveReceipt
  <2>1. /\ boot = "online" /\ inq # <<>> /\ inq' = Tail(inq) /\ UNCHANGED <<pendq, nm>>
    BY <1>5, ResolveReceiptEffect
  <2>2. PICK a \in Entry, x \in Entry, s \in {"MINED", "FAILED", "EXPIRED"} :
          /\ a = Active(Head(inq)) /\ WinnerRow(x, a, s) /\ SaveTransaction(x, s)
          /\ IF s = "MINED" /\ Head(inq).comp # None
             THEN op'.at = "settling" /\ op'.tx = Loser(Head(inq))
             ELSE op' = Idle
    BY <1>5, ResolveReceiptEffect
  <2>3. PICK c \in Contest : c = Head(inq) /\ c = inq[1] /\ Sides(c) \subseteq InMempool
    BY <2>1, FrontOfInmempool
  <2>4. a \in Held /\ a.id \in TxId /\ c.orig \in Held
    BY <2>2, <2>3, SidesType, HeldType DEF Held
  <2>5. db[a.id].tx.id = a.id /\ a.nonce = db[a.id].tx.nonce
    BY <2>4 DEF RowsRecorded, NoncesApart, RowNonces
  <2>6. x.id = a.id /\ x.nonce = a.nonce
    BY <2>2, <2>5 DEF WinnerRow
  <2>7. /\ db'[a.id] = [status |-> s, tx |-> x]
        /\ \A t \in TxId : t # a.id => db'[t] = db[t]
    BY <2>2, <2>6, SaveTransactionRows
  <2>8. db'[a.id].status = s /\ db'[a.id].tx = x
    BY <2>7
  <2>9. \A g \in Held' : \E h \in Held : g.id = h.id /\ g.nonce = h.nonce
    <3>1. InFlight' = {} \/ (c.comp # None /\ InFlight' = {Loser(c)})
      BY <2>2, <2>3 DEF InFlight, Idle
    <3>2. InMempool' \subseteq InMempool /\ Pending' = Pending
      BY <2>1, TailMembers, SameMembers
    <3>3. c.comp # None => Loser(c).id = c.orig.id /\ Loser(c).nonce = c.orig.nonce
      BY LoserIs
    <3> QED
      BY <2>4, <3>1, <3>2, <3>3, HeldPositionsAfter DEF Held
  <2>10. \A t \in TxId : OpenRow(t)' => OpenRow(t) /\ db'[t] = db[t]
    BY <2>7, <2>8 DEF OpenRow
  <2>11. \A g \in Held : db'[g.id].tx.nonce = db[g.id].tx.nonce
    BY <2>5, <2>6, <2>7, <2>8, HeldType
  <2> QED
    BY <1>0, <2>1, <2>9, <2>10, <2>11, QuietNonces DEF RowsRecorded
<1>6. CASE ResolveReceiptUnsaved
  <2>1. /\ boot = "online" /\ inq # <<>> /\ inq' = Tail(inq) /\ UNCHANGED <<db, pendq, nm, op>>
    BY <1>6, ResolveReceiptUnsavedEffect DEF rowVars
  <2>2. Held' \subseteq Held
    BY <2>1, TailMembers, SameMembers, HeldPositionsAfter DEF Held
  <2> QED
    BY <1>0, <2>1, <2>2, KeptNonces DEF SameNames, OpenRow
<1>7. ASSUME NEW t \in TxId, Confirm(t) PROVE NoncesApart'
  <2>1. /\ t \in minedq /\ SetStatus(t, "CONFIRMED")
        /\ boot = "online" /\ UNCHANGED <<pendq, inq, op, nm>>
    BY <1>7 DEF Confirm, Ready
  <2>2. /\ db'[t].status = "CONFIRMED" /\ db'[t].tx = db[t].tx
        /\ \A u \in TxId : u # t => db'[u] = db[u]
    BY <2>1, SetStatusRows
  <2>3. Held' = Held
    BY <2>1, SameMembers, HeldPositionsAfter DEF Held
  <2>4. \A u \in TxId : /\ SameNames(db'[u].tx, db[u].tx) /\ db'[u].tx.nonce = db[u].tx.nonce
                        /\ OpenRow(u)' => OpenRow(u)
    BY <2>2 DEF SameNames, OpenRow
  <2> QED
    BY <1>0, <2>1, <2>3, <2>4, KeptNonces
<1> QED
  BY <1>2, <1>3, <1>4, <1>5, <1>6, <1>7 DEF Loops

\* The steps of a handler after its first effect.
LEMMA ContinueNonces ==
  ASSUME TypeOK, RowsRecorded, Placed, Links, NoncesApart, nm' \in Nat, Continue,
         QueuesPlaced'
  PROVE  NoncesApart'
<1>0. QueuesPlaced /\ FlightPlaced /\ nm \in Nat
  BY DEF Placed, TypeOK
<1>1. ASSUME op.at # "idle"
      PROVE  /\ op.tx \in Held /\ op.tx \in Entry /\ op.tx.id \in TxId
             /\ op.tx.nonce = db[op.tx.id].tx.nonce
  BY <1>1, OperationType DEF Held, InFlight, NoncesApart, RowNonces
<1>2. ASSUME NEW e \in Entry, op.at # "idle", SameLinks(e, op.tx), OpenRow(e.id),
             SetSent(e.id, e.hash), boot = "online", UNCHANGED nm,
             \A g \in Held' : g \in Held \/ g = e
      PROVE  NoncesApart'
  <2>1. e.id = op.tx.id /\ e.nonce = op.tx.nonce /\ op.tx \in Held /\ e.id \in TxId
    BY <1>1, <1>2 DEF SameLinks
  <2>2. \A t \in TxId : /\ SameNames(db'[t].tx, db[t].tx) /\ db'[t].tx.nonce = db[t].tx.nonce
                        /\ OpenRow(t)' => OpenRow(t)
    BY <1>2, <2>1, SetSentRows DEF SameNames, OpenRow
  <2>3. \A g \in Held' : \E h \in Held : g.id = h.id /\ g.nonce = h.nonce
    BY <1>2, <2>1
  <2> QED
    BY <1>0, <1>2, <2>2, <2>3, KeptNonces
<1>3. CASE Deliver
  <2>1. /\ boot = "online" /\ UNCHANGED <<db, pendq, inq, nm>>
        /\ op' = Idle \/ (op.at = "persisted" /\ op'.tx = op.tx)
    BY <1>3, DeliverEffect DEF rowVars, queueVars
  <2>2. Held' \subseteq Held
    <3>1. InFlight' \subseteq InFlight /\ Pending' = Pending /\ InMempool' = InMempool
      BY <2>1, SameMembers DEF InFlight
    <3> QED
      BY <3>1, HeldPositionsAfter DEF Held
  <2> QED
    BY <1>0, <2>1, <2>2, KeptNonces DEF SameNames, OpenRow
<1>4. ASSUME NEW e \in Entry, op.kind = "pending", op.at # "idle", SameLinks(e, op.tx),
             SetSent(e.id, e.hash), MovePendingToInmempool(e),
             op' = Idle, boot = "online", UNCHANGED nm
      PROVE  NoncesApart'
  <2>1. pendq # <<>> /\ pendq[1].id = e.id /\ pendq[1] \in Pending
    BY <1>0, <1>4 DEF FlightPlaced, SameLinks, TypeOK, Pending
  <2>2. OpenRow(e.id)
    BY <1>0, <2>1, PlacedOpen DEF OpenRow
  <2>3. \A g \in Held' : g \in Held \/ g = e
    <3>1. Pending' \subseteq Pending /\ InMempool' \subseteq InMempool \cup {e} /\ InFlight' = {}
      BY <1>4, MoveMembers, SameMembers
    <3> QED
      BY <3>1, HeldPositionsAfter DEF Held
  <2> QED
    BY <1>2, <1>4, <2>2, <2>3
<1>5. CASE MarkPendingSent
  <2>1. /\ boot = "online" /\ op.at = "accepted" /\ op.kind = "pending" /\ op.tx \in Entry
        /\ SetSent(op.tx.id, op.tx.hash) /\ op' = Idle
        /\ MovePendingToInmempool(op.tx) /\ UNCHANGED nm
    BY <1>5, MarkPendingSentEffect
  <2>2. PICK e \in Entry : e = op.tx
    BY <2>1
  <2> QED
    BY <1>4, <2>1, <2>2 DEF SameLinks
<1>6. CASE AdoptLanded
  <2>1. /\ boot = "online" /\ op.at = "conflict" /\ op.kind = "pending" /\ op.tx \in Entry
        /\ op' = Idle /\ UNCHANGED nm
    BY <1>6, AdoptLandedEffect
  <2>2. PICK e \in Entry :
          /\ SameLinks(e, op.tx)
          /\ \/ SetSent(e.id, e.hash) /\ MovePendingToInmempool(e)
             \/ UNCHANGED <<db, pendq, inq>>
    BY <1>6, AdoptLandedEffect
  <2>3. CASE SetSent(e.id, e.hash) /\ MovePendingToInmempool(e)
    BY <1>4, <2>1, <2>2, <2>3
  <2>4. CASE UNCHANGED <<db, pendq, inq>>
    <3>1. Held' \subseteq Held
      BY <2>1, <2>4, SameMembers, HeldPositionsAfter DEF Held
    <3> QED
      BY <1>0, <2>1, <2>4, <3>1, KeptNonces DEF SameNames, OpenRow
  <2> QED
    BY <2>2, <2>3, <2>4
<1>7. CASE MarkBumpSent
  <2>1. /\ boot = "online" /\ op.at = "accepted" /\ op.kind = "bump" /\ op.tx \in Entry
        /\ SetSent(op.tx.id, op.tx.hash) /\ op' = Idle
        /\ inq' = [inq EXCEPT ![1] = WithTx(inq[1], op.tx)]
        /\ UNCHANGED <<pendq, nm>>
    BY <1>7, MarkBumpSentEffect
  <2>2. PICK e \in Entry : e = op.tx
    BY <2>1
  <2>3. inq # <<>> /\ Active(inq[1]).id = e.id
    BY <1>0, <2>1, <2>2 DEF FlightPlaced
  <2>4. Active(inq[1]) \in InMempool
    BY <2>3, FrontOfInmempool
  <2>5. OpenRow(e.id)
    BY <1>0, <2>3, <2>4, PlacedOpen DEF OpenRow
  <2>6. \A g \in Held' : g \in Held \/ g = e
    <3>1. InMempool' \subseteq InMempool \cup {e} /\ Pending' = Pending /\ InFlight' = {}
      BY <2>1, <2>2, FrontRewritten, SameMembers
    <3> QED
      BY <3>1, HeldPositionsAfter DEF Held
  <2> QED
    BY <1>2, <2>1, <2>2, <2>5, <2>6 DEF SameLinks
<1>8. CASE MarkRivalSent
  <2>1. /\ boot = "online" /\ op.at = "accepted" /\ op.kind \in {"cancel", "replace"}
        /\ op.tx \in Entry /\ SetSent(op.tx.id, op.tx.hash)
        /\ op'.at = "linking" /\ op'.tx = op.tx /\ UNCHANGED <<pendq, inq, nm>>
    BY <1>8, MarkRivalSentEffect DEF queueVars
  <2>2. PICK e \in Entry : e = op.tx
    BY <2>1
  <2>3. OpenRow(e.id)
    BY <1>0, <2>1, <2>2 DEF FlightPlaced, OpenRow
  <2>4. \A g \in Held' : g \in Held \/ g = e
    <3>1. InFlight' = InFlight /\ Pending' = Pending /\ InMempool' = InMempool
      BY <2>1, SameMembers DEF InFlight
    <3> QED
      BY <3>1, HeldPositionsAfter DEF Held
  <2> QED
    BY <1>2, <2>1, <2>2, <2>3, <2>4 DEF SameLinks
<1>9. CASE LinkRival
  <2>1. /\ boot = "online" /\ op.at = "linking" /\ op.tx \in Entry /\ op' = Idle
        /\ UNCHANGED <<pendq, nm>>
    BY <1>9, LinkRivalEffect
  <2>2. PICK i \in DOMAIN inq, o \in Entry, c \in Contest :
          /\ o.id = inq[i].orig.id /\ o.nonce = inq[i].orig.nonce /\ o.ext = inq[i].orig.ext
          /\ SaveTransaction(o, "INMEMPOOL")
          /\ Sides(c) = {o, op.tx}
          /\ inq' = IF i = 1 THEN [inq EXCEPT ![1] = c] ELSE inq
    BY <1>9, LinkRivalEffect
  <2>3. /\ inq[i].orig \in InMempool /\ inq[i].orig \in Held
    <3>1. inq[i] \in Contest
      BY DEF TypeOK
    <3> QED
      BY <3>1, SidesType, HeldPositions DEF Held
  <2>4. OpenRow(o.id)
    BY <1>0, <2>2, <2>3, PlacedOpen DEF OpenRow
  <2>5. \A g \in Held' : g \in Held \/ g = o
    <3>1. InMempool' \subseteq InMempool \cup {o, op.tx}
      BY <2>2, FrontMembers, SameMembers
    <3>2. Pending' = Pending /\ InFlight' = {} /\ op.tx \in Held
      BY <1>1, <2>1, SameMembers
    <3> QED
      BY <3>1, <3>2, HeldPositionsAfter DEF Held
  <2>6. \A g \in Held' : \E h \in Held : g.id = h.id /\ g.nonce = h.nonce
    BY <2>2, <2>3, <2>5
  <2> QED
    BY <1>0, <2>1, <2>2, <2>3, <2>4, <2>6, SavedNonces
<1>10. CASE CloseOut
  <2>1. /\ boot = "online" /\ op.at = "rejected" /\ op.tx \in Entry /\ op' = Idle
        /\ UNCHANGED <<inq, nm>>
    BY <1>10, CloseOutEffect
  <2>2. PICK e \in Entry : /\ SameLinks(e, op.tx)
                           /\ SaveTransaction(e, "PENDING") /\ pendq' = Updated(pendq, e)
    BY <1>10, CloseOutEffect
  <2>3. pendq # <<>> /\ pendq[1].id = e.id /\ pendq[1] \in Pending
    BY <1>0, <2>1, <2>2 DEF FlightPlaced, SameLinks, TypeOK, Pending
  <2>4. OpenRow(e.id)
    BY <1>0, <2>3, PlacedOpen DEF OpenRow
  <2>5. PICK f \in Held : f = op.tx /\ e.id = f.id /\ e.nonce = f.nonce /\ e.ext = f.ext
    BY <1>1, <2>1, <2>2 DEF SameLinks
  <2>6. \A g \in Held' : \E h \in Held : g.id = h.id /\ g.nonce = h.nonce
    <3>1. \A g \in Held' : g \in Held \/ g = e
      BY <2>1, <2>2, PendingMembers, SameMembers, HeldPositionsAfter DEF Held
    <3> QED
      BY <2>5, <3>1
  <2> QED
    BY <1>0, <2>1, <2>2, <2>4, <2>5, <2>6, SavedNonces
<1>11. ASSUME NEW n \in Nat, op.tx \in Entry, op.at # "idle", boot = "online",
              nm <= n, nm' = n + 1,
              db'[op.tx.id].tx = AtNonce(db[op.tx.id].tx, n),
              \A t \in TxId : t # op.tx.id => db'[t] = db[t],
              \A g \in Held' : \/ g \in Held /\ g.id # op.tx.id
                               \/ g.id = op.tx.id /\ g.nonce = n
       PROVE  NoncesApart'
  <2>1. PICK t \in TxId : t = op.tx.id
    BY <1>1, <1>11
  <2>2. db'[t].tx.nonce = n
    BY <1>11, <2>1, RowTx, AtNonceType
  <2>3. \A g \in Held' : g.nonce = db'[g.id].tx.nonce
    BY <1>11, <2>1, <2>2, HeldType DEF NoncesApart, RowNonces
  <2> QED
    BY <1>11, <2>1, <2>2, <2>3, NewNonce
<1>12. CASE ReassignPending
  <2>1. /\ boot = "online" /\ op.at = "conflict" /\ op.kind = "pending"
        /\ op.tx \in Entry /\ op' = Idle /\ UNCHANGED <<inq>>
    BY <1>12, ReassignPendingEffect
  <2>2. PICK n \in Nat :
          /\ nm <= n /\ nm' = n + 1
          /\ db'[op.tx.id].tx = AtNonce(db[op.tx.id].tx, n)
          /\ \A t \in TxId : t # op.tx.id => db'[t] = db[t]
          /\ \A e \in Pending' : \E f \in Pending :
               e = IF f.id = op.tx.id THEN AtNonce(f, n) ELSE f
    BY <1>12, ReassignPendingEffect
  <2>3. db[op.tx.id].status = "PENDING"
    <3>1. pendq # <<>> /\ pendq[1].id = op.tx.id /\ pendq[1] \in Pending
      BY <1>0, <2>1 DEF FlightPlaced, TypeOK, Pending
    <3> QED
      BY <1>0, <3>1, PlacedOpen
  <2>4. \A g \in InMempool : g.id # op.tx.id
    BY <1>0, <2>3, PlacedOpen
  <2>5. \A g \in Pending' : \/ g \in Held /\ g.id # op.tx.id
                            \/ g.id = op.tx.id /\ g.nonce = n
    BY <2>2, HeldType, AtNonceType DEF Held
  <2>6. \A g \in Held' : \/ g \in Held /\ g.id # op.tx.id
                         \/ g.id = op.tx.id /\ g.nonce = n
    <3>1. InMempool' = InMempool /\ InFlight' = {}
      BY <2>1, SameMembers
    <3> QED
      BY <2>4, <2>5, <3>1, HeldPositionsAfter DEF Held
  <2> QED
    BY <1>11, <2>1, <2>2, <2>6
<1>13. CASE ReassignInmempool
  <2>1. /\ boot = "online" /\ op.at = "conflict" /\ op.kind = "bump" /\ op.tx \in Entry
        /\ op' = Idle /\ UNCHANGED <<pendq>>
    BY <1>13, ReassignInmempoolEffect
  <2>2. PICK n \in Nat :
          /\ nm <= n /\ nm' = n + 1
          /\ db'[op.tx.id].tx = AtNonce(db[op.tx.id].tx, n)
          /\ \A t \in TxId : t # op.tx.id => db'[t] = db[t]
          /\ inq' = [inq EXCEPT ![1] = WithTx(inq[1], AtNonce(Active(inq[1]), n))]
    BY <1>13, ReassignInmempoolEffect
  <2>3. inq # <<>> /\ Active(inq[1]).id = op.tx.id
    BY <1>0, <2>1 DEF FlightPlaced
  <2>4. PICK a \in Entry : a = Active(inq[1]) /\ a \in InMempool
    BY <2>3, FrontOfInmempool
  <2>5. PICK e \in Entry : e = AtNonce(a, n) /\ e.id = op.tx.id /\ e.nonce = n
    BY <2>3, <2>4, AtNonceType
  <2>6. inq[1] \in Contest /\ 1 \in DOMAIN inq
    BY <2>3, FrontOfInmempool
  <2>7. PICK d \in Contest : d = WithTx(inq[1], e)
    BY <2>6, WithTxSides
  <2>8. e \in Sides(d)
    <3>1. d.orig = e \/ (d.comp = e /\ e # None)
      <4>1. CASE inq[1].comp = None
        <5>1. inq[1].orig.id = e.id
          BY <2>3, <2>5, <2>6, <4>1, SidesType
        <5> QED
          BY <2>6, <2>7, <5>1, WithTxSides
      <4>2. CASE inq[1].comp # None
        <5>1. inq[1].comp.id = e.id
          BY <2>3, <2>5, <2>6, <4>2, SidesType
        <5> QED
          BY <2>6, <2>7, <4>2, <5>1, WithTxSides, NoneIsNoEntry
      <4> QED
        BY <4>1, <4>2
    <3> QED
      BY <3>1 DEF Sides
  <2>9. 1 \in DOMAIN inq' /\ inq'[1] = d
    BY <2>2, <2>4, <2>5, <2>6, <2>7 DEF TypeOK
  <2>10. e \in InMempool'
    BY <2>8, <2>9, HeldPositionsAfter
  <2>11. \A g \in InMempool' : g.id = e.id => g = e
    BY <2>10, HeldPositionsAfter DEF QueuesPlaced, InMempoolOnce, Sides
  <2>12. InMempool' \subseteq InMempool \cup {e}
    BY <2>2, <2>4, <2>5, FrontRewritten
  <2>13. \A g \in Pending : g.id # op.tx.id
    BY <1>0, <2>3, <2>4, PlacedOpen
  <2>14. \A g \in Held' : \/ g \in Held /\ g.id # op.tx.id
                          \/ g.id = op.tx.id /\ g.nonce = n
    <3>1. Pending' = Pending /\ InFlight' = {}
      BY <2>1, SameMembers
    <3> QED
      BY <2>5, <2>11, <2>12, <2>13, <3>1, HeldPositionsAfter DEF Held
  <2> QED
    BY <1>11, <2>1, <2>2, <2>14
<1>14. CASE ConflictMined \/ StepFails
  <2>1. boot = "online" /\ op' = Idle /\ UNCHANGED <<db, pendq, inq, nm>>
    BY <1>14, StopEffect DEF rowVars, queueVars
  <2>2. Held' \subseteq Held
    BY <2>1, SameMembers, HeldPositionsAfter DEF Held
  <2> QED
    BY <1>0, <2>1, <2>2, KeptNonces DEF SameNames, OpenRow
<1>15. CASE SettleLoser
  <2>1. /\ boot = "online" /\ op.at = "settling" /\ op.tx \in Entry /\ op' = Idle
        /\ UNCHANGED <<pendq, inq, nm>>
    BY <1>15, SettleLoserEffect DEF queueVars
  <2>2. PICK s \in {"CANCELLED", "REPLACED"} : SaveTransaction(op.tx, s)
    BY <1>15, SettleLoserEffect
  <2>3. PICK e \in Entry : e = op.tx /\ e \in Held
    BY <1>1, <2>1
  <2>4. Held' \subseteq Held
    BY <2>1, SameMembers, HeldPositionsAfter DEF Held
  <2> QED
    BY <1>0, <2>1, <2>2, <2>3, <2>4, SavedNonces
<1> QED
  BY <1>3, <1>5, <1>6, <1>7, <1>8, <1>9, <1>10, <1>12, <1>13, <1>14, <1>15 DEF Continue

\* A crash and the steps of a startup.
LEMMA StartupNonces ==
  ASSUME TypeOK, RowsRecorded, Placed, Links, NoncesApart, nm' \in Nat, Crash \/ Startup \/ Setback
  PROVE  NoncesApart'
<1>1. CASE Crash
  <2>1. /\ boot' = "down" /\ UNCHANGED db
        /\ Pending' = {} /\ InMempool' = {} /\ InFlight' = {}
    BY <1>1, CrashEffect DEF rowVars
  <2>2. Held' = {}
    BY <2>1, HeldPositionsAfter DEF Held
  <2> QED
    BY <2>1, <2>2, KeptNonces DEF SameNames, OpenRow
<1>2. CASE Repairing
  <2>1. /\ boot' # "online" /\ UNCHANGED <<pendq, inq, op>>
        /\ \A t \in TxId :
             \/ db'[t] = db[t]
             \/ /\ db[t].status = "PENDING" /\ SameLinks(db'[t].tx, db[t].tx)
    BY <1>2, RepairEffect DEF queueVars
  <2>2. Held' = Held
    BY <2>1, SameMembers, HeldPositionsAfter DEF Held
  <2>3. \A t \in TxId : /\ SameNames(db'[t].tx, db[t].tx)
                        /\ db'[t].tx.nonce = db[t].tx.nonce
                        /\ OpenRow(t)' => OpenRow(t)
    BY <2>1 DEF SameNames, SameLinks, OpenRow
  <2> QED
    BY <2>1, <2>2, <2>3, KeptNonces
<1>3. CASE LoadQueues
  <2>1. /\ UNCHANGED <<db, op>> /\ boot = "repaired" /\ boot' = "online"
        /\ \A e \in Pending' : \E t \in With("PENDING") : e = db[t].tx
        /\ \A e \in InMempool' : \E t \in With("INMEMPOOL") : e = db[t].tx
    BY <1>3, LoadQueuesEffect DEF rowVars
  <2>2. op' = Idle
    BY <2>1 DEF Placed, NothingHeld
  <2>3. \A e \in Held' : \E t \in TxId : e = db[t].tx
    BY <2>1, <2>2, SameMembers, HeldPositionsAfter DEF With
  <2>4. RowNonces'
    BY <2>1, <2>3 DEF RowNonces, RowsRecorded
  <2>5. OpenApart'
    BY <2>1 DEF NoncesApart, OpenApart, OpenRow, Compete
  <2>6. \A n \in QueuedNonces : n < nm'
    BY <1>3, PendingNonceType, QueuedNoncesType, EffectiveStartupNonceType
       DEF LoadQueues, TypeOK
  <2>7. OpenBelow'
    BY <2>1, <2>6, LoadedNonces DEF OpenBelow, OpenRow
  <2> QED
    BY <2>4, <2>5, <2>7 DEF NoncesApart
<1> QED
  BY <1>1, <1>2, <1>3 DEF Startup, Repairing

\* Every step keeps the nonces of open rows apart.
LEMMA NoncesApartStay ==
  ASSUME TypeOK, InFlightRecorded, RowsRecorded, Placed, Links, NoncesApart, [Next]_vars
  PROVE  NoncesApart'
<1>1. nm' \in Nat
  BY NextType DEF TypeOK
<1>2. QueuesPlaced'
  BY PlacedStays DEF Placed
<1>3. ASSUME NEW t \in TxId, Api(t) PROVE NoncesApart'
  BY <1>1, <1>3, ApiNonces
<1>4. CASE Loops
  BY <1>1, <1>4, LoopNonces
<1>5. CASE Continue
  BY <1>1, <1>2, <1>5, ContinueNonces
<1>6. CASE Crash \/ Startup \/ Setback
  BY <1>1, <1>6, StartupNonces
<1>7. CASE Network \/ (\E t \in TxId : Expire(t)) \/ UNCHANGED vars
  <2>1. UNCHANGED <<db, pendq, inq, op, boot, nm>>
    BY <1>7 DEF Network, Expire, vars, rowVars, queueVars
  <2>2. Held' = Held
    BY <2>1, SameMembers, HeldPositionsAfter DEF Held
  <2>3. nm <= nm'
    BY <2>1 DEF TypeOK
  <2> QED
    BY <1>1, <2>1, <2>2, <2>3, KeptNonces DEF SameNames, OpenRow
<1> QED
  BY <1>3, <1>4, <1>5, <1>6, <1>7 DEF Next, Setback

\* No nonce is used before the first transaction is admitted.
LEMMA InitNonces ==
  ASSUME Init
  PROVE  NoncesApart
<1>1. \A t \in TxId : ~OpenRow(t)
  BY DEF Init, NoRow, OpenRow
<1>2. Held = {}
  <2>1. DOMAIN pendq = {} /\ DOMAIN inq = {} /\ op.at = "idle"
    BY DEF Init, Idle
  <2> QED
    BY <2>1 DEF Held, Pending, InMempool, InFlight
<1> QED
  BY <1>1, <1>2 DEF NoncesApart, RowNonces, OpenBelow, OpenApart

\* Two transactions the queues hold with one nonce are the sides of one contest: a row gets
\* a nonce from the manager once, and a nonce the manager has handed out is never below that
\* of an open row again, even after a restart has rebuilt the manager from the rows.
THEOREM OneOwnerPerNonce == Spec => []OneTransactionPerNonce
<1> DEFINE IInv == /\ TypeOK /\ InFlightRecorded /\ HashesRecorded
                   /\ Placed /\ Links /\ NoncesApart
<1>1. Init => IInv
  BY InitType, InitPlaced, InitNonces DEF Init, InFlightRecorded, Idle
<1>2. IInv /\ [Next]_vars => IInv'
  BY NextType, InFlightStays, HashesStay, PlacedStays, NoncesApartStay DEF HashesRecorded
<1>3. IInv => OneTransactionPerNonce
  <2> SUFFICES ASSUME TypeOK, RowsRecorded, Placed, Links, NoncesApart,
                      NEW e \in Queued, NEW f \in Queued, e.nonce = f.nonce
               PROVE  e.id = f.id \/ Compete(e, f)
    BY DEF OneTransactionPerNonce, HashesRecorded
  <2>1. Queued \subseteq Pending \cup InMempool
    BY HeldPositions DEF Queued, Sides
  <2>2. QueuesPlaced
    BY DEF Placed
  <2>3. /\ e.id \in TxId /\ OpenRow(e.id) /\ e \in Held
        /\ f.id \in TxId /\ OpenRow(f.id) /\ f \in Held
    BY <2>1, <2>2, PlacedOpen, HeldType DEF Held, OpenRow
  <2>4. /\ e.nonce = db[e.id].tx.nonce /\ e.ext = db[e.id].tx.ext /\ db[e.id].tx.id = e.id
        /\ f.nonce = db[f.id].tx.nonce /\ f.ext = db[f.id].tx.ext /\ db[f.id].tx.id = f.id
    BY <2>3 DEF NoncesApart, RowNonces, Links, HeldLinked, RowsRecorded
  <2> QED
    BY <2>3, <2>4 DEF NoncesApart, OpenApart, Compete
<1> HIDE DEF IInv
<1> QED
  BY <1>1, <1>2, <1>3, PTL DEF Spec
-----------------------------------------------------------------------------
(***************************************************************************)
(* A payload takes effect once.                                             *)
(***************************************************************************)
\* The chain is in the order of the nonces, and what is pooled or forgotten is not mined yet.
NodePlaced ==
  /\ \A i \in DOMAIN chain : chain[i].hash # None => chain[i].hash.nonce = i - 1
  /\ \A h \in pool \cup stray : h.nonce >= Len(chain)

\* Another transaction took the nonce of this one.
Dead(h) == h.nonce < Len(chain) /\ ~HasReceipt(h)

DeadStays == \A h \in Hash : Dead(h) => Dead(h)'

\* A block takes the next nonce.
LEMMA IncludePlaced ==
  ASSUME NodeTypeOK, NodePlaced, NEW b \in Block, b.hash # None => b.hash.nonce = Len(chain),
         Include(b)
  PROVE  NodePlaced' /\ DeadStays
<1>1. /\ chain \in Seq(Block) /\ chain' = Append(chain, b)
      /\ pool' = {g \in pool : g.nonce # Len(chain)}
      /\ stray' = {g \in stray : g.nonce # Len(chain)}
  BY DEF NodeTypeOK, Include
<1>2. Len(chain) \in Nat /\ Len(chain') = Len(chain) + 1 /\ DOMAIN chain' = 1..(Len(chain) + 1)
  BY <1>1
<1>3. \A i \in DOMAIN chain' : \/ i \in DOMAIN chain /\ chain'[i] = chain[i]
                               \/ i = Len(chain) + 1 /\ chain'[i] = b
  BY <1>1, <1>2
<1>4. \A i \in DOMAIN chain' : chain'[i].hash # None => chain'[i].hash.nonce = i - 1
  BY <1>2, <1>3 DEF NodePlaced
<1>5. \A h \in pool' \cup stray' : h.nonce >= Len(chain')
  <2>1. \A h \in pool \cup stray : h.nonce \in Nat /\ h.nonce >= Len(chain)
    BY DEF NodeTypeOK, NodePlaced, Hash
  <2> QED
    BY <1>1, <1>2, <2>1
<1>6. ASSUME NEW h \in Hash, Dead(h) PROVE Dead(h)'
  <2>1. h.nonce \in Nat /\ h.nonce < Len(chain) /\ h # None
    BY <1>6, NoneIsNoHash DEF Dead, Hash
  <2>2. \A i \in DOMAIN chain' : chain'[i].hash # h
    BY <1>3, <1>6, <2>1, <1>2 DEF Dead, HasReceipt, Receipts
  <2> QED
    BY <1>2, <2>1, <2>2 DEF Dead, HasReceipt, Receipts
<1> QED
  BY <1>4, <1>5, <1>6 DEF NodePlaced, DeadStays

\* A node that takes a transaction, or forgets one, leaves the chain as it was.
LEMMA PoolPlaced ==
  ASSUME NodePlaced, NEW h, h.nonce >= Len(chain), UNCHANGED chain,
         pool' \cup stray' \subseteq pool \cup stray \cup {h}
  PROVE  NodePlaced' /\ DeadStays
<1>1. \A g \in pool' \cup stray' : g.nonce >= Len(chain')
  BY DEF NodePlaced
<1> QED
  BY <1>1 DEF NodePlaced, DeadStays, Dead, HasReceipt, Receipts

\* What the network does on its own.
LEMMA NodeStepPlaced ==
  ASSUME NodeTypeOK, NodePlaced, NodeStep
  PROVE  NodePlaced' /\ DeadStays
<1>1. CASE Mine \/ MineReverted \/ MineStray
  <2>1. PICK h \in pool \cup stray, k \in BOOLEAN :
          h.nonce = Len(chain) /\ Include([hash |-> h, ok |-> k])
    BY <1>1 DEF Mine, MineReverted, MineStray
  <2>2. [hash |-> h, ok |-> k] \in Block
    BY DEF NodeTypeOK, Block
  <2> QED
    BY <2>1, <2>2, IncludePlaced
<1>2. CASE MineExternal
  <2>1. [hash |-> None, ok |-> TRUE] \in Block /\ Include([hash |-> None, ok |-> TRUE])
    BY <1>2 DEF MineExternal, Block
  <2> QED
    BY <2>1, IncludePlaced
<1>3. CASE Evict
  <2>1. PICK h \in pool : pool' = pool \ {h} /\ stray' = Strays({h}) /\ UNCHANGED chain
    BY <1>3 DEF Evict
  <2>2. h.nonce >= Len(chain) /\ pool' \cup stray' \subseteq pool \cup stray \cup {h}
    BY <2>1 DEF NodePlaced, Strays
  <2> QED
    BY <2>1, <2>2, PoolPlaced
<1> QED
  BY <1>1, <1>2, <1>3 DEF NodeStep

\* The node's answer.
LEMMA DeliverNode ==
  ASSUME TypeOK, NodePlaced, Deliver
  PROVE  NodePlaced' /\ DeadStays
<1>1. PICK h, r : Broadcast(h, r)
  BY DEF Deliver
<1>2. CASE Acceptable(h) /\ Pool(h) /\ UNCHANGED chain
  <2>1. h.nonce >= Len(chain) /\ pool' \cup stray' \subseteq pool \cup stray \cup {h}
    BY <1>2 DEF Acceptable, Pool, SameNonce, Strays
  <2> QED
    BY <1>2, <2>1, PoolPlaced
<1>3. CASE UNCHANGED <<chain, pool, stray>>
  BY <1>3 DEF NodePlaced, DeadStays, Dead, HasReceipt, Receipts
<1> QED
  BY <1>1, <1>2, <1>3 DEF Broadcast, nodeVars

\* No other step of the queue reaches the node.
LEMMA NodeKept ==
  ASSUME NodePlaced, UNCHANGED <<chain, pool, stray>>
  PROVE  NodePlaced' /\ DeadStays
  BY DEF NodePlaced, DeadStays, Dead, HasReceipt, Receipts

\* The payloads a transaction has had: in its row, in memory, and in what was sent.
Owns(t, p) ==
  \/ p = db[t].tx.payload
  \/ \E e \in Held : e.id = t /\ p = e.payload
  \/ \E i \in DOMAIN audit[t] : p = audit[t][i].payload

PayloadsOwned ==
  \A p \in TxId :
    /\ \A t, u \in TxId : Owns(t, p) /\ Owns(u, p) => t = u
    /\ \A t \in TxId : Owns(t, p) /\ p \in User => p = t

\* The attempts of a transaction have its nonce, or another transaction has theirs.
OneNonce ==
  \A t \in TxId \ moved : \A i \in DOMAIN audit[t] :
    audit[t][i].nonce = db[t].tx.nonce \/ Dead(audit[t][i])

AbsentUnsent == \A t \in TxId : db[t].status = "absent" => audit[t] = <<>>

\* What is sent has the nonce of its entry; after a conflict, that nonce is used up.
FlightNumbered ==
  /\ op.at = "persisted" => op.tx.hash.nonce = op.tx.nonce
  /\ op.at = "conflict" => op.tx.nonce < Len(chain)

Attempted == PayloadsOwned /\ OneNonce /\ AbsentUnsent /\ FlightNumbered

\* A payload is the empty one, one the transaction had, or the one a step gives it.
Takes(u, p, t, q) == p = Noop \/ Owns(u, p) \/ (u = t /\ p = q)

\* A payload no other transaction has had.
NewFor(t, q) ==
  /\ q \in User => q = t
  /\ \A u \in TxId : u # t => ~Owns(u, q)

\* Transactions share no payload as long as a step gives one of them a new one only.
LEMMA OwnersStay ==
  ASSUME PayloadsOwned, NEW t, NEW q, q = Noop \/ NewFor(t, q),
         \A u \in TxId : Takes(u, db'[u].tx.payload, t, q),
         \A e \in Held' : Takes(e.id, e.payload, t, q),
         \A u \in TxId : \A i \in DOMAIN audit'[u] : Takes(u, audit'[u][i].payload, t, q)
  PROVE  PayloadsOwned'
<1>1. ASSUME NEW u \in TxId, NEW p \in TxId, Owns(u, p)'
      PROVE  Owns(u, p) \/ (u = t /\ p = q /\ NewFor(t, q))
  <2>1. p # Noop
    BY NodeAssumption
  <2>2. Takes(u, p, t, q)
    BY <1>1 DEF Owns
  <2> QED
    BY <2>1, <2>2 DEF Takes
<1>2. ASSUME NEW p \in TxId, NEW u \in TxId, NEW v \in TxId, Owns(u, p)', Owns(v, p)'
      PROVE  u = v
  BY <1>1, <1>2 DEF PayloadsOwned, NewFor
<1>3. ASSUME NEW p \in TxId, NEW u \in TxId, Owns(u, p)', p \in User
      PROVE  p = u
  BY <1>1, <1>3 DEF PayloadsOwned, NewFor
<1> QED
  BY <1>2, <1>3 DEF PayloadsOwned

\* A step that sends nothing, and gives a row another nonce only if it has sent nothing
\* that could still be mined.
LEMMA UnsentAttempts ==
  ASSUME TypeOK, Attempted, UNCHANGED audit, moved \subseteq moved', DeadStays,
         NEW t, NEW q, q = Noop \/ NewFor(t, q),
         \A u \in TxId : /\ Takes(u, db'[u].tx.payload, t, q)
                         /\ db'[u].status = "absent" => db[u].status = "absent"
                         /\ \/ db'[u].tx.nonce = db[u].tx.nonce
                            \/ u \in moved'
                            \/ \A i \in DOMAIN audit[u] : Dead(audit[u][i]),
         \A e \in Held' : Takes(e.id, e.payload, t, q),
         FlightNumbered'
  PROVE  Attempted'
<1>1. PayloadsOwned'
  <2>1. \A u \in TxId : \A i \in DOMAIN audit'[u] : Takes(u, audit'[u][i].payload, t, q)
    BY DEF Takes, Owns
  <2> QED
    BY <2>1, OwnersStay DEF Attempted
<1>2. OneNonce'
  <2> SUFFICES ASSUME NEW u \in TxId, u \notin moved', NEW i \in DOMAIN audit'[u]
               PROVE  audit'[u][i].nonce = db'[u].tx.nonce \/ Dead(audit[u][i])'
    BY DEF OneNonce
  <2>1. PICK h \in Hash : h = audit[u][i] /\ h = audit'[u][i]
    BY DEF TypeOK
  <2>2. h.nonce = db[u].tx.nonce \/ Dead(h)
    BY <2>1 DEF Attempted, OneNonce
  <2>3. Dead(h) => Dead(h)'
    BY DEF DeadStays
  <2>4. db'[u].tx.nonce = db[u].tx.nonce \/ Dead(h)
    BY <2>1
  <2> QED
    BY <2>1, <2>2, <2>3, <2>4
<1>3. AbsentUnsent'
  BY DEF Attempted, AbsentUnsent
<1> QED
  BY <1>1, <1>2, <1>3 DEF Attempted

\* What memory holds has the payload of its transaction.
LEMMA HeldTakes ==
  ASSUME NEW t, NEW q
  PROVE  /\ \A e \in Held : Takes(e.id, e.payload, t, q)
         /\ \A u \in TxId : Takes(u, db[u].tx.payload, t, q)
         /\ \A u : Takes(u, Noop, t, q)
  BY DEF Takes, Owns

\* Nothing but a status or a hash is written, and nothing gained.
LEMMA QuietAttempts ==
  ASSUME TypeOK, Attempted, UNCHANGED <<audit, moved>>, DeadStays,
         \A u \in TxId : /\ db'[u].tx.payload = db[u].tx.payload
                         /\ db'[u].tx.nonce = db[u].tx.nonce
                         /\ db'[u].status = "absent" => db[u].status = "absent",
         \A e \in Held' : Owns(e.id, e.payload) \/ e.payload = Noop,
         FlightNumbered'
  PROVE  Attempted'
<1>1. \A u \in TxId : Takes(u, db'[u].tx.payload, Noop, Noop)
  BY HeldTakes
<1>2. \A e \in Held' : Takes(e.id, e.payload, Noop, Noop)
  BY DEF Takes
<1> QED
  BY <1>1, <1>2, UnsentAttempts

\* A row saved from a copy of what memory holds of it.
LEMMA SavedAttempts ==
  ASSUME TypeOK, Attempted, UNCHANGED <<audit, moved>>, DeadStays,
         NEW e \in Entry, e.nonce = db[e.id].tx.nonce,
         NEW s, SaveTransaction(e, s), s # "absent",
         NEW q, q = Noop \/ NewFor(e.id, q), Takes(e.id, e.payload, e.id, q),
         \A g \in Held' : Takes(g.id, g.payload, e.id, q),
         FlightNumbered'
  PROVE  Attempted'
<1>1. /\ e.id \in TxId /\ db'[e.id] = [status |-> s, tx |-> e]
      /\ \A t \in TxId : t # e.id => db'[t] = db[t]
  BY SaveTransactionRows
<1>2. db'[e.id].status = s /\ db'[e.id].tx = e
  BY <1>1
<1>3. \A u \in TxId : /\ Takes(u, db'[u].tx.payload, e.id, q)
                      /\ db'[u].status = "absent" => db[u].status = "absent"
                      /\ db'[u].tx.nonce = db[u].tx.nonce
  BY <1>1, <1>2, HeldTakes
<1> QED
  BY <1>3, UnsentAttempts

\* A send gives the transaction one attempt more, at the nonce its row has or gets.
LEMMA SentAttempts ==
  ASSUME TypeOK, Attempted, op = Idle,
         NEW e \in Entry, NEW f \in Entry, NEW s \in Status, NEW k, Sends(e, s, k, f),
         e.nonce = db[e.id].tx.nonce \/ db[e.id].status = "absent",
         NEW q, q = Noop \/ NewFor(e.id, q), Takes(e.id, e.payload, e.id, q)
  PROVE  Attempted'
<1>1. e.id \in TxId /\ f.id = e.id /\ f.nonce = e.nonce /\ f.payload \in {Noop, e.payload}
  BY DEF Sends, SignedCopy, Entry
<1>2. /\ f.hash \in Hash /\ f.hash.nonce = e.nonce /\ f.hash.payload = f.payload
      /\ db'[e.id].status = s /\ db'[e.id].tx.nonce = e.nonce
      /\ db'[e.id].tx.payload = f.payload
      /\ op'.at = "persisted" /\ op'.tx = f
  BY <1>1 DEF Sends, SignedCopy, SameButFailed
<1>3. /\ \A t \in TxId : t # e.id => db'[t] = db[t] /\ audit'[t] = audit[t]
      /\ \A i \in DOMAIN audit'[e.id] :
           audit'[e.id][i] = f.hash \/ RecordedFor(e.id, audit'[e.id][i])
      /\ UNCHANGED <<pendq, inq, moved, chain>>
  BY DEF Sends
<1>4. Takes(e.id, f.payload, e.id, q)
  BY <1>1 DEF Takes
<1>5. PayloadsOwned'
  <2>1. \A u \in TxId : Takes(u, db'[u].tx.payload, e.id, q)
    BY <1>2, <1>3, <1>4, HeldTakes
  <2>2. \A g \in Held' : g \in Held \/ g = f
    BY <1>2, <1>3, SameMembers, HeldPositionsAfter DEF Held
  <2>3. \A g \in Held' : Takes(g.id, g.payload, e.id, q)
    BY <1>1, <1>4, <2>2, HeldTakes
  <2>4. \A u \in TxId : \A i \in DOMAIN audit'[u] : Takes(u, audit'[u][i].payload, e.id, q)
    BY <1>2, <1>3, <1>4 DEF Takes, Owns, RecordedFor
  <2> QED
    BY <2>1, <2>3, <2>4, OwnersStay DEF Attempted
<1>6. OneNonce'
  <2> SUFFICES ASSUME NEW t \in TxId, t \notin moved', NEW i \in DOMAIN audit'[t]
               PROVE  (audit[t][i].nonce = db[t].tx.nonce \/ Dead(audit[t][i]))'
    BY DEF OneNonce
  <2>1. \A h : Dead(h)' <=> Dead(h)
    BY <1>3 DEF Dead, HasReceipt, Receipts
  <2>2. CASE t # e.id
    BY <1>3, <2>1, <2>2 DEF Attempted, OneNonce, Dead, HasReceipt, Receipts
  <2>3. CASE t = e.id
    <3>1. PICK h : h = audit'[t][i]
      OBVIOUS
    <3>2. CASE h = f.hash
      BY <1>2, <2>3, <3>1, <3>2
    <3>3. CASE RecordedFor(t, h)
      <4>1. h.nonce = db[t].tx.nonce \/ Dead(h)
        BY <1>3, <3>3 DEF Attempted, OneNonce, RecordedFor
      <4>2. db[t].status # "absent"
        BY <3>3 DEF Attempted, AbsentUnsent, RecordedFor
      <4>3. h.nonce = db'[t].tx.nonce \/ Dead(h)'
        BY <1>2, <2>1, <2>3, <4>1, <4>2
      <4> QED
        BY <3>1, <4>3 DEF Dead, HasReceipt, Receipts
    <3> QED
      BY <1>3, <2>3, <3>1, <3>2, <3>3
  <2> QED
    BY <2>2, <2>3
<1>7. AbsentUnsent'
  BY <1>1, <1>2, <1>3 DEF Attempted, AbsentUnsent, Status
<1>8. FlightNumbered'
  BY <1>1, <1>2 DEF FlightNumbered
<1> QED
  BY <1>5, <1>6, <1>7, <1>8 DEF Attempted

\* A payload that was never used belongs to whoever takes it.
LEMMA FreshPayload ==
  ASSUME TypeOK, op = Idle, NEW c \in Rival, Fresh(c), NEW t
  PROVE  NewFor(t, c)
<1>1. \A e \in Pending : e.payload # c
  BY DEF Fresh, Pending
<1>2. \A e \in InMempool : e.payload # c
  BY DEF Fresh, InMempool, Sides
<1>3. \A e \in Held : e.payload # c
  BY <1>1, <1>2, SameMembers DEF Held
<1>4. \A u \in TxId : ~Owns(u, c)
  BY <1>3 DEF Owns, Fresh
<1> QED
  BY <1>4 DEF NewFor, Rival

\* The API gives a transaction its own payload, a fresh one, or the empty one.
LEMMA ApiAttempts ==
  ASSUME TypeOK, RowsRecorded, NodePlaced, NoncesApart, Attempted, NEW t \in TxId, Api(t)
  PROVE  NodePlaced' /\ Attempted'
<1>0. /\ \A u \in TxId : db[u].tx.id = u
      /\ \A e \in Held : e.nonce = db[e.id].tx.nonce /\ e.id \in TxId
  BY HeldType DEF RowsRecorded, NoncesApart, RowNonces
<1>1. t \in User => NewFor(t, t)
  BY DEF Attempted, PayloadsOwned, NewFor
<1>2. CASE Admit(t)
  <2>1. PICK e \in Entry :
          /\ e = NewEntry(t, e.nonce) /\ SaveTransaction(e, "PENDING")
          /\ pendq' = InsertByNonce(pendq, e)
    BY <1>2, AdmitEffect
  <2>2. /\ db[t].status = "absent" /\ op = Idle /\ t \in User
        /\ UNCHANGED <<audit, inq, op, moved, chain, pool, stray>>
    BY <1>2, AdmitEffect
  <2>3. e.id = t /\ e.payload = t
    BY <2>1 DEF NewEntry
  <2>4. db'[t].tx = e /\ db'[t].status = "PENDING" /\ \A u \in TxId : u # t => db'[u] = db[u]
    <3>1. /\ db'[t] = [status |-> "PENDING", tx |-> e]
          /\ \A u \in TxId : u # t => db'[u] = db[u]
      BY <2>1, <2>3, SaveTransactionRows
    <3> QED
      BY <3>1
  <2>5. \A g \in Held' : g \in Held \/ g = e
    BY <2>1, <2>2, PendingMembers, SameMembers, HeldPositionsAfter DEF Held
  <2>6. \A g \in Held' : Takes(g.id, g.payload, t, t)
    BY <2>3, <2>5, HeldTakes DEF Takes
  <2>7. \A u \in TxId : /\ Takes(u, db'[u].tx.payload, t, t)
                        /\ db'[u].status = "absent" => db[u].status = "absent"
                        /\ \/ db'[u].tx.nonce = db[u].tx.nonce
                           \/ \A i \in DOMAIN audit[u] : Dead(audit[u][i])
    <3>1. DOMAIN audit[t] = {}
      BY <2>2 DEF Attempted, AbsentUnsent
    <3>2. Takes(t, e.payload, t, t)
      BY <2>3 DEF Takes
    <3> QED
      BY <2>4, <3>1, <3>2, HeldTakes
  <2>8. FlightNumbered'
    BY <2>2 DEF FlightNumbered, Idle
  <2> QED
    BY <1>1, <2>2, <2>6, <2>7, <2>8, NodeKept, UnsentAttempts
<1>3. CASE AdmitUnestimable(t)
  <2>1. PICK e \in Entry :
          e = [NewEntry(t, e.nonce) EXCEPT !.failed = TRUE] /\ SaveTransaction(e, "FAILED")
    BY <1>3, AdmitUnestimableEffect
  <2>2. /\ db[t].status = "absent" /\ op = Idle /\ t \in User
        /\ UNCHANGED <<audit, pendq, inq, op, moved, chain, pool, stray>>
    BY <1>3, AdmitUnestimableEffect
  <2>3. e.id = t /\ e.payload = t
    BY <2>1 DEF NewEntry
  <2>4. db'[t].tx = e /\ db'[t].status = "FAILED" /\ \A u \in TxId : u # t => db'[u] = db[u]
    <3>1. /\ db'[t] = [status |-> "FAILED", tx |-> e]
          /\ \A u \in TxId : u # t => db'[u] = db[u]
      BY <2>1, <2>3, SaveTransactionRows
    <3> QED
      BY <3>1
  <2>5. Held' = Held
    BY <2>2, SameMembers, HeldPositionsAfter DEF Held
  <2>6. \A g \in Held' : Takes(g.id, g.payload, t, t)
    BY <2>5, HeldTakes
  <2>7. \A u \in TxId : /\ Takes(u, db'[u].tx.payload, t, t)
                        /\ db'[u].status = "absent" => db[u].status = "absent"
                        /\ \/ db'[u].tx.nonce = db[u].tx.nonce
                           \/ \A i \in DOMAIN audit[u] : Dead(audit[u][i])
    <3>1. DOMAIN audit[t] = {}
      BY <2>2 DEF Attempted, AbsentUnsent
    <3>2. Takes(t, e.payload, t, t)
      BY <2>3 DEF Takes
    <3> QED
      BY <2>4, <3>1, <3>2, HeldTakes
  <2>8. FlightNumbered'
    BY <2>2 DEF FlightNumbered, Idle
  <2> QED
    BY <1>1, <2>2, <2>6, <2>7, <2>8, NodeKept, UnsentAttempts
<1>4. CASE AdmitUnsaved(t)
  <2>1. op = Idle /\ UNCHANGED <<db, audit, pendq, inq, op, moved, chain, pool, stray>>
    BY <1>4, AdmitUnsavedEffect DEF rowVars
  <2>2. Held' = Held
    BY <2>1, SameMembers, HeldPositionsAfter DEF Held
  <2>3. \A e \in Held' : Owns(e.id, e.payload)
    BY <2>2 DEF Owns
  <2>4. FlightNumbered'
    BY <2>1 DEF FlightNumbered, Idle
  <2> QED
    BY <2>1, <2>3, <2>4, NodeKept, QuietAttempts
<1>5. CASE CancelPending(t) \/ ReplacePending(t)
  <2>1. PICK i \in DOMAIN pendq, e \in Entry :
          /\ SameLinks(e, pendq[i])
          /\ \/ e.payload = Noop
             \/ e.payload \in Rival /\ Fresh(e.payload)
          /\ SaveTransaction(e, "PENDING") /\ pendq' = Updated(pendq, e)
    BY <1>5, EditEffect
  <2>2. op = Idle /\ UNCHANGED <<audit, inq, op, moved, chain, pool, stray>>
    BY <1>5, EditEffect
  <2>3. e.payload = Noop \/ NewFor(e.id, e.payload)
    BY <2>1, <2>2, FreshPayload
  <2>4. e.nonce = db[e.id].tx.nonce
    <3>1. pendq[i] \in Held
      BY <2>1 DEF Held, Pending
    <3> QED
      BY <1>0, <2>1, <3>1 DEF SameLinks
  <2>5. \A g \in Held' : g \in Held \/ g = e
    BY <2>1, <2>2, PendingMembers, SameMembers, HeldPositionsAfter DEF Held
  <2>6. \A g \in Held' : Takes(g.id, g.payload, e.id, e.payload)
    BY <2>5, HeldTakes DEF Takes
  <2>7. FlightNumbered'
    BY <2>2 DEF FlightNumbered, Idle
  <2>8. Takes(e.id, e.payload, e.id, e.payload)
    BY DEF Takes
  <2> QED
    BY <2>1, <2>2, <2>3, <2>4, <2>6, <2>7, <2>8, NodeKept, SavedAttempts
<1>6. ASSUME NEW k \in {"cancel", "replace"}, SendRival(t, k)
      PROVE  NodePlaced' /\ Attempted'
  <2>1. PICK c \in Rival, o \in Entry, e \in Entry, f \in Entry :
          Fresh(c) /\ RivalOf(e, c, o, k) /\ Sends(e, "PENDING", k, f)
    <3>1. PICK c \in Rival, i \in DOMAIN inq, e \in Entry, f \in Entry :
            Fresh(c) /\ RivalOf(e, c, inq[i].orig, k) /\ Sends(e, "PENDING", k, f)
      BY <1>6, SendRivalCopies
    <3>2. inq[i].orig \in Entry
      BY SidesType DEF TypeOK
    <3> QED
      BY <3>1, <3>2
  <2>2. op = Idle
    BY <1>6, SendRivalCopies
  <2>3. e.id = c /\ e.payload \in {Noop, c} /\ db[c].status = "absent" /\ NewFor(c, c)
    BY <2>1, <2>2, FreshPayload DEF RivalOf, Fresh
  <2>4. Takes(e.id, e.payload, e.id, c)
    BY <2>3 DEF Takes
  <2>5. UNCHANGED <<chain, pool, stray>>
    BY <2>1 DEF Sends
  <2>6. "PENDING" \in Status
    BY DEF Status
  <2> QED
    BY <2>1, <2>2, <2>3, <2>4, <2>5, <2>6, NodeKept, SentAttempts
<1> QED
  BY <1>2, <1>3, <1>4, <1>5, <1>6 DEF Api, CancelInmempool, ReplaceInmempool

\* The loops send what memory holds, and write its payload to the row.
LEMMA LoopAttempts ==
  ASSUME TypeOK, RowsRecorded, NodePlaced, NoncesApart, Attempted, Loops
  PROVE  NodePlaced' /\ Attempted'
<1>0. /\ \A u \in TxId : db[u].tx.id = u
      /\ \A e \in Held : e.nonce = db[e.id].tx.nonce /\ e.id \in TxId /\ e \in Entry
  BY HeldType DEF RowsRecorded, NoncesApart, RowNonces
<1>1. ASSUME NEW e \in Held, NEW s \in {"PENDING", "INMEMPOOL"}, NEW k,
             NEW f \in Entry, Sends(e, s, k, f), op = Idle
      PROVE  NodePlaced' /\ Attempted'
  <2>1. Takes(e.id, e.payload, e.id, Noop)
    BY HeldTakes
  <2>2. UNCHANGED <<chain, pool, stray>>
    BY <1>1 DEF Sends
  <2>3. s \in Status
    BY DEF Status
  <2> QED
    BY <1>0, <1>1, <2>1, <2>2, <2>3, NodeKept, SentAttempts
<1>2. CASE SendPending
  <2>1. /\ Head(pendq) \in Pending /\ op = Idle
        /\ \E f \in Entry : Sends(Head(pendq), "PENDING", "pending", f)
    BY <1>2, SendPendingSends
  <2>2. PICK e \in Held : e = Head(pendq)
    BY <2>1 DEF Held
  <2>3. PICK f \in Entry : Sends(e, "PENDING", "pending", f)
    BY <2>1, <2>2
  <2> QED
    BY <1>1, <2>1, <2>3
<1>3. CASE BumpGas
  <2>1. /\ inq # <<>> /\ op = Idle
        /\ \E f \in Entry : Sends(Active(Head(inq)), "INMEMPOOL", "bump", f)
    BY <1>3, BumpGasSends
  <2>2. PICK e \in Held : e = Active(Head(inq))
    BY <2>1, FrontOfInmempool DEF Held
  <2>3. PICK f \in Entry : Sends(e, "INMEMPOOL", "bump", f)
    BY <2>1, <2>2
  <2> QED
    BY <1>1, <2>1, <2>3
<1>4. CASE EstimateRejects
  <2>1. /\ Head(pendq) \in Pending /\ op'.at = "rejected" /\ op'.tx = Head(pendq)
        /\ UNCHANGED <<db, audit, pendq, inq, moved, chain, pool, stray>>
    BY <1>4, EstimateRejectsEffect DEF rowVars, queueVars
  <2>2. Held' \subseteq Held
    <3>1. InFlight' = {Head(pendq)} /\ Pending' = Pending /\ InMempool' = InMempool
      BY <2>1, SameMembers DEF InFlight
    <3> QED
      BY <2>1, <3>1, HeldPositionsAfter DEF Held
  <2>3. \A e \in Held' : Owns(e.id, e.payload)
    BY <2>2 DEF Owns
  <2>4. FlightNumbered'
    BY <2>1 DEF FlightNumbered
  <2> QED
    BY <2>1, <2>3, <2>4, NodeKept, QuietAttempts
<1>5. CASE ResolveReceipt
  <2>1. inq # <<>> /\ inq' = Tail(inq) /\ UNCHANGED <<audit, pendq, moved, chain, pool, stray>>
    BY <1>5, ResolveReceiptEffect
  <2>2. PICK a \in Entry, x \in Entry, s \in {"MINED", "FAILED", "EXPIRED"} :
          /\ a = Active(Head(inq)) /\ WinnerRow(x, a, s) /\ SaveTransaction(x, s)
          /\ IF s = "MINED" /\ Head(inq).comp # None
             THEN op'.at = "settling" /\ op'.tx = Loser(Head(inq))
             ELSE op' = Idle
    BY <1>5, ResolveReceiptEffect
  <2>3. PICK c \in Contest : c = Head(inq) /\ c = inq[1] /\ Sides(c) \subseteq InMempool
    BY <2>1, FrontOfInmempool
  <2>4. a \in Held /\ a.id \in TxId /\ c.orig \in Held
    BY <2>2, <2>3, SidesType, HeldType DEF Held
  <2>5. x.id = a.id /\ x.nonce = db[x.id].tx.nonce /\ Takes(x.id, x.payload, x.id, Noop)
    BY <1>0, <2>2, <2>4, HeldTakes DEF WinnerRow
  <2>6. \A g \in Held' : g \in Held \/ (g.id = c.orig.id /\ g.payload \in {c.orig.payload, Noop})
    <3>1. InFlight' = {} \/ (c.comp # None /\ InFlight' = {Loser(c)})
      BY <2>2, <2>3 DEF InFlight, Idle
    <3>2. InMempool' \subseteq InMempool /\ Pending' = Pending
      BY <2>1, TailMembers, SameMembers
    <3>3. c.comp # None => Loser(c).id = c.orig.id /\ Loser(c).payload \in {c.orig.payload, Noop}
      BY LoserIs
    <3> QED
      BY <3>1, <3>2, <3>3, HeldPositionsAfter DEF Held
  <2>7. \A g \in Held' : Takes(g.id, g.payload, x.id, Noop)
    BY <2>4, <2>6, HeldTakes
  <2>8. FlightNumbered'
    BY <2>2 DEF FlightNumbered, Idle
  <2> QED
    BY <2>1, <2>2, <2>5, <2>7, <2>8, NodeKept, SavedAttempts
<1>6. CASE ResolveReceiptUnsaved
  <2>1. /\ op = Idle /\ inq # <<>> /\ inq' = Tail(inq)
        /\ UNCHANGED <<db, audit, pendq, op, moved, chain, pool, stray>>
    BY <1>6, ResolveReceiptUnsavedEffect DEF rowVars
  <2>2. Held' \subseteq Held
    BY <2>1, TailMembers, SameMembers, HeldPositionsAfter DEF Held
  <2>3. \A e \in Held' : Owns(e.id, e.payload)
    BY <2>2 DEF Owns
  <2>4. FlightNumbered'
    BY <2>1 DEF FlightNumbered, Idle
  <2> QED
    BY <2>1, <2>3, <2>4, NodeKept, QuietAttempts
<1>7. ASSUME NEW t \in TxId, Confirm(t) PROVE NodePlaced' /\ Attempted'
  <2>1. /\ t \in minedq /\ SetStatus(t, "CONFIRMED") /\ op = Idle
        /\ UNCHANGED <<audit, pendq, inq, op, moved, chain, pool, stray>>
    BY <1>7 DEF Confirm, Ready, nodeVars
  <2>2. /\ db'[t].status = "CONFIRMED" /\ db'[t].tx = db[t].tx
        /\ \A u \in TxId : u # t => db'[u] = db[u]
    BY <2>1, SetStatusRows
  <2>3. Held' = Held
    BY <2>1, SameMembers, HeldPositionsAfter DEF Held
  <2>4. \A e \in Held' : Owns(e.id, e.payload)
    BY <2>3 DEF Owns
  <2>5. FlightNumbered'
    BY <2>1 DEF FlightNumbered, Idle
  <2>6. \A u \in TxId : /\ db'[u].tx.payload = db[u].tx.payload
                        /\ db'[u].tx.nonce = db[u].tx.nonce
                        /\ db'[u].status = "absent" => db[u].status = "absent"
    BY <2>2
  <2> QED
    BY <2>1, <2>4, <2>5, <2>6, NodeKept, QuietAttempts
<1> QED
  BY <1>2, <1>3, <1>4, <1>5, <1>6, <1>7 DEF Loops

\* The rest of a send moves payloads about; a transaction gets another nonce only when all
\* its attempts are dead, or as a moved one.
LEMMA ContinueAttempts ==
  ASSUME TypeOK, RowsRecorded, Placed, NodePlaced, NoncesApart, Attempted, Continue
  PROVE  NodePlaced' /\ Attempted'
<1>0. /\ \A e \in Held : e.nonce = db[e.id].tx.nonce /\ e.id \in TxId /\ e \in Entry
      /\ op.at # "idle" => op.tx \in Held
  BY HeldType DEF NoncesApart, RowNonces, Held, InFlight
<1>1. ASSUME NEW e \in Entry, op.at # "idle", e.id = op.tx.id, e.payload = op.tx.payload,
             SetSent(e.id, e.hash), UNCHANGED <<audit, moved, chain, pool, stray>>,
             op'.at \notin {"persisted", "conflict"},
             \A g \in Held' : g \in Held \/ g = e
      PROVE  NodePlaced' /\ Attempted'
  <2>1. e.id \in TxId /\ Owns(e.id, e.payload)
    BY <1>0, <1>1 DEF Owns
  <2>2. \A u \in TxId : /\ db'[u].tx.payload = db[u].tx.payload
                        /\ db'[u].tx.nonce = db[u].tx.nonce
                        /\ db'[u].status = "absent" => db[u].status = "absent"
    BY <1>1, <2>1, SetSentRows
  <2>3. \A g \in Held' : Owns(g.id, g.payload)
    BY <1>1, <2>1 DEF Owns
  <2>4. FlightNumbered'
    BY <1>1 DEF FlightNumbered
  <2> QED
    BY <1>1, <2>2, <2>3, <2>4, NodeKept, QuietAttempts
<1>2. ASSUME NEW e \in Entry, NEW f \in Held, e.id = f.id, e.nonce = f.nonce,
             e.payload \in {f.payload, Noop},
             NEW s, SaveTransaction(e, s), s # "absent", op' = Idle,
             UNCHANGED <<audit, moved, chain, pool, stray>>,
             \A g \in Held' : g \in Held \/ g = e
      PROVE  NodePlaced' /\ Attempted'
  <2>1. e.nonce = db[e.id].tx.nonce /\ Takes(e.id, e.payload, e.id, Noop)
    BY <1>0, <1>2, HeldTakes
  <2>2. \A g \in Held' : Takes(g.id, g.payload, e.id, Noop)
    BY <1>2, <2>1, HeldTakes
  <2>3. FlightNumbered'
    BY <1>2 DEF FlightNumbered, Idle
  <2> QED
    BY <1>2, <2>1, <2>2, <2>3, NodeKept, SavedAttempts
<1>3. CASE Deliver
  <2>1. /\ op.at = "persisted" /\ UNCHANGED <<db, audit, pendq, inq, moved>>
        /\ \/ op' = Idle
           \/ /\ op'.at \in {"accepted", "rejected", "conflict"} /\ op'.tx = op.tx
              /\ op'.at = "conflict" => op.tx.hash.nonce < Len(chain) /\ UNCHANGED nodeVars
    BY <1>3, DeliverEffect DEF rowVars, queueVars
  <2>2. NodePlaced' /\ DeadStays
    BY <1>3, DeliverNode
  <2>3. FlightNumbered'
    BY <2>1 DEF Attempted, FlightNumbered, Idle, nodeVars
  <2>4. Held' \subseteq Held
    <3>1. InFlight' \subseteq InFlight /\ Pending' = Pending /\ InMempool' = InMempool
      BY <2>1, SameMembers DEF InFlight
    <3> QED
      BY <3>1, HeldPositionsAfter DEF Held
  <2>5. \A e \in Held' : Owns(e.id, e.payload)
    BY <2>4 DEF Owns
  <2> QED
    BY <2>1, <2>2, <2>3, <2>5, QuietAttempts
<1>4. CASE MarkPendingSent
  <2>1. /\ op.at = "accepted" /\ op.tx \in Entry /\ SetSent(op.tx.id, op.tx.hash)
        /\ op' = Idle /\ MovePendingToInmempool(op.tx)
        /\ UNCHANGED <<audit, moved, chain, pool, stray>>
    BY <1>4, MarkPendingSentEffect
  <2>2. PICK e \in Entry : e = op.tx
    BY <2>1
  <2>3. \A g \in Held' : g \in Held \/ g = e
    <3>1. Pending' \subseteq Pending /\ InMempool' \subseteq InMempool \cup {e} /\ InFlight' = {}
      BY <2>1, <2>2, MoveMembers, SameMembers
    <3> QED
      BY <3>1, HeldPositionsAfter DEF Held
  <2> QED
    BY <1>1, <2>1, <2>2, <2>3 DEF Idle
<1>5. CASE AdoptLanded
  <2>1. /\ op.at = "conflict" /\ op.tx \in Entry /\ op' = Idle
        /\ UNCHANGED <<audit, moved, chain, pool, stray>>
    BY <1>5, AdoptLandedEffect
  <2>2. PICK e \in Entry :
          /\ SameLinks(e, op.tx) /\ e.payload = op.tx.payload
          /\ \/ SetSent(e.id, e.hash) /\ MovePendingToInmempool(e)
             \/ UNCHANGED <<db, pendq, inq>>
    BY <1>5, AdoptLandedEffect
  <2>3. CASE SetSent(e.id, e.hash) /\ MovePendingToInmempool(e)
    <3>1. Pending' \subseteq Pending /\ InMempool' \subseteq InMempool \cup {e} /\ InFlight' = {}
      BY <2>1, <2>3, MoveMembers, SameMembers
    <3>2. \A g \in Held' : g \in Held \/ g = e
      BY <3>1, HeldPositionsAfter DEF Held
    <3> QED
      BY <1>1, <2>1, <2>2, <2>3, <3>2 DEF SameLinks, Idle
  <2>4. CASE UNCHANGED <<db, pendq, inq>>
    <3>1. Held' \subseteq Held
      BY <2>1, <2>4, SameMembers, HeldPositionsAfter DEF Held
    <3>2. \A g \in Held' : Owns(g.id, g.payload)
      BY <3>1 DEF Owns
    <3>3. FlightNumbered'
      BY <2>1 DEF FlightNumbered, Idle
    <3> QED
      BY <2>1, <2>4, <3>2, <3>3, NodeKept, QuietAttempts
  <2> QED
    BY <2>2, <2>3, <2>4
<1>6. CASE MarkBumpSent
  <2>1. /\ op.at = "accepted" /\ op.tx \in Entry /\ SetSent(op.tx.id, op.tx.hash) /\ op' = Idle
        /\ inq' = [inq EXCEPT ![1] = WithTx(inq[1], op.tx)]
        /\ UNCHANGED <<audit, pendq, moved, chain, pool, stray>>
    BY <1>6, MarkBumpSentEffect
  <2>2. PICK e \in Entry : e = op.tx
    BY <2>1
  <2>3. \A g \in Held' : g \in Held \/ g = e
    <3>1. InMempool' \subseteq InMempool \cup {e} /\ Pending' = Pending /\ InFlight' = {}
      BY <2>1, <2>2, FrontRewritten, SameMembers
    <3> QED
      BY <3>1, HeldPositionsAfter DEF Held
  <2> QED
    BY <1>1, <2>1, <2>2, <2>3 DEF Idle
<1>7. CASE MarkRivalSent
  <2>1. /\ op.at = "accepted" /\ op.tx \in Entry /\ SetSent(op.tx.id, op.tx.hash)
        /\ op'.at = "linking" /\ op'.tx = op.tx
        /\ UNCHANGED <<audit, pendq, inq, moved, chain, pool, stray>>
    BY <1>7, MarkRivalSentEffect DEF queueVars
  <2>2. PICK e \in Entry : e = op.tx
    BY <2>1
  <2>3. \A g \in Held' : g \in Held \/ g = e
    <3>1. InFlight' = InFlight /\ Pending' = Pending /\ InMempool' = InMempool
      BY <2>1, SameMembers DEF InFlight
    <3> QED
      BY <3>1, HeldPositionsAfter DEF Held
  <2> QED
    BY <1>1, <2>1, <2>2, <2>3
<1>8. CASE LinkRival
  <2>1. /\ op.at = "linking" /\ op.tx \in Entry /\ op' = Idle
        /\ UNCHANGED <<audit, pendq, moved, chain, pool, stray>>
    BY <1>8, LinkRivalEffect
  <2>2. PICK i \in DOMAIN inq, o \in Entry, c \in Contest :
          /\ o.id = inq[i].orig.id /\ o.nonce = inq[i].orig.nonce
          /\ o.payload = inq[i].orig.payload
          /\ SaveTransaction(o, "INMEMPOOL") /\ Sides(c) = {o, op.tx}
          /\ inq' = IF i = 1 THEN [inq EXCEPT ![1] = c] ELSE inq
    BY <1>8, LinkRivalEffect
  <2>3. PICK f \in Held : f = inq[i].orig
    <3>1. inq[i] \in Contest
      BY DEF TypeOK
    <3> QED
      BY <3>1, SidesType, HeldPositions DEF Held
  <2>4. \A g \in Held' : g \in Held \/ g = o
    <3>1. InMempool' \subseteq InMempool \cup {o, op.tx}
      BY <2>2, FrontMembers, SameMembers
    <3>2. Pending' = Pending /\ InFlight' = {} /\ op.tx \in Held
      BY <1>0, <2>1, SameMembers
    <3> QED
      BY <3>1, <3>2, HeldPositionsAfter DEF Held
  <2> QED
    BY <1>2, <2>1, <2>2, <2>3, <2>4
<1>9. CASE CloseOut
  <2>1. /\ op.at = "rejected" /\ op' = Idle
        /\ UNCHANGED <<audit, inq, moved, chain, pool, stray>>
    BY <1>9, CloseOutEffect
  <2>2. PICK e \in Entry : /\ SameLinks(e, op.tx) /\ e.payload = Noop
                           /\ SaveTransaction(e, "PENDING") /\ pendq' = Updated(pendq, e)
    BY <1>9, CloseOutEffect
  <2>3. PICK f \in Held : f = op.tx
    BY <1>0, <2>1
  <2>4. \A g \in Held' : g \in Held \/ g = e
    BY <2>1, <2>2, PendingMembers, SameMembers, HeldPositionsAfter DEF Held
  <2> QED
    BY <1>2, <2>1, <2>2, <2>3, <2>4 DEF SameLinks
<1>10. ASSUME NEW n \in Nat, NEW t \in TxId,
              db'[t].status = db[t].status, db'[t].tx = AtNonce(db[t].tx, n),
              \A u \in TxId : u # t => db'[u] = db[u],
              t \in moved' \/ \A i \in DOMAIN audit[t] : Dead(audit[t][i]),
              UNCHANGED <<audit, chain, pool, stray>>, moved \subseteq moved', op' = Idle,
              \A g \in Held' : \E h \in Held : g.id = h.id /\ g.payload = h.payload
       PROVE  NodePlaced' /\ Attempted'
  <2>1. db'[t].tx.payload = db[t].tx.payload
    BY <1>10, RowTx, AtNonceType
  <2>2. \A u \in TxId : /\ Takes(u, db'[u].tx.payload, Noop, Noop)
                        /\ db'[u].status = "absent" => db[u].status = "absent"
                        /\ \/ db'[u].tx.nonce = db[u].tx.nonce
                           \/ u \in moved'
                           \/ \A i \in DOMAIN audit[u] : Dead(audit[u][i])
    BY <1>10, <2>1, HeldTakes
  <2>3. \A g \in Held' : Takes(g.id, g.payload, Noop, Noop)
    BY <1>10, HeldTakes
  <2>4. FlightNumbered'
    BY <1>10 DEF FlightNumbered, Idle
  <2> QED
    BY <1>10, <2>2, <2>3, <2>4, NodeKept, UnsentAttempts
<1>11. CASE ReassignPending
  <2>1. /\ op.at = "conflict" /\ op' = Idle
        /\ \A i \in DOMAIN audit[op.tx.id] : ~Exists(audit[op.tx.id][i])
        /\ UNCHANGED <<audit, inq, moved, chain, pool, stray>>
    BY <1>11, ReassignPendingEffect
  <2>2. PICK n \in Nat :
          /\ db'[op.tx.id].status = db[op.tx.id].status
          /\ db'[op.tx.id].tx = AtNonce(db[op.tx.id].tx, n)
          /\ \A u \in TxId : u # op.tx.id => db'[u] = db[u]
          /\ \A e \in Pending' : \E f \in Pending :
               e = IF f.id = op.tx.id THEN AtNonce(f, n) ELSE f
    BY <1>11, ReassignPendingEffect
  <2>3. PICK t \in TxId : t = op.tx.id
    BY <1>0, <2>1
  <2>4. db[t].tx.nonce < Len(chain)
    BY <1>0, <2>1, <2>3 DEF Attempted, FlightNumbered
  <2>5. t \in moved' \/ \A i \in DOMAIN audit[t] : Dead(audit[t][i])
    BY <2>1, <2>3, <2>4 DEF Attempted, OneNonce, Dead, Exists
  <2>6. \A g \in Held' : \E h \in Held : g.id = h.id /\ g.payload = h.payload
    <3>1. \A g \in Pending' : \E h \in Held : g.id = h.id /\ g.payload = h.payload
      BY <2>2, HeldType, AtNonceType DEF Held
    <3>2. InMempool' = InMempool /\ InFlight' = {}
      BY <2>1, SameMembers
    <3> QED
      BY <3>1, <3>2, HeldPositionsAfter DEF Held
  <2> QED
    BY <1>10, <2>1, <2>2, <2>3, <2>5, <2>6
<1>12. CASE ReassignInmempool
  <2>1. /\ op.at = "conflict" /\ op.tx \in Entry /\ op' = Idle
        /\ moved' = moved \cup {op.tx.id}
        /\ UNCHANGED <<audit, pendq, chain, pool, stray>>
        /\ op.kind = "bump"
    BY <1>12, ReassignInmempoolEffect
  <2>2. PICK n \in Nat :
          /\ db'[op.tx.id].status = db[op.tx.id].status
          /\ db'[op.tx.id].tx = AtNonce(db[op.tx.id].tx, n)
          /\ \A u \in TxId : u # op.tx.id => db'[u] = db[u]
          /\ inq' = [inq EXCEPT ![1] = WithTx(inq[1], AtNonce(Active(inq[1]), n))]
    BY <1>12, ReassignInmempoolEffect
  <2>3. PICK t \in TxId : t = op.tx.id
    BY <1>0, <2>1
  <2>4. inq # <<>>
    BY <2>1 DEF Placed, FlightPlaced
  <2>5. PICK a \in Entry : a = Active(inq[1]) /\ a \in Held
    BY <2>4, FrontOfInmempool DEF Held
  <2>6. PICK e \in Entry : e = AtNonce(a, n) /\ e.id = a.id /\ e.payload = a.payload
    BY AtNonceType
  <2>7. \A g \in Held' : g \in Held \/ g = e
    <3>1. InMempool' \subseteq InMempool \cup {e} /\ Pending' = Pending /\ InFlight' = {}
      BY <2>1, <2>2, <2>5, <2>6, FrontRewritten, SameMembers
    <3> QED
      BY <3>1, HeldPositionsAfter DEF Held
  <2>8. \A g \in Held' : \E h \in Held : g.id = h.id /\ g.payload = h.payload
    BY <2>5, <2>6, <2>7
  <2> QED
    BY <1>10, <2>1, <2>2, <2>3, <2>8
<1>13. CASE ConflictMined \/ StepFails
  <2>1. op' = Idle /\ UNCHANGED <<db, audit, pendq, inq, moved, chain, pool, stray>>
    BY <1>13, StopEffect DEF rowVars, queueVars
  <2>2. Held' \subseteq Held
    BY <2>1, SameMembers, HeldPositionsAfter DEF Held
  <2>3. \A e \in Held' : Owns(e.id, e.payload)
    BY <2>2 DEF Owns
  <2>4. FlightNumbered'
    BY <2>1 DEF FlightNumbered, Idle
  <2> QED
    BY <2>1, <2>3, <2>4, NodeKept, QuietAttempts
<1>14. CASE SettleLoser
  <2>1. /\ op.at = "settling" /\ op' = Idle
        /\ UNCHANGED <<audit, pendq, inq, moved, chain, pool, stray>>
    BY <1>14, SettleLoserEffect DEF queueVars
  <2>2. PICK s \in {"CANCELLED", "REPLACED"} : SaveTransaction(op.tx, s)
    BY <1>14, SettleLoserEffect
  <2>3. PICK e \in Held : e = op.tx
    BY <1>0, <2>1
  <2>4. \A g \in Held' : g \in Held \/ g = e
    BY <2>1, SameMembers, HeldPositionsAfter DEF Held
  <2> QED
    BY <1>0, <1>2, <2>1, <2>2, <2>3, <2>4
<1> QED
  BY <1>3, <1>4, <1>5, <1>6, <1>7, <1>8, <1>9, <1>11, <1>12, <1>13, <1>14 DEF Continue

\* A crash and the steps of a startup.
LEMMA StartupAttempts ==
  ASSUME TypeOK, RowsRecorded, Placed, NodePlaced, Attempted, Crash \/ Startup \/ Setback
  PROVE  NodePlaced' /\ Attempted'
<1>1. CASE Crash
  <2>1. /\ op' = Idle /\ UNCHANGED <<db, audit, moved, chain, pool, stray>>
        /\ Pending' = {} /\ InMempool' = {} /\ InFlight' = {}
    BY <1>1, CrashEffect DEF rowVars
  <2>2. Held' = {}
    BY <2>1, HeldPositionsAfter DEF Held
  <2>3. FlightNumbered'
    BY <2>1 DEF FlightNumbered, Idle
  <2> QED
    BY <2>1, <2>2, <2>3, NodeKept, QuietAttempts
<1>2. CASE Repairing
  <2>1. /\ UNCHANGED <<audit, pendq, inq, op, moved, chain, pool, stray>>
        /\ \A t \in TxId :
             \/ db'[t] = db[t]
             \/ /\ db'[t].status \in {"INMEMPOOL", "FAILED"}
                /\ SameLinks(db'[t].tx, db[t].tx) /\ db'[t].tx.payload = db[t].tx.payload
    BY <1>2, RepairEffect DEF queueVars
  <2>2. Held' = Held
    BY <2>1, SameMembers, HeldPositionsAfter DEF Held
  <2>3. \A e \in Held' : Owns(e.id, e.payload)
    BY <2>2 DEF Owns
  <2>4. \A u \in TxId : /\ db'[u].tx.payload = db[u].tx.payload
                        /\ db'[u].tx.nonce = db[u].tx.nonce
                        /\ db'[u].status = "absent" => db[u].status = "absent"
    BY <2>1 DEF SameLinks
  <2>5. FlightNumbered'
    BY <2>1 DEF Attempted, FlightNumbered
  <2> QED
    BY <2>1, <2>3, <2>4, <2>5, NodeKept, QuietAttempts
<1>3. CASE LoadQueues
  <2>1. /\ boot = "repaired" /\ UNCHANGED <<db, audit, op, moved, chain, pool, stray>>
        /\ \A e \in Pending' : \E t \in With("PENDING") : e = db[t].tx
        /\ \A e \in InMempool' : \E t \in With("INMEMPOOL") : e = db[t].tx
    BY <1>3, LoadQueuesEffect DEF rowVars
  <2>2. op' = Idle
    BY <2>1 DEF Placed, NothingHeld
  <2>3. \A e \in Held' : \E t \in TxId : e = db[t].tx
    BY <2>1, <2>2, SameMembers, HeldPositionsAfter DEF With
  <2>4. \A e \in Held' : Owns(e.id, e.payload)
    BY <2>3 DEF Owns, RowsRecorded
  <2>5. FlightNumbered'
    BY <2>2 DEF FlightNumbered, Idle
  <2> QED
    BY <2>1, <2>4, <2>5, NodeKept, QuietAttempts
<1> QED
  BY <1>1, <1>2, <1>3 DEF Startup, Repairing

\* The clock, the network, and a step that changes nothing.
LEMMA WorldAttempts ==
  ASSUME TypeOK, NodePlaced, Attempted,
         Network \/ (\E t \in TxId : Expire(t)) \/ UNCHANGED vars
  PROVE  NodePlaced' /\ Attempted'
<1>1. UNCHANGED <<db, audit, pendq, inq, op, moved>>
  BY DEF Network, Expire, vars, rowVars, queueVars
<1>2. NodeTypeOK /\ chain \in Seq(Block)
  BY DEF TypeOK, NodeTypeOK
<1>3. NodePlaced' /\ DeadStays /\ (UNCHANGED chain \/ \E b : chain' = Append(chain, b))
  <2>1. CASE Network
    <3>1. UNCHANGED chain \/ \E b : Include(b)
      BY <2>1 DEF Network, NodeStep, Mine, MineReverted, MineStray, MineExternal, Evict
    <3>2. UNCHANGED chain \/ \E b : chain' = Append(chain, b)
      BY <3>1 DEF Include
    <3> QED
      BY <1>2, <2>1, <3>2, NodeStepPlaced DEF Network
  <2>2. CASE (\E t \in TxId : Expire(t)) \/ UNCHANGED vars
    <3>1. UNCHANGED <<chain, pool, stray>>
      BY <2>2 DEF Expire, vars, nodeVars
    <3> QED
      BY <3>1, NodeKept
  <2> QED
    BY <2>1, <2>2
<1>4. Len(chain') >= Len(chain) /\ Len(chain) \in Nat /\ Len(chain') \in Nat
  BY <1>2, <1>3
<1>5. FlightNumbered'
  <2>1. CASE op.at = "conflict"
    <3>1. op.tx.nonce \in Nat
      BY <2>1, OperationType DEF Entry
    <3> QED
      BY <1>1, <1>4, <2>1, <3>1 DEF Attempted, FlightNumbered
  <2>2. CASE op.at # "conflict"
    BY <1>1, <2>2 DEF Attempted, FlightNumbered
  <2> QED
    BY <2>1, <2>2
<1>6. Held' = Held
  BY <1>1, SameMembers, HeldPositionsAfter DEF Held
<1>7. \A e \in Held' : Owns(e.id, e.payload)
  BY <1>6 DEF Owns
<1> QED
  BY <1>1, <1>3, <1>5, <1>7, QuietAttempts

\* Every step keeps the payloads apart and the attempts of a transaction at one nonce.
LEMMA AttemptsStay ==
  ASSUME TypeOK, RowsRecorded, Placed, NoncesApart, NodePlaced, Attempted, [Next]_vars
  PROVE  NodePlaced' /\ Attempted'
<1>1. ASSUME NEW t \in TxId, Api(t) PROVE NodePlaced' /\ Attempted'
  BY <1>1, ApiAttempts
<1>2. CASE Loops
  BY <1>2, LoopAttempts
<1>3. CASE Continue
  BY <1>3, ContinueAttempts
<1>4. CASE Crash \/ Startup \/ Setback
  BY <1>4, StartupAttempts
<1>5. CASE Network \/ (\E t \in TxId : Expire(t)) \/ UNCHANGED vars
  BY <1>5, WorldAttempts
<1> QED
  BY <1>1, <1>2, <1>3, <1>4, <1>5 DEF Next, Setback

\* Nothing has a payload before the first transaction is admitted.
LEMMA InitAttempts ==
  ASSUME Init
  PROVE  NodePlaced /\ Attempted
<1>1. \A t \in TxId : db[t].tx.payload = Noop /\ audit[t] = <<>>
  BY DEF Init, NoRow, Emptied, NewEntry
<1>2. Held = {} /\ op.at = "idle"
  <2>1. DOMAIN pendq = {} /\ DOMAIN inq = {} /\ op.at = "idle"
    BY DEF Init, Idle
  <2> QED
    BY <2>1 DEF Held, Pending, InMempool, InFlight
<1>3. \A t \in TxId, p \in TxId : ~Owns(t, p)
  BY <1>1, <1>2, NodeAssumption DEF Owns
<1>4. PayloadsOwned
  BY <1>3 DEF PayloadsOwned
<1>5. OneNonce /\ AbsentUnsent /\ FlightNumbered
  BY <1>1, <1>2 DEF OneNonce, AbsentUnsent, FlightNumbered
<1>6. NodePlaced
  BY DEF Init, NodeInit, NodePlaced
<1> QED
  BY <1>4, <1>5, <1>6 DEF Attempted

\* Two blocks with one payload are one block, or a transaction that carried it was moved.
LEMMA OneExecution ==
  ASSUME WriteAhead, NodePlaced, Attempted, TypeOK, NEW p \in TxId,
         \A t \in moved : \A h \in Attempts(t) : h.payload # p,
         NEW i \in DOMAIN chain, chain[i].hash # None, chain[i].hash.payload = p,
         NEW j \in DOMAIN chain, chain[j].hash # None, chain[j].hash.payload = p
  PROVE  i = j
<1>1. PICK h, g : h = chain[i].hash /\ g = chain[j].hash
  OBVIOUS
<1>2. chain[i] \in Receipts /\ chain[j] \in Receipts
  BY DEF Receipts
<1>3. HasReceipt(h) /\ HasReceipt(g)
  BY <1>1, <1>2 DEF HasReceipt
<1>4. PICK t \in TxId, u \in TxId : RecordedFor(t, h) /\ RecordedFor(u, g)
  BY <1>1, <1>2 DEF WriteAhead, RecordedFor
<1>5. Owns(t, p) /\ Owns(u, p)
  BY <1>1, <1>4 DEF Owns, RecordedFor
<1>6. t = u
  BY <1>5 DEF Attempted, PayloadsOwned
<1>7. t \notin moved
  BY <1>1, <1>4 DEF Attempts, RecordedFor
<1>8. h.nonce = db[t].tx.nonce /\ g.nonce = db[t].tx.nonce
  BY <1>3, <1>4, <1>6, <1>7 DEF Attempted, OneNonce, Dead, RecordedFor
<1>9. h.nonce = i - 1 /\ g.nonce = j - 1
  BY <1>1 DEF NodePlaced
<1>10. i \in Nat /\ j \in Nat
  BY DEF TypeOK, NodeTypeOK
<1> QED
  BY <1>8, <1>9, <1>10

\* A payload takes effect at most once: whatever is mined is a recorded attempt, attempts with
\* one payload are of one transaction, and all of them that can still be mined have the nonce
\* of its row, until the in-mempool loop gives it another without having looked for the others.
THEOREM PayloadsOnce == Spec => []AtMostOnceUnlessMoved
<1> DEFINE IInv == /\ TypeOK /\ InFlightRecorded /\ WriteAhead /\ HashesRecorded
                   /\ Placed /\ Links /\ NoncesApart /\ NodePlaced /\ Attempted
<1>1. Init => IInv
  <2>1. Init => WriteAhead
    BY DEF Init, NodeInit, WriteAhead, Receipts
  <2>2. Init => InFlightRecorded
    BY DEF Init, InFlightRecorded, Idle
  <2> QED
    BY <2>1, <2>2, InitType, InitPlaced, InitNonces, InitAttempts
<1>2. IInv /\ [Next]_vars => IInv'
  BY NextType, InFlightStays, WriteAheadStays, HashesStay, PlacedStays, NoncesApartStay,
     AttemptsStay DEF HashesRecorded
<1>3. IInv => AtMostOnceUnlessMoved
  <2> SUFFICES ASSUME IInv, NEW p \in TxId,
                      \A t \in moved : \A h \in Attempts(t) : h.payload # p
               PROVE  Executions(p) <= 1
    BY DEF AtMostOnceUnlessMoved
  <2> DEFINE S == {i \in DOMAIN chain :
                     chain[i].ok /\ chain[i].hash # None /\ chain[i].hash.payload = p}
  <2>1. \A i, j \in S : i = j
    BY OneExecution
  <2>2. Executions(p) = Cardinality(S)
    BY DEF Executions
  <2> HIDE DEF S
  <2>3. CASE S = {}
    BY <2>2, <2>3, FS_EmptySet
  <2>4. CASE S # {}
    <3>1. PICK i \in S : S = {i}
      BY <2>1, <2>4
    <3> QED
      BY <2>2, <3>1, FS_Singleton
  <2> QED
    BY <2>3, <2>4
<1> HIDE DEF IInv
<1> QED
  BY <1>1, <1>2, <1>3, PTL DEF Spec
-----------------------------------------------------------------------------
(***************************************************************************)
(* Exactly one side of a contest wins.                                      *)
(***************************************************************************)
EverSent(t) == db[t].status \notin {"absent", "PENDING"}

Won(t) == db[t].status \in {"MINED", "CONFIRMED"}

\* What the row or memory says of a transaction: the rival it names, the payload it carries.
Names(t, c) ==
  \/ c = db[t].tx.by
  \/ \E e \in Held : e.id = t /\ c = e.by

Has(t, p) ==
  \/ p = db[t].tx.payload
  \/ \E e \in Held : e.id = t /\ p = e.payload

\* Only one of the two can be mined, until the in-mempool loop moves one of them.
OneTurn(t, c) == db[c].tx.nonce = db[t].tx.nonce \/ t \in moved \/ c \in moved

\* A rival that an original names has been sent, as what it was made to be or emptied since.
Rivals(t, c) ==
  /\ EverSent(t) /\ EverSent(c)
  /\ \A p \in TxId : Has(c, p) => p = c
  /\ OneTurn(t, c)

NamedRivals == \A t, c \in TxId : Names(t, c) => Rivals(t, c)

\* What a rival of kind k carries.
Carries(e, k) ==
  /\ k = "cancel" => e.payload = Noop
  /\ k = "replace" => e.payload = e.id \/ (e.payload = Noop /\ e.id \in expired)

ContestsCarry ==
  \A i \in DOMAIN inq : inq[i].comp # None =>
    inq[i].orig.by = inq[i].comp.id /\ Carries(inq[i].comp, inq[i].kind)

\* Transaction t lost, and status s says against what.
Decided(t, s) ==
  \E c \in TxId : /\ Won(c) /\ db[c].tx.ext = t
                  /\ DecidingPayload(c, s) /\ OneTurn(t, c)

LosersDecided ==
  \A t \in TxId : db[t].status \in {"CANCELLED", "REPLACED"} => Decided(t, db[t].status)

\* A bump carries what is polled; a rival in flight competes for its original's nonce; the
\* winner's row is written before the loser's.
FlightCarries ==
  /\ op.kind = "bump" =>
       \/ op.tx.payload = Active(inq[1]).payload
       \/ op.tx.payload = Noop /\ op.tx.id \in expired
  /\ op.kind \in {"cancel", "replace"} /\ op.at # "settling" =>
       /\ Carries(op.tx, op.kind)
       /\ db[op.tx.id].tx.payload = op.tx.payload
       /\ op.tx.ext \in TxId /\ db[op.tx.ext].tx.nonce = op.tx.nonce
  /\ op.at = "settling" =>
       Decided(op.tx.id, IF op.kind = "cancel" THEN "CANCELLED" ELSE "REPLACED")

Contested == NamedRivals /\ ContestsCarry /\ LosersDecided /\ FlightCarries

\* A payload a transaction had, or a name it gave, unless it is written before a first send
\* or as d in the one link to u.
PayloadKept(t, e) == e.payload = Noop \/ Has(t, e.payload) \/ ~EverSent(t)

NameKept(t, e, u, d) == e.by = None \/ Names(t, e.by) \/ (t = u /\ e.by = d)

Kept(t, e) == PayloadKept(t, e) /\ (e.by = None \/ Names(t, e.by))

\* What a step may do to a row.
RowStep(t) ==
  /\ PayloadKept(t, db'[t].tx)
  /\ EverSent(t) => EverSent(t)' /\ (db'[t].tx.nonce = db[t].tx.nonce \/ t \in moved')
  /\ Won(t) => Won(t)' /\ db'[t].tx = db[t].tx
  /\ db'[t].status \in {"CANCELLED", "REPLACED"} =>
       EverSent(t) /\ (db'[t].status = db[t].status \/ Decided(t, db'[t].status))

\* Nothing is forgotten of what was moved or has expired.
TimePasses == moved \subseteq moved' /\ expired \subseteq expired'

\* What memory or the row holds is known.
LEMMA KnownKept ==
  /\ \A e \in Held : Kept(e.id, e)
  /\ \A t \in TxId : Kept(t, db[t].tx)
  BY DEF Kept, PayloadKept, Names, Has

\* A row that is not written.
LEMMA UnwrittenRow ==
  ASSUME NEW t \in TxId, db'[t] = db[t]
  PROVE  RowStep(t) /\ Kept(t, db'[t].tx)
<1>1. Kept(t, db[t].tx)
  BY KnownKept
<1>2. Kept(t, db'[t].tx)
  BY <1>1
<1> QED
  BY <1>2 DEF RowStep, Kept, EverSent, Won

\* The rivals stay what they were, and the ones a step links are as good.
LEMMA RivalsStay ==
  ASSUME NamedRivals, TimePasses, NEW u, NEW d,
         \A t \in TxId : RowStep(t) /\ NameKept(t, db'[t].tx, u, d),
         \A e \in Held' : PayloadKept(e.id, e) /\ NameKept(e.id, e, u, d),
         u \in TxId /\ d \in TxId => Rivals(u, d)'
  PROVE  NamedRivals'
<1> SUFFICES ASSUME NEW t \in TxId, NEW c \in TxId, Names(t, c)', ~(t = u /\ c = d)
             PROVE  Rivals(t, c)'
  BY DEF NamedRivals
<1>1. c # None
  BY NodeAssumption
<1>2. Names(t, c)
  <2>1. CASE c = db'[t].tx.by
    BY <1>1, <2>1 DEF NameKept
  <2>2. CASE \E e \in Held' : e.id = t /\ c = e.by
    BY <1>1, <2>2 DEF NameKept
  <2> QED
    BY <2>1, <2>2 DEF Names
<1>3. Rivals(t, c)
  BY <1>2 DEF NamedRivals
<1>4. EverSent(t)' /\ EverSent(c)'
  BY <1>3 DEF Rivals, RowStep
<1>5. ASSUME NEW p \in TxId, Has(c, p)' PROVE p = c
  <2>1. p # Noop
    BY NodeAssumption
  <2>2. Has(c, p)
    BY <1>3, <1>5, <2>1 DEF Has, RowStep, PayloadKept, Rivals
  <2> QED
    BY <1>3, <2>2 DEF Rivals
<1>6. OneTurn(t, c)'
  <2>1. /\ db'[t].tx.nonce = db[t].tx.nonce \/ t \in moved'
        /\ db'[c].tx.nonce = db[c].tx.nonce \/ c \in moved'
    BY <1>3 DEF Rivals, RowStep
  <2> QED
    BY <1>3, <2>1 DEF Rivals, OneTurn, TimePasses
<1> QED
  BY <1>4, <1>5, <1>6 DEF Rivals

\* What was decided stays decided.
LEMMA DecidedStays ==
  ASSUME TimePasses, \A t \in TxId : RowStep(t),
         NEW t \in TxId, EverSent(t), NEW s, Decided(t, s)
  PROVE  Decided(t, s)'
<1>1. PICK c \in TxId : /\ Won(c) /\ db[c].tx.ext = t
                        /\ DecidingPayload(c, s) /\ OneTurn(t, c)
  BY DEF Decided
<1>2. Won(c)' /\ db'[c].tx = db[c].tx
  BY <1>1 DEF RowStep
<1>3. DecidingPayload(c, s)'
  BY <1>1, <1>2 DEF DecidingPayload, TimePasses
<1>4. OneTurn(t, c)'
  <2>1. db'[t].tx.nonce = db[t].tx.nonce \/ t \in moved'
    BY DEF RowStep
  <2> QED
    BY <1>1, <1>2, <2>1 DEF OneTurn, TimePasses
<1> QED
  BY <1>1, <1>2, <1>3, <1>4 DEF Decided

LEMMA LosersStay ==
  ASSUME LosersDecided, TimePasses, \A t \in TxId : RowStep(t)
  PROVE  LosersDecided'
<1> SUFFICES ASSUME NEW t \in TxId, db'[t].status \in {"CANCELLED", "REPLACED"}
             PROVE  Decided(t, db[t].status)'
  BY DEF LosersDecided
<1>1. PICK s : s = db'[t].status
  OBVIOUS
<1>2. EverSent(t) /\ Decided(t, s)
  BY <1>1 DEF RowStep, LosersDecided
<1>3. Decided(t, s)'
  BY <1>2, DecidedStays
<1> QED
  BY <1>1, <1>3 DEF Decided, DecidingPayload

\* Contests that stay, leave, or have no rival yet.
LEMMA ContestsStay ==
  ASSUME TypeOK, ContestsCarry, TimePasses,
         \/ UNCHANGED inq \/ inq' = <<>>
         \/ inq # <<>> /\ inq' = Tail(inq)
         \/ \E e \in Entry : MovePendingToInmempool(e)
  PROVE  ContestsCarry'
<1>1. inq \in Seq(Contest)
  BY DEF TypeOK
<1>2. \A i \in DOMAIN inq' : inq'[i].comp = None \/ \E j \in DOMAIN inq : inq'[i] = inq[j]
  <2>1. CASE UNCHANGED inq
    BY <2>1
  <2>2. CASE inq' = <<>>
    BY <2>2
  <2>3. CASE inq # <<>> /\ inq' = Tail(inq)
    BY <1>1, <2>3
  <2>4. CASE \E e \in Entry : MovePendingToInmempool(e)
    <3>1. PICK e \in Entry : UNCHANGED inq \/ inq' = Append(inq, Alone(e))
      BY <2>4 DEF MovePendingToInmempool
    <3>2. CASE inq' = Append(inq, Alone(e))
      <4>1. \A i \in DOMAIN inq' : (i \in DOMAIN inq /\ inq'[i] = inq[i]) \/ inq'[i] = Alone(e)
        BY <1>1, <3>2
      <4> QED
        BY <4>1 DEF Alone
    <3> QED
      BY <2>1, <3>1, <3>2
  <2> QED
    BY <2>1, <2>2, <2>3, <2>4
<1> QED
  BY <1>2 DEF ContestsCarry, Carries, TimePasses

\* The step of the whole.
LEMMA ContestedStays ==
  ASSUME Contested, TimePasses,
         \A t \in TxId : RowStep(t) /\ Kept(t, db'[t].tx),
         \A e \in Held' : Kept(e.id, e),
         ContestsCarry', FlightCarries'
  PROVE  Contested'
<1>1. /\ \A t \in TxId : NameKept(t, db'[t].tx, None, None)
      /\ \A e \in Held' : PayloadKept(e.id, e) /\ NameKept(e.id, e, None, None)
  BY DEF Kept, NameKept
<1>2. None \notin TxId
  BY NodeAssumption
<1>3. NamedRivals'
  BY <1>1, <1>2, RivalsStay DEF Contested
<1>4. LosersDecided'
  BY LosersStay DEF Contested
<1> QED
  BY <1>3, <1>4 DEF Contested

\* Nothing is in flight, or what is in flight is a first send.
LEMMA NothingCarried ==
  ASSUME op' = Idle \/ (op'.kind = "pending" /\ op'.at # "settling")
  PROVE  FlightCarries'
  BY DEF FlightCarries, Idle

\* A step that writes nothing.
LEMMA QuietContested ==
  ASSUME Contested, UNCHANGED <<db, moved>>, expired \subseteq expired',
         \A e \in Held' : e \in Held \/ \E t \in TxId : e = db[t].tx /\ e.id = t,
         ContestsCarry', FlightCarries'
  PROVE  Contested'
<1>1. \A t \in TxId : RowStep(t) /\ Kept(t, db'[t].tx)
  BY UnwrittenRow
<1>2. \A e \in Held' : Kept(e.id, e)
  BY KnownKept
<1>3. TimePasses
  BY DEF TimePasses
<1> QED
  BY <1>1, <1>2, <1>3, ContestedStays

\* A row saved with what is known of its transaction.
LEMMA SavedRow ==
  ASSUME TypeOK, NEW e \in Entry, NEW s, SaveTransaction(e, s), s \notin {"absent", "CANCELLED", "REPLACED"},
         ~Won(e.id), Kept(e.id, e),
         EverSent(e.id) => s # "PENDING" /\ e.nonce = db[e.id].tx.nonce
  PROVE  \A t \in TxId : RowStep(t) /\ Kept(t, db'[t].tx)
<1>1. /\ e.id \in TxId /\ db'[e.id] = [status |-> s, tx |-> e]
      /\ \A t \in TxId : t # e.id => db'[t] = db[t]
  BY SaveTransactionRows
<1>2. db'[e.id].status = s /\ db'[e.id].tx = e
  BY <1>1
<1>3. RowStep(e.id) /\ Kept(e.id, db'[e.id].tx)
  BY <1>2 DEF RowStep, Kept, EverSent
<1> QED
  BY <1>1, <1>3, UnwrittenRow

\* A row whose status and hash are written.
LEMMA SentRow ==
  ASSUME TypeOK, NEW t \in TxId, NEW h, SetSent(t, h), ~Won(t)
  PROVE  \A u \in TxId : RowStep(u) /\ Kept(u, db'[u].tx)
<1>1. /\ db'[t].status = "INMEMPOOL" /\ db'[t].tx.nonce = db[t].tx.nonce
      /\ db'[t].tx.payload = db[t].tx.payload /\ db'[t].tx.by = db[t].tx.by
      /\ \A u \in TxId : u # t => db'[u] = db[u]
  BY SetSentRows
<1>2. Kept(t, db'[t].tx)
  BY <1>1 DEF Kept, PayloadKept, Names, Has
<1>3. RowStep(t)
  BY <1>1, <1>2 DEF RowStep, Kept, EverSent
<1> QED
  BY <1>1, <1>2, <1>3, UnwrittenRow

\* A send of an entry with what is known of its transaction.
LEMMA SendContested ==
  ASSUME TypeOK, Contested, op = Idle,
         NEW e \in Entry, NEW f \in Entry, NEW s \in {"PENDING", "INMEMPOOL"}, NEW k, Sends(e, s, k, f),
         ~Won(e.id), Kept(e.id, e),
         EverSent(e.id) => s # "PENDING" /\ e.nonce = db[e.id].tx.nonce,
         FlightCarries'
  PROVE  Contested'
<1>1. /\ e.id \in TxId /\ f.id = e.id /\ f.nonce = e.nonce /\ f.by = e.by
      /\ f.payload \in {Noop, e.payload}
  BY DEF Sends, SignedCopy, Entry
<1>2. /\ db'[e.id].status = s /\ db'[e.id].tx.nonce = e.nonce
      /\ db'[e.id].tx.payload = f.payload /\ db'[e.id].tx.by = f.by
      /\ op'.at = "persisted" /\ op'.tx = f
      /\ \A t \in TxId : t # e.id => db'[t] = db[t]
      /\ UNCHANGED <<pendq, inq, moved, expired>>
  BY <1>1 DEF Sends, SameButFailed
<1>3. Kept(e.id, f) /\ Kept(e.id, db'[e.id].tx)
  BY <1>1, <1>2 DEF Kept, PayloadKept
<1>4. RowStep(e.id)
  BY <1>2, <1>3 DEF RowStep, Kept, EverSent
<1>5. \A t \in TxId : RowStep(t) /\ Kept(t, db'[t].tx)
  BY <1>2, <1>3, <1>4, UnwrittenRow
<1>6. \A g \in Held' : g \in Held \/ g = f
  BY <1>2, SameMembers, HeldPositionsAfter DEF Held
<1>7. \A g \in Held' : Kept(g.id, g)
  BY <1>1, <1>3, <1>6, KnownKept
<1>8. TimePasses /\ ContestsCarry'
  BY <1>2, ContestsStay DEF TimePasses, Contested
<1> QED
  BY <1>5, <1>7, <1>8, ContestedStays

\* Where memory has a transaction says how far it has come.
LEMMA HeldRows ==
  ASSUME TypeOK, Placed, NoncesApart
  PROVE  /\ \A e \in Held : /\ e \in Entry /\ e.id \in TxId
                            /\ e.nonce = db[e.id].tx.nonce /\ Kept(e.id, e)
         /\ \A e \in Pending : e \in Held /\ ~EverSent(e.id) /\ ~Won(e.id)
         /\ \A e \in InMempool : e \in Held /\ EverSent(e.id) /\ ~Won(e.id)
         /\ op.at # "idle" => op.tx \in Held /\ op.tx.id \in TxId
<1>1. \A e \in Held : e \in Entry /\ e.id \in TxId /\ e.nonce = db[e.id].tx.nonce /\ Kept(e.id, e)
  BY HeldType, KnownKept DEF NoncesApart, RowNonces
<1>2. /\ \A e \in Pending : e \in Held /\ ~EverSent(e.id) /\ ~Won(e.id)
      /\ \A e \in InMempool : e \in Held /\ EverSent(e.id) /\ ~Won(e.id)
  BY DEF Placed, QueuesPlaced, StatusPlaced, EverSent, Won, Held
<1>3. op.at # "idle" => op.tx \in Held /\ op.tx.id \in TxId
  BY <1>1 DEF Held, InFlight
<1> QED
  BY <1>1, <1>2, <1>3

\* The API writes rows that were never sent, and sends rivals of the original's nonce.
LEMMA ApiContested ==
  ASSUME TypeOK, Placed, NoncesApart, Contested, NEW t \in TxId, Api(t)
  PROVE  Contested'
<1>1. ASSUME NEW e \in Entry, NEW s \in {"PENDING", "FAILED"}, SaveTransaction(e, s),
             e.by = None \/ Names(e.id, e.by), ~EverSent(e.id), op' = Idle,
             UNCHANGED <<inq, moved, expired>>, \A g \in Held' : g \in Held \/ g = e
      PROVE  Contested'
  <2>1. Kept(e.id, e) /\ ~Won(e.id)
    BY <1>1 DEF Kept, PayloadKept, Won, EverSent
  <2>2. \A u \in TxId : RowStep(u) /\ Kept(u, db'[u].tx)
    BY <1>1, <2>1, SavedRow
  <2>3. \A g \in Held' : Kept(g.id, g)
    BY <1>1, <2>1, KnownKept
  <2>4. TimePasses /\ ContestsCarry' /\ FlightCarries'
    BY <1>1, ContestsStay, NothingCarried DEF TimePasses, Contested
  <2> QED
    BY <2>2, <2>3, <2>4, ContestedStays
<1>2. CASE Admit(t)
  <2>1. PICK e \in Entry :
          /\ e = NewEntry(t, e.nonce) /\ SaveTransaction(e, "PENDING")
          /\ pendq' = InsertByNonce(pendq, e)
    BY <1>2, AdmitEffect
  <2>2. /\ db[t].status = "absent" /\ op = Idle
        /\ UNCHANGED <<inq, op, moved, expired>>
    BY <1>2, AdmitEffect
  <2>3. e.id = t /\ e.by = None /\ ~EverSent(t)
    BY <2>1, <2>2 DEF NewEntry, EverSent
  <2>4. \A g \in Held' : g \in Held \/ g = e
    BY <2>1, <2>2, PendingMembers, SameMembers, HeldPositionsAfter DEF Held
  <2> QED
    BY <1>1, <2>1, <2>2, <2>3, <2>4
<1>3. CASE AdmitUnestimable(t)
  <2>1. PICK e \in Entry :
          e = [NewEntry(t, e.nonce) EXCEPT !.failed = TRUE] /\ SaveTransaction(e, "FAILED")
    BY <1>3, AdmitUnestimableEffect
  <2>2. /\ db[t].status = "absent" /\ op = Idle
        /\ UNCHANGED <<pendq, inq, op, moved, expired>>
    BY <1>3, AdmitUnestimableEffect
  <2>3. e.id = t /\ e.by = None /\ ~EverSent(t)
    BY <2>1, <2>2 DEF NewEntry, EverSent
  <2>4. \A g \in Held' : g \in Held \/ g = e
    BY <2>2, SameMembers, HeldPositionsAfter DEF Held
  <2> QED
    BY <1>1, <2>1, <2>2, <2>3, <2>4
<1>4. CASE AdmitUnsaved(t)
  <2>1. op = Idle /\ UNCHANGED <<db, pendq, inq, op, moved, expired>>
    BY <1>4, AdmitUnsavedEffect DEF rowVars
  <2>2. Held' = Held
    BY <2>1, SameMembers, HeldPositionsAfter DEF Held
  <2>3. TimePasses /\ ContestsCarry' /\ FlightCarries'
    BY <2>1, ContestsStay, NothingCarried DEF TimePasses, Contested
  <2> QED
    BY <2>1, <2>2, <2>3, QuietContested DEF TimePasses
<1>5. CASE CancelPending(t) \/ ReplacePending(t)
  <2>1. PICK i \in DOMAIN pendq, e \in Entry :
          /\ SameLinks(e, pendq[i])
          /\ SaveTransaction(e, "PENDING") /\ pendq' = Updated(pendq, e)
    BY <1>5, EditEffect
  <2>2. op = Idle /\ UNCHANGED <<inq, op, moved, expired>>
    BY <1>5, EditEffect
  <2>3. PICK f \in Pending : f = pendq[i]
    BY DEF Pending
  <2>4. (e.by = None \/ Names(e.id, e.by)) /\ ~EverSent(e.id)
    BY <2>1, <2>3, HeldRows DEF SameLinks, Names
  <2>5. \A g \in Held' : g \in Held \/ g = e
    BY <2>1, <2>2, PendingMembers, SameMembers, HeldPositionsAfter DEF Held
  <2> QED
    BY <1>1, <2>1, <2>2, <2>4, <2>5
<1>6. ASSUME NEW k \in {"cancel", "replace"}, SendRival(t, k)
      PROVE  Contested'
  <2>1. PICK c \in Rival, i \in DOMAIN inq, e \in Entry, f \in Entry :
          /\ Fresh(c) /\ inq[i].orig.id = t
          /\ RivalOf(e, c, inq[i].orig, k) /\ Sends(e, "PENDING", k, f)
    BY <1>6, SendRivalCopies
  <2>2. op = Idle /\ t \in User
    BY <1>6, SendRivalCopies
  <2>3. PICK o \in Held : o = inq[i].orig
    <3>1. inq[i] \in Contest
      BY DEF TypeOK
    <3> QED
      BY <3>1, SidesType, HeldPositions DEF Held
  <2>4. /\ e.id = c /\ c \in TxId /\ c # t /\ e.by = None /\ e.ext = t /\ e.nonce = o.nonce
        /\ e.payload = IF k = "cancel" THEN Noop ELSE c
        /\ ~EverSent(c) /\ ~Won(c) /\ o.id = t
    BY <2>1, <2>2, <2>3 DEF RivalOf, Fresh, Rival, EverSent, Won
  <2>5. Kept(e.id, e)
    BY <2>4 DEF Kept, PayloadKept
  <2>6. FlightCarries'
    <3>1. /\ op' = [at |-> "persisted", kind |-> k, tx |-> f]
          /\ SignedCopy(e, f) /\ db'[c].tx.payload = f.payload
          /\ db'[t] = db[t] /\ UNCHANGED expired
      BY <2>1, <2>4 DEF Sends, SameButFailed
    <3>2. /\ f.id = c /\ f.ext = t /\ f.nonce = o.nonce
          /\ f.payload = IF c \in expired THEN Noop ELSE e.payload
      BY <2>4, <3>1 DEF SignedCopy
    <3>3. Carries(f, k)'
      BY <2>4, <3>1, <3>2 DEF Carries
    <3>4. db'[t].tx.nonce = f.nonce
      BY <2>4, <3>1, <3>2, HeldRows
    <3>5. op'.at = "persisted" /\ op'.kind = k /\ op'.tx = f /\ k # "bump"
      BY <3>1
    <3> QED
      BY <3>1, <3>2, <3>3, <3>4, <3>5 DEF FlightCarries, Carries
  <2> QED
    BY <2>1, <2>2, <2>4, <2>5, <2>6, SendContested
<1> QED
  BY <1>2, <1>3, <1>4, <1>5, <1>6 DEF Api, CancelInmempool, ReplaceInmempool

\* What the pending loop has in flight was not sent before, or never answered for.
LEMMA PendingFlight ==
  ASSUME TypeOK, Placed, op.at # "idle", op.kind = "pending"
  PROVE  ~EverSent(op.tx.id) /\ ~Won(op.tx.id)
<1>1. pendq # <<>> /\ pendq[1].id = op.tx.id
  BY DEF Placed, FlightPlaced
<1>2. pendq[1] \in Pending
  BY <1>1 DEF Pending, TypeOK
<1> QED
  BY <1>1, <1>2 DEF Placed, QueuesPlaced, StatusPlaced, EverSent, Won

\* The winner of a contest is MINED before anything says so of the loser.
LEMMA ReceiptContested ==
  ASSUME TypeOK, RowsRecorded, Placed, Links, NoncesApart, Contested, ResolveReceipt
  PROVE  Contested'
<1>1. /\ op = Idle /\ inq # <<>> /\ inq' = Tail(inq)
      /\ UNCHANGED <<audit, pendq, moved, expired>>
  BY ResolveReceiptEffect
<1>2. PICK a \in Entry, x \in Entry, s \in {"MINED", "FAILED", "EXPIRED"} :
        /\ a = Active(Head(inq)) /\ WinnerRow(x, a, s) /\ SaveTransaction(x, s)
        /\ IF s = "MINED" /\ Head(inq).comp # None
           THEN /\ op'.at = "settling" /\ op'.kind = Head(inq).kind
                /\ op'.tx = Loser(Head(inq))
           ELSE op' = Idle
  BY ResolveReceiptEffect
<1>3. PICK c \in Contest : c = Head(inq) /\ c = inq[1] /\ Sides(c) \subseteq InMempool
  BY <1>1, FrontOfInmempool
<1>4. /\ a \in InMempool /\ a \in Held /\ a.id \in TxId /\ EverSent(a.id) /\ ~Won(a.id)
      /\ c.orig \in InMempool /\ c.orig \in Held /\ c.orig.id \in TxId /\ EverSent(c.orig.id)
      /\ a.nonce = db[a.id].tx.nonce /\ db[a.id].tx.id = a.id
  BY <1>2, <1>3, SidesType, HeldRows DEF RowsRecorded
<1>5. x.id = a.id /\ Kept(x.id, x) /\ x.nonce = db[x.id].tx.nonce
  <2>1. /\ x.id = a.id /\ x.by = db[a.id].tx.by /\ x.nonce = db[a.id].tx.nonce
        /\ x.payload = a.payload \/ x.payload = db[a.id].tx.payload
    BY <1>2, <1>4 DEF WinnerRow
  <2> QED
    BY <1>4, <2>1 DEF Kept, PayloadKept, Names, Has
<1>6. \A t \in TxId : RowStep(t) /\ Kept(t, db'[t].tx)
  BY <1>2, <1>4, <1>5, SavedRow
<1>7. ContestsCarry' /\ TimePasses
  BY <1>1, ContestsStay DEF Contested, TimePasses
<1>8. CASE s = "MINED" /\ c.comp # None
  <2>1. /\ op'.at = "settling" /\ op'.kind = c.kind /\ op'.tx = Loser(c)
        /\ c.kind \in {"cancel", "replace"} /\ a = c.comp
    BY <1>2, <1>3, <1>8, LoserIs, SidesType
  <2>2. /\ c.orig.by = c.comp.id /\ Carries(c.comp, c.kind)
        /\ c.comp.ext = c.orig.id /\ c.comp.id # c.orig.id
    <3>1. 1 \in DOMAIN inq
      BY <1>1, FrontOfInmempool
    <3> QED
      BY <1>3, <1>8, <3>1 DEF Contested, ContestsCarry, Placed, QueuesPlaced, ContestsLinked
  <2>3. PICK l \in Entry : /\ l = Loser(c) /\ l.id = c.orig.id
                           /\ l.payload \in {c.orig.payload, Noop} /\ l.by = c.orig.by
    BY <1>8, <2>2, LoserIs
  <2>4. \A g \in Held' : Kept(g.id, g)
    <3>1. \A g \in Held' : g \in Held \/ g = l
      <4>1. InFlight' = {l}
        BY <2>1, <2>3 DEF InFlight
      <4>2. InMempool' \subseteq InMempool /\ Pending' = Pending
        BY <1>1, TailMembers, SameMembers
      <4> QED
        BY <4>1, <4>2, HeldPositionsAfter DEF Held
    <3>2. Kept(l.id, l)
      BY <1>4, <2>3, KnownKept DEF Kept, PayloadKept
    <3> QED
      BY <3>1, <3>2, KnownKept
  <2>5. db'[a.id].status = "MINED" /\ db'[a.id].tx = x /\ x.payload = a.payload
    <3>1. db'[x.id] = [status |-> s, tx |-> x]
      BY <1>2, SaveTransactionRows
    <3> QED
      BY <1>2, <1>5, <1>8, <3>1 DEF WinnerRow
  <2>6. x.ext = c.orig.id
    BY <1>2, <1>4, <2>1, <2>2 DEF WinnerRow, Links, HeldLinked
  <2>7. OneTurn(c.orig.id, a.id)
    <3>1. Names(c.orig.id, a.id)
      BY <1>4, <2>1, <2>2 DEF Names
    <3> QED
      BY <1>4, <3>1 DEF Contested, NamedRivals, Rivals
  <2>8. PICK t \in TxId, w \in TxId : t = c.orig.id /\ w = a.id
    BY <1>4
  <2>9. OneTurn(t, w)'
    <3>1. db'[t] = db[t]
      BY <1>2, <1>5, <2>1, <2>2, <2>8, SaveTransactionRows
    <3> QED
      BY <1>1, <1>5, <2>5, <2>7, <2>8, <3>1 DEF OneTurn
  <2>10. DecidingPayload(w, IF c.kind = "cancel" THEN "CANCELLED" ELSE "REPLACED")'
    BY <1>1, <2>1, <2>2, <2>5, <2>8 DEF DecidingPayload, Carries
  <2>11. Decided(t, IF c.kind = "cancel" THEN "CANCELLED" ELSE "REPLACED")'
    BY <2>5, <2>6, <2>8, <2>9, <2>10 DEF Decided, Won
  <2>12. FlightCarries'
    BY <2>1, <2>3, <2>8, <2>11 DEF FlightCarries, Decided, DecidingPayload
  <2> QED
    BY <1>6, <1>7, <2>4, <2>12, ContestedStays
<1>9. CASE ~(s = "MINED" /\ c.comp # None)
  <2>1. op' = Idle
    BY <1>2, <1>3, <1>9
  <2>2. \A g \in Held' : g \in Held
    BY <1>1, <2>1, TailMembers, SameMembers, HeldPositionsAfter DEF Held
  <2> QED
    BY <1>6, <1>7, <2>1, <2>2, KnownKept, NothingCarried, ContestedStays
<1> QED
  BY <1>8, <1>9

\* The loops send what memory holds, and confirm what is MINED.
LEMMA LoopContested ==
  ASSUME TypeOK, RowsRecorded, Placed, Links, NoncesApart, Contested, Loops
  PROVE  Contested'
<1>1. CASE SendPending
  <2>1. /\ Head(pendq) \in Pending /\ op = Idle
        /\ \E f \in Entry : Sends(Head(pendq), "PENDING", "pending", f)
    BY <1>1, SendPendingSends
  <2>2. PICK e \in Pending : e = Head(pendq)
    BY <2>1
  <2>3. PICK f \in Entry : Sends(e, "PENDING", "pending", f)
    BY <2>1, <2>2
  <2>4. e \in Entry /\ ~EverSent(e.id) /\ ~Won(e.id) /\ Kept(e.id, e)
    BY HeldRows
  <2>5. FlightCarries'
    BY <2>3, NothingCarried DEF Sends
  <2> QED
    BY <2>1, <2>3, <2>4, <2>5, SendContested
<1>2. CASE BumpGas
  <2>1. /\ inq # <<>> /\ op = Idle
        /\ \E f \in Entry : Sends(Active(Head(inq)), "INMEMPOOL", "bump", f)
    BY <1>2, BumpGasSends
  <2>2. PICK e \in InMempool : e = Active(Head(inq)) /\ Head(inq) = inq[1]
    BY <2>1, FrontOfInmempool
  <2>3. PICK f \in Entry : Sends(e, "INMEMPOOL", "bump", f)
    BY <2>1, <2>2
  <2>4. e \in Entry /\ ~Won(e.id) /\ Kept(e.id, e) /\ e.nonce = db[e.id].tx.nonce
    BY HeldRows
  <2>5. FlightCarries'
    <3>1. /\ op' = [at |-> "persisted", kind |-> "bump", tx |-> f]
          /\ SignedCopy(e, f) /\ UNCHANGED <<inq, expired>>
      BY <2>3 DEF Sends
    <3>2. f.payload = e.payload \/ (f.payload = Noop /\ f.id \in expired)
      BY <3>1 DEF SignedCopy
    <3>3. Active(inq'[1]) = e
      BY <2>2, <3>1
    <3>4. op'.at = "persisted" /\ op'.kind = "bump" /\ op'.tx = f
      BY <3>1
    <3> QED
      BY <3>1, <3>2, <3>3, <3>4 DEF FlightCarries, Active
  <2> QED
    BY <2>1, <2>3, <2>4, <2>5, SendContested
<1>3. CASE EstimateRejects
  <2>1. /\ Head(pendq) \in Pending /\ op'.at = "rejected" /\ op'.kind = "pending"
        /\ op'.tx = Head(pendq)
        /\ UNCHANGED <<db, pendq, inq, moved, expired>>
    BY <1>3, EstimateRejectsEffect DEF rowVars, queueVars
  <2>2. Held' \subseteq Held
    <3>1. InFlight' = {Head(pendq)} /\ Pending' = Pending /\ InMempool' = InMempool
      BY <2>1, SameMembers DEF InFlight
    <3> QED
      BY <2>1, <3>1, HeldPositionsAfter DEF Held
  <2>3. TimePasses /\ ContestsCarry' /\ FlightCarries'
    BY <2>1, ContestsStay, NothingCarried DEF TimePasses, Contested
  <2> QED
    BY <2>1, <2>2, <2>3, QuietContested DEF TimePasses
<1>4. CASE ResolveReceipt
  BY <1>4, ReceiptContested
<1>5. CASE ResolveReceiptUnsaved
  <2>1. /\ op = Idle /\ inq # <<>> /\ inq' = Tail(inq)
        /\ UNCHANGED <<db, pendq, op, moved, expired>>
    BY <1>5, ResolveReceiptUnsavedEffect DEF rowVars
  <2>2. Held' \subseteq Held
    BY <2>1, TailMembers, SameMembers, HeldPositionsAfter DEF Held
  <2>3. TimePasses /\ ContestsCarry' /\ FlightCarries'
    BY <2>1, ContestsStay, NothingCarried DEF TimePasses, Contested
  <2> QED
    BY <2>1, <2>2, <2>3, QuietContested DEF TimePasses
<1>6. ASSUME NEW t \in TxId, Confirm(t) PROVE Contested'
  <2>1. /\ t \in minedq /\ SetStatus(t, "CONFIRMED") /\ op = Idle
        /\ UNCHANGED <<pendq, inq, op, moved, expired>>
    BY <1>6 DEF Confirm, Ready
  <2>2. /\ db'[t].status = "CONFIRMED" /\ db'[t].tx = db[t].tx
        /\ \A u \in TxId : u # t => db'[u] = db[u]
    BY <2>1, SetStatusRows
  <2>3. Held' = Held
    BY <2>1, SameMembers, HeldPositionsAfter DEF Held
  <2>4. RowStep(t) /\ Kept(t, db'[t].tx)
    BY <2>2, KnownKept DEF RowStep, Kept, EverSent, Won
  <2>5. TimePasses /\ ContestsCarry' /\ FlightCarries'
    BY <2>1, ContestsStay, NothingCarried DEF TimePasses, Contested
  <2>6. \A u \in TxId : RowStep(u) /\ Kept(u, db'[u].tx)
    BY <2>2, <2>4, UnwrittenRow
  <2>7. \A e \in Held' : Kept(e.id, e)
    BY <2>3, KnownKept
  <2> QED
    BY <2>5, <2>6, <2>7, ContestedStays
<1> QED
  BY <1>1, <1>2, <1>3, <1>4, <1>5, <1>6 DEF Loops

\* An original names the rival that was sent for its nonce, and has not been decided yet.
LEMMA LinkContested ==
  ASSUME TypeOK, RowsRecorded, Placed, Links, NoncesApart, Contested, LinkRival
  PROVE  Contested'
<1>1. /\ op.at = "linking" /\ op.kind \in {"cancel", "replace"} /\ op.tx \in Entry /\ op' = Idle
      /\ UNCHANGED <<pendq, moved, expired>>
  BY LinkRivalEffect
<1>2. PICK i \in DOMAIN inq, o \in Entry, c \in Contest :
        /\ inq[i].orig.id = op.tx.ext
        /\ o.id = inq[i].orig.id /\ o.nonce = inq[i].orig.nonce
        /\ o.payload = inq[i].orig.payload /\ o.by = op.tx.id
        /\ SaveTransaction(o, "INMEMPOOL")
        /\ c.orig = o /\ c.comp = op.tx /\ c.kind = op.kind /\ Sides(c) = {o, op.tx}
        /\ inq' = IF i = 1 THEN [inq EXCEPT ![1] = c] ELSE inq
  BY LinkRivalEffect
<1>3. PICK f \in InMempool : f = inq[i].orig
  <2>1. inq[i] \in Contest
    BY DEF TypeOK
  <2> QED
    BY <2>1, SidesType, HeldPositions
<1>4. PICK t \in TxId, d \in TxId, r \in Held : t = o.id /\ d = op.tx.id /\ r = op.tx
  BY <1>1, <1>2, HeldRows DEF Entry
<1>5. /\ f.id = t /\ EverSent(t) /\ ~Won(t) /\ f.nonce = db[t].tx.nonce /\ f \in Held
      /\ r.nonce = db[d].tx.nonce /\ db[t].tx.nonce = r.nonce /\ db[d].tx.payload = r.payload
      /\ Carries(r, op.kind) /\ r.id = d
  BY <1>1, <1>2, <1>3, <1>4, HeldRows DEF Contested, FlightCarries
<1>6. EverSent(d) /\ \A e \in Pending \cup InMempool : e.id # d
  BY <1>1, <1>4 DEF Placed, FlightPlaced, Unplaced, EverSent
<1>7. t # d
  BY <1>3, <1>5, <1>6
<1>8. /\ db'[t] = [status |-> "INMEMPOOL", tx |-> o]
      /\ \A u \in TxId : u # t => db'[u] = db[u]
  BY <1>2, <1>4, SaveTransactionRows
<1>9. db'[t].status = "INMEMPOOL" /\ db'[t].tx = o
  BY <1>8
<1>10. Has(t, o.payload)
  BY <1>2, <1>3, <1>5 DEF Has
<1>11. RowStep(t)
  <2>1. o.nonce = db[t].tx.nonce
    BY <1>2, <1>3, <1>5
  <2>2. db'[t].tx.nonce = db[t].tx.nonce /\ Has(t, db'[t].tx.payload)
    BY <1>9, <1>10, <2>1
  <2> QED
    BY <1>5, <1>9, <2>2 DEF RowStep, PayloadKept, EverSent
<1>12. \A u \in TxId : RowStep(u) /\ NameKept(u, db'[u].tx, t, d)
  <2>1. \A u \in TxId : u # t => RowStep(u) /\ Kept(u, db'[u].tx)
    BY <1>8, UnwrittenRow
  <2> QED
    BY <1>2, <1>4, <1>9, <1>11, <2>1 DEF NameKept, Kept
<1>13. \A g \in Held' : g = r \/ g = o \/ g \in Pending \cup InMempool
  <2>1. InMempool' \subseteq InMempool \cup {o, r}
    BY <1>2, <1>4, FrontMembers, SameMembers
  <2>2. Pending' = Pending /\ InFlight' = {}
    BY <1>1, SameMembers
  <2> QED
    BY <2>1, <2>2, HeldPositionsAfter DEF Held
<1>14. \A g \in Held' : PayloadKept(g.id, g) /\ NameKept(g.id, g, t, d)
  <2>1. PayloadKept(o.id, o) /\ NameKept(o.id, o, t, d)
    BY <1>2, <1>4, <1>10 DEF PayloadKept, NameKept
  <2>2. \A g \in Held : PayloadKept(g.id, g) /\ NameKept(g.id, g, t, d)
    BY KnownKept DEF Kept, NameKept
  <2> QED
    BY <1>13, <2>1, <2>2 DEF Held
<1>15. Rivals(t, d)'
  <2>1. EverSent(t)' /\ EverSent(d)'
    BY <1>6, <1>7, <1>8, <1>9 DEF EverSent
  <2>2. ASSUME NEW p \in TxId, Has(d, p)' PROVE p = d
    <3>1. p = r.payload
      <4>1. CASE p = db'[d].tx.payload
        BY <1>5, <1>7, <1>8, <4>1
      <4>2. CASE \E e \in Held' : e.id = d /\ p = e.payload
        BY <1>4, <1>6, <1>7, <1>13, <4>2
      <4> QED
        BY <2>2, <4>1, <4>2 DEF Has
    <3>2. p # Noop
      BY NodeAssumption
    <3> QED
      BY <1>1, <1>5, <3>1, <3>2 DEF Carries
  <2>3. OneTurn(t, d)'
    <3>1. db'[t].tx.nonce = f.nonce /\ db'[d].tx.nonce = db[d].tx.nonce
      BY <1>2, <1>3, <1>7, <1>8, <1>9
    <3> QED
      BY <1>5, <3>1 DEF OneTurn
  <2> QED
    BY <2>1, <2>2, <2>3 DEF Rivals
<1>16. TimePasses
  BY <1>1 DEF TimePasses
<1>17. NamedRivals'
  BY <1>12, <1>14, <1>15, <1>16, RivalsStay DEF Contested
<1>18. LosersDecided'
  BY <1>12, <1>16, LosersStay DEF Contested
<1>19. ContestsCarry'
  <2>1. \A j \in DOMAIN inq' : inq'[j] = c \/ (j \in DOMAIN inq /\ inq'[j] = inq[j])
    BY <1>2
  <2>2. c.orig.by = c.comp.id /\ Carries(c.comp, c.kind)
    BY <1>2, <1>4, <1>5
  <2> QED
    BY <1>1, <2>1, <2>2 DEF Contested, ContestsCarry, Carries
<1> QED
  BY <1>1, <1>17, <1>18, <1>19, NothingCarried DEF Contested

\* What memory does to the front's active entry, its payload at most emptied once expired.
LEMMA ActiveCarries ==
  ASSUME TypeOK, Placed, Contested, UNCHANGED expired, inq # <<>>,
         NEW e \in Entry, e.id = Active(inq[1]).id,
         e.payload = Active(inq[1]).payload \/ (e.payload = Noop /\ e.id \in expired),
         inq' = [inq EXCEPT ![1] = WithTx(inq[1], e)]
  PROVE  ContestsCarry'
<1>1. PICK c \in Contest : c = inq[1] /\ 1 \in DOMAIN inq
  BY FrontOfInmempool
<1>2. PICK d \in Contest : d = WithTx(c, e)
  BY WithTxSides
<1>3. \A j \in DOMAIN inq' : inq'[j] = d \/ (j \in DOMAIN inq /\ inq'[j] = inq[j])
  BY <1>1, <1>2
<1>4. ASSUME d.comp # None PROVE d.orig.by = d.comp.id /\ Carries(d.comp, d.kind)
  <2>1. c.comp # None /\ d.kind = c.kind
    BY <1>2, <1>4, WithTxSides
  <2>2. c.orig.by = c.comp.id /\ Carries(c.comp, c.kind) /\ c.comp.id # c.orig.id
    BY <1>1, <2>1 DEF Contested, ContestsCarry, Placed, QueuesPlaced, ContestsLinked
  <2>3. e.id = c.comp.id /\ (e.payload = c.comp.payload \/ (e.payload = Noop /\ e.id \in expired))
    BY <1>1, <2>1, SidesType
  <2>4. d.orig = c.orig /\ d.comp = e
    BY <1>2, <2>1, <2>2, <2>3, WithTxSides
  <2> QED
    BY <2>1, <2>2, <2>3, <2>4 DEF Carries
<1> QED
  BY <1>3, <1>4 DEF Contested, ContestsCarry, Carries

\* The rest of a send.
LEMMA ContinueContested ==
  ASSUME TypeOK, RowsRecorded, Placed, Links, NoncesApart, Contested, Continue
  PROVE  Contested'
<1>1. ASSUME NEW e \in Entry, NEW f \in Held, f = op.tx, e.id = f.id, e.by = f.by,
             e.payload = f.payload, ~Won(e.id), SetSent(e.id, e.hash),
             UNCHANGED <<moved, expired>>, ContestsCarry', FlightCarries',
             \A g \in Held' : g \in Held \/ g = e
      PROVE  Contested'
  <2>1. e.id \in TxId
    BY <1>1, HeldRows
  <2>2. \A u \in TxId : RowStep(u) /\ Kept(u, db'[u].tx)
    BY <1>1, <2>1, SentRow
  <2>3. Kept(e.id, e)
    BY <1>1, KnownKept DEF Kept, PayloadKept
  <2>4. \A g \in Held' : Kept(g.id, g)
    BY <1>1, <2>3, KnownKept
  <2> QED
    BY <1>1, <2>2, <2>4, ContestedStays DEF TimePasses
<1>2. CASE Deliver
  <2>1. /\ op.at = "persisted" /\ UNCHANGED <<db, pendq, inq, moved, expired>>
        /\ \/ op' = Idle
           \/ /\ op'.at \in {"accepted", "rejected", "conflict"} /\ op'.tx = op.tx
              /\ op'.kind = op.kind
    BY <1>2, DeliverEffect DEF rowVars, queueVars
  <2>2. Held' \subseteq Held
    <3>1. InFlight' \subseteq InFlight /\ Pending' = Pending /\ InMempool' = InMempool
      BY <2>1, SameMembers DEF InFlight
    <3> QED
      BY <3>1, HeldPositionsAfter DEF Held
  <2>3. TimePasses /\ ContestsCarry'
    BY <2>1, ContestsStay DEF TimePasses, Contested
  <2>4. FlightCarries'
    BY <2>1, NothingCarried DEF Contested, FlightCarries, Carries, Active
  <2> QED
    BY <2>1, <2>2, <2>3, <2>4, QuietContested DEF TimePasses
<1>3. CASE MarkPendingSent
  <2>1. /\ op.at = "accepted" /\ op.kind = "pending" /\ op.tx \in Entry
        /\ SetSent(op.tx.id, op.tx.hash)
        /\ op' = Idle /\ MovePendingToInmempool(op.tx)
        /\ UNCHANGED <<moved, expired>>
    BY <1>3, MarkPendingSentEffect
  <2>2. PICK e \in Held : e = op.tx /\ e \in Entry
    BY <2>1, HeldRows
  <2>3. \A g \in Held' : g \in Held \/ g = e
    <3>1. Pending' \subseteq Pending /\ InMempool' \subseteq InMempool \cup {e} /\ InFlight' = {}
      BY <2>1, <2>2, MoveMembers, SameMembers
    <3> QED
      BY <3>1, HeldPositionsAfter DEF Held
  <2>4. ~Won(e.id)
    BY <2>1, <2>2, PendingFlight
  <2>5. TimePasses /\ ContestsCarry' /\ FlightCarries'
    BY <2>1, ContestsStay, NothingCarried DEF TimePasses, Contested
  <2> QED
    BY <1>1, <2>1, <2>2, <2>3, <2>4, <2>5
<1>4. CASE AdoptLanded
  <2>1. /\ op.at = "conflict" /\ op.kind = "pending" /\ op.tx \in Entry /\ op' = Idle
        /\ UNCHANGED <<moved, expired>>
    BY <1>4, AdoptLandedEffect
  <2>2. PICK e \in Entry :
          /\ SameLinks(e, op.tx) /\ e.payload = op.tx.payload
          /\ \/ SetSent(e.id, e.hash) /\ MovePendingToInmempool(e)
             \/ UNCHANGED <<db, pendq, inq>>
    BY <1>4, AdoptLandedEffect
  <2>3. CASE SetSent(e.id, e.hash) /\ MovePendingToInmempool(e)
    <3>1. Pending' \subseteq Pending /\ InMempool' \subseteq InMempool \cup {e} /\ InFlight' = {}
      BY <2>1, <2>3, MoveMembers, SameMembers
    <3>2. \A g \in Held' : g \in Held \/ g = e
      BY <3>1, HeldPositionsAfter DEF Held
    <3>3. PICK f \in Held : f = op.tx
      BY <2>1, HeldRows
    <3>4. ~Won(e.id) /\ e.id = f.id /\ e.by = f.by /\ e.payload = f.payload
      BY <2>1, <2>2, <3>3, PendingFlight DEF SameLinks
    <3>5. TimePasses /\ ContestsCarry' /\ FlightCarries'
      BY <2>1, <2>3, ContestsStay, NothingCarried DEF TimePasses, Contested
    <3> QED
      BY <1>1, <2>1, <2>3, <3>2, <3>3, <3>4, <3>5
  <2>4. CASE UNCHANGED <<db, pendq, inq>>
    <3>1. Held' \subseteq Held
      BY <2>1, <2>4, SameMembers, HeldPositionsAfter DEF Held
    <3>2. TimePasses /\ ContestsCarry' /\ FlightCarries'
      BY <2>1, <2>4, ContestsStay, NothingCarried DEF TimePasses, Contested
    <3> QED
      BY <2>1, <2>4, <3>1, <3>2, QuietContested DEF TimePasses
  <2> QED
    BY <2>2, <2>3, <2>4
<1>5. CASE MarkBumpSent
  <2>1. /\ op.at = "accepted" /\ op.kind = "bump" /\ op.tx \in Entry
        /\ SetSent(op.tx.id, op.tx.hash) /\ op' = Idle
        /\ inq' = [inq EXCEPT ![1] = WithTx(inq[1], op.tx)]
        /\ UNCHANGED <<pendq, moved, expired>>
    BY <1>5, MarkBumpSentEffect
  <2>2. PICK e \in Held : e = op.tx /\ e \in Entry
    BY <2>1, HeldRows
  <2>3. \A g \in Held' : g \in Held \/ g = e
    <3>1. InMempool' \subseteq InMempool \cup {e} /\ Pending' = Pending /\ InFlight' = {}
      BY <2>1, <2>2, FrontRewritten, SameMembers
    <3> QED
      BY <3>1, HeldPositionsAfter DEF Held
  <2>4. inq # <<>> /\ e.id = Active(inq[1]).id
    BY <2>1, <2>2 DEF Placed, FlightPlaced
  <2>5. ~Won(e.id)
    BY <2>4, FrontOfInmempool, HeldRows
  <2>6. e.payload = Active(inq[1]).payload \/ (e.payload = Noop /\ e.id \in expired)
    BY <2>1, <2>2 DEF Contested, FlightCarries
  <2>7. ContestsCarry' /\ FlightCarries'
    BY <2>1, <2>2, <2>4, <2>6, ActiveCarries, NothingCarried
  <2> QED
    BY <1>1, <2>1, <2>2, <2>3, <2>5, <2>7
<1>6. CASE MarkRivalSent
  <2>1. /\ op.at = "accepted" /\ op.kind \in {"cancel", "replace"}
        /\ op.tx \in Entry /\ SetSent(op.tx.id, op.tx.hash)
        /\ op'.at = "linking" /\ op'.kind = op.kind /\ op'.tx = op.tx
        /\ UNCHANGED <<pendq, inq, moved, expired>>
    BY <1>6, MarkRivalSentEffect DEF queueVars
  <2>2. PICK e \in Held : e = op.tx /\ e \in Entry
    BY <2>1, HeldRows
  <2>3. \A g \in Held' : g \in Held \/ g = e
    <3>1. InFlight' = InFlight /\ Pending' = Pending /\ InMempool' = InMempool
      BY <2>1, SameMembers DEF InFlight
    <3> QED
      BY <3>1, HeldPositionsAfter DEF Held
  <2>4. ~Won(e.id)
    BY <2>1, <2>2 DEF Placed, FlightPlaced, Won
  <2>5. ContestsCarry'
    BY <2>1, ContestsStay DEF TimePasses, Contested
  <2>6. FlightCarries'
    <3>1. \A u \in TxId : /\ db'[u].tx.nonce = db[u].tx.nonce
                          /\ db'[u].tx.payload = db[u].tx.payload
      BY <2>1, <2>2, HeldRows, SetSentRows
    <3>2. e.id \in TxId
      BY HeldRows
    <3> QED
      BY <2>1, <2>2, <3>1, <3>2 DEF Contested, FlightCarries, Carries
  <2> QED
    BY <1>1, <2>1, <2>2, <2>3, <2>4, <2>5, <2>6
<1>7. CASE LinkRival
  BY <1>7, LinkContested
<1>8. CASE CloseOut
  <2>1. /\ op.at = "rejected" /\ op' = Idle
        /\ UNCHANGED <<inq, moved, expired>>
    BY <1>8, CloseOutEffect
  <2>2. PICK e \in Entry : /\ SameLinks(e, op.tx) /\ e.payload = Noop
                           /\ SaveTransaction(e, "PENDING") /\ pendq' = Updated(pendq, e)
    BY <1>8, CloseOutEffect
  <2>3. PICK f \in Held : f = op.tx
    BY <2>1, HeldRows
  <2>4. ~Won(e.id) /\ ~EverSent(e.id) /\ Kept(e.id, e)
    <3>1. op.kind = "pending"
      BY <2>1 DEF Placed, FlightPlaced
    <3>2. ~Won(e.id) /\ ~EverSent(e.id)
      BY <2>1, <2>2, <3>1, PendingFlight DEF SameLinks
    <3>3. Kept(f.id, f) /\ e.id = f.id /\ e.by = f.by
      BY <2>2, <2>3, KnownKept DEF SameLinks
    <3> QED
      BY <2>2, <3>2, <3>3 DEF Kept, PayloadKept
  <2>5. \A g \in Held' : g \in Held \/ g = e
    BY <2>1, <2>2, PendingMembers, SameMembers, HeldPositionsAfter DEF Held
  <2>6. \A u \in TxId : RowStep(u) /\ Kept(u, db'[u].tx)
    BY <2>2, <2>4, SavedRow
  <2>7. \A g \in Held' : Kept(g.id, g)
    BY <2>4, <2>5, KnownKept
  <2>8. TimePasses /\ ContestsCarry' /\ FlightCarries'
    BY <2>1, ContestsStay, NothingCarried DEF TimePasses, Contested
  <2> QED
    BY <2>6, <2>7, <2>8, ContestedStays
<1>9. ASSUME NEW n \in Nat, NEW t \in TxId, ~Won(t), ~EverSent(t) \/ t \in moved',
             db'[t].status = db[t].status, db'[t].tx = AtNonce(db[t].tx, n),
             \A u \in TxId : u # t => db'[u] = db[u],
             moved \subseteq moved', UNCHANGED expired, op' = Idle, ContestsCarry',
             \A g \in Held' : \E h \in Held : g.id = h.id /\ g.payload = h.payload /\ g.by = h.by,
             db[t].status \notin {"CANCELLED", "REPLACED"}
      PROVE  Contested'
  <2>1. db'[t].tx.payload = db[t].tx.payload /\ db'[t].tx.by = db[t].tx.by
    BY <1>9, RowTx, AtNonceType
  <2>2. RowStep(t) /\ Kept(t, db'[t].tx)
    <3>1. Kept(t, db'[t].tx)
      BY <2>1, KnownKept DEF Kept, PayloadKept
    <3>2. EverSent(t)' <=> EverSent(t)
      BY <1>9 DEF EverSent
    <3> QED
      BY <1>9, <3>1, <3>2 DEF RowStep, Kept
  <2>3. \A u \in TxId : RowStep(u) /\ Kept(u, db'[u].tx)
    BY <1>9, <2>2, UnwrittenRow
  <2>4. \A g \in Held' : Kept(g.id, g)
    BY <1>9, KnownKept DEF Kept, PayloadKept
  <2>5. TimePasses /\ FlightCarries'
    BY <1>9, NothingCarried DEF TimePasses
  <2> QED
    BY <1>9, <2>3, <2>4, <2>5, ContestedStays
<1>10. CASE ReassignPending
  <2>1. /\ op.at = "conflict" /\ op.kind = "pending" /\ op' = Idle
        /\ UNCHANGED <<inq, moved, expired>>
    BY <1>10, ReassignPendingEffect
  <2>2. PICK n \in Nat :
          /\ db'[op.tx.id].status = db[op.tx.id].status
          /\ db'[op.tx.id].tx = AtNonce(db[op.tx.id].tx, n)
          /\ \A u \in TxId : u # op.tx.id => db'[u] = db[u]
          /\ \A e \in Pending' : \E f \in Pending :
               e = IF f.id = op.tx.id THEN AtNonce(f, n) ELSE f
    BY <1>10, ReassignPendingEffect
  <2>3. PICK t \in TxId : t = op.tx.id
    BY <2>1, HeldRows
  <2>4. ~Won(t) /\ ~EverSent(t)
    BY <2>1, <2>3, PendingFlight
  <2>5. \A g \in Held' : \E h \in Held : g.id = h.id /\ g.payload = h.payload /\ g.by = h.by
    <3>1. \A g \in Pending' : \E h \in Held : g.id = h.id /\ g.payload = h.payload /\ g.by = h.by
      BY <2>2, HeldType, AtNonceType DEF Held
    <3>2. InMempool' = InMempool /\ InFlight' = {}
      BY <2>1, SameMembers
    <3> QED
      BY <3>1, <3>2, HeldPositionsAfter DEF Held
  <2>6. ContestsCarry' /\ db[t].status \notin {"CANCELLED", "REPLACED"}
    BY <2>1, <2>4, ContestsStay DEF Contested, EverSent, TimePasses
  <2> QED
    BY <1>9, <2>1, <2>2, <2>3, <2>4, <2>5, <2>6
<1>11. CASE ReassignInmempool
  <2>1. /\ op.at = "conflict" /\ op.tx \in Entry /\ op' = Idle
        /\ moved' = moved \cup {op.tx.id}
        /\ UNCHANGED <<pendq, expired>>
        /\ op.kind = "bump"
    BY <1>11, ReassignInmempoolEffect
  <2>2. PICK n \in Nat :
          /\ db'[op.tx.id].status = db[op.tx.id].status
          /\ db'[op.tx.id].tx = AtNonce(db[op.tx.id].tx, n)
          /\ \A u \in TxId : u # op.tx.id => db'[u] = db[u]
          /\ inq' = [inq EXCEPT ![1] = WithTx(inq[1], AtNonce(Active(inq[1]), n))]
    BY <1>11, ReassignInmempoolEffect
  <2>3. PICK t \in TxId : t = op.tx.id
    BY <2>1, HeldRows
  <2>4. inq # <<>> /\ Active(inq[1]).id = t
    BY <2>1, <2>3 DEF Placed, FlightPlaced
  <2>5. PICK a \in InMempool : a = Active(inq[1]) /\ a \in Held /\ a \in Entry
    BY <2>4, FrontOfInmempool, HeldRows
  <2>6. PICK e \in Entry :
          e = AtNonce(a, n) /\ e.id = a.id /\ e.payload = a.payload /\ e.by = a.by
    BY <2>5, AtNonceType
  <2>7. \A g \in Held' : g \in Held \/ g = e
    <3>1. InMempool' \subseteq InMempool \cup {e} /\ Pending' = Pending /\ InFlight' = {}
      BY <2>1, <2>2, <2>5, <2>6, FrontRewritten, SameMembers
    <3> QED
      BY <3>1, HeldPositionsAfter DEF Held
  <2>8. \A g \in Held' : \E h \in Held : g.id = h.id /\ g.payload = h.payload /\ g.by = h.by
    BY <2>5, <2>6, <2>7
  <2>9. ContestsCarry'
    BY <2>1, <2>2, <2>4, <2>5, <2>6, ActiveCarries
  <2>10. ~Won(t) /\ db[t].status \notin {"CANCELLED", "REPLACED"}
    BY <2>4, <2>5 DEF Placed, QueuesPlaced, StatusPlaced, Won
  <2> QED
    BY <1>9, <2>1, <2>2, <2>3, <2>8, <2>9, <2>10
<1>12. CASE ConflictMined \/ StepFails
  <2>1. op' = Idle /\ UNCHANGED <<db, pendq, inq, moved, expired>>
    BY <1>12, StopEffect DEF rowVars, queueVars
  <2>2. Held' \subseteq Held
    BY <2>1, SameMembers, HeldPositionsAfter DEF Held
  <2>3. TimePasses /\ ContestsCarry' /\ FlightCarries'
    BY <2>1, ContestsStay, NothingCarried DEF TimePasses, Contested
  <2> QED
    BY <2>1, <2>2, <2>3, QuietContested DEF TimePasses
<1>13. CASE SettleLoser
  <2>1. /\ op.at = "settling" /\ op' = Idle /\ op.tx \in Entry
        /\ UNCHANGED <<pendq, inq, moved, expired>>
    BY <1>13, SettleLoserEffect DEF queueVars
  <2>2. PICK s \in {"CANCELLED", "REPLACED"} :
          /\ s = IF op.kind = "cancel" THEN "CANCELLED" ELSE "REPLACED"
          /\ SaveTransaction(op.tx, s)
    BY <1>13, SettleLoserEffect
  <2>3. PICK e \in Held : e = op.tx /\ e \in Entry /\ e.id \in TxId
    BY <2>1, HeldRows
  <2>4. \A g \in Held' : g \in Held
    BY <2>1, SameMembers, HeldPositionsAfter DEF Held
  <2>5. Decided(e.id, s)
    BY <2>1, <2>2, <2>3 DEF Contested, FlightCarries
  <2>6. EverSent(e.id) /\ ~Won(e.id)
    <3>1. op.kind \in {"cancel", "replace"}
      BY <2>1 DEF TypeOK, Op, Idle, Stage
    <3> QED
      BY <2>1, <2>3, <3>1 DEF Placed, FlightPlaced, EverSent, Won
  <2>7. db'[e.id].status = s /\ db'[e.id].tx = e /\ \A u \in TxId : u # e.id => db'[u] = db[u]
    <3>1. db'[e.id] = [status |-> s, tx |-> e] /\ \A u \in TxId : u # e.id => db'[u] = db[u]
      BY <2>2, <2>3, SaveTransactionRows
    <3> QED
      BY <3>1
  <2>8. Kept(e.id, e) /\ e.nonce = db[e.id].tx.nonce
    BY HeldRows
  <2>9. RowStep(e.id) /\ Kept(e.id, db'[e.id].tx)
    BY <2>5, <2>6, <2>7, <2>8 DEF RowStep, Kept, EverSent
  <2>10. \A u \in TxId : RowStep(u) /\ Kept(u, db'[u].tx)
    BY <2>7, <2>9, UnwrittenRow
  <2>11. TimePasses /\ ContestsCarry' /\ FlightCarries'
    BY <2>1, ContestsStay, NothingCarried DEF TimePasses, Contested
  <2> QED
    BY <2>4, <2>10, <2>11, KnownKept, ContestedStays
<1> QED
  BY <1>2, <1>3, <1>4, <1>5, <1>6, <1>7, <1>8, <1>10, <1>11, <1>12, <1>13 DEF Continue

\* A crash and the steps of a startup: a contest is rebuilt from two rows that name each other.
LEMMA StartupContested ==
  ASSUME TypeOK, RowsRecorded, Placed, Links, Contested, Crash \/ Startup \/ Setback
  PROVE  Contested'
<1>1. CASE Crash
  <2>1. /\ op' = Idle /\ inq' = <<>> /\ UNCHANGED <<db, moved, expired>>
        /\ Pending' = {} /\ InMempool' = {} /\ InFlight' = {}
    BY <1>1, CrashEffect DEF rowVars
  <2>2. Held' = {}
    BY <2>1, HeldPositionsAfter DEF Held
  <2>3. TimePasses /\ ContestsCarry' /\ FlightCarries'
    BY <2>1, ContestsStay, NothingCarried DEF TimePasses, Contested
  <2> QED
    BY <2>1, <2>2, <2>3, QuietContested DEF TimePasses
<1>2. CASE Repairing
  <2>1. /\ boot # "online" /\ UNCHANGED <<pendq, inq, op, moved, expired>>
        /\ \A t \in TxId :
             \/ db'[t] = db[t]
             \/ /\ db[t].status = "PENDING" /\ db'[t].status \in {"INMEMPOOL", "FAILED"}
                /\ SameLinks(db'[t].tx, db[t].tx) /\ db'[t].tx.payload = db[t].tx.payload
    BY <1>2, RepairEffect DEF queueVars
  <2>2. Held' = Held
    BY <2>1, SameMembers, HeldPositionsAfter DEF Held
  <2>3. ASSUME NEW t \in TxId PROVE RowStep(t) /\ Kept(t, db'[t].tx)
    <3>1. CASE db'[t] = db[t]
      BY <3>1, UnwrittenRow
    <3>2. CASE /\ db[t].status = "PENDING" /\ db'[t].status \in {"INMEMPOOL", "FAILED"}
               /\ SameLinks(db'[t].tx, db[t].tx) /\ db'[t].tx.payload = db[t].tx.payload
      <4>1. Kept(t, db'[t].tx)
        BY <3>2, KnownKept DEF Kept, PayloadKept, SameLinks
      <4> QED
        BY <3>2, <4>1 DEF RowStep, Kept, EverSent, Won
    <3> QED
      BY <2>1, <3>1, <3>2
  <2>4. op' = Idle
    BY <2>1 DEF Placed, NothingHeld
  <2>5. TimePasses /\ ContestsCarry' /\ FlightCarries'
    BY <2>1, <2>4, ContestsStay, NothingCarried DEF TimePasses, Contested
  <2> QED
    BY <2>2, <2>3, <2>5, KnownKept, ContestedStays
<1>3. CASE LoadQueues
  <2>1. /\ boot = "repaired" /\ UNCHANGED <<db, op, moved, expired>>
        /\ \A i \in DOMAIN inq' : inq'[i] \in Contests
        /\ \A e \in Pending' : \E t \in With("PENDING") : e = db[t].tx
        /\ \A e \in InMempool' : \E t \in With("INMEMPOOL") : e = db[t].tx
    BY <1>3, LoadQueuesEffect DEF rowVars
  <2>2. op' = Idle
    BY <2>1 DEF Placed, NothingHeld
  <2>3. \A e \in Held' : \E t \in TxId : e = db[t].tx /\ e.id = t
    BY <2>1, <2>2, SameMembers, HeldPositionsAfter DEF With, RowsRecorded
  <2>4. ASSUME NEW c \in Contests, c.comp # None
        PROVE  c.orig.by = c.comp.id /\ Carries(c.comp, c.kind)
    <3>1. PICK e \in LiveEntries : c = ContestOf(e) /\ RivalsOf(e) # {}
      BY <2>4 DEF Contests, ContestOf, Alone
    <3>2. PICK r \in LiveEntries :
            /\ r.id = e.by
            /\ c = [orig |-> e, comp |-> r, kind |-> IF r.payload = Noop THEN "cancel" ELSE "replace"]
      BY <3>1 DEF ContestOf, RivalsOf
    <3>3. c.orig = e /\ c.comp = r /\ c.kind = IF r.payload = Noop THEN "cancel" ELSE "replace"
      BY <3>2
    <3>4. PICK t \in TxId, d \in TxId : e = db[t].tx /\ r = db[d].tx /\ r.id = d
      BY DEF LiveEntries, With, RowsRecorded
    <3>5. Rivals(t, d)
      BY <3>2, <3>4 DEF Contested, NamedRivals, Names
    <3>6. r.payload \in {Noop, d}
      <4>1. r.payload \in Payload
        BY <3>4, RowTx
      <4> QED
        BY <3>4, <3>5, <4>1 DEF Rivals, Has, Payload
    <3> QED
      BY <3>2, <3>3, <3>4, <3>6 DEF Carries
  <2>5. ContestsCarry'
    BY <2>1, <2>4 DEF ContestsCarry, Carries
  <2> QED
    BY <2>1, <2>2, <2>3, <2>5, NothingCarried, QuietContested
<1> QED
  BY <1>1, <1>2, <1>3 DEF Startup, Repairing

\* The clock, the network, and a step that changes nothing.
LEMMA WorldContested ==
  ASSUME TypeOK, Placed, NoncesApart, Contested,
         Network \/ (\E t \in TxId : Expire(t)) \/ UNCHANGED vars
  PROVE  Contested'
<1>1. UNCHANGED <<db, pendq, inq, op, moved>> /\ expired \subseteq expired'
  BY DEF Network, Expire, vars, rowVars, queueVars
<1>2. Held' = Held
  BY <1>1, SameMembers, HeldPositionsAfter DEF Held
<1>3. TimePasses /\ ContestsCarry'
  BY <1>1, ContestsStay DEF TimePasses, Contested
<1>4. FlightCarries'
  <2>1. CASE op.at = "settling"
    <3>1. op.kind \in {"cancel", "replace"}
      BY <2>1 DEF TypeOK, Op, Idle, Stage
    <3>2. PICK t \in TxId, s \in {"CANCELLED", "REPLACED"} :
            /\ t = op.tx.id
            /\ s = IF op.kind = "cancel" THEN "CANCELLED" ELSE "REPLACED"
      BY <2>1, HeldRows
    <3>3. EverSent(t) /\ Decided(t, s)
      BY <2>1, <3>1, <3>2 DEF Placed, FlightPlaced, EverSent, Contested, FlightCarries
    <3>4. Decided(t, s)'
      BY <1>1, <1>3, <3>3, UnwrittenRow, DecidedStays
    <3> QED
      BY <1>1, <2>1, <3>1, <3>2, <3>4 DEF FlightCarries, Decided, DecidingPayload
  <2>2. CASE op.at # "settling"
    BY <1>1, <2>2 DEF Contested, FlightCarries, Carries, Active
  <2> QED
    BY <2>1, <2>2
<1> QED
  BY <1>1, <1>2, <1>3, <1>4, QuietContested

LEMMA ContestsDecide ==
  ASSUME TypeOK, RowsRecorded, Placed, Links, NoncesApart, Contested, [Next]_vars
  PROVE  Contested'
<1>1. ASSUME NEW t \in TxId, Api(t) PROVE Contested'
  BY <1>1, ApiContested
<1>2. CASE Loops
  BY <1>2, LoopContested
<1>3. CASE Continue
  BY <1>3, ContinueContested
<1>4. CASE Crash \/ Startup \/ Setback
  BY <1>4, StartupContested
<1>5. CASE Network \/ (\E t \in TxId : Expire(t)) \/ UNCHANGED vars
  BY <1>5, WorldContested
<1> QED
  BY <1>1, <1>2, <1>3, <1>4, <1>5 DEF Next, Setback

\* No contest has begun before the first transaction is admitted.
LEMMA InitContested ==
  ASSUME Init
  PROVE  Contested
<1>1. \A t \in TxId : db[t].tx.by = None /\ db[t].status = "absent"
  BY DEF Init, NoRow, Emptied, NewEntry
<1>2. Held = {} /\ op = Idle /\ DOMAIN inq = {}
  <2>1. DOMAIN pendq = {} /\ DOMAIN inq = {} /\ op = Idle
    BY DEF Init
  <2> QED
    BY <2>1 DEF Held, Pending, InMempool, InFlight, Idle
<1>3. NamedRivals
  BY <1>1, <1>2, NodeAssumption DEF NamedRivals, Names
<1>4. ContestsCarry /\ LosersDecided /\ FlightCarries
  BY <1>1, <1>2 DEF ContestsCarry, LosersDecided, FlightCarries, Idle
<1> QED
  BY <1>3, <1>4 DEF Contested

\* A transaction whose nonce its rival used is not mined itself.
LEMMA LoserUnmined ==
  ASSUME TypeOK, WriteAhead, MinedRecorded, NodePlaced, Attempted,
         NEW t \in User, NEW c \in TxId, t # c, Won(c), t \notin moved, c \notin moved,
         db[c].tx.nonce = db[t].tx.nonce,
         NEW j \in DOMAIN chain, chain[j].hash # None
  PROVE  chain[j].hash.payload # t
<1> SUFFICES ASSUME chain[j].hash.payload = t
             PROVE  FALSE
  OBVIOUS
<1>1. t \in TxId
  BY QueueAssumption
<1>0. PICK i \in DOMAIN audit[c] : MinedOk(audit[c][i])
  BY DEF MinedRecorded, Landed, Won
<1>2. PICK h : h = audit[c][i] /\ MinedOk(h)
  BY <1>0
<1>3. PICK k \in DOMAIN chain : chain[k].hash = h
  BY <1>2 DEF MinedOk, Receipts
<1>4. PICK g : g = chain[j].hash
  OBVIOUS
<1>5. chain[j] \in Receipts /\ chain[k] \in Receipts
  BY DEF Receipts
<1>6. HasReceipt(g) /\ HasReceipt(h)
  BY <1>3, <1>4, <1>5 DEF HasReceipt
<1>7. PICK u \in TxId : RecordedFor(u, g)
  BY <1>4, <1>5 DEF WriteAhead, RecordedFor
<1>8. Owns(u, t)
  BY <1>4, <1>7 DEF Owns, RecordedFor
<1>9. u = t
  BY <1>1, <1>8 DEF Attempted, PayloadsOwned
<1>10. g.nonce = db[t].tx.nonce
  BY <1>1, <1>6, <1>7, <1>9 DEF Attempted, OneNonce, Dead, RecordedFor
<1>11. h.nonce = db[c].tx.nonce
  BY <1>2, <1>6 DEF Attempted, OneNonce, Dead
<1>12. h # None
  BY <1>2, NoneIsNoHash DEF TypeOK
<1>13. g.nonce = j - 1 /\ h.nonce = k - 1
  BY <1>3, <1>4, <1>12 DEF NodePlaced
<1>14. j = k
  BY <1>10, <1>11, <1>13 DEF TypeOK, NodeTypeOK
<1>15. Owns(c, t)
  BY <1>2, <1>3, <1>4, <1>14 DEF Owns
<1> QED
  BY <1>1, <1>15 DEF Attempted, PayloadsOwned

\* Exactly one side of a contest wins: the loser's row is written after the winner's, names
\* what won, and neither a restart that rebuilds the contest from two rows, nor a second
\* rival, nor a loser that stays in the node's pool lets both sides take effect.
THEOREM OneSideWins == Spec => []ContestDecided
<1> DEFINE IInv == /\ TypeOK /\ InFlightRecorded /\ WriteAhead /\ HashesRecorded /\ MinedRecorded
                   /\ Placed /\ Links /\ NoncesApart /\ NodePlaced /\ Attempted /\ Contested
<1>1. Init => IInv
  <2>1. Init => WriteAhead
    BY DEF Init, NodeInit, WriteAhead, Receipts
  <2>2. Init => InFlightRecorded
    BY DEF Init, InFlightRecorded, Idle
  <2> QED
    BY <2>1, <2>2, InitType, InitPlaced, InitNonces, InitAttempts, InitContested
<1>2. IInv /\ [Next]_vars => IInv'
  BY NextType, InFlightStays, WriteAheadStays, HashesStay, MinedStays, PlacedStays,
     NoncesApartStay, AttemptsStay, ContestsDecide DEF HashesRecorded
<1>3. IInv => ContestDecided
  <2> SUFFICES ASSUME IInv, NEW t \in TxId, db[t].status \in {"CANCELLED", "REPLACED"}
               PROVE  \E c \in TxId :
                        /\ db[c].status \in {"MINED", "CONFIRMED"} /\ db[c].tx.ext = t
                        /\ DecidingPayload(c, db[t].status)
                        /\ Executions(t) = 0 \/ t \in moved \/ c \in moved
    BY DEF ContestDecided
  <2>1. PICK c \in TxId : /\ Won(c) /\ db[c].tx.ext = t
                          /\ DecidingPayload(c, db[t].status) /\ OneTurn(t, c)
    BY DEF Contested, LosersDecided, Decided
  <2>2. t \in User /\ c \in Rival /\ t # c
    <3>1. t # None /\ RowLinked(c) /\ db[c].tx.id = c
      BY NodeAssumption DEF Links, HashesRecorded, RowsRecorded
    <3> QED
      BY <2>1, <3>1 DEF RowLinked, Linked, Rival
  <2>3. Executions(t) = 0 \/ t \in moved \/ c \in moved
    <3>1. CASE t \notin moved /\ c \notin moved
      <4>1. db[c].tx.nonce = db[t].tx.nonce
        BY <2>1, <3>1 DEF OneTurn
      <4>2. \A j \in DOMAIN chain : chain[j].hash # None => chain[j].hash.payload # t
        BY <2>1, <2>2, <3>1, <4>1, LoserUnmined
      <4>3. {j \in DOMAIN chain :
               chain[j].ok /\ chain[j].hash # None /\ chain[j].hash.payload = t} = {}
        BY <4>2
      <4> QED
        BY <4>3, FS_EmptySet DEF Executions
    <3> QED
      BY <3>1
  <2> QED
    BY <2>1, <2>3 DEF Won
<1> HIDE DEF IInv
<1> QED
  BY <1>1, <1>2, <1>3, PTL DEF Spec

-----------------------------------------------------------------------------
(***************************************************************************)
(* What a step leaves of the attempts.                                      *)
(***************************************************************************)
\* The nonce of a row is used up; so are those of every attempt of a transaction.
Past(t) == db[t].tx.nonce < Len(chain)

Spent(t) == \A i \in DOMAIN audit[t] : audit[t][i].nonce < Len(chain)

Mined(e) == e.hash # None /\ HasReceipt(e.hash)

\* What is sent: the front of a queue, or a new rival.
FrontSent(e, k) ==
  \/ k = "pending" /\ e \in Pending
  \/ k = "bump" /\ inq # <<>> /\ e = Active(inq[1]) /\ ~Mined(e)
  \/ /\ k \in {"cancel", "replace"}
     /\ db[e.id].status = "absent" /\ e.by = None

SendStep ==
  /\ op = Idle
  /\ \E e \in Entry, f \in Entry, k \in Kind :
       /\ FrontSent(e, k)
       /\ Sends(e, IF k = "bump" THEN "INMEMPOOL" ELSE "PENDING", k, f)

\* The row in flight has the hash in flight, and a bump keeps the name of its original.
FlightRow ==
  /\ op.at \in {"persisted", "accepted", "conflict", "linking"} =>
       db[op.tx.id].tx.hash = op.tx.hash
  /\ op.kind = "bump" => op.tx.by = Active(inq[1]).by

\* The operation in flight gives its transaction another nonce.
Renumbers(t) ==
  /\ op.at = "conflict" /\ op.tx.id = t /\ ~HasReceipt(op.tx.hash)
  /\ db'[t].tx.hash = db[t].tx.hash

\* The operation in flight links its rival to original t, as memory has it.
Relinks(t) ==
  /\ op.at = "linking" /\ op.tx.ext = t /\ db'[t].tx.by = op.tx.id
  /\ \E e \in InMempool : e.id = t /\ e.hash = db'[t].tx.hash

RowQuiet(t) ==
  /\ EverSent(t) => EverSent(t)'
  /\ OpenRow(t)' => OpenRow(t) \/ db[t].status = "absent"
  /\ db'[t].status = "INMEMPOOL" =>
       OpenRow(t) /\ (db'[t].tx.by = db[t].tx.by \/ Relinks(t))
  /\ db'[t].status = "INMEMPOOL" /\ EverSent(t) =>
       db'[t].tx.hash = db[t].tx.hash \/ Relinks(t)
  /\ db'[t].tx.nonce = db[t].tx.nonce \/ db[t].status = "absent" \/ Renumbers(t)

\* Why an open row is closed.
Closes(t) ==
  \/ \E e \in InMempool : e.id = t /\ Mined(e)
  \/ op.at = "settling" /\ op.tx.id = t
  \/ t \in minedq
  \/ boot # "online" /\ \A i \in DOMAIN audit[t] : ~Exists(audit[t][i])
  \/ boot = "down" /\ db[t].tx.failed

RowsQuiet == \A t \in TxId : RowQuiet(t) /\ (OpenRow(t) => OpenRow(t)' \/ Closes(t))

\* Where a contest in the queue comes from.
SameContest(c, d) ==
  /\ c.orig.id = d.orig.id /\ c.orig.by = d.orig.by
  /\ c.comp = None <=> d.comp = None
  /\ c.comp # None => c.comp.id = d.comp.id

Joined(c) ==
  /\ c.comp = None /\ db[c.orig.id].status = "PENDING"
  /\ \E e \in Held : e.id = c.orig.id /\ e.by = c.orig.by

Raised(c) == op.at = "linking" /\ c.orig.id = op.tx.ext /\ c.comp = op.tx

Loaded(c) ==
  /\ UNCHANGED <<db, moved, chain>>
  /\ db[c.orig.id].status = "INMEMPOOL" /\ c.orig.by = db[c.orig.id].tx.by
  /\ IF c.comp = None
     THEN \A d \in TxId : c.orig.by = d => db[d].status # "INMEMPOOL"
     ELSE c.comp.id = c.orig.by

KnownContest(c) ==
  \/ \E i \in DOMAIN inq : SameContest(c, inq[i])
  \/ Joined(c) \/ Raised(c) \/ Loaded(c)

\* Where the hash of a transaction in memory comes from, once it was sent.
KnownHash(e) ==
  \/ ~EverSent(e.id)
  \/ \E f \in InMempool : f.id = e.id /\ f.hash = e.hash
  \/ OpenRow(e.id) /\ e.hash = db[e.id].tx.hash

QueueQuiet ==
  /\ \A i \in DOMAIN inq' : KnownContest(inq'[i])
  /\ \A e \in InMempool' : KnownHash(e)
  /\ \A t \in minedq' : \/ t \in minedq \/ ~OpenRow(t)'
                        \/ \E e \in InMempool : e.id = t /\ Mined(e)

FlightQuiet ==
  /\ \A e \in InFlight' : e \in InFlight \/ KnownHash(e)
  /\ \A t \in moved' : t \in moved \/ (Renumbers(t) /\ EverSent(t))
  /\ op'.at = "linking" =>
       op.tx.id = op'.tx.id /\ (op.at = "linking" \/ db[op.tx.id].status = "PENDING")
  /\ op'.at = "settling" =>
       \/ op.at = "settling" /\ op'.tx = op.tx
       \/ /\ inq # <<>> /\ inq[1].comp # None
          /\ op'.tx.id = inq[1].orig.id /\ Mined(inq[1].comp)

QuietStep ==
  /\ UNCHANGED audit
  /\ RowsQuiet /\ QueueQuiet /\ FlightQuiet

\* One row is written.
LEMMA OneRowQuiet ==
  ASSUME NEW t \in TxId, \A u \in TxId : u # t => db'[u] = db[u],
         RowQuiet(t), OpenRow(t) => OpenRow(t)' \/ Closes(t)
  PROVE  RowsQuiet
<1> SUFFICES ASSUME NEW u \in TxId, u # t
             PROVE  RowQuiet(u) /\ (OpenRow(u) => OpenRow(u)' \/ Closes(u))
  BY DEF RowsQuiet
<1>1. db'[u] = db[u]
  OBVIOUS
<1> QED
  BY <1>1 DEF RowQuiet, EverSent, OpenRow

\* No row is written, no contest is raised, or nothing is left in flight.
LEMMA SameQuiet ==
  /\ UNCHANGED db => RowsQuiet
  /\ UNCHANGED <<inq, minedq>> => QueueQuiet
  /\ UNCHANGED moved /\ op' = Idle => FlightQuiet
  /\ UNCHANGED <<moved, op>> => FlightQuiet
<1>1. UNCHANGED db => RowsQuiet
  BY DEF RowsQuiet, RowQuiet, EverSent, OpenRow
<1>2. ASSUME UNCHANGED <<inq, minedq>> PROVE QueueQuiet
  <2>1. InMempool' = InMempool
    BY <1>2, SameMembers
  <2>2. \A i \in DOMAIN inq' : KnownContest(inq'[i])
    BY <1>2 DEF KnownContest, SameContest
  <2> QED
    BY <1>2, <2>1, <2>2 DEF QueueQuiet, KnownHash
<1>3. ASSUME UNCHANGED moved, op' = Idle PROVE FlightQuiet
  BY <1>3, SameMembers DEF FlightQuiet, Idle
<1>4. ASSUME UNCHANGED <<moved, op>> PROVE FlightQuiet
  BY <1>4, SameMembers DEF FlightQuiet
<1> QED
  BY <1>1, <1>2, <1>3, <1>4

\* The loops send the front of a queue, and the API a rival.
LEMMA LoopsSend ==
  ASSUME TypeOK, SendPending \/ BumpGas
  PROVE  SendStep
<1>1. CASE SendPending
  <2>1. /\ Head(pendq) \in Pending /\ op = Idle /\ Head(pendq) \in Entry
        /\ \E f \in Entry : Sends(Head(pendq), "PENDING", "pending", f)
    BY <1>1, SendPendingSends
  <2>2. FrontSent(Head(pendq), "pending") /\ "pending" \in Kind
    BY <2>1 DEF FrontSent, Kind
  <2> QED
    BY <2>1, <2>2 DEF SendStep
<1>2. CASE BumpGas
  <2>1. /\ inq # <<>> /\ op = Idle
        /\ \E f \in Entry : Sends(Active(Head(inq)), "INMEMPOOL", "bump", f)
    BY <1>2, BumpGasSends
  <2>2. Head(inq) = inq[1] /\ Active(Head(inq)) \in Entry
    BY <2>1, FrontOfInmempool
  <2>3. ~Mined(Active(Head(inq)))
    BY <1>2 DEF BumpGas, Mined
  <2>4. FrontSent(Active(Head(inq)), "bump") /\ "bump" \in Kind
    BY <2>1, <2>2, <2>3 DEF FrontSent, Kind
  <2> QED
    BY <2>1, <2>2, <2>4 DEF SendStep
<1> QED
  BY <1>1, <1>2

LEMMA RivalsSend ==
  ASSUME TypeOK, NEW t \in TxId, NEW k \in {"cancel", "replace"}, SendRival(t, k)
  PROVE  SendStep
<1>1. PICK c \in Rival, i \in DOMAIN inq, e \in Entry, f \in Entry :
        Fresh(c) /\ RivalOf(e, c, inq[i].orig, k) /\ Sends(e, "PENDING", k, f)
  BY SendRivalCopies
<1>2. op = Idle
  BY SendRivalCopies
<1>3. FrontSent(e, k) /\ k # "bump" /\ k \in Kind
  BY <1>1 DEF FrontSent, Kind, RivalOf, Fresh
<1> QED
  BY <1>1, <1>2, <1>3 DEF SendStep

\* The API sends a new rival, or saves a row that was not sent.
LEMMA ApiKinds ==
  ASSUME TypeOK, RowsRecorded, Placed, NoncesApart, NEW t \in TxId, Api(t)
  PROVE  SendStep \/ QuietStep
<1>1. CASE Admit(t)
  <2>1. PICK e \in Entry : e = NewEntry(t, e.nonce) /\ SaveTransaction(e, "PENDING")
    BY <1>1, AdmitEffect
  <2>2. db[t].status = "absent" /\ op = Idle /\ UNCHANGED <<audit, inq, minedq, op, moved>>
    BY <1>1, AdmitEffect
  <2>3. e.id = t
    BY <2>1 DEF NewEntry
  <2>4. db'[t].status = "PENDING" /\ \A u \in TxId : u # t => db'[u] = db[u]
    <3>1. /\ db'[t] = [status |-> "PENDING", tx |-> e]
          /\ \A u \in TxId : u # t => db'[u] = db[u]
      BY <2>1, <2>3, SaveTransactionRows
    <3> QED
      BY <3>1
  <2>5. RowQuiet(t) /\ ~OpenRow(t)
    BY <2>2, <2>4 DEF RowQuiet, EverSent, OpenRow
  <2> QED
    BY <2>2, <2>4, <2>5, OneRowQuiet, SameQuiet DEF QuietStep
<1>2. CASE AdmitUnestimable(t)
  <2>1. PICK e \in Entry :
          e = [NewEntry(t, e.nonce) EXCEPT !.failed = TRUE] /\ SaveTransaction(e, "FAILED")
    BY <1>2, AdmitUnestimableEffect
  <2>2. db[t].status = "absent" /\ op = Idle /\ UNCHANGED <<audit, inq, minedq, op, moved>>
    BY <1>2, AdmitUnestimableEffect
  <2>3. e.id = t
    BY <2>1 DEF NewEntry
  <2>4. db'[t].status = "FAILED" /\ \A u \in TxId : u # t => db'[u] = db[u]
    <3>1. /\ db'[t] = [status |-> "FAILED", tx |-> e]
          /\ \A u \in TxId : u # t => db'[u] = db[u]
      BY <2>1, <2>3, SaveTransactionRows
    <3> QED
      BY <3>1
  <2>5. RowQuiet(t) /\ ~OpenRow(t)
    BY <2>2, <2>4 DEF RowQuiet, EverSent, OpenRow
  <2> QED
    BY <2>2, <2>4, <2>5, OneRowQuiet, SameQuiet DEF QuietStep
<1>3. CASE AdmitUnsaved(t)
  <2>1. UNCHANGED <<db, audit, inq, minedq, op, moved>>
    BY <1>3, AdmitUnsavedEffect DEF rowVars
  <2> QED
    BY <2>1, SameQuiet DEF QuietStep
<1>4. CASE CancelPending(t) \/ ReplacePending(t)
  <2>1. PICK i \in DOMAIN pendq, e \in Entry :
          SameLinks(e, pendq[i]) /\ SaveTransaction(e, "PENDING")
    BY <1>4, EditEffect
  <2>2. UNCHANGED <<audit, inq, minedq, op, moved>>
    BY <1>4, EditEffect
  <2>3. pendq[i] \in Held /\ pendq[i] \in Pending
    BY <2>1 DEF Held, Pending
  <2>4. e.nonce = db[e.id].tx.nonce /\ db[e.id].status = "PENDING"
    BY <2>1, <2>3 DEF SameLinks, NoncesApart, RowNonces, Placed, QueuesPlaced, StatusPlaced
  <2>5. /\ e.id \in TxId /\ db'[e.id].status = "PENDING" /\ db'[e.id].tx.nonce = e.nonce
        /\ \A u \in TxId : u # e.id => db'[u] = db[u]
    <3>1. /\ e.id \in TxId /\ db'[e.id] = [status |-> "PENDING", tx |-> e]
          /\ \A u \in TxId : u # e.id => db'[u] = db[u]
      BY <2>1, SaveTransactionRows
    <3> QED
      BY <3>1
  <2>6. RowQuiet(e.id) /\ OpenRow(e.id)'
    BY <2>4, <2>5 DEF RowQuiet, EverSent, OpenRow
  <2> QED
    BY <2>2, <2>5, <2>6, OneRowQuiet, SameQuiet DEF QuietStep
<1>5. ASSUME NEW k \in {"cancel", "replace"}, SendRival(t, k) PROVE SendStep
  BY <1>5, RivalsSend
<1> QED
  BY <1>1, <1>2, <1>3, <1>4, <1>5 DEF Api, CancelInmempool, ReplaceInmempool

\* What is left when the front leaves was there.
LEMMA TailQuiet ==
  ASSUME TypeOK, inq # <<>>, inq' = Tail(inq),
         \A t \in minedq' : \/ t \in minedq \/ ~OpenRow(t)'
                            \/ \E e \in InMempool : e.id = t /\ Mined(e)
  PROVE  QueueQuiet
<1>1. \A i \in DOMAIN inq' : i + 1 \in DOMAIN inq /\ inq'[i] = inq[i + 1]
  BY DEF TypeOK
<1>2. \A i \in DOMAIN inq' : KnownContest(inq'[i])
  BY <1>1 DEF KnownContest, SameContest
<1>3. InMempool' \subseteq InMempool
  BY TailMembers
<1> QED
  BY <1>2, <1>3 DEF QueueQuiet, KnownHash

\* The loops send the front of a queue, or act on a receipt.
LEMMA LoopKinds ==
  ASSUME TypeOK, RowsRecorded, Placed, NoncesApart, Loops
  PROVE  SendStep \/ QuietStep
<1>0. /\ \A u \in TxId : db[u].tx.id = u
      /\ \A e \in Held : e.nonce = db[e.id].tx.nonce /\ e.id \in TxId /\ e \in Entry
  BY HeldType DEF RowsRecorded, NoncesApart, RowNonces
<1>1. CASE SendPending \/ BumpGas
  BY <1>1, LoopsSend
<1>2. CASE EstimateRejects
  <2>1. /\ Head(pendq) \in Pending /\ op'.at = "rejected" /\ op'.tx = Head(pendq)
        /\ UNCHANGED <<db, audit, inq, minedq, moved>>
    BY <1>2, EstimateRejectsEffect DEF rowVars, queueVars
  <2>2. ~EverSent(Head(pendq).id)
    BY <2>1 DEF Placed, QueuesPlaced, StatusPlaced, EverSent
  <2>3. FlightQuiet
    BY <2>1, <2>2 DEF FlightQuiet, InFlight, KnownHash
  <2> QED
    BY <2>1, <2>3, SameQuiet DEF QuietStep
<1>3. CASE ResolveReceipt
  <2>1. inq # <<>> /\ inq' = Tail(inq) /\ UNCHANGED <<audit, moved>>
    BY <1>3, ResolveReceiptEffect
  <2>2. PICK a \in Entry, x \in Entry, s \in {"MINED", "FAILED", "EXPIRED"} :
          /\ a = Active(Head(inq)) /\ WinnerRow(x, a, s) /\ SaveTransaction(x, s)
          /\ minedq' = IF s = "MINED" THEN minedq \cup {a.id} ELSE minedq
          /\ IF s = "MINED" /\ Head(inq).comp # None
             THEN op'.at = "settling" /\ op'.tx = Loser(Head(inq))
             ELSE op' = Idle
    BY <1>3, ResolveReceiptEffect
  <2>3. PICK c \in Contest : c = Head(inq) /\ c = inq[1] /\ Sides(c) \subseteq InMempool
    BY <2>1, FrontOfInmempool
  <2>4. /\ a \in InMempool /\ a \in Held /\ c.orig \in InMempool
        /\ a = Active(c) /\ (c.comp # None => a = c.comp)
    BY <2>2, <2>3, SidesType DEF Held
  <2>5. Mined(a)
    BY <1>3, <2>2 DEF ResolveReceipt, Mined, HasReceipt
  <2>6. x.id = a.id /\ x.nonce = db[x.id].tx.nonce /\ x.id \in TxId
    BY <1>0, <2>2, <2>4 DEF WinnerRow
  <2>7. /\ db'[a.id].status = s /\ db'[a.id].tx.nonce = x.nonce
        /\ \A u \in TxId : u # a.id => db'[u] = db[u]
    <3>1. /\ db'[x.id] = [status |-> s, tx |-> x]
          /\ \A u \in TxId : u # x.id => db'[u] = db[u]
      BY <2>2, SaveTransactionRows
    <3> QED
      BY <2>6, <3>1
  <2>8. RowsQuiet
    <3>1. RowQuiet(a.id) /\ ~OpenRow(a.id)'
      BY <2>6, <2>7 DEF RowQuiet, EverSent, OpenRow
    <3>2. Closes(a.id)
      BY <2>4, <2>5 DEF Closes
    <3> QED
      BY <2>6, <2>7, <3>1, <3>2, OneRowQuiet
  <2>9. QueueQuiet
    <3>1. s = "MINED" => ~OpenRow(a.id)'
      BY <2>7 DEF OpenRow
    <3> QED
      BY <2>1, <2>2, <3>1, TailQuiet
  <2>10. FlightQuiet
    <3>1. CASE op' = Idle
      BY <2>1, <3>1, SameQuiet
    <3>2. CASE op'.at = "settling" /\ op'.tx = Loser(c) /\ c.comp # None
      <4>1. Loser(c).id = c.orig.id /\ Loser(c).hash = c.orig.hash
        BY <3>2, LoserIs
      <4>2. KnownHash(Loser(c))
        BY <2>4, <4>1 DEF KnownHash
      <4>3. InFlight' = {Loser(c)}
        BY <3>2 DEF InFlight
      <4>4. /\ inq[1].comp # None /\ Mined(inq[1].comp) /\ op'.tx.id = inq[1].orig.id
            /\ op'.at = "settling" /\ op'.at # "linking"
        BY <2>3, <2>4, <2>5, <3>2, <4>1
      <4> QED
        BY <2>1, <4>2, <4>3, <4>4 DEF FlightQuiet
    <3> QED
      BY <2>2, <2>3, <3>1, <3>2
  <2> QED
    BY <2>1, <2>8, <2>9, <2>10 DEF QuietStep
<1>4. CASE ResolveReceiptUnsaved
  <2>1. /\ op = Idle /\ inq # <<>> /\ inq' = Tail(inq)
        /\ UNCHANGED <<db, audit, op, moved>>
    BY <1>4, ResolveReceiptUnsavedEffect DEF rowVars
  <2>2. PICK a \in InMempool : a = Active(Head(inq))
    BY <2>1, FrontOfInmempool
  <2>3. minedq' = minedq \/ (minedq' = minedq \cup {a.id} /\ Mined(a))
    BY <1>4, <2>2, ResolveReceiptUnsavedEffect DEF Mined, MinedOk, HasReceipt
  <2> QED
    BY <2>1, <2>3, SameQuiet, TailQuiet DEF QuietStep
<1>5. ASSUME NEW t \in TxId, Confirm(t) PROVE QuietStep
  <2>1. /\ t \in minedq /\ SetStatus(t, "CONFIRMED") /\ op = Idle
        /\ minedq' = minedq \ {t} /\ UNCHANGED <<audit, inq, op, moved>>
    BY <1>5 DEF Confirm, MoveMiningToConfirmed, Ready, nodeVars
  <2>2. /\ db'[t].status = "CONFIRMED" /\ db'[t].tx = db[t].tx
        /\ \A u \in TxId : u # t => db'[u] = db[u]
    BY <2>1, SetStatusRows
  <2>3. RowsQuiet
    <3>1. RowQuiet(t) /\ Closes(t)
      BY <2>1, <2>2 DEF RowQuiet, EverSent, OpenRow, Closes
    <3> QED
      BY <2>2, <3>1, OneRowQuiet
  <2>4. QueueQuiet
    <3>1. \A i \in DOMAIN inq' : KnownContest(inq'[i])
      BY <2>1 DEF KnownContest, SameContest
    <3>2. InMempool' = InMempool
      BY <2>1, SameMembers
    <3> QED
      BY <2>1, <3>1, <3>2 DEF QueueQuiet, KnownHash
  <2> QED
    BY <2>1, <2>3, <2>4, SameQuiet DEF QuietStep
<1> QED
  BY <1>1, <1>2, <1>3, <1>4, <1>5 DEF Loops

\* What joins the in-mempool queue was pending.
LEMMA JoinQuiet ==
  ASSUME TypeOK, NEW e \in Entry, MovePendingToInmempool(e), UNCHANGED minedq,
         db[e.id].status = "PENDING", NEW f \in Held, f.id = e.id, f.by = e.by
  PROVE  QueueQuiet
<1>1. CASE UNCHANGED inq
  BY <1>1, SameQuiet
<1>2. CASE inq' = Append(inq, Alone(e))
  <2>1. \A i \in DOMAIN inq' : (i \in DOMAIN inq /\ inq'[i] = inq[i]) \/ inq'[i] = Alone(e)
    BY <1>2 DEF TypeOK
  <2>2. Joined(Alone(e))
    BY DEF Joined, Alone
  <2>3. \A i \in DOMAIN inq' : KnownContest(inq'[i])
    BY <2>1, <2>2 DEF KnownContest, SameContest
  <2>4. InMempool' \subseteq InMempool \cup {e}
    BY <1>2, AppendMembers
  <2>5. KnownHash(e)
    BY DEF KnownHash, EverSent
  <2> QED
    BY <2>3, <2>4, <2>5 DEF QueueQuiet, KnownHash
<1> QED
  BY <1>1, <1>2 DEF MovePendingToInmempool

\* What is polled is written again.
LEMMA FrontQuiet ==
  ASSUME TypeOK, Placed, inq # <<>>, NEW e \in Entry,
         e.id = Active(inq[1]).id, e.by = Active(inq[1]).by, KnownHash(e),
         inq' = [inq EXCEPT ![1] = WithTx(inq[1], e)], UNCHANGED minedq
  PROVE  QueueQuiet
<1>1. PICK c \in Contest : c = inq[1] /\ 1 \in DOMAIN inq
  BY FrontOfInmempool
<1>2. PICK d \in Contest : d = WithTx(c, e)
  BY WithTxSides
<1>3. SameContest(d, c)
  <2>1. CASE c.comp = None
    <3>1. Active(c) = c.orig
      BY <2>1, SidesType
    <3>2. d.orig = e /\ d.comp = None
      BY <1>1, <1>2, <2>1, <3>1, WithTxSides
    <3> QED
      BY <1>1, <2>1, <3>1, <3>2 DEF SameContest
  <2>2. CASE c.comp # None
    <3>1. Active(c) = c.comp
      BY <2>2, SidesType
    <3>2. c.comp.id # c.orig.id
      BY <1>1, <2>2 DEF Placed, QueuesPlaced, ContestsLinked
    <3>3. d.orig = c.orig /\ d.comp = e /\ d.comp # None
      BY <1>1, <1>2, <2>2, <3>1, <3>2, WithTxSides
    <3> QED
      BY <1>1, <2>2, <3>1, <3>3 DEF SameContest
  <2> QED
    BY <2>1, <2>2
<1>4. \A i \in DOMAIN inq' : i \in DOMAIN inq /\ inq'[i] = IF i = 1 THEN d ELSE inq[i]
  BY <1>1, <1>2
<1>5. \A i \in DOMAIN inq' : KnownContest(inq'[i])
  BY <1>1, <1>3, <1>4 DEF KnownContest, SameContest
<1>6. InMempool' \subseteq InMempool \cup {e}
  BY FrontRewritten
<1> QED
  BY <1>5, <1>6 DEF QueueQuiet, KnownHash

\* A sent row.
LEMMA SentQuiet ==
  ASSUME TypeOK, NEW t \in TxId, NEW h, SetSent(t, h),
         db[t].status = "PENDING" \/ (db[t].status = "INMEMPOOL" /\ h = db[t].tx.hash)
  PROVE  RowsQuiet
<1>1. /\ db'[t].status = "INMEMPOOL" /\ db'[t].tx.hash = h
      /\ db'[t].tx.nonce = db[t].tx.nonce /\ db'[t].tx.by = db[t].tx.by
      /\ \A u \in TxId : u # t => db'[u] = db[u]
  BY SetSentRows
<1>2. RowQuiet(t) /\ OpenRow(t)'
  BY <1>1 DEF RowQuiet, EverSent, OpenRow
<1> QED
  BY <1>1, <1>2, OneRowQuiet

\* The rest of a send.
LEMMA ContinueKinds ==
  ASSUME TypeOK, HashesRecorded, Placed, Links, NoncesApart, FlightRow, Continue
  PROVE  QuietStep
<1>0. /\ \A e \in Held : e.nonce = db[e.id].tx.nonce /\ e.id \in TxId /\ e \in Entry
      /\ op.at # "idle" => op.tx \in Held
      /\ \A e \in InMempool : e \in Held /\ db[e.id].status = "INMEMPOOL"
  BY HeldType DEF NoncesApart, RowNonces, Held, InFlight, Placed, QueuesPlaced, StatusPlaced
<1>1. ASSUME op.at # "idle", op.kind = "pending"
      PROVE  db[op.tx.id].status = "PENDING"
  <2>1. pendq # <<>> /\ pendq[1].id = op.tx.id
    BY <1>1 DEF Placed, FlightPlaced
  <2>2. pendq[1] \in Pending
    BY <2>1 DEF Pending, TypeOK
  <2> QED
    BY <2>1, <2>2 DEF Placed, QueuesPlaced, StatusPlaced
<1>2. ASSUME op.at # "idle", op.kind = "bump"
      PROVE  /\ inq # <<>> /\ Active(inq[1]).id = op.tx.id /\ Active(inq[1]) \in InMempool
             /\ db[op.tx.id].status = "INMEMPOOL"
  <2>1. inq # <<>> /\ Active(inq[1]).id = op.tx.id
    BY <1>2 DEF Placed, FlightPlaced
  <2>2. Active(inq[1]) \in InMempool
    BY <2>1, FrontOfInmempool
  <2> QED
    BY <1>0, <2>1, <2>2
<1>3. CASE Deliver
  <2>1. /\ UNCHANGED <<db, audit, inq, minedq, moved>>
        /\ op' = Idle \/ (op'.at \in {"accepted", "rejected", "conflict"} /\ op'.tx = op.tx)
        /\ op.at = "persisted"
    BY <1>3, DeliverEffect DEF rowVars, queueVars
  <2>2. FlightQuiet
    <3>1. CASE op' = Idle
      BY <2>1, <3>1, SameQuiet
    <3>2. CASE op'.at \in {"accepted", "rejected", "conflict"} /\ op'.tx = op.tx
      BY <2>1, <3>2 DEF FlightQuiet, InFlight
    <3> QED
      BY <2>1, <3>1, <3>2
  <2> QED
    BY <2>1, <2>2, SameQuiet DEF QuietStep
<1>4. CASE MarkPendingSent
  <2>1. /\ op.at = "accepted" /\ op.kind = "pending" /\ op.tx \in Entry
        /\ SetSent(op.tx.id, op.tx.hash)
        /\ op' = Idle /\ MovePendingToInmempool(op.tx)
        /\ UNCHANGED <<audit, minedq, moved>>
    BY <1>4, MarkPendingSentEffect
  <2>2. db[op.tx.id].status = "PENDING" /\ op.tx \in Held /\ op.tx.id \in TxId
    BY <1>0, <1>1, <2>1
  <2> QED
    BY <2>1, <2>2, SentQuiet, JoinQuiet, SameQuiet DEF QuietStep
<1>5. CASE MarkBumpSent
  <2>1. /\ op.at = "accepted" /\ op.kind = "bump" /\ op.tx \in Entry
        /\ SetSent(op.tx.id, op.tx.hash) /\ op' = Idle
        /\ inq' = [inq EXCEPT ![1] = WithTx(inq[1], op.tx)]
        /\ UNCHANGED <<audit, minedq, moved>>
    BY <1>5, MarkBumpSentEffect
  <2>2. /\ inq # <<>> /\ Active(inq[1]).id = op.tx.id /\ op.tx.id \in TxId
        /\ db[op.tx.id].status = "INMEMPOOL" /\ op.tx.by = Active(inq[1]).by
        /\ op.tx.hash = db[op.tx.id].tx.hash
    BY <1>0, <1>2, <2>1 DEF FlightRow
  <2>3. KnownHash(op.tx)
    BY <2>2 DEF KnownHash, OpenRow
  <2> QED
    BY <2>1, <2>2, <2>3, SentQuiet, FrontQuiet, SameQuiet DEF QuietStep
<1>6. CASE MarkRivalSent
  <2>1. /\ op.at = "accepted" /\ op.kind \in {"cancel", "replace"}
        /\ op.tx \in Entry /\ SetSent(op.tx.id, op.tx.hash)
        /\ op'.at = "linking" /\ op'.tx = op.tx
        /\ UNCHANGED <<audit, inq, minedq, moved>>
    BY <1>6, MarkRivalSentEffect DEF queueVars
  <2>2. db[op.tx.id].status = "PENDING" /\ op.tx.id \in TxId
    BY <1>0, <2>1 DEF Placed, FlightPlaced
  <2>3. FlightQuiet
    BY <2>1, <2>2 DEF FlightQuiet, InFlight
  <2> QED
    BY <2>1, <2>2, <2>3, SentQuiet, SameQuiet DEF QuietStep
<1>7. CASE LinkRival
  <2>1. /\ op.at = "linking" /\ op.kind \in {"cancel", "replace"} /\ op.tx \in Entry
        /\ op' = Idle /\ UNCHANGED <<audit, minedq, moved>>
    BY <1>7, LinkRivalEffect
  <2>2. PICK i \in DOMAIN inq, o \in Entry, c \in Contest :
          /\ inq[i].orig.id = op.tx.ext
          /\ o.id = inq[i].orig.id /\ o.nonce = inq[i].orig.nonce
          /\ o.hash = inq[i].orig.hash /\ o.by = op.tx.id
          /\ SaveTransaction(o, "INMEMPOOL")
          /\ c.orig = o /\ c.comp = op.tx /\ Sides(c) = {o, op.tx}
          /\ inq' = IF i = 1 THEN [inq EXCEPT ![1] = c] ELSE inq
    BY <1>7, LinkRivalEffect
  <2>3. inq[i].orig \in InMempool
    BY <2>2, SidesType DEF TypeOK, InMempool
  <2>4. /\ db[o.id].status = "INMEMPOOL" /\ o.nonce = db[o.id].tx.nonce /\ o.id \in TxId
        /\ o.id = op.tx.ext
    BY <1>0, <2>2, <2>3
  <2>5. /\ db'[o.id].status = "INMEMPOOL" /\ db'[o.id].tx.nonce = o.nonce
        /\ db'[o.id].tx.by = op.tx.id /\ db'[o.id].tx.hash = o.hash
        /\ \A u \in TxId : u # o.id => db'[u] = db[u]
    <3>1. /\ db'[o.id] = [status |-> "INMEMPOOL", tx |-> o]
          /\ \A u \in TxId : u # o.id => db'[u] = db[u]
      BY <2>2, SaveTransactionRows
    <3> QED
      BY <2>2, <3>1
  <2>6. Relinks(o.id)
    BY <2>1, <2>2, <2>3, <2>4, <2>5 DEF Relinks
  <2>7. RowsQuiet
    <3>1. RowQuiet(o.id) /\ OpenRow(o.id)'
      BY <2>4, <2>5, <2>6 DEF RowQuiet, EverSent, OpenRow
    <3> QED
      BY <2>4, <2>5, <3>1, OneRowQuiet
  <2>8. QueueQuiet
    <3>1. CASE i = 1
      <4>1. Raised(c)
        BY <2>1, <2>2, <2>4 DEF Raised
      <4>2. \A j \in DOMAIN inq' : j \in DOMAIN inq /\ inq'[j] = IF j = 1 THEN c ELSE inq[j]
        BY <2>2, <3>1
      <4>3. \A j \in DOMAIN inq' : KnownContest(inq'[j])
        BY <4>1, <4>2 DEF KnownContest, SameContest
      <4>4. KnownHash(o)
        BY <2>2, <2>3 DEF KnownHash
      <4>5. KnownHash(op.tx)
        BY <2>1 DEF KnownHash, FlightRow, Placed, FlightPlaced, OpenRow
      <4>6. InMempool' \subseteq InMempool \cup {o, op.tx}
        <5>1. inq' = [inq EXCEPT ![1] = c]
          BY <2>2, <3>1
        <5>2. InMempool' \subseteq InMempool \cup Sides(c)
          BY <5>1, FrontMembers
        <5> QED
          BY <2>2, <5>2
      <4> QED
        BY <2>1, <4>3, <4>4, <4>5, <4>6 DEF QueueQuiet, KnownHash
    <3>2. CASE i # 1
      BY <2>1, <2>2, <3>2, SameQuiet
    <3> QED
      BY <3>1, <3>2
  <2> QED
    BY <2>1, <2>7, <2>8, SameQuiet DEF QuietStep
<1>8. CASE CloseOut
  <2>1. /\ op.at = "rejected" /\ op.tx \in Entry /\ op' = Idle
        /\ UNCHANGED <<audit, inq, minedq, moved>>
    BY <1>8, CloseOutEffect
  <2>2. PICK e \in Entry : SameLinks(e, op.tx) /\ SaveTransaction(e, "PENDING")
    BY <1>8, CloseOutEffect
  <2>3. db[op.tx.id].status = "PENDING"
    BY <1>1, <2>1 DEF Placed, FlightPlaced
  <2>4. e.nonce = db[e.id].tx.nonce /\ db[e.id].status = "PENDING"
    BY <1>0, <2>1, <2>2, <2>3 DEF SameLinks
  <2>5. /\ e.id \in TxId /\ db'[e.id].status = "PENDING" /\ db'[e.id].tx.nonce = e.nonce
        /\ \A u \in TxId : u # e.id => db'[u] = db[u]
    <3>1. /\ e.id \in TxId /\ db'[e.id] = [status |-> "PENDING", tx |-> e]
          /\ \A u \in TxId : u # e.id => db'[u] = db[u]
      BY <2>2, SaveTransactionRows
    <3> QED
      BY <3>1
  <2>6. RowQuiet(e.id) /\ OpenRow(e.id)'
    BY <2>4, <2>5 DEF RowQuiet, EverSent, OpenRow
  <2> QED
    BY <2>1, <2>5, <2>6, OneRowQuiet, SameQuiet DEF QuietStep
<1>9. CASE AdoptLanded
  <2>1. /\ op.at = "conflict" /\ op.kind = "pending" /\ op.tx \in Entry /\ op' = Idle
        /\ UNCHANGED <<audit, minedq, moved>>
    BY <1>9, AdoptLandedEffect
  <2>2. PICK e \in Entry :
          /\ SameLinks(e, op.tx)
          /\ \/ SetSent(e.id, e.hash) /\ MovePendingToInmempool(e)
             \/ UNCHANGED <<db, pendq, inq>>
    BY <1>9, AdoptLandedEffect
  <2>3. /\ db[e.id].status = "PENDING" /\ op.tx \in Held /\ e.id \in TxId
        /\ op.tx.id = e.id /\ op.tx.by = e.by
    BY <1>0, <1>1, <2>1, <2>2 DEF SameLinks
  <2>4. CASE SetSent(e.id, e.hash) /\ MovePendingToInmempool(e)
    BY <2>1, <2>3, <2>4, SentQuiet, JoinQuiet, SameQuiet DEF QuietStep
  <2>5. CASE UNCHANGED <<db, pendq, inq>>
    BY <2>1, <2>5, SameQuiet DEF QuietStep
  <2> QED
    BY <2>2, <2>4, <2>5
<1>10. ASSUME op.at = "conflict", ~HasReceipt(op.tx.hash), NEW n \in Nat, OpenRow(op.tx.id),
              db'[op.tx.id].status = db[op.tx.id].status,
              db'[op.tx.id].tx = AtNonce(db[op.tx.id].tx, n),
              \A u \in TxId : u # op.tx.id => db'[u] = db[u]
       PROVE  RowsQuiet
  <2>1. op.tx.id \in TxId
    BY <1>0, <1>10
  <2>2. db[op.tx.id].tx \in Entry
    BY <2>1, RowTx
  <2>3. db'[op.tx.id].tx.hash = db[op.tx.id].tx.hash /\ db'[op.tx.id].tx.by = db[op.tx.id].tx.by
    BY <1>10, <2>2, AtNonceType
  <2>4. PICK t \in TxId : t = op.tx.id
    BY <2>1
  <2>5. RowQuiet(t) /\ OpenRow(t)'
    BY <1>10, <2>3, <2>4 DEF RowQuiet, Renumbers, EverSent, OpenRow
  <2> QED
    BY <1>10, <2>4, <2>5, OneRowQuiet
<1>11. CASE ReassignPending
  <2>1. /\ op.at = "conflict" /\ op.kind = "pending" /\ op' = Idle
        /\ \A i \in DOMAIN audit[op.tx.id] : ~Exists(audit[op.tx.id][i])
        /\ UNCHANGED <<audit, inq, minedq, moved>>
    BY <1>11, ReassignPendingEffect
  <2>2. PICK n \in Nat :
          /\ db'[op.tx.id].status = db[op.tx.id].status
          /\ db'[op.tx.id].tx = AtNonce(db[op.tx.id].tx, n)
          /\ \A u \in TxId : u # op.tx.id => db'[u] = db[u]
    BY <1>11, ReassignPendingEffect
  <2>3. RecordedFor(op.tx.id, op.tx.hash)
    BY <1>0, <2>1 DEF HashesRecorded, FlightSigned, HeldRecorded, OnRecord
  <2>4. ~HasReceipt(op.tx.hash)
    BY <2>1, <2>3 DEF RecordedFor, Exists
  <2>5. RowsQuiet
    BY <1>1, <1>10, <2>1, <2>2, <2>4 DEF OpenRow
  <2> QED
    BY <2>1, <2>5, SameQuiet DEF QuietStep
<1>12. CASE ReassignInmempool
  <2>1. /\ op.at = "conflict" /\ op.kind = "bump" /\ op' = Idle
        /\ moved' = moved \cup {op.tx.id} /\ UNCHANGED <<audit, minedq>>
    BY <1>12, ReassignInmempoolEffect
  <2>2. PICK n \in Nat :
          /\ db'[op.tx.id].status = db[op.tx.id].status
          /\ db'[op.tx.id].tx = AtNonce(db[op.tx.id].tx, n)
          /\ \A u \in TxId : u # op.tx.id => db'[u] = db[u]
          /\ inq' = [inq EXCEPT ![1] = WithTx(inq[1], AtNonce(Active(inq[1]), n))]
    BY <1>12, ReassignInmempoolEffect
  <2>3. ~HasReceipt(op.tx.hash)
    BY <1>12 DEF ReassignInmempool
  <2>4. /\ inq # <<>> /\ db[op.tx.id].status = "INMEMPOOL" /\ op.tx.id \in TxId
        /\ Active(inq[1]) \in InMempool
    BY <1>0, <1>2, <2>1
  <2>5. RowsQuiet
    BY <1>10, <2>1, <2>2, <2>3, <2>4 DEF OpenRow
  <2>6. PICK a \in Entry : a = Active(inq[1])
    BY <2>4, FrontOfInmempool
  <2>7. PICK e \in Entry : e = AtNonce(a, n) /\ e.id = a.id /\ e.hash = a.hash /\ e.by = a.by
    BY AtNonceType
  <2>8. KnownHash(e)
    BY <2>4, <2>6, <2>7 DEF KnownHash
  <2>9. QueueQuiet
    BY <2>1, <2>2, <2>4, <2>6, <2>7, <2>8, FrontQuiet
  <2>10. Renumbers(op.tx.id) /\ EverSent(op.tx.id)
    <3>1. db[op.tx.id].tx \in Entry
      BY <2>4, RowTx
    <3>2. db'[op.tx.id].tx.hash = db[op.tx.id].tx.hash
      BY <2>2, <3>1, AtNonceType
    <3> QED
      BY <2>1, <2>3, <2>4, <3>2 DEF Renumbers, EverSent
  <2>11. FlightQuiet
    BY <2>1, <2>10, SameMembers DEF FlightQuiet, Idle
  <2> QED
    BY <2>1, <2>5, <2>9, <2>11 DEF QuietStep
<1>13. CASE ConflictMined \/ StepFails
  <2>1. op' = Idle /\ UNCHANGED <<db, audit, inq, minedq, moved>>
    BY <1>13, StopEffect DEF rowVars, queueVars
  <2> QED
    BY <2>1, SameQuiet DEF QuietStep
<1>14. CASE SettleLoser
  <2>1. /\ op.at = "settling" /\ op' = Idle /\ op.tx \in Entry
        /\ UNCHANGED <<audit, inq, minedq, moved>>
    BY <1>14, SettleLoserEffect DEF queueVars
  <2>2. PICK s \in {"CANCELLED", "REPLACED"} : SaveTransaction(op.tx, s)
    BY <1>14, SettleLoserEffect
  <2>3. op.tx.id \in TxId /\ op.tx.nonce = db[op.tx.id].tx.nonce
    BY <1>0, <2>1
  <2>4. /\ db'[op.tx.id].status = s /\ db'[op.tx.id].tx.nonce = op.tx.nonce
        /\ \A u \in TxId : u # op.tx.id => db'[u] = db[u]
    <3>1. /\ db'[op.tx.id] = [status |-> s, tx |-> op.tx]
          /\ \A u \in TxId : u # op.tx.id => db'[u] = db[u]
      BY <2>1, <2>2, SaveTransactionRows
    <3> QED
      BY <3>1
  <2>5. PICK t \in TxId : t = op.tx.id
    BY <2>3
  <2>6. RowQuiet(t) /\ Closes(t)
    BY <2>1, <2>3, <2>4, <2>5 DEF RowQuiet, EverSent, OpenRow, Closes
  <2> QED
    BY <2>1, <2>4, <2>5, <2>6, OneRowQuiet, SameQuiet DEF QuietStep
<1> QED
  BY <1>3, <1>4, <1>5, <1>6, <1>7, <1>8, <1>9, <1>11, <1>12, <1>13, <1>14 DEF Continue

\* A crash, and the steps of a startup.
LEMMA StartupKinds ==
  ASSUME TypeOK, RowsRecorded, Placed, Crash \/ Startup \/ Setback
  PROVE  QuietStep
<1>1. CASE Crash
  <2>1. /\ op' = Idle /\ UNCHANGED <<db, audit, moved>> /\ minedq' = {} /\ inq' = <<>>
        /\ InMempool' = {}
    BY <1>1, CrashEffect DEF rowVars
  <2>2. DOMAIN inq' = {}
    BY <2>1
  <2> QED
    BY <2>1, <2>2, SameQuiet DEF QuietStep, QueueQuiet
<1>2. CASE RepairPoisoned
  <2>1. /\ boot = "down" /\ UNCHANGED <<audit, inq, minedq, op, moved>>
        /\ db' = [t \in TxId |->
                    IF t \in With("PENDING") /\ db[t].tx.failed /\ db[t].tx.hash = None
                    THEN [db[t] EXCEPT !.status = "FAILED"] ELSE db[t]]
    BY <1>2 DEF RepairPoisoned, queueVars
  <2>2. ASSUME NEW t \in TxId
        PROVE  RowQuiet(t) /\ (OpenRow(t) => OpenRow(t)' \/ Closes(t))
    <3>1. CASE db'[t] = db[t]
      BY <3>1 DEF RowQuiet, EverSent, OpenRow
    <3>2. CASE db'[t] # db[t]
      <4>1. /\ db[t].status = "PENDING" /\ db[t].tx.failed
            /\ db'[t] = [db[t] EXCEPT !.status = "FAILED"]
        BY <2>1, <3>2 DEF With
      <4>2. db'[t].status = "FAILED" /\ db'[t].tx = db[t].tx
        BY <4>1, RowTx DEF Row
      <4> QED
        BY <2>1, <4>1, <4>2 DEF RowQuiet, EverSent, OpenRow, Closes
    <3> QED
      BY <3>1, <3>2
  <2> QED
    BY <2>1, <2>2, SameQuiet DEF QuietStep, RowsQuiet
<1>3. CASE RepairAttempts
  <2>1. /\ boot = "unpoisoned" /\ UNCHANGED <<audit, inq, minedq, op, moved>>
        /\ db' = [t \in TxId |-> RepairedRow(t)]
    BY <1>3 DEF RepairAttempts, queueVars
  <2>2. ASSUME NEW t \in TxId
        PROVE  RowQuiet(t) /\ (OpenRow(t) => OpenRow(t)' \/ Closes(t))
    <3>1. db'[t] = RepairedRow(t)
      BY <2>1
    <3>2. CASE db'[t] = db[t]
      BY <3>2 DEF RowQuiet, EverSent, OpenRow
    <3>3. CASE db'[t] # db[t] /\ FirstLanded(t) # None
      <4>1. /\ db[t].status = "PENDING"
            /\ db'[t] = [status |-> "INMEMPOOL", tx |-> [db[t].tx EXCEPT !.hash = FirstLanded(t)]]
        BY <3>1, <3>3 DEF RepairedRow, With
      <4>2. /\ db'[t].status = "INMEMPOOL" /\ db'[t].tx.by = db[t].tx.by
            /\ db'[t].tx.nonce = db[t].tx.nonce
        BY <4>1, RowTx DEF Entry
      <4> QED
        BY <4>1, <4>2 DEF RowQuiet, EverSent, OpenRow
    <3>4. CASE db'[t] # db[t] /\ FirstLanded(t) = None
      <4>1. /\ db[t].status = "PENDING"
            /\ db'[t] = [status |-> "FAILED", tx |-> [db[t].tx EXCEPT !.failed = TRUE]]
        BY <3>1, <3>4 DEF RepairedRow, With
      <4>2. db'[t].status = "FAILED" /\ db'[t].tx.nonce = db[t].tx.nonce
        BY <4>1, RowTx DEF Entry
      <4>3. \A i \in DOMAIN audit[t] : ~Exists(audit[t][i])
        BY <3>4, FirstLandedKnown
      <4> QED
        BY <2>1, <4>1, <4>2, <4>3 DEF RowQuiet, EverSent, OpenRow, Closes
    <3> QED
      BY <3>2, <3>3, <3>4
  <2> QED
    BY <2>1, <2>2, SameQuiet DEF QuietStep, RowsQuiet
<1>4. CASE LoadQueues
  <2>1. /\ boot = "repaired" /\ UNCHANGED <<db, audit, op, moved, chain>>
        /\ minedq' = With("MINED")
        /\ \A i \in DOMAIN inq' : inq'[i] \in Contests
        /\ \A e \in InMempool' : \E t \in With("INMEMPOOL") : e = db[t].tx
    BY <1>4, LoadQueuesEffect DEF rowVars
  <2>2. \A t \in TxId : db[t].tx.id = t /\ db[t].tx \in Entry
    BY RowTx DEF RowsRecorded
  <2>3. ASSUME NEW c \in Contests PROVE Loaded(c)
    <3>1. PICK e \in LiveEntries : c = ContestOf(e)
      BY DEF Contests
    <3>2. PICK t \in With("INMEMPOOL") : e = db[t].tx
      BY <3>1 DEF LiveEntries
    <3>3. t \in TxId /\ db[t].status = "INMEMPOOL" /\ e.id = t
      BY <2>2, <3>2 DEF With
    <3>4. CASE RivalsOf(e) = {}
      <4>1. c = Alone(e)
        BY <3>1, <3>4 DEF ContestOf
      <4>2. c.orig = e /\ c.comp = None
        BY <4>1 DEF Alone
      <4>3. ASSUME NEW d \in TxId, e.by = d, db[d].status = "INMEMPOOL" PROVE FALSE
        <5>1. db[d].tx \in RivalsOf(e)
          BY <2>2, <4>3 DEF RivalsOf, LiveEntries, With
        <5> QED
          BY <3>4, <5>1
      <4> QED
        BY <2>1, <3>2, <3>3, <4>2, <4>3 DEF Loaded
    <3>5. CASE RivalsOf(e) # {}
      <4>1. PICK r \in RivalsOf(e) :
              c = [orig |-> e, comp |-> r,
                   kind |-> IF r.payload = Noop THEN "cancel" ELSE "replace"]
        BY <3>1, <3>5 DEF ContestOf
      <4>2. r \in LiveEntries /\ r.id = e.by
        BY <4>1 DEF RivalsOf
      <4>3. r \in Entry
        BY <2>2, <4>2 DEF LiveEntries, With
      <4>4. r # None
        BY <4>3, NoneIsNoEntry
      <4>5. c.orig = e /\ c.comp = r
        BY <4>1
      <4> QED
        BY <2>1, <3>2, <3>3, <4>2, <4>4, <4>5 DEF Loaded
    <3> QED
      BY <3>4, <3>5
  <2>4. \A e \in InMempool' : KnownHash(e)
    BY <2>1, <2>2 DEF KnownHash, With, OpenRow
  <2>5. \A t \in minedq' : ~OpenRow(t)'
    BY <2>1 DEF With, OpenRow
  <2>6. QueueQuiet
    BY <2>1, <2>3, <2>4, <2>5 DEF QueueQuiet, KnownContest
  <2> QED
    BY <2>1, <2>6, SameQuiet DEF QuietStep
<1>5. CASE Setback
  <2>1. UNCHANGED <<audit, inq, minedq, op, moved>>
    BY <1>5, SetbackEffect
  <2>2. ASSUME NEW t \in TxId
        PROVE  RowQuiet(t) /\ (OpenRow(t) => OpenRow(t)' \/ Closes(t))
    <3>1. CASE db'[t] = db[t]
      BY <3>1 DEF RowQuiet, EverSent, OpenRow
    <3>2. CASE db'[t] # db[t]
      <4>1. /\ db[t].status = "PENDING"
            /\ db'[t] = [status |-> "INMEMPOOL", tx |-> [db[t].tx EXCEPT !.hash = FirstLanded(t)]]
        BY <1>5, <3>2, SetbackRow DEF RepairedRow, With
      <4>2. /\ db'[t].status = "INMEMPOOL" /\ db'[t].tx.by = db[t].tx.by
            /\ db'[t].tx.nonce = db[t].tx.nonce
        BY <4>1, RowTx DEF Entry
      <4> QED
        BY <4>1, <4>2 DEF RowQuiet, EverSent, OpenRow
    <3> QED
      BY <3>1, <3>2
  <2> QED
    BY <2>1, <2>2, SameQuiet DEF QuietStep, RowsQuiet
<1> QED
  BY <1>1, <1>2, <1>3, <1>4, <1>5 DEF Startup

\* Every step is the start of a send, or leaves the audit log as it is.
LEMMA StepKinds ==
  ASSUME TypeOK, HashesRecorded, Placed, Links, NoncesApart, FlightRow, [Next]_vars
  PROVE  SendStep \/ QuietStep
<1>1. ASSUME NEW t \in TxId, Api(t) PROVE SendStep \/ QuietStep
  BY <1>1, ApiKinds DEF HashesRecorded
<1>2. CASE Loops
  BY <1>2, LoopKinds DEF HashesRecorded
<1>3. CASE Continue
  BY <1>3, ContinueKinds
<1>4. CASE Crash \/ Startup \/ Setback
  BY <1>4, StartupKinds DEF HashesRecorded
<1>5. CASE Network \/ (\E t \in TxId : Expire(t)) \/ UNCHANGED vars
  <2>1. UNCHANGED <<db, audit, inq, minedq, op, moved>>
    BY <1>5 DEF Network, Expire, vars, rowVars, queueVars
  <2> QED
    BY <2>1, SameQuiet DEF QuietStep
<1> QED
  BY <1>1, <1>2, <1>3, <1>4, <1>5 DEF Next, Setback

\* What is in flight after a step.
LEMMA FlightKinds ==
  ASSUME TypeOK, HashesRecorded, Placed, NoncesApart, [Next]_vars
  PROVE  \/ op' = Idle
         \/ SendStep
         \/ op'.at = "rejected" /\ op'.kind = "pending"
         \/ op'.at = "settling" /\ op'.kind # "bump"
         \/ /\ UNCHANGED <<db, inq>> /\ op'.kind = op.kind /\ op'.tx = op.tx
            /\ op'.at = op.at \/ (op.at = "persisted" /\ op'.at # "linking")
         \/ /\ op.at = "accepted" /\ op'.at = "linking" /\ op'.kind = op.kind /\ op'.tx = op.tx
            /\ op.tx.id \in TxId /\ op.kind # "bump" /\ SetSent(op.tx.id, op.tx.hash)
<1>1. ASSUME NEW t \in TxId, Api(t) PROVE op' = Idle \/ SendStep
  <2>1. ASSUME NEW k \in {"cancel", "replace"}, SendRival(t, k) PROVE SendStep
    BY <2>1, RivalsSend
  <2>2. CASE Admit(t) \/ AdmitUnestimable(t) \/ AdmitUnsaved(t)
    BY <2>2, AdmitEffect, AdmitUnestimableEffect, AdmitUnsavedEffect
  <2>3. CASE CancelPending(t) \/ ReplacePending(t)
    BY <2>3, EditEffect
  <2> QED
    BY <1>1, <2>1, <2>2, <2>3 DEF Api, CancelInmempool, ReplaceInmempool
<1>2. CASE Loops
  <2>1. CASE SendPending \/ BumpGas
    BY <2>1, LoopsSend
  <2>2. CASE EstimateRejects
    BY <2>2, EstimateRejectsEffect
  <2>3. CASE ResolveReceipt
    <3>1. /\ inq # <<>>
          /\ \/ op' = Idle
             \/ /\ op'.at = "settling" /\ op'.kind = Head(inq).kind
                /\ Head(inq).comp # None
      BY <2>3, ResolveReceiptEffect
    <3>2. Head(inq) \in Contest
      BY <3>1, FrontOfInmempool
    <3> QED
      BY <3>1, <3>2, LoserIs
  <2>4. CASE ResolveReceiptUnsaved \/ \E t \in TxId : Confirm(t)
    BY <2>4, ResolveReceiptUnsavedEffect DEF Confirm, Ready
  <2> QED
    BY <1>2, <2>1, <2>2, <2>3, <2>4 DEF Loops
<1>3. CASE Continue
  <2>1. CASE Deliver
    BY <2>1, DeliverEffect DEF rowVars, queueVars
  <2>2. CASE MarkRivalSent
    <3>1. op.tx \in Entry
      BY <2>2, MarkRivalSentEffect
    <3> QED
      BY <2>2, <3>1, MarkRivalSentEffect DEF Entry
  <2> QED
    BY <1>3, <2>1, <2>2, MarkPendingSentEffect, MarkBumpSentEffect, LinkRivalEffect,
       CloseOutEffect, AdoptLandedEffect, ReassignPendingEffect, ReassignInmempoolEffect,
       StopEffect, SettleLoserEffect DEF Continue
<1>4. CASE Crash \/ Startup \/ Setback
  BY <1>4, CrashEffect, RepairEffect, LoadQueuesEffect
     DEF Startup, Repairing, Placed, NothingHeld
<1>5. CASE Network \/ (\E t \in TxId : Expire(t)) \/ UNCHANGED vars
  BY <1>5 DEF Network, Expire, vars, rowVars, queueVars
<1> QED
  BY <1>1, <1>2, <1>3, <1>4, <1>5 DEF Next, Setback

\* The row in flight keeps the hash in flight until the operation ends.
LEMMA FlightRowStays ==
  ASSUME TypeOK, HashesRecorded, Placed, NoncesApart, FlightRow, [Next]_vars
  PROVE  FlightRow'
<1>1. CASE op' = Idle \/ (op'.at = "rejected" /\ op'.kind = "pending")
            \/ (op'.at = "settling" /\ op'.kind # "bump")
  BY <1>1 DEF FlightRow, Idle
<1>2. CASE SendStep
  <2>1. PICK e \in Entry, f \in Entry, k \in Kind :
          FrontSent(e, k) /\ Sends(e, IF k = "bump" THEN "INMEMPOOL" ELSE "PENDING", k, f)
    BY <1>2 DEF SendStep
  <2>2. /\ op'.at = "persisted" /\ op'.kind = k /\ op'.tx = f /\ inq' = inq
        /\ f.id = e.id /\ f.by = e.by /\ db'[e.id].tx.hash = f.hash
    BY <2>1 DEF Sends, SignedCopy, SameButFailed
  <2>3. k = "bump" => f.by = Active(inq[1]).by
    BY <2>1, <2>2 DEF FrontSent
  <2> QED
    BY <2>2, <2>3 DEF FlightRow, Active
<1>3. CASE /\ UNCHANGED <<db, inq>> /\ op'.kind = op.kind /\ op'.tx = op.tx
           /\ op'.at = op.at \/ (op.at = "persisted" /\ op'.at # "linking")
  BY <1>3 DEF FlightRow, Active
<1>4. CASE /\ op.at = "accepted" /\ op'.at = "linking" /\ op'.kind = op.kind /\ op'.tx = op.tx
           /\ op.tx.id \in TxId /\ op.kind # "bump" /\ SetSent(op.tx.id, op.tx.hash)
  <2>1. db'[op.tx.id].tx.hash = op.tx.hash
    BY <1>4, SetSentRows
  <2> QED
    BY <1>4, <2>1 DEF FlightRow
<1> QED
  BY <1>1, <1>2, <1>3, <1>4, FlightKinds

-----------------------------------------------------------------------------
(***************************************************************************)
(* A live broadcast keeps its nonce.                                        *)
(***************************************************************************)
\* An attempt has the nonce of its row, or one the chain is past, also after a move.
AttemptsBelow ==
  \A t \in TxId : \A i \in DOMAIN audit[t] :
    audit[t][i].nonce = db[t].tx.nonce \/ audit[t][i].nonce < Len(chain)

\* Only what was sent is moved, and no rival is before it is linked.
MovedSent ==
  /\ \A t \in moved : EverSent(t)
  /\ op.at = "linking" => op.tx.id \notin moved

\* What a send does to the row it sends, and to nothing else.
Sent(e, f, k) ==
  /\ e \in Entry /\ f \in Entry /\ FrontSent(e, k)
  /\ e.id \in TxId /\ f.id = e.id /\ f.by = e.by /\ f.nonce = e.nonce
  /\ f.hash # None /\ f.hash.nonce = e.nonce
  /\ db'[e.id].tx.nonce = e.nonce /\ db'[e.id].tx.by = e.by /\ db'[e.id].tx.hash = f.hash
  /\ \/ db[e.id].tx.nonce = e.nonce /\ db'[e.id].status = db[e.id].status
     \/ db[e.id].status = "absent" /\ db'[e.id].status = "PENDING"
  /\ k = "bump" => db[e.id].status = "INMEMPOOL"
  /\ k # "bump" => db'[e.id].status = "PENDING"
  /\ \A t \in TxId : t # e.id => db'[t] = db[t] /\ audit'[t] = audit[t]
  /\ RecordedFor(e.id, f.hash)'
  /\ \A i \in DOMAIN audit'[e.id] :
       audit'[e.id][i] = f.hash \/ RecordedFor(e.id, audit'[e.id][i])
  /\ op = Idle /\ op' = [at |-> "persisted", kind |-> k, tx |-> f]
  /\ UNCHANGED <<pendq, inq, minedq, nm, boot, moved, chain, pool, stray, left>>

LEMMA SendStepSends ==
  ASSUME TypeOK, Placed, NoncesApart, SendStep
  PROVE  \E e \in Entry, f \in Entry, k \in Kind : Sent(e, f, k)
<1>1. PICK e \in Entry, f \in Entry, k \in Kind :
        FrontSent(e, k) /\ Sends(e, IF k = "bump" THEN "INMEMPOOL" ELSE "PENDING", k, f)
  BY DEF SendStep
<1>2. /\ e.id \in TxId /\ f.id = e.id /\ f.by = e.by /\ f.nonce = e.nonce
      /\ f.hash # None /\ f.hash.nonce = e.nonce
      /\ db'[e.id].status = IF k = "bump" THEN "INMEMPOOL" ELSE "PENDING"
      /\ db'[e.id].tx.nonce = e.nonce /\ db'[e.id].tx.by = e.by /\ db'[e.id].tx.hash = f.hash
  BY <1>1 DEF Sends, SignedCopy, SameButFailed, Entry
<1>3. PICK h : h = f.hash
  OBVIOUS
<1>4. PICK t \in TxId : t = e.id
  BY <1>2
<1>5. \E i \in DOMAIN audit'[t] : audit'[t][i] = h
  BY <1>1, <1>3, <1>4 DEF Sends
<1>6. RecordedFor(t, h)'
  BY <1>5 DEF RecordedFor
<1>7. ASSUME e \in Pending PROVE db[e.id].status = "PENDING" /\ db[e.id].tx.nonce = e.nonce
  BY <1>7 DEF Placed, QueuesPlaced, StatusPlaced, NoncesApart, RowNonces, Held
<1>8. ASSUME inq # <<>>, e = Active(inq[1])
      PROVE  db[e.id].status = "INMEMPOOL" /\ db[e.id].tx.nonce = e.nonce
  <2>1. e \in InMempool
    BY <1>8, FrontOfInmempool
  <2> QED
    BY <2>1 DEF Placed, QueuesPlaced, StatusPlaced, NoncesApart, RowNonces, Held
<1>9. /\ \/ db[e.id].tx.nonce = e.nonce /\ db'[e.id].status = db[e.id].status
         \/ db[e.id].status = "absent" /\ db'[e.id].status = "PENDING"
      /\ k = "bump" => db[e.id].status = "INMEMPOOL"
  BY <1>1, <1>2, <1>7, <1>8 DEF FrontSent
<1>10. /\ \A u \in TxId : u # e.id => db'[u] = db[u] /\ audit'[u] = audit[u]
       /\ \A i \in DOMAIN audit'[e.id] :
            audit'[e.id][i] = f.hash \/ RecordedFor(e.id, audit'[e.id][i])
       /\ op' = [at |-> "persisted", kind |-> k, tx |-> f]
       /\ UNCHANGED <<pendq, inq, minedq, nm, boot, moved, chain, pool, stray, left>>
  BY <1>1 DEF Sends
<1>11. op = Idle
  BY DEF SendStep
<1> QED
  BY <1>1, <1>2, <1>3, <1>4, <1>6, <1>9, <1>10, <1>11 DEF Sent

\* The chain only grows, and what is past stays past.
LEMMA ChainGrows ==
  ASSUME TypeOK, [Next]_vars
  PROVE  Len(chain) \in Nat /\ Len(chain') \in Nat /\ Len(chain) <= Len(chain')
<1>1. CASE UNCHANGED chain
  BY <1>1 DEF TypeOK, NodeTypeOK
<1>2. CASE \E b \in Block : Include(b)
  <2>1. PICK b \in Block : chain' = Append(chain, b)
    BY <1>2 DEF Include
  <2> QED
    BY <2>1 DEF TypeOK, NodeTypeOK
<1> QED
  BY <1>1, <1>2, ChainExtends

LEMMA AttemptType ==
  ASSUME TypeOK
  PROVE  \A t \in TxId : \A i \in DOMAIN audit[t] :
           audit[t][i] \in Hash /\ audit[t][i].nonce \in Nat /\ audit[t][i] # None
<1> SUFFICES ASSUME NEW t \in TxId, NEW i \in DOMAIN audit[t]
             PROVE  audit[t][i] \in Hash /\ audit[t][i].nonce \in Nat /\ audit[t][i] # None
  OBVIOUS
<1>1. audit[t] \in Seq(Hash)
  BY DEF TypeOK
<1>2. audit[t][i] \in Hash
  BY <1>1
<1> QED
  BY <1>2, NoneIsNoHash DEF Hash

\* The row whose nonce an operation gives up is past.
LEMMA RenumbersPast ==
  ASSUME TypeOK, NoncesApart, Attempted, NEW t \in TxId, Renumbers(t)
  PROVE  Past(t)
<1>1. op.at = "conflict" /\ op.tx.id = t
  BY DEF Renumbers
<1>2. op.tx \in Held
  BY <1>1 DEF Held, InFlight
<1>3. op.tx.nonce = db[t].tx.nonce
  BY <1>1, <1>2 DEF NoncesApart, RowNonces
<1> QED
  BY <1>1, <1>3 DEF Attempted, FlightNumbered, Past

LEMMA PastSpent ==
  ASSUME TypeOK, AttemptsBelow, NEW t \in TxId, Past(t)
  PROVE  Spent(t)
  BY DEF AttemptsBelow, Past, Spent

\* What is past stays past, and spent stays spent as long as nothing is sent.
LEMMA PastStays ==
  ASSUME TypeOK, TypeOK', [Next]_vars, NEW t \in TxId
  PROVE  /\ Past(t) /\ db'[t].tx.nonce = db[t].tx.nonce => Past(t)'
         /\ Spent(t) /\ audit'[t] = audit[t] => Spent(t)'
<1>1. Len(chain) \in Nat /\ Len(chain') \in Nat /\ Len(chain) <= Len(chain')
  BY ChainGrows
<1>2. db[t].tx.nonce \in Nat
  BY RowTx
<1>3. \A i \in DOMAIN audit[t] : audit[t][i].nonce \in Nat
  BY AttemptType
<1> QED
  BY <1>1, <1>2, <1>3 DEF Past, Spent

LEMMA BelowStays ==
  ASSUME TypeOK, TypeOK', HashesRecorded, Placed, Links, NoncesApart, Attempted, FlightRow,
         AttemptsBelow, MovedSent, [Next]_vars
  PROVE  AttemptsBelow' /\ MovedSent'
<1>1. Len(chain) \in Nat /\ Len(chain') \in Nat /\ Len(chain) <= Len(chain')
  BY ChainGrows
<1>2. CASE SendStep
  <2>1. PICK e \in Entry, f \in Entry, k \in Kind : Sent(e, f, k)
    BY <1>2, SendStepSends
  <2>2. chain' = chain /\ moved' = moved /\ op'.at = "persisted"
    BY <2>1 DEF Sent
  <2>3. ASSUME NEW t \in TxId, NEW i \in DOMAIN audit'[t]
        PROVE  audit'[t][i].nonce = db'[t].tx.nonce \/ audit'[t][i].nonce < Len(chain')
    <3>1. CASE t # e.id
      <4>1. db'[t] = db[t] /\ audit'[t] = audit[t]
        BY <2>1, <3>1 DEF Sent
      <4> QED
        BY <2>2, <2>3, <4>1 DEF AttemptsBelow
    <3>2. CASE t = e.id /\ audit'[t][i] = f.hash
      BY <2>1, <3>2 DEF Sent
    <3>3. CASE t = e.id /\ RecordedFor(t, audit'[t][i])
      <4>1. PICK j \in DOMAIN audit[t] : audit[t][j] = audit'[t][i]
        BY <3>3 DEF RecordedFor
      <4>2. audit[t] # <<>>
        BY <4>1
      <4>3. db[t].tx.nonce = e.nonce /\ db'[t].tx.nonce = e.nonce
        BY <2>1, <3>3, <4>2 DEF Sent, Attempted, AbsentUnsent
      <4> QED
        BY <2>2, <4>1, <4>3 DEF AttemptsBelow
    <3> QED
      BY <2>1, <2>3, <3>1, <3>2, <3>3 DEF Sent
  <2>4. ASSUME NEW t \in moved PROVE EverSent(t)'
    <3>1. t \in TxId /\ EverSent(t)
      BY <2>4 DEF TypeOK, MovedSent
    <3>2. CASE t # e.id
      BY <2>1, <3>1, <3>2 DEF Sent, EverSent
    <3>3. CASE t = e.id
      BY <2>1, <3>1, <3>3 DEF Sent, EverSent
    <3> QED
      BY <3>2, <3>3
  <2>5. AttemptsBelow'
    BY <2>3 DEF AttemptsBelow
  <2>6. MovedSent'
    BY <2>2, <2>4 DEF MovedSent
  <2> QED
    BY <2>5, <2>6
<1>3. CASE QuietStep
  <2>1. audit' = audit
    BY <1>3 DEF QuietStep
  <2>2. ASSUME NEW t \in TxId, NEW i \in DOMAIN audit[t]
        PROVE  audit[t][i].nonce = db'[t].tx.nonce \/ audit[t][i].nonce < Len(chain')
    <3>1. audit[t][i].nonce \in Nat
      BY <2>2, AttemptType
    <3>2. RowQuiet(t)
      BY <1>3 DEF QuietStep, RowsQuiet
    <3>3. audit[t] # <<>>
      BY <2>2
    <3>4. db'[t].tx.nonce = db[t].tx.nonce \/ Renumbers(t)
      BY <3>2, <3>3 DEF RowQuiet, Attempted, AbsentUnsent
    <3>5. audit[t][i].nonce = db[t].tx.nonce \/ audit[t][i].nonce < Len(chain)
      BY <2>2 DEF AttemptsBelow
    <3>6. CASE Renumbers(t)
      <4>1. Spent(t)
        BY <3>6, RenumbersPast, PastSpent
      <4> QED
        BY <1>1, <2>2, <3>1, <4>1 DEF Spent
    <3> QED
      BY <1>1, <3>1, <3>4, <3>5, <3>6
  <2>3. AttemptsBelow'
    BY <2>1, <2>2 DEF AttemptsBelow
  <2>4. ASSUME NEW t \in moved' PROVE EverSent(t)'
    <3>1. t \in TxId
      BY <2>4 DEF TypeOK
    <3>2. EverSent(t)
      BY <1>3, <2>4 DEF QuietStep, FlightQuiet, MovedSent
    <3> QED
      BY <1>3, <3>1, <3>2 DEF QuietStep, RowsQuiet, RowQuiet
  <2>5. ASSUME op'.at = "linking" PROVE op'.tx.id \notin moved'
    <3>1. op.tx.id = op'.tx.id /\ (op.at = "linking" \/ db[op.tx.id].status = "PENDING")
      BY <1>3, <2>5 DEF QuietStep, FlightQuiet
    <3>2. op.tx.id \notin moved
      BY <3>1 DEF MovedSent, EverSent
    <3>3. ~(Renumbers(op.tx.id) /\ EverSent(op.tx.id))
      BY <3>1 DEF Renumbers, EverSent
    <3>4. \A t \in moved' : t \in moved \/ (Renumbers(t) /\ EverSent(t))
      BY <1>3 DEF QuietStep, FlightQuiet
    <3> QED
      BY <3>1, <3>2, <3>3, <3>4
  <2> QED
    BY <2>3, <2>4, <2>5 DEF MovedSent
<1> QED
  BY <1>2, <1>3, StepKinds

\* Rival c of t can win their contest, in memory or after a restart.
Contending(t, c) ==
  /\ db[t].status = "INMEMPOOL" /\ db[c].status = "INMEMPOOL"
  /\ \/ db[t].tx.by = c
     \/ \E i \in DOMAIN inq :
          inq[i].orig.id = t /\ inq[i].comp # None /\ inq[i].comp.id = c

\* Who contends with a rival is not bumped, and so not moved to a nonce of its own.
ContestsSpent ==
  /\ \A t, c \in TxId : Contending(t, c) =>
       Spent(t) \/ (c \notin moved /\ db[c].tx.nonce = db[t].tx.nonce)
  /\ \A i \in DOMAIN inq : inq[i].comp = None =>
       \A c \in TxId : inq[i].orig.by = c => db[c].status # "INMEMPOOL"

LEMMA ContestSides ==
  ASSUME TypeOK, NEW i \in DOMAIN inq
  PROVE  /\ inq[i] \in Contest /\ inq[i].orig \in Entry /\ inq[i].orig.id \in TxId
         /\ inq[i].orig \in InMempool /\ inq[i].orig \in Held
         /\ inq[i].comp # None =>
              /\ inq[i].comp \in Entry /\ inq[i].comp.id \in TxId
              /\ inq[i].comp \in InMempool /\ inq[i].comp \in Held
<1>1. inq[i] \in Contest
  BY DEF TypeOK
<1>2. /\ inq[i].orig \in Sides(inq[i])
      /\ inq[i].comp # None => inq[i].comp \in Sides(inq[i])
      /\ Sides(inq[i]) \subseteq Entry
  BY <1>1, SidesType
<1>3. \A e \in Sides(inq[i]) : e \in InMempool
  BY HeldPositions
<1> QED
  BY <1>1, <1>2, <1>3 DEF Held, Entry

\* A send leaves the contests as they are.
LEMMA SendContests ==
  ASSUME TypeOK, TypeOK', Placed, Links, ContestsSpent, [Next]_vars,
         NEW e \in Entry, NEW f \in Entry, NEW k \in Kind, Sent(e, f, k)
  PROVE  ContestsSpent'
<1>1. inq' = inq /\ moved' = moved /\ chain' = chain
  BY DEF Sent
<1>2. ASSUME NEW u \in TxId, db'[u].status = "INMEMPOOL"
      PROVE  db[u].status = "INMEMPOOL" /\ db'[u].tx.nonce = db[u].tx.nonce
  <2>1. CASE u # e.id
    BY <1>2, <2>1 DEF Sent
  <2>2. CASE u = e.id
    BY <1>2, <2>2 DEF Sent
  <2> QED
    BY <2>1, <2>2
<1>3. ASSUME NEW t \in TxId, NEW c \in TxId, Contending(t, c)'
      PROVE  t # e.id
  <2> SUFFICES ASSUME t = e.id PROVE FALSE
    OBVIOUS
  <2>1. db[t].status = "INMEMPOOL" /\ db[c].status = "INMEMPOOL"
    BY <1>2, <1>3 DEF Contending
  <2>2. k = "bump" /\ db'[t].tx.by = e.by
    BY <1>3 DEF Contending, Sent
  <2>3. inq # <<>> /\ e = Active(inq[1])
    BY <2>2 DEF Sent, FrontSent, Kind
  <2>4. 1 \in DOMAIN inq
    BY <2>3, FrontOfInmempool
  <2>5. inq[1] \in Contest /\ e \in Sides(inq[1]) /\ inq[1].orig \in Sides(inq[1])
        /\ e \in Held
    BY <2>3, <2>4, ContestSides, SidesType DEF Active
  <2>6. ASSUME e.by = c PROVE FALSE
    <3>1. CASE inq[1].comp = None
      BY <2>1, <2>3, <2>4, <2>6, <3>1 DEF ContestsSpent, Active
    <3>2. CASE inq[1].comp # None
      <4>1. e = inq[1].comp /\ e.ext = inq[1].orig.id
        BY <2>3, <2>4, <3>2 DEF Active, Placed, QueuesPlaced, ContestsLinked
      <4>2. c # None /\ inq[1].orig.id # None
        BY <2>4, ContestSides, NodeAssumption
      <4>3. Linked(e)
        BY <2>5 DEF Links, HeldLinked
      <4> QED
        BY <2>6, <4>1, <4>2, <4>3 DEF Linked, Rival
    <3> QED
      BY <3>1, <3>2
  <2>7. ASSUME NEW i \in DOMAIN inq, inq[i].orig.id = t, inq[i].comp # None PROVE FALSE
    <3>1. inq[i].orig \in Sides(inq[i])
      BY <2>7, ContestSides, SidesType
    <3>2. i = 1 /\ inq[i].orig = e
      BY <2>4, <2>5, <2>7, <3>1 DEF Placed, QueuesPlaced, InMempoolOnce
    <3>3. e = inq[1].comp
      BY <2>3, <2>7, <3>2 DEF Active
    <3> QED
      BY <2>7, <3>2, <3>3 DEF Placed, QueuesPlaced, ContestsLinked
  <2> QED
    BY <1>1, <1>3, <2>2, <2>6, <2>7 DEF Contending
<1>4. ASSUME NEW t \in TxId, NEW c \in TxId, Contending(t, c)'
      PROVE  (Spent(t) \/ (c \notin moved /\ db[c].tx.nonce = db[t].tx.nonce))'
  <2>1. t # e.id
    BY <1>3, <1>4
  <2>2. db'[t] = db[t] /\ audit'[t] = audit[t]
    BY <2>1 DEF Sent
  <2>3. db[c].status = "INMEMPOOL" /\ db'[c].tx.nonce = db[c].tx.nonce
    BY <1>2, <1>4 DEF Contending
  <2>4. Contending(t, c)
    BY <1>1, <1>4, <2>2, <2>3 DEF Contending
  <2>5. Spent(t) => Spent(t)'
    BY <1>1, <2>2 DEF Spent
  <2> QED
    BY <1>1, <2>2, <2>3, <2>4, <2>5 DEF ContestsSpent
<1>5. ASSUME NEW i \in DOMAIN inq, inq[i].comp = None, NEW c \in TxId, inq[i].orig.by = c
      PROVE  db'[c].status # "INMEMPOOL"
  BY <1>2, <1>5 DEF ContestsSpent
<1> QED
  BY <1>1, <1>4, <1>5 DEF ContestsSpent

\* Where a contest comes from that a quiet step leaves or makes.
LEMMA QuietContending ==
  ASSUME TypeOK, TypeOK', Placed, Contested, QuietStep,
         NEW t \in TxId, NEW c \in TxId, Contending(t, c)'
  PROVE  Contending(t, c) \/ (op.at = "linking" /\ op.tx.ext = t /\ op.tx.id = c)
<1>1. /\ db'[t].status = "INMEMPOOL" /\ db'[c].status = "INMEMPOOL"
      /\ OpenRow(t) /\ OpenRow(c)
      /\ db'[t].tx.by = db[t].tx.by \/ Relinks(t)
  BY DEF Contending, QuietStep, RowsQuiet, RowQuiet
<1>2. CASE db'[t].tx.by = c
  <2>1. CASE db[t].tx.by = c
    <3>1. EverSent(t) /\ EverSent(c)
      BY <2>1 DEF Contested, NamedRivals, Names, Rivals
    <3> QED
      BY <1>1, <2>1, <3>1 DEF Contending, EverSent, OpenRow
  <2>2. CASE Relinks(t)
    BY <1>2, <2>2 DEF Relinks
  <2> QED
    BY <1>1, <1>2, <2>1, <2>2
<1>3. ASSUME NEW i \in DOMAIN inq', inq'[i].orig.id = t, inq'[i].comp # None, inq'[i].comp.id = c
      PROVE  Contending(t, c) \/ (op.at = "linking" /\ op.tx.ext = t /\ op.tx.id = c)
  <2>1. KnownContest(inq'[i])
    BY <1>3 DEF QuietStep, QueueQuiet
  <2>2. CASE \E j \in DOMAIN inq : SameContest(inq'[i], inq[j])
    <3>1. PICK j \in DOMAIN inq :
            inq[j].orig.id = t /\ inq[j].comp # None /\ inq[j].comp.id = c
      BY <1>3, <2>2 DEF SameContest
    <3>2. db[t].status = "INMEMPOOL" /\ db[c].status = "INMEMPOOL"
      BY <3>1, ContestSides DEF Placed, QueuesPlaced, StatusPlaced
    <3> QED
      BY <3>1, <3>2 DEF Contending
  <2>3. CASE Joined(inq'[i])
    BY <1>3, <2>3 DEF Joined
  <2>4. CASE Raised(inq'[i])
    BY <1>3, <2>4 DEF Raised
  <2>5. CASE Loaded(inq'[i])
    BY <1>1, <1>3, <2>5 DEF Loaded, Contending
  <2> QED
    BY <2>1, <2>2, <2>3, <2>4, <2>5 DEF KnownContest
<1> QED
  BY <1>2, <1>3 DEF Contending

LEMMA QuietContests ==
  ASSUME TypeOK, TypeOK', Placed, NoncesApart, Attempted, Contested,
         AttemptsBelow, MovedSent, ContestsSpent, [Next]_vars, QuietStep
  PROVE  ContestsSpent'
<1>1. ASSUME NEW t \in TxId, NEW c \in TxId, Contending(t, c)'
      PROVE  (Spent(t) \/ (c \notin moved /\ db[c].tx.nonce = db[t].tx.nonce))'
  <2>1. audit' = audit
    BY DEF QuietStep
  <2>2. CASE Spent(t)
    BY <2>1, <2>2, PastStays
  <2>3. CASE c \notin moved /\ db[c].tx.nonce = db[t].tx.nonce
    <3>1. CASE Renumbers(t)
      BY <2>2, <3>1, RenumbersPast, PastSpent
    <3>2. CASE Renumbers(c)
      <4>1. Past(t)
        BY <2>3, <3>2, RenumbersPast DEF Past
      <4> QED
        BY <2>2, <4>1, PastSpent
    <3>3. CASE ~Renumbers(t) /\ ~Renumbers(c)
      <4>1. OpenRow(t) /\ OpenRow(c)
        BY <1>1 DEF Contending, QuietStep, RowsQuiet, RowQuiet
      <4>2. db'[t].tx.nonce = db[t].tx.nonce /\ db'[c].tx.nonce = db[c].tx.nonce
        BY <3>3, <4>1 DEF QuietStep, RowsQuiet, RowQuiet, OpenRow
      <4>3. c \notin moved'
        BY <2>3, <3>3 DEF QuietStep, FlightQuiet
      <4> QED
        BY <2>3, <4>2, <4>3
    <3> QED
      BY <3>1, <3>2, <3>3
  <2>4. CASE op.at = "linking" /\ op.tx.ext = t /\ op.tx.id = c
    <3>1. op.kind \in {"cancel", "replace"}
      BY <2>4 DEF TypeOK, Op, Idle
    <3>2. db[t].tx.nonce = op.tx.nonce
      BY <2>4, <3>1 DEF Contested, FlightCarries
    <3>3. op.tx \in Held
      BY <2>4 DEF Held, InFlight
    <3>4. db[c].tx.nonce = op.tx.nonce
      BY <2>4, <3>3 DEF NoncesApart, RowNonces
    <3>5. c \notin moved
      BY <2>4 DEF MovedSent
    <3> QED
      BY <2>3, <3>2, <3>4, <3>5
  <2> QED
    BY <1>1, <2>2, <2>3, <2>4, QuietContending DEF ContestsSpent
<1>2. ASSUME NEW i \in DOMAIN inq', inq'[i].comp = None, NEW c \in TxId, inq'[i].orig.by = c,
             db'[c].status = "INMEMPOOL"
      PROVE  FALSE
  <2>1. KnownContest(inq'[i])
    BY DEF QuietStep, QueueQuiet
  <2>2. OpenRow(c)
    BY <1>2 DEF QuietStep, RowsQuiet, RowQuiet
  <2>3. CASE \E j \in DOMAIN inq : SameContest(inq'[i], inq[j])
    <3>1. PICK j \in DOMAIN inq : inq[j].comp = None /\ inq[j].orig.by = c
      BY <1>2, <2>3 DEF SameContest
    <3>2. Names(inq[j].orig.id, c) /\ inq[j].orig.id \in TxId
      BY <3>1, ContestSides DEF Names
    <3>3. EverSent(c)
      BY <3>2 DEF Contested, NamedRivals, Rivals
    <3> QED
      BY <2>2, <3>1, <3>3 DEF ContestsSpent, EverSent, OpenRow
  <2>4. CASE Joined(inq'[i])
    <3>1. PICK e \in Held : e.id = inq'[i].orig.id /\ e.by = c
      BY <1>2, <2>4 DEF Joined
    <3>2. e.id \in TxId
      BY <3>1, HeldType
    <3>3. Names(e.id, c)
      BY <3>1 DEF Names
    <3>4. EverSent(e.id)
      BY <3>2, <3>3 DEF Contested, NamedRivals, Rivals
    <3> QED
      BY <2>4, <3>1, <3>4 DEF Joined, EverSent
  <2>5. CASE Raised(inq'[i])
    <3>1. op.tx \in Entry
      BY <2>5 DEF Raised, TypeOK, Op, Idle
    <3> QED
      BY <1>2, <2>5, <3>1, NoneIsNoEntry DEF Raised
  <2>6. CASE Loaded(inq'[i])
    BY <1>2, <2>6 DEF Loaded
  <2> QED
    BY <2>1, <2>3, <2>4, <2>5, <2>6 DEF KnownContest
<1> QED
  BY <1>1, <1>2 DEF ContestsSpent

LEMMA ContestsStaySpent ==
  ASSUME TypeOK, TypeOK', HashesRecorded, Placed, Links, NoncesApart, Attempted, Contested,
         FlightRow, AttemptsBelow, MovedSent, ContestsSpent, [Next]_vars
  PROVE  ContestsSpent'
<1>1. CASE SendStep
  <2>1. PICK e \in Entry, f \in Entry, k \in Kind : Sent(e, f, k)
    BY <1>1, SendStepSends
  <2> QED
    BY <2>1, SendContests
<1>2. CASE QuietStep
  BY <1>2, QuietContests
<1> QED
  BY <1>1, <1>2, StepKinds

\* A transaction whose polled hash is mined has no attempt left that can be mined.
MinedSpent ==
  /\ \A e \in Held : Mined(e) => Spent(e.id)
  /\ \A t \in TxId : OpenRow(t) => (t \in minedq \/ Mined(db[t].tx) => Spent(t))
  /\ op.at = "settling" => Spent(op.tx.id)

LEMMA HeldTypeAfter ==
  ASSUME TypeOK'
  PROVE  \A g \in Held' : g \in Entry /\ g.id \in TxId
<1>1. ASSUME NEW i \in DOMAIN inq' PROVE Sides(inq'[i]) \subseteq Entry
  <2>1. inq'[i] \in Contest
    BY DEF TypeOK
  <2> QED
    BY <2>1, SidesType
<1>2. \A i \in DOMAIN pendq' : pendq'[i] \in Entry
  BY DEF TypeOK
<1>3. op'.at # "idle" => op'.tx \in Entry
  BY DEF TypeOK, Op, Idle
<1>4. \A g \in Held' : g \in Entry
  BY <1>1, <1>2, <1>3, HeldPositionsAfter
<1> QED
  BY <1>4 DEF Entry

\* What is mined has a nonce the chain is past.
LEMMA MinedBelow ==
  ASSUME TypeOK, NodePlaced, NEW h, h # None, HasReceipt(h)
  PROVE  h.nonce < Len(chain)
<1>1. PICK i \in DOMAIN chain : chain[i].hash = h
  BY DEF HasReceipt, Receipts
<1>2. h.nonce = i - 1
  BY <1>1 DEF NodePlaced
<1> QED
  BY <1>1, <1>2 DEF TypeOK, NodeTypeOK

\* A mined attempt that was not moved uses up the nonce of its row.
LEMMA UnmovedPast ==
  ASSUME TypeOK, NodePlaced, Attempted, NEW t \in TxId, t \notin moved,
         NEW h, RecordedFor(t, h), HasReceipt(h)
  PROVE  Past(t)
<1>1. PICK i \in DOMAIN audit[t] : audit[t][i] = h
  BY DEF RecordedFor
<1>2. h # None
  BY <1>1, AttemptType
<1>3. h.nonce = db[t].tx.nonce
  BY <1>1 DEF Attempted, OneNonce, Dead
<1> QED
  BY <1>2, <1>3, MinedBelow DEF Past

\* An attempt that is mined by a step takes the nonce of its row.
LEMMA MinedNow ==
  ASSUME TypeOK, TypeOK', NodePlaced', AttemptsBelow, AttemptsBelow', [Next]_vars,
         NEW t \in TxId, NEW h, RecordedFor(t, h), HasReceipt(h)'
  PROVE  HasReceipt(h) \/ Spent(t)'
<1>1. CASE UNCHANGED chain
  BY <1>1 DEF HasReceipt, Receipts
<1>2. CASE Network /\ \E b \in Block : Include(b)
  <2>1. PICK b \in Block : chain' = Append(chain, b)
    BY <1>2 DEF Include
  <2>2. UNCHANGED <<db, audit>>
    BY <1>2 DEF Network, rowVars
  <2>3. PICK j \in DOMAIN chain' : chain'[j].hash = h
    BY DEF HasReceipt, Receipts
  <2>4. PICK i \in DOMAIN audit[t] : audit[t][i] = h
    BY DEF RecordedFor
  <2>5. h # None /\ h.nonce \in Nat
    BY <2>4, AttemptType
  <2>6. h.nonce = j - 1
    BY <2>3, <2>5 DEF NodePlaced
  <2>7. /\ Len(chain) \in Nat /\ Len(chain') = Len(chain) + 1
        /\ DOMAIN chain' = 1..(Len(chain) + 1) /\ DOMAIN chain = 1..Len(chain)
        /\ \A n \in 1..Len(chain) : chain'[n] = chain[n]
    BY <2>1 DEF TypeOK, NodeTypeOK
  <2>8. CASE j \in 1..Len(chain)
    BY <2>3, <2>7, <2>8 DEF HasReceipt, Receipts
  <2>9. CASE j = Len(chain) + 1
    <3>1. h.nonce = Len(chain)
      BY <2>6, <2>7, <2>9
    <3>2. db[t].tx.nonce = Len(chain)
      BY <2>4, <2>7, <3>1 DEF AttemptsBelow
    <3>3. Past(t)'
      BY <2>2, <2>7, <3>2 DEF Past
    <3> QED
      BY <3>3 DEF AttemptsBelow, Past, Spent
  <2> QED
    BY <2>3, <2>7, <2>8, <2>9
<1> QED
  BY <1>1, <1>2, ChainExtends

LEMMA SendMined ==
  ASSUME TypeOK, TypeOK', HashesRecorded, Placed, NodePlaced, NoncesApart, Attempted,
         MovedSent, MinedSpent, AttemptsBelow', NEW e \in Entry, NEW f \in Entry, NEW k \in Kind,
         Sent(e, f, k)
  PROVE  MinedSpent'
<1>1. /\ e.id \in TxId /\ chain' = chain /\ minedq' = minedq /\ op'.at = "persisted"
      /\ op'.tx = f /\ f.id = e.id
      /\ db'[e.id].tx.hash = f.hash /\ db'[e.id].tx.nonce = f.hash.nonce
      /\ f.hash # None
      /\ \A t \in TxId : t # e.id => db'[t] = db[t] /\ audit'[t] = audit[t]
  BY DEF Sent
<1>2. Held' = Pending \cup InMempool \cup {f}
  BY <1>1, HeldPositionsAfter, SameMembers DEF Sent
<1>3. PICK t \in TxId : t = e.id
  BY <1>1
<1>4. Past(t)' => Spent(t)'
  BY <1>3 DEF AttemptsBelow, Past, Spent
<1>5. ASSUME HasReceipt(f.hash) PROVE Spent(t)'
  <2>1. f.hash.nonce < Len(chain)
    BY <1>1, <1>5, MinedBelow
  <2> QED
    BY <1>1, <1>3, <1>4, <2>1 DEF Past
<1>6. ASSUME NEW u \in TxId, u # t, Spent(u) PROVE Spent(u)'
  BY <1>1, <1>3, <1>6 DEF Spent
<1>7. ASSUME NEW g \in Held', Mined(g)', NEW u \in TxId, u = g.id PROVE Spent(u)'
  <2>1. g.hash # None /\ HasReceipt(g.hash)
    BY <1>1, <1>7 DEF Mined, HasReceipt, Receipts
  <2>2. CASE g = f
    BY <1>1, <1>3, <1>5, <1>7, <2>1, <2>2
  <2>3. CASE g \in Pending \cup InMempool /\ u # t
    <3>1. g \in Held /\ Mined(g)
      BY <2>1, <2>3 DEF Held, Mined
    <3> QED
      BY <1>6, <1>7, <2>3, <3>1 DEF MinedSpent
  <2>4. CASE g \in Pending /\ u = t
    <3>1. g \in Held /\ db[t].status = "PENDING"
      BY <1>7, <2>4 DEF Held, Placed, QueuesPlaced, StatusPlaced
    <3>2. t \notin moved
      BY <3>1 DEF MovedSent, EverSent
    <3>3. RecordedFor(t, g.hash)
      BY <1>7, <2>1, <2>4, <3>1 DEF HashesRecorded, HeldRecorded, OnRecord
    <3>4. Past(t)
      BY <2>1, <3>2, <3>3, UnmovedPast
    <3>5. db'[t].tx.nonce = db[t].tx.nonce
      BY <1>3, <3>1 DEF Sent
    <3> QED
      BY <1>1, <1>4, <1>7, <2>4, <3>4, <3>5 DEF Past
  <2>5. CASE g \in InMempool /\ u = t
    <3>1. db[t].status = "INMEMPOOL"
      BY <1>7, <2>5 DEF Placed, QueuesPlaced, StatusPlaced
    <3>2. k = "bump"
      BY <1>3, <3>1 DEF Sent
    <3>3. inq # <<>> /\ e = Active(inq[1]) /\ ~Mined(e)
      BY <3>2 DEF Sent, FrontSent, Kind
    <3>4. 1 \in DOMAIN inq /\ e \in Sides(inq[1])
      BY <3>3, FrontOfInmempool
    <3>5. PICK i \in DOMAIN inq : g \in Sides(inq[i])
      BY <2>5, HeldPositions
    <3>6. g = e
      BY <1>3, <1>7, <2>5, <3>4, <3>5 DEF Placed, QueuesPlaced, InMempoolOnce
    <3> QED
      BY <2>1, <3>3, <3>6 DEF Mined
  <2> QED
    BY <1>2, <1>7, <2>2, <2>3, <2>4, <2>5
<1>8. ASSUME NEW u \in TxId, OpenRow(u)', u \in minedq' \/ Mined(db[u].tx)' PROVE Spent(u)'
  <2>1. CASE u # t
    <3>1. db'[u] = db[u]
      BY <1>1, <1>3, <2>1
    <3>2. OpenRow(u) /\ (u \in minedq \/ Mined(db[u].tx))
      BY <1>1, <1>8, <3>1 DEF OpenRow, Mined, HasReceipt, Receipts
    <3> QED
      BY <1>6, <2>1, <3>2 DEF MinedSpent
  <2>2. CASE u = t /\ Mined(db[u].tx)'
    <3>1. HasReceipt(f.hash)
      BY <1>1, <1>3, <2>2 DEF Mined, HasReceipt, Receipts
    <3> QED
      BY <1>5, <2>2, <3>1
  <2>3. CASE u = t /\ u \in minedq
    <3>1. /\ db[t].status \in {"INMEMPOOL", "MINED"}
          /\ \A g \in InMempool : g.id # t
      BY <2>3 DEF Placed, QueuesPlaced, StatusPlaced
    <3>2. k = "bump"
      BY <1>3, <3>1 DEF Sent
    <3>3. inq # <<>> /\ e = Active(inq[1])
      BY <3>2 DEF Sent, FrontSent, Kind
    <3>4. e \in InMempool
      BY <3>3, FrontOfInmempool
    <3> QED
      BY <1>3, <3>1, <3>4
  <2> QED
    BY <1>1, <1>8, <2>1, <2>2, <2>3
<1>9. \A g \in Held' : g.id \in TxId
  BY <1>1, <1>2, HeldType DEF Held
<1> QED
  BY <1>1, <1>7, <1>8, <1>9 DEF MinedSpent

LEMMA QuietMined ==
  ASSUME TypeOK, TypeOK', HashesRecorded, HashesRecorded', Placed, Placed',
         NodePlaced, NodePlaced', Attempted, AttemptsBelow, AttemptsBelow', MovedSent,
         ContestsSpent, MinedSpent, [Next]_vars, QuietStep
  PROVE  MinedSpent'
<1>1. audit' = audit
  BY DEF QuietStep
<1>2. ASSUME NEW t \in TxId, Spent(t) PROVE Spent(t)'
  BY <1>1, <1>2, PastStays
<1>3. ASSUME NEW t \in TxId, ~EverSent(t), NEW h, RecordedFor(t, h), HasReceipt(h)
      PROVE  Spent(t)
  BY <1>3, UnmovedPast, PastSpent DEF MovedSent
<1>4. ASSUME NEW g, NEW t \in TxId, t = g.id, KnownHash(g), Mined(g), RecordedFor(t, g.hash)
      PROVE  Spent(t)
  <2>1. CASE ~EverSent(t)
    BY <1>3, <1>4, <2>1 DEF Mined
  <2>2. CASE \E f \in InMempool : f.id = t /\ f.hash = g.hash
    <3>1. PICK f \in InMempool : f.id = t /\ f.hash = g.hash
      BY <2>2
    <3>2. f \in Held /\ Mined(f)
      BY <1>4, <3>1 DEF Held, Mined
    <3> QED
      BY <3>1, <3>2 DEF MinedSpent
  <2>3. CASE OpenRow(t) /\ g.hash = db[t].tx.hash
    <3>1. Mined(db[t].tx)
      BY <1>4, <2>3 DEF Mined
    <3> QED
      BY <2>3, <3>1 DEF MinedSpent
  <2> QED
    BY <1>4, <2>1, <2>2, <2>3 DEF KnownHash
<1>5. ASSUME NEW g \in Held', Mined(g)', NEW t \in TxId, t = g.id PROVE Spent(t)'
  <2>1. RecordedFor(t, g.hash)'
    BY <1>5 DEF HashesRecorded, HeldRecorded, OnRecord, Mined
  <2>2. RecordedFor(t, g.hash)
    BY <1>1, <2>1 DEF RecordedFor
  <2>3. g.hash # None /\ HasReceipt(g.hash)'
    BY <1>5 DEF Mined
  <2>4. CASE HasReceipt(g.hash)
    <3>1. Mined(g)
      BY <2>3, <2>4 DEF Mined
    <3>2. CASE g \in Pending'
      <4>1. ~EverSent(t)'
        BY <1>5, <3>2 DEF Placed, QueuesPlaced, StatusPlaced, EverSent
      <4>2. ~EverSent(t)
        BY <4>1 DEF QuietStep, RowsQuiet, RowQuiet
      <4> QED
        BY <1>2, <1>3, <2>2, <2>4, <4>2
    <3>3. CASE g \in InMempool' \/ (g \in InFlight' /\ KnownHash(g))
      <4>1. KnownHash(g)
        BY <3>3 DEF QuietStep, QueueQuiet
      <4> QED
        BY <1>2, <1>4, <1>5, <2>2, <3>1, <4>1
    <3>4. CASE g \in InFlight
      <4>1. g \in Held
        BY <3>4 DEF Held
      <4> QED
        BY <1>2, <1>5, <3>1, <4>1 DEF MinedSpent
    <3> QED
      BY <1>5, <3>2, <3>3, <3>4 DEF Held, QuietStep, FlightQuiet
  <2> QED
    BY <2>2, <2>3, <2>4, MinedNow
<1>6. ASSUME NEW t \in TxId, OpenRow(t)', Mined(db[t].tx)' PROVE Spent(t)'
  <2>1. PICK h : h = db'[t].tx.hash
    OBVIOUS
  <2>2. h # None /\ HasReceipt(h)'
    BY <1>6, <2>1 DEF Mined, HasReceipt
  <2>3. RecordedFor(t, h)
    BY <1>1, <2>1, <2>2 DEF HashesRecorded, RowsRecorded, OnRecord, RecordedFor
  <2>5. CASE HasReceipt(h) /\ ~EverSent(t)
    BY <1>2, <1>3, <2>3, <2>5
  <2>6. CASE HasReceipt(h) /\ EverSent(t)
    <3>1. RowQuiet(t)
      BY DEF QuietStep, RowsQuiet
    <3>2. db'[t].status = "INMEMPOOL"
      BY <1>6, <2>6, <3>1 DEF RowQuiet, EverSent, OpenRow
    <3>3. OpenRow(t) /\ (h = db[t].tx.hash \/ Relinks(t))
      BY <2>1, <2>6, <3>1, <3>2 DEF RowQuiet
    <3>4. CASE h = db[t].tx.hash
      <4>1. Mined(db[t].tx)
        BY <2>2, <2>6, <3>4 DEF Mined
      <4> QED
        BY <1>2, <3>3, <4>1 DEF MinedSpent
    <3>5. CASE Relinks(t)
      <4>1. PICK f \in InMempool : f.id = t /\ f.hash = h
        BY <2>1, <3>5 DEF Relinks
      <4>2. f \in Held /\ Mined(f)
        BY <2>2, <2>6, <4>1 DEF Held, Mined
      <4> QED
        BY <1>2, <4>1, <4>2 DEF MinedSpent
    <3> QED
      BY <3>3, <3>4, <3>5
  <2> QED
    BY <2>2, <2>3, <2>5, <2>6, MinedNow
<1>7. ASSUME NEW t \in TxId, OpenRow(t)', t \in minedq' PROVE Spent(t)'
  <2>1. CASE t \in minedq
    <3>1. db[t].status \in {"INMEMPOOL", "MINED"}
      BY <2>1 DEF Placed, QueuesPlaced, StatusPlaced
    <3>2. OpenRow(t)
      BY <1>7, <3>1 DEF QuietStep, RowsQuiet, RowQuiet
    <3> QED
      BY <1>2, <2>1, <3>2 DEF MinedSpent
  <2>2. CASE \E e \in InMempool : e.id = t /\ Mined(e)
    BY <1>2, <2>2 DEF MinedSpent, Held
  <2> QED
    BY <1>7, <2>1, <2>2 DEF QuietStep, QueueQuiet
<1>8. ASSUME op'.at = "settling", NEW t \in TxId, t = op'.tx.id PROVE Spent(t)'
  <2>1. CASE op.at = "settling" /\ op'.tx = op.tx
    BY <1>2, <1>8, <2>1 DEF MinedSpent
  <2>2. CASE inq # <<>> /\ inq[1].comp # None /\ t = inq[1].orig.id /\ Mined(inq[1].comp)
    <3>1. 1 \in DOMAIN inq
      BY <2>2, FrontOfInmempool
    <3>2. PICK c \in TxId : c = inq[1].comp.id
      BY <2>2, <3>1, ContestSides
    <3>3. inq[1].orig \in InMempool /\ inq[1].comp \in InMempool /\ inq[1].comp \in Held
      BY <2>2, <3>1, ContestSides
    <3>4. Contending(t, c)
      BY <2>2, <3>1, <3>2, <3>3 DEF Contending, Placed, QueuesPlaced, StatusPlaced
    <3>5. CASE c \notin moved /\ db[c].tx.nonce = db[t].tx.nonce
      <4>1. RecordedFor(c, inq[1].comp.hash) /\ HasReceipt(inq[1].comp.hash)
        BY <2>2, <3>2, <3>3 DEF HashesRecorded, HeldRecorded, OnRecord, Mined
      <4>2. Past(c)
        BY <3>5, <4>1, UnmovedPast
      <4>3. Spent(t)
        BY <3>5, <4>2, PastSpent DEF Past
      <4> QED
        BY <1>2, <4>3
    <3> QED
      BY <1>2, <3>4, <3>5 DEF ContestsSpent
  <2> QED
    BY <1>8, <2>1, <2>2 DEF QuietStep, FlightQuiet
<1>9. \A g \in Held' : g.id \in TxId
  BY HeldTypeAfter
<1>10. op'.at = "settling" => op'.tx.id \in TxId
  <2>1. op'.at = "settling" => op'.tx \in Entry
    BY DEF TypeOK, Op, Idle
  <2> QED
    BY <2>1 DEF Entry
<1> QED
  BY <1>5, <1>6, <1>7, <1>8, <1>9, <1>10 DEF MinedSpent

LEMMA MinedStaysSpent ==
  ASSUME TypeOK, TypeOK', HashesRecorded, HashesRecorded', Placed, Placed', Links,
         NodePlaced, NodePlaced', NoncesApart, Attempted, FlightRow,
         AttemptsBelow, AttemptsBelow', MovedSent, ContestsSpent, MinedSpent, [Next]_vars
  PROVE  MinedSpent'
<1>1. CASE SendStep
  <2>1. PICK e \in Entry, f \in Entry, k \in Kind : Sent(e, f, k)
    BY <1>1, SendStepSends
  <2> QED
    BY <2>1, SendMined
<1>2. CASE QuietStep
  BY <1>2, QuietMined
<1> QED
  BY <1>1, <1>2, StepKinds

\* A fault whose budget is used up does not strike again.
LEMMA BudgetsFall ==
  ASSUME TypeOK, [Next]_vars, NEW f \in Fault, left[f] = 0
  PROVE  left'[f] = 0
<1>1. \A x \in Fault : Spend(x) => left'[f] = 0
  BY DEF Spend, TypeOK, NodeTypeOK
<1>2. ASSUME NEW x, Spend(x) PROVE left'[f] = 0
  BY <1>2 DEF Spend, TypeOK, NodeTypeOK
<1>3. CASE Network
  BY <1>2, <1>3 DEF Network, NodeStep, Mine, MineReverted, MineStray, MineExternal, Evict
<1>4. CASE Deliver
  <2>1. PICK r \in Reply : Broadcast(op.tx.hash, r)
    BY <1>4 DEF Deliver
  <2> QED
    BY <1>2, <2>1 DEF Broadcast, nodeVars
<1>5. CASE \E t \in TxId : Api(t) \/ Expire(t)
  BY <1>2, <1>5 DEF Api, Admit, AdmitUnestimable, AdmitUnsaved, CancelPending, ReplacePending,
     CancelInmempool, ReplaceInmempool, SendRival, EditPending, Send, Expire, nodeVars
<1>6. CASE Loops
  BY <1>2, <1>6 DEF Loops, SendPending, EstimateRejects, BumpGas, ResolveReceipt,
     ResolveReceiptUnsaved, Confirm, Send, nodeVars
<1>7. CASE Continue
  BY <1>2, <1>4, <1>7 DEF Continue, MarkPendingSent, MarkBumpSent, MarkRivalSent, LinkRival,
     CloseOut, AdoptLanded, ReassignPending, ConflictMined, ReassignInmempool, StepFails,
     SettleLoser, nodeVars
<1>8. CASE Crash \/ Startup \/ UNCHANGED vars
  BY <1>2, <1>8 DEF Crash, Startup, RepairPoisoned, RepairAttempts, LoadQueues, vars, nodeVars
<1>9. CASE Setback
  BY <1>2, <1>9, SetbackEffect
<1> QED
  BY <1>3, <1>5, <1>6, <1>7, <1>8, <1>9 DEF Next, Setback

\* No transaction that may still be sent has failed.
Undecided(t) == OpenRow(t) \/ db[t].status = "absent"

NothingFailed ==
  /\ op.at # "rejected"
  /\ \A e \in Held : e.failed = FALSE
  /\ \A t \in TxId : Undecided(t) => db[t].tx.failed = FALSE

\* The relayer is not restarted any more, or nothing is rejected.
FailuresLast ==
  \/ left["crash"] = 0 /\ boot = "online"
  \/ left["reject"] = 0 /\ NothingFailed

LEMMA SavedUnfailed ==
  ASSUME TypeOK, NothingFailed, NEW e \in Entry, NEW s, SaveTransaction(e, s),
         e.failed = FALSE \/ s \notin {"absent", "PENDING", "INMEMPOOL"},
         op'.at # "rejected", \A g \in Held' : g.failed = FALSE
  PROVE  NothingFailed'
<1>1. /\ e.id \in TxId /\ db'[e.id] = [status |-> s, tx |-> e]
      /\ \A t \in TxId : t # e.id => db'[t] = db[t]
  BY SaveTransactionRows
<1>2. db'[e.id].status = s /\ db'[e.id].tx = e
  BY <1>1
<1>3. ASSUME NEW t \in TxId, Undecided(t)' PROVE db'[t].tx.failed = FALSE
  <2>1. CASE t = e.id
    BY <1>2, <1>3, <2>1 DEF Undecided, OpenRow
  <2>2. CASE t # e.id
    BY <1>1, <1>3, <2>2 DEF Undecided, OpenRow, NothingFailed
  <2> QED
    BY <2>1, <2>2
<1> QED
  BY <1>3 DEF NothingFailed

LEMMA KeptUnfailed ==
  ASSUME TypeOK, NothingFailed,
         \A t \in TxId : Undecided(t)' => Undecided(t) /\ db'[t].tx.failed = db[t].tx.failed,
         op'.at # "rejected", \A g \in Held' : g.failed = FALSE
  PROVE  NothingFailed'
  BY DEF NothingFailed

LEMMA SentUnfailed ==
  ASSUME TypeOK, NothingFailed, NEW t \in TxId, OpenRow(t), NEW h, SetSent(t, h),
         op'.at # "rejected", \A g \in Held' : g.failed = FALSE
  PROVE  NothingFailed'
<1>1. /\ db'[t].tx.failed = db[t].tx.failed
      /\ \A u \in TxId : u # t => db'[u] = db[u]
  BY SetSentRows
<1>2. \A u \in TxId : Undecided(u)' => Undecided(u) /\ db'[u].tx.failed = db[u].tx.failed
  BY <1>1 DEF Undecided, OpenRow
<1> QED
  BY <1>2, KeptUnfailed

LEMMA SendUnfailed ==
  ASSUME TypeOK, NothingFailed, NEW e \in Entry, e.failed = FALSE, Undecided(e.id),
         NEW s \in Status, NEW k, NEW last \in Nat, Send(e, s, k, last)
  PROVE  NothingFailed'
<1>1. PICK gas \in Prices(last) :
        /\ RecordAttempt(Signed(e, gas), s)
        /\ op' = [at |-> "persisted", kind |-> k, tx |-> Signed(e, gas)]
  BY DEF Send
<1>2. Signed(e, gas) \in Entry /\ Signed(e, gas).id = e.id
  BY <1>1, PricesType, SignedCopies DEF SignedCopy
<1>3. Signed(e, gas).failed = FALSE
  BY DEF Signed, Entry
<1>4. PICK f \in Entry : f = Signed(e, gas)
  BY <1>2
<1>5. f.id = e.id /\ f.failed = FALSE /\ RecordAttempt(f, s)
  BY <1>1, <1>2, <1>3, <1>4
<1>6. e.id \in TxId /\ db[e.id].tx.failed = FALSE
  BY HeldType DEF NothingFailed
<1>7. SaveTransaction([f EXCEPT !.failed = FALSE], s)
  BY <1>5, <1>6 DEF RecordAttempt
<1>8. [f EXCEPT !.failed = FALSE] \in Entry /\ [f EXCEPT !.failed = FALSE].failed = FALSE
  BY DEF Entry
<1>9. Held' = Pending \cup InMempool \cup {f}
  <2>1. op' = [at |-> "persisted", kind |-> k, tx |-> f]
    BY <1>1, <1>4
  <2> QED
    BY <2>1, HeldPositionsAfter, SameMembers DEF Send, queueVars
<1>10. \A g \in Held' : g.failed = FALSE
  BY <1>5, <1>9 DEF NothingFailed, Held
<1>11. op'.at # "rejected"
  BY <1>1
<1> QED
  BY <1>7, <1>8, <1>10, <1>11, SavedUnfailed

\* With nothing rejected, what the API writes has not failed.
LEMMA ApiUnfailed ==
  ASSUME TypeOK, Placed, NothingFailed, left["reject"] = 0, NEW t \in TxId, Api(t)
  PROVE  NothingFailed'
<1>1. CASE Admit(t)
  <2>1. PICK e \in Entry : /\ e = NewEntry(t, e.nonce) /\ SaveTransaction(e, "PENDING")
                           /\ pendq' = InsertByNonce(pendq, e)
    BY <1>1, AdmitEffect
  <2>2. e.failed = FALSE
    BY <2>1 DEF NewEntry
  <2>3. Held' \subseteq Held \cup {e} /\ op' = op
    BY <1>1, <2>1, AdmitEffect, PendingMembers, SameMembers DEF Held
  <2> QED
    BY <2>1, <2>2, <2>3, SavedUnfailed DEF NothingFailed
<1>2. CASE AdmitUnestimable(t)
  BY <1>2 DEF AdmitUnestimable, Spend
<1>3. CASE AdmitUnsaved(t)
  <2>1. UNCHANGED <<db, pendq, inq, op>>
    BY <1>3, AdmitUnsavedEffect DEF rowVars
  <2>2. Held' = Held
    BY <2>1, SameMembers DEF Held
  <2> QED
    BY <2>1, <2>2 DEF NothingFailed, Undecided, OpenRow
<1>4. CASE CancelPending(t) \/ ReplacePending(t)
  <2>1. PICK i \in DOMAIN pendq, p \in Payload, h \in Hash \cup {None} :
          EditPending([pendq[i] EXCEPT !.payload = p, !.hash = h])
    <3>1. CASE CancelPending(t)
      BY <3>1 DEF CancelPending, Emptied, Payload
    <3>2. CASE ReplacePending(t)
      <4>1. PICK i \in DOMAIN pendq, c \in Rival : EditPending([pendq[i] EXCEPT !.payload = c])
        BY <3>2 DEF ReplacePending
      <4>2. pendq[i] \in Entry
        BY DEF TypeOK
      <4>3. [pendq[i] EXCEPT !.payload = c] = [pendq[i] EXCEPT !.payload = c, !.hash = pendq[i].hash]
        BY <4>2 DEF Entry
      <4>4. pendq[i].hash \in Hash \cup {None} /\ c \in Payload
        BY <4>2 DEF Entry, Rival, Payload
      <4> QED
        BY <4>1, <4>3, <4>4
    <3> QED
      BY <1>4, <3>1, <3>2
  <2>2. pendq[i] \in Entry /\ pendq[i] \in Held
    BY DEF TypeOK, Held, Pending
  <2>3. PICK e \in Entry : e = [pendq[i] EXCEPT !.payload = p, !.hash = h] /\ e.failed = pendq[i].failed
    <3>1. \A f \in Entry : LET e == [f EXCEPT !.payload = p, !.hash = h]
                         IN  e \in Entry /\ e.failed = f.failed
      BY DEF Entry
    <3> QED
      BY <2>2, <3>1
  <2>4. SaveTransaction(e, "PENDING") /\ pendq' = Updated(pendq, e) /\ UNCHANGED <<inq, op>>
    BY <2>1, <2>3 DEF EditPending
  <2>5. e.failed = FALSE
    BY <2>2, <2>3 DEF NothingFailed
  <2>6. Held' \subseteq Held \cup {e} /\ op' = op
    BY <2>4, PendingMembers, SameMembers DEF Held
  <2> QED
    BY <2>4, <2>5, <2>6, SavedUnfailed DEF NothingFailed
<1>5. ASSUME NEW k \in {"cancel", "replace"}, SendRival(t, k) PROVE NothingFailed'
  <2>1. PICK c \in Rival, i \in DOMAIN inq :
          /\ Fresh(c) /\ inq[i].orig.hash # None
          /\ Send([NewEntry(c, inq[i].orig.nonce) EXCEPT
                     !.payload = IF k = "cancel" THEN Noop ELSE c, !.ext = t],
                  "PENDING", k, inq[i].orig.hash.gas + 1)
    BY <1>5 DEF SendRival
  <2>2. inq[i].orig \in Entry /\ inq[i].orig.nonce \in Nat /\ inq[i].orig.hash.gas + 1 \in Nat
    BY <2>1, ContestSides DEF Entry, Hash
  <2>3. PICK e \in Entry :
          /\ e = [NewEntry(c, inq[i].orig.nonce) EXCEPT
                    !.payload = IF k = "cancel" THEN Noop ELSE c, !.ext = t]
          /\ e.failed = FALSE /\ e.id = c
    <3>1. c \in TxId /\ NewEntry(c, inq[i].orig.nonce) \in Entry
      BY <2>2 DEF NewEntry, Entry, Rival, Payload
    <3>2. \A f \in Entry, p \in Payload :
            LET e == [f EXCEPT !.payload = p, !.ext = t]
            IN  e \in Entry /\ e.failed = f.failed /\ e.id = f.id
      BY DEF Entry
    <3>3. (IF k = "cancel" THEN Noop ELSE c) \in Payload
      BY <3>1 DEF Payload
    <3>4. NewEntry(c, inq[i].orig.nonce).failed = FALSE /\ NewEntry(c, inq[i].orig.nonce).id = c
      BY DEF NewEntry
    <3>5. PICK f \in Entry : f = NewEntry(c, inq[i].orig.nonce)
      BY <3>1
    <3>6. PICK p \in Payload : p = IF k = "cancel" THEN Noop ELSE c
      BY <3>3
    <3>7. LET e == [f EXCEPT !.payload = p, !.ext = t]
          IN  e \in Entry /\ e.failed = FALSE /\ e.id = c
      BY <3>2, <3>4, <3>5
    <3> QED
      BY <3>5, <3>6, <3>7
  <2>4. Undecided(e.id)
    BY <2>1, <2>3 DEF Fresh, Undecided
  <2> QED
    BY <2>1, <2>2, <2>3, <2>4, SendUnfailed DEF Status
<1> QED
  BY <1>1, <1>2, <1>3, <1>4, <1>5 DEF Api, CancelInmempool, ReplaceInmempool

LEMMA LoopUnfailed ==
  ASSUME TypeOK, Placed, NothingFailed, left["reject"] = 0, Loops
  PROVE  NothingFailed'
<1>1. CASE SendPending
  <2>1. /\ pendq # <<>> /\ Head(pendq) \in Entry /\ Head(pendq) \in Pending
        /\ Send(Head(pendq), "PENDING", "pending", LastGas(Head(pendq)))
    BY <1>1, SendPendingSends DEF SendPending
  <2>2. LastGas(Head(pendq)) \in Nat
    BY <2>1 DEF LastGas, Entry, Hash
  <2>3. Head(pendq).failed = FALSE /\ Undecided(Head(pendq).id)
    BY <2>1 DEF NothingFailed, Held, Undecided, OpenRow, Placed, QueuesPlaced, StatusPlaced
  <2> QED
    BY <2>1, <2>2, <2>3, SendUnfailed DEF Status
<1>2. CASE EstimateRejects
  BY <1>2 DEF EstimateRejects, Spend
<1>3. CASE BumpGas
  <2>1. PICK a \in Entry : /\ inq # <<>> /\ a = Active(Head(inq)) /\ a.hash # None
                           /\ Send(a, "INMEMPOOL", "bump", a.hash.gas)
    BY <1>3, FrontOfInmempool DEF BumpGas
  <2>2. a \in InMempool /\ a.hash.gas \in Nat
    BY <2>1, FrontOfInmempool DEF Entry, Hash
  <2>3. a.failed = FALSE /\ Undecided(a.id)
    BY <2>2 DEF NothingFailed, Held, Undecided, OpenRow, Placed, QueuesPlaced, StatusPlaced
  <2> QED
    BY <2>1, <2>2, <2>3, SendUnfailed DEF Status
<1>4. CASE ResolveReceipt
  <2>1. PICK x \in Entry, s \in {"MINED", "FAILED", "EXPIRED"} :
          /\ SaveTransaction(x, s)
          /\ \/ op' = Idle
             \/ /\ op'.at = "settling" /\ op'.tx = Loser(Head(inq)) /\ Head(inq).comp # None
    BY <1>4, ResolveReceiptEffect
  <2>2. inq # <<>> /\ inq' = Tail(inq) /\ pendq' = pendq
    BY <1>4, ResolveReceiptEffect
  <2>3. Pending' = Pending /\ InMempool' \subseteq InMempool
    BY <2>2, SameMembers, TailMembers
  <2>4. Head(inq) = inq[1] /\ 1 \in DOMAIN inq
    BY <2>2, FrontOfInmempool
  <2>5. inq[1].orig \in Entry /\ inq[1].orig.failed = FALSE
    BY <2>4, ContestSides DEF NothingFailed
  <2>6. Loser(inq[1]).failed = FALSE
    BY <2>5 DEF Loser, Entry
  <2>7. \A g \in Held' : g.failed = FALSE
    BY <2>1, <2>3, <2>4, <2>6, HeldPositionsAfter DEF NothingFailed, Held, Idle
  <2>8. op'.at # "rejected"
    BY <2>1 DEF Idle
  <2> QED
    BY <2>1, <2>7, <2>8, SavedUnfailed
<1>5. CASE ResolveReceiptUnsaved
  <2>1. UNCHANGED <<db, pendq, op>> /\ inq # <<>> /\ inq' = Tail(inq)
    BY <1>5, ResolveReceiptUnsavedEffect DEF rowVars
  <2>2. Held' \subseteq Held
    BY <2>1, SameMembers, TailMembers DEF Held
  <2> QED
    BY <2>1, <2>2 DEF NothingFailed, Undecided, OpenRow
<1>6. ASSUME NEW t \in TxId, Confirm(t) PROVE NothingFailed'
  <2>1. SetStatus(t, "CONFIRMED") /\ UNCHANGED <<pendq, inq, op>>
    BY <1>6 DEF Confirm
  <2>2. Held' = Held
    BY <2>1, SameMembers DEF Held
  <2>3. db'[t].status = "CONFIRMED" /\ \A u \in TxId : u # t => db'[u] = db[u]
    BY <2>1, SetStatusRows
  <2>4. \A u \in TxId : Undecided(u)' => Undecided(u) /\ db'[u].tx.failed = db[u].tx.failed
    BY <2>3 DEF Undecided, OpenRow
  <2> QED
    BY <2>1, <2>2, <2>4, KeptUnfailed DEF NothingFailed
<1> QED
  BY <1>1, <1>2, <1>3, <1>4, <1>5, <1>6 DEF Loops

LEMMA ContinueUnfailed ==
  ASSUME TypeOK, Placed, NoncesApart, NothingFailed, left["reject"] = 0, Continue
  PROVE  NothingFailed'
<1>1. op.tx \in Held /\ op.tx \in Entry /\ op.tx.id \in TxId /\ op.tx.failed = FALSE
  <2>1. op.at # "idle"
    BY DEF Continue, Deliver, MarkPendingSent, MarkBumpSent, MarkRivalSent, LinkRival, CloseOut,
       AdoptLanded, ReassignPending, ConflictMined, ReassignInmempool, StepFails, SettleLoser, At
  <2> QED
    BY <2>1, HeldRows DEF NothingFailed
<1>2. CASE Deliver
  <2>1. PICK r \in Reply : Broadcast(op.tx.hash, r) /\ (op' = [op EXCEPT !.at = r] \/ op' = Idle)
    BY <1>2 DEF Deliver
  <2>2. r # "rejected"
    BY <2>1 DEF Broadcast, Spend
  <2>3. op'.at # "rejected" /\ (op' = Idle \/ op'.tx = op.tx)
    <3>1. op \in [at : Stage, kind : Kind \cup {"cancel", "replace"}, tx : Entry]
      BY <1>2 DEF Deliver, At, TypeOK, Op, Idle
    <3> QED
      BY <2>1, <2>2, <3>1 DEF Idle
  <2>4. UNCHANGED <<db, pendq, inq>>
    BY <1>2 DEF Deliver, rowVars, queueVars
  <2>5. Held' \subseteq Held
    BY <1>1, <2>3, <2>4, HeldPositionsAfter, SameMembers DEF Held, Idle
  <2> QED
    BY <2>3, <2>4, <2>5 DEF NothingFailed, Undecided, OpenRow
<1>3. CASE MarkPendingSent
  <2>1. /\ SetSent(op.tx.id, op.tx.hash) /\ op' = Idle /\ op.at = "accepted" /\ op.kind = "pending"
        /\ Pending' \subseteq Pending /\ InMempool' \subseteq InMempool \cup {op.tx}
    BY <1>3, MarkPendingSentEffect
  <2>2. Held' \subseteq Held /\ op'.at # "rejected"
    BY <1>1, <2>1, SameMembers DEF Held, Idle
  <2>3. OpenRow(op.tx.id)
    <3>1. pendq # <<>> /\ pendq[1].id = op.tx.id
      BY <2>1 DEF Placed, FlightPlaced
    <3>2. 1 \in DOMAIN pendq
      BY <3>1 DEF TypeOK
    <3>3. pendq[1] \in Pending
      BY <3>2 DEF Pending
    <3> QED
      BY <3>1, <3>3 DEF OpenRow, Placed, QueuesPlaced, StatusPlaced
  <2> QED
    BY <1>1, <2>1, <2>2, <2>3, SentUnfailed DEF NothingFailed
<1>4. CASE MarkBumpSent
  <2>1. /\ SetSent(op.tx.id, op.tx.hash) /\ op' = Idle /\ op.at = "accepted" /\ op.kind = "bump"
        /\ inq' = [inq EXCEPT ![1] = WithTx(inq[1], op.tx)] /\ pendq' = pendq
    BY <1>4, MarkBumpSentEffect
  <2>2. InMempool' \subseteq InMempool \cup {op.tx}
    BY <1>1, <2>1, FrontRewritten
  <2>3. Held' \subseteq Held /\ op'.at # "rejected"
    BY <1>1, <2>1, <2>2, SameMembers DEF Held, Idle
  <2>4. OpenRow(op.tx.id)
    <3>1. inq # <<>> /\ Active(inq[1]).id = op.tx.id
      BY <2>1 DEF Placed, FlightPlaced
    <3>2. Active(inq[1]) \in InMempool
      BY <3>1, FrontOfInmempool
    <3> QED
      BY <3>1, <3>2 DEF OpenRow, Placed, QueuesPlaced, StatusPlaced
  <2> QED
    BY <1>1, <2>1, <2>3, <2>4, SentUnfailed DEF NothingFailed
<1>5. CASE MarkRivalSent
  <2>1. /\ SetSent(op.tx.id, op.tx.hash) /\ op.at = "accepted" /\ op.kind \in {"cancel", "replace"}
        /\ op'.at = "linking" /\ op'.tx = op.tx /\ UNCHANGED <<pendq, inq>>
    BY <1>5, MarkRivalSentEffect DEF queueVars
  <2>2. Held' \subseteq Held
    BY <1>1, <2>1, HeldPositionsAfter, SameMembers DEF Held
  <2>3. OpenRow(op.tx.id)
    BY <2>1 DEF Placed, FlightPlaced, OpenRow
  <2> QED
    BY <1>1, <2>1, <2>2, <2>3, SentUnfailed DEF NothingFailed
<1>6. CASE LinkRival
  <2>1. PICK i \in DOMAIN inq :
          /\ SaveTransaction([inq[i].orig EXCEPT !.by = op.tx.id], "INMEMPOOL")
          /\ inq' = IF i = 1
                    THEN [inq EXCEPT ![1] = [orig |-> [inq[i].orig EXCEPT !.by = op.tx.id],
                                             comp |-> op.tx, kind |-> op.kind]]
                    ELSE inq
    BY <1>6, Zenon DEF LinkRival
  <2>2. inq[i].orig \in Entry /\ inq[i].orig \in Held
    BY ContestSides
  <2>3. PICK o \in Entry : o = [inq[i].orig EXCEPT !.by = op.tx.id] /\ o.failed = inq[i].orig.failed
    <3>1. \A e \in Entry, b \in TxId : LET o == [e EXCEPT !.by = b]
                                       IN  o \in Entry /\ o.failed = e.failed
      BY DEF Entry
    <3> QED
      BY <1>1, <2>2, <3>1
  <2>4. o.failed = FALSE
    BY <2>2, <2>3 DEF NothingFailed
  <2>5. InMempool' \subseteq InMempool \cup {o, op.tx}
    <3>1. CASE inq' = inq
      BY <3>1, SameMembers
    <3>2. CASE inq' = [inq EXCEPT ![1] = [orig |-> o, comp |-> op.tx, kind |-> op.kind]]
      <4>1. PICK c : c = [orig |-> o, comp |-> op.tx, kind |-> op.kind]
        OBVIOUS
      <4>2. InMempool' \subseteq InMempool \cup Sides(c)
        BY <3>2, <4>1, FrontMembers
      <4>3. Sides(c) \subseteq {o, op.tx}
        BY <4>1 DEF Sides
      <4> QED
        BY <4>2, <4>3
    <3> QED
      BY <2>1, <2>3, <3>1, <3>2
  <2>6. op' = Idle /\ pendq' = pendq
    BY <1>6, LinkRivalEffect
  <2>7. Held' \subseteq Held \cup {o} /\ op'.at # "rejected"
    BY <1>1, <2>5, <2>6, SameMembers DEF Held, Idle
  <2> QED
    BY <2>1, <2>3, <2>4, <2>7, SavedUnfailed DEF NothingFailed
<1>7. CASE CloseOut
  BY <1>7 DEF CloseOut, At, NothingFailed
<1>8. CASE AdoptLanded
  <2>1. PICK h : \/ SetSent(op.tx.id, h) /\ MovePendingToInmempool([op.tx EXCEPT !.hash = h])
                                         /\ h = FirstLanded(op.tx.id) /\ h # None
                 \/ UNCHANGED <<db, pendq, inq>>
    BY <1>8 DEF AdoptLanded
  <2>2. op' = Idle /\ op.at = "conflict" /\ op.kind = "pending"
    BY <1>8, AdoptLandedEffect
  <2>3. OpenRow(op.tx.id)
    <3>1. pendq # <<>> /\ pendq[1].id = op.tx.id
      BY <2>2 DEF Placed, FlightPlaced
    <3>2. 1 \in DOMAIN pendq
      BY <3>1 DEF TypeOK
    <3>3. pendq[1] \in Pending
      BY <3>2 DEF Pending
    <3> QED
      BY <3>1, <3>3 DEF OpenRow, Placed, QueuesPlaced, StatusPlaced
  <2>4. CASE UNCHANGED <<db, pendq, inq>>
    <3>1. Held' \subseteq Held
      BY <2>2, <2>4, SameMembers DEF Held
    <3> QED
      BY <2>2, <2>4, <3>1 DEF NothingFailed, Undecided, OpenRow, Idle
  <2>5. CASE SetSent(op.tx.id, h) /\ MovePendingToInmempool([op.tx EXCEPT !.hash = h])
               /\ h = FirstLanded(op.tx.id) /\ h # None
    <3>1. h \in Hash
      BY <1>1, <2>5, FirstLandedType
    <3>2. PICK e \in Entry : e = [op.tx EXCEPT !.hash = h] /\ e.failed = FALSE
      <4>1. \A f \in Entry : LET e == [f EXCEPT !.hash = h] IN e \in Entry /\ e.failed = f.failed
        BY <3>1 DEF Entry
      <4> QED
        BY <1>1, <4>1
    <3>3. Pending' \subseteq Pending /\ InMempool' \subseteq InMempool \cup {e}
      BY <2>5, <3>2, MoveMembers
    <3>4. Held' \subseteq Held \cup {e} /\ op'.at # "rejected"
      BY <2>2, <3>3, SameMembers DEF Held, Idle
    <3> QED
      BY <1>1, <2>3, <2>5, <3>2, <3>4, SentUnfailed DEF NothingFailed
  <2> QED
    BY <2>1, <2>4, <2>5
<1>9. ASSUME NEW n \in Nat, op' = Idle,
             db'[op.tx.id].status = db[op.tx.id].status,
             db'[op.tx.id].tx = AtNonce(db[op.tx.id].tx, n),
             \A t \in TxId : t # op.tx.id => db'[t] = db[t],
             \A g \in Held' : g.failed = FALSE
      PROVE  NothingFailed'
  <2>1. db'[op.tx.id].tx.failed = db[op.tx.id].tx.failed
    BY <1>1, <1>9, RowTx, AtNonceType
  <2>2. \A u \in TxId : Undecided(u)' => Undecided(u) /\ db'[u].tx.failed = db[u].tx.failed
    BY <1>9, <2>1 DEF Undecided, OpenRow
  <2> QED
    BY <1>9, <2>2, KeptUnfailed DEF Idle
<1>10. CASE ReassignPending
  <2>1. PICK n \in Nat :
          /\ db'[op.tx.id].status = db[op.tx.id].status
          /\ db'[op.tx.id].tx = AtNonce(db[op.tx.id].tx, n)
          /\ \A t \in TxId : t # op.tx.id => db'[t] = db[t]
          /\ \A e \in Pending' : \E f \in Pending :
               e = IF f.id = op.tx.id THEN AtNonce(f, n) ELSE f
    BY <1>10, ReassignPendingEffect
  <2>2. op' = Idle /\ inq' = inq
    BY <1>10, ReassignPendingEffect
  <2>3. \A e \in Pending' : e.failed = FALSE
    <3> SUFFICES ASSUME NEW e \in Pending' PROVE e.failed = FALSE
      OBVIOUS
    <3>1. PICK f \in Pending : e = IF f.id = op.tx.id THEN AtNonce(f, n) ELSE f
      BY <2>1
    <3>2. f \in Entry /\ f.failed = FALSE
      BY HeldType DEF NothingFailed, Held
    <3>3. AtNonce(f, n).failed = f.failed
      BY <3>2, AtNonceType
    <3> QED
      BY <3>1, <3>2, <3>3
  <2>4. \A g \in Held' : g.failed = FALSE
    BY <2>2, <2>3, SameMembers DEF Held, NothingFailed
  <2> QED
    BY <1>9, <2>1, <2>2, <2>4
<1>11. CASE ReassignInmempool
  <2>1. PICK n \in Nat :
          /\ db'[op.tx.id].status = db[op.tx.id].status
          /\ db'[op.tx.id].tx = AtNonce(db[op.tx.id].tx, n)
          /\ \A t \in TxId : t # op.tx.id => db'[t] = db[t]
          /\ inq' = [inq EXCEPT ![1] = WithTx(inq[1], AtNonce(Active(inq[1]), n))]
    BY <1>11, ReassignInmempoolEffect
  <2>2. op' = Idle /\ pendq' = pendq /\ op.kind = "bump"
    BY <1>11, ReassignInmempoolEffect
  <2>3. inq # <<>>
    BY <2>2 DEF Placed, FlightPlaced
  <2>4. Active(inq[1]) \in Entry /\ Active(inq[1]) \in InMempool
    BY <2>3, FrontOfInmempool
  <2>5. PICK e \in Entry : e = AtNonce(Active(inq[1]), n) /\ e.failed = FALSE
    BY <2>4, AtNonceType DEF NothingFailed, Held
  <2>6. InMempool' \subseteq InMempool \cup {e}
    BY <2>1, <2>5, FrontRewritten
  <2>7. \A g \in Held' : g.failed = FALSE
    BY <2>2, <2>5, <2>6, SameMembers DEF Held, NothingFailed
  <2> QED
    BY <1>9, <2>1, <2>2, <2>7
<1>12. CASE ConflictMined \/ StepFails
  <2>1. op' = Idle /\ UNCHANGED <<db, pendq, inq>>
    BY <1>12, StopEffect DEF rowVars, queueVars
  <2>2. Held' \subseteq Held
    BY <2>1, SameMembers DEF Held
  <2> QED
    BY <2>1, <2>2 DEF NothingFailed, Undecided, OpenRow, Idle
<1>13. CASE SettleLoser
  <2>1. /\ SaveTransaction(op.tx, IF op.kind = "cancel" THEN "CANCELLED" ELSE "REPLACED")
        /\ op' = Idle /\ UNCHANGED <<pendq, inq>>
    BY <1>13, SettleLoserEffect DEF queueVars
  <2>2. Held' \subseteq Held /\ op'.at # "rejected"
    BY <2>1, SameMembers DEF Held, Idle
  <2> QED
    BY <1>1, <2>1, <2>2, SavedUnfailed DEF NothingFailed
<1> QED
  BY <1>2, <1>3, <1>4, <1>5, <1>6, <1>7, <1>8, <1>10, <1>11, <1>12, <1>13 DEF Continue

LEMMA StartupUnfailed ==
  ASSUME TypeOK, Placed, NothingFailed, Crash \/ Startup \/ Setback
  PROVE  NothingFailed'
<1>1. CASE Crash
  <2>1. /\ op' = Idle /\ UNCHANGED db
        /\ Pending' = {} /\ InMempool' = {} /\ InFlight' = {}
    BY <1>1, CrashEffect DEF rowVars
  <2> QED
    BY <2>1 DEF NothingFailed, Held, Undecided, OpenRow, Idle
<1>2. CASE RepairPoisoned
  <2>1. UNCHANGED <<pendq, inq, op>>
    BY <1>2 DEF RepairPoisoned, queueVars
  <2>2. Held' = Held
    BY <2>1, SameMembers DEF Held
  <2>3. ASSUME NEW t \in TxId, Undecided(t)'
        PROVE  Undecided(t) /\ db'[t].tx.failed = db[t].tx.failed
    <3>1. \/ db'[t] = db[t]
          \/ db[t].status = "PENDING" /\ db'[t] = [db[t] EXCEPT !.status = "FAILED"]
      BY <1>2 DEF RepairPoisoned, With
    <3>2. [db[t] EXCEPT !.status = "FAILED"].status = "FAILED"
      BY RowTx DEF Row
    <3> QED
      BY <2>3, <3>1, <3>2 DEF Undecided, OpenRow
  <2> QED
    BY <2>1, <2>2, <2>3, KeptUnfailed DEF NothingFailed
<1>3. CASE RepairAttempts
  <2>1. UNCHANGED <<pendq, inq, op>>
    BY <1>3 DEF RepairAttempts, queueVars
  <2>2. Held' = Held
    BY <2>1, SameMembers DEF Held
  <2>3. ASSUME NEW t \in TxId, Undecided(t)'
        PROVE  Undecided(t) /\ db'[t].tx.failed = db[t].tx.failed
    <3>1. \/ db'[t] = db[t]
          \/ /\ db[t].status = "PENDING"
             /\ \/ db'[t].tx = [db[t].tx EXCEPT !.hash = FirstLanded(t)]
                \/ db'[t].status = "FAILED"
      BY <1>3 DEF RepairAttempts, RepairedRow, With
    <3>2. [db[t].tx EXCEPT !.hash = FirstLanded(t)].failed = db[t].tx.failed
      BY RowTx DEF Entry
    <3> QED
      BY <2>3, <3>1, <3>2 DEF Undecided, OpenRow
  <2> QED
    BY <2>1, <2>2, <2>3, KeptUnfailed DEF NothingFailed
<1>4. CASE LoadQueues
  <2>1. /\ UNCHANGED <<db, op>> /\ boot # "online"
        /\ \A e \in Pending' : \E t \in With("PENDING") : e = db[t].tx
        /\ \A e \in InMempool' : \E t \in With("INMEMPOOL") : e = db[t].tx
    BY <1>4, LoadQueuesEffect DEF rowVars
  <2>2. InFlight' = InFlight
    BY <2>1, SameMembers
  <2>3. \A e \in Held' : e.failed = FALSE
    BY <2>1, <2>2 DEF Held, NothingFailed, Undecided, OpenRow, With
  <2> QED
    BY <2>1, <2>3 DEF NothingFailed, Undecided, OpenRow
<1>5. CASE Setback
  <2>1. UNCHANGED <<pendq, inq, op>>
    BY <1>5, SetbackEffect
  <2>2. Held' = Held
    BY <2>1, SameMembers DEF Held
  <2>3. ASSUME NEW t \in TxId, Undecided(t)'
        PROVE  Undecided(t) /\ db'[t].tx.failed = db[t].tx.failed
    <3>1. ASSUME db'[t] # db[t]
          PROVE  /\ db[t].status = "PENDING"
                 /\ db'[t].tx = [db[t].tx EXCEPT !.hash = FirstLanded(t)]
      <4>1. /\ t \in With("PENDING") /\ db[t].tx.hash # None /\ ~db[t].tx.failed
            /\ FirstLanded(t) # None /\ db'[t] = RepairedRow(t)
        BY <1>5, <3>1, SetbackRow
      <4>2. db'[t] = [status |-> "INMEMPOOL", tx |-> [db[t].tx EXCEPT !.hash = FirstLanded(t)]]
        BY <4>1 DEF RepairedRow
      <4> QED
        BY <4>1, <4>2 DEF With
    <3>2. [db[t].tx EXCEPT !.hash = FirstLanded(t)].failed = db[t].tx.failed
      BY RowTx DEF Entry
    <3> QED
      BY <2>3, <3>1, <3>2 DEF Undecided, OpenRow
  <2> QED
    BY <2>1, <2>2, <2>3, KeptUnfailed DEF NothingFailed
<1> QED
  BY <1>1, <1>2, <1>3, <1>4, <1>5 DEF Startup

LEMMA NothingMoreFailed ==
  ASSUME TypeOK, Placed, NoncesApart, NothingFailed, left["reject"] = 0, [Next]_vars
  PROVE  NothingFailed'
<1>1. CASE Network \/ (\E t \in TxId : Expire(t)) \/ UNCHANGED vars
  <2>1. UNCHANGED <<db, pendq, inq, op>>
    BY <1>1 DEF Network, Expire, vars, rowVars, queueVars
  <2>2. Held' = Held
    BY <2>1, SameMembers DEF Held
  <2> QED
    BY <2>1, <2>2 DEF NothingFailed, Undecided, OpenRow
<1>2. ASSUME NEW t \in TxId, Api(t) PROVE NothingFailed'
  BY <1>2, ApiUnfailed
<1> QED
  BY <1>1, <1>2, LoopUnfailed, ContinueUnfailed, StartupUnfailed DEF Next, Setback

LEMMA FailuresStayLast ==
  ASSUME TypeOK, Placed, NoncesApart, FailuresLast, [Next]_vars
  PROVE  FailuresLast'
<1>1. CASE left["crash"] = 0 /\ boot = "online"
  <2>1. "crash" \in Fault
    BY DEF Fault
  <2>2. left'["crash"] = 0
    BY <1>1, <2>1, BudgetsFall
  <2>3. boot' = "online"
    <3>1. ~Crash /\ ~Startup /\ ~Setback
      BY <1>1, SetbackEffect DEF Crash, Spend, Startup, RepairPoisoned, RepairAttempts, LoadQueues
    <3>2. CASE \E t \in TxId : Api(t) \/ Expire(t)
      BY <1>1, <3>2 DEF Api, Admit, AdmitUnestimable, AdmitUnsaved, CancelPending, ReplacePending,
         CancelInmempool, ReplaceInmempool, SendRival, EditPending, Send, Expire
    <3>3. CASE Loops
      BY <1>1, <3>3 DEF Loops, SendPending, EstimateRejects, BumpGas, ResolveReceipt,
         ResolveReceiptUnsaved, Confirm, Send
    <3>4. CASE Continue
      BY <1>1, <3>4 DEF Continue, Deliver, MarkPendingSent, MarkBumpSent, MarkRivalSent,
         LinkRival, CloseOut, AdoptLanded, ReassignPending, ConflictMined, ReassignInmempool,
         StepFails, SettleLoser
    <3>5. CASE Network \/ UNCHANGED vars
      BY <1>1, <3>5 DEF Network, vars
    <3> QED
      BY <3>1, <3>2, <3>3, <3>4, <3>5 DEF Next, Setback
  <2> QED
    BY <2>2, <2>3 DEF FailuresLast
<1>2. CASE left["reject"] = 0 /\ NothingFailed
  <2>1. "reject" \in Fault
    BY DEF Fault
  <2>2. left'["reject"] = 0
    BY <1>2, <2>1, BudgetsFall
  <2> QED
    BY <1>2, <2>2, NothingMoreFailed DEF FailuresLast
<1> QED
  BY <1>1, <1>2 DEF FailuresLast

\* What is pooled is an attempt of an open transaction, at its nonce.
PoolOpen ==
  \A h \in pool : \E t \in TxId :
    OpenRow(t) /\ RecordedFor(t, h) /\ db[t].tx.nonce = h.nonce

\* Only a broadcast puts a hash into the pool.
LEMMA PoolGrows ==
  ASSUME TypeOK, [Next]_vars, NEW h \in pool'
  PROVE  h \in pool \/ (op.at = "persisted" /\ h = op.tx.hash /\ UNCHANGED <<db, audit>>)
<1>1. CASE Network
  BY <1>1 DEF Network, NodeStep, Mine, MineReverted, MineStray, MineExternal, Evict, Include
<1>2. CASE Deliver
  <2>1. PICK r \in Reply : Broadcast(op.tx.hash, r)
    BY <1>2 DEF Deliver
  <2>2. op.at = "persisted" /\ UNCHANGED <<db, audit>>
    BY <1>2 DEF Deliver, At, rowVars
  <2> QED
    BY <2>1, <2>2 DEF Broadcast, Pool, nodeVars
<1>3. CASE \E t \in TxId : Api(t) \/ Expire(t)
  BY <1>3 DEF Api, Admit, AdmitUnestimable, AdmitUnsaved, CancelPending, ReplacePending,
     CancelInmempool, ReplaceInmempool, SendRival, EditPending, Send, Expire, nodeVars
<1>4. CASE Loops
  BY <1>4 DEF Loops, SendPending, EstimateRejects, BumpGas, ResolveReceipt,
     ResolveReceiptUnsaved, Confirm, Send, nodeVars
<1>5. CASE Continue
  BY <1>2, <1>5 DEF Continue, MarkPendingSent, MarkBumpSent, MarkRivalSent, LinkRival,
     CloseOut, AdoptLanded, ReassignPending, ConflictMined, ReassignInmempool, StepFails,
     SettleLoser, nodeVars
<1>6. CASE Crash \/ Startup \/ UNCHANGED vars
  BY <1>6 DEF Crash, Startup, RepairPoisoned, RepairAttempts, LoadQueues, vars, nodeVars
<1>7. CASE Setback
  BY <1>7, SetbackEffect
<1> QED
  BY <1>1, <1>3, <1>4, <1>5, <1>6, <1>7 DEF Next, Setback

\* The row of what is in flight is open.
LEMMA FlightOpen ==
  ASSUME TypeOK, Placed, op.at # "idle"
  PROVE  op.tx.id \in TxId /\ OpenRow(op.tx.id)
<1>1. op.tx \in Entry /\ op.kind \in Kind
  BY OperationType
<1>2. CASE op.kind = "pending"
  <2>1. pendq # <<>> /\ pendq[1].id = op.tx.id
    BY <1>2 DEF Placed, FlightPlaced
  <2>2. 1 \in DOMAIN pendq
    BY <2>1 DEF TypeOK
  <2>3. pendq[1] \in Pending
    BY <2>2 DEF Pending
  <2> QED
    BY <1>1, <2>1, <2>3 DEF OpenRow, Placed, QueuesPlaced, StatusPlaced, Entry
<1>3. CASE op.kind = "bump"
  <2>1. inq # <<>> /\ Active(inq[1]).id = op.tx.id
    BY <1>3 DEF Placed, FlightPlaced
  <2>2. Active(inq[1]) \in InMempool
    BY <2>1, FrontOfInmempool
  <2> QED
    BY <1>1, <2>1, <2>2 DEF OpenRow, Placed, QueuesPlaced, StatusPlaced, Entry
<1>4. CASE op.kind \in {"cancel", "replace"}
  BY <1>1, <1>4 DEF Placed, FlightPlaced, OpenRow, Entry
<1> QED
  BY <1>1, <1>2, <1>3, <1>4 DEF Kind

\* A transaction with an attempt in the pool is not closed.
LEMMA PooledStaysOpen ==
  ASSUME TypeOK, HashesRecorded, Placed, Links, NoncesApart, NodePlaced, Attempted, FlightRow,
         AttemptsBelow, MinedSpent, FailuresLast, [Next]_vars,
         NEW h \in pool, NEW t \in TxId, OpenRow(t), RecordedFor(t, h), db[t].tx.nonce = h.nonce
  PROVE  OpenRow(t)' /\ db'[t].tx.nonce = h.nonce
<1>1. /\ h.nonce \in Nat /\ Len(chain) \in Nat /\ h.nonce >= Len(chain)
  BY DEF TypeOK, NodeTypeOK, NodePlaced, Hash
<1>2. ~Spent(t)
  <2>1. PICK i \in DOMAIN audit[t] : audit[t][i] = h
    BY DEF RecordedFor
  <2> QED
    BY <1>1, <2>1 DEF Spent
<1>3. CASE SendStep
  <2>1. PICK e \in Entry, f \in Entry, k \in Kind : Sent(e, f, k)
    BY <1>3, SendStepSends
  <2> QED
    BY <2>1 DEF Sent, OpenRow
<1>4. CASE QuietStep
  <2>1. RowQuiet(t) /\ (OpenRow(t)' \/ Closes(t))
    BY <1>4 DEF QuietStep, RowsQuiet
  <2>2. ~Renumbers(t)
    BY <1>2, RenumbersPast, PastSpent
  <2>3. db'[t].tx.nonce = h.nonce
    BY <2>1, <2>2 DEF RowQuiet, OpenRow
  <2>4. ~Closes(t)
    <3>1. ~(\E e \in InMempool : e.id = t /\ Mined(e))
      BY <1>2 DEF MinedSpent, Held
    <3>2. ~(op.at = "settling" /\ op.tx.id = t) /\ t \notin minedq
      BY <1>2 DEF MinedSpent
    <3>3. ~(\A i \in DOMAIN audit[t] : ~Exists(audit[t][i]))
      BY DEF RecordedFor, Exists
    <3>4. ~(boot = "down" /\ db[t].tx.failed)
      BY DEF FailuresLast, NothingFailed, Undecided
    <3> QED
      BY <3>1, <3>2, <3>3, <3>4 DEF Closes
  <2> QED
    BY <2>1, <2>3, <2>4
<1> QED
  BY <1>3, <1>4, StepKinds

LEMMA PoolStaysOpen ==
  ASSUME TypeOK, InFlightRecorded, HashesRecorded, Placed, Links, NoncesApart, NodePlaced,
         Attempted, FlightRow, AttemptsBelow, MinedSpent, FailuresLast, PoolOpen, [Next]_vars
  PROVE  PoolOpen'
<1> SUFFICES ASSUME NEW h \in pool'
             PROVE  \E t \in TxId :
                      OpenRow(t)' /\ RecordedFor(t, h)' /\ db'[t].tx.nonce = h.nonce
  BY DEF PoolOpen
<1>1. CASE h \in pool
  <2>1. PICK t \in TxId : OpenRow(t) /\ RecordedFor(t, h) /\ db[t].tx.nonce = h.nonce
    BY <1>1 DEF PoolOpen
  <2> QED
    BY <1>1, <2>1, PooledStaysOpen, RecordedForStays
<1>2. CASE op.at = "persisted" /\ h = op.tx.hash /\ UNCHANGED <<db, audit>>
  <2>1. PICK t \in TxId : t = op.tx.id /\ OpenRow(t)
    BY <1>2, FlightOpen
  <2>2. RecordedFor(t, h)
    BY <1>2, <2>1 DEF InFlightRecorded, RecordedFor
  <2>3. op.tx \in Held
    BY <1>2 DEF Held, InFlight
  <2>4. db[t].tx.nonce = h.nonce
    BY <1>2, <2>1, <2>3 DEF Attempted, FlightNumbered, NoncesApart, RowNonces
  <2>5. OpenRow(t)' /\ db'[t].tx.nonce = h.nonce
    BY <1>2, <2>1, <2>4 DEF OpenRow
  <2> QED
    BY <2>2, <2>5, RecordedForStays
<1> QED
  BY <1>1, <1>2, PoolGrows

LEMMA InitBroadcasts ==
  ASSUME Init
  PROVE  /\ FlightRow /\ AttemptsBelow /\ MovedSent /\ ContestsSpent /\ MinedSpent /\ PoolOpen
         /\ (\A b \in Budgets : b["reject"] = 0 \/ b["crash"] = 0) => FailuresLast
<1>1. /\ op = Idle /\ moved = {} /\ minedq = {} /\ pool = {} /\ inq = <<>> /\ pendq = <<>>
      /\ boot = "online" /\ left \in Budgets
      /\ \A t \in TxId : audit[t] = <<>> /\ db[t] = NoRow(t)
  BY DEF Init, NodeInit
<1>2. Held = {} /\ DOMAIN inq = {}
  BY <1>1 DEF Held, Pending, InMempool, InFlight, Idle
<1>3. \A t \in TxId : db[t].status = "absent" /\ db[t].tx.failed = FALSE
  <2>1. \A t \in TxId : NoRow(t).status = "absent" /\ NoRow(t).tx.failed = FALSE
    BY DEF NoRow, Emptied, NewEntry
  <2> QED
    BY <1>1, <2>1
<1>4. \A t \in TxId : DOMAIN audit[t] = {}
  BY <1>1
<1>5. FlightRow /\ MovedSent /\ PoolOpen
  BY <1>1 DEF FlightRow, MovedSent, PoolOpen, Idle
<1>6. AttemptsBelow
  BY <1>4 DEF AttemptsBelow
<1>7. ContestsSpent
  BY <1>2, <1>3 DEF ContestsSpent, Contending
<1>8. MinedSpent
  BY <1>1, <1>2, <1>3 DEF MinedSpent, OpenRow, Idle
<1>9. NothingFailed
  BY <1>1, <1>2, <1>3 DEF NothingFailed, Idle
<1> QED
  BY <1>1, <1>5, <1>6, <1>7, <1>8, <1>9 DEF FailuresLast

\* Everything above, of one state.
RowsKept ==
  /\ TypeOK /\ InFlightRecorded /\ HashesRecorded /\ Placed /\ Links
  /\ NoncesApart /\ NodePlaced /\ Attempted /\ Contested
  /\ FlightRow /\ AttemptsBelow /\ MovedSent /\ ContestsSpent /\ MinedSpent
  /\ FailuresLast /\ PoolOpen

LEMMA InitRowsKept ==
  ASSUME Init, \A b \in Budgets : b["reject"] = 0 \/ b["crash"] = 0
  PROVE  RowsKept
<1>1. InFlightRecorded
  BY DEF Init, InFlightRecorded, Idle
<1> QED
  BY <1>1, InitType, InitPlaced, InitNonces, InitAttempts, InitContested, InitBroadcasts
  DEF RowsKept

LEMMA RowsStayKept ==
  ASSUME RowsKept, [Next]_vars
  PROVE  RowsKept'
<1> USE DEF RowsKept
<1>1. TypeOK' /\ InFlightRecorded' /\ HashesRecorded' /\ Placed' /\ Links'
  BY NextType, InFlightStays, HashesStay, PlacedStays DEF HashesRecorded
<1>2. NoncesApart' /\ NodePlaced' /\ Attempted' /\ Contested'
  BY NoncesApartStay, AttemptsStay, ContestsDecide DEF HashesRecorded
<1>3. FlightRow' /\ AttemptsBelow' /\ MovedSent'
  BY <1>1, <1>2, FlightRowStays, BelowStays
<1>4. ContestsSpent'
  BY <1>1, <1>2, ContestsStaySpent
<1>5. MinedSpent'
  BY <1>1, <1>2, <1>3, MinedStaysSpent
<1>6. FailuresLast' /\ PoolOpen'
  BY FailuresStayLast, PoolStaysOpen
<1> QED
  BY <1>1, <1>2, <1>3, <1>4, <1>5, <1>6

\* The nonce of a pooled transaction is never free for a new one, whatever answer, statement
\* or process was lost between the broadcast and the bookkeeping, and whichever side of a
\* contest was mined: no row is closed, and none is renumbered, while one of its attempts is
\* in the pool.  A closed-out transaction that a restart takes for a poisoned one is the
\* exception, so the relayer is not both rejected and restarted.
THEOREM BroadcastsProtected ==
  ASSUME \A b \in Budgets : b["reject"] = 0 \/ b["crash"] = 0
  PROVE  Spec => []LiveBroadcastsProtected
<1>1. Init => RowsKept
  BY InitRowsKept
<1>2. RowsKept /\ [Next]_vars => RowsKept'
  BY RowsStayKept
<1>3. RowsKept => LiveBroadcastsProtected
  <2> SUFFICES ASSUME RowsKept, boot = "online", NEW h \in pool PROVE h.nonce < nm
    BY DEF LiveBroadcastsProtected
  <2>1. PICK t \in TxId : OpenRow(t) /\ db[t].tx.nonce = h.nonce
    BY DEF RowsKept, PoolOpen
  <2> QED
    BY <2>1 DEF RowsKept, NoncesApart, OpenBelow
<1> QED
  BY <1>1, <1>2, <1>3, PTL DEF Spec

-----------------------------------------------------------------------------
(***************************************************************************)
(* Every open transaction is in memory.                                     *)
(***************************************************************************)
Tracked(t) == \E e \in Pending \cup InMempool : e.id = t

\* The loser of a decided contest has left memory before its row is written.
OpenTracked ==
  boot = "online" => \A t \in User :
    OpenRow(t) => Tracked(t) \/ (op.at = "settling" /\ op.tx.id = t)

\* No statement fails, and no rival reverts.
NoneLost ==
  /\ left["db"] = 0
  /\ Rival = {} \/ (left["revert"] = 0 /\ \A b \in Receipts : b.ok)

\* What an insertion and an overwrite keep of a queue.
LEMMA InsertKeeps ==
  ASSUME NEW q \in Seq(Entry), NEW e \in Entry
  PROVE  /\ \E k \in DOMAIN InsertByNonce(q, e) : InsertByNonce(q, e)[k] = e
         /\ \A i \in DOMAIN q : \E k \in DOMAIN InsertByNonce(q, e) : InsertByNonce(q, e)[k] = q[i]
<1> DEFINE before == {i \in 1..Len(q) : \A j \in 1..i : q[j].nonce <= e.nonce}
<1>1. Cardinality(before) + 1 \in 1..(Len(q) + 1)
  BY PositionCount
<1>2. InsertByNonce(q, e) = InsertAt(q, Cardinality(before) + 1, e)
  BY DEF InsertByNonce
<1> HIDE DEF before
<1>3. PICK p \in 1..(Len(q) + 1) : InsertByNonce(q, e) = InsertAt(q, p, e)
  BY <1>1, <1>2
<1>4. PICK r : r = InsertByNonce(q, e)
  OBVIOUS
<1>5. /\ DOMAIN r = 1..(Len(q) + 1) /\ r[p] = e
      /\ \A k \in DOMAIN r : k < p => r[k] = q[k] /\ k \in DOMAIN q
      /\ \A k \in DOMAIN r : k > p => r[k] = q[k - 1] /\ k - 1 \in DOMAIN q
  BY <1>3, <1>4, InsertAtPositions
<1>6. ASSUME NEW i \in DOMAIN q PROVE \E k \in DOMAIN r : r[k] = q[i]
  <2>1. i \in 1..Len(q) /\ Len(q) \in Nat
    OBVIOUS
  <2>2. CASE i < p
    <3>1. i \in DOMAIN r
      BY <1>5, <2>1
    <3> QED
      BY <1>5, <2>2, <3>1
  <2>3. CASE i >= p
    <3>1. i + 1 \in DOMAIN r /\ i + 1 > p /\ (i + 1) - 1 = i
      BY <1>5, <2>1, <2>3
    <3> QED
      BY <1>5, <3>1
  <2> QED
    BY <2>1, <2>2, <2>3
<1> QED
  BY <1>4, <1>5, <1>6

\* A queue sorted by nonce, or read in that order, has every entry.
LEMMA SortedCovers ==
  ASSUME NEW S, IsFiniteSet(S), NEW q \in EntriesByNonce(S) \cup ContestsByNonce(S)
  PROVE  \A x \in S : \E i \in DOMAIN q : q[i] = x
<1>1. q \in SetToSeqs(S)
  BY DEF EntriesByNonce, ContestsByNonce
<1>2. q \in Injection(1..Cardinality(S), S)
  BY <1>1 DEF SetToSeqs, Injection, IsInjective
<1>3. Cardinality(S) \in Nat
  BY FS_CardinalityType
<1>4. Cardinality(1..Cardinality(S)) = Cardinality(S)
  BY <1>3, FS_Interval
<1>5. q \in Surjection(1..Cardinality(S), S)
  BY <1>2, <1>4, FS_Injection
<1> QED
  BY <1>5 DEF Surjection

\* Memory that keeps its ids keeps what it tracks.
LEMMA KeepsTracked ==
  ASSUME NEW t, Tracked(t),
         \A e \in Pending : e.id = t => \E f \in Pending' \cup InMempool' : f.id = t,
         \A e \in InMempool : e.id = t => \E f \in Pending' \cup InMempool' : f.id = t
  PROVE  Tracked(t)'
  BY DEF Tracked

LEMMA SameTracked ==
  ASSUME NEW t, UNCHANGED <<pendq, inq>>
  PROVE  Tracked(t) <=> Tracked(t)'
  BY SameMembers DEF Tracked

LEMMA EditTracked ==
  ASSUME TypeOK, NEW e \in Entry, pendq' = Updated(pendq, e), UNCHANGED inq, NEW t, Tracked(t)
  PROVE  Tracked(t)'
<1>1. InMempool' = InMempool
  BY SameMembers
<1>2. ASSUME NEW g \in Pending, g.id = t PROVE \E f \in Pending' : f.id = t
  <2>1. PICK i \in DOMAIN pendq : g = pendq[i]
    BY DEF Pending
  <2>2. i \in DOMAIN pendq' /\ pendq'[i] = IF pendq[i].id = e.id THEN e ELSE pendq[i]
    BY PendingMembers
  <2>3. pendq'[i] \in Pending' /\ pendq'[i].id = t
    BY <1>2, <2>1, <2>2, HeldPositionsAfter
  <2> QED
    BY <2>3
<1> QED
  BY <1>1, <1>2, KeepsTracked

LEMMA MoveTracked ==
  ASSUME TypeOK, NEW e \in Entry, MovePendingToInmempool(e), NEW t, Tracked(t)
  PROVE  Tracked(t)'
<1>1. CASE UNCHANGED <<pendq, inq>>
  BY <1>1, SameTracked
<1>2. CASE /\ pendq # <<>> /\ Head(pendq).id = e.id
           /\ pendq' = Tail(pendq) /\ inq' = Append(inq, Alone(e))
  <2>1. /\ pendq \in Seq(Entry) /\ inq \in Seq(Contest)
    BY DEF TypeOK
  <2>2. /\ DOMAIN inq' = 1..(Len(inq) + 1) /\ inq'[Len(inq) + 1] = Alone(e)
        /\ \A i \in DOMAIN inq : i \in DOMAIN inq' /\ inq'[i] = inq[i]
        /\ Len(inq) + 1 \in DOMAIN inq'
    BY <1>2, <2>1
  <2>3. e \in InMempool'
    BY <2>2, AloneSides, HeldPositionsAfter
  <2>4. \A g \in InMempool : g \in InMempool'
    BY <2>2, HeldPositions, HeldPositionsAfter
  <2>5. ASSUME NEW g \in Pending, g.id = t PROVE \E f \in Pending' \cup InMempool' : f.id = t
    <3>1. PICK i \in DOMAIN pendq : g = pendq[i]
      BY DEF Pending
    <3>2. CASE i = 1
      BY <1>2, <2>1, <2>3, <2>5, <3>1, <3>2
    <3>3. CASE i # 1
      <4>1. i - 1 \in DOMAIN pendq' /\ pendq'[i - 1] = pendq[i]
        BY <1>2, <2>1, <3>3
      <4>2. g \in Pending'
        BY <3>1, <4>1, HeldPositionsAfter
      <4> QED
        BY <2>5, <4>2
    <3> QED
      BY <3>2, <3>3
  <2> QED
    BY <2>4, <2>5, KeepsTracked
<1> QED
  BY <1>1, <1>2 DEF MovePendingToInmempool

\* The front of the in-mempool queue is overwritten, and every user's transaction stays.
LEMMA FrontTracked ==
  ASSUME TypeOK, NEW c, inq' = [inq EXCEPT ![1] = c], UNCHANGED pendq, NEW t, Tracked(t),
         inq # <<>> /\ (\E e \in Sides(inq[1]) : e.id = t) => \E f \in Sides(c) : f.id = t
  PROVE  Tracked(t)'
<1>1. Pending' = Pending
  BY SameMembers
<1>2. DOMAIN inq' = DOMAIN inq /\ \A i \in DOMAIN inq : inq'[i] = IF i = 1 THEN c ELSE inq[i]
  BY DEF TypeOK
<1>3. ASSUME NEW g \in InMempool, g.id = t PROVE \E f \in InMempool' : f.id = t
  <2>1. PICK i \in DOMAIN inq : g \in Sides(inq[i])
    BY HeldPositions
  <2>2. CASE i = 1
    <3>1. inq # <<>>
      BY <2>1
    <3>2. PICK f \in Sides(c) : f.id = t
      BY <1>3, <2>1, <2>2, <3>1
    <3>3. f \in InMempool'
      BY <1>2, <2>1, <2>2, <3>2, HeldPositionsAfter
    <3> QED
      BY <3>2, <3>3
  <2>3. CASE i # 1
    BY <1>2, <1>3, <2>1, <2>3, HeldPositionsAfter
  <2> QED
    BY <2>2, <2>3
<1> QED
  BY <1>1, <1>3, KeepsTracked

\* What the front loses when it leaves.
LEMMA TailTracked ==
  ASSUME TypeOK, inq # <<>>, inq' = Tail(inq), UNCHANGED pendq, NEW t, Tracked(t)
  PROVE  Tracked(t)' \/ \E e \in Sides(inq[1]) : e.id = t
<1>1. Pending' = Pending
  BY SameMembers
<1>2. inq \in Seq(Contest)
  BY DEF TypeOK
<1>3. ASSUME NEW g \in InMempool, g.id = t
      PROVE  (\E f \in InMempool' : f.id = t) \/ \E e \in Sides(inq[1]) : e.id = t
  <2>1. PICK i \in DOMAIN inq : g \in Sides(inq[i])
    BY HeldPositions
  <2>2. CASE i = 1
    BY <1>3, <2>1, <2>2
  <2>3. CASE i # 1
    <3>1. i - 1 \in DOMAIN inq' /\ inq'[i - 1] = inq[i]
      BY <1>2, <2>3
    <3>2. g \in InMempool'
      BY <2>1, <3>1, HeldPositionsAfter
    <3> QED
      BY <1>3, <3>2
  <2> QED
    BY <2>2, <2>3
<1> QED
  BY <1>1, <1>3 DEF Tracked

\* Without a budget for reverts, every receipt is of a success.
LEMMA NoneReverts ==
  ASSUME TypeOK, left["revert"] = 0, \A b \in Receipts : b.ok, [Next]_vars
  PROVE  \A b \in Receipts' : b.ok
<1>1. CASE UNCHANGED chain
  BY <1>1 DEF Receipts
<1>2. CASE Network
  <2>1. \A b \in Block : Include(b) => \A x \in Receipts' : x \in Receipts \/ x = b
    <3> SUFFICES ASSUME NEW b \in Block, Include(b), NEW i \in DOMAIN chain'
                 PROVE  chain'[i] \in Receipts \/ chain'[i] = b
      BY DEF Receipts
    <3> QED
      BY DEF Include, Receipts, TypeOK, NodeTypeOK
  <2>2. \A h \in Hash \cup {None} : [hash |-> h, ok |-> TRUE] \in Block
    BY DEF Block
  <2>3. CASE Mine
    <3>1. PICK h \in pool : Include([hash |-> h, ok |-> TRUE])
      BY <2>3 DEF Mine
    <3>2. h \in Hash
      BY DEF TypeOK, NodeTypeOK
    <3>3. PICK b \in Block : b = [hash |-> h, ok |-> TRUE]
      BY <2>2, <3>2
    <3> QED
      BY <2>1, <3>1, <3>3
  <2>4. CASE MineStray
    <3>1. PICK h \in stray : Include([hash |-> h, ok |-> TRUE])
      BY <2>4 DEF MineStray
    <3>2. h \in Hash
      BY DEF TypeOK, NodeTypeOK
    <3>3. PICK b \in Block : b = [hash |-> h, ok |-> TRUE]
      BY <2>2, <3>2
    <3> QED
      BY <2>1, <3>1, <3>3
  <2>5. CASE MineExternal
    <3>1. PICK b \in Block : b = [hash |-> None, ok |-> TRUE]
      BY <2>2
    <3> QED
      BY <2>1, <2>5, <3>1 DEF MineExternal
  <2>6. CASE MineReverted
    BY <2>6 DEF MineReverted, Spend
  <2>7. CASE Evict
    BY <2>7 DEF Evict, Receipts
  <2> QED
    BY <1>2, <2>3, <2>4, <2>5, <2>6, <2>7 DEF Network, NodeStep
<1> QED
  BY <1>1, <1>2, ChainExtends

\* Nothing is lost later either.
LEMMA NoneStaysLost ==
  ASSUME TypeOK, NoneLost, [Next]_vars
  PROVE  NoneLost'
<1>1. "db" \in Fault /\ "revert" \in Fault
  BY DEF Fault
<1>2. left'["db"] = 0 /\ (left["revert"] = 0 => left'["revert"] = 0)
  BY <1>1, BudgetsFall DEF NoneLost
<1> QED
  BY <1>2, NoneReverts DEF NoneLost

\* A written row is open only if it was, or if it is written so.
LEMMA SavedOpen ==
  ASSUME TypeOK, NEW e \in Entry, NEW s, SaveTransaction(e, s)
  PROVE  /\ \A u \in TxId : OpenRow(u)' => OpenRow(u) \/ u = e.id
         /\ s \notin {"PENDING", "INMEMPOOL"} => ~OpenRow(e.id)'
<1>1. /\ e.id \in TxId /\ db'[e.id] = [status |-> s, tx |-> e]
      /\ \A u \in TxId : u # e.id => db'[u] = db[u]
  BY SaveTransactionRows
<1>2. db'[e.id].status = s
  BY <1>1
<1> QED
  BY <1>1, <1>2 DEF OpenRow

LEMMA SentOpen ==
  ASSUME TypeOK, NEW t \in TxId, NEW h, SetSent(t, h), OpenRow(t)
  PROVE  \A u \in TxId : OpenRow(u)' => OpenRow(u)
<1>1. \A u \in TxId : u # t => db'[u] = db[u]
  BY SetSentRows
<1> QED
  BY <1>1 DEF OpenRow

\* Rows that do not open, and memory that tracks what it did.
LEMMA TrackStays ==
  ASSUME OpenTracked, boot' = "online" => boot = "online", op.at # "settling",
         \A u \in User : OpenRow(u)' =>
           \/ Tracked(u)'
           \/ OpenRow(u) /\ (Tracked(u) => Tracked(u)' \/ (op'.at = "settling" /\ op'.tx.id = u))
  PROVE  OpenTracked'
  BY DEF OpenTracked

\* The API's operations.
LEMMA ApiTracked ==
  ASSUME TypeOK, RowsRecorded, Placed, OpenTracked, NEW t \in TxId, Api(t)
  PROVE  OpenTracked'
<1>0. \A u \in User : u \in TxId
  BY QueueAssumption
<1>1. CASE Admit(t)
  <2>1. PICK e \in Entry : SaveTransaction(e, "PENDING") /\ pendq' = InsertByNonce(pendq, e)
    BY <1>1, AdmitEffect
  <2>2. op = Idle /\ boot = "online" /\ UNCHANGED <<inq, boot, op>>
    BY <1>1, AdmitEffect
  <2>3. pendq \in Seq(Entry)
    BY DEF TypeOK
  <2>4. e \in Pending' /\ \A g \in Pending : g \in Pending'
    BY <2>1, <2>3, InsertKeeps, HeldPositions, HeldPositionsAfter
  <2>5. Tracked(e.id)' /\ \A u \in User : Tracked(u) => Tracked(u)'
    BY <2>2, <2>4, SameMembers DEF Tracked
  <2>6. \A u \in User : OpenRow(u)' => OpenRow(u) \/ u = e.id
    BY <1>0, <2>1, SavedOpen
  <2>7. op.at # "settling"
    BY <2>2 DEF Idle
  <2> QED
    BY <2>2, <2>5, <2>6, <2>7, TrackStays
<1>2. CASE AdmitUnestimable(t)
  <2>1. PICK e \in Entry : SaveTransaction(e, "FAILED")
    BY <1>2, AdmitUnestimableEffect
  <2>2. op = Idle /\ boot = "online" /\ UNCHANGED <<pendq, inq, boot, op>>
    BY <1>2, AdmitUnestimableEffect
  <2>3. \A u \in User : OpenRow(u)' => OpenRow(u)
    BY <1>0, <2>1, SavedOpen
  <2>4. op.at # "settling"
    BY <2>2 DEF Idle
  <2> QED
    BY <2>2, <2>3, <2>4, SameTracked, TrackStays
<1>3. CASE AdmitUnsaved(t)
  <2>1. op = Idle /\ boot = "online" /\ UNCHANGED <<db, pendq, inq, boot, op>>
    BY <1>3, AdmitUnsavedEffect DEF rowVars
  <2>2. op.at # "settling" /\ \A u \in User : OpenRow(u)' => OpenRow(u)
    BY <2>1 DEF Idle, OpenRow
  <2> QED
    BY <2>1, <2>2, SameTracked, TrackStays
<1>4. CASE CancelPending(t) \/ ReplacePending(t)
  <2>1. op = Idle /\ boot = "online" /\ UNCHANGED <<inq, boot, op>>
    BY <1>4, EditEffect
  <2>2. PICK i \in DOMAIN pendq, e \in Entry :
          /\ pendq[i].id = t /\ SameLinks(e, pendq[i])
          /\ SaveTransaction(e, "PENDING") /\ pendq' = Updated(pendq, e)
    BY <1>4, EditEffect
  <2>3. OpenRow(e.id)
    <3>1. pendq[i] \in Pending /\ e.id = pendq[i].id
      BY <2>2 DEF Pending, SameLinks
    <3> QED
      BY <3>1 DEF Placed, QueuesPlaced, StatusPlaced, OpenRow
  <2>4. \A u \in User : OpenRow(u)' => OpenRow(u)
    BY <1>0, <2>2, <2>3, SavedOpen
  <2>5. op.at # "settling"
    BY <2>1 DEF Idle
  <2> QED
    BY <2>1, <2>2, <2>4, <2>5, EditTracked, TrackStays
<1>5. CASE CancelInmempool(t) \/ ReplaceInmempool(t)
  <2>1. PICK k \in {"cancel", "replace"} : SendRival(t, k)
    BY <1>5 DEF CancelInmempool, ReplaceInmempool
  <2>2. op = Idle /\ boot = "online"
    BY <2>1, SendRivalCopies
  <2>3. PICK c \in Rival, i \in DOMAIN inq, e \in Entry, f \in Entry :
          RivalOf(e, c, inq[i].orig, k) /\ Sends(e, "PENDING", k, f)
    BY <2>1, SendRivalCopies
  <2>4. UNCHANGED <<pendq, inq, boot>> /\ \A u \in TxId : u # c => db'[u] = db[u]
    BY <2>3 DEF Sends, RivalOf
  <2>5. \A u \in User : OpenRow(u)' => OpenRow(u)
    BY <1>0, <2>4 DEF Rival, OpenRow
  <2>6. op.at # "settling"
    BY <2>2 DEF Idle
  <2> QED
    BY <2>2, <2>4, <2>5, <2>6, SameTracked, TrackStays
<1> QED
  BY <1>1, <1>2, <1>3, <1>4, <1>5 DEF Api

\* A contest is decided, as no rival reverts.
LEMMA ContestWon ==
  ASSUME TypeOK, Placed, Links, NoneLost, ResolveReceipt, inq[1].comp # None
  PROVE  op'.at = "settling" /\ op'.tx.id = inq[1].orig.id
<1>1. inq # <<>>
  BY DEF ResolveReceipt
<1>2. PICK c \in Contest : c = inq[1] /\ c = Head(inq) /\ 1 \in DOMAIN inq
  BY <1>1, FrontOfInmempool
<1>3. c.comp \in Entry /\ c.comp \in Sides(c) /\ c.comp.ext = c.orig.id /\ c.orig.id \in TxId
  BY <1>2, SidesType, HeldType DEF Placed, QueuesPlaced, ContestsLinked
<1>4. c.comp.id \in Rival
  <2>1. c.comp \in Held
    BY <1>2, <1>3, HeldPositions DEF Held
  <2> QED
    BY <1>3, <2>1, NodeAssumption DEF Links, HeldLinked, Linked
<1>5. \A b \in Receipts : b.ok
  BY <1>4 DEF NoneLost
<1>6. PICK b \in Receipts :
        op' = IF Outcome(c, b.ok) = "MINED" /\ c.comp # None
              THEN [at |-> "settling", kind |-> c.kind, tx |-> Loser(c)]
              ELSE Idle
  BY <1>2 DEF ResolveReceipt
<1>7. Outcome(c, b.ok) = "MINED"
  BY <1>2, <1>5 DEF Outcome
<1>8. op' = [at |-> "settling", kind |-> c.kind, tx |-> Loser(c)]
  BY <1>2, <1>6, <1>7
<1> QED
  BY <1>2, <1>8, LoserIs

\* The loops' operations.
LEMMA LoopTracked ==
  ASSUME TypeOK, RowsRecorded, Placed, Links, NoneLost, OpenTracked, Loops
  PROVE  OpenTracked'
<1>0. \A u \in User : u \in TxId
  BY QueueAssumption
<1>1. ASSUME NEW e \in Entry, OpenRow(e.id), NEW s, NEW k, NEW f, op = Idle, boot = "online",
             Sends(e, s, k, f)
      PROVE  OpenTracked'
  <2>1. UNCHANGED <<pendq, inq, boot>> /\ \A u \in TxId : u # e.id => db'[u] = db[u]
    BY <1>1 DEF Sends
  <2>2. \A u \in User : OpenRow(u)' => OpenRow(u)
    BY <1>0, <1>1, <2>1 DEF OpenRow
  <2>3. op.at # "settling"
    BY <1>1 DEF Idle
  <2> QED
    BY <1>1, <2>1, <2>2, <2>3, SameTracked, TrackStays
<1>2. CASE SendPending
  <2>1. /\ op = Idle /\ boot = "online" /\ Head(pendq) \in Entry /\ Head(pendq) \in Pending
        /\ \E f \in Entry : Sends(Head(pendq), "PENDING", "pending", f)
    BY <1>2, SendPendingSends
  <2>2. OpenRow(Head(pendq).id)
    BY <2>1 DEF Placed, QueuesPlaced, StatusPlaced, OpenRow
  <2> QED
    BY <1>1, <2>1, <2>2
<1>3. CASE BumpGas
  <2>1. /\ op = Idle /\ boot = "online" /\ inq # <<>>
        /\ \E f \in Entry : Sends(Active(Head(inq)), "INMEMPOOL", "bump", f)
    BY <1>3, BumpGasSends
  <2>2. Active(Head(inq)) \in Entry /\ Active(Head(inq)) \in InMempool
    BY <2>1, FrontOfInmempool
  <2>3. OpenRow(Active(Head(inq)).id)
    BY <2>2 DEF Placed, QueuesPlaced, StatusPlaced, OpenRow
  <2> QED
    BY <1>1, <2>1, <2>2, <2>3
<1>4. CASE EstimateRejects
  <2>1. op = Idle /\ boot = "online" /\ UNCHANGED <<db, pendq, inq, boot>>
    BY <1>4, EstimateRejectsEffect DEF rowVars, queueVars
  <2>2. op.at # "settling" /\ \A u \in User : OpenRow(u)' => OpenRow(u)
    BY <2>1 DEF Idle, OpenRow
  <2> QED
    BY <2>1, <2>2, SameTracked, TrackStays
<1>5. CASE ResolveReceipt
  <2>1. op = Idle /\ boot = "online" /\ inq # <<>> /\ inq' = Tail(inq) /\ UNCHANGED <<pendq, boot>>
    BY <1>5, ResolveReceiptEffect
  <2>2. PICK a \in Entry, x \in Entry, s \in {"MINED", "FAILED", "EXPIRED"} :
          a = Active(Head(inq)) /\ WinnerRow(x, a, s) /\ SaveTransaction(x, s)
    BY <1>5, ResolveReceiptEffect
  <2>3. PICK c \in Contest : c = inq[1] /\ c = Head(inq)
    BY <2>1, FrontOfInmempool
  <2>4. \A u \in User : OpenRow(u)' => OpenRow(u) /\ u # x.id
    BY <1>0, <2>2, SavedOpen
  <2>5. ASSUME NEW u \in User, OpenRow(u)', Tracked(u)
        PROVE  Tracked(u)' \/ (op'.at = "settling" /\ op'.tx.id = u)
    <3>1. Tracked(u)' \/ \E e \in Sides(c) : e.id = u
      BY <2>1, <2>3, <2>5, TailTracked
    <3>2. ASSUME NEW e \in Sides(c), e.id = u PROVE op'.at = "settling" /\ op'.tx.id = u
      <4>1. a \in InMempool /\ a.id \in TxId
        BY <2>1, <2>2, FrontOfInmempool, HeldType
      <4>2. a.id = x.id
        BY <2>2, <4>1 DEF WinnerRow, RowsRecorded
      <4>3. c.comp # None /\ e = c.orig
        BY <2>2, <2>3, <2>4, <2>5, <3>2, <4>2, SidesType
      <4> QED
        BY <1>5, <2>3, <3>2, <4>3, ContestWon
    <3> QED
      BY <3>1, <3>2
  <2>6. op.at # "settling"
    BY <2>1 DEF Idle
  <2> QED
    BY <2>1, <2>4, <2>5, <2>6, TrackStays
<1>6. CASE ResolveReceiptUnsaved
  BY <1>6 DEF ResolveReceiptUnsaved, Spend, NoneLost
<1>7. ASSUME NEW t \in TxId, Confirm(t) PROVE OpenTracked'
  <2>1. /\ op = Idle /\ boot = "online" /\ SetStatus(t, "CONFIRMED")
        /\ UNCHANGED <<pendq, inq, boot>>
    BY <1>7 DEF Confirm, Ready
  <2>2. /\ db'[t].status = "CONFIRMED"
        /\ \A u \in TxId : u # t => db'[u] = db[u]
    BY <2>1, SetStatusRows
  <2>3. op.at # "settling" /\ \A u \in User : OpenRow(u)' => OpenRow(u)
    BY <1>0, <2>1, <2>2 DEF Idle, OpenRow
  <2> QED
    BY <2>1, <2>3, SameTracked, TrackStays
<1> QED
  BY <1>2, <1>3, <1>4, <1>5, <1>6, <1>7 DEF Loops

\* An overwrite of one side of a contest keeps the ids of both.
LEMMA WithTxKeeps ==
  ASSUME NEW c \in Contest, NEW e \in Entry
  PROVE  \A x \in Sides(c) : \E y \in Sides(WithTx(c, e)) : y.id = x.id
<1>1. WithTx(c, e) \in Contest
  BY WithTxSides
<1>2. PICK d \in Contest : d = WithTx(c, e)
  BY <1>1
<1>3. /\ d.comp = None <=> c.comp = None
      /\ d.orig.id = c.orig.id
      /\ c.comp # None => d.comp.id = c.comp.id
  <2>1. CASE c.orig.id = e.id
    BY <1>2, <2>1, WithTxSides
  <2>2. CASE c.orig.id # e.id /\ c.comp # None /\ c.comp.id = e.id
    BY <1>2, <2>2, WithTxSides
  <2>3. CASE c.orig.id # e.id /\ ~(c.comp # None /\ c.comp.id = e.id)
    BY <1>2, <2>3 DEF WithTx
  <2> QED
    BY <2>1, <2>2, <2>3
<1>4. \A x \in Sides(c) : x = c.orig \/ (c.comp # None /\ x = c.comp)
  BY SidesType
<1>5. d.orig \in Sides(d) /\ (d.comp # None => d.comp \in Sides(d))
  BY SidesType
<1> QED
  BY <1>2, <1>3, <1>4, <1>5

\* The steps of a send.
LEMMA SendTracked ==
  ASSUME TypeOK, Placed, Links, OpenTracked,
         Deliver \/ MarkPendingSent \/ MarkBumpSent \/ MarkRivalSent \/ LinkRival
  PROVE  OpenTracked'
<1>0. \A u \in User : u \in TxId /\ u \notin Rival
  BY QueueAssumption DEF Rival
<1>1. CASE Deliver
  <2>1. boot = "online" /\ op.at = "persisted" /\ UNCHANGED <<db, pendq, inq, boot>>
    BY <1>1, DeliverEffect DEF rowVars, queueVars
  <2>2. \A u \in User : OpenRow(u)' => OpenRow(u)
    BY <2>1 DEF OpenRow
  <2> QED
    BY <2>1, <2>2, SameTracked, TrackStays
<1>2. CASE MarkPendingSent
  <2>1. /\ boot = "online" /\ op.at = "accepted" /\ op.tx \in Entry
        /\ SetSent(op.tx.id, op.tx.hash) /\ MovePendingToInmempool(op.tx) /\ boot' = boot
    BY <1>2, MarkPendingSentEffect
  <2>2. \A u \in User : OpenRow(u)' => OpenRow(u)
    BY <1>0, <2>1, FlightOpen, SentOpen
  <2> QED
    BY <2>1, <2>2, MoveTracked, TrackStays
<1>3. CASE MarkBumpSent
  <2>1. /\ boot = "online" /\ op.at = "accepted" /\ op.kind = "bump" /\ op.tx \in Entry
        /\ SetSent(op.tx.id, op.tx.hash) /\ UNCHANGED <<pendq, boot>>
        /\ inq' = [inq EXCEPT ![1] = WithTx(inq[1], op.tx)]
    BY <1>3, MarkBumpSentEffect
  <2>2. \A u \in User : OpenRow(u)' => OpenRow(u)
    BY <1>0, <2>1, FlightOpen, SentOpen
  <2>3. inq # <<>> => inq[1] \in Contest
    BY FrontOfInmempool
  <2>4. ASSUME NEW u \in User, Tracked(u) PROVE Tracked(u)'
    <3> DEFINE c == WithTx(inq[1], op.tx)
    <3>1. inq # <<>> /\ (\E e \in Sides(inq[1]) : e.id = u) => \E f \in Sides(c) : f.id = u
      BY <2>1, <2>3, WithTxKeeps
    <3>2. inq' = [inq EXCEPT ![1] = c] /\ UNCHANGED pendq
      BY <2>1
    <3> HIDE DEF c
    <3> QED
      BY <2>4, <3>1, <3>2, FrontTracked
  <2> QED
    BY <2>1, <2>2, <2>4, TrackStays
<1>4. CASE MarkRivalSent
  <2>1. /\ boot = "online" /\ op.at = "accepted"
        /\ SetSent(op.tx.id, op.tx.hash) /\ UNCHANGED <<pendq, inq, boot>>
    BY <1>4, MarkRivalSentEffect DEF queueVars
  <2>2. \A u \in User : OpenRow(u)' => OpenRow(u)
    BY <1>0, <2>1, FlightOpen, SentOpen
  <2> QED
    BY <2>1, <2>2, SameTracked, TrackStays
<1>5. CASE LinkRival
  <2>1. boot = "online" /\ op.at = "linking" /\ UNCHANGED <<pendq, boot>>
    BY <1>5, LinkRivalEffect
  <2>2. PICK i \in DOMAIN inq, o \in Entry, c \in Contest :
          /\ o.id = inq[i].orig.id /\ SaveTransaction(o, "INMEMPOOL")
          /\ Sides(c) = {o, op.tx}
          /\ inq' = IF i = 1 THEN [inq EXCEPT ![1] = c] ELSE inq
    BY <1>5, LinkRivalEffect
  <2>3. \A j \in DOMAIN inq : inq[j] \in Contest
    BY DEF TypeOK
  <2>4. inq[i].orig \in InMempool
    BY <2>3, SidesType, HeldPositions
  <2>5. OpenRow(o.id)
    BY <2>2, <2>4 DEF Placed, QueuesPlaced, StatusPlaced, OpenRow
  <2>6. \A u \in User : OpenRow(u)' => OpenRow(u)
    BY <1>0, <2>2, <2>5, SavedOpen
  <2>7. ASSUME NEW u \in User, Tracked(u) PROVE Tracked(u)'
    <3>1. CASE i = 1
      <4>1. ASSUME inq # <<>>, NEW e \in Sides(inq[1]), e.id = u
            PROVE  \E f \in Sides(c) : f.id = u
        <5>1. e \in Held /\ e \in InMempool /\ inq[1] \in Contest
          BY <4>1, FrontOfInmempool DEF Held
        <5>2. CASE e = inq[1].orig
          BY <2>2, <3>1, <4>1, <5>2
        <5>3. CASE inq[1].comp # None /\ e = inq[1].comp
          <6>1. e.ext = inq[1].orig.id /\ inq[1].orig.id \in TxId
            BY <2>4, <3>1, <5>3, HeldType DEF Placed, QueuesPlaced, ContestsLinked, Held
          <6>2. e.id \in Rival
            BY <5>1, <6>1, NodeAssumption DEF Links, HeldLinked, Linked
          <6> QED
            BY <1>0, <4>1, <6>2
        <5> QED
          BY <4>1, <5>1, <5>2, <5>3, SidesType
      <4> QED
        BY <2>1, <2>2, <2>7, <3>1, <4>1, FrontTracked
    <3>2. CASE i # 1
      BY <2>1, <2>2, <2>7, <3>2, SameTracked
    <3> QED
      BY <3>1, <3>2
  <2> QED
    BY <2>1, <2>6, <2>7, TrackStays
<1> QED
  BY <1>1, <1>2, <1>3, <1>4, <1>5

\* The steps after the node refused, and the end of a contest.
LEMMA RefusedTracked ==
  ASSUME TypeOK, Placed, NoneLost, OpenTracked,
         \/ CloseOut \/ AdoptLanded \/ ReassignPending \/ ConflictMined \/ ReassignInmempool
         \/ StepFails \/ SettleLoser
  PROVE  OpenTracked'
<1>0. \A u \in User : u \in TxId
  BY QueueAssumption
<1>1. CASE CloseOut
  <2>1. boot = "online" /\ op.at = "rejected" /\ UNCHANGED <<inq, boot>>
    BY <1>1, CloseOutEffect
  <2>2. PICK e \in Entry : /\ SameLinks(e, op.tx) /\ SaveTransaction(e, "PENDING")
                           /\ pendq' = Updated(pendq, e)
    BY <1>1, CloseOutEffect
  <2>3. OpenRow(e.id)
    BY <2>1, <2>2, FlightOpen DEF SameLinks
  <2>4. \A u \in User : OpenRow(u)' => OpenRow(u)
    BY <1>0, <2>2, <2>3, SavedOpen
  <2> QED
    BY <2>1, <2>2, <2>4, EditTracked, TrackStays
<1>2. CASE AdoptLanded
  <2>1. boot = "online" /\ op.at = "conflict" /\ UNCHANGED boot
    BY <1>2, AdoptLandedEffect
  <2>2. PICK e \in Entry :
          /\ SameLinks(e, op.tx)
          /\ (SetSent(e.id, e.hash) /\ MovePendingToInmempool(e)) \/ UNCHANGED <<db, pendq, inq>>
    BY <1>2, AdoptLandedEffect
  <2>3. CASE SetSent(e.id, e.hash) /\ MovePendingToInmempool(e)
    <3>1. e.id \in TxId /\ OpenRow(e.id)
      BY <2>1, <2>2, FlightOpen DEF SameLinks
    <3>2. \A u \in User : OpenRow(u)' => OpenRow(u)
      BY <1>0, <2>3, <3>1, SentOpen
    <3> QED
      BY <2>1, <2>3, <3>2, MoveTracked, TrackStays
  <2>4. CASE UNCHANGED <<db, pendq, inq>>
    <3>1. \A u \in User : OpenRow(u)' => OpenRow(u)
      BY <2>4 DEF OpenRow
    <3> QED
      BY <2>1, <2>4, <3>1, SameTracked, TrackStays
  <2> QED
    BY <2>2, <2>3, <2>4
<1>3. CASE ReassignPending
  <2>1. /\ boot = "online" /\ op.at = "conflict" /\ UNCHANGED <<inq, boot>>
        /\ db'[op.tx.id].status = db[op.tx.id].status
        /\ \A u \in TxId : u # op.tx.id => db'[u] = db[u]
    BY <1>3, ReassignPendingEffect
  <2>2. \A u \in User : OpenRow(u)' => OpenRow(u)
    BY <1>0, <2>1 DEF OpenRow
  <2> DEFINE f == [i \in DOMAIN pendq |-> Renumbered(pendq[i], op.tx.id)]
             S == {f[i] : i \in DOMAIN pendq}
  <2>3. pendq' \in EntriesByNonce(S)
    <3>1. S = {Renumbered(pendq[i], op.tx.id) : i \in DOMAIN pendq}
      OBVIOUS
    <3> QED
      BY <1>3, <3>1 DEF ReassignPending
  <2>4. IsFiniteSet(S)
    <3>1. DOMAIN pendq = 1..Len(pendq) /\ Len(pendq) \in Nat
      BY DEF TypeOK
    <3>2. IsFiniteSet(DOMAIN pendq)
      BY <3>1, FS_Interval
    <3> HIDE DEF f
    <3> QED
      BY <3>2, ImageFinite
  <2>5. ASSUME NEW i \in DOMAIN pendq
        PROVE  f[i] \in S /\ f[i].id = pendq[i].id
    <3>1. pendq[i] \in Entry
      BY DEF TypeOK
    <3>2. \A e \in Entry : Renumbered(e, op.tx.id).id = e.id
      BY DEF Renumbered, Entry
    <3> QED
      BY <3>1, <3>2
  <2> HIDE DEF S
  <2>6. \A x \in S : \E i \in DOMAIN pendq' : pendq'[i] = x
    BY <2>3, <2>4, SortedCovers
  <2>7. ASSUME NEW u, NEW e \in Pending, e.id = u PROVE \E g \in Pending' : g.id = u
    <3>1. PICK i \in DOMAIN pendq : e = pendq[i]
      BY HeldPositions
    <3>2. PICK j \in DOMAIN pendq' : pendq'[j] = f[i]
      BY <2>5, <2>6
    <3>3. pendq'[j] \in Pending'
      BY HeldPositionsAfter
    <3> QED
      BY <2>5, <2>7, <3>1, <3>2, <3>3
  <2>8. \A u \in User : Tracked(u) => Tracked(u)'
    BY <2>1, <2>7, SameMembers, KeepsTracked
  <2> QED
    BY <2>1, <2>2, <2>8, TrackStays
<1>4. CASE ReassignInmempool
  <2>1. /\ boot = "online" /\ op.at = "conflict" /\ op.kind = "bump" /\ UNCHANGED <<pendq, boot>>
    BY <1>4, ReassignInmempoolEffect
  <2>2. PICK n \in Nat :
          /\ db'[op.tx.id].status = db[op.tx.id].status
          /\ \A u \in TxId : u # op.tx.id => db'[u] = db[u]
          /\ inq' = [inq EXCEPT ![1] = WithTx(inq[1], AtNonce(Active(inq[1]), n))]
    BY <1>4, ReassignInmempoolEffect
  <2>3. \A u \in User : OpenRow(u)' => OpenRow(u)
    BY <1>0, <2>2 DEF OpenRow
  <2>4. inq # <<>>
    BY <2>1 DEF Placed, FlightPlaced
  <2>5. inq[1] \in Contest /\ Active(inq[1]) \in Entry
    BY <2>4, FrontOfInmempool
  <2>6. AtNonce(Active(inq[1]), n) \in Entry
    BY <2>5, AtNonceType
  <2>7. ASSUME NEW u \in User, Tracked(u) PROVE Tracked(u)'
    <3> DEFINE c == WithTx(inq[1], AtNonce(Active(inq[1]), n))
    <3>1. inq # <<>> /\ (\E e \in Sides(inq[1]) : e.id = u) => \E f \in Sides(c) : f.id = u
      BY <2>5, <2>6, WithTxKeeps
    <3>2. inq' = [inq EXCEPT ![1] = c] /\ UNCHANGED pendq
      BY <2>1, <2>2
    <3> HIDE DEF c
    <3> QED
      BY <2>7, <3>1, <3>2, FrontTracked
  <2> QED
    BY <2>1, <2>3, <2>7, TrackStays
<1>5. CASE ConflictMined \/ StepFails
  <2>1. boot = "online" /\ UNCHANGED <<db, pendq, inq, boot>>
    BY <1>5, StopEffect DEF rowVars, queueVars
  <2>2. op.at # "settling"
    BY <1>5 DEF ConflictMined, At, StepFails, Spend, NoneLost
  <2>3. \A u \in User : OpenRow(u)' => OpenRow(u)
    BY <2>1 DEF OpenRow
  <2> QED
    BY <2>1, <2>2, <2>3, SameTracked, TrackStays
<1>6. CASE SettleLoser
  <2>1. /\ boot = "online" /\ op.tx \in Entry /\ UNCHANGED <<pendq, inq, boot>>
        /\ SaveTransaction(op.tx, IF op.kind = "cancel" THEN "CANCELLED" ELSE "REPLACED")
    BY <1>6, SettleLoserEffect DEF queueVars
  <2>2. \A u \in User : OpenRow(u)' => OpenRow(u) /\ u # op.tx.id
    BY <1>0, <2>1, SavedOpen
  <2>3. \A u \in User : Tracked(u) => Tracked(u)'
    BY <2>1, SameTracked
  <2> QED
    BY <2>1, <2>2, <2>3 DEF OpenTracked
<1> QED
  BY <1>1, <1>2, <1>3, <1>4, <1>5, <1>6

\* Startup reads every open row back.
LEMMA LoadTracked ==
  ASSUME TypeOK, RowsRecorded, Links, LoadQueues
  PROVE  OpenTracked'
<1> SUFFICES ASSUME NEW t \in User, OpenRow(t)' PROVE Tracked(t)'
  BY DEF OpenTracked
<1>1. /\ UNCHANGED db /\ pendq' \in EntriesByNonce(PendingEntries)
      /\ inq' \in ContestsByNonce(Contests)
  BY DEF LoadQueues, rowVars
<1>2. t \in TxId /\ t \notin Rival /\ db[t].tx.id = t /\ OpenRow(t)
  BY <1>1, QueueAssumption DEF Rival, RowsRecorded, OpenRow
<1>3. PICK e \in Entry : e = db[t].tx /\ e.id = t
  BY <1>2, RowTx
<1>4. CASE db[t].status = "PENDING"
  <2>1. e \in PendingEntries
    BY <1>2, <1>3, <1>4 DEF PendingEntries, With
  <2>2. IsFiniteSet(PendingEntries)
    BY RowsType DEF PendingEntries
  <2>3. \E i \in DOMAIN pendq' : pendq'[i] = e
    BY <1>1, <2>1, <2>2, SortedCovers
  <2>4. e \in Pending'
    BY <2>3, HeldPositionsAfter
  <2> QED
    BY <1>3, <2>4 DEF Tracked
<1>5. CASE db[t].status = "INMEMPOOL"
  <2>1. e \in LiveEntries
    BY <1>2, <1>3, <1>5 DEF LiveEntries, With
  <2>2. \A o \in LiveEntries : Linked(o)
    BY DEF LiveEntries, With, Links, RowLinked
  <2>3. \A o \in LiveEntries : o.by # e.id
    BY <1>2, <1>3, <2>2, NodeAssumption DEF Linked
  <2>4. ContestOf(e) \in Contests /\ ContestOf(e).orig = e
    BY <2>1, <2>3 DEF Contests, ContestOf, Alone
  <2>5. PICK i \in DOMAIN inq' : inq'[i] = ContestOf(e)
    BY <1>1, <2>4, ContestsType, SortedCovers
  <2>6. e \in InMempool'
    <3>1. PICK c \in Contest : c = ContestOf(e) /\ c.orig = e
      BY <2>4, ContestsType
    <3> QED
      BY <2>5, <3>1, SidesType, HeldPositionsAfter
  <2> QED
    BY <1>3, <2>6 DEF Tracked
<1> QED
  BY <1>2, <1>4, <1>5 DEF OpenRow

LEMMA OpenStaysTracked ==
  ASSUME TypeOK, RowsRecorded, Placed, Links, NoneLost, OpenTracked, [Next]_vars
  PROVE  OpenTracked'
<1>1. ASSUME NEW t \in TxId, Api(t) PROVE OpenTracked'
  BY <1>1, ApiTracked
<1>2. CASE Crash \/ Repairing
  <2>1. boot' # "online"
    BY <1>2, CrashEffect, RepairEffect
  <2> QED
    BY <2>1 DEF OpenTracked
<1>3. CASE Network \/ (\E t \in TxId : Expire(t)) \/ UNCHANGED vars
  <2>1. UNCHANGED <<db, pendq, inq, boot, op>>
    BY <1>3 DEF Network, Expire, vars, rowVars, queueVars
  <2>2. \A u \in User : OpenRow(u)' <=> OpenRow(u)
    BY <2>1 DEF OpenRow
  <2> QED
    BY <2>1, <2>2, SameTracked DEF OpenTracked
<1>4. CASE Continue
  BY <1>4, SendTracked, RefusedTracked DEF Continue
<1> QED
  BY <1>1, <1>2, <1>3, <1>4, LoopTracked, LoadTracked DEF Next, Startup, Repairing, Setback

LEMMA QueuedHeld ==
  Queued = Pending \cup InMempool
<1>1. Queued \subseteq Pending \cup InMempool
  BY HeldPositions DEF Queued, Sides
<1>2. Pending \subseteq Queued
  BY DEF Pending, Queued
<1>3. ASSUME NEW e \in InMempool PROVE e \in Queued
  <2>1. PICK i \in DOMAIN inq : e \in Sides(inq[i])
    BY HeldPositions
  <2>2. e = inq[i].orig \/ (inq[i].comp # None /\ e = inq[i].comp)
    BY <2>1 DEF Sides
  <2> QED
    BY <2>2 DEF Queued
<1> QED
  BY <1>1, <1>2, <1>3

\* No transaction of a user is forgotten and none outlives its end: while the relayer is online
\* and no operation is in flight, memory tracks exactly the users' transactions whose rows are
\* open, after any crash, lost answer, conflict, eviction and re-mining.  A statement that
\* fails after memory moved, or a rival that reverts, loses one, so neither is budgeted.
THEOREM OpenRowsInMemory ==
  ASSUME \A b \in Budgets : b["db"] = 0 /\ (b["revert"] = 0 \/ Rival = {})
  PROVE  Spec => []OpenRowsQueued
<1> DEFINE IInv == /\ TypeOK /\ InFlightRecorded /\ HashesRecorded /\ Placed /\ Links
                   /\ NoneLost /\ OpenTracked
<1>1. Init => IInv
  <2> SUFFICES ASSUME Init PROVE IInv
    OBVIOUS
  <2>1. InFlightRecorded
    BY DEF Init, InFlightRecorded, Idle
  <2>2. Receipts = {} /\ left \in Budgets
    BY DEF Init, NodeInit, Receipts
  <2>3. NoneLost
    BY <2>2 DEF NoneLost
  <2>4. \A u \in User : ~OpenRow(u)
    BY QueueAssumption DEF Init, OpenRow, NoRow
  <2> QED
    BY <2>1, <2>3, <2>4, InitType, InitPlaced DEF OpenTracked
<1>2. IInv /\ [Next]_vars => IInv'
  <2> SUFFICES ASSUME IInv, [Next]_vars PROVE IInv'
    OBVIOUS
  <2> QED
    BY NextType, InFlightStays, HashesStay, PlacedStays, NoneStaysLost, OpenStaysTracked
    DEF HashesRecorded
<1>3. IInv => OpenRowsQueued
  <2> SUFFICES ASSUME IInv, Ready
               PROVE  {t \in User : db[t].status \in {"PENDING", "INMEMPOOL"}}
                        = {e.id : e \in Queued} \cap User
    BY DEF OpenRowsQueued
  <2>1. boot = "online" /\ op.at # "settling"
    BY DEF Ready, Idle
  <2>2. Queued = Pending \cup InMempool
    BY QueuedHeld
  <2>3. \A t \in User : OpenRow(t) => \E e \in Queued : e.id = t
    BY <2>1, <2>2 DEF OpenTracked, Tracked
  <2>4. \A e \in Queued : OpenRow(e.id)
    BY <2>2 DEF Placed, QueuesPlaced, StatusPlaced, OpenRow
  <2> QED
    BY <2>3, <2>4 DEF OpenRow
<1> HIDE DEF IInv
<1> QED
  BY <1>1, <1>2, <1>3, PTL DEF Spec

-----------------------------------------------------------------------------
(***************************************************************************)
(* The queue implements the lifecycle.                                      *)
(***************************************************************************)
\* The refinement mapping.
Statuses == [t \in TxId |-> db[t].status]

Executed == {t \in TxId : Executions(t) > 0}

LifecycleStep == [Lifecycle!LifecycleNext]_(Lifecycle!lifecycleVars)

\* A payload took effect if some block has it.
Took(b, p) == b.ok /\ b.hash # None /\ b.hash.payload = p

LEMMA CountPositive ==
  ASSUME NEW n \in Nat, NEW S \in SUBSET (1..n)
  PROVE  Cardinality(S) > 0 <=> S # {}
<1>1. IsFiniteSet(1..n)
  BY FS_Interval
<1>2. IsFiniteSet(S)
  BY <1>1, FS_Subset
<1>3. Cardinality(S) \in Nat /\ (Cardinality(S) = 0 <=> S = {})
  BY <1>2, FS_CardinalityType, FS_EmptySet
<1>4. PICK c \in Nat : c = Cardinality(S) /\ (c = 0 <=> S = {})
  BY <1>3
<1>5. c > 0 <=> c # 0
  OBVIOUS
<1> QED
  BY <1>4, <1>5

LEMMA ExecutedMembers ==
  ASSUME TypeOK, NEW p \in TxId
  PROVE  p \in Executed <=> \E i \in DOMAIN chain : Took(chain[i], p)
<1> DEFINE S == {i \in DOMAIN chain :
                   chain[i].ok /\ chain[i].hash # None /\ chain[i].hash.payload = p}
<1>1. Len(chain) \in Nat /\ DOMAIN chain = 1..Len(chain)
  BY DEF TypeOK, NodeTypeOK
<1>2. S \in SUBSET (1..Len(chain))
  BY <1>1
<1>3. Cardinality(S) > 0 <=> S # {}
  <2> HIDE DEF S
  <2> QED
    BY <1>1, <1>2, CountPositive
<1>4. p \in Executed <=> Cardinality(S) > 0
  BY DEF Executed, Executions
<1> QED
  BY <1>3, <1>4 DEF Took

\* The same of the state after a step.
LEMMA ExecutedMembersAfter ==
  ASSUME TypeOK', NEW p \in TxId
  PROVE  p \in Executed' <=> \E i \in DOMAIN chain' : Took(chain'[i], p)
<1> DEFINE S == {i \in DOMAIN chain' :
                   chain'[i].ok /\ chain'[i].hash # None /\ chain'[i].hash.payload = p}
<1>1. Len(chain') \in Nat /\ DOMAIN chain' = 1..Len(chain')
  BY DEF TypeOK, NodeTypeOK
<1>2. S \in SUBSET (1..Len(chain'))
  BY <1>1
<1>3. Cardinality(S) > 0 <=> S # {}
  <2> HIDE DEF S
  <2> QED
    BY <1>1, <1>2, CountPositive
<1>4. p \in Executed' <=> Cardinality(S) > 0
  BY DEF Executed, Executions
<1> QED
  BY <1>3, <1>4 DEF Took

\* A step that changes no status and executes nothing is a stutter.
LEMMA MapStutter ==
  ASSUME \A t \in TxId : db'[t].status = db[t].status, Executed' = Executed
  PROVE  LifecycleStep
<1>1. Statuses' = Statuses
  BY DEF Statuses
<1> QED
  BY <1>1 DEF LifecycleStep, Lifecycle!lifecycleVars, Statuses, Executed

\* Nothing is executed while the chain stays.
LEMMA SameExecuted ==
  ASSUME UNCHANGED chain
  PROVE  Executed' = Executed
  BY DEF Executed, Executions

\* One transaction changes its status.
Turns(t, From, s) ==
  /\ db[t].status \in From /\ db'[t].status = s
  /\ \A u \in TxId : u # t => db'[u].status = db[u].status
  /\ s \in {"FAILED", "EXPIRED", "CANCELLED", "REPLACED"} => t \notin Executed

LEMMA MapTurn ==
  ASSUME UNCHANGED chain, NEW t \in TxId, NEW From, NEW s, Turns(t, From, s)
  PROVE  Lifecycle!Turn({t}, From, s)
<1> USE DEF Turns
<1>1. Statuses' = [u \in TxId |-> IF u \in {t} THEN s ELSE Statuses[u]]
  BY DEF Statuses
<1>2. Executed' = Executed
  BY SameExecuted
<1>3. \A u \in {t} : Statuses[u] \in From
  BY DEF Statuses
<1>4. s \in {"FAILED", "EXPIRED", "CANCELLED", "REPLACED"} => {t} \cap Executed = {}
  OBVIOUS
<1> QED
  BY <1>1, <1>2, <1>3, <1>4 DEF Lifecycle!Turn, Lifecycle!NotExecuted, Statuses, Executed

LEMMA MapAccept ==
  ASSUME UNCHANGED chain, NEW t \in TxId, db[t].status = "absent", db'[t].status = "PENDING",
         \A u \in TxId : u # t => db'[u].status = db[u].status
  PROVE  LifecycleStep
<1>1. Turns(t, {"absent"}, "PENDING")
  BY DEF Turns
<1>2. Lifecycle!Turn({t}, {"absent"}, "PENDING")
  BY <1>1, MapTurn
<1>3. Lifecycle!Accept(t)
  BY <1>2 DEF Lifecycle!Accept
<1> QED
  BY <1>3 DEF LifecycleStep, Lifecycle!LifecycleNext

LEMMA MapSend ==
  ASSUME UNCHANGED chain, NEW t \in TxId, db[t].status = "PENDING", db'[t].status = "INMEMPOOL",
         \A u \in TxId : u # t => db'[u].status = db[u].status
  PROVE  LifecycleStep
<1>1. Turns(t, {"PENDING"}, "INMEMPOOL")
  BY DEF Turns
<1>2. Lifecycle!Turn({t}, {"PENDING"}, "INMEMPOOL")
  BY <1>1, MapTurn
<1>3. Lifecycle!Send(t)
  BY <1>2 DEF Lifecycle!Send
<1> QED
  BY <1>3 DEF LifecycleStep, Lifecycle!LifecycleNext

LEMMA MapSettle ==
  ASSUME UNCHANGED chain, NEW t \in TxId, db[t].status = "INMEMPOOL",
         db'[t].status = "MINED" \/ (db'[t].status = "FAILED" /\ t \notin Executed),
         \A u \in TxId : u # t => db'[u].status = db[u].status
  PROVE  LifecycleStep
<1>1. PICK s \in {"MINED", "FAILED"} :
        db'[t].status = s /\ (s = "FAILED" => t \notin Executed)
  OBVIOUS
<1>2. Turns(t, {"INMEMPOOL"}, s)
  BY <1>1 DEF Turns
<1>3. Lifecycle!Turn({t}, {"INMEMPOOL"}, s)
  BY <1>2, MapTurn
<1>4. Lifecycle!Settle(t)
  BY <1>3 DEF Lifecycle!Settle, Lifecycle!NotExecuted
<1> QED
  BY <1>4 DEF LifecycleStep, Lifecycle!LifecycleNext

LEMMA MapConfirmed ==
  ASSUME UNCHANGED chain, NEW t \in TxId, db[t].status \in {"MINED", "INMEMPOOL"},
         db'[t].status = "CONFIRMED", \A u \in TxId : u # t => db'[u].status = db[u].status
  PROVE  LifecycleStep
<1>1. Turns(t, {"MINED", "INMEMPOOL"}, "CONFIRMED")
  BY DEF Turns
<1>2. Lifecycle!Turn({t}, {"MINED", "INMEMPOOL"}, "CONFIRMED")
  BY <1>1, MapTurn
<1>3. Lifecycle!Confirmed(t)
  BY <1>2 DEF Lifecycle!Confirmed
<1> QED
  BY <1>3 DEF LifecycleStep, Lifecycle!LifecycleNext

\* Startup decides several at once.
LEMMA MapRecover ==
  ASSUME UNCHANGED chain,
         \A t \in TxId : \/ db'[t].status = db[t].status
                         \/ db[t].status = "PENDING" /\ db'[t].status = "INMEMPOOL"
                         \/ /\ db[t].status = "PENDING" /\ db'[t].status = "FAILED"
                            /\ t \notin Executed
  PROVE  LifecycleStep
<1> DEFINE S == {t \in TxId : db[t].status = "PENDING" /\ db'[t].status = "INMEMPOOL"}
           F == {t \in TxId : db[t].status = "PENDING" /\ db'[t].status = "FAILED"}
<1>1. \A t \in S \cup F : Statuses[t] = "PENDING"
  BY DEF Statuses
<1>2. S \cap F = {} /\ F \cap Executed = {}
  OBVIOUS
<1>3. Statuses' = [t \in TxId |-> IF t \in S THEN "INMEMPOOL"
                                  ELSE IF t \in F THEN "FAILED" ELSE Statuses[t]]
  BY DEF Statuses
<1>4. Executed' = Executed
  BY SameExecuted
<1>5. S \in SUBSET TxId /\ F \in SUBSET TxId
  OBVIOUS
<1> HIDE DEF S, F
<1>6. Lifecycle!Recover
  BY <1>1, <1>2, <1>3, <1>4, <1>5 DEF Lifecycle!Recover, Statuses, Executed
<1> QED
  BY <1>6 DEF LifecycleStep, Lifecycle!LifecycleNext

\* A block executes a payload whose transaction is open.
LEMMA MapExecute ==
  ASSUME \A u \in TxId : db'[u].status = db[u].status, NEW t \in TxId, OpenRow(t),
         t \notin Executed, Executed' = Executed \cup {t}
  PROVE  LifecycleStep
<1>1. Statuses' = Statuses /\ Statuses[t] \in {"PENDING", "INMEMPOOL"}
  BY DEF Statuses, OpenRow
<1>2. Lifecycle!Execute(t)
  BY <1>1 DEF Lifecycle!Execute, Lifecycle!Open, Statuses, Executed
<1> QED
  BY <1>2 DEF LifecycleStep, Lifecycle!LifecycleNext

\* All attempts offer the cap: nothing was ever bumped, so nothing was moved.
OnePrice ==
  /\ Quotes = {MaxGas} /\ moved = {} /\ op.kind # "bump"
  /\ \A t \in TxId : \A i \in DOMAIN audit[t] : audit[t][i].gas = MaxGas

NoneReverted == left["revert"] = 0 /\ \A b \in Receipts : b.ok

\* Nothing is cancelled or replaced, nothing is rejected, expires or is mined late, and what
\* reverts has attempts of one nonce only.
Straight ==
  /\ RowsKept /\ WriteAhead /\ NothingFailed
  /\ expired = {} /\ op.at # "settling"
  /\ left["reject"] = 0 /\ left["late"] = 0 /\ left["expire"] = 0
  /\ NoneReverted \/ OnePrice

\* At the price cap a transaction is signed again at the same price, and never bumped.
LEMMA PriceStays ==
  ASSUME TypeOK, HashesRecorded, User = TxId, OnePrice, [Next]_vars
  PROVE  OnePrice'
<1> USE DEF OnePrice
<1>1. MaxGas \in Nat \ {0}
  BY QueueAssumption
<1>2. ASSUME UNCHANGED <<audit, moved>>, op'.kind # "bump"
      PROVE  OnePrice'
  BY <1>2
<1>3. Rival = {} /\ Idle.kind # "bump"
  BY DEF Rival, Idle
<1>4. CASE SendPending
  <2>1. PICK e \in Entry : e = Head(pendq) /\ e \in Pending
    BY <1>4, SendPendingSends
  <2>2. e.hash = None \/ e.hash.gas = MaxGas
    <3>1. OnRecord(e) /\ e.id \in TxId
      BY <2>1 DEF HashesRecorded, HeldRecorded, Held, Entry
    <3> QED
      BY <3>1 DEF OnRecord, RecordedFor
  <2>3. LastGas(e) \in {0, MaxGas}
    BY <2>2 DEF LastGas
  <2>4. Prices(LastGas(e)) = {MaxGas}
    BY <1>1, <2>3 DEF Prices
  <2>5. PICK f \in Entry : /\ f = Signed(e, MaxGas) /\ f.id = e.id /\ f.hash.gas = MaxGas
                           /\ RecordAttempt(f, "PENDING")
                           /\ op' = [at |-> "persisted", kind |-> "pending", tx |-> f]
    <3>1. Send(e, "PENDING", "pending", LastGas(e))
      BY <1>4, <2>1 DEF SendPending
    <3>2. /\ RecordAttempt(Signed(e, MaxGas), "PENDING")
          /\ op' = [at |-> "persisted", kind |-> "pending", tx |-> Signed(e, MaxGas)]
      BY <2>4, <3>1 DEF Send
    <3>3. SignedCopy(e, Signed(e, MaxGas)) /\ Signed(e, MaxGas).hash.gas = MaxGas
      <4>1. SignedCopy(e, Signed(e, MaxGas))
        BY <1>1, SignedCopies
      <4>2. Signed(e, MaxGas).hash.gas = MaxGas
        BY DEF Signed, Entry
      <4> QED
        BY <4>1, <4>2
    <3> QED
      BY <3>2, <3>3 DEF SignedCopy
  <2>6. moved' = moved /\ op'.kind # "bump"
    BY <1>4, <2>5 DEF SendPending, Send
  <2>7. \A t \in TxId : \A i \in DOMAIN audit'[t] : audit'[t][i].gas = MaxGas
    <3> SUFFICES ASSUME NEW t \in TxId, NEW i \in DOMAIN audit'[t]
                 PROVE  audit'[t][i].gas = MaxGas
      OBVIOUS
    <3>1. CASE t # f.id
      BY <2>5, <3>1, RecordAttemptRows
    <3>2. CASE t = f.id
      <4>1. audit'[t][i] = f.hash \/ RecordedFor(t, audit'[t][i])
        BY <2>5, <3>2, RecordAttemptRows
      <4> QED
        BY <2>5, <4>1 DEF RecordedFor
    <3> QED
      BY <3>1, <3>2
  <2> QED
    BY <2>6, <2>7
<1>5. ~BumpGas
  <2> SUFFICES ASSUME BumpGas PROVE FALSE
    OBVIOUS
  <2>1. PICK a \in Entry : /\ a = Active(Head(inq)) /\ a \in InMempool
                           /\ a.hash # None /\ a.hash.gas < MaxGas
    BY FrontOfInmempool DEF BumpGas
  <2>2. OnRecord(a) /\ a.id \in TxId
    BY <2>1 DEF HashesRecorded, HeldRecorded, Held, Entry
  <2>3. a.hash.gas = MaxGas
    BY <2>1, <2>2 DEF OnRecord, RecordedFor
  <2> QED
    BY <1>1, <2>1, <2>3
<1>6. CASE \E t \in TxId : Api(t) \/ Expire(t)
  <2>1. \A t \in TxId : ~CancelInmempool(t) /\ ~ReplaceInmempool(t)
    BY <1>3 DEF CancelInmempool, ReplaceInmempool, SendRival
  <2>2. UNCHANGED <<audit, moved, op>>
    BY <1>6, <2>1 DEF Api, Admit, AdmitUnestimable, AdmitUnsaved, CancelPending, ReplacePending,
       CancelInmempool, ReplaceInmempool, EditPending, Expire, rowVars
  <2> QED
    BY <1>2, <2>2
<1>7. CASE Loops
  <2>1. CASE EstimateRejects
    BY <1>2, <2>1, EstimateRejectsEffect DEF rowVars
  <2>2. CASE ResolveReceipt
    <3>1. PICK a \in Entry, x \in Entry, s \in {"MINED", "FAILED", "EXPIRED"} :
            IF s = "MINED" /\ Head(inq).comp # None
            THEN op'.at = "settling" /\ op'.kind = Head(inq).kind /\ op'.tx = Loser(Head(inq))
            ELSE op' = Idle
      BY <2>2, ResolveReceiptEffect
    <3>2. Head(inq).kind # "bump"
      BY <2>2, ResolveReceiptEffect, FrontOfInmempool DEF Contest
    <3>3. op'.kind # "bump" /\ UNCHANGED <<audit, moved>>
      BY <1>3, <2>2, <3>1, <3>2 DEF ResolveReceipt
    <3> QED
      BY <1>2, <3>3
  <2>3. CASE ResolveReceiptUnsaved \/ \E t \in TxId : Confirm(t)
    <3>1. UNCHANGED <<audit, moved, op>>
      BY <2>3 DEF ResolveReceiptUnsaved, Confirm, rowVars
    <3> QED
      BY <1>2, <3>1
  <2> QED
    BY <1>4, <1>5, <1>7, <2>1, <2>2, <2>3 DEF Loops
<1>8. CASE Continue
  <2>1. CASE Deliver
    <3>1. op' = Idle \/ op'.kind = op.kind
      BY <2>1, DeliverEffect
    <3> QED
      BY <1>2, <1>3, <2>1, <3>1 DEF Deliver, rowVars
  <2>2. CASE MarkRivalSent
    BY <1>2, <2>2, MarkRivalSentEffect
  <2>3. CASE \/ MarkPendingSent \/ MarkBumpSent \/ LinkRival \/ CloseOut \/ AdoptLanded
             \/ ReassignPending \/ ConflictMined \/ StepFails \/ SettleLoser
    <3>1. op' = Idle /\ UNCHANGED <<audit, moved>>
      BY <2>3 DEF MarkPendingSent, MarkBumpSent, LinkRival, CloseOut, AdoptLanded,
         ReassignPending, ConflictMined, StepFails, SettleLoser, rowVars
    <3> QED
      BY <1>2, <1>3, <3>1
  <2>4. ~ReassignInmempool
    BY DEF ReassignInmempool
  <2> QED
    BY <1>8, <2>1, <2>2, <2>3, <2>4 DEF Continue
<1>9. CASE Crash \/ Startup \/ Setback
  <2>1. UNCHANGED <<audit, moved>> /\ (op' = Idle \/ op' = op)
    BY <1>9, SetbackEffect DEF Crash, Startup, RepairPoisoned, RepairAttempts, LoadQueues, rowVars
  <2> QED
    BY <1>2, <1>3, <2>1
<1>10. CASE Network \/ UNCHANGED vars
  <2>1. UNCHANGED <<audit, moved, op>>
    BY <1>10 DEF Network, vars, rowVars
  <2> QED
    BY <1>2, <2>1
<1> QED
  BY <1>6, <1>7, <1>8, <1>9, <1>10 DEF Next, Setback

LEMMA NoContests ==
  ASSUME User = TxId, TypeOK, Placed, Links
  PROVE  \A i \in DOMAIN inq : inq[i].comp = None
<1> SUFFICES ASSUME NEW i \in DOMAIN inq, inq[i].comp # None PROVE FALSE
  OBVIOUS
<1>1. PICK d : d = inq[i].comp
  OBVIOUS
<1>2. d \in Held /\ d.ext = inq[i].orig.id /\ inq[i].orig.id \in TxId
  BY <1>1, ContestSides DEF Placed, QueuesPlaced, ContestsLinked
<1>3. d.ext # None
  BY <1>2, NodeAssumption
<1>4. d.id \in Rival
  BY <1>2, <1>3 DEF Links, HeldLinked, Linked
<1> QED
  BY <1>4 DEF Rival

\* Nothing expires, and there is no loser to settle.
LEMMA QuietStays ==
  ASSUME User = TxId, TypeOK, HashesRecorded, Placed, Links, NoncesApart, FlightRow,
         expired = {}, op.at # "settling", left["expire"] = 0, [Next]_vars
  PROVE  expired' = {} /\ op'.at # "settling"
<1>1. expired' = {}
  <2>1. \A t \in TxId : ~Expire(t)
    BY DEF Expire, Spend
  <2>2. expired' = expired
    BY <2>1, SetbackEffect DEF Next, Setback, vars, Network, Crash, Startup, RepairPoisoned, RepairAttempts, LoadQueues,
       Api, Admit, AdmitUnestimable, AdmitUnsaved, CancelPending, ReplacePending, CancelInmempool,
       ReplaceInmempool, SendRival, EditPending, Send,
       Loops, SendPending, EstimateRejects, BumpGas, ResolveReceipt, ResolveReceiptUnsaved, Confirm,
       Continue, Deliver, MarkPendingSent, MarkBumpSent, MarkRivalSent, LinkRival, CloseOut,
       AdoptLanded, ReassignPending, ConflictMined, ReassignInmempool, StepFails, SettleLoser
  <2> QED
    BY <2>2
<1>2. CASE SendStep
  <2>1. PICK e \in Entry, f \in Entry, k \in Kind :
          op' = [at |-> "persisted", kind |-> k, tx |-> f]
    BY <1>2 DEF SendStep, Sends
  <2> QED
    BY <1>1, <2>1
<1>3. CASE QuietStep
  <2>1. \A i \in DOMAIN inq : inq[i].comp = None
    BY NoContests
  <2>2. inq # <<>> => 1 \in DOMAIN inq
    BY FrontOfInmempool
  <2> QED
    BY <1>1, <1>3, <2>1, <2>2 DEF QuietStep, FlightQuiet
<1> QED
  BY <1>2, <1>3, StepKinds

\* What a block changes is whether its payload took effect.
LEMMA IncludeExecutes ==
  ASSUME TypeOK, TypeOK', NEW b \in Block, chain' = Append(chain, b), NEW q \in TxId
  PROVE  q \in Executed' <=> q \in Executed \/ Took(b, q)
<1>1. /\ chain \in Seq(Block) /\ Len(chain) \in Nat
      /\ DOMAIN chain = 1..Len(chain) /\ DOMAIN chain' = 1..(Len(chain) + 1)
      /\ \A i \in DOMAIN chain : i \in DOMAIN chain' /\ chain'[i] = chain[i]
      /\ chain'[Len(chain) + 1] = b
  BY DEF TypeOK, NodeTypeOK
<1>2. q \in Executed' <=> \E i \in DOMAIN chain' : Took(chain'[i], q)
  BY ExecutedMembersAfter
<1>3. q \in Executed <=> \E i \in DOMAIN chain : Took(chain[i], q)
  BY ExecutedMembers
<1>4. ASSUME NEW i \in DOMAIN chain', Took(chain'[i], q)
      PROVE  Took(b, q) \/ \E j \in DOMAIN chain : Took(chain[j], q)
  <2>1. i = Len(chain) + 1 \/ i \in DOMAIN chain
    BY <1>1
  <2> QED
    BY <1>1, <1>4, <2>1
<1>5. ASSUME NEW i \in DOMAIN chain, Took(chain[i], q)
      PROVE  \E j \in DOMAIN chain' : Took(chain'[j], q)
  BY <1>1, <1>5
<1>6. Took(b, q) => \E j \in DOMAIN chain' : Took(chain'[j], q)
  <2>1. Len(chain) + 1 \in DOMAIN chain'
    BY <1>1
  <2> QED
    BY <1>1, <2>1
<1> QED
  BY <1>2, <1>3, <1>4, <1>5, <1>6

\* Only a pooled attempt of an open transaction is mined.
LEMMA MapNetwork ==
  ASSUME User = TxId, RowsKept, TypeOK', left["late"] = 0, Network
  PROVE  LifecycleStep
<1> USE DEF RowsKept
<1>1. \A u \in TxId : db'[u].status = db[u].status
  BY DEF Network, rowVars
<1>2. ASSUME NEW b \in Block, chain' = Append(chain, b), \A q \in TxId : ~Took(b, q)
      PROVE  LifecycleStep
  <2>1. \A q \in TxId : q \in Executed' <=> q \in Executed
    BY <1>2, IncludeExecutes
  <2>2. Executed' = Executed
    BY <2>1 DEF Executed
  <2> QED
    BY <1>1, <2>2, MapStutter
<1>3. CASE Mine
  <2>1. PICK h \in pool : Include([hash |-> h, ok |-> TRUE])
    BY <1>3 DEF Mine
  <2>2. PICK b \in Block : b.hash = h /\ b.ok /\ chain' = Append(chain, b) /\ h \in Hash /\ h # None
    <3>1. h \in Hash /\ h # None
      BY <2>1, NoneIsNoHash DEF TypeOK, NodeTypeOK
    <3>2. [hash |-> h, ok |-> TRUE] \in Block
      BY <3>1 DEF Block
    <3> QED
      BY <2>1, <3>1, <3>2 DEF Include
  <2>3. CASE h.payload \notin TxId
    BY <1>2, <2>2, <2>3 DEF Took
  <2>4. CASE h.payload \in TxId
    <3>1. PICK p \in TxId : p = h.payload
      BY <2>4
    <3>2. \A q \in TxId : Took(b, q) <=> q = p
      BY <2>2, <3>1 DEF Took
    <3>3. \A q \in TxId : q \in Executed' <=> q \in Executed \/ q = p
      BY <2>2, <3>2, IncludeExecutes
    <3>4. Executed' = Executed \cup {p}
      BY <3>3 DEF Executed
    <3>5. OpenRow(p)
      <4>1. PICK t \in TxId : OpenRow(t) /\ RecordedFor(t, h)
        BY DEF PoolOpen
      <4>2. Owns(t, p)
        BY <3>1, <4>1 DEF Owns, RecordedFor
      <4>3. p = t
        BY <4>2 DEF Attempted, PayloadsOwned
      <4> QED
        BY <4>1, <4>3
    <3>6. CASE p \in Executed
      <4>1. Executed' = Executed
        BY <3>4, <3>6
      <4> QED
        BY <1>1, <4>1, MapStutter
    <3>7. CASE p \notin Executed
      BY <1>1, <3>4, <3>5, <3>7, MapExecute
    <3> QED
      BY <3>6, <3>7
  <2> QED
    BY <2>3, <2>4
<1>4. CASE MineReverted
  <2>1. PICK h \in pool : Include([hash |-> h, ok |-> FALSE])
    BY <1>4 DEF MineReverted
  <2>2. PICK b \in Block : b = [hash |-> h, ok |-> FALSE]
    BY DEF Block, TypeOK, NodeTypeOK
  <2>3. \A q \in TxId : ~Took(b, q)
    BY <2>2 DEF Took
  <2> QED
    BY <1>2, <2>1, <2>2, <2>3 DEF Include
<1>5. CASE MineExternal
  <2>1. PICK b \in Block : b = [hash |-> None, ok |-> TRUE]
    BY DEF Block
  <2>2. \A q \in TxId : ~Took(b, q)
    BY <2>1 DEF Took
  <2> QED
    BY <1>2, <1>5, <2>1, <2>2 DEF MineExternal, Include
<1>6. CASE Evict
  BY <1>1, <1>6, SameExecuted, MapStutter DEF Evict
<1>7. ~MineStray
  BY DEF MineStray, Spend
<1> QED
  BY <1>3, <1>4, <1>5, <1>6, <1>7 DEF Network, NodeStep

\* A step that writes no status.
LEMMA MapQuiet ==
  ASSUME UNCHANGED chain, \A t \in TxId : db'[t].status = db[t].status
  PROVE  LifecycleStep
  BY SameExecuted, MapStutter

\* One row is saved, or sent.
LEMMA SavedStatus ==
  ASSUME TypeOK, NEW e \in Entry, NEW s, SaveTransaction(e, s)
  PROVE  /\ e.id \in TxId /\ db'[e.id].status = s
         /\ \A t \in TxId : t # e.id => db'[t].status = db[t].status
<1>1. e.id \in TxId /\ db'[e.id] = [status |-> s, tx |-> e]
  BY SaveTransactionRows
<1>2. \A t \in TxId : t # e.id => db'[t] = db[t]
  BY SaveTransactionRows
<1> QED
  BY <1>1, <1>2

LEMMA SentStatus ==
  ASSUME TypeOK, NEW t \in TxId, NEW h, SetSent(t, h)
  PROVE  /\ db'[t].status = "INMEMPOOL"
         /\ \A u \in TxId : u # t => db'[u].status = db[u].status
  BY SetSentRows

LEMMA MapApi ==
  ASSUME User = TxId, TypeOK, Placed, left["reject"] = 0, NEW t \in TxId, Api(t)
  PROVE  LifecycleStep
<1>1. CASE Admit(t)
  <2>1. PICK e \in Entry : e = NewEntry(t, e.nonce) /\ SaveTransaction(e, "PENDING")
    BY <1>1, AdmitEffect
  <2>2. e.id = t
    BY <2>1 DEF NewEntry
  <2>3. db[t].status = "absent" /\ UNCHANGED chain
    BY <1>1, AdmitEffect
  <2>4. db'[t].status = "PENDING" /\ \A u \in TxId : u # t => db'[u].status = db[u].status
    BY <2>1, <2>2, SavedStatus
  <2> QED
    BY <2>3, <2>4, MapAccept
<1>2. ~AdmitUnestimable(t)
  BY DEF AdmitUnestimable, Spend
<1>3. CASE AdmitUnsaved(t)
  BY <1>3, AdmitUnsavedEffect, MapQuiet DEF rowVars
<1>4. CASE CancelPending(t) \/ ReplacePending(t)
  <2>1. PICK i \in DOMAIN pendq, e \in Entry :
          pendq[i].id = t /\ SameLinks(e, pendq[i]) /\ SaveTransaction(e, "PENDING")
    BY <1>4, EditEffect
  <2>2. e.id = t /\ db[t].status = "PENDING"
    BY <2>1, HeldPositions DEF SameLinks, Placed, QueuesPlaced, StatusPlaced
  <2>3. \A u \in TxId : db'[u].status = db[u].status
    BY <2>1, <2>2, SavedStatus
  <2>4. UNCHANGED chain
    BY <1>4, EditEffect
  <2> QED
    BY <2>3, <2>4, MapQuiet
<1>5. ~CancelInmempool(t) /\ ~ReplaceInmempool(t)
  BY DEF CancelInmempool, ReplaceInmempool, SendRival, Rival
<1> QED
  BY <1>1, <1>2, <1>3, <1>4, <1>5 DEF Api

\* An attempt that reverted leaves none to take effect: they have one nonce.
LEMMA RevertedAlone ==
  ASSUME User = TxId, RowsKept, WriteAhead, moved = {}, NEW t \in TxId,
         NEW h, h # None, RecordedFor(t, h), NEW b \in Receipts, b.hash = h, ~b.ok
  PROVE  t \notin Executed
<1> USE DEF RowsKept
<1> SUFFICES ASSUME t \in Executed PROVE FALSE
  OBVIOUS
<1>1. PICK i \in DOMAIN chain : Took(chain[i], t)
  BY ExecutedMembers
<1>2. PICK j \in DOMAIN chain : b = chain[j]
  BY DEF Receipts
<1>3. PICK g : g = chain[i].hash /\ g # None /\ g.payload = t /\ chain[i].ok
  BY <1>1 DEF Took
<1>4. chain[i] \in Receipts
  BY DEF Receipts
<1>5. HasReceipt(g) /\ HasReceipt(h)
  BY <1>3, <1>4 DEF HasReceipt
<1>6. PICK u \in TxId : RecordedFor(u, g)
  BY <1>3, <1>4 DEF WriteAhead, RecordedFor
<1>7. Owns(u, t)
  BY <1>3, <1>6 DEF Owns, RecordedFor
<1>8. u = t
  BY <1>7 DEF Attempted, PayloadsOwned
<1>9. g.nonce = db[t].tx.nonce /\ h.nonce = db[t].tx.nonce
  BY <1>5, <1>6, <1>8 DEF Attempted, OneNonce, Dead, RecordedFor
<1>10. g.nonce = i - 1 /\ h.nonce = j - 1
  BY <1>2, <1>3 DEF NodePlaced
<1>11. i \in Nat /\ j \in Nat
  BY DEF TypeOK, NodeTypeOK
<1>12. i = j
  BY <1>9, <1>10, <1>11
<1> QED
  BY <1>2, <1>3, <1>12

LEMMA MapReceipt ==
  ASSUME User = TxId, Straight, ResolveReceipt
  PROVE  LifecycleStep
<1> USE DEF Straight, RowsKept
<1>1. inq # <<>> /\ UNCHANGED chain
  BY ResolveReceiptEffect
<1>2. PICK c \in Contest : c = inq[1] /\ c = Head(inq) /\ 1 \in DOMAIN inq
  BY <1>1, FrontOfInmempool
<1>3. c.comp = None
  BY <1>2, NoContests
<1>4. PICK a \in Entry : a = Active(c) /\ a \in InMempool
  BY <1>1, <1>2, FrontOfInmempool
<1>5. PICK t \in TxId : t = a.id
  BY DEF Entry
<1>6. a.failed = FALSE /\ db[t].status = "INMEMPOOL" /\ OnRecord(a) /\ db[t].tx.id = t
  BY <1>4, <1>5 DEF NothingFailed, Held, Placed, QueuesPlaced, StatusPlaced,
     HashesRecorded, HeldRecorded, RowsRecorded
<1>7. PICK b \in Receipts :
        /\ a.hash # None /\ b.hash = a.hash
        /\ SaveTransaction(Resolved(a, Outcome(c, b.ok)), Outcome(c, b.ok))
  BY <1>2, <1>4 DEF ResolveReceipt
<1>8. Outcome(c, b.ok) = IF b.ok THEN "MINED" ELSE "FAILED"
  <2>2. CASE b.ok
    BY <1>4, <1>6, <2>2 DEF Outcome
  <2>3. CASE ~b.ok
    BY <2>3 DEF Outcome
  <2> QED
    BY <2>2, <2>3
<1>9. PICK s \in {"MINED", "FAILED"} : s = Outcome(c, b.ok) /\ (s = "FAILED" => ~b.ok)
  BY <1>8
<1>10. PICK x \in Entry : x = Resolved(a, s) /\ x.id = t
  <2>1. Resolved(a, s) \in Entry /\ WinnerRow(Resolved(a, s), a, s)
    BY ResolvedIs
  <2> QED
    BY <1>5, <1>6, <2>1 DEF WinnerRow
<1>11. /\ db'[t].status = s
       /\ \A u \in TxId : u # t => db'[u].status = db[u].status
  BY <1>7, <1>9, <1>10, SavedStatus
<1>12. ASSUME s = "FAILED" PROVE t \notin Executed
  <2>1. ~b.ok
    BY <1>9, <1>12
  <2>2. moved = {}
    BY <2>1 DEF NoneReverted, OnePrice
  <2>3. PICK h : h = a.hash /\ h # None /\ RecordedFor(t, h) /\ b.hash = h
    BY <1>5, <1>6, <1>7 DEF OnRecord
  <2> QED
    BY <2>1, <2>2, <2>3, RevertedAlone
<1> QED
  BY <1>1, <1>6, <1>11, <1>12, MapSettle

LEMMA MapLoops ==
  ASSUME User = TxId, Straight, Loops
  PROVE  LifecycleStep
<1> USE DEF Straight, RowsKept
<1>1. CASE SendPending
  <2>1. PICK e \in Entry, f \in Entry : e \in Pending /\ Sends(e, "PENDING", "pending", f)
    BY <1>1, SendPendingSends
  <2>2. e.id \in TxId /\ db[e.id].status = "PENDING"
    BY <2>1 DEF Entry, Placed, QueuesPlaced, StatusPlaced
  <2>3. \A t \in TxId : db'[t].status = db[t].status
    BY <2>1, <2>2 DEF Sends
  <2> QED
    BY <2>1, <2>3, MapQuiet DEF Sends
<1>2. ~EstimateRejects
  BY DEF EstimateRejects, Spend
<1>3. CASE BumpGas
  <2>1. PICK e \in Entry, f \in Entry : e \in InMempool /\ Sends(e, "INMEMPOOL", "bump", f)
    BY <1>3, BumpGasSends, FrontOfInmempool
  <2>2. e.id \in TxId /\ db[e.id].status = "INMEMPOOL"
    BY <2>1 DEF Entry, Placed, QueuesPlaced, StatusPlaced
  <2>3. \A t \in TxId : db'[t].status = db[t].status
    BY <2>1, <2>2 DEF Sends
  <2> QED
    BY <2>1, <2>3, MapQuiet DEF Sends
<1>4. CASE ResolveReceiptUnsaved
  BY <1>4, ResolveReceiptUnsavedEffect, MapQuiet DEF rowVars
<1>5. ASSUME NEW t \in TxId, Confirm(t) PROVE LifecycleStep
  <2>1. db[t].status \in {"MINED", "INMEMPOOL"}
    BY <1>5 DEF Confirm, Placed, QueuesPlaced, StatusPlaced
  <2>2. SetStatus(t, "CONFIRMED") /\ UNCHANGED chain
    BY <1>5 DEF Confirm, nodeVars
  <2>3. db'[t].status = "CONFIRMED" /\ \A u \in TxId : u # t => db'[u].status = db[u].status
    BY <2>2, SetStatusRows
  <2> QED
    BY <2>1, <2>2, <2>3, MapConfirmed
<1> QED
  BY <1>1, <1>2, <1>3, <1>4, <1>5, MapReceipt DEF Loops

LEMMA MapContinue ==
  ASSUME Straight, Continue
  PROVE  LifecycleStep
<1> USE DEF Straight, RowsKept
<1>1. ASSUME NEW t \in TxId, NEW h, SetSent(t, h), UNCHANGED chain, OpenRow(t)
      PROVE  LifecycleStep
  <2>1. /\ db'[t].status = "INMEMPOOL"
        /\ \A u \in TxId : u # t => db'[u].status = db[u].status
    BY <1>1, SentStatus
  <2>2. CASE db[t].status = "PENDING"
    BY <1>1, <2>1, <2>2, MapSend
  <2>3. CASE db[t].status = "INMEMPOOL"
    BY <1>1, <2>1, <2>3, MapQuiet
  <2> QED
    BY <1>1, <2>2, <2>3 DEF OpenRow
<1>2. op.at # "idle"
  BY DEF Continue, Deliver, MarkPendingSent, MarkBumpSent, MarkRivalSent, LinkRival, CloseOut,
     AdoptLanded, ReassignPending, ConflictMined, ReassignInmempool, StepFails, SettleLoser, At
<1>3. op.tx.id \in TxId /\ OpenRow(op.tx.id)
  BY <1>2, FlightOpen
<1>4. CASE Deliver
  <2>1. UNCHANGED <<db, chain>>
    BY <1>4 DEF Deliver, Broadcast, rowVars, nodeVars
  <2> QED
    BY <2>1, MapQuiet
<1>5. CASE MarkPendingSent
  BY <1>1, <1>3, <1>5, MarkPendingSentEffect
<1>6. CASE MarkBumpSent
  BY <1>1, <1>3, <1>6, MarkBumpSentEffect
<1>7. CASE MarkRivalSent
  BY <1>1, <1>3, <1>7, MarkRivalSentEffect
<1>8. CASE LinkRival
  <2>1. PICK i \in DOMAIN inq, o \in Entry :
          o.id = inq[i].orig.id /\ SaveTransaction(o, "INMEMPOOL")
    BY <1>8, LinkRivalEffect
  <2>2. db[o.id].status = "INMEMPOOL"
    BY <2>1, ContestSides DEF Placed, QueuesPlaced, StatusPlaced
  <2>3. \A u \in TxId : db'[u].status = db[u].status
    BY <2>1, <2>2, SavedStatus
  <2> QED
    BY <1>8, <2>3, LinkRivalEffect, MapQuiet
<1>9. ~CloseOut
  BY DEF CloseOut, At, NothingFailed
<1>10. CASE AdoptLanded
  <2>1. PICK e \in Entry : SameLinks(e, op.tx) /\ (SetSent(e.id, e.hash) \/ UNCHANGED db)
    BY <1>10, AdoptLandedEffect
  <2>2. UNCHANGED chain
    BY <1>10, AdoptLandedEffect
  <2>3. CASE UNCHANGED db
    BY <2>2, <2>3, MapQuiet
  <2>4. CASE SetSent(e.id, e.hash)
    <3>1. e.id = op.tx.id
      BY <2>1 DEF SameLinks
    <3> QED
      BY <1>1, <1>3, <2>2, <2>4, <3>1
  <2> QED
    BY <2>1, <2>3, <2>4
<1>11. CASE ReassignPending
  <2>1. \A t \in TxId : db'[t].status = db[t].status
    BY <1>11, ReassignPendingEffect
  <2> QED
    BY <1>11, <2>1, ReassignPendingEffect, MapQuiet
<1>12. CASE ReassignInmempool
  <2>1. \A t \in TxId : db'[t].status = db[t].status
    BY <1>12, ReassignInmempoolEffect
  <2> QED
    BY <1>12, <2>1, ReassignInmempoolEffect, MapQuiet
<1>13. CASE ConflictMined \/ StepFails
  BY <1>13, StopEffect, MapQuiet DEF rowVars
<1>14. ~SettleLoser
  BY DEF SettleLoser, At
<1> QED
  BY <1>4, <1>5, <1>6, <1>7, <1>8, <1>9, <1>10, <1>11, <1>12, <1>13, <1>14 DEF Continue

\* What startup reports as failed has no attempt that the node knows, so none was mined.
LEMMA MapStartup ==
  ASSUME User = TxId, Straight, Crash \/ Startup \/ Setback
  PROVE  LifecycleStep
<1> USE DEF Straight, RowsKept
<1>1. CASE Crash \/ LoadQueues
  <2>1. UNCHANGED <<db, chain>>
    BY <1>1, CrashEffect, LoadQueuesEffect DEF rowVars
  <2> QED
    BY <2>1, MapQuiet
<1>2. CASE RepairPoisoned
  <2>1. UNCHANGED chain
    BY <1>2, RepairEffect DEF Repairing
  <2>2. \A t \in TxId : db'[t].status = db[t].status
    BY <1>2 DEF RepairPoisoned, With, NothingFailed, Undecided, OpenRow
  <2> QED
    BY <2>1, <2>2, MapQuiet
<1>3. CASE RepairAttempts
  <2>1. UNCHANGED chain /\ \A t \in TxId : db'[t] = RepairedRow(t)
    BY <1>3, RepairEffect DEF Repairing, RepairAttempts
  <2>2. ASSUME NEW t \in TxId, FirstLanded(t) = None PROVE t \notin Executed
    <3> SUFFICES ASSUME t \in Executed PROVE FALSE
      OBVIOUS
    <3>1. PICK i \in DOMAIN chain : Took(chain[i], t)
      BY ExecutedMembers
    <3>2. PICK g : g = chain[i].hash /\ g # None /\ g.payload = t
      BY <3>1 DEF Took
    <3>3. chain[i] \in Receipts
      BY DEF Receipts
    <3>4. PICK u \in TxId : RecordedFor(u, g)
      BY <3>2, <3>3 DEF WriteAhead, RecordedFor
    <3>5. Owns(u, t)
      BY <3>2, <3>4 DEF Owns, RecordedFor
    <3>6. u = t
      BY <3>5 DEF Attempted, PayloadsOwned
    <3>7. Exists(g)
      BY <3>2, <3>3 DEF Exists, HasReceipt
    <3> QED
      BY <2>2, <3>4, <3>6, <3>7, FirstLandedKnown DEF RecordedFor
  <2>3. ASSUME NEW t \in TxId
        PROVE  \/ db'[t].status = db[t].status
               \/ db[t].status = "PENDING" /\ db'[t].status = "INMEMPOOL"
               \/ db[t].status = "PENDING" /\ db'[t].status = "FAILED" /\ t \notin Executed
    <3>1. CASE t \notin With("PENDING") \/ db[t].tx.hash = None \/ db[t].tx.failed
      BY <2>1, <3>1 DEF RepairedRow
    <3>2. CASE t \in With("PENDING") /\ db[t].tx.hash # None /\ ~db[t].tx.failed
      <4>1. db[t].status = "PENDING"
        BY <3>2 DEF With
      <4>2. CASE FirstLanded(t) # None
        <5>1. db'[t] = [status |-> "INMEMPOOL", tx |-> [db[t].tx EXCEPT !.hash = FirstLanded(t)]]
          BY <2>1, <3>2, <4>2 DEF RepairedRow
        <5> QED
          BY <4>1, <5>1
      <4>3. CASE FirstLanded(t) = None /\ db[t].tx.nonce # PendingNonce
        <5>1. db'[t] = [status |-> "FAILED", tx |-> [db[t].tx EXCEPT !.failed = TRUE]]
          BY <2>1, <3>2, <4>3 DEF RepairedRow
        <5> QED
          BY <2>2, <4>1, <4>3, <5>1
      <4>4. CASE FirstLanded(t) = None /\ db[t].tx.nonce = PendingNonce
        BY <2>1, <3>2, <4>4 DEF RepairedRow
      <4> QED
        BY <4>2, <4>3, <4>4
    <3> QED
      BY <3>1, <3>2
  <2> QED
    BY <2>1, <2>3, MapRecover
<1>4. CASE Setback
  <2>1. UNCHANGED chain
    BY <1>4, SetbackEffect
  <2>2. ASSUME NEW t \in TxId
        PROVE  \/ db'[t].status = db[t].status
               \/ db[t].status = "PENDING" /\ db'[t].status = "INMEMPOOL"
    <3>1. CASE db'[t] # db[t]
      <4>1. /\ t \in With("PENDING") /\ db[t].tx.hash # None /\ ~db[t].tx.failed
            /\ FirstLanded(t) # None /\ db'[t] = RepairedRow(t)
        BY <1>4, <3>1, SetbackRow
      <4>2. db'[t] = [status |-> "INMEMPOOL", tx |-> [db[t].tx EXCEPT !.hash = FirstLanded(t)]]
        BY <4>1 DEF RepairedRow
      <4> QED
        BY <4>1, <4>2 DEF With
    <3> QED
      BY <3>1
  <2> QED
    BY <2>1, <2>2, MapRecover
<1> QED
  BY <1>1, <1>2, <1>3, <1>4 DEF Startup

LEMMA StraightStays ==
  ASSUME User = TxId, Straight, [Next]_vars
  PROVE  Straight'
<1> USE DEF Straight
<1>1. RowsKept'
  BY RowsStayKept
<1>2. TypeOK /\ InFlightRecorded /\ HashesRecorded /\ Placed /\ Links /\ NoncesApart /\ FlightRow
  BY DEF RowsKept
<1>3. WriteAhead'
  BY <1>2, WriteAheadStays
<1>4. NothingFailed'
  BY <1>2, NothingMoreFailed
<1>5. expired' = {} /\ op'.at # "settling"
  BY <1>2, QuietStays
<1>6. left'["reject"] = 0 /\ left'["late"] = 0 /\ left'["expire"] = 0
  BY <1>2, BudgetsFall DEF Fault
<1>7. NoneReverted => NoneReverted'
  BY <1>2, BudgetsFall, NoneReverts DEF NoneReverted, Fault
<1>8. OnePrice => OnePrice'
  BY <1>2, PriceStays
<1> QED
  BY <1>1, <1>3, <1>4, <1>5, <1>6, <1>7, <1>8

LEMMA InitStraight ==
  ASSUME Init,
         \A b \in Budgets : /\ b["reject"] = 0 /\ b["late"] = 0 /\ b["expire"] = 0
                            /\ b["revert"] = 0 \/ Quotes = {MaxGas}
  PROVE  Straight
<1>1. /\ op = Idle /\ inq = <<>> /\ pendq = <<>> /\ chain = <<>> /\ pool = {} /\ stray = {}
      /\ moved = {} /\ expired = {} /\ left \in Budgets
      /\ \A t \in TxId : audit[t] = <<>> /\ db[t] = NoRow(t)
  BY DEF Init, NodeInit
<1>2. RowsKept
  BY InitRowsKept
<1>3. Receipts = {}
  BY <1>1 DEF Receipts
<1>4. WriteAhead
  BY <1>1, <1>3 DEF WriteAhead
<1>5. NothingFailed
  <2>1. Held = {}
    BY <1>1 DEF Held, Pending, InMempool, InFlight, Idle
  <2>2. \A t \in TxId : db[t].tx.failed = FALSE
    <3>1. \A t \in TxId : NoRow(t).tx.failed = FALSE
      BY DEF NoRow, Emptied, NewEntry
    <3> QED
      BY <1>1, <3>1
  <2> QED
    BY <1>1, <2>1, <2>2 DEF NothingFailed, Idle
<1>6. op.at # "settling" /\ op.kind # "bump"
  BY <1>1 DEF Idle
<1>7. \A t \in TxId : DOMAIN audit[t] = {}
  BY <1>1
<1>8. NoneReverted \/ OnePrice
  BY <1>1, <1>3, <1>6, <1>7 DEF NoneReverted, OnePrice
<1> QED
  BY <1>1, <1>2, <1>4, <1>5, <1>6, <1>8 DEF Straight

LEMMA StepsMap ==
  ASSUME User = TxId, Straight, [Next]_vars
  PROVE  LifecycleStep
<1> USE DEF Straight
<1>1. TypeOK /\ Placed /\ TypeOK'
  BY NextType DEF RowsKept
<1>2. CASE Network
  BY <1>1, <1>2, MapNetwork
<1>3. CASE \E t \in TxId : Api(t)
  BY <1>1, <1>3, MapApi
<1>4. CASE (\E t \in TxId : Expire(t)) \/ UNCHANGED vars
  <2>1. UNCHANGED <<db, chain>>
    BY <1>4 DEF Expire, rowVars, vars
  <2> QED
    BY <2>1, MapQuiet
<1>5. CASE Loops
  BY <1>5, MapLoops
<1>6. CASE Continue
  BY <1>6, MapContinue
<1>7. CASE Crash \/ Startup \/ Setback
  BY <1>7, MapStartup
<1> QED
  BY <1>2, <1>3, <1>4, <1>5, <1>6, <1>7 DEF Next, Setback

\* The queue implements the lifecycle: each transaction goes through its statuses in one
\* direction only, and its payload takes effect at most once, only while it is open, and never
\* when it is reported as failed.  Crashes, lost answers, failed statements, evictions and
\* other users of the key do not change that.  It is proved of relayers whose transactions are
\* not replaced or cancelled once sent, rejected, expired or mined late: each of these breaks it.
THEOREM LifecycleImplemented ==
  ASSUME User = TxId,
         \A b \in Budgets : /\ b["reject"] = 0 /\ b["late"] = 0 /\ b["expire"] = 0
                            /\ b["revert"] = 0 \/ Quotes = {MaxGas}
  PROVE  Spec => Refines
<1>1. Init => Straight
  BY InitStraight
<1>2. Straight /\ [Next]_vars => Straight'
  BY StraightStays
<1>3. Straight /\ [Next]_vars => LifecycleStep
  BY StepsMap
<1>4. Init => Lifecycle!LifecycleInit
  <2> SUFFICES ASSUME Init PROVE Lifecycle!LifecycleInit
    OBVIOUS
  <2>1. \A t \in TxId : db[t].status = "absent"
    BY DEF Init, NoRow
  <2>2. \A t \in TxId : ~(Executions(t) > 0)
    <3> SUFFICES ASSUME NEW t \in TxId PROVE t \notin Executed
      BY DEF Executed
    <3>1. DOMAIN chain = {}
      BY DEF Init, NodeInit
    <3>2. TypeOK
      BY InitType
    <3> QED
      BY <3>1, <3>2, ExecutedMembers
  <2> QED
    BY <2>1, <2>2 DEF Lifecycle!LifecycleInit
<1>5. Straight /\ [Next]_vars => [Lifecycle!LifecycleNext]_(Lifecycle!lifecycleVars)
  BY <1>3 DEF LifecycleStep
<1> QED
  BY <1>1, <1>2, <1>4, <1>5, PTL DEF Spec, Refines, Lifecycle!LifecycleSpec
=============================================================================
