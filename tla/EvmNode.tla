------------------------------ MODULE EvmNode ------------------------------
(***************************************************************************)
(* The EVM network as the relayer meets it through `EvmProvider`: the       *)
(* account's mined transactions, the transaction pool of the node it talks  *)
(* to, and the answers the node gives.  Only one account (one relayer) is   *)
(* described.  The node is not part of this repository: its behaviour is    *)
(* modelled from how classify_send_error, get_nonce, transaction_exists and *)
(* get_receipt interpret it.                                                *)
(*                                                                          *)
(* A signed transaction is identified by its content, exactly as its hash   *)
(* identifies it: signing the same nonce, payload and gas twice gives the   *)
(* same hash.  A payload is the id of the transaction whose call it carries *)
(* or Noop, the empty self-send.                                            *)
(***************************************************************************)
EXTENDS Integers, Sequences, FiniteSets

CONSTANTS TxId,     \* ids of transactions, and the payloads they carry
          Noop,     \* the payload of transaction_to_noop
          None,     \* the absent value of an Option
          Budgets   \* how many times each fault may strike: the budgets a run allows

Fault == {"crash", "db", "rpc", "reject", "revert", "external", "evict",
          "late", "expire"}

ASSUME NodeAssumption ==
  /\ IsFiniteSet(TxId)
  /\ Noop \notin TxId
  /\ None \notin TxId \cup {Noop}
  /\ Budgets \subseteq [Fault -> Nat]

Payload == TxId \cup {Noop}
Hash == [nonce : Nat, payload : Payload, gas : Nat]

ASSUME NoneIsNoHash == None \notin Hash

VARIABLES
  chain,    \* the account's mined transactions; the one with nonce n is at n + 1
  pool,     \* the node's pool, one signed transaction per nonce
  stray,    \* signed transactions our node dropped and another may still mine
  left      \* what is left of the budget of faults

nodeVars == <<chain, pool, stray, left>>

\* A block entry without a hash was signed by another user of the same key.
Block == [hash : Hash \cup {None}, ok : BOOLEAN]

NodeTypeOK ==
  /\ chain \in Seq(Block)
  /\ pool \subseteq Hash /\ IsFiniteSet(pool)
  /\ stray \subseteq Hash
  /\ left \in [Fault -> Nat]

NodeInit ==
  /\ chain = <<>>
  /\ pool = {}
  /\ stray = {}
  /\ left \in Budgets

Spend(f) == left[f] > 0 /\ left' = [left EXCEPT ![f] = @ - 1]

Receipts == {chain[i] : i \in DOMAIN chain}

\* get_receipt finds a transaction once it is mined, whether or not it reverted.
HasReceipt(h) == \E b \in Receipts : b.hash = h

\* transaction_exists sees the node's pool and the chain, and nothing else.
Exists(h) == h \in pool \/ HasReceipt(h)

\* Payload p took effect: the number of times it was mined without reverting.
Executions(p) ==
  Cardinality({i \in DOMAIN chain :
                 chain[i].ok /\ chain[i].hash # None /\ chain[i].hash.payload = p})

\* eth_getTransactionCount with the "pending" tag: the mined transactions and the
\* unbroken run of pooled ones that follows them.
PendingNonce ==
  Len(chain) +
  Cardinality({h \in pool : \A n \in Len(chain)..h.nonce : \E g \in pool : g.nonce = n})

-----------------------------------------------------------------------------
(***************************************************************************)
(* eth_sendRawTransaction.                                                  *)
(***************************************************************************)
Reply == {"accepted", "lost", "refused", "rejected", "known", "underpriced", "conflict"}

SameNonce(h) == {g \in pool : g.nonce = h.nonce}

Acceptable(h) ==
  /\ h \notin pool
  /\ h.nonce >= Len(chain)
  /\ \A g \in SameNonce(h) : g.gas < h.gas

\* What the node's pool forgets still matters only while a late inclusion may come.
Strays(S) == IF left["late"] = 0 THEN {} ELSE stray \cup S

Pool(h) ==
  /\ pool' = (pool \ SameNonce(h)) \cup {h}
  /\ stray' = Strays(SameNonce(h)) \ {h}

\* The node answers r to signed transaction h.  "lost": it took the transaction and
\* the answer never came; "refused": a transport failure before it took it.
Broadcast(h, r) ==
  \/ /\ r = "accepted"
     /\ Acceptable(h)
     /\ Pool(h)
     /\ UNCHANGED <<chain, left>>
  \/ /\ r = "lost"
     /\ Acceptable(h)
     /\ Pool(h)
     /\ Spend("rpc")
     /\ UNCHANGED chain
  \/ /\ r = "refused"
     /\ Spend("rpc")
     /\ UNCHANGED <<chain, pool, stray>>
  \/ /\ r = "rejected"
     /\ Acceptable(h)
     /\ h.payload # Noop
     /\ Spend("reject")
     /\ UNCHANGED <<chain, pool, stray>>
  \/ /\ r = "known"
     /\ h \in pool
     /\ UNCHANGED nodeVars
  \/ /\ r = "conflict"
     /\ h.nonce < Len(chain)
     /\ UNCHANGED nodeVars
  \/ /\ r = "underpriced"
     /\ h \notin pool
     /\ h.nonce >= Len(chain)
     /\ \E g \in SameNonce(h) : g.gas >= h.gas
     /\ UNCHANGED nodeVars

-----------------------------------------------------------------------------
(***************************************************************************)
(* What the network does on its own.                                        *)
(***************************************************************************)
Include(b) ==
  /\ chain' = Append(chain, b)
  /\ pool' = {g \in pool : g.nonce # Len(chain)}
  /\ stray' = {g \in stray : g.nonce # Len(chain)}

Mine ==
  \E h \in pool :
    /\ h.nonce = Len(chain)
    /\ Include([hash |-> h, ok |-> TRUE])
    /\ UNCHANGED left

MineReverted ==
  \E h \in pool :
    /\ h.nonce = Len(chain)
    /\ h.payload # Noop
    /\ Include([hash |-> h, ok |-> FALSE])
    /\ Spend("revert")

\* A block producer still had a version our node has replaced or evicted.
MineStray ==
  \E h \in stray :
    /\ h.nonce = Len(chain)
    /\ Include([hash |-> h, ok |-> TRUE])
    /\ Spend("late")

\* Another user of the key takes the next nonce.
MineExternal ==
  /\ Include([hash |-> None, ok |-> TRUE])
  /\ Spend("external")

Evict ==
  \E h \in pool :
    /\ pool' = pool \ {h}
    /\ stray' = Strays({h})
    /\ Spend("evict")
    /\ UNCHANGED chain

NodeStep == Mine \/ MineReverted \/ MineStray \/ MineExternal \/ Evict
=============================================================================
