---------------------------- MODULE GasPricing ----------------------------
(***************************************************************************)
(* What a transaction bids (transactions_queue.rs), bump after bump, against *)
(* a market that moves, oracles that are refreshed between any two of the    *)
(* reads a bid makes (gas_oracle.rs, blob_gas_oracle.rs), a node that        *)
(* refuses replacements it finds too cheap, and answers that get lost.       *)
(* Prices are small integers; the smallest step of a price is one.           *)
(***************************************************************************)
EXTENDS Integers, FiniteSets

CONSTANTS
  Markets,           \* [base, tip, blob]: what the chain's blocks show
  Environments,      \* [mainnet; history: whether the node serves it; premium: what producers
                     \* ask for above the base fee and the tip; bump: percent the node asks of
                     \* a replacement; limit: max_gas_price; legacy: eip_1559_enabled is off]
  Multiplier,        \* max_gas_price_multiplier
  MinCompetitorBump, \* MIN_SAME_NONCE_GAS_BUMP_WEI
  MaxMoves,          \* bounds the moves of the market
  MaxLost,           \* bounds the answers lost
  MaxRivals,         \* bounds the cancellations and replacements
  NoLimit, NoPrice, Idle

Speed == {"SLOW", "MEDIUM", "FAST", "SUPER"}
NextSpeed == [SLOW |-> "MEDIUM", MEDIUM |-> "FAST", FAST |-> "SUPER"]

ASSUME GasAssumption ==
  /\ Markets \subseteq [base : Nat \ {0}, tip : Nat \ {0}, blob : Nat \ {0}]
  /\ Environments \subseteq [mainnet : BOOLEAN, history : BOOLEAN, premium : Nat,
                             bump : Nat, limit : Nat \cup {NoLimit}, legacy : BOOLEAN]
  /\ {MinCompetitorBump, MaxMoves, MaxLost, MaxRivals} \subseteq Nat
  /\ Multiplier \in Nat \ {0}
  /\ NoLimit \notin Nat
  /\ NoPrice \notin [Speed -> [max : Nat, prio : Nat]] \cup [Speed -> Nat]

VARIABLES
  env,         \* the chain, the node and the relayer's limit
  market,      \* the latest block
  oracle,      \* the gas oracle's cache: speed -> price
  blobOracle,  \* the blob gas oracle's cache: speed -> price
  tx,          \* the transaction at the front of the queue, as memory has it
  bid,         \* the pass of a loop or of the API over it
  pool,        \* the bid the node's pool holds
  peak,        \* history: the highest SUPER prices the oracles ever held
  left         \* moves, lost answers and rivals still to come

oracleVars == <<market, oracle, blobOracle, peak>>
vars == <<env, market, oracle, blobOracle, tx, bid, pool, peak, left>>

Higher(a, b) == IF a >= b THEN a ELSE b
Lower(a, b) == IF a <= b THEN a ELSE b

-----------------------------------------------------------------------------
(***************************************************************************)
(* The oracles.                                                             *)
(***************************************************************************)
Fee(max, prio) == [max |-> max, prio |-> prio]

\* estimate_with_fee_history, and the node's own suggestion where the history cannot be had.
HistoryFee(m) ==
  Fee(IF env.mainnet THEN Higher(m.base + m.tip, 2 * m.tip) ELSE m.base + 2 * m.tip, m.tip)

SuggestedFee(m) ==
  LET suggested == 2 * m.base + m.tip
  IN Fee(IF env.mainnet THEN Higher(suggested, 2 * m.tip) ELSE suggested, m.tip)

\* get_gas_prices: no price is below the base fee of the latest block and the tip.
Scaled(fee, base, maxPercent, prioPercent) ==
  Fee(Higher((fee.max * maxPercent) \div 100, base + fee.prio), (fee.prio * prioPercent) \div 100)

GasPrices(fee, base) ==
  [SLOW   |-> Scaled(fee, base, 90, 80),
   MEDIUM |-> Scaled(fee, base, 100, 100),
   FAST   |-> Scaled(fee, base, 120, 130),
   SUPER  |-> Scaled(fee, base, 150, 180)]

\* calculate_ethereum_blob_gas_price
BlobPrices(base) ==
  [SLOW   |-> (base * 8) \div 10,
   MEDIUM |-> base,
   FAST   |-> (base * 12) \div 10,
   SUPER  |-> (base * 15) \div 10]

\* The interval's tick; a failed refresh changes nothing.  The history and the latest block it
\* reads are taken to be of one moment.
RefreshGas ==
  /\ oracle' = GasPrices(IF env.history THEN HistoryFee(market) ELSE SuggestedFee(market),
                         market.base)
  /\ peak' = [peak EXCEPT !.max = Higher(@, oracle'["SUPER"].max),
                          !.prio = Higher(@, oracle'["SUPER"].prio)]
  /\ UNCHANGED <<env, market, blobOracle, tx, bid, pool, left>>

RefreshBlob ==
  /\ blobOracle' = BlobPrices(market.blob)
  /\ peak' = [peak EXCEPT !.blob = Higher(@, blobOracle'["SUPER"])]
  /\ UNCHANGED <<env, market, oracle, tx, bid, pool, left>>

-----------------------------------------------------------------------------
(***************************************************************************)
(* The arithmetic of a bid.                                                 *)
(***************************************************************************)
\* bump_u128_by_at_least_one
Bumped(p) == p + Higher(p \div 20, 1)

\* "Ensure we never send a transaction with lower or equal gas prices than previously sent"
AtLeastBumped(p, from) == IF p <= from THEN Bumped(from) ELSE p

\* Mutant: the priority fee is left as the oracle has it.
RaisedMaxOnly(price, from) == [price EXCEPT !.max = AtLeastBumped(price.max, from.max)]

Raised(price, from) == Fee(AtLeastBumped(price.max, from.max), AtLeastBumped(price.prio, from.prio))

\* A cap of zero is none.
CappedAt(p, cap) == IF cap > 0 THEN Lower(p, cap) ELSE p

\* Mutant: the priority fee is not capped.
CappedMaxOnly(price, super) ==
  LET max == CappedAt(price.max, Multiplier * super.max)
  IN Fee(max, Lower(price.prio, max))

\* Multiplier times the fastest price; the priority fee never above the max fee.
Capped(price, super) ==
  LET max == CappedAt(price.max, Multiplier * super.max)
  IN Fee(max, Lower(CappedAt(price.prio, Multiplier * super.prio), max))

Reaches(p, cap) == cap > 0 /\ p >= cap

IsAtMaxGasPriceCap(fee) ==
  /\ oracle # NoPrice
  /\ \/ Reaches(fee.max, Multiplier * oracle["SUPER"].max)
     \/ Reaches(fee.prio, Multiplier * oracle["SUPER"].prio)

IsAtMaxBlobGasPriceCap(blob) ==
  /\ blob # NoPrice
  /\ blobOracle # NoPrice
  /\ Reaches(blob, Multiplier * blobOracle["SUPER"])

WithinGasPriceBounds(fee) == env.limit = NoLimit \/ env.limit >= fee.max

\* bump_u128_for_same_nonce_competitor
CompetitorOf(p) == p + Higher(p \div 5, MinCompetitorBump)
CompetitorFee(fee) == Fee(CompetitorOf(fee.max), CompetitorOf(fee.prio))

-----------------------------------------------------------------------------
Init ==
  /\ env \in Environments
  /\ market \in Markets
  /\ oracle = NoPrice
  /\ blobOracle = NoPrice
  /\ tx \in [status : {"pending"}, speed : Speed, blobs : BOOLEAN, fee : {NoPrice},
             blob : {NoPrice}, rival : {FALSE}, last : {"queued"}]
  /\ bid = Idle
  /\ pool = NoPrice
  /\ peak = [max |-> 0, prio |-> 0, blob |-> 0]
  /\ left = [moves |-> MaxMoves, lost |-> MaxLost, rivals |-> MaxRivals]

(***************************************************************************)
(* A pass over the transaction.                                             *)
(***************************************************************************)
At(place) == bid # Idle /\ bid.at = place

Starts(t, rival) ==
  bid' = [at |-> "price", speed |-> t.speed, blobs |-> t.blobs, rival |-> rival,
          from |-> t.fee, fromBlob |-> t.blob,
          fee |-> NoPrice, blob |-> NoPrice, super |-> NoPrice, superBlob |-> NoPrice]

Ends(how) ==
  /\ bid' = Idle
  /\ tx' = IF bid # Idle /\ bid.rival THEN tx ELSE [tx EXCEPT !.last = how]

SendPending ==
  /\ bid = Idle
  /\ tx.status = "pending"
  /\ Starts(tx, FALSE)
  /\ UNCHANGED <<env, oracleVars, tx, pool, left>>

AtCap == IsAtMaxGasPriceCap(tx.fee) \/ IsAtMaxBlobGasPriceCap(tx.blob)

\* No receipt yet, and the blocks to wait have gone by.
BumpGas ==
  /\ bid = Idle
  /\ tx.status = "inmempool"
  /\ \/ AtCap /\ Ends("capped")
     \/ ~AtCap /\ Starts(tx, FALSE) /\ UNCHANGED tx
  /\ UNCHANGED <<env, oracleVars, pool, left>>

\* A cancellation never carries blobs, a replacement may; the price it is sent with starts
\* from the original's.
Compete ==
  /\ bid = Idle
  /\ tx.status = "inmempool" /\ ~tx.rival
  /\ left.rivals > 0
  /\ left' = [left EXCEPT !.rivals = @ - 1]
  /\ \E blobs \in BOOLEAN :
       /\ blobs => blobOracle # NoPrice
       /\ Starts([speed |-> "SUPER", blobs |-> blobs, fee |-> CompetitorFee(tx.fee),
                  blob |-> IF blobs THEN blobOracle["SUPER"] ELSE NoPrice], TRUE)
  /\ UNCHANGED <<env, oracleVars, tx, pool>>

\* within_gas_price_bounds, once the price is known.
Priced(b) ==
  IF WithinGasPriceBounds(b.fee)
    THEN /\ bid' = [b EXCEPT !.at = IF b.blobs THEN "blob_price" ELSE "ready"]
         /\ UNCHANGED tx
    ELSE Ends("too_high")

\* compute_gas_price_for_transaction: the first read of the oracle.
ReadPrice ==
  /\ At("price")
  /\ LET fee == oracle[bid.speed]
     IN CASE oracle = NoPrice -> Ends("no_price")
          [] oracle # NoPrice /\ bid.from = NoPrice -> Priced([bid EXCEPT !.fee = fee])
          [] oracle # NoPrice /\ bid.from # NoPrice ->
               /\ bid' = IF bid.speed = "SUPER"
                           THEN [bid EXCEPT !.at = "cap", !.fee = Raised(fee, bid.from)]
                           ELSE [bid EXCEPT !.at = "escalate", !.fee = fee]
               /\ UNCHANGED tx
  /\ UNCHANGED <<env, oracleVars, pool, left>>

\* The second: the price of the next speed.
Escalate ==
  /\ At("escalate")
  /\ bid' = [bid EXCEPT !.at = "cap", !.fee = Raised(oracle[NextSpeed[bid.speed]], bid.from)]
  /\ UNCHANGED <<env, oracleVars, tx, pool, left>>

\* The third: the price the cap is a multiple of.
Cap ==
  /\ At("cap")
  /\ Priced([bid EXCEPT !.fee = Capped(bid.fee, oracle["SUPER"]), !.super = oracle["SUPER"]])
  /\ UNCHANGED <<env, oracleVars, pool, left>>

\* compute_blob_gas_price_for_transaction, in the same three reads.  It is called twice; what
\* the first call finds is used to estimate the gas only.
ReadBlobPrice ==
  /\ At("blob_price")
  /\ IF blobOracle = NoPrice
       THEN Ends("no_price")
       ELSE /\ LET blob == blobOracle[bid.speed]
               IN bid' = CASE bid.fromBlob = NoPrice -> [bid EXCEPT !.at = "ready", !.blob = blob]
                           [] bid.fromBlob # NoPrice /\ bid.speed = "SUPER" ->
                                [bid EXCEPT !.at = "blob_cap",
                                            !.blob = AtLeastBumped(blob, bid.fromBlob)]
                           [] OTHER -> [bid EXCEPT !.at = "blob_escalate", !.blob = blob]
            /\ UNCHANGED tx
  /\ UNCHANGED <<env, oracleVars, pool, left>>

EscalateBlob ==
  /\ At("blob_escalate")
  /\ bid' = [bid EXCEPT !.at = "blob_cap",
                        !.blob = AtLeastBumped(blobOracle[NextSpeed[bid.speed]], bid.fromBlob)]
  /\ UNCHANGED <<env, oracleVars, tx, pool, left>>

CapBlob ==
  /\ At("blob_cap")
  /\ bid' = [bid EXCEPT !.at = "ready",
                        !.blob = CappedAt(bid.blob, Multiplier * blobOracle["SUPER"]),
                        !.superBlob = blobOracle["SUPER"]]
  /\ UNCHANGED <<env, oracleVars, tx, pool, left>>

-----------------------------------------------------------------------------
(***************************************************************************)
(* The node.                                                                *)
(***************************************************************************)
\* What is signed: a legacy transaction has one price, the max fee, and gives the whole of it
\* as its tip; one with blobs is never legacy.
Offer ==
  [fee |-> IF env.legacy /\ ~bid.blobs THEN Fee(bid.fee.max, bid.fee.max) ELSE bid.fee,
   blob |-> bid.blob]

Outbids(p, q) == 100 * p >= (100 + env.bump) * q /\ p > q

\* A replacement is of the same kind and better in every fee.
Replaces(new, old) ==
  old # NoPrice =>
    /\ (new.blob = NoPrice) = (old.blob = NoPrice)
    /\ Outbids(new.fee.max, old.fee.max)
    /\ Outbids(new.fee.prio, old.fee.prio)
    /\ new.blob # NoPrice => Outbids(new.blob, old.blob)

\* Mutant: the price that was sent is not kept.
Forgets == tx

\* move_pending_to_inmempool, update_inmempool_transaction_gas, add_competitor_...: the entry
\* that is polled from now on.
Sent == [tx EXCEPT !.status = "inmempool", !.speed = bid.speed, !.blobs = bid.blobs,
                   !.fee = bid.fee, !.blob = bid.blob, !.rival = tx.rival \/ bid.rival,
                   !.last = "sent"]

Refused ==
  /\ tx.status # "mined"
  /\ pool # Offer
  /\ ~Replaces(Offer, pool)
  /\ Ends("underpriced")
  /\ UNCHANGED <<pool, left>>

Accepted ==
  /\ tx.status # "mined"
  /\ Replaces(Offer, pool)
  /\ pool' = Offer
  /\ tx' = Sent
  /\ bid' = Idle
  /\ UNCHANGED left

\* The pool takes the bid and its answer is lost: memory stays as it was.
AnswerLost ==
  /\ tx.status # "mined"
  /\ Replaces(Offer, pool)
  /\ left.lost > 0
  /\ left' = [left EXCEPT !.lost = @ - 1]
  /\ pool' = Offer
  /\ Ends("lost")

\* A pending transaction whose bytes the pool knows counts as sent; a bump changes nothing.
AlreadyKnown ==
  /\ tx.status # "mined"
  /\ pool = Offer
  /\ IF tx.status = "pending" THEN tx' = Sent /\ bid' = Idle ELSE Ends("known")
  /\ UNCHANGED <<pool, left>>

TooLate ==
  /\ tx.status = "mined"
  /\ Ends("mined")
  /\ UNCHANGED <<pool, left>>

\* persist_and_broadcast: memory follows an accepted bid only, both loops work on a copy.
Broadcast ==
  /\ At("ready")
  /\ Refused \/ Accepted \/ AnswerLost \/ AlreadyKnown \/ TooLate
  /\ UNCHANGED <<env, oracleVars>>

\* What producers take.
Competitive ==
  /\ pool.fee.max >= market.base + market.tip + env.premium
  /\ pool.blob # NoPrice => pool.blob >= market.blob

Include ==
  /\ pool # NoPrice
  /\ tx.status # "mined"
  /\ Competitive
  /\ tx' = [tx EXCEPT !.status = "mined"]
  /\ UNCHANGED <<env, oracleVars, bid, pool, left>>

Move ==
  /\ left.moves > 0
  /\ left' = [left EXCEPT !.moves = @ - 1]
  /\ market' \in Markets \ {market}
  /\ UNCHANGED <<env, oracle, blobOracle, tx, bid, pool, peak>>

Pass ==
  \/ SendPending \/ BumpGas
  \/ ReadPrice \/ Escalate \/ Cap
  \/ ReadBlobPrice \/ EscalateBlob \/ CapBlob
  \/ Broadcast

Next == RefreshGas \/ RefreshBlob \/ Pass \/ Compete \/ Include \/ Move

Spec == Init /\ [][Next]_vars

\* The oracles' intervals tick, the loops come round, and what is competitive gets mined.
Fairness == WF_vars(RefreshGas) /\ WF_vars(RefreshBlob) /\ WF_vars(Pass) /\ WF_vars(Include)

FairSpec == Spec /\ Fairness

-----------------------------------------------------------------------------
(***************************************************************************)
(* Properties.                                                              *)
(***************************************************************************)
TypeOK ==
  /\ market \in Markets
  /\ tx.status \in {"pending", "inmempool", "mined"}
  /\ tx.speed \in Speed
  /\ left \in [moves : 0..MaxMoves, lost : 0..MaxLost, rivals : 0..MaxRivals]

\* A bid made after an earlier one is above it in every fee, whatever the oracles did between
\* its reads, but for a fee that is at its cap, and a priority fee held down by the max fee
\* (compute_gas_price_for_transaction, compute_blob_gas_price_for_transaction).
BidsRise ==
  At("ready") /\ bid.from # NoPrice =>
    /\ bid.fee.max > bid.from.max \/ bid.fee.max = Multiplier * bid.super.max
    /\ \/ bid.fee.prio > bid.from.prio
       \/ bid.fee.prio \in {Multiplier * bid.super.prio, bid.fee.max}
    /\ bid.fromBlob # NoPrice =>
         bid.blob > bid.fromBlob \/ bid.blob = Multiplier * bid.superBlob

\* The node is never offered more than Multiplier times the fastest price the oracles have
\* had, nor more than the relayer's limit, through bumps and rivals (config.mdx:92-95).
NeverOverCap ==
  pool # NoPrice =>
    /\ pool.fee.max <= Multiplier * peak.max
    /\ env.legacy \/ pool.fee.prio <= Multiplier * peak.prio
    /\ pool.blob = NoPrice \/ pool.blob <= Multiplier * peak.blob
    /\ env.limit = NoLimit \/ pool.fee.max <= env.limit

\* The last pass left the price where it is for a reason the bidding cannot remove: a cap, the
\* relayer's limit, a node that asks more of a replacement than a bump offers, or a bump that
\* was taken without an answer: the next one starts from the same price and is that one again.
Held ==
  \/ tx.last \in {"capped", "too_high", "underpriced"}
  \/ tx.last = "known" /\ left.lost < MaxLost

\* Once the market is quiet a transaction is mined, unless passes over it keep being held.
KeepsUp == []<>(tx.status = "mined" \/ Held)
=============================================================================
