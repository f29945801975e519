------------------------- MODULE GasPricingProofs -------------------------
(***************************************************************************)
(* Theorems about GasPricing, for every market, every environment, every     *)
(* multiplier and any number of moves, lost answers and rivals.              *)
(*                                                                          *)
(* A bid reads the oracles three times, and they may be refreshed between    *)
(* any two reads.  The invariant follows a bid from read to read: what it    *)
(* knows at each is enough for the next, whatever the others showed.         *)
(***************************************************************************)
EXTENDS GasPricing, TLAPS

FeeType == [max : Nat, prio : Nat]
Peak == [max : Nat, prio : Nat, blob : Nat]

Note == {"queued", "sent", "capped", "too_high", "no_price", "underpriced", "lost", "known",
         "mined"}

TxType == [status : {"pending", "inmempool", "mined"}, speed : Speed, blobs : BOOLEAN,
           fee : FeeType \cup {NoPrice}, blob : Nat \cup {NoPrice}, rival : BOOLEAN,
           last : Note]

Place == {"price", "escalate", "cap", "blob_price", "blob_escalate", "blob_cap", "ready"}

BidType == [at : Place, speed : Speed, blobs : BOOLEAN, rival : BOOLEAN,
            from : FeeType \cup {NoPrice}, fromBlob : Nat \cup {NoPrice},
            fee : FeeType \cup {NoPrice}, blob : Nat \cup {NoPrice},
            super : FeeType \cup {NoPrice}, superBlob : Nat \cup {NoPrice}]

-----------------------------------------------------------------------------
(***************************************************************************)
(* Arithmetic.                                                              *)
(***************************************************************************)
LEMMA Multiples ==
  ASSUME NEW x \in Nat, NEW y \in Nat, x <= y
  PROVE  /\ Multiplier * x \in Nat /\ Multiplier * x <= Multiplier * y
         /\ x <= Multiplier * x
         /\ x > 0 => Multiplier * x > 0
BY GasAssumption

\* bump_u128_by_at_least_one goes up, however small the price is.
LEMMA BumpRises ==
  ASSUME NEW p \in Nat, NEW from \in Nat
  PROVE  AtLeastBumped(p, from) \in Nat /\ AtLeastBumped(p, from) > from
BY DEF AtLeastBumped, Bumped, Higher

\* The caps of the two fees, and the priority fee below the max fee.
LEMMA CapHolds ==
  ASSUME NEW price \in FeeType, NEW super \in FeeType, super.max > 0, super.prio > 0
  PROVE  /\ Capped(price, super) \in FeeType
         /\ Capped(price, super).max <= Multiplier * super.max
         /\ Capped(price, super).prio <= Multiplier * super.prio
         /\ \/ Capped(price, super).max = price.max
            \/ Capped(price, super).max = Multiplier * super.max
         /\ \/ Capped(price, super).prio = price.prio
            \/ Capped(price, super).prio \in {Multiplier * super.prio, Capped(price, super).max}
<1> DEFINE top == Multiplier * super.max
           tip == Multiplier * super.prio
<1>1. top \in Nat /\ top > 0 /\ tip \in Nat /\ tip > 0
  BY Multiples DEF FeeType
<1>2. price.max \in Nat /\ price.prio \in Nat
  BY DEF FeeType
<1> HIDE DEF top, tip
<1>3. Capped(price, super)
        = [max |-> Lower(price.max, top), prio |-> Lower(Lower(price.prio, tip), Lower(price.max, top))]
  BY <1>1 DEF Capped, CappedAt, Fee, top, tip
<1> QED  BY <1>1, <1>2, <1>3 DEF Lower, FeeType, top, tip

\* No speed is dearer than the fastest, and that one is not free.
LEMMA ScaledPrices ==
  ASSUME NEW fee \in FeeType, fee.prio > 0, NEW base \in Nat
  PROVE  LET prices == GasPrices(fee, base)
         IN /\ \A s \in Speed : /\ prices[s] \in FeeType
                                /\ prices[s].max <= prices["SUPER"].max
                                /\ prices[s].prio <= prices["SUPER"].prio
            /\ prices["SUPER"].max > 0 /\ prices["SUPER"].prio > 0
            /\ prices \in [Speed -> FeeType]
<1>1. fee.max \in Nat /\ fee.prio \in Nat
  BY DEF FeeType
<1> QED
  BY <1>1 DEF GasPrices, Scaled, Fee, Higher, FeeType, Speed

LEMMA ScaledBlobPrices ==
  ASSUME NEW base \in Nat, base > 0
  PROVE  /\ \A s \in Speed : BlobPrices(base)[s] <= BlobPrices(base)["SUPER"]
         /\ BlobPrices(base)["SUPER"] > 0
         /\ BlobPrices(base) \in [Speed -> Nat]
BY DEF BlobPrices, Speed

-----------------------------------------------------------------------------
(***************************************************************************)
(* The invariant.                                                           *)
(***************************************************************************)
BelowPeak(fee) == fee.max <= Multiplier * peak.max /\ fee.prio <= Multiplier * peak.prio

OracleInv ==
  /\ oracle # NoPrice =>
       /\ oracle \in [Speed -> FeeType]
       /\ \A s \in Speed : oracle[s].max <= peak.max /\ oracle[s].prio <= peak.prio
       /\ oracle["SUPER"].max > 0 /\ oracle["SUPER"].prio > 0
  /\ blobOracle # NoPrice =>
       /\ blobOracle \in [Speed -> Nat]
       /\ \A s \in Speed : blobOracle[s] <= peak.blob
       /\ blobOracle["SUPER"] > 0

\* What a pass knows after each of its reads.
Fresh == bid.blob = NoPrice

Priceable ==
  /\ oracle # NoPrice
  /\ bid.from \in FeeType
  /\ bid.fee \in FeeType

Raises ==
  /\ bid.fee.max > bid.from.max
  /\ bid.fee.prio > bid.from.prio

FeeSettled ==
  /\ bid.fee \in FeeType
  /\ BelowPeak(bid.fee)
  /\ WithinGasPriceBounds(bid.fee)
  /\ bid.from # NoPrice =>
       /\ bid.fee.max > bid.from.max \/ bid.fee.max = Multiplier * bid.super.max
       /\ \/ bid.fee.prio > bid.from.prio
          \/ bid.fee.prio \in {Multiplier * bid.super.prio, bid.fee.max}

BlobPriceable ==
  /\ blobOracle # NoPrice
  /\ bid.fromBlob \in Nat
  /\ bid.blob \in Nat

BlobSettled ==
  /\ bid.blob # NoPrice => bid.blobs /\ bid.blob \in Nat /\ bid.blob <= Multiplier * peak.blob
  /\ bid.fromBlob # NoPrice =>
       /\ bid.blobs /\ bid.blob \in Nat
       /\ bid.blob > bid.fromBlob \/ bid.blob = Multiplier * bid.superBlob

BidInv ==
  /\ bid.fromBlob # NoPrice => bid.blobs
  /\ At("price") => Fresh
  /\ At("escalate") => Fresh /\ Priceable /\ bid.speed # "SUPER"
  /\ At("cap") => Fresh /\ Priceable /\ Raises
  /\ At("blob_price") => Fresh /\ FeeSettled /\ bid.blobs
  /\ At("blob_escalate") => FeeSettled /\ BlobPriceable /\ bid.blobs /\ bid.speed # "SUPER"
  /\ At("blob_cap") => FeeSettled /\ BlobPriceable /\ bid.blobs /\ bid.blob > bid.fromBlob
  /\ At("ready") => FeeSettled /\ BlobSettled

TxInv ==
  /\ tx \in TxType
  /\ tx.status = "inmempool" => tx.fee \in FeeType
  /\ tx.blob # NoPrice => tx.blobs

PoolInv ==
  pool # NoPrice =>
    /\ pool.fee \in FeeType
    /\ pool.fee.max <= Multiplier * peak.max
    /\ env.legacy \/ pool.fee.prio <= Multiplier * peak.prio
    /\ pool.blob = NoPrice \/ (pool.blob \in Nat /\ pool.blob <= Multiplier * peak.blob)
    /\ env.limit = NoLimit \/ pool.fee.max <= env.limit

Inv ==
  /\ env \in Environments /\ market \in Markets /\ peak \in Peak
  /\ bid = Idle \/ bid \in BidType
  /\ OracleInv /\ TxInv /\ PoolInv
  /\ bid # Idle => BidInv

LEMMA InitInv == Init => Inv
<1> SUFFICES ASSUME Init PROVE Inv
  OBVIOUS
<1>1. tx \in TxType /\ tx.status = "pending" /\ tx.blob = NoPrice
  BY DEF Init, TxType, Note
<1> QED  BY <1>1 DEF Init, Inv, Peak, OracleInv, TxInv, PoolInv

\* An environment and a market are what they say.
LEMMA Conditions ==
  ASSUME Inv
  PROVE  /\ market.base \in Nat /\ market.tip \in Nat /\ market.blob \in Nat
         /\ market.base > 0 /\ market.tip > 0 /\ market.blob > 0
         /\ env.limit \in Nat \/ env.limit = NoLimit
         /\ env.legacy \in BOOLEAN
BY GasAssumption DEF Inv

\* A higher peak allows all that a lower one did.
LEMMA PeakRises ==
  ASSUME Inv, peak' \in Peak,
         peak.max <= peak'.max, peak.prio <= peak'.prio, peak.blob <= peak'.blob,
         UNCHANGED <<env, tx, bid, pool, left, market>>,
         oracle # NoPrice => oracle' # NoPrice,
         blobOracle # NoPrice => blobOracle' # NoPrice,
         OracleInv'
  PROVE  Inv'
<1>1. /\ Multiplier * peak.max \in Nat /\ Multiplier * peak.max <= Multiplier * peak'.max
      /\ Multiplier * peak.prio \in Nat /\ Multiplier * peak.prio <= Multiplier * peak'.prio
      /\ Multiplier * peak.blob \in Nat /\ Multiplier * peak.blob <= Multiplier * peak'.blob
      /\ Multiplier * peak'.max \in Nat /\ Multiplier * peak'.prio \in Nat
      /\ Multiplier * peak'.blob \in Nat
  BY Multiples DEF Inv, Peak
<1>2. \A fee \in FeeType : BelowPeak(fee) => BelowPeak(fee)'
  BY <1>1 DEF BelowPeak, FeeType
<1>3. PoolInv'
  BY <1>1 DEF Inv, PoolInv, FeeType
<1>4. TxInv'
  BY DEF Inv, TxInv
<1>5. FeeSettled => FeeSettled'
  BY <1>1 DEF FeeSettled, BelowPeak, FeeType, WithinGasPriceBounds
<1>6. BlobSettled => BlobSettled'
  BY <1>1 DEF BlobSettled
<1>7. bid # Idle => BidInv'
  <2> SUFFICES ASSUME bid # Idle PROVE BidInv'
    OBVIOUS
  <2>1. BidInv /\ \A p \in Place : At(p)' <=> At(p)
    BY DEF Inv, At
  <2> QED
    BY <1>5, <1>6, <2>1 DEF BidInv, Place, Fresh, Priceable, Raises, BlobPriceable, At
<1> QED  BY <1>3, <1>4, <1>7 DEF Inv

LEMMA RefreshGasStep == ASSUME Inv, RefreshGas PROVE Inv'
<1> DEFINE fee == IF env.history THEN HistoryFee(market) ELSE SuggestedFee(market)
<1>1. fee \in FeeType /\ fee.prio > 0
  BY Conditions DEF HistoryFee, SuggestedFee, Fee, FeeType, Higher
<1>2. oracle' = GasPrices(fee, market.base)
  BY DEF RefreshGas
<1> HIDE DEF fee
<1>3. /\ oracle' \in [Speed -> FeeType]
      /\ \A s \in Speed : /\ oracle'[s].max <= oracle'["SUPER"].max
                          /\ oracle'[s].prio <= oracle'["SUPER"].prio
      /\ oracle'["SUPER"].max > 0 /\ oracle'["SUPER"].prio > 0
  BY <1>1, <1>2, Conditions, ScaledPrices
<1>4. /\ peak' \in Peak /\ peak'.blob = peak.blob
      /\ peak.max <= peak'.max /\ oracle'["SUPER"].max <= peak'.max
      /\ peak.prio <= peak'.prio /\ oracle'["SUPER"].prio <= peak'.prio
  <2>1. oracle'["SUPER"].max \in Nat /\ oracle'["SUPER"].prio \in Nat
    BY <1>3 DEF Speed, FeeType
  <2>2. peak' = [max |-> Higher(peak.max, oracle'["SUPER"].max),
                 prio |-> Higher(peak.prio, oracle'["SUPER"].prio), blob |-> peak.blob]
    BY DEF Inv, Peak, RefreshGas
  <2> QED  BY <2>1, <2>2 DEF Inv, Peak, Higher
<1>5. OracleInv'
  <2>1. \A s \in Speed : oracle'[s].max <= peak'.max /\ oracle'[s].prio <= peak'.prio
    BY <1>3, <1>4 DEF Speed, FeeType, Peak
  <2>2. UNCHANGED blobOracle /\ peak'.blob = peak.blob
    BY <1>4 DEF RefreshGas
  <2> QED  BY <1>3, <2>1, <2>2 DEF Inv, OracleInv
<1>6. oracle' # NoPrice
  BY <1>3, GasAssumption DEF FeeType
<1> QED
  BY <1>4, <1>5, <1>6, PeakRises DEF RefreshGas, Inv, Peak

LEMMA RefreshBlobStep == ASSUME Inv, RefreshBlob PROVE Inv'
<1>1. blobOracle' = BlobPrices(market.blob)
  BY DEF RefreshBlob
<1>2. /\ blobOracle' \in [Speed -> Nat]
      /\ \A s \in Speed : blobOracle'[s] <= blobOracle'["SUPER"]
      /\ blobOracle'["SUPER"] > 0
  BY <1>1, Conditions, ScaledBlobPrices
<1>3. /\ peak' \in Peak /\ peak'.max = peak.max /\ peak'.prio = peak.prio
      /\ peak.blob <= peak'.blob /\ blobOracle'["SUPER"] <= peak'.blob
  <2>1. blobOracle'["SUPER"] \in Nat
    BY <1>2 DEF Speed
  <2>2. peak' = [max |-> peak.max, prio |-> peak.prio,
                 blob |-> Higher(peak.blob, blobOracle'["SUPER"])]
    BY DEF Inv, Peak, RefreshBlob
  <2> QED  BY <2>1, <2>2 DEF Inv, Peak, Higher
<1>4. OracleInv'
  <2>1. \A s \in Speed : blobOracle'[s] <= peak'.blob
    BY <1>2, <1>3 DEF Speed, Peak
  <2>2. UNCHANGED oracle
    BY DEF RefreshBlob
  <2> QED  BY <1>2, <1>3, <2>1, <2>2 DEF Inv, OracleInv
<1>5. blobOracle' # NoPrice
  BY <1>2, GasAssumption
<1> QED
  BY <1>3, <1>4, <1>5, PeakRises DEF RefreshBlob, Inv, Peak

-----------------------------------------------------------------------------
(***************************************************************************)
(* A pass.                                                                  *)
(***************************************************************************)
\* The end of a pass leaves a note in the transaction, no more.
LEMMA EndStep ==
  ASSUME Inv, NEW how \in Note, Ends(how), UNCHANGED <<env, oracleVars, pool>>
  PROVE  Inv'
<1>1. TxInv'
  BY DEF Inv, TxInv, TxType, Ends
<1>2. OracleInv' /\ PoolInv' /\ bid' = Idle
  BY DEF Inv, OracleInv, PoolInv, Ends, oracleVars
<1> QED  BY <1>1, <1>2 DEF Inv, oracleVars

\* A pass that goes on changes nothing but the bid.
LEMMA BidStep ==
  ASSUME Inv, UNCHANGED <<env, oracleVars, tx, pool>>, bid' \in BidType, BidInv'
  PROVE  Inv'
<1>1. OracleInv' /\ PoolInv' /\ TxInv'
  BY DEF Inv, OracleInv, PoolInv, TxInv, oracleVars
<1> QED  BY <1>1 DEF Inv, oracleVars

\* The first price of a pass is that of the row, or of the original for a rival.
LEMMA StartsStep ==
  ASSUME Inv, NEW t, NEW rival \in BOOLEAN, Starts(t, rival),
         t.speed \in Speed, t.blobs \in BOOLEAN,
         t.fee \in FeeType \cup {NoPrice}, t.blob \in Nat \cup {NoPrice},
         t.blob # NoPrice => t.blobs,
         UNCHANGED <<env, oracleVars, tx, pool>>
  PROVE  Inv'
<1>1. bid' \in BidType
  BY DEF Starts, BidType, Place
<1>2. BidInv'
  BY DEF Starts, BidInv, At, Fresh
<1> QED  BY <1>1, <1>2, BidStep

LEMMA SendPendingStep == ASSUME Inv, SendPending PROVE Inv'
BY StartsStep DEF SendPending, Inv, TxInv, TxType

LEMMA BumpGasStep == ASSUME Inv, BumpGas PROVE Inv'
<1>1. CASE AtCap /\ Ends("capped")
  BY <1>1, EndStep DEF BumpGas, Note
<1>2. CASE Starts(tx, FALSE) /\ UNCHANGED tx
  BY <1>2, StartsStep DEF BumpGas, Inv, TxInv, TxType
<1> QED  BY <1>1, <1>2 DEF BumpGas

LEMMA CompeteStep == ASSUME Inv, Compete PROVE Inv'
<1>1. CompetitorFee(tx.fee) \in FeeType
  BY GasAssumption DEF Compete, Inv, TxInv, CompetitorFee, CompetitorOf, Higher, Fee, FeeType
<1>2. PICK blobs \in BOOLEAN :
        /\ blobs => blobOracle # NoPrice
        /\ Starts([speed |-> "SUPER", blobs |-> blobs, fee |-> CompetitorFee(tx.fee),
                   blob |-> IF blobs THEN blobOracle["SUPER"] ELSE NoPrice], TRUE)
  BY DEF Compete
<1>3. blobs => blobOracle["SUPER"] \in Nat
  BY <1>2 DEF Inv, OracleInv, Speed
<1>4. UNCHANGED <<env, oracleVars, tx, pool>>
  BY DEF Compete
<1> DEFINE t == [speed |-> "SUPER", blobs |-> blobs, fee |-> CompetitorFee(tx.fee),
                 blob |-> IF blobs THEN blobOracle["SUPER"] ELSE NoPrice]
<1>5. /\ t.speed \in Speed /\ t.blobs \in BOOLEAN
      /\ t.fee \in FeeType \cup {NoPrice} /\ t.blob \in Nat \cup {NoPrice}
      /\ t.blob # NoPrice => t.blobs
      /\ Starts(t, TRUE)
  BY <1>1, <1>2, <1>3 DEF Speed
<1> HIDE DEF t
<1> QED  BY <1>4, <1>5, StartsStep

\* What follows once the max fee and the priority fee are known.
LEMMA PricedStep ==
  ASSUME Inv, bid # Idle, NEW b \in BidType, Priced(b),
         b.blobs = bid.blobs, b.from = bid.from, b.fromBlob = bid.fromBlob,
         b.blob = NoPrice, b.fee \in FeeType, BelowPeak(b.fee),
         b.from # NoPrice =>
           /\ b.fee.max > b.from.max \/ b.fee.max = Multiplier * b.super.max
           /\ \/ b.fee.prio > b.from.prio
              \/ b.fee.prio \in {Multiplier * b.super.prio, b.fee.max},
         UNCHANGED <<env, oracleVars, pool>>
  PROVE  Inv'
<1>1. CASE WithinGasPriceBounds(b.fee)
  <2> DEFINE next == [b EXCEPT !.at = IF b.blobs THEN "blob_price" ELSE "ready"]
  <2>1. bid' = next /\ tx' = tx
    BY <1>1 DEF Priced
  <2>2. /\ next \in BidType /\ next.at = IF b.blobs THEN "blob_price" ELSE "ready"
        /\ next.from = b.from /\ next.fromBlob = b.fromBlob /\ next.fee = b.fee
        /\ next.blob = NoPrice /\ next.super = b.super /\ next.blobs = b.blobs
    BY DEF BidType, Place
  <2> HIDE DEF next
  <2>3. FeeSettled'
    BY <1>1, <2>1, <2>2 DEF FeeSettled, BelowPeak, WithinGasPriceBounds, oracleVars
  <2>4. bid.fromBlob # NoPrice => b.blobs
    BY DEF Inv, BidInv
  <2>5. BidInv'
    BY <2>1, <2>2, <2>3, <2>4 DEF BidInv, At, Fresh, BlobSettled, BidType
  <2> QED  BY <2>1, <2>2, <2>5, BidStep
<1>2. CASE ~WithinGasPriceBounds(b.fee)
  BY <1>2, EndStep DEF Priced, Note
<1> QED  BY <1>1, <1>2

\* No price of an oracle is above what Multiplier times its peak allows.
LEMMA OraclePrices ==
  ASSUME Inv, oracle # NoPrice, NEW s \in Speed
  PROVE  /\ oracle[s] \in FeeType /\ BelowPeak(oracle[s])
         /\ Multiplier * oracle[s].max <= Multiplier * peak.max
         /\ Multiplier * oracle[s].prio <= Multiplier * peak.prio
         /\ Multiplier * oracle[s].max \in Nat /\ Multiplier * oracle[s].prio \in Nat
<1>1. /\ oracle[s] \in FeeType
      /\ oracle[s].max \in Nat /\ oracle[s].max <= peak.max /\ peak.max \in Nat
      /\ oracle[s].prio \in Nat /\ oracle[s].prio <= peak.prio /\ peak.prio \in Nat
  BY DEF Inv, OracleInv, FeeType, Peak
<1>2. /\ peak.max <= Multiplier * peak.max /\ Multiplier * peak.max \in Nat
      /\ peak.prio <= Multiplier * peak.prio /\ Multiplier * peak.prio \in Nat
  BY <1>1, Multiples
<1>3. /\ Multiplier * oracle[s].max <= Multiplier * peak.max
      /\ Multiplier * oracle[s].prio <= Multiplier * peak.prio
      /\ Multiplier * oracle[s].max \in Nat /\ Multiplier * oracle[s].prio \in Nat
  BY <1>1, Multiples
<1> QED  BY <1>1, <1>2, <1>3 DEF BelowPeak

LEMMA RaisedRises ==
  ASSUME NEW price \in FeeType, NEW from \in FeeType
  PROVE  /\ Raised(price, from) \in FeeType
         /\ Raised(price, from).max > from.max /\ Raised(price, from).prio > from.prio
BY BumpRises DEF Raised, Fee, FeeType

LEMMA ReadPriceStep == ASSUME Inv, ReadPrice PROVE Inv'
<1>1. /\ bid # Idle /\ bid.at = "price" /\ bid \in BidType /\ Fresh
      /\ bid.speed \in Speed
  BY DEF ReadPrice, At, Inv, BidInv, BidType
<1>2. UNCHANGED <<env, oracleVars, pool>>
  BY DEF ReadPrice
<1>3. CASE oracle = NoPrice
  BY <1>2, <1>3, EndStep DEF ReadPrice, Note
<1>4. CASE oracle # NoPrice /\ bid.from = NoPrice
  <2> DEFINE b == [bid EXCEPT !.fee = oracle[bid.speed]]
  <2>1. Priced(b)
    BY <1>4 DEF ReadPrice
  <2>2. /\ b \in BidType /\ b.blobs = bid.blobs /\ b.from = bid.from
        /\ b.fromBlob = bid.fromBlob /\ b.blob = bid.blob /\ b.fee = oracle[bid.speed]
    BY <1>1, <1>4, OraclePrices DEF BidType
  <2> HIDE DEF b
  <2> QED  BY <1>1, <1>2, <1>4, <2>1, <2>2, OraclePrices, PricedStep DEF Fresh
<1>5. CASE oracle # NoPrice /\ bid.from # NoPrice
  <2>1. bid.from \in FeeType /\ oracle[bid.speed] \in FeeType
    BY <1>1, <1>5, OraclePrices DEF BidType
  <2>2. CASE bid.speed = "SUPER"
    <3>1. bid' = [bid EXCEPT !.at = "cap", !.fee = Raised(oracle[bid.speed], bid.from)]
      BY <1>5, <2>2 DEF ReadPrice
    <3>2. /\ bid' \in BidType /\ bid'.at = "cap" /\ bid'.from = bid.from
          /\ bid'.fee = Raised(oracle[bid.speed], bid.from) /\ bid'.blob = bid.blob
          /\ bid'.fromBlob = bid.fromBlob /\ bid'.blobs = bid.blobs
      BY <1>1, <2>1, <3>1, RaisedRises DEF BidType, Place
    <3>3. tx' = tx /\ oracle' = oracle
      BY <1>2, <1>5, <2>2 DEF ReadPrice, oracleVars
    <3>4. BidInv'
      BY <1>1, <1>5, <2>1, <3>2, <3>3, RaisedRises
         DEF Inv, BidInv, At, Fresh, Priceable, Raises
    <3> QED  BY <1>2, <3>2, <3>3, <3>4, BidStep
  <2>3. CASE bid.speed # "SUPER"
    <3>1. bid' = [bid EXCEPT !.at = "escalate", !.fee = oracle[bid.speed]]
      BY <1>5, <2>3 DEF ReadPrice
    <3>2. /\ bid' \in BidType /\ bid'.at = "escalate" /\ bid'.from = bid.from
          /\ bid'.fee = oracle[bid.speed] /\ bid'.blob = bid.blob /\ bid'.speed = bid.speed
          /\ bid'.fromBlob = bid.fromBlob /\ bid'.blobs = bid.blobs
      BY <1>1, <2>1, <3>1 DEF BidType, Place
    <3>3. tx' = tx /\ oracle' = oracle
      BY <1>2, <1>5, <2>3 DEF ReadPrice, oracleVars
    <3>4. BidInv'
      BY <1>1, <1>5, <2>1, <2>3, <3>2, <3>3 DEF Inv, BidInv, At, Fresh, Priceable
    <3> QED  BY <1>2, <3>2, <3>3, <3>4, BidStep
  <2> QED  BY <2>2, <2>3
<1> QED  BY <1>3, <1>4, <1>5

\* The next speed exists for every speed but the last.
LEMMA NextSpeeds ==
  ASSUME NEW s \in Speed, s # "SUPER"
  PROVE  NextSpeed[s] \in Speed
BY DEF Speed, NextSpeed

LEMMA EscalateStep == ASSUME Inv, Escalate PROVE Inv'
<1> DEFINE price == oracle[NextSpeed[bid.speed]]
<1>1. /\ bid # Idle /\ bid.at = "escalate" /\ bid \in BidType /\ Fresh /\ Priceable
      /\ bid.speed \in Speed /\ bid.speed # "SUPER"
  BY DEF Escalate, At, Inv, BidInv, BidType
<1>2. UNCHANGED <<env, oracleVars, tx, pool>> /\ oracle' = oracle
  BY DEF Escalate, oracleVars
<1>3. price \in FeeType /\ bid.from \in FeeType
  BY <1>1, NextSpeeds, OraclePrices DEF Priceable
<1>4. bid' = [bid EXCEPT !.at = "cap", !.fee = Raised(price, bid.from)]
  BY DEF Escalate
<1> HIDE DEF price
<1>5. /\ bid' \in BidType /\ bid'.at = "cap" /\ bid'.from = bid.from
      /\ bid'.fee = Raised(price, bid.from) /\ bid'.blob = bid.blob
      /\ bid'.fromBlob = bid.fromBlob /\ bid'.blobs = bid.blobs
  BY <1>1, <1>3, <1>4, RaisedRises DEF BidType, Place
<1>6. BidInv'
  BY <1>1, <1>2, <1>3, <1>5, RaisedRises DEF Inv, BidInv, At, Fresh, Priceable, Raises
<1> QED  BY <1>2, <1>5, <1>6, BidStep

\* Whatever the cap was read from, the bid is at it or above the price it started from.
LEMMA CapStep == ASSUME Inv, Cap PROVE Inv'
<1> DEFINE super == oracle["SUPER"]
           fee == Capped(bid.fee, super)
           b == [bid EXCEPT !.fee = fee, !.super = super]
<1>1. /\ bid # Idle /\ bid.at = "cap" /\ bid \in BidType /\ Fresh /\ Priceable /\ Raises
  BY DEF Cap, At, Inv, BidInv
<1>2. UNCHANGED <<env, oracleVars, pool>> /\ Priced(b)
  BY DEF Cap
<1>3. /\ super \in FeeType /\ super.max > 0 /\ super.prio > 0
      /\ Multiplier * super.max <= Multiplier * peak.max
      /\ Multiplier * super.prio <= Multiplier * peak.prio
      /\ Multiplier * super.max \in Nat /\ Multiplier * super.prio \in Nat
  BY <1>1, OraclePrices DEF Inv, OracleInv, Priceable, Speed
<1> HIDE DEF super
<1>4. /\ fee \in FeeType
      /\ fee.max <= Multiplier * super.max /\ fee.prio <= Multiplier * super.prio
      /\ fee.max = bid.fee.max \/ fee.max = Multiplier * super.max
      /\ fee.prio = bid.fee.prio \/ fee.prio \in {Multiplier * super.prio, fee.max}
  BY <1>1, <1>3, CapHolds DEF Priceable
<1> HIDE DEF fee
<1>5. BelowPeak(fee)
  <2>1. Multiplier * peak.max \in Nat /\ Multiplier * peak.prio \in Nat
    BY Multiples DEF Inv, Peak
  <2> QED  BY <1>3, <1>4, <2>1 DEF BelowPeak, FeeType
<1>6. /\ b \in BidType /\ b.blobs = bid.blobs /\ b.from = bid.from /\ b.fromBlob = bid.fromBlob
      /\ b.blob = bid.blob /\ b.fee = fee /\ b.super = super
  BY <1>1, <1>3, <1>4 DEF BidType
<1> HIDE DEF b
<1>7. /\ fee.max > bid.from.max \/ fee.max = Multiplier * super.max
      /\ fee.prio > bid.from.prio \/ fee.prio \in {Multiplier * super.prio, fee.max}
  BY <1>1, <1>4 DEF Raises
<1> QED  BY <1>1, <1>2, <1>4, <1>5, <1>6, <1>7, PricedStep DEF Fresh

\* The same for blobs, where there is one price and no limit.
LEMMA BlobOraclePrices ==
  ASSUME Inv, blobOracle # NoPrice, NEW s \in Speed
  PROVE  /\ blobOracle[s] \in Nat
         /\ blobOracle[s] <= Multiplier * peak.blob
         /\ Multiplier * blobOracle[s] <= Multiplier * peak.blob
         /\ Multiplier * blobOracle[s] \in Nat /\ Multiplier * peak.blob \in Nat
<1>1. blobOracle[s] \in Nat /\ blobOracle[s] <= peak.blob /\ peak.blob \in Nat
  BY DEF Inv, OracleInv, Peak
<1>2. /\ Multiplier * blobOracle[s] \in Nat
      /\ Multiplier * blobOracle[s] <= Multiplier * peak.blob
      /\ peak.blob <= Multiplier * peak.blob /\ Multiplier * peak.blob \in Nat
  BY <1>1, Multiples
<1> QED  BY <1>1, <1>2

\* The fee is settled; the reads of the blob oracle leave it so.
LEMMA FeeStays ==
  ASSUME FeeSettled, UNCHANGED <<env, oracleVars>>,
         bid'.fee = bid.fee, bid'.from = bid.from, bid'.super = bid.super
  PROVE  FeeSettled'
BY DEF FeeSettled, BelowPeak, WithinGasPriceBounds, oracleVars

LEMMA ReadBlobPriceStep == ASSUME Inv, ReadBlobPrice PROVE Inv'
<1>1. /\ bid # Idle /\ bid.at = "blob_price" /\ bid \in BidType /\ Fresh /\ FeeSettled
      /\ bid.blobs /\ bid.speed \in Speed
  BY DEF ReadBlobPrice, At, Inv, BidInv, BidType
<1>2. UNCHANGED <<env, oracleVars, pool>>
  BY DEF ReadBlobPrice
<1>3. CASE blobOracle = NoPrice
  BY <1>2, <1>3, EndStep DEF ReadBlobPrice, Note
<1>4. CASE blobOracle # NoPrice
  <2> DEFINE price == blobOracle[bid.speed]
  <2>1. /\ price \in Nat /\ price <= Multiplier * peak.blob /\ Multiplier * peak.blob \in Nat
    BY <1>1, <1>4, BlobOraclePrices
  <2>2. tx' = tx /\ blobOracle' = blobOracle /\ peak' = peak
    BY <1>2, <1>4 DEF ReadBlobPrice, oracleVars
  <2>3. bid' = CASE bid.fromBlob = NoPrice -> [bid EXCEPT !.at = "ready", !.blob = price]
                 [] bid.fromBlob # NoPrice /\ bid.speed = "SUPER" ->
                      [bid EXCEPT !.at = "blob_cap", !.blob = AtLeastBumped(price, bid.fromBlob)]
                 [] OTHER -> [bid EXCEPT !.at = "blob_escalate", !.blob = price]
    BY <1>4 DEF ReadBlobPrice
  <2> HIDE DEF price
  <2>4. CASE bid.fromBlob = NoPrice
    <3>1. /\ bid' \in BidType /\ bid'.at = "ready" /\ bid'.blob = price
          /\ bid'.fee = bid.fee /\ bid'.from = bid.from /\ bid'.super = bid.super
          /\ bid'.fromBlob = NoPrice /\ bid'.blobs = bid.blobs
      BY <1>1, <2>1, <2>3, <2>4 DEF BidType, Place
    <3>2. FeeSettled'
      BY <1>1, <1>2, <3>1, FeeStays
    <3>3. BlobSettled'
      BY <1>1, <2>1, <2>2, <3>1 DEF BlobSettled
    <3>4. BidInv'
      BY <3>1, <3>2, <3>3 DEF BidInv, At
    <3> QED  BY <1>2, <2>2, <3>1, <3>4, BidStep
  <2>5. CASE bid.fromBlob # NoPrice /\ bid.speed = "SUPER"
    <3>1. bid.fromBlob \in Nat
      BY <1>1, <2>5 DEF BidType
    <3>2. /\ bid' \in BidType /\ bid'.at = "blob_cap"
          /\ bid'.blob = AtLeastBumped(price, bid.fromBlob)
          /\ bid'.fee = bid.fee /\ bid'.from = bid.from /\ bid'.super = bid.super
          /\ bid'.fromBlob = bid.fromBlob /\ bid'.blobs = bid.blobs
      BY <1>1, <2>1, <2>3, <2>5, <3>1, BumpRises DEF BidType, Place
    <3>3. FeeSettled'
      BY <1>1, <1>2, <3>2, FeeStays
    <3>4. BidInv'
      BY <1>1, <1>4, <2>1, <2>2, <3>1, <3>2, <3>3, BumpRises DEF BidInv, At, BlobPriceable
    <3> QED  BY <1>2, <2>2, <3>2, <3>4, BidStep
  <2>6. CASE bid.fromBlob # NoPrice /\ bid.speed # "SUPER"
    <3>1. bid.fromBlob \in Nat
      BY <1>1, <2>6 DEF BidType
    <3>2. /\ bid' \in BidType /\ bid'.at = "blob_escalate" /\ bid'.blob = price
          /\ bid'.fee = bid.fee /\ bid'.from = bid.from /\ bid'.super = bid.super
          /\ bid'.fromBlob = bid.fromBlob /\ bid'.blobs = bid.blobs /\ bid'.speed = bid.speed
      BY <1>1, <2>1, <2>3, <2>6 DEF BidType, Place
    <3>3. FeeSettled'
      BY <1>1, <1>2, <3>2, FeeStays
    <3>4. BidInv'
      BY <1>1, <1>4, <2>1, <2>2, <2>6, <3>1, <3>2, <3>3 DEF BidInv, At, BlobPriceable
    <3> QED  BY <1>2, <2>2, <3>2, <3>4, BidStep
  <2> QED  BY <2>4, <2>5, <2>6
<1> QED  BY <1>3, <1>4

LEMMA EscalateBlobStep == ASSUME Inv, EscalateBlob PROVE Inv'
<1> DEFINE price == blobOracle[NextSpeed[bid.speed]]
<1>1. /\ bid # Idle /\ bid.at = "blob_escalate" /\ bid \in BidType /\ FeeSettled
      /\ BlobPriceable /\ bid.blobs /\ bid.speed \in Speed /\ bid.speed # "SUPER"
  BY DEF EscalateBlob, At, Inv, BidInv, BidType
<1>2. UNCHANGED <<env, oracleVars, tx, pool>> /\ blobOracle' = blobOracle
  BY DEF EscalateBlob, oracleVars
<1>3. price \in Nat /\ bid.fromBlob \in Nat
  BY <1>1, NextSpeeds, BlobOraclePrices DEF BlobPriceable
<1>4. bid' = [bid EXCEPT !.at = "blob_cap", !.blob = AtLeastBumped(price, bid.fromBlob)]
  BY DEF EscalateBlob
<1> HIDE DEF price
<1>5. /\ bid' \in BidType /\ bid'.at = "blob_cap"
      /\ bid'.blob = AtLeastBumped(price, bid.fromBlob)
      /\ bid'.fee = bid.fee /\ bid'.from = bid.from /\ bid'.super = bid.super
      /\ bid'.fromBlob = bid.fromBlob /\ bid'.blobs = bid.blobs
  BY <1>1, <1>3, <1>4, BumpRises DEF BidType, Place
<1>6. FeeSettled'
  BY <1>1, <1>2, <1>5, FeeStays
<1>7. BidInv'
  BY <1>1, <1>2, <1>3, <1>5, <1>6, BumpRises DEF BidInv, At, BlobPriceable
<1> QED  BY <1>2, <1>5, <1>7, BidStep

LEMMA CapBlobStep == ASSUME Inv, CapBlob PROVE Inv'
<1> DEFINE super == blobOracle["SUPER"]
           blob == CappedAt(bid.blob, Multiplier * super)
<1>1. /\ bid # Idle /\ bid.at = "blob_cap" /\ bid \in BidType /\ FeeSettled
      /\ BlobPriceable /\ bid.blobs /\ bid.blob > bid.fromBlob
  BY DEF CapBlob, At, Inv, BidInv
<1>2. UNCHANGED <<env, oracleVars, tx, pool>> /\ peak' = peak
  BY DEF CapBlob, oracleVars
<1>3. /\ super \in Nat /\ super > 0
      /\ Multiplier * super <= Multiplier * peak.blob
      /\ Multiplier * super \in Nat /\ Multiplier * peak.blob \in Nat
  BY <1>1, BlobOraclePrices DEF Inv, OracleInv, BlobPriceable, Speed
<1>4. bid' = [bid EXCEPT !.at = "ready", !.blob = blob, !.superBlob = super]
  BY DEF CapBlob
<1> HIDE DEF super
<1>5. Multiplier * super > 0
  BY <1>3, Multiples
<1>6. /\ blob \in Nat /\ blob <= Multiplier * super
      /\ blob = bid.blob \/ blob = Multiplier * super
  BY <1>1, <1>3, <1>5 DEF CappedAt, Lower, BlobPriceable
<1> HIDE DEF blob
<1>7. /\ bid' \in BidType /\ bid'.at = "ready" /\ bid'.blob = blob /\ bid'.superBlob = super
      /\ bid'.fee = bid.fee /\ bid'.from = bid.from /\ bid'.super = bid.super
      /\ bid'.fromBlob = bid.fromBlob /\ bid'.blobs = bid.blobs
  BY <1>1, <1>3, <1>4, <1>6 DEF BidType, Place
<1>8. FeeSettled'
  BY <1>1, <1>2, <1>7, FeeStays
<1>9. BlobSettled'
  <2>1. blob <= Multiplier * peak.blob
    BY <1>3, <1>6
  <2>2. blob > bid.fromBlob \/ blob = Multiplier * super
    BY <1>1, <1>6
  <2> QED  BY <1>1, <1>2, <1>6, <1>7, <2>1, <2>2 DEF BlobSettled
<1>10. BidInv'
  BY <1>1, <1>7, <1>8, <1>9 DEF BidInv, At
<1> QED  BY <1>2, <1>7, <1>10, BidStep

-----------------------------------------------------------------------------
(***************************************************************************)
(* The node.                                                                *)
(***************************************************************************)
\* What is ready to be sent.
LEMMA OfferHolds ==
  ASSUME Inv, At("ready")
  PROVE  /\ bid \in BidType /\ FeeSettled /\ BlobSettled
         /\ Offer.fee \in FeeType
         /\ Offer.fee.max <= Multiplier * peak.max
         /\ env.legacy \/ Offer.fee.prio <= Multiplier * peak.prio
         /\ Offer.blob = NoPrice \/ (Offer.blob \in Nat /\ Offer.blob <= Multiplier * peak.blob)
         /\ env.limit = NoLimit \/ Offer.fee.max <= env.limit
<1>1. bid \in BidType /\ FeeSettled /\ BlobSettled
  BY DEF Inv, BidInv, At
<1>2. bid.fee.max \in Nat /\ bid.fee.prio \in Nat
  BY <1>1 DEF FeeSettled, FeeType
<1>3. /\ Offer.fee \in FeeType /\ Offer.fee.max = bid.fee.max
      /\ env.legacy \/ Offer.fee = bid.fee
      /\ Offer.blob = bid.blob
  BY <1>1, <1>2 DEF Offer, Fee, FeeType, FeeSettled
<1>4. env.limit = NoLimit \/ bid.fee.max <= env.limit
  BY <1>1, <1>2, Conditions DEF FeeSettled, WithinGasPriceBounds
<1> QED  BY <1>1, <1>3, <1>4 DEF FeeSettled, BelowPeak, BlobSettled

\* The entry that follows an accepted bid.
LEMMA SentStep ==
  ASSUME Inv, At("ready"), tx' = Sent, bid' = Idle, UNCHANGED <<env, oracleVars>>,
         pool' \in {pool, Offer}
  PROVE  Inv'
<1>1. bid \in BidType /\ FeeSettled /\ BlobSettled
  BY OfferHolds
<1>2. TxInv'
  BY <1>1 DEF Inv, TxInv, TxType, BidType, Sent, FeeSettled, BlobSettled, Note
<1>3. PoolInv'
  BY OfferHolds DEF Inv, PoolInv, oracleVars
<1>4. OracleInv'
  BY DEF Inv, OracleInv, oracleVars
<1> QED  BY <1>2, <1>3, <1>4 DEF Inv, oracleVars

LEMMA BroadcastStep == ASSUME Inv, Broadcast PROVE Inv'
<1>1. At("ready") /\ UNCHANGED <<env, oracleVars>>
  BY DEF Broadcast
<1>2. CASE Refused
  BY <1>1, <1>2, EndStep DEF Refused, Note
<1>3. CASE Accepted
  BY <1>1, <1>3, SentStep DEF Accepted
<1>4. CASE AnswerLost
  <2>1. Ends("lost") /\ pool' = Offer
    BY <1>4 DEF AnswerLost
  <2>2. TxInv'
    BY <2>1 DEF Inv, TxInv, TxType, Ends, Note
  <2>3. PoolInv'
    BY <1>1, <2>1, OfferHolds DEF PoolInv, oracleVars
  <2>4. OracleInv' /\ bid' = Idle
    BY <1>1, <2>1 DEF Inv, OracleInv, oracleVars, Ends
  <2> QED  BY <1>1, <2>2, <2>3, <2>4 DEF Inv, oracleVars
<1>5. CASE AlreadyKnown
  BY <1>1, <1>5, EndStep, SentStep DEF AlreadyKnown, Note
<1>6. CASE TooLate
  BY <1>1, <1>6, EndStep DEF TooLate, Note
<1> QED  BY <1>2, <1>3, <1>4, <1>5, <1>6 DEF Broadcast

\* What concerns the bid is left alone by the chain.
LEMMA BidStays ==
  ASSUME Inv, UNCHANGED <<env, oracle, blobOracle, bid, peak>>
  PROVE  bid # Idle => BidInv'
<1> SUFFICES ASSUME bid # Idle PROVE BidInv'
  OBVIOUS
<1>1. FeeSettled => FeeSettled'
  BY DEF FeeSettled, BelowPeak, WithinGasPriceBounds
<1>2. BlobSettled => BlobSettled'
  BY DEF BlobSettled
<1>3. BidInv /\ \A p \in Place : At(p)' <=> At(p)
  BY DEF Inv, At
<1> QED
  BY <1>1, <1>2, <1>3 DEF BidInv, Place, Fresh, Priceable, Raises, BlobPriceable, At

LEMMA IncludeStep == ASSUME Inv, Include PROVE Inv'
<1>1. TxInv'
  BY DEF Include, Inv, TxInv, TxType
<1>2. OracleInv' /\ PoolInv'
  BY DEF Include, Inv, OracleInv, PoolInv, oracleVars
<1> QED  BY <1>1, <1>2, BidStays DEF Inv, Include, oracleVars

LEMMA MoveStep == ASSUME Inv, Move PROVE Inv'
<1>1. OracleInv' /\ PoolInv' /\ TxInv'
  BY DEF Move, Inv, OracleInv, PoolInv, TxInv
<1> QED  BY <1>1, BidStays DEF Inv, Move

LEMMA NextInv == ASSUME Inv, [Next]_vars PROVE Inv'
<1>1. ASSUME Pass PROVE Inv'
  BY <1>1, SendPendingStep, BumpGasStep, ReadPriceStep, EscalateStep, CapStep,
     ReadBlobPriceStep, EscalateBlobStep, CapBlobStep, BroadcastStep DEF Pass
<1>2. CASE UNCHANGED vars
  <2>1. OracleInv' /\ PoolInv' /\ TxInv'
    BY <1>2 DEF Inv, OracleInv, PoolInv, TxInv, vars
  <2> QED  BY <1>2, <2>1, BidStays DEF Inv, vars
<1> QED
  BY <1>1, <1>2, RefreshGasStep, RefreshBlobStep, CompeteStep, IncludeStep, MoveStep DEF Next

LEMMA Invariance == Spec => []Inv
<1>1. Inv /\ [Next]_vars => Inv'
  BY NextInv
<1> QED  BY InitInv, <1>1, PTL DEF Spec

\* compute_gas_price_for_transaction and compute_blob_gas_price_for_transaction: a bump's bid
\* is above the last one in every fee or at a cap, wherever between its three reads the
\* oracles are refreshed.
THEOREM BidsAlwaysRise == Spec => []BidsRise
<1>1. Inv => BidsRise
  BY DEF Inv, BidInv, At, FeeSettled, BlobSettled, BidsRise
<1> QED  BY Invariance, <1>1, PTL

\* The node is never offered more than the multiplier allows of the fastest price the oracles
\* have had, nor more than the relayer's limit.
THEOREM CapKept == Spec => []NeverOverCap
<1>1. Inv => NeverOverCap
  BY DEF Inv, PoolInv, NeverOverCap
<1> QED  BY Invariance, <1>1, PTL
=============================================================================
