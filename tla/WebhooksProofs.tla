--------------------------- MODULE WebhooksProofs ---------------------------
(***************************************************************************)
(* Theorems about Webhooks, for every set of events and endpoints, every     *)
(* max_retries and every interleaving of rounds, posts and sweeps.           *)
(*                                                                          *)
(* A delivery may be in the pending map and in the copies of several rounds  *)
(* at once, each with attempts of its own.  What makes the stale ones        *)
(* harmless is that each of them tells less than what happened: Backed.      *)
(***************************************************************************)
EXTENDS Webhooks, TLAPS

\* What an entry claims has happened, if perhaps not to this entry.
Backed(d, entry) ==
  /\ entry.attempts <= refused[d]
  /\ entry.state = "completed" => d \in accepted
  /\ entry.state = "failed" => refused[d] = Tries(d)

PendingBacked == \A d \in Delivery : pending[d] # NoCopy => Backed(d, pending[d])

\* A round posts only what is still to be tried.
CopiesBacked ==
  \A r \in Round : \A d \in Working(r) :
    /\ Backed(d, copies[r][d].entry)
    /\ copies[r][d].step \in {"log", "post"} => ShouldRetry(d, copies[r][d].entry)

Inv == TypeOK /\ PendingBacked /\ CopiesBacked /\ NothingForgotten /\ HistoryTruthful

LEMMA TriesNatural == \A d \in Delivery : Tries(d) \in Nat
BY WebhooksAssumption DEF Delivery, Tries

LEMMA InitInv == Init => Inv
<1> SUFFICES ASSUME Init PROVE Inv
  OBVIOUS
<1>1. pending \in [Delivery -> {NoCopy} \cup Entry] /\ backoff = {}
  BY DEF Init, NoCopies
<1>2. /\ copies \in [Round -> [Delivery -> {NoCopy} \cup Copy]]
      /\ \A r \in Round : Working(r) = {}
  BY DEF Init, NoCopies, Working
<1>3. refused \in [Delivery -> Nat] /\ \A d \in Delivery : refused[d] <= Tries(d)
  BY TriesNatural DEF Init
<1>4. record \in [Delivery -> RowStatus]
  BY DEF Init, RowStatus
<1>5. TypeOK
  BY <1>1, <1>2, <1>3, <1>4 DEF Init, TypeOK
<1> QED
  BY <1>2, <1>5 DEF Init, Inv, PendingBacked, CopiesBacked, NothingForgotten,
                    HistoryTruthful, NoCopies

\* What was told stays told: the histories only grow.
LEMMA BackingStays ==
  ASSUME TypeOK, NEW d \in Delivery, NEW entry \in Entry, Backed(d, entry),
         accepted \subseteq accepted', refused' \in [Delivery -> Nat],
         refused[d] <= refused'[d], refused'[d] <= Tries(d)
  PROVE  Backed(d, entry)'
<1>1. refused[d] \in Nat /\ refused'[d] \in Nat /\ Tries(d) \in Nat /\ entry.attempts \in Nat
  BY TriesNatural DEF TypeOK, Entry
<1>2. entry.attempts <= refused'[d]
  BY <1>1 DEF Backed
<1>3. entry.state = "failed" => refused'[d] = Tries(d)
  BY <1>1 DEF Backed
<1> QED  BY <1>2, <1>3 DEF Backed, Tries

\* Whoever waits for the manager gets it from the one who lets it go.
LEMMA MutexStays ==
  ASSUME TypeOK, HandOver
  PROVE  mutex' \in Event \cup {Task, Free}
BY DEF TypeOK, HandOver, Waiting

\* The copies a round makes are of what the map holds.
LEMMA SnapshotType ==
  ASSUME Inv
  PROVE  /\ Snapshot \in [Delivery -> {NoCopy} \cup Copy]
         /\ \A d \in Delivery : Snapshot[d] # NoCopy =>
              /\ Backed(d, Snapshot[d].entry)
              /\ Snapshot[d].entry.attempts <= Tries(d)
              /\ ShouldRetry(d, Snapshot[d].entry)
<1>1. ASSUME NEW d \in Ready
      PROVE  /\ ToSend(d) \in Copy /\ ToSend(d).entry = pending[d]
             /\ Backed(d, pending[d]) /\ ShouldRetry(d, pending[d])
  BY <1>1 DEF Inv, TypeOK, PendingBacked, Ready, ToSend, Copy
<1>2. ASSUME NEW d \in Ready PROVE pending[d].attempts <= Tries(d)
  BY <1>1, <1>2, TriesNatural DEF Inv, TypeOK, Backed, Tries, Ready, Entry
<1> QED  BY <1>1, <1>2 DEF Snapshot

\* Steps that change neither what the rounds hold nor what has happened.
LEMMA QuietStep ==
  ASSUME Inv, UNCHANGED <<copies, rowVars>>,
         alive' \in BOOLEAN, named' \in BOOLEAN,
         caller' \in [Event -> {"out", "waiting", "done"}],
         mutex' \in Event \cup {Task, Free},
         phase' \in [Round -> {"idle", "spawned", "picked", "sending", "sent"}],
         alive' => alive,
         pending' = pending, queued' = queued, backoff' \subseteq backoff
  PROVE  Inv'
<1>1. TypeOK'
  BY DEF Inv, TypeOK, rowVars, Working
<1>2. PendingBacked' /\ CopiesBacked'
  BY DEF Inv, PendingBacked, CopiesBacked, Backed, Tries, Working, ShouldRetry, rowVars
<1>3. NothingForgotten' /\ HistoryTruthful'
  BY DEF Inv, NothingForgotten, HistoryTruthful, HasTried, Tries, rowVars
<1> QED  BY <1>1, <1>2, <1>3 DEF Inv

\* A report and the end of a process change the map; what is new in it claims nothing.
LEMMA QueueStep ==
  ASSUME Inv, NEW e \in Event, Queue(e)
  PROVE  Inv'
<1>1. DeliveriesOf(e) \subseteq Delivery
  BY DEF DeliveriesOf, Delivery, Interested
<1>2. pending' \in [Delivery -> {NoCopy} \cup Entry]
  BY DEF Inv, TypeOK, Queue, New, Entry
<1>3. \A d \in Delivery : pending'[d] = NoCopy => pending[d] = NoCopy /\ d \notin DeliveriesOf(e)
  BY NoCopyAssumption DEF Queue, New, Entry
<1>4. TypeOK'
  <2>1. mutex' \in Event \cup {Task, Free}
    BY DEF Inv, TypeOK, Queue, Waiting
  <2>2. caller' \in [Event -> {"out", "waiting", "done"}]
    BY DEF Inv, TypeOK, Queue
  <2>3. phase' \in [Round -> {"idle", "spawned", "picked", "sending", "sent"}]
    BY DEF Inv, TypeOK, Queue, Round
  <2>4. backoff' \subseteq {d \in Delivery : pending'[d] # NoCopy}
    BY <1>3 DEF Inv, TypeOK, Queue
  <2> QED  BY <1>1, <1>2, <2>1, <2>2, <2>3, <2>4 DEF Inv, TypeOK, Queue, rowVars, Working
<1>5. PendingBacked'
  BY TriesNatural DEF Inv, TypeOK, PendingBacked, Backed, Tries, Queue, New, rowVars
<1>6. CopiesBacked'
  BY DEF Inv, CopiesBacked, Backed, Tries, Working, ShouldRetry, Queue, rowVars
<1>7. NothingForgotten' /\ HistoryTruthful'
  BY <1>1, <1>3 DEF Inv, TypeOK, NothingForgotten, HistoryTruthful, HasTried, Tries, Queue, rowVars
<1> QED  BY <1>4, <1>5, <1>6, <1>7 DEF Inv

LEMMA StopStep == ASSUME Inv, Stop PROVE Inv'
<1>1. pending' \in [Delivery -> {NoCopy} \cup Entry] /\ backoff' = {}
  BY DEF Stop, NoCopies
<1>2. /\ copies' \in [Round -> [Delivery -> {NoCopy} \cup Copy]]
      /\ \A r \in Round : Working(r)' = {}
  BY DEF Stop, NoCopies, Working
<1>3. TypeOK'
  BY <1>1, <1>2 DEF Inv, TypeOK, Stop, rowVars
<1> QED
  BY <1>2, <1>3 DEF Inv, PendingBacked, CopiesBacked, NothingForgotten, HistoryTruthful,
                    HasTried, Tries, Stop, NoCopies, rowVars

\* A round takes its copies.
LEMMA SnapshotStep ==
  ASSUME Inv, NEW r \in Round, NEW p \in {"idle", "picked", "sending"},
         phase' = [phase EXCEPT ![r] = p],
         copies' = [copies EXCEPT ![r] = Snapshot],
         UNCHANGED <<alive, named, caller, mutex, mapVars, rowVars>>
  PROVE  Inv'
<1>1. TypeOK'
  BY SnapshotType DEF Inv, TypeOK, Working, mapVars, rowVars
<1>2. PendingBacked'
  BY DEF Inv, PendingBacked, Backed, Tries, mapVars, rowVars
<1>3. CopiesBacked'
  <2> SUFFICES ASSUME NEW q \in Round, NEW d \in Delivery, copies'[q][d] # NoCopy
               PROVE  (/\ Backed(d, copies[q][d].entry)
                       /\ copies[q][d].step \in {"log", "post"}
                            => ShouldRetry(d, copies[q][d].entry))'
    BY DEF CopiesBacked, Working
  <2>1. CASE q = r
    BY <2>1, SnapshotType DEF Inv, TypeOK, Backed, Tries, ShouldRetry, rowVars
  <2>2. CASE q # r
    BY <2>2 DEF Inv, TypeOK, CopiesBacked, Working, Backed, Tries, ShouldRetry, rowVars
  <2> QED  BY <2>1, <2>2
<1>4. NothingForgotten' /\ HistoryTruthful'
  BY DEF Inv, NothingForgotten, HistoryTruthful, HasTried, Tries, mapVars, rowVars
<1> QED  BY <1>1, <1>2, <1>3, <1>4 DEF Inv

\* A round ends without writing its copies back.
LEMMA EndStep ==
  ASSUME Inv, NEW r \in Round, End(r),
         UNCHANGED <<alive, named, caller, mutex, mapVars, rowVars>>
  PROVE  Inv'
<1>1. TypeOK'
  BY DEF Inv, TypeOK, Working, End, NoCopies, mapVars, rowVars
<1>2. PendingBacked' /\ CopiesBacked'
  BY DEF Inv, TypeOK, PendingBacked, CopiesBacked, Backed, Tries, Working, ShouldRetry, End, NoCopies,
         mapVars, rowVars
<1>3. NothingForgotten' /\ HistoryTruthful'
  BY DEF Inv, NothingForgotten, HistoryTruthful, HasTried, Tries, mapVars, rowVars
<1> QED  BY <1>1, <1>2, <1>3 DEF Inv

\* It writes them back, over whatever the map holds by now.
LEMMA OverwriteStep ==
  ASSUME Inv, NEW r \in Round, Overwrite(r), End(r),
         UNCHANGED <<alive, named, caller, mutex, rowVars>>
  PROVE  Inv'
<1>1. \A d \in Delivery : copies[r][d] # NoCopy => copies[r][d].entry \in Entry
  BY DEF Inv, TypeOK, Copy
<1>2. /\ pending' \in [Delivery -> {NoCopy} \cup Entry]
      /\ \A d \in Delivery : pending'[d] = NoCopy => pending[d] = NoCopy /\ d \notin Working(r)
  BY <1>1, NoCopyAssumption DEF Inv, TypeOK, Overwrite, Working
<1>3. backoff' \subseteq {d \in Delivery : pending'[d] # NoCopy}
  BY <1>2 DEF Inv, TypeOK, Overwrite, Working
<1>4. TypeOK'
  BY <1>2, <1>3 DEF Inv, TypeOK, Working, Overwrite, End, NoCopies, rowVars
<1>5. PendingBacked'
  BY <1>1 DEF Inv, TypeOK, PendingBacked, CopiesBacked, Backed, Tries, Working, Overwrite, rowVars
<1>6. CopiesBacked'
  BY DEF Inv, TypeOK, CopiesBacked, Backed, Tries, Working, ShouldRetry, End, NoCopies, rowVars
<1>7. NothingForgotten' /\ HistoryTruthful'
  BY <1>2 DEF Inv, TypeOK, NothingForgotten, HistoryTruthful, HasTried, Tries, Overwrite, rowVars
<1> QED  BY <1>4, <1>5, <1>6, <1>7 DEF Inv

\* What is swept was taken or given up.
LEMMA SweepStep == ASSUME Inv, Sweep PROVE Inv'
<1>1. TypeOK'
  BY DEF Inv, TypeOK, Sweep, Swept, Working, roundVars, rowVars
<1>2. PendingBacked' /\ CopiesBacked'
  BY DEF Inv, TypeOK, PendingBacked, CopiesBacked, Backed, Tries, Working, ShouldRetry, Sweep,
         roundVars, rowVars
<1>3. NothingForgotten'
  BY DEF Inv, TypeOK, Entry, PendingBacked, Backed, Tries, NothingForgotten, HasTried, Tries, Sweep, Swept,
         rowVars
<1>4. HistoryTruthful'
  BY DEF Inv, HistoryTruthful, Sweep, rowVars
<1> QED  BY <1>1, <1>2, <1>3, <1>4 DEF Inv

\* A round's log writes DELIVERED or ABANDONED only for a copy that is completed or failed.
LEMMA LogInitialStep ==
  ASSUME Inv, NEW r \in Round, NEW d \in Delivery, LogInitial(r, d)
  PROVE  Inv'
<1>1. copies[r][d] \in Copy /\ copies'[r][d] = [copies[r][d] EXCEPT !.step = "post"]
  BY DEF Inv, TypeOK, LogInitial, Sending, Working
<1>2. copies' \in [Round -> [Delivery -> {NoCopy} \cup Copy]]
  BY <1>1 DEF Inv, TypeOK, LogInitial, Sending, Working, Copy
<1>3. \A q \in Round : \A e \in Delivery : ~(q = r /\ e = d) => copies'[q][e] = copies[q][e]
  BY DEF Inv, TypeOK, LogInitial
<1>4. \A q \in Round : Working(q)' \subseteq Working(q)
  BY <1>3 DEF Working, LogInitial, Sending
<1>5. TypeOK'
  <2>1. \A q \in Round : \A e \in Working(q)' : copies'[q][e].entry.attempts <= Tries(e)
    BY <1>1, <1>3, <1>4 DEF Inv, TypeOK, Working, Copy
  <2>2. record' \in [Delivery -> RowStatus]
    BY DEF Inv, TypeOK, LogInitial, RowStatus
  <2> QED
    BY <1>2, <2>1, <2>2 DEF Inv, TypeOK, LogInitial, Sending, mapVars, Tries
<1>6. CopiesBacked'
  BY <1>1, <1>3, <1>4 DEF Inv, CopiesBacked, Working, Backed, ShouldRetry, Tries, LogInitial,
                          Sending, Copy
<1> QED
  BY <1>5, <1>6 DEF Inv, TypeOK, PendingBacked, Backed, Tries, NothingForgotten,
                    HistoryTruthful, HasTried, LogInitial, Sending, mapVars

\* What a failed post leaves of an entry.
LEMMA FailedEntry ==
  ASSUME NEW d \in Delivery, NEW entry \in Entry, entry.state = "open"
  PROVE  Failed(d, entry) = [attempts |-> entry.attempts + 1,
                             state |-> IF entry.attempts + 1 < Tries(d) THEN "open" ELSE "failed"]
<1> DEFINE one == [entry EXCEPT !.attempts = @ + 1]
<1>1. one = [attempts |-> entry.attempts + 1, state |-> "open"]
  BY DEF Entry
<1>2. ShouldRetry(d, one) <=> entry.attempts + 1 < Tries(d)
  BY <1>1 DEF ShouldRetry
<1>3. Failed(d, entry) = [one EXCEPT !.state = IF ShouldRetry(d, one) THEN "open" ELSE "failed"]
  BY DEF Failed
<1> HIDE DEF one
<1> QED  BY <1>1, <1>2, <1>3

\* A post adds to what happened before it changes what its copy claims.
LEMMA PostStep ==
  ASSUME Inv, NEW r \in Round, NEW d \in Delivery, NEW answer \in Answers, Post(r, d, answer)
  PROVE  Inv'
<1> DEFINE entry == copies[r][d].entry
           tried == Tried(d, entry, answer)
<1>1. /\ copies[r][d] \in Copy /\ entry \in Entry /\ d \in Working(r)
      /\ Backed(d, entry) /\ entry.state = "open" /\ entry.attempts < Tries(d)
  BY DEF Inv, TypeOK, CopiesBacked, ShouldRetry, Post, Sending, Working, Copy
<1>2. copies'[r][d] = [entry |-> tried, step |-> "record"]
  BY <1>1 DEF Inv, TypeOK, Post
<1>3. \A q \in Round : \A e \in Delivery : ~(q = r /\ e = d) => copies'[q][e] = copies[q][e]
  BY DEF Inv, TypeOK, Post
<1>4. /\ accepted \subseteq accepted' /\ accepted' \subseteq Delivery
      /\ refused' \in [Delivery -> Nat]
      /\ \A e \in Delivery : refused[e] <= refused'[e] /\ refused'[e] <= Tries(e)
  BY TriesNatural DEF Inv, TypeOK, Post
<1>5. /\ tried \in Entry /\ tried.attempts <= Tries(d)
      /\ tried.attempts <= refused'[d]
      /\ tried.state = "completed" => d \in accepted'
      /\ tried.state = "failed" => refused'[d] = Tries(d)
  <2>1. CASE answer = "2xx"
    <3>1. tried = [entry EXCEPT !.state = "completed"] /\ d \in accepted'
      BY <2>1 DEF Tried, Post
    <3>2. refused[d] \in Nat /\ refused'[d] \in Nat /\ Tries(d) \in Nat /\ entry.attempts \in Nat
      BY <1>1, <1>4, TriesNatural DEF Inv, TypeOK, Entry
    <3>3. /\ tried \in Entry /\ tried.attempts = entry.attempts /\ tried.state = "completed"
      BY <1>1, <3>1 DEF Entry
    <3> HIDE DEF tried
    <3> QED
      BY <1>1, <1>4, <3>1, <3>2, <3>3 DEF Backed
  <2>2. CASE answer # "2xx"
    <3>1. /\ tried.attempts = entry.attempts + 1
          /\ tried.state = IF tried.attempts < Tries(d) THEN "open" ELSE "failed"
          /\ tried \in Entry
      <4>1. tried = Failed(d, entry)
        BY <2>2 DEF Tried
      <4> HIDE DEF tried
      <4> QED  BY <1>1, <4>1, FailedEntry DEF Entry
    <3> HIDE DEF tried
    <3>2. refused'[d] = IF refused[d] < Tries(d) THEN refused[d] + 1 ELSE refused[d]
      BY <2>2 DEF Inv, TypeOK, Post
    <3>3. entry.attempts \in Nat /\ entry.attempts <= refused[d] /\ refused[d] <= Tries(d)
      BY <1>1 DEF Inv, TypeOK, Backed, Entry
    <3>4. tried.attempts <= refused'[d] /\ tried.attempts <= Tries(d)
      BY <1>1, <3>1, <3>2, <3>3, TriesNatural DEF Inv, TypeOK
    <3>5. tried.state = "failed" => refused'[d] = Tries(d)
      <4>1. refused'[d] \in Nat /\ Tries(d) \in Nat /\ tried.attempts \in Nat
        BY <1>4, <3>1, TriesNatural DEF Entry
      <4> QED  BY <1>4, <3>1, <3>4, <4>1
    <3> QED
      BY <3>1, <3>4, <3>5
  <2> QED  BY <2>1, <2>2
<1> HIDE DEF tried
<1>6. \A q \in Round : Working(q)' \subseteq Working(q)
  BY <1>1, <1>3 DEF Working
<1>7. TypeOK'
  <2>1. copies' \in [Round -> [Delivery -> {NoCopy} \cup Copy]]
    <3>1. [entry |-> tried, step |-> "record"] \in Copy
      BY <1>5 DEF Copy
    <3> QED  BY <1>2, <1>3, <3>1 DEF Inv, TypeOK, Post
  <2>2. \A q \in Round : \A e \in Working(q)' : copies'[q][e].entry.attempts <= Tries(e)
    BY <1>2, <1>3, <1>5, <1>6 DEF Inv, TypeOK, Working
  <2> QED
    BY <1>4, <2>1, <2>2 DEF Inv, TypeOK, Post, Sending, mapVars, Tries
<1>8. PendingBacked'
  <2> SUFFICES ASSUME NEW e \in Delivery, pending[e] # NoCopy PROVE Backed(e, pending[e])'
    BY DEF PendingBacked, Post, Sending, mapVars
  <2> QED  BY <1>4 DEF Inv, TypeOK, Entry, PendingBacked, Backed, Tries, Post, Sending, mapVars
<1>9. CopiesBacked'
  <2> SUFFICES ASSUME NEW q \in Round, NEW e \in Working(q)'
               PROVE  (/\ Backed(e, copies[q][e].entry)
                       /\ copies[q][e].step \in {"log", "post"}
                            => ShouldRetry(e, copies[q][e].entry))'
    BY DEF CopiesBacked
  <2>1. CASE q = r /\ e = d
    BY <1>2, <1>5, <2>1 DEF Backed, Tries
  <2>2. CASE ~(q = r /\ e = d)
    <3>1. copies'[q][e] = copies[q][e] /\ e \in Working(q) /\ e \in Delivery
      BY <1>3, <1>6, <2>2 DEF Working
    <3>2. /\ copies[q][e].entry \in Entry /\ Backed(e, copies[q][e].entry)
          /\ copies[q][e].step \in {"log", "post"} => ShouldRetry(e, copies[q][e].entry)
      BY <3>1 DEF Inv, TypeOK, CopiesBacked, Working, Copy
    <3>3. Backed(e, copies[q][e].entry)'
      <4>1. /\ refused[e] <= refused'[e] /\ refused'[e] <= Tries(e)
            /\ accepted \subseteq accepted' /\ refused' \in [Delivery -> Nat]
        BY <1>4, <3>1
      <4>2. \A x \in Entry : Backed(e, x) => Backed(e, x)'
        BY <3>1, <4>1, BackingStays DEF Inv
      <4> QED  BY <3>1, <3>2, <4>2 DEF Backed, Tries
    <3> QED  BY <3>1, <3>2, <3>3 DEF ShouldRetry, Tries
  <2> QED  BY <2>1, <2>2
<1>10. NothingForgotten' /\ HistoryTruthful'
  <2>1. \A e \in Delivery : refused[e] = Tries(e) => refused'[e] = Tries(e)
    <3> TAKE e \in Delivery
    <3>1. refused[e] \in Nat /\ refused'[e] \in Nat /\ Tries(e) \in Nat
      BY <1>4, TriesNatural DEF Inv, TypeOK
    <3> QED  BY <1>4, <3>1
  <2> QED
    BY <1>4, <2>1 DEF Inv, TypeOK, NothingForgotten, HistoryTruthful, HasTried, Tries, Post,
                      Sending, mapVars
<1> QED  BY <1>7, <1>8, <1>9, <1>10 DEF Inv

LEMMA LogOutcomeStep ==
  ASSUME Inv, NEW r \in Round, NEW d \in Delivery, LogOutcome(r, d)
  PROVE  Inv'
<1>1. copies[r][d] \in Copy /\ copies'[r][d] = [copies[r][d] EXCEPT !.step = "done"]
  BY DEF Inv, TypeOK, LogOutcome, Sending, Working
<1>2. copies' \in [Round -> [Delivery -> {NoCopy} \cup Copy]]
  BY <1>1 DEF Inv, TypeOK, LogOutcome, Sending, Working, Copy
<1>3. \A q \in Round : \A e \in Delivery : ~(q = r /\ e = d) => copies'[q][e] = copies[q][e]
  BY DEF Inv, TypeOK, LogOutcome
<1>4. \A q \in Round : Working(q)' \subseteq Working(q)
  BY <1>3 DEF Working, LogOutcome, Sending
<1>5. record' = record \/ record' = [record EXCEPT ![d] = Outcome(d, copies[r][d].entry)]
  BY DEF LogOutcome
<1>6. /\ Outcome(d, copies[r][d].entry) \in RowStatus
      /\ Outcome(d, copies[r][d].entry) = "DELIVERED" => copies[r][d].entry.state = "completed"
      /\ Outcome(d, copies[r][d].entry) = "ABANDONED" => copies[r][d].entry.state = "failed"
  BY <1>1 DEF Outcome, Copy, Entry, RowStatus
<1>7. TypeOK'
  <2>1. \A q \in Round : \A e \in Working(q)' : copies'[q][e].entry.attempts <= Tries(e)
    BY <1>1, <1>3, <1>4 DEF Inv, TypeOK, Working, Copy
  <2>2. record' \in [Delivery -> RowStatus]
    BY <1>5, <1>6 DEF Inv, TypeOK
  <2> QED
    BY <1>2, <2>1, <2>2 DEF Inv, TypeOK, LogOutcome, Sending, mapVars, Tries
<1>8. CopiesBacked'
  BY <1>1, <1>3, <1>4 DEF Inv, CopiesBacked, Working, Backed, ShouldRetry, Tries, LogOutcome,
                          Sending, Copy
<1>9. HistoryTruthful'
  <2>1. Backed(d, copies[r][d].entry)
    BY DEF Inv, CopiesBacked, LogOutcome, Sending
  <2> QED
    BY <1>5, <1>6, <2>1 DEF Inv, TypeOK, HistoryTruthful, Backed, Tries, LogOutcome
<1> QED
  BY <1>7, <1>8, <1>9 DEF Inv, TypeOK, PendingBacked, Backed, Tries, NothingForgotten,
                          HasTried, LogOutcome, Sending, mapVars

\* Every step keeps the invariant.
LEMMA NextInv == Inv /\ [Next]_vars => Inv'
<1> SUFFICES ASSUME Inv, [Next]_vars PROVE Inv'
  OBVIOUS
<1>1. ASSUME NEW e \in Event, Report(e) \/ Queue(e) \/ Start(e) \/ WriteBack(e) PROVE Inv'
  <2>1. CASE Report(e)
    BY <2>1, QuietStep DEF Inv, TypeOK, Report, mapVars, roundVars
  <2>2. CASE Queue(e)
    BY <2>2, QueueStep
  <2>3. CASE Start(e)
    BY <2>3, SnapshotStep DEF Start, Round
  <2>4. CASE WriteBack(e)
    BY <2>4, OverwriteStep DEF WriteBack, Round
  <2> QED  BY <1>1, <2>1, <2>2, <2>3, <2>4
<1>2. ASSUME NEW r \in Round, NEW d \in Delivery, Send(r, d) PROVE Inv'
  BY <1>2, LogInitialStep, LogOutcomeStep, PostStep DEF Send
<1>3. Task \in Round
  BY DEF Round
<1>4. CASE NameNetworks
  BY <1>4, QuietStep DEF Inv, TypeOK, NameNetworks, mapVars, roundVars
<1>5. CASE Pick
  BY <1>3, <1>5, SnapshotStep DEF Pick
<1>6. CASE Take
  <2>1. CASE mutex = Free
    BY <1>3, <1>6, <2>1, QuietStep DEF Inv, TypeOK, Take, mapVars
  <2>2. CASE mutex # Free
    BY <1>3, <1>6, <2>2, EndStep DEF Take
  <2> QED  BY <2>1, <2>2
<1>7. CASE Release
  BY <1>3, <1>7, MutexStays, QuietStep DEF Inv, TypeOK, Release, mapVars
<1>8. CASE TaskWriteBack
  BY <1>3, <1>8, OverwriteStep, EndStep DEF TaskWriteBack
<1>9. CASE Sweep
  BY <1>9, SweepStep
<1>10. CASE Stop
  BY <1>10, StopStep
<1>11. ASSUME NEW d \in Delivery, Due(d) PROVE Inv'
  BY <1>11, QuietStep DEF Inv, TypeOK, Due, roundVars
<1>12. CASE UNCHANGED vars
  BY <1>12, QuietStep DEF Inv, TypeOK, vars, rowVars
<1> QED
  BY <1>1, <1>2, <1>4, <1>5, <1>6, <1>7, <1>8, <1>9, <1>10, <1>11, <1>12 DEF Next

LEMMA Invariance == Spec => []Inv
<1>1. Init => Inv
  BY InitInv
<1>2. Inv /\ [Next]_vars => Inv'
  BY NextInv
<1> QED  BY <1>1, <1>2, PTL DEF Spec

\* A delivery that was put into the map leaves it only when its endpoint took it or refused it
\* max_retries times, in whatever order rounds write their copies back and sweeps run.
THEOREM DeliveriesKept == Spec => []NothingForgotten
<1>1. Inv => NothingForgotten
  BY DEF Inv
<1> QED  BY <1>1, Invariance, PTL

\* A row of delivery_history is DELIVERED only after a post that was taken, and ABANDONED only
\* after max_retries failed ones, whichever of several stale copies the status comes from.
THEOREM HistoryKept == Spec => []HistoryTruthful
<1>1. Inv => HistoryTruthful
  BY DEF Inv
<1> QED  BY <1>1, Invariance, PTL
=============================================================================
