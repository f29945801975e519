----------------------------- MODULE Schedules -----------------------------
(***************************************************************************)
(* The background tasks that send transactions of their own: cron jobs       *)
(* (background_tasks/cron_job_task.rs) and the automatic top-up of relayers  *)
(* (background_tasks/automatic_top_up_task.rs).  Both hand a transaction with *)
(* a fixed external id to add_transaction, which answers with the row that   *)
(* has this external id when there is one, whatever became of it.            *)
(***************************************************************************)
EXTENDS Naturals, FiniteSets

CONSTANTS
  Job,
  Interval,      \* seconds between two runs of each job
  MayRun,        \* relayers that match the job's filter and permissions
  Relayer,
  Chain,
  ChainOf,
  Address,
  AddressOf,     \* a clone shares the address of its source
  Managed,       \* relayers that may be deleted or paused
  Payer,         \* from.relayer.address of the top-up configurations
  Asset,         \* the native token and ERC-20 tokens
  MaxClock,      \* bound on the clock
  MaxStops,      \* bound on crashes and shutdowns
  None

ASSUME SchedulesAssumption ==
  /\ Interval \in [Job -> Nat \ {0}]
  /\ MayRun \in [Job -> SUBSET Relayer]
  /\ ChainOf \in [Relayer -> Chain]
  /\ AddressOf \in [Relayer -> Address]
  /\ Payer \in Address /\ Managed \subseteq Relayer
  /\ MaxClock \in Nat /\ MaxStops \in Nat
  /\ None \notin Nat
  /\ None \notin 0..MaxClock

\* Whose external id a row carries: a job's, or that of the top-ups of an address.
TopUp == [asset : Asset, to : Address \ {Payer}]
Owner == Job \cup TopUp

VARIABLES
  runOnStartup,  \* jobs with run_on_startup
  keyed,         \* jobs whose transaction has an external id
  clock,
  up,        \* the process runs
  stops,     \* how often it has stopped
  live,      \* relayers that are not deleted
  paused,
  rows,      \* the status of the transaction of each relayer with each external id
  \* cron jobs
  stage,
  due,       \* when a waiting job goes on
  lastRan,   \* relayer.cron_job_state
  \* the top-up task
  known,     \* relayer_cache: the relayers of each chain
  round,     \* what is being topped up
  low,       \* [chain, asset, address] whose balance is below min_balance
  \* histories
  lastMade,  \* when the last transaction of each job was admitted
  since,     \* when each job first started, last tried to run or was last marked
  unmarked,  \* jobs whose state in the database is behind, or could not be read
  reported   \* whose "queued" report named a transaction that was settled long before

config == <<runOnStartup, keyed>>
cronVars == <<stage, due, lastRan, lastMade, since, unmarked>>
topUpVars == <<known, round>>
world == <<live, paused, low>>
vars == <<config, clock, up, stops, world, rows, cronVars, topUpVars, reported>>

NoRound == [chain |-> None, asset |-> None, needy |-> {}]

Init ==
  /\ runOnStartup \in SUBSET Job /\ keyed \in SUBSET Job
  /\ clock = 0 /\ up = FALSE /\ stops = 0
  /\ live = Relayer /\ paused = {} /\ low = {}
  /\ rows = [x \in Relayer |-> [o \in Owner |-> "none"]]
  /\ stage = [j \in Job |-> "off"]
  /\ due = [j \in Job |-> 0]
  /\ lastRan = [j \in Job |-> None]
  /\ known = [c \in Chain |-> {}]
  /\ round = NoRound
  /\ lastMade = [j \in Job |-> None]
  /\ since = [j \in Job |-> None]
  /\ unmarked = {}
  /\ reported = {}

Later(s, t) == IF s < t THEN t ELSE s

LiveOn(c) == {x \in live : ChainOf[x] = c}

-----------------------------------------------------------------------------
(***************************************************************************)
(* add_transaction, as the tasks see it: the stored row, a new one, a row    *)
(* that is saved as FAILED because its gas could not be estimated, or an     *)
(* error that leaves nothing.                                               *)
(***************************************************************************)
\* Mutant: nothing is looked up.
StoredNever(x, o) == FALSE

Stored(x, o) == rows[x][o] # "none"

Report(x, o) == reported' = IF rows[x][o] \in {"open", "twice"} THEN reported ELSE reported \cup {o}

Admits(x) == x \in live \ paused

Admit(x, o) ==
  /\ ~Stored(x, o) /\ Admits(x)
  /\ rows' = [rows EXCEPT ![x][o] = IF @ = "open" THEN "twice" ELSE "open"]

Reject(x, o) ==
  /\ ~Stored(x, o)
  /\ rows' = IF Admits(x) THEN [rows EXCEPT ![x][o] = "failed"] ELSE rows

-----------------------------------------------------------------------------
(***************************************************************************)
(* A cron job: a task that sleeps until it is due, hands in its transaction, *)
(* records that it did, and sleeps for an interval.                          *)
(***************************************************************************)
\* Mutant: a first start leaves no anchor.
AnchorNever(j) == UNCHANGED lastRan

Anchor(j) == lastRan' = [lastRan EXCEPT ![j] = clock]

Wait(j, t) ==
  /\ stage' = [stage EXCEPT ![j] = "waiting"]
  /\ due' = [due EXCEPT ![j] = t]

\* Mutant: after a restart every job is due at once.
NextRunNow(j) == clock

NextRun(j) == Later(clock, lastRan[j] + Interval[j])

\* next_cron_job_delay.
StartJob(j) ==
  /\ up /\ stage[j] = "off"
  /\ \/ /\ lastRan[j] # None
        /\ Wait(j, NextRun(j))
        /\ UNCHANGED <<lastRan, unmarked>>
     \/ /\ lastRan[j] = None /\ j \in runOnStartup
        /\ Wait(j, clock)
        /\ UNCHANGED <<lastRan, unmarked>>
     \/ /\ lastRan[j] = None /\ j \notin runOnStartup
        /\ Wait(j, clock + Interval[j])
        /\ \/ Anchor(j) /\ UNCHANGED unmarked
           \/ unmarked' = unmarked \cup {j} /\ UNCHANGED lastRan
     \/ /\ Wait(j, clock + Interval[j])
        /\ unmarked' = unmarked \cup {j}
        /\ UNCHANGED lastRan
  /\ since' = [since EXCEPT ![j] = IF @ = None THEN clock ELSE @]
  /\ UNCHANGED <<config, clock, up, stops, world, rows, lastMade, topUpVars, reported>>

\* No relayer fits, or add_transaction returned an error: another interval.
Skip(j) ==
  /\ Wait(j, clock + Interval[j])
  /\ UNCHANGED <<lastMade, reported>>

Made(j) ==
  /\ stage' = [stage EXCEPT ![j] = "mark"]
  /\ UNCHANGED due

\* enqueue_cron_job_transaction, up to the answer of add_transaction.
RunJob(j) ==
  /\ up /\ stage[j] = "waiting" /\ clock >= due[j]
  /\ since' = [since EXCEPT ![j] = clock]
  /\ \/ Skip(j) /\ UNCHANGED rows
     \/ \E x \in MayRun[j] \cap (live \ paused) :
          \/ /\ j \in keyed /\ Stored(x, j)
             /\ Made(j)
             /\ Report(x, j)
             /\ UNCHANGED <<rows, lastMade>>
          \/ /\ IF j \in keyed THEN Admit(x, j) ELSE Admits(x) /\ UNCHANGED rows
             /\ Made(j)
             /\ lastMade' = [lastMade EXCEPT ![j] = clock]
             /\ UNCHANGED reported
          \/ j \in keyed /\ Reject(x, j) /\ Skip(j)
  /\ UNCHANGED <<config, clock, up, stops, world, lastRan, unmarked, topUpVars>>

Mark(j) ==
  /\ up /\ stage[j] = "mark"
  /\ \/ /\ lastRan' = [lastRan EXCEPT ![j] = clock]
        /\ unmarked' = unmarked \ {j}
     \/ UNCHANGED lastRan /\ unmarked' = unmarked \cup {j}
  /\ Wait(j, clock + Interval[j])
  /\ since' = [since EXCEPT ![j] = clock]
  /\ UNCHANGED <<config, clock, up, stops, world, rows, lastMade, topUpVars, reported>>

-----------------------------------------------------------------------------
(***************************************************************************)
(* The top-up task: one select loop that refreshes its relayer cache and     *)
(* checks the balances.                                                     *)
(***************************************************************************)
\* A failed query leaves the cache as it was.
Refresh(c) ==
  /\ up /\ round = NoRound
  /\ known' = [known EXCEPT ![c] = LiveOn(c)]
  /\ UNCHANGED <<config, clock, up, stops, world, rows, cronVars, round, reported>>

\* The registered relayers but the payer, those whose balance could be read and was low.
Needy(c, s) == {a \in Address \ {Payer} : /\ [chain |-> c, asset |-> s, to |-> a] \in low
                                         /\ \E x \in LiveOn(c) : AddressOf[x] = a}

\* What one pass over the balances may find: a balance that cannot be read is left out.
Short(c, s) == SUBSET Needy(c, s) \ {{}}

\* check_and_top_up_addresses: one configuration and asset after the other, up to the first
\* transfer; a payer that cannot afford all of them ends the round.
Check(c, s) ==
  /\ up /\ round = NoRound
  /\ \E needy \in Short(c, s) : round' = [chain |-> c, asset |-> s, needy |-> needy]
  /\ UNCHANGED <<config, clock, up, stops, world, rows, cronVars, known, reported>>

\* The relayer cache is searched over all chains, the table on the chain of the round.
Sources(c) ==
  LET cached == {x \in UNION {known[d] : d \in Chain} : AddressOf[x] = Payer}
  IN IF cached # {} THEN cached ELSE {x \in LiveOn(c) : AddressOf[x] = Payer}

\* The loops over the addresses go on after a failed transfer.
NextNeedy(a) ==
  round' = IF round.needy = {a} THEN NoRound ELSE [round EXCEPT !.needy = @ \ {a}]

\* The end of a transfer: whatever add_transaction answers with is taken for a top-up.
HandsIn(x, o) ==
  \/ Stored(x, o) /\ Report(x, o) /\ UNCHANGED rows
  \/ (Admit(x, o) \/ Reject(x, o)) /\ UNCHANGED reported

\* send_native_top_up_transaction for one address: it must still be a relayer.  A transfer
\* through a Safe always ends in an error before anything is handed in.
Transfer(a) ==
  /\ up /\ a \in round.needy
  /\ \/ UNCHANGED <<rows, reported>>
     \/ /\ \E x \in LiveOn(round.chain) : AddressOf[x] = a
        /\ \E x \in Sources(round.chain) : HandsIn(x, [asset |-> round.asset, to |-> a])
  /\ NextNeedy(a)
  /\ UNCHANGED <<config, clock, up, stops, world, cronVars, known>>

-----------------------------------------------------------------------------
(***************************************************************************)
(* The rest of the world.                                                   *)
(***************************************************************************)
Tick ==
  /\ clock < MaxClock
  /\ clock' = clock + 1
  /\ UNCHANGED <<config, up, stops, world, rows, cronVars, topUpVars, reported>>

\* The queue settles a transaction; a confirmed top-up refills its address.
Settle(x, o) ==
  /\ rows[x][o] \in {"open", "twice"}
  /\ \/ rows' = [rows EXCEPT ![x][o] = "failed"] /\ UNCHANGED low
     \/ /\ rows' = [rows EXCEPT ![x][o] = "confirmed"]
        /\ low' = IF o \in TopUp THEN low \ {[chain |-> ChainOf[x], asset |-> o.asset, to |-> o.to]} ELSE low
  /\ UNCHANGED <<config, clock, up, stops, live, paused, cronVars, topUpVars, reported>>

Spend(c, o) ==
  /\ \E x \in LiveOn(c) : AddressOf[x] = o.to
  /\ low' = low \cup {[chain |-> c, asset |-> o.asset, to |-> o.to]}
  /\ UNCHANGED <<config, clock, up, stops, live, paused, rows, cronVars, topUpVars, reported>>

Delete(x) ==
  /\ live' = live \ {x}
  /\ UNCHANGED <<config, clock, up, stops, paused, low, rows, cronVars, topUpVars, reported>>

Pause(x) ==
  /\ paused' = IF x \in paused THEN paused \ {x} ELSE paused \cup {x}
  /\ UNCHANGED <<config, clock, up, stops, live, low, rows, cronVars, topUpVars, reported>>

Boot ==
  /\ ~up /\ up' = TRUE
  /\ UNCHANGED <<config, clock, stops, world, rows, cronVars, topUpVars, reported>>

\* What the tasks hold in memory is gone; a job that was not marked yet stays behind.
Stop ==
  /\ up /\ stops < MaxStops
  /\ up' = FALSE /\ stops' = stops + 1
  /\ unmarked' = unmarked \cup {j \in Job : stage[j] = "mark"}
  /\ stage' = [j \in Job |-> "off"]
  /\ due' = [j \in Job |-> 0]
  /\ known' = [c \in Chain |-> {}]
  /\ round' = NoRound
  /\ UNCHANGED <<config, clock, world, rows, lastRan, lastMade, since, reported>>

Next ==
  \/ Tick \/ Boot \/ Stop
  \/ \E j \in Job : StartJob(j) \/ RunJob(j) \/ Mark(j)
  \/ \E c \in Chain : Refresh(c) \/ (\E s \in Asset : Check(c, s)) \/ (\E o \in TopUp : Spend(c, o))
  \/ \E a \in Address : Transfer(a)
  \/ \E x \in Managed : Delete(x) \/ Pause(x)
  \/ \E x \in Relayer, o \in Owner : Settle(x, o)

Spec == Init /\ [][Next]_vars

-----------------------------------------------------------------------------
(***************************************************************************)
(* Properties.                                                              *)
(***************************************************************************)
Status == {"none", "open", "twice", "confirmed", "failed"}

\* The state has the shape of the Rust types.
TypeOK ==
  /\ clock \in 0..MaxClock /\ up \in BOOLEAN
  /\ live \subseteq Relayer /\ paused \subseteq Relayer
  /\ rows \in [Relayer -> [Owner -> Status]]
  /\ \A j \in Job :
       /\ stage[j] \in {"off", "waiting", "mark"}
       /\ stage[j] # "off" => up /\ since[j] # None
       /\ lastRan[j] = None \/ lastRan[j] <= clock
  /\ \A c \in Chain : \A x \in known[c] : ChainOf[x] = c
  /\ Payer \notin round.needy

\* Two transactions of a job are an interval apart, across restarts too: the state in the
\* database is written after the transaction was admitted, so a job whose state could not
\* be written or read may run again early, and no other.
RunsSpaced ==
  [][\A j \in Job :
       lastMade'[j] # lastMade[j] /\ lastMade[j] # None
         => j \in unmarked \/ clock >= lastMade[j] + Interval[j]]_vars

\* Restarts do not postpone a job: unless the database failed it, a job that goes to sleep
\* goes on an interval after it last tried (or was first seen), or at once if that has
\* passed while the process was down (the schedule anchor of next_cron_job_delay).
NotPostponed ==
  [][\A j \in Job :
       stage[j] = "off" /\ stage'[j] = "waiting" /\ since[j] # None /\ j \notin unmarked'
         => due'[j] <= Later(clock, since[j] + Interval[j])]_vars

\* While a top-up of an address, or a job's transaction with an external id, is on its way
\* no second one is queued at its relayer, although a check every 30 seconds still finds
\* the balance low.
OneOnItsWay == \A x \in Relayer, o \in Owner : rows[x][o] # "twice"

\* What a task reports as queued ("Topped up address", "Cron job queued transaction") is
\* on its way: the next round tops an address up again.
ReportedMeansQueued == reported = {}
=============================================================================
