------------------------------ MODULE Webhooks ------------------------------
(***************************************************************************)
(* Webhook delivery: the WebhookManager behind a tokio mutex (webhooks/       *)
(* manager.rs), the WebhookSender (webhooks/sender.rs) and the background     *)
(* task that retries and sweeps (background_tasks/webhook_manager_task.rs).   *)
(*                                                                          *)
(* An Event is something the relayer reports: a transaction that changed     *)
(* status, a signature, a low balance.  Whoever reports it locks the manager, *)
(* inserts one delivery per interested endpoint into the pending map, and     *)
(* spawns a round that works without the manager's mutex.  A round copies the *)
(* ready deliveries, posts each copy, and writes the copies back over        *)
(* whatever the map holds then; rounds overlap.  The task runs rounds too,    *)
(* and takes the mutex only when it is free at that moment (try_lock).        *)
(***************************************************************************)
EXTENDS Naturals, FiniteSets

CONSTANTS
  Event,
  Config,       \* the configured endpoints
  Network,
  NetworksOf,   \* networks of each endpoint, {} for all
  AlertsOn,     \* endpoints with alert_on_low_balances
  MaxRetries,   \* max_retries of each endpoint
  LowBalance,   \* the events of the balance monitor
  ChainOf,      \* the network of each event
  Task,         \* the background task
  Answers,      \* what a post may end in: "2xx", "other" (any other status, or no
                \* connection), or "lost", taken but not answered in time
  Free,
  NoCopy

ASSUME WebhooksAssumption ==
  /\ NetworksOf \in [Config -> SUBSET Network]
  /\ AlertsOn \subseteq Config
  /\ MaxRetries \in [Config -> Nat]
  /\ LowBalance \subseteq Event
  /\ ChainOf \in [Event -> Network]
  /\ Answers \subseteq {"2xx", "other", "lost"}
  /\ Task \notin Event /\ Free \notin Event \cup {Task}

Delivery == [event : Event, config : Config]
Round == Event \cup {Task}

Tries(d) == MaxRetries[d.config]

\* A WebhookDelivery: neither completed nor failed is open.
Entry == [attempts : Nat, state : {"open", "completed", "failed"}]

\* A round's clone of one, and how far send_webhook is with it.
Copy == [entry : Entry, step : {"log", "post", "record", "done"}]

ASSUME NoCopyAssumption == NoCopy \notin Entry \cup Copy

RowStatus == {"none", "PENDING", "DELIVERED", "FAILED", "ABANDONED"}

VARIABLES
  alive,
  named,    \* update_network_names has run
  caller,   \* where the report of each event is
  mutex,    \* the holder of Arc<Mutex<WebhookManager>>
  pending,  \* pending_deliveries
  backoff,  \* deliveries of pending whose next_retry_at is not reached
  phase,    \* where each round is
  copies,   \* the deliveries a round works on
  record,   \* webhook.delivery_history: the status of each row
  accepted, \* (history) deliveries an endpoint has taken
  queued,   \* (history) deliveries that were put into the map
  refused  \* (history) failed posts of each delivery, counted up to its tries

vars == <<alive, named, caller, mutex, pending, backoff, phase, copies, record,
          accepted, queued, refused>>
mapVars == <<pending, backoff, queued>>
roundVars == <<phase, copies>>
rowVars == <<record, accepted, refused>>

New == [attempts |-> 0, state |-> "open"]
NoCopies == [d \in Delivery |-> NoCopy]

Init ==
  /\ alive = TRUE
  /\ named = FALSE
  /\ caller = [e \in Event |-> "out"]
  /\ mutex = Free
  /\ pending = NoCopies
  /\ backoff = {}
  /\ phase = [r \in Round |-> "idle"]
  /\ copies = [r \in Round |-> NoCopies]
  /\ record = [d \in Delivery |-> "none"]
  /\ accepted = {}
  /\ queued = {}
  /\ refused = [d \in Delivery |-> 0]

ShouldRetry(d, entry) == entry.state = "open" /\ entry.attempts < Tries(d)

Ready == {d \in Delivery : pending[d] # NoCopy /\ d \notin backoff /\ ShouldRetry(d, pending[d])}

-----------------------------------------------------------------------------
(***************************************************************************)
(* Reports.  tokio's mutex hands itself to a waiter when it is released, so  *)
(* a try_lock right after a release fails when somebody waits.               *)
(***************************************************************************)
Waiting == {e \in Event : caller[e] = "waiting"}

HandOver ==
  IF Waiting = {} THEN mutex' = Free ELSE mutex' \in Waiting

\* The name of a chain is its id until the task has named the networks, so an endpoint
\* that lists networks is not reached before.
Interested(e) ==
  {c \in Config : /\ e \in LowBalance => c \in AlertsOn
                  /\ NetworksOf[c] = {} \/ (named /\ ChainOf[e] \in NetworksOf[c])}

DeliveriesOf(e) == [event : {e}, config : Interested(e)]

NameNetworks ==
  /\ alive /\ ~named /\ mutex = Free
  /\ named' = TRUE
  /\ UNCHANGED <<alive, caller, mutex, mapVars, roundVars, rowVars>>

\* A report reaches the manager's mutex.
Report(e) ==
  /\ alive /\ caller[e] = "out"
  /\ caller' = [caller EXCEPT ![e] = "waiting"]
  /\ mutex' = IF mutex = Free THEN e ELSE mutex
  /\ UNCHANGED <<alive, named, mapVars, roundVars, rowVars>>

Queue(e) ==
  /\ alive /\ mutex = e
  /\ caller' = [caller EXCEPT ![e] = "done"]
  /\ pending' = [d \in Delivery |-> IF d \in DeliveriesOf(e) THEN New ELSE pending[d]]
  /\ phase' = [phase EXCEPT ![e] = IF DeliveriesOf(e) = {} THEN "idle" ELSE "spawned"]
  /\ queued' = queued \cup DeliveriesOf(e)
  /\ IF Waiting = {e} THEN mutex' = Free ELSE mutex' \in Waiting \ {e}
  /\ UNCHANGED <<alive, named, backoff, copies, rowVars>>

-----------------------------------------------------------------------------
(***************************************************************************)
(* Rounds.                                                                  *)
(***************************************************************************)
ToSend(d) ==
  [entry |-> pending[d], step |-> IF pending[d].attempts = 0 THEN "log" ELSE "post"]

Snapshot == [d \in Delivery |-> IF d \in Ready THEN ToSend(d) ELSE NoCopy]

\* process_ready_deliveries of the round a report spawned.
Start(e) ==
  /\ alive /\ phase[e] = "spawned"
  /\ phase' = [phase EXCEPT ![e] = IF Ready = {} THEN "idle" ELSE "sending"]
  /\ copies' = [copies EXCEPT ![e] = Snapshot]
  /\ UNCHANGED <<alive, named, caller, mutex, mapVars, rowVars>>

Working(r) == {d \in Delivery : copies[r][d] # NoCopy}

Done(r) == \A d \in Working(r) : copies[r][d].step = "done"


\* Whether the next try of a copy is due already depends on how long the round took.
Overwrite(r) ==
  /\ pending' = [d \in Delivery |-> IF d \in Working(r) THEN copies[r][d].entry ELSE pending[d]]
  /\ \E later \in SUBSET {d \in Working(r) : copies[r][d].entry.state = "open"} :
       backoff' = (backoff \ Working(r)) \cup later
  /\ UNCHANGED queued

End(r) ==
  /\ phase' = [phase EXCEPT ![r] = "idle"]
  /\ copies' = [copies EXCEPT ![r] = NoCopies]

WriteBack(e) ==
  /\ alive /\ phase[e] = "sending" /\ Done(e)
  /\ Overwrite(e)
  /\ End(e)
  /\ UNCHANGED <<alive, named, caller, mutex, rowVars>>

-----------------------------------------------------------------------------
(***************************************************************************)
(* send_webhook, in a task of its own for each copy of a round.  What it     *)
(* logs may fail: it only warns.                                            *)
(***************************************************************************)
Sending(r, d, step) ==
  /\ alive /\ phase[r] = "sending" /\ d \in Working(r) /\ copies[r][d].step = step
  /\ UNCHANGED <<alive, named, caller, mutex, mapVars, phase>>

LogInitial(r, d) ==
  /\ Sending(r, d, "log")
  /\ \/ record[d] = "none" /\ record' = [record EXCEPT ![d] = "PENDING"]
     \/ UNCHANGED record
  /\ copies' = [copies EXCEPT ![r][d].step = "post"]
  /\ UNCHANGED <<accepted, refused>>

\* Mutant: the attempt that failed is not counted.
FailedUncounted(d, entry) == [entry EXCEPT !.state = IF ShouldRetry(d, entry) THEN "open" ELSE "failed"]

Failed(d, entry) ==
  LET tried == [entry EXCEPT !.attempts = @ + 1]
  IN [tried EXCEPT !.state = IF ShouldRetry(d, tried) THEN "open" ELSE "failed"]

Tried(d, entry, answer) ==
  IF answer = "2xx" THEN [entry EXCEPT !.state = "completed"] ELSE Failed(d, entry)

Post(r, d, answer) ==
  /\ Sending(r, d, "post")
  /\ copies' = [copies EXCEPT ![r][d] = [entry |-> Tried(d, @.entry, answer), step |-> "record"]]
  /\ accepted' = IF answer \in {"2xx", "lost"} THEN accepted \cup {d} ELSE accepted
  /\ refused' = [refused EXCEPT ![d] = IF answer # "2xx" /\ @ < Tries(d) THEN @ + 1 ELSE @]
  /\ UNCHANGED record

\* Mutant: a permanent failure is told from how often the endpoint may be tried.
OutcomeUncounted(d, entry) ==
  IF entry.state = "completed" THEN "DELIVERED" ELSE "ABANDONED"

Outcome(d, entry) ==
  CASE entry.state = "completed" -> "DELIVERED"
    [] entry.state = "failed" -> "ABANDONED"
    [] entry.state = "open" -> "FAILED"

\* An UPDATE: without the row of log_initial there is nothing to update.
LogOutcome(r, d) ==
  /\ Sending(r, d, "record")
  /\ \/ /\ record[d] # "none"
        /\ record' = [record EXCEPT ![d] = Outcome(d, copies[r][d].entry)]
     \/ UNCHANGED record
  /\ copies' = [copies EXCEPT ![r][d].step = "done"]
  /\ UNCHANGED <<accepted, refused>>

-----------------------------------------------------------------------------
(***************************************************************************)
(* The background task: a round every 30 seconds, a sweep every five minutes. *)
(***************************************************************************)
\* The copies are taken under one try_lock ...
Pick ==
  /\ alive /\ phase[Task] = "idle" /\ mutex = Free /\ Ready # {}
  /\ phase' = [phase EXCEPT ![Task] = "picked"]
  /\ copies' = [copies EXCEPT ![Task] = Snapshot]
  /\ UNCHANGED <<alive, named, caller, mutex, mapVars, rowVars>>

\* ... sent under a second one, which keeps every report waiting ...
Take ==
  /\ alive /\ phase[Task] = "picked"
  /\ IF mutex = Free
     THEN /\ mutex' = Task
          /\ phase' = [phase EXCEPT ![Task] = "sending"]
          /\ UNCHANGED copies
     ELSE End(Task) /\ UNCHANGED mutex
  /\ UNCHANGED <<alive, named, caller, mapVars, rowVars>>

Release ==
  /\ alive /\ phase[Task] = "sending" /\ Done(Task)
  /\ HandOver
  /\ phase' = [phase EXCEPT ![Task] = "sent"]
  /\ UNCHANGED <<alive, named, caller, mapVars, copies, rowVars>>

\* ... and written back under a third: if that one fails the map never hears of the posts.
TaskWriteBack ==
  /\ alive /\ phase[Task] = "sent"
  /\ IF mutex = Free THEN Overwrite(Task) ELSE UNCHANGED mapVars
  /\ End(Task)
  /\ UNCHANGED <<alive, named, caller, mutex, rowVars>>

\* Mutant: every delivery that has been tried is swept.
SweptWhenTried(d) == pending[d] # NoCopy /\ pending[d].attempts > 0

Swept(d) == pending[d] # NoCopy /\ pending[d].state # "open"

\* The sweep is an arm of the same select loop as the rounds of the task.
Sweep ==
  /\ alive /\ mutex = Free /\ phase[Task] = "idle"
  /\ \E d \in Delivery : Swept(d)
  /\ pending' = [d \in Delivery |-> IF Swept(d) THEN NoCopy ELSE pending[d]]
  /\ backoff' = {d \in backoff : ~Swept(d)}
  /\ UNCHANGED <<alive, named, caller, mutex, queued, roundVars, rowVars>>

\* next_retry_at is reached.
Due(d) ==
  /\ alive /\ d \in backoff
  /\ backoff' = backoff \ {d}
  /\ UNCHANGED <<alive, named, caller, mutex, pending, queued, roundVars, rowVars>>

\* The process ends.  Nothing reads delivery_history back, so what is pending is gone.
Stop ==
  /\ alive
  /\ alive' = FALSE
  /\ mutex' = Free
  /\ caller' = [e \in Event |-> "out"]
  /\ pending' = NoCopies
  /\ backoff' = {}
  /\ phase' = [r \in Round |-> "idle"]
  /\ copies' = [r \in Round |-> NoCopies]
  /\ UNCHANGED <<named, queued, rowVars>>

Send(r, d) ==
  LogInitial(r, d) \/ LogOutcome(r, d) \/ \E answer \in Answers : Post(r, d, answer)

Next ==
  \/ NameNetworks \/ Pick \/ Take \/ Release \/ TaskWriteBack \/ Sweep \/ Stop
  \/ \E e \in Event : Report(e) \/ Queue(e) \/ Start(e) \/ WriteBack(e)
  \/ \E r \in Round, d \in Delivery : Send(r, d)
  \/ \E d \in Delivery : Due(d)

Spec == Init /\ [][Next]_vars

\* Futures that can go on do: the runtime polls them, requests time out after 30 seconds,
\* and the intervals of the task keep ticking.
Fairness ==
  /\ WF_vars(Pick) /\ WF_vars(Take) /\ WF_vars(Release) /\ WF_vars(TaskWriteBack) /\ WF_vars(Sweep)
  /\ \A e \in Event : WF_vars(Queue(e)) /\ WF_vars(Start(e)) /\ WF_vars(WriteBack(e))
  /\ \A r \in Round, d \in Delivery : WF_vars(Send(r, d))
  /\ \A d \in Delivery : WF_vars(Due(d))

FairSpec == Spec /\ Fairness

-----------------------------------------------------------------------------
(***************************************************************************)
(* Properties.                                                              *)
(***************************************************************************)
\* The state has the shape of the Rust types, and nobody works on more tries than max_retries.
TypeOK ==
  /\ alive \in BOOLEAN /\ named \in BOOLEAN
  /\ caller \in [Event -> {"out", "waiting", "done"}]
  /\ mutex \in Event \cup {Task, Free}
  /\ pending \in [Delivery -> {NoCopy} \cup Entry]
  /\ backoff \subseteq {d \in Delivery : pending[d] # NoCopy}
  /\ phase \in [Round -> {"idle", "spawned", "picked", "sending", "sent"}]
  /\ copies \in [Round -> [Delivery -> {NoCopy} \cup Copy]]
  /\ \A r \in Round : \A d \in Working(r) : copies[r][d].entry.attempts <= Tries(d)
  /\ record \in [Delivery -> RowStatus]
  /\ accepted \subseteq Delivery /\ queued \subseteq Delivery
  /\ refused \in [Delivery -> Nat]
  /\ \A d \in Delivery : refused[d] <= Tries(d)

HasTried(d) == d \in accepted \/ refused[d] = Tries(d)

\* While the process runs, a reported delivery leaves the pending map only when an endpoint
\* took it or refused it max_retries times, whatever stale copies overlapping rounds write
\* over each other (process_ready_deliveries against cleanup_webhook_deliveries).
NothingForgotten ==
  \A d \in queued : alive /\ pending[d] = NoCopy => HasTried(d)

\* The history table never claims what did not happen: DELIVERED is a post some round saw
\* taken, ABANDONED max_retries failed posts (log_webhook_success, log_webhook_failure).
HistoryTruthful ==
  \A d \in Delivery :
    /\ record[d] = "DELIVERED" => d \in accepted
    /\ record[d] = "ABANDONED" => refused[d] = Tries(d)

\* Every delivery of a report to an endpoint with max_retries >= 1 is taken or tried
\* max_retries times and then leaves the map, unless the process ends: overlapping rounds,
\* lost write-backs and the task's failed try_locks only delay it.
EveryDeliverySettles ==
  \A d \in Delivery :
    pending[d] # NoCopy /\ Tries(d) > 0 ~> ~alive \/ (HasTried(d) /\ pending[d] = NoCopy)
=============================================================================
