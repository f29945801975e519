------------------------------ MODULE Relayers ------------------------------
(***************************************************************************)
(* The relayers of the server (relayer/): the rows of relayer.record, the    *)
(* cache of relayers in front of them, and the settings their queues were    *)
(* built with.  A request creates, clones, imports, deletes or changes a      *)
(* relayer; its handler is a future that is dropped when the client hangs up. *)
(* A statement that a dropped handler had sent may still take effect later.   *)
(* A reader is any handler that looks a relayer up through the cache.        *)
(*                                                                          *)
(* A request's own name is the id of the relayer it makes.                   *)
(***************************************************************************)
EXTENDS Integers, FiniteSets, FiniteSetsExt

CONSTANTS
  Request,
  Seed,       \* ids of the relayers that are there at first
  SeedRow,    \* their rows
  Reader,
  Chain,
  ImportKey,  \* addresses of keys that can be imported
  Wanted,     \* what an administrator may ask for
  NoRelayer,
  Nobody

Id == Seed \cup Request

\* max_gas_price_cap is TRUE when there is a cap.
Setting == {"paused", "eip_1559_enabled", "max_gas_price_cap"}
Settings == [Setting -> BOOLEAN]

\* An address is the wallet index it is derived from, or an imported key.
Row == [chain : Chain, index : Int, address : Int \cup ImportKey, is_private_key : BOOLEAN,
        cloned : BOOLEAN, deleted : BOOLEAN, settings : Settings]

\* What a queue keeps of the settings of its relayer.
QueueSettings == [is_paused : BOOLEAN, is_legacy : BOOLEAN, capped : BOOLEAN]

Ask == [op : {"create"}, chain : Chain]
         \cup [op : {"clone"}, chain : Chain, source : Id]
         \cup [op : {"import"}, chain : Chain, key : ImportKey]
         \cup [op : {"delete"}, id : Id]
         \cup [op : {"set"}, id : Id, setting : Setting, value : BOOLEAN]

ASSUME RelayersAssumption ==
  /\ Seed \cap Request = {}
  /\ SeedRow \in [Seed -> Row]
  /\ Wanted \subseteq Ask
  /\ Nobody \notin Request
  /\ NoRelayer \notin Row \cup Settings \cup QueueSettings
  /\ Seed # {} => \E top \in Seed : \A i \in Seed : SeedRow[i].index <= SeedRow[top].index

VARIABLES
  row,       \* relayer.record
  cache,     \* the settings each cached relayer was read with
  queue,     \* the settings of each queue in TransactionsQueues
  pc,
  ask,
  work,      \* what each request carries over an await: an index, a row, settings it read
  answer,
  holder,    \* of relayer_creation_mutex
  late,      \* requests that ended with a statement under way that may still take effect
  reading,   \* what each reader has read and not cached yet
  raced,     \* (history) relayers whose cache was invalidated while a look-up carried them
  abandoned, \* (history) relayers changed by a request that ended before it could invalidate
  unsettled, \* (history) relayers changed by overlapping requests, or by one cut off half way
  unstarted, \* (history) relayers whose queue was not started
  overtaken  \* (history) requests whose index was taken by a late insert after they had read it

tables == <<row, cache, queue>>
requestVars == <<pc, ask, work, answer, holder>>
history == <<raced, abandoned, unsettled, unstarted, overtaken>>
vars == <<tables, requestVars, late, reading, history>>

NoWork == [index |-> 0, row |-> NoRelayer, settings |-> NoRelayer]

Present(i) == row[i] # NoRelayer
Live(i) == Present(i) /\ ~row[i].deleted

\* Mutant: the queue is told what the row says.
QueueAsRow(settings) ==
  [is_paused |-> settings["paused"],
   is_legacy |-> settings["eip_1559_enabled"],
   capped |-> settings["max_gas_price_cap"]]

\* TransactionsQueue::new: legacy transactions are those without EIP-1559.
QueueOf(settings) ==
  [is_paused |-> settings["paused"],
   is_legacy |-> ~settings["eip_1559_enabled"],
   capped |-> settings["max_gas_price_cap"]]

QueueOfRow(i) == IF Live(i) THEN QueueOf(row[i].settings) ELSE NoRelayer

Init ==
  /\ row = [i \in Id |-> IF i \in Seed THEN SeedRow[i] ELSE NoRelayer]
  /\ cache = [i \in Id |-> NoRelayer]
  /\ queue = [i \in Id |-> QueueOfRow(i)]
  /\ pc = [a \in Request |-> "out"]
  /\ ask = [a \in Request |-> Nobody]
  /\ work = [a \in Request |-> NoWork]
  /\ answer = [a \in Request |-> "none"]
  /\ holder = Nobody
  /\ reading = [r \in Reader |-> Nobody]
  /\ late = {}
  /\ raced = {} /\ abandoned = {} /\ unsettled = {} /\ unstarted = {} /\ overtaken = {}

-----------------------------------------------------------------------------
Goto(a, from, to) ==
  /\ pc[a] = from
  /\ pc' = [pc EXCEPT ![a] = to]

Leave(a, what) ==
  /\ pc' = [pc EXCEPT ![a] = "done"]
  /\ answer' = [answer EXCEPT ![a] = what]
  /\ holder' = IF holder = a THEN Nobody ELSE holder
  /\ UNCHANGED <<ask, work>>

\* A request is at work on the relayer it names, or on the one whose row it has inserted.
On(a, i) ==
  /\ pc[a] \notin {"out", "done"}
  /\ \/ ask[a].op \in {"delete", "set"} /\ ask[a].id = i
     \/ i = a /\ pc[a] \in {"read_back", "start"}

Overlap(a, i) == \E b \in Request \ {a} : On(b, i)
Mark(a, i) == unsettled' = IF Overlap(a, i) THEN unsettled \cup {i} ELSE unsettled

FirstStep(op) ==
  CASE op = "create" -> "lock"
    [] op = "clone" -> "source"
    [] op = "import" -> "check"
    [] op = "delete" -> "delete"
    [] op = "set" -> "exists"

Arrive(a, d) ==
  /\ Goto(a, "out", FirstStep(d.op))
  /\ ask' = [ask EXCEPT ![a] = d]
  /\ IF d.op \in {"delete", "set"} THEN Mark(a, d.id) ELSE UNCHANGED unsettled
  /\ UNCHANGED <<tables, work, answer, holder, late, reading, raced, abandoned, unstarted, overtaken>>

-----------------------------------------------------------------------------
(***************************************************************************)
(* New relayers.                                                            *)
(***************************************************************************)
\* import_relayer looks for the address before it waits for the mutex.
CheckDuplicate(a) ==
  /\ pc[a] = "check"
  /\ IF \E i \in Id : Live(i) /\ row[i].chain = ask[a].chain /\ row[i].address = ask[a].key
     THEN Leave(a, "conflict")
     ELSE Goto(a, "check", "lock") /\ UNCHANGED <<ask, work, answer, holder>>
  /\ UNCHANGED <<tables, late, reading, history>>

\* Mutant: the import does not wait for creations.
LockUnlessImport(a) ==
  /\ Goto(a, "lock", "allocate")
  /\ holder = Nobody \/ ask[a].op = "import"
  /\ holder' = IF ask[a].op = "import" THEN holder ELSE a
  /\ UNCHANGED <<tables, ask, work, answer, late, reading, history>>

Lock(a) ==
  /\ Goto(a, "lock", "allocate")
  /\ holder = Nobody
  /\ holder' = a
  /\ UNCHANGED <<tables, ask, work, answer, late, reading, history>>

\* get_next_wallet_index of an import counts every live row, next_normal_wallet_index_sql
\* of a creation those of derived wallets.
Counted(a) ==
  {i \in Id : /\ Live(i) /\ row[i].chain = ask[a].chain
              /\ ask[a].op = "create" => ~row[i].is_private_key /\ row[i].index >= 0}

\* COALESCE(MAX(wallet_index), -1) + 1.
NextIndex(a) ==
  IF Counted(a) = {} THEN 0 ELSE Max({row[i].index : i \in Counted(a)}) + 1

\* A creation waits for the advisory lock of its chain, which a creation that ended with its
\* COMMIT under way still holds; an import takes no lock.
Allocate(a) ==
  /\ Goto(a, "allocate", "insert")
  /\ ask[a].op = "create" =>
       ~\E b \in late : ask[b].op = "create" /\ ask[b].chain = ask[a].chain
  /\ work' = [work EXCEPT ![a].index = NextIndex(a)]
  /\ UNCHANGED <<tables, ask, answer, holder, late, reading, history>>

\* The key cannot be imported, the wallet not created (a panic), or the source not cloned.
CannotSign(a) ==
  /\ pc[a] = "insert"
  /\ Leave(a, "error")
  /\ UNCHANGED <<tables, late, reading, history>>

\* The source of a clone must be live, derived and no clone itself.
Cloneable(i) == Live(i) /\ ~row[i].is_private_key /\ ~row[i].cloned

ReadSource(a) ==
  /\ pc[a] = "source"
  /\ LET i == ask[a].source
     IN IF Cloneable(i)
        THEN /\ Goto(a, "source", "insert")
             /\ work' = [work EXCEPT ![a].row = row[i]]
             /\ UNCHANGED <<ask, answer, holder>>
        ELSE Leave(a, "refused")
  /\ UNCHANGED <<tables, late, reading, history>>

NewRow(a) ==
  [chain |-> ask[a].chain,
   index |-> IF ask[a].op = "clone" THEN work[a].row.index ELSE work[a].index,
   address |-> CASE ask[a].op = "clone" -> work[a].row.address
                 [] ask[a].op = "import" -> ask[a].key
                 [] ask[a].op = "create" -> work[a].index,
   is_private_key |-> FALSE,
   cloned |-> ask[a].op = "clone",
   deleted |-> FALSE,
   settings |-> IF ask[a].op = "clone" THEN work[a].row.settings
                ELSE [f \in Setting |-> f = "eip_1559_enabled"]]

\* The unique index over (chain_id, wallet_index) of live root rows with derived wallets.
IndexTaken(n) ==
  \E i \in Id : /\ Live(i) /\ ~row[i].cloned /\ ~row[i].is_private_key
                /\ row[i].chain = n.chain /\ row[i].index = n.index /\ n.index >= 0

\* A creation writes its address into every row of the chain with its index, clones and
\* deleted rows included.
Inserted(a) ==
  LET n == NewRow(a)
  IN [i \in Id |->
        IF i = a THEN n
        ELSE IF ask[a].op = "create" /\ Present(i) /\ row[i].chain = n.chain /\ row[i].index = n.index
             THEN [row[i] EXCEPT !.address = n.address]
             ELSE row[i]]

Insert(a) ==
  /\ pc[a] = "insert"
  /\ IF ~NewRow(a).cloned /\ IndexTaken(NewRow(a))
     THEN /\ Leave(a, "index_taken")
          /\ UNCHANGED <<row, unsettled>>
     ELSE /\ Goto(a, "insert", "read_back")
          /\ row' = Inserted(a)
          /\ Mark(a, a)
          /\ UNCHANGED <<ask, work, answer, holder>>
  /\ UNCHANGED <<cache, queue, late, reading, raced, abandoned, unstarted, overtaken>>

Carried(i) ==
  \/ \E r \in Reader : reading[r] # Nobody /\ reading[r].id = i
  \/ \E a \in Request : pc[a] = "fill" /\ ask[a].id = i

Invalidate(i) ==
  /\ cache' = [cache EXCEPT ![i] = NoRelayer]
  /\ raced' = IF Carried(i) THEN raced \cup {i} ELSE raced \ {i}
  /\ abandoned' = abandoned \ {i}

\* The row is read back; one that was deleted meanwhile is an error.
ReadBack(a) ==
  /\ pc[a] = "read_back"
  /\ IF Live(a)
     THEN /\ Goto(a, "read_back", "start")
          /\ work' = [work EXCEPT ![a].settings = row[a].settings]
          /\ Invalidate(a)
          /\ UNCHANGED <<ask, answer, holder>>
     ELSE Leave(a, "error") /\ UNCHANGED <<cache, raced, abandoned>>
  /\ UNCHANGED <<row, queue, late, reading, unsettled, unstarted, overtaken>>

\* start_relayer_queue: the nonce of the chain, and a queue with the settings read before.
StartQueue(a) ==
  /\ pc[a] = "start"
  /\ queue' = [queue EXCEPT ![a] = QueueOf(work[a].settings)]
  /\ Invalidate(a)
  /\ Leave(a, "ok")
  /\ UNCHANGED <<row, late, reading, unsettled, unstarted, overtaken>>

NoNonce(a) ==
  /\ pc[a] = "start"
  /\ unstarted' = unstarted \cup {a}
  /\ Leave(a, "error")
  /\ UNCHANGED <<tables, late, reading, raced, abandoned, unsettled, overtaken>>

-----------------------------------------------------------------------------
(***************************************************************************)
(* Changes of a relayer: the row, then the cache, then the queue.            *)
(***************************************************************************)
\* relayer_exists goes through the cache, and fills it on a miss.
Exists(a) ==
  /\ pc[a] = "exists"
  /\ IF cache[ask[a].id] # NoRelayer
     THEN Goto(a, "exists", "update") /\ UNCHANGED work
     ELSE /\ Goto(a, "exists", "fill")
          /\ work' = [work EXCEPT ![a].settings =
                        IF Live(ask[a].id) THEN row[ask[a].id].settings ELSE NoRelayer]
  /\ UNCHANGED <<tables, ask, answer, holder, late, reading, history>>

Fill(a) ==
  /\ pc[a] = "fill"
  /\ cache' = [cache EXCEPT ![ask[a].id] = work[a].settings]
  /\ IF work[a].settings = NoRelayer
     THEN Leave(a, "not_found")
     ELSE Goto(a, "fill", "update") /\ UNCHANGED <<ask, work, answer, holder>>
  /\ UNCHANGED <<row, queue, late, reading, history>>

Changed(a) ==
  IF ~Present(ask[a].id) THEN row
  ELSE IF ask[a].op = "delete" THEN [row EXCEPT ![ask[a].id].deleted = TRUE]
  ELSE [row EXCEPT ![ask[a].id].settings[ask[a].setting] = ask[a].value]

\* delete_relayer does not look whether there is such a relayer.
Update(a) ==
  /\ pc[a] \in {"update", "delete"}
  /\ Goto(a, pc[a], "invalidate")
  /\ row' = Changed(a)
  /\ UNCHANGED <<cache, queue, ask, work, answer, holder, late, reading, history>>

\* Mutant: only a deletion invalidates the cache.
DropCachedOnDelete(a) ==
  IF ask[a].op = "delete" THEN Invalidate(ask[a].id) ELSE UNCHANGED <<cache, raced, abandoned>>

DropCached(a) == Invalidate(ask[a].id)

Forget(a) ==
  /\ Goto(a, "invalidate", "queue")
  /\ DropCached(a)
  /\ UNCHANGED <<row, queue, ask, work, answer, holder, late, reading, unsettled, unstarted, overtaken>>

\* set_is_paused, set_max_gas_price, set_is_legacy_transactions.
QueueChanged(q, setting, value) ==
  CASE setting = "paused" -> [q EXCEPT !.is_paused = value]
    [] setting = "eip_1559_enabled" -> [q EXCEPT !.is_legacy = ~value]
    [] setting = "max_gas_price_cap" -> [q EXCEPT !.capped = value]

\* Under the mutex of TransactionsQueues; a relayer without a queue is let be.
ChangeQueue(a) ==
  /\ pc[a] = "queue"
  /\ LET i == ask[a].id
     IN queue' = [queue EXCEPT ![i] =
                    IF ask[a].op = "delete" \/ @ = NoRelayer THEN NoRelayer
                    ELSE QueueChanged(@, ask[a].setting, ask[a].value)]
  /\ Leave(a, "ok")
  /\ UNCHANGED <<row, cache, late, reading, history>>

\* At these points a statement that cannot be taken back may be under way: the INSERT, the
\* COMMIT of a creation, an UPDATE.
Sent(a) == pc[a] \in {"insert", "update", "delete"}

\* The handler ends early: a statement fails or its client hangs up, at an await.  The mutex
\* is free at once, whatever becomes of a statement under way.
HangUp(a) ==
  /\ pc[a] \notin {"out", "done", "lock", "check", "source"}
  /\ Leave(a, "gone")
  /\ \/ UNCHANGED late
     \/ Sent(a) /\ late' = late \cup {a}
  /\ unstarted' = IF pc[a] \in {"read_back", "start"} THEN unstarted \cup {a} ELSE unstarted
  /\ unsettled' = IF pc[a] \in {"invalidate", "queue"} THEN unsettled \cup {ask[a].id} ELSE unsettled
  /\ abandoned' = IF pc[a] = "invalidate" THEN abandoned \cup {ask[a].id} ELSE abandoned
  /\ UNCHANGED <<tables, reading, raced, overtaken>>

\* A late UPDATE takes effect: nobody invalidates the cache or tells the queue.
LandChange(a) ==
  /\ ask[a].op \in {"delete", "set"}
  /\ row' = Changed(a)
  /\ unsettled' = unsettled \cup {ask[a].id}
  /\ abandoned' = abandoned \cup {ask[a].id}
  /\ UNCHANGED <<unstarted, overtaken>>

\* Those that have read the index of the row and are about to insert it themselves.  A creation
\* does both in one statement, and is refused as well by a row that comes in between.
Overtakes(a) ==
  {b \in Request : /\ pc[b] = "insert" /\ ask[b].op \in {"create", "import"}
                   /\ ask[b].chain = ask[a].chain /\ work[b].index = work[a].index}

\* A late INSERT takes effect, or is refused by the unique index: nobody starts a queue.
LandRow(a) ==
  /\ ask[a].op \in {"create", "clone", "import"}
  /\ IF ask[a].op # "clone" /\ IndexTaken(NewRow(a))
     THEN UNCHANGED <<row, unstarted, overtaken>>
     ELSE /\ row' = Inserted(a)
          /\ unstarted' = unstarted \cup {a}
          /\ overtaken' = IF ask[a].op = "clone" THEN overtaken ELSE overtaken \cup Overtakes(a)
  /\ UNCHANGED <<unsettled, abandoned>>

Land(a) ==
  /\ a \in late
  /\ late' = late \ {a}
  /\ LandChange(a) \/ LandRow(a)
  /\ UNCHANGED <<cache, queue, requestVars, reading, raced>>

-----------------------------------------------------------------------------
(***************************************************************************)
(* Readers, expiry and restarts.                                            *)
(***************************************************************************)
Read(r, i) ==
  /\ reading[r] = Nobody /\ cache[i] = NoRelayer /\ Live(i)
  /\ reading' = [reading EXCEPT ![r] = [id |-> i, settings |-> row[i].settings]]
  /\ UNCHANGED <<tables, requestVars, late, history>>

SetCached(r) ==
  /\ reading[r] # Nobody
  /\ cache' = [cache EXCEPT ![reading[r].id] = reading[r].settings]
  /\ reading' = [reading EXCEPT ![r] = Nobody]
  /\ UNCHANGED <<row, queue, requestVars, late, history>>

\* Ten minutes after it was inserted, whatever it says.
Expire(i) ==
  /\ cache[i] # NoRelayer
  /\ cache' = [cache EXCEPT ![i] = NoRelayer]
  /\ IF Carried(i) THEN UNCHANGED <<raced, abandoned>>
     ELSE raced' = raced \ {i} /\ abandoned' = abandoned \ {i}
  /\ UNCHANGED <<row, queue, requestVars, late, reading, unsettled, unstarted, overtaken>>

\* Startup builds a queue for every live row, but for the relayers it skips: those without a
\* provider and those whose rows it fails to repair.  They have none until another restart.
LoadedQueue(skipped) == [i \in Id |-> IF i \in skipped THEN NoRelayer ELSE QueueOfRow(i)]

\* A startup that an error ends is one more restart.  Statements under way when the process
\* stops may take effect later.
Restart ==
  /\ \E a \in Request : pc[a] = "out"
  /\ \E skipped \in SUBSET {i \in Id : Live(i)} : queue' = LoadedQueue(skipped) /\ unstarted' = skipped
  /\ \E sent \in SUBSET {a \in Request : Sent(a)} : late' = late \cup sent
  /\ cache' = [i \in Id |-> NoRelayer]
  /\ pc' = [a \in Request |-> IF pc[a] = "out" THEN "out" ELSE "done"]
  /\ answer' = [a \in Request |-> IF pc[a] \in {"out", "done"} THEN answer[a] ELSE "gone"]
  /\ holder' = Nobody
  /\ reading' = [r \in Reader |-> Nobody]
  /\ raced' = {} /\ abandoned' = {} /\ unsettled' = {}
  /\ UNCHANGED <<row, ask, work, overtaken>>

Step(a) ==
  \/ \E d \in Wanted : Arrive(a, d)
  \/ CheckDuplicate(a) \/ Lock(a) \/ Allocate(a) \/ CannotSign(a) \/ ReadSource(a)
  \/ Insert(a) \/ ReadBack(a) \/ StartQueue(a) \/ NoNonce(a)
  \/ Exists(a) \/ Fill(a) \/ Update(a) \/ Forget(a) \/ ChangeQueue(a)
  \/ HangUp(a)

Next ==
  \/ \E a \in Request : Step(a) \/ Land(a)
  \/ \E r \in Reader : SetCached(r) \/ \E i \in Id : Read(r, i)
  \/ \E i \in Id : Expire(i)
  \/ Restart

Spec == Init /\ [][Next]_vars

-----------------------------------------------------------------------------
(***************************************************************************)
(* Properties.                                                              *)
(***************************************************************************)
SettingsOrNone == {NoRelayer} \cup Settings

\* The state has the shape of the Rust types, and who creates or imports holds the mutex.
TypeOK ==
  /\ \A i \in Id : row[i] = NoRelayer \/ row[i] \in Row
  /\ cache \in [Id -> SettingsOrNone]
  /\ \A i \in Id : queue[i] \in {NoRelayer} \cup QueueSettings
  /\ pc \in [Request -> {"out", "check", "lock", "allocate", "source", "insert", "read_back", "start",
                         "exists", "fill", "update", "delete", "invalidate", "queue", "done"}]
  /\ \A a \in Request : pc[a] # "out" => ask[a] \in Ask \cup {Nobody}
  /\ holder \in Request \cup {Nobody}
  /\ \A a \in Request :
       /\ pc[a] \in {"allocate", "insert", "read_back", "start"}
       /\ ask[a].op \in {"create", "import"}
       => holder = a
  /\ late \subseteq Request /\ overtaken \subseteq Request
  /\ raced \cup abandoned \cup unsettled \cup unstarted \subseteq Id

\* The unique index refuses a creation or an import only when a late INSERT of a request that
\* had ended took its wallet index, after it was read and before it was inserted: whatever
\* else creations, imports and clones do in between, relayer_creation_mutex keeps the index
\* free for the one that read it.
IndexesNeverClash == \A a \in Request : answer[a] = "index_taken" => a \in overtaken

Quiet(i) == ~\E a \in Request : On(a, i)

\* When nobody is at work on a relayer, its queue processes under the settings of its row,
\* and a live relayer has a queue unless its own was not started: the three updates of a
\* handler, a restart between any two and a stale cache do not drive them apart, unless
\* requests for one relayer overlapped, one was cut off after its change or a late change
\* took effect, until the next restart.  A relayer whose creation was cut off, or that the
\* startup skipped, has no queue at all, whatever is changed on it, until the next restart.
QueueFollowsRow ==
  \A i \in Id : Quiet(i) /\ i \notin unsettled =>
    queue[i] = IF i \in unstarted THEN NoRelayer ELSE QueueOfRow(i)

\* The cache shows other settings than the row only between a handler's update and its
\* invalidation, where the handler ended in between or its update took effect after it had
\* ended, or when a look-up carried the row over an invalidation; and after the last two only
\* until the next invalidation or expiry that no look-up is carried over.
StaleOnlyWhenRaced ==
  \A i \in Id :
    cache[i] # NoRelayer /\ ~(Live(i) /\ cache[i] = row[i].settings)
      => i \in raced \cup abandoned \/ \E a \in Request : pc[a] = "invalidate" /\ ask[a].id = i
=============================================================================
