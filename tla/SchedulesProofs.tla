-------------------------- MODULE SchedulesProofs --------------------------
(***************************************************************************)
(* Theorems about the cron jobs of Schedules, for every set of jobs, every   *)
(* interval and any number of restarts, with the top-ups and the rest of the *)
(* world beside them.                                                       *)
(*                                                                          *)
(* The state in the database lags behind the transactions: they are admitted *)
(* first and marked afterwards.  Spaced says how far it may lag for a run    *)
(* not to come too early, Anchored for one not to come too late.             *)
(***************************************************************************)
EXTENDS Schedules, TLAPS

Times == Nat \cup {None}

CronType ==
  /\ clock \in Nat
  /\ stage \in [Job -> {"off", "waiting", "mark"}]
  /\ due \in [Job -> Nat]
  /\ lastRan \in [Job -> Times] /\ lastMade \in [Job -> Times] /\ since \in [Job -> Times]
  /\ unmarked \subseteq Job

\* Nothing is dated in the future.
Dated(j) ==
  /\ lastRan[j] # None => lastRan[j] <= clock
  /\ lastMade[j] # None => lastMade[j] <= clock
  /\ since[j] # None => since[j] <= clock

\* The database has heard of the last transaction of a job that is not behind, and a sleeping
\* job sleeps until an interval after it.
Spaced(j) ==
  lastMade[j] # None /\ stage[j] # "mark" /\ j \notin unmarked =>
    /\ lastRan[j] # None /\ lastMade[j] <= lastRan[j]
    /\ stage[j] = "waiting" => lastMade[j] + Interval[j] <= due[j]

\* A job that was seen before has an anchor, which is no later than its last try.
Anchored(j) ==
  /\ stage[j] # "off" => since[j] # None
  /\ j \notin unmarked =>
       /\ since[j] # None /\ j \notin runOnStartup => lastRan[j] # None
       /\ lastRan[j] # None => since[j] # None /\ lastRan[j] <= since[j]

JobInv(j) == Dated(j) /\ Spaced(j) /\ Anchored(j)

CronInv == CronType /\ \A j \in Job : JobInv(j)

LEMMA Intervals == \A j \in Job : Interval[j] \in Nat /\ Interval[j] > 0
BY SchedulesAssumption

LEMMA InitInv == Init => CronInv
BY SchedulesAssumption
   DEF Init, CronInv, CronType, JobInv, Dated, Spaced, Anchored, Times

\* What does not belong to a job leaves the invariant alone; time may pass.
LEMMA QuietStep ==
  ASSUME CronInv, UNCHANGED <<runOnStartup, cronVars>>, clock' \in Nat, clock <= clock'
  PROVE  CronInv'
BY SchedulesAssumption
   DEF CronInv, CronType, JobInv, Dated, Spaced, Anchored, Times, cronVars

\* A step of one job is no step of another.
LEMMA OthersStay ==
  ASSUME CronInv, NEW j \in Job, NEW i \in Job, i # j,
         UNCHANGED <<clock, runOnStartup>>,
         stage'[i] = stage[i], due'[i] = due[i], lastRan'[i] = lastRan[i],
         lastMade'[i] = lastMade[i], since'[i] = since[i],
         i \in unmarked' <=> i \in unmarked
  PROVE  JobInv(i)'
BY DEF CronInv, JobInv, Dated, Spaced, Anchored

\* next_cron_job_delay goes by what the database has, and by the clock where it has nothing.
LEMMA StartStep ==
  ASSUME CronInv, NEW j \in Job, StartJob(j)
  PROVE  CronInv'
<1> USE SchedulesAssumption, Intervals
<1>1. CronType'
  BY DEF CronInv, CronType, Times, StartJob, Wait, Anchor, NextRun, Later
<1>2. \A i \in Job \ {j} : JobInv(i)'
  BY OthersStay DEF CronInv, CronType, StartJob, Wait, Anchor, config
<1>3. JobInv(j)
  BY DEF CronInv
<1>4. Dated(j)'
  BY <1>3 DEF JobInv, Dated, CronInv, CronType, Times, StartJob, Wait, Anchor
<1>5. Spaced(j)'
  BY <1>3 DEF JobInv, Dated, Spaced, CronInv, CronType, Times, StartJob, Wait, Anchor, NextRun,
              Later, config
<1>6. Anchored(j)'
  BY <1>3 DEF JobInv, Dated, Anchored, CronInv, CronType, Times, StartJob, Wait, Anchor, config
<1> QED  BY <1>1, <1>2, <1>4, <1>5, <1>6 DEF CronInv, JobInv

\* A run moves the job's last try to now, and leaves the transaction to be marked.
LEMMA RunStep ==
  ASSUME CronInv, NEW j \in Job, RunJob(j)
  PROVE  CronInv'
<1> USE SchedulesAssumption, Intervals
<1>1. /\ since' = [since EXCEPT ![j] = clock]
      /\ UNCHANGED <<clock, runOnStartup, lastRan, unmarked>>
      /\ \/ Wait(j, clock + Interval[j]) /\ UNCHANGED lastMade
         \/ Made(j) /\ lastMade' \in {lastMade, [lastMade EXCEPT ![j] = clock]}
  BY DEF RunJob, Skip, config
<1>2. CronType'
  BY <1>1 DEF CronInv, CronType, Times, Wait, Made
<1>3. \A i \in Job \ {j} : JobInv(i)'
  BY <1>1, OthersStay DEF CronInv, CronType, Wait, Made
<1>4. JobInv(j)
  BY DEF CronInv
<1>5. Dated(j)'
  BY <1>1, <1>4 DEF JobInv, Dated, CronInv, CronType, Times
<1>6. Spaced(j)'
  BY <1>1, <1>4 DEF JobInv, Dated, Spaced, CronInv, CronType, Times, Wait, Made, RunJob
<1>7. Anchored(j)'
  BY <1>1, <1>4 DEF JobInv, Dated, Anchored, CronInv, CronType, Times, RunJob
<1> QED  BY <1>2, <1>3, <1>5, <1>6, <1>7 DEF CronInv, JobInv

\* The mark catches up with the transaction, or the job counts as behind.
LEMMA MarkStep ==
  ASSUME CronInv, NEW j \in Job, Mark(j)
  PROVE  CronInv'
<1> USE SchedulesAssumption, Intervals
<1>1. CronType'
  BY DEF CronInv, CronType, Times, Mark, Wait
<1>2. \A i \in Job \ {j} : JobInv(i)'
  BY OthersStay DEF CronInv, CronType, Mark, Wait, config
<1>3. JobInv(j)
  BY DEF CronInv
<1>4. Dated(j)'
  BY <1>3 DEF JobInv, Dated, CronInv, CronType, Times, Mark
<1>5. Spaced(j)'
  BY <1>3 DEF JobInv, Dated, Spaced, CronInv, CronType, Times, Mark, Wait
<1>6. Anchored(j)'
  BY <1>3 DEF JobInv, Dated, Anchored, CronInv, CronType, Times, Mark, Wait, config
<1> QED  BY <1>1, <1>2, <1>4, <1>5, <1>6 DEF CronInv, JobInv

\* A process that ends between the two leaves the job behind.
LEMMA StopStep == ASSUME CronInv, Stop PROVE CronInv'
<1>1. CronType'
  BY DEF CronInv, CronType, Stop
<1>2. ASSUME NEW j \in Job PROVE JobInv(j)'
  BY DEF CronInv, CronType, JobInv, Dated, Spaced, Anchored, Stop, config
<1> QED  BY <1>1, <1>2 DEF CronInv

\* Every step keeps the invariant.
LEMMA NextInv == CronInv /\ [Next]_vars => CronInv'
<1> SUFFICES ASSUME CronInv, [Next]_vars PROVE CronInv'
  OBVIOUS
<1>1. clock \in Nat
  BY DEF CronInv, CronType
<1>2. ASSUME NEW j \in Job, StartJob(j) \/ RunJob(j) \/ Mark(j) PROVE CronInv'
  BY <1>2, StartStep, RunStep, MarkStep
<1>3. CASE Stop
  BY <1>3, StopStep
<1>4. CASE Tick \/ Boot
  BY <1>1, <1>4, QuietStep DEF Tick, Boot, config
<1>5. ASSUME NEW c \in Chain,
             Refresh(c) \/ (\E s \in Asset : Check(c, s)) \/ (\E o \in TopUp : Spend(c, o))
      PROVE  CronInv'
  BY <1>1, <1>5, QuietStep DEF Refresh, Check, Spend, config
<1>6. ASSUME NEW a \in Address, Transfer(a) PROVE CronInv'
  BY <1>1, <1>6, QuietStep DEF Transfer, config
<1>7. ASSUME NEW x \in Relayer, Delete(x) \/ Pause(x) \/ \E o \in Owner : Settle(x, o)
      PROVE  CronInv'
  BY <1>1, <1>7, QuietStep DEF Delete, Pause, Settle, config
<1>8. CASE UNCHANGED vars
  BY <1>1, <1>8, QuietStep DEF vars, config
<1> QED
  BY <1>2, <1>3, <1>4, <1>5, <1>6, <1>7, <1>8, SchedulesAssumption DEF Next

LEMMA Invariance == Spec => []CronInv
<1>1. Init => CronInv
  BY InitInv
<1>2. CronInv /\ [Next]_vars => CronInv'
  BY NextInv
<1> QED  BY <1>1, <1>2, PTL DEF Spec

\* Only a job's own run makes its transaction, and only its start sends it to sleep from "off".
LEMMA OnlyJobs ==
  ASSUME CronInv, [Next]_vars, NEW j \in Job
  PROVE  /\ lastMade'[j] # lastMade[j] => RunJob(j) /\ lastMade'[j] = clock
         /\ stage[j] = "off" /\ stage'[j] = "waiting" => StartJob(j)
<1>1. ASSUME NEW i \in Job, StartJob(i) \/ RunJob(i) \/ Mark(i)
      PROVE  /\ lastMade'[j] # lastMade[j] => RunJob(j) /\ lastMade'[j] = clock
             /\ stage[j] = "off" /\ stage'[j] = "waiting" => StartJob(j)
  BY <1>1 DEF CronInv, CronType, StartJob, RunJob, Mark, Wait, Made, Skip
<1>2. CASE Stop
  BY <1>2 DEF CronInv, CronType, Stop
<1>3. CASE UNCHANGED cronVars
  BY <1>3 DEF cronVars
<1> QED
  BY <1>1, <1>2, <1>3
     DEF Next, vars, Tick, Boot, Refresh, Check, Spend, Transfer, Delete, Pause, Settle

\* Two transactions of a job are an interval apart whatever happens between them: the sleep is
\* measured from the mark, and a job whose mark the process did not live to write is behind.
THEOREM JobsSpaced == Spec => RunsSpaced
<1>1. ASSUME CronInv, [Next]_vars,
             NEW j \in Job, lastMade'[j] # lastMade[j], lastMade[j] # None
      PROVE  j \in unmarked \/ clock >= lastMade[j] + Interval[j]
  <2>1. RunJob(j)
    BY <1>1, OnlyJobs
  <2> QED
    BY <1>1, <2>1, Intervals, SchedulesAssumption
       DEF CronInv, CronType, JobInv, Spaced, Times, RunJob
<1>2. CronInv /\ [Next]_vars
        => [\A j \in Job :
              lastMade'[j] # lastMade[j] /\ lastMade[j] # None
                => j \in unmarked \/ clock >= lastMade[j] + Interval[j]]_vars
  BY <1>1
<1> QED  BY <1>2, Invariance, PTL DEF Spec, RunsSpaced

\* A restart never puts a job off by more than the interval since its last try: the anchor is
\* there, and it is no later than that.
THEOREM JobsOnTime == Spec => NotPostponed
<1>1. ASSUME CronInv, [Next]_vars,
             NEW j \in Job, stage[j] = "off", stage'[j] = "waiting", since[j] # None,
             j \notin unmarked'
      PROVE  due'[j] <= Later(clock, since[j] + Interval[j])
  <2>1. StartJob(j)
    BY <1>1, OnlyJobs
  <2>2. j \notin unmarked /\ JobInv(j)
    BY <1>1, <2>1 DEF StartJob, CronInv
  <2> QED
    BY <1>1, <2>1, <2>2, SchedulesAssumption, Intervals
       DEF CronInv, CronType, JobInv, Anchored, Dated, Times, StartJob, Wait, NextRun, Later
<1>2. CronInv /\ [Next]_vars
        => [\A j \in Job :
              stage[j] = "off" /\ stage'[j] = "waiting" /\ since[j] # None /\ j \notin unmarked'
                => due'[j] <= Later(clock, since[j] + Interval[j])]_vars
  BY <1>1
<1> QED  BY <1>2, Invariance, PTL DEF Spec, NotPostponed

-----------------------------------------------------------------------------
(***************************************************************************)
(* The external ids.  What keeps a second transaction out is the look-up of  *)
(* the stored row: Admit fills an empty place, and no other step opens one.  *)
(***************************************************************************)
Once == rows \in [Relayer -> [Owner -> Status \ {"twice"}]]

\* add_transaction stores one row, where there was none.
LEMMA StoresOnce ==
  ASSUME Once, NEW x, NEW o, Admit(x, o) \/ Reject(x, o)
  PROVE  Once'
<1>1. CASE x \in Relayer /\ o \in Owner
  <2>1. rows[x][o] = "none"
    BY DEF Admit, Reject, Stored
  <2> QED  BY <1>1, <2>1 DEF Once, Status, Admit, Reject
<1>2. CASE ~(x \in Relayer /\ o \in Owner)
  <2> DEFINE With(s) == [rows EXCEPT ![x][o] = s]
  <2>1. \A s : With(s) = rows
    <3> TAKE s
    <3>1. \A y \in Relayer : With(s)[y] = rows[y]
      BY <1>2 DEF Once
    <3> QED  BY <3>1 DEF Once
  <2>2. rows' \in {rows, With(IF rows[x][o] = "open" THEN "twice" ELSE "open"), With("failed")}
    BY DEF Admit, Reject
  <2>3. rows' = rows
    BY <2>1, <2>2
  <2> QED  BY <2>3 DEF Once
<1> QED  BY <1>1, <1>2

\* Every step stores a row for an external id at most once.
LEMMA NextOnce == Once /\ [Next]_vars => Once'
<1> SUFFICES ASSUME Once, [Next]_vars PROVE Once'
  OBVIOUS
<1>1. ASSUME NEW j \in Job, RunJob(j) PROVE Once'
  BY <1>1, StoresOnce DEF RunJob, Once
<1>2. ASSUME NEW a \in Address, Transfer(a) PROVE Once'
  BY <1>2, StoresOnce DEF Transfer, HandsIn, Once
<1>3. ASSUME NEW x \in Relayer, NEW o \in Owner, Settle(x, o) PROVE Once'
  BY <1>3 DEF Settle, Once, Status
<1>4. CASE UNCHANGED rows
  BY <1>4 DEF Once
<1>5. ASSUME NEW x \in Managed, Delete(x) \/ Pause(x) PROVE UNCHANGED rows
  BY <1>5 DEF Delete, Pause
<1>6. ASSUME NEW j \in Job, StartJob(j) \/ Mark(j) PROVE UNCHANGED rows
  BY <1>6 DEF StartJob, Mark
<1>7. ASSUME NEW c \in Chain,
             Refresh(c) \/ (\E s \in Asset : Check(c, s)) \/ (\E o \in TopUp : Spend(c, o))
      PROVE  UNCHANGED rows
  BY <1>7 DEF Refresh, Check, Spend
<1>8. ASSUME Tick \/ Boot \/ Stop \/ UNCHANGED vars PROVE UNCHANGED rows
  BY <1>8 DEF Tick, Boot, Stop, vars
<1> QED  BY <1>1, <1>2, <1>3, <1>4, <1>5, <1>6, <1>7, <1>8 DEF Next

\* No second top-up of an address, and no second transaction of a job with an external id, is
\* queued at a relayer while the first is on its way, however often a round or a restarted job
\* comes back to it.
THEOREM TopUpsOnce == Spec => []OneOnItsWay
<1>1. Init => Once
  BY DEF Init, Once, Status
<1>2. Once /\ [Next]_vars => Once'
  BY NextOnce
<1>3. Once => OneOnItsWay
  BY DEF Once, OneOnItsWay
<1> QED  BY <1>1, <1>2, <1>3, PTL DEF Spec
=============================================================================
