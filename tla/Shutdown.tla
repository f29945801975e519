------------------------------ MODULE Shutdown ------------------------------
(***************************************************************************)
(* The shutdown coordinator (shutdown.rs), the processing loops it stops    *)
(* (queue_system/start.rs) and the API requests that run beside them.       *)
(*                                                                          *)
(* A worker is a Loop (one task per deque of a relayer) or a Call (an HTTP  *)
(* handler that cancels or replaces).  Each takes the mutex of              *)
(* TransactionsQueues, looks for something to do, and runs it as a critical *)
(* operation under an OperationGuard.  A future may be dropped only where   *)
(* it awaits, and what lies between two awaits still interleaves with other *)
(* threads: that is where the coordinator's loads and stores are cut.       *)
(***************************************************************************)
EXTENDS Naturals

CONSTANTS
  Loop,     \* the tasks that process the deques of the relayers
  Call      \* the API requests that cancel or replace, one after the other

ASSUME WorkersAssumption == Loop \cap Call = {}

Worker == Loop \cup Call

VARIABLES
  pc,         \* where each worker is
  active,     \* active_operations
  receivers,  \* the loops whose receiver existed when the signal was sent
  req,        \* where request_shutdown is
  dropped     \* the loops that left an operation because they heard the signal

vars == <<pc, active, receivers, req, dropped>>

ShutdownRequested == req # "serving"
SignalSent == req \notin {"serving", "raised"}

\* The workers that hold the mutex, and those that run or are about to run an operation.
Holding == {w \in Worker :
              pc[w] \in {"looking", "entering", "working", "notifying", "unlocking"}}
Engaged == {w \in Worker : pc[w] \in {"entering", "working"}}

Init ==
  /\ pc = [w \in Worker |-> IF w \in Loop THEN "spawned" ELSE "out"]
  /\ active = 0
  /\ receivers = {}
  /\ req = "serving"
  /\ dropped = {}

Go(w, from, to) ==
  /\ pc[w] = from
  /\ pc' = [pc EXCEPT ![w] = to]

-----------------------------------------------------------------------------
(***************************************************************************)
(* Workers.                                                                 *)
(***************************************************************************)
\* subscribe_to_shutdown at the head of a loop.  A broadcast receiver sees what is sent
\* after it was made, so a loop of a relayer created late never hears the signal.
Subscribe(l) ==
  /\ Go(l, "spawned", "waiting")
  /\ receivers' = IF SignalSent THEN receivers ELSE receivers \cup {l}
  /\ UNCHANGED <<active, req, dropped>>

\* A request reaches its handler.  Connections that are open outlive the listener.
Arrive(c) ==
  /\ Go(c, "out", "waiting")
  /\ UNCHANGED <<active, receivers, req, dropped>>

\* Mutant: operations do not exclude one another.
AcquireShared(w) ==
  /\ Go(w, "waiting", "looking")
  /\ UNCHANGED <<active, receivers, req, dropped>>

\* The mutex of TransactionsQueues, behind which every loop and handler queues.
Acquire(w) ==
  /\ Holding = {}
  /\ Go(w, "waiting", "looking")
  /\ UNCHANGED <<active, receivers, req, dropped>>

\* Where a worker goes once its operation is over.
AfterIteration(w) == IF w \in Loop THEN "resting" ELSE "out"

\* The deque is empty, the relayer is paused, or the transaction cannot be edited.
NothingToDo(w) ==
  /\ Go(w, "looking", AfterIteration(w))
  /\ UNCHANGED <<active, receivers, req, dropped>>

\* Mutant: the flag is not read.
PassAlways(w) ==
  /\ Go(w, "looking", "entering")
  /\ UNCHANGED <<active, receivers, req, dropped>>

\* enter_operation, its load of the flag: the operation may go on.
PassCheck(w) ==
  /\ ~ShutdownRequested
  /\ Go(w, "looking", "entering")
  /\ UNCHANGED <<active, receivers, req, dropped>>

\* The flag is up: the loop is told that its queue is gone and breaks, the request is
\* answered that the relayer is paused.
Refuse(w) ==
  /\ ShutdownRequested
  /\ Go(w, "looking", IF w \in Loop THEN "stopped" ELSE "out")
  /\ UNCHANGED <<active, receivers, req, dropped>>

\* enter_operation, its increment.
Enter(w) ==
  /\ Go(w, "entering", "working")
  /\ active' = active + 1
  /\ UNCHANGED <<receivers, req, dropped>>

\* exit_operation, its decrement: the last one out has to notify.
Exit(w) ==
  /\ Go(w, "working", IF active = 1 THEN "notifying" ELSE "unlocking")
  /\ active' = active - 1

\* The operation returns, and its guard goes out of scope.
Finish(w) ==
  /\ Exit(w)
  /\ UNCHANGED <<receivers, req, dropped>>

\* exit_operation, notify_waiters: only a registered waiter is woken.
NotifyWaiters(w) ==
  /\ Go(w, "notifying", "unlocking")
  /\ req' = IF req = "registered" THEN "woken" ELSE req
  /\ UNCHANGED <<active, receivers, dropped>>

\* The mutex is released last: its guard was declared before the operation's.
Unlock(w) ==
  /\ Go(w, "unlocking", IF w \in dropped THEN "stopped" ELSE AfterIteration(w))
  /\ UNCHANGED <<active, receivers, req, dropped>>

\* processes_next_break is over.  The signal is not listened to meanwhile.
WakeUp(l) ==
  /\ Go(l, "resting", "waiting")
  /\ UNCHANGED <<active, receivers, req, dropped>>

\* Mutants: a guard that is dropped with its future is not counted out; a future that never
\* entered is counted out.
DropUncounted(w, then) ==
  /\ pc[w] \in {"waiting", "looking", "working"}
  /\ pc' = [pc EXCEPT ![w] = then]
  /\ UNCHANGED <<active, receivers, req, dropped>>

DropUnentered(w, then) ==
  /\ pc[w] \in {"waiting", "looking", "working"}
  /\ pc' = [pc EXCEPT ![w] = then]
  /\ active' = active - 1
  /\ UNCHANGED <<receivers, req, dropped>>

\* A future is dropped at an await: before its operation it just ends, inside it the guard
\* is dropped with everything else.
DropFuture(w, then) ==
  \/ /\ pc[w] \in {"waiting", "looking"}
     /\ pc' = [pc EXCEPT ![w] = then]
     /\ UNCHANGED <<active, receivers, req, dropped>>
  \/ /\ Exit(w)
     /\ dropped' = dropped \cup ({w} \cap Loop)
     /\ UNCHANGED <<receivers, req>>

\* Mutant: the signal is looked at between two iterations, not while one runs.
HearBetween(l) ==
  /\ SignalSent
  /\ l \in receivers
  /\ Go(l, "waiting", "stopped")
  /\ UNCHANGED <<active, receivers, req, dropped>>

\* The loop's select! takes the branch of the signal and drops the other one.
Hear(l) ==
  /\ SignalSent
  /\ l \in receivers
  /\ DropFuture(l, "stopped")

\* The client hangs up, or the listener's tasks are dropped: the handler goes with them.
HangUp(c) == DropFuture(c, "out")

-----------------------------------------------------------------------------
(***************************************************************************)
(* request_shutdown.                                                        *)
(***************************************************************************)
Proceed(from, to) ==
  /\ req \in from
  /\ req' = to
  /\ UNCHANGED <<pc, active, receivers, dropped>>

RaiseFlag == Proceed({"serving"}, "raised")
SendSignal == Proceed({"raised"}, "polling")

\* wait_for_operations_complete: the load, and the registration that follows it when
\* operations are under way.  What ends in between notifies nobody.
SeeNone ==
  /\ active = 0
  /\ Proceed({"polling", "woken"}, "graceful")

SeeSome ==
  /\ active > 0
  /\ Proceed({"polling", "woken"}, "busy")

Register == Proceed({"busy"}, "registered")

\* Mutant: the wait has no timeout, only a wake-up can end it.
TimeOutAwake == Proceed({"woken"}, "timed_out")

\* The sleep of the select! ends.
TimeOut == Proceed({"registered", "woken"}, "timed_out")

-----------------------------------------------------------------------------
LoopStep(l) ==
  \/ Subscribe(l) \/ Acquire(l) \/ NothingToDo(l) \/ PassCheck(l) \/ Refuse(l)
  \/ Enter(l) \/ Finish(l) \/ NotifyWaiters(l) \/ Unlock(l) \/ WakeUp(l) \/ Hear(l)

CallStep(c) ==
  \/ Arrive(c) \/ Acquire(c) \/ NothingToDo(c) \/ PassCheck(c) \/ Refuse(c)
  \/ Enter(c) \/ Finish(c) \/ NotifyWaiters(c) \/ Unlock(c) \/ HangUp(c)

Request == RaiseFlag \/ SendSignal \/ SeeNone \/ SeeSome \/ Register \/ TimeOut

Next ==
  \/ \E l \in Loop : LoopStep(l)
  \/ \E c \in Call : CallStep(c)
  \/ Request

Spec == Init /\ [][Next]_vars

\* The requesting task is polled whenever it is ready, and its timer runs.  Code without an
\* await runs on; a loop's sleep ends; and a select! starts at a random branch, so a loop
\* that is again and again at its select! takes the signal.  No operation is assumed to end.
Fairness ==
  /\ WF_vars(SendSignal \/ SeeNone \/ SeeSome \/ Register \/ TimeOut)
  /\ \A l \in Loop :
       /\ WF_vars(Enter(l) \/ NotifyWaiters(l) \/ Unlock(l) \/ WakeUp(l))
       /\ SF_vars(Hear(l))

FairSpec == Spec /\ Fairness

-----------------------------------------------------------------------------
(***************************************************************************)
(* Properties.                                                              *)
(***************************************************************************)
\* Type correctness of the coordinator and its workers.
TypeOK ==
  /\ pc \in [Worker -> {"spawned", "out", "waiting", "looking", "entering", "working",
                        "notifying", "unlocking", "resting", "stopped"}]
  /\ active \in {0, 1}
  /\ receivers \subseteq Loop
  /\ req \in {"serving", "raised", "polling", "busy", "registered", "woken",
              "graceful", "timed_out"}
  /\ dropped \subseteq Loop

\* The mutex of TransactionsQueues makes critical operations exclusive, through every way
\* a future can end: so a shutdown can cut off one operation at most.
OneOperation == \A v, w \in Holding : v = w

\* Guards are counted exactly, whether an operation returns or its future is dropped: the
\* wait of request_shutdown is over exactly when no operation runs.
GuardsCounted == active = IF \E w \in Worker : pc[w] = "working" THEN 1 ELSE 0

\* From the moment the flag is up operations only drain: no worker that had not passed
\* enter_operation's check by then ever runs one.
OnlyDrains == [][ShutdownRequested => Engaged' \subseteq Engaged]_vars

\* request_shutdown returns, whatever the operations do and even when the notification
\* comes between its load and its registration.
RequestReturns == ShutdownRequested ~> req \in {"graceful", "timed_out"}

\* Every loop that was listening when shutdown was signalled stops, even when its operation
\* never ends by itself.
LoopsStop == \A l \in Loop : (SignalSent /\ l \in receivers) ~> pc[l] = "stopped"
=============================================================================
