--------------------------- MODULE ShutdownProofs ---------------------------
(***************************************************************************)
(* Theorems about Shutdown, for every set of loops and of API requests.     *)
(*                                                                          *)
(* The three invariants support one another: the decrement of exit_operation *)
(* stays a natural number because guards are counted, guards are counted    *)
(* by one bit because operations exclude one another.                       *)
(***************************************************************************)
EXTENDS Shutdown, TLAPS

Inv == TypeOK /\ OneOperation /\ GuardsCounted

\* Nothing runs, holds or counts when the process starts.
LEMMA InitInv == Init => Inv
BY WorkersAssumption
   DEF Init, Inv, TypeOK, OneOperation, GuardsCounted, Holding, Worker

\* A step of a loop that changes no guard keeps the invariants: it takes the mutex only when
\* nobody holds it, or keeps it, or gives it back.
LEMMA QuietStep ==
  ASSUME Inv, NEW w \in Worker,
         \/ w \in Loop /\ (Subscribe(w) \/ WakeUp(w))
         \/ w \in Call /\ Arrive(w)
         \/ Acquire(w) \/ NothingToDo(w) \/ PassCheck(w) \/ Refuse(w) \/ Unlock(w)
  PROVE  Inv'
<1> USE DEF Inv
<1>1. TypeOK'
  BY DEF TypeOK, Subscribe, WakeUp, Arrive, Acquire, NothingToDo, PassCheck, Refuse, Unlock,
         Go, AfterIteration, SignalSent
<1>2. CASE Acquire(w)
  BY <1>1, <1>2 DEF TypeOK, OneOperation, GuardsCounted, Holding, Acquire, Go
<1>3. CASE ~Acquire(w)
  <2>1. Holding' \subseteq Holding
    BY <1>3 DEF TypeOK, Holding, Subscribe, WakeUp, Arrive, NothingToDo, PassCheck, Refuse,
                Unlock, Go, AfterIteration
  <2>2. \A v \in Worker : (pc'[v] = "working") <=> (pc[v] = "working")
    BY <1>3 DEF TypeOK, Subscribe, WakeUp, Arrive, NothingToDo, PassCheck, Refuse,
                Unlock, Go, AfterIteration
  <2>3. active' = active
    BY <1>3 DEF Subscribe, WakeUp, Arrive, NothingToDo, PassCheck, Refuse, Unlock
  <2> QED  BY <1>1, <2>1, <2>2, <2>3 DEF OneOperation, GuardsCounted
<1> QED  BY <1>2, <1>3

\* The increment of enter_operation: nobody else holds the mutex, so nobody is counted yet.
LEMMA EnterStep ==
  ASSUME Inv, NEW w \in Worker, Enter(w)
  PROVE  Inv'
<1> USE DEF Inv
<1>1. Holding' = Holding /\ w \in Holding
  BY DEF TypeOK, Holding, Enter, Go
<1>2. \A v \in Worker : pc[v] # "working"
  BY <1>1 DEF OneOperation, Holding, Enter, Go
<1>3. active' = 1 /\ pc'[w] = "working"
  BY <1>2 DEF TypeOK, GuardsCounted, Enter, Go
<1>4. TypeOK'
  BY <1>3 DEF TypeOK, Enter, Go
<1> QED  BY <1>1, <1>3, <1>4 DEF OneOperation, GuardsCounted

\* The decrement of exit_operation, whether the operation returns or is dropped.
LEMMA ExitStep ==
  ASSUME Inv, NEW w \in Worker, Exit(w), UNCHANGED <<receivers, req>>,
         dropped' \subseteq Loop
  PROVE  Inv'
<1> USE DEF Inv
<1>1. Holding' = Holding /\ w \in Holding
  BY DEF TypeOK, Holding, Exit, Go
<1>2. \A v \in Worker : pc'[v] # "working"
  BY <1>1 DEF TypeOK, OneOperation, Holding, Exit, Go
<1>3. active' = 0
  BY DEF GuardsCounted, Exit, Go
<1>4. TypeOK'
  BY <1>3 DEF TypeOK, Exit, Go
<1> QED  BY <1>1, <1>2, <1>3, <1>4 DEF OneOperation, GuardsCounted

\* A dropped future gives back the mutex, and its guard if it had one.
LEMMA DropStep ==
  ASSUME Inv, NEW w \in Worker, NEW then \in {"stopped", "out"}, DropFuture(w, then)
  PROVE  Inv'
<1>1. CASE Exit(w)
  BY <1>1, ExitStep DEF DropFuture, Inv, TypeOK, Exit, Go
<1>2. CASE /\ pc[w] \in {"waiting", "looking"}
           /\ pc' = [pc EXCEPT ![w] = then]
           /\ UNCHANGED <<active, receivers, req, dropped>>
  <2>1. Holding' \subseteq Holding
    BY <1>2 DEF Inv, TypeOK, Holding
  <2>2. \A v \in Worker : (pc'[v] = "working") <=> (pc[v] = "working")
    BY <1>2 DEF Inv, TypeOK
  <2>3. TypeOK'
    BY <1>2 DEF Inv, TypeOK
  <2> QED  BY <1>2, <2>1, <2>2, <2>3 DEF Inv, OneOperation, GuardsCounted
<1> QED  BY <1>1, <1>2 DEF DropFuture

\* notify_waiters touches no guard and keeps the mutex.
LEMMA NotifyStep ==
  ASSUME Inv, NEW w \in Worker, NotifyWaiters(w)
  PROVE  Inv'
<1> USE DEF Inv, NotifyWaiters
<1>1. TypeOK'
  BY DEF TypeOK, Go
<1>2. Holding' = Holding
  BY DEF TypeOK, Holding, Go
<1>3. \A v \in Worker : (pc'[v] = "working") <=> (pc[v] = "working")
  BY DEF TypeOK, Go
<1> QED  BY <1>1, <1>2, <1>3 DEF OneOperation, GuardsCounted

\* request_shutdown changes neither workers nor the count.
LEMMA RequestStep ==
  ASSUME Inv, Request
  PROVE  Inv'
BY DEF Inv, TypeOK, OneOperation, GuardsCounted, Holding, Request, RaiseFlag, SendSignal,
       SeeNone, SeeSome, Register, TimeOut, Proceed

\* Every step keeps the invariants.
LEMMA NextInv == Inv /\ [Next]_vars => Inv'
<1> SUFFICES ASSUME Inv, [Next]_vars PROVE Inv'
  OBVIOUS
<1>1. ASSUME NEW l \in Loop, LoopStep(l) PROVE Inv'
  <2> l \in Worker
    BY DEF Worker
  <2>1. CASE \/ Subscribe(l) \/ WakeUp(l) \/ Acquire(l) \/ NothingToDo(l) \/ PassCheck(l)
             \/ Refuse(l) \/ Unlock(l)
    BY <2>1, QuietStep
  <2>2. CASE Enter(l)
    BY <2>2, EnterStep
  <2>3. CASE Finish(l)
    BY <2>3, ExitStep DEF Finish, Inv, TypeOK
  <2>4. CASE NotifyWaiters(l)
    BY <2>4, NotifyStep
  <2>5. CASE Hear(l)
    BY <2>5, DropStep DEF Hear
  <2> QED  BY <1>1, <2>1, <2>2, <2>3, <2>4, <2>5 DEF LoopStep
<1>2. ASSUME NEW c \in Call, CallStep(c) PROVE Inv'
  <2> c \in Worker
    BY DEF Worker
  <2>1. CASE \/ Arrive(c) \/ Acquire(c) \/ NothingToDo(c) \/ PassCheck(c)
             \/ Refuse(c) \/ Unlock(c)
    BY <2>1, QuietStep
  <2>2. CASE Enter(c)
    BY <2>2, EnterStep
  <2>3. CASE Finish(c)
    BY <2>3, ExitStep DEF Finish, Inv, TypeOK
  <2>4. CASE NotifyWaiters(c)
    BY <2>4, NotifyStep
  <2>5. CASE HangUp(c)
    BY <2>5, DropStep DEF HangUp
  <2> QED  BY <1>2, <2>1, <2>2, <2>3, <2>4, <2>5 DEF CallStep
<1>3. CASE Request
  BY <1>3, RequestStep
<1>4. CASE UNCHANGED vars
  BY <1>4 DEF vars, Inv, TypeOK, OneOperation, GuardsCounted, Holding
<1> QED  BY <1>1, <1>2, <1>3, <1>4 DEF Next

\* The invariants hold for ever.
LEMMA Invariance == Spec => []Inv
<1>1. Init => Inv
  BY InitInv
<1>2. Inv /\ [Next]_vars => Inv'
  BY NextInv
<1> QED  BY <1>1, <1>2, PTL DEF Spec

\* The coordinator's count never leaves 0 and 1, whatever the number of loops and requests: an
\* unsigned active_operations cannot wrap, and one bit of it is ever used.
THEOREM CoordinatorTyped == Spec => []TypeOK
<1>1. Inv => TypeOK
  BY DEF Inv
<1> QED  BY <1>1, Invariance, PTL

\* Critical operations exclude one another, whichever way their futures end: a shutdown cuts
\* off at most one.
THEOREM OperationsExclusive == Spec => []OneOperation
<1>1. Inv => OneOperation
  BY DEF Inv
<1> QED  BY <1>1, Invariance, PTL

\* active_operations is the number of guards.
THEOREM GuardsExact == Spec => []GuardsCounted
<1>1. Inv => GuardsCounted
  BY DEF Inv
<1> QED  BY <1>1, Invariance, PTL

\* Once the flag of request_shutdown is up, no worker starts an operation unless it had
\* already passed the check of enter_operation.
THEOREM ShutdownDrains == Spec => OnlyDrains
<1>1. ASSUME Inv, [Next]_vars, ShutdownRequested
      PROVE  Engaged' \subseteq Engaged
  <2>1. ASSUME NEW l \in Loop, LoopStep(l) PROVE Engaged' \subseteq Engaged
    BY <1>1, <2>1
       DEF Inv, TypeOK, Engaged, Worker, LoopStep, Subscribe, Acquire, NothingToDo, PassCheck,
           Refuse, Enter, Finish, Exit, NotifyWaiters, Unlock, WakeUp, Hear, DropFuture, Go,
           AfterIteration
  <2>2. ASSUME NEW c \in Call, CallStep(c) PROVE Engaged' \subseteq Engaged
    BY <1>1, <2>2
       DEF Inv, TypeOK, Engaged, Worker, CallStep, Arrive, Acquire, NothingToDo, PassCheck,
           Refuse, Enter, Finish, Exit, NotifyWaiters, Unlock, HangUp, DropFuture, Go,
           AfterIteration
  <2>3. CASE Request
    BY <2>3 DEF Engaged, Request, RaiseFlag, SendSignal, SeeNone, SeeSome, Register, TimeOut,
                Proceed
  <2>4. CASE UNCHANGED vars
    BY <2>4 DEF vars, Engaged
  <2> QED  BY <1>1, <2>1, <2>2, <2>3, <2>4 DEF Next
<1>2. Inv /\ [Next]_vars
        => [ShutdownRequested => Engaged' \subseteq Engaged]_vars
  BY <1>1
<1> QED  BY <1>2, Invariance, PTL DEF Spec, OnlyDrains
=============================================================================
