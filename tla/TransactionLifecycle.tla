------------------------ MODULE TransactionLifecycle ------------------------
(***************************************************************************)
(* What a relayer promises for each transaction it has been given: it goes  *)
(* through the statuses of TransactionStatus in one direction only, its     *)
(* payload takes effect at most once, only while the transaction is open,   *)
(* and never for a transaction that is reported as not executed.            *)
(***************************************************************************)
EXTENDS Integers

CONSTANT TxId

VARIABLES status, executed

lifecycleVars == <<status, executed>>

Open == {"PENDING", "INMEMPOOL"}
NotExecuted == {"FAILED", "EXPIRED", "CANCELLED", "REPLACED"}

LifecycleInit ==
  /\ status = [t \in TxId |-> "absent"]
  /\ executed = {}

\* Change the status of the transactions in S from one of From to s.
Turn(S, From, s) ==
  /\ \A t \in S : status[t] \in From
  /\ s \in NotExecuted => S \cap executed = {}
  /\ status' = [t \in TxId |-> IF t \in S THEN s ELSE status[t]]
  /\ UNCHANGED executed

\* A transaction is saved, or refused and saved as FAILED.
Accept(t) == Turn({t}, {"absent"}, "PENDING")
Refuse(t) == Turn({t}, {"absent"}, "FAILED")

Send(t) == Turn({t}, {"PENDING"}, "INMEMPOOL")

Settle(t) ==
  \E s \in {"MINED"} \cup NotExecuted : Turn({t}, {"INMEMPOOL"}, s)

Confirmed(t) == Turn({t}, {"MINED", "INMEMPOOL"}, "CONFIRMED")

\* Startup decides pending transactions together.
Recover ==
  \E S \in SUBSET TxId, F \in SUBSET TxId :
    /\ \A t \in S \cup F : status[t] = "PENDING"
    /\ S \cap F = {} /\ F \cap executed = {}
    /\ status' = [t \in TxId |-> IF t \in S THEN "INMEMPOOL"
                                 ELSE IF t \in F THEN "FAILED" ELSE status[t]]
    /\ UNCHANGED executed

\* The payload takes effect on the chain.
Execute(t) ==
  /\ status[t] \in Open
  /\ t \notin executed
  /\ executed' = executed \cup {t}
  /\ UNCHANGED status

LifecycleNext ==
  \/ \E t \in TxId : Accept(t) \/ Refuse(t) \/ Send(t) \/ Settle(t) \/ Confirmed(t) \/ Execute(t)
  \/ Recover

LifecycleSpec == LifecycleInit /\ [][LifecycleNext]_lifecycleVars
=============================================================================
