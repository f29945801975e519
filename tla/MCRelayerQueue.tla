--------------------------- MODULE MCRelayerQueue ---------------------------
(***************************************************************************)
(* Small instances of RelayerQueue for TLC: two user transactions, one      *)
(* rival, and the faults each configuration lets strike once.               *)
(***************************************************************************)
EXTENDS RelayerQueueProperties

CONSTANTS t1, t2, c1

Once(faults) == [f \in Fault |-> IF f \in faults THEN 1 ELSE 0]

LostAnswers == {Once({"rpc"})}
Outages == {Once({"crash", "rpc", "external", "evict", "late"})}
Faulty == {Once({"crash", "db", "rpc", "reject", "revert"})}

\* Either refused sends, or another user of the key and expiries, around a restart.
Lapses == {Once({"crash", "rpc", "revert"}),
           Once({"crash", "external", "revert", "expire"})}

\* Bounds the run of rivals: any two of its faults strike, in any order.
TwoFaults == \A b \in Budgets : Cardinality({f \in Fault : left[f] < b[f]}) <= 2
=============================================================================
