---------------------------- MODULE MCSchedules ----------------------------
(* One job, configured in every way, a payer with a clone on a second chain, *)
(* and a relayer that needs top-ups.                                         *)
EXTENDS Schedules, TLC

CONSTANTS j1, x1, x2, x3, c1, c2, pay, poor

MCInterval == [j \in Job |-> 2]
MCMayRun == [j \in Job |-> {x3}]
MCChainOf == (x1 :> c1) @@ (x2 :> c2) @@ (x3 :> c1)
MCAddressOf == (x1 :> pay) @@ (x2 :> pay) @@ (x3 :> poor)
=============================================================================
