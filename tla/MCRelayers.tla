----------------------------- MODULE MCRelayers -----------------------------
(* A derived relayer on one network, the second private key of the other     *)
(* (the first was deleted), and two requests of an administrator.          *)
EXTENDS Relayers, TLC

CONSTANTS a1, a2, s1, p1, n1, n2, k1

MCSettings == [f \in Setting |-> f = "eip_1559_enabled"]

MCSeedRow ==
  (s1 :> [chain |-> n1, index |-> 0, address |-> 0, is_private_key |-> FALSE,
          cloned |-> FALSE, deleted |-> FALSE, settings |-> MCSettings])
  @@ (p1 :> [chain |-> n2, index |-> -2, address |-> -2, is_private_key |-> TRUE,
             cloned |-> FALSE, deleted |-> FALSE, settings |-> MCSettings])

MCWanted ==
  {[op |-> "create", chain |-> n1], [op |-> "import", chain |-> n2, key |-> k1],
   [op |-> "clone", chain |-> n1, source |-> s1], [op |-> "clone", chain |-> n2, source |-> s1],
   [op |-> "import", chain |-> n1, key |-> k1], [op |-> "delete", id |-> s1],
   [op |-> "set", id |-> s1, setting |-> "paused", value |-> TRUE],
   [op |-> "set", id |-> s1, setting |-> "paused", value |-> FALSE],
   [op |-> "set", id |-> s1, setting |-> "max_gas_price_cap", value |-> TRUE],
   [op |-> "set", id |-> a1, setting |-> "eip_1559_enabled", value |-> FALSE],
   [op |-> "delete", id |-> a1]}
=============================================================================
