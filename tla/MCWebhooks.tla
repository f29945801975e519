----------------------------- MODULE MCWebhooks -----------------------------
(* A transaction, reported to an endpoint that lists its network and is      *)
(* tried three times, and a low balance it asks no alert for: that report only      *)
(* keeps the manager's mutex from the task now and then.                     *)
EXTENDS Webhooks, TLC

CONSTANTS sent, low, c1, n1

MCNetworksOf == (c1 :> {n1})
MCMaxRetries == (c1 :> 3)
MCChainOf == [e \in {sent, low} |-> n1]
=============================================================================
