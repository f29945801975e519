--------------------------- MODULE MCGasPricing ---------------------------
(***************************************************************************)
(* A market that asks for a high tip and one that asks for a high base fee; *)
(* producers that ask for more than the oracle says, a node that asks for    *)
(* ten percent more, a relayer with a limit, and one of legacy transactions. *)
(***************************************************************************)
EXTENDS GasPricing

MCMarkets == {[base |-> 20, tip |-> 2, blob |-> 10], [base |-> 1, tip |-> 3, blob |-> 30]}

MCEnvironments ==
  {[mainnet |-> FALSE, history |-> TRUE, premium |-> 8, bump |-> 0, limit |-> NoLimit,
    legacy |-> FALSE],
   [mainnet |-> TRUE, history |-> FALSE, premium |-> 0, bump |-> 10, limit |-> 30,
    legacy |-> FALSE],
   [mainnet |-> FALSE, history |-> TRUE, premium |-> 2, bump |-> 10, limit |-> NoLimit,
    legacy |-> TRUE]}
=============================================================================
