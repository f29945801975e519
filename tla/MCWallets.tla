----------------------------- MODULE MCWallets -----------------------------
(***************************************************************************)
(* Two networks with a relayer each, both with wallet index 0, and on the    *)
(* second a clone of the first's.                                            *)
(***************************************************************************)
EXTENDS Wallets

CONSTANTS r1, r2, r3, c1, c2, s1, s2

MCChainOf == (r1 :> c1) @@ (r2 :> c2) @@ (r3 :> c2)
MCIndexOf == [r \in {r1, r2, r3} |-> 0]
MCSourceOf == [r \in {r1, r2, r3} |-> IF r = r3 THEN r1 ELSE NoRelayer]
=============================================================================
