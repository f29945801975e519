---------------------------- MODULE NonceManager ----------------------------
(***************************************************************************)
(* The next-free-nonce counter of one relayer.  Each method of NonceManager *)
(* takes the mutex once, so each is a function from the counter to the      *)
(* counter it leaves.                                                       *)
(***************************************************************************)
EXTENDS Integers

\* sync_with_onchain_nonce: the counter never goes back.
SyncedWith(next, onchain) == IF onchain > next THEN onchain ELSE next

\* Mutant: the counter is handed out and left where it is.
NotIncremented(next) == next

\* get_and_increment leaves this and hands out next itself.
Incremented(next) == next + 1

\* Mutant: one nonce too many is given back.
ReleasedTooFar(next, nonce) == IF next = nonce + 1 THEN nonce - 1 ELSE next

\* release_unbroadcast_nonce: only the newest reservation can be given back.
Released(next, nonce) == IF next = nonce + 1 THEN nonce ELSE next

\* Mutant: one nonce too many is skipped.
AdvancedTooFar(next, nonce) == IF nonce + 1 > next THEN nonce + 2 ELSE next

\* advance_after_persisted_reservation
AdvancedPast(next, nonce) == IF nonce + 1 > next THEN nonce + 1 ELSE next

\* Mutant: the queued transactions are not looked at.
OnchainStartupNonce(onchain, queued) == {onchain}

\* effective_startup_nonce: the on-chain nonce or one past the highest nonce of a
\* queued transaction, whichever is larger.  The set holds exactly that nonce.
EffectiveStartupNonce(onchain, queued) ==
  LET S == {onchain} \cup {n + 1 : n \in queued}
  IN  {m \in S : \A n \in S : n <= m}
=============================================================================
