----------------------------- MODULE MCRequests -----------------------------
(* Two requests to one relayer, of a user or of nobody, with windows of two *)
(* seconds.                                                                 *)
EXTENDS Requests, TLC

CONSTANTS r1, r2, u1, x1, e1, d1, d2

MCUser == {u1}
MCRelayer == {x1}
MCRelayerLimits == [tx |-> 2, signing |-> 1, window |-> 2]
MCUserLimits == [tx |-> 1, signing |-> 1, window |-> 2]

Asks(kind, key, ext, digest) ==
  [kind |-> kind, key |-> key, relayer |-> x1, ext |-> ext, digest |-> digest]

MCWanted ==
  {Asks("send", u1, e1, d1), Asks("send", NoKey, e1, d2),
   Asks("sign_text", u1, NoExternalId, d1), Asks("cancel", u1, NoExternalId, d1)}

Requesters == Permutations(Request)
=============================================================================
