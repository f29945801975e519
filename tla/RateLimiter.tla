----------------------------- MODULE RateLimiter -----------------------------
(***************************************************************************)
(* The rate limiter (rate_limiting/rate_limiter.rs).  A request is checked  *)
(* against three usage counters, then charged to them, then commits or is   *)
(* given its charges back by the task its dropped reservation spawns.       *)
(*                                                                          *)
(* Every counter has a lock of its own, held for one step: what a request   *)
(* was told by its checks may be stale when it charges.  The time a step    *)
(* uses is read before it queues for the lock, so it lies anywhere between  *)
(* the request's previous step and now.                                     *)
(***************************************************************************)
EXTENDS Integers, FiniteSets

CONSTANTS
  Slot,           \* the requests that can be in flight together
  User,           \* rate limit keys
  Relayer,        \* addresses of relayers
  RelayerLimits,  \* relayer_limits of the configuration, or NoLimits
  GlobalLimits,   \* user_limits.global, or NoLimits
  UserLimits,     \* user_limits.per_relayer, or NoLimits
  NoLimits,
  NoUsage,        \* a counter that was never written
  MaxClock        \* bound: seconds a behaviour lasts

Op == {"tx", "signing"}

LimitSet == [tx : Nat, signing : Nat, window : Nat \ {0}]

ASSUME LimitsAssumption ==
  /\ NoLimits \notin LimitSet
  /\ {RelayerLimits, GlobalLimits, UserLimits} \subseteq LimitSet \cup {NoLimits}
ASSUME NoUsageAssumption == NoUsage \notin [count : Nat, start : Nat]
ASSUME SlotAssumption == IsFiniteSet(Slot)
ASSUME ClockAssumption == MaxClock \in Nat

\* The limits of a user on a relayer fall back to those of the relayer, then to a default.
LimitsForUser ==
  IF UserLimits # NoLimits THEN UserLimits
  ELSE IF RelayerLimits # NoLimits THEN RelayerLimits
  ELSE [tx |-> 100, signing |-> 50, window |-> 60]

LimitsOf(scope) ==
  IF scope = "relayer" THEN RelayerLimits
  ELSE IF scope = "global" THEN GlobalLimits
  ELSE LimitsForUser

Scope == {"relayer", "global", "user"}
ConfiguredScopes == {scope \in Scope : LimitsOf(scope) # NoLimits}

\* Of the scopes that are left, the one that is checked next; and the one that is charged,
\* or given its charge back, next.
NextToCheck(left) ==
  IF "relayer" \in left THEN "relayer" ELSE IF "global" \in left THEN "global" ELSE "user"

NextToCharge(left) ==
  IF "user" \in left THEN "user" ELSE IF "global" \in left THEN "global" ELSE "relayer"

Profile == [user : User, relayer : Relayer, op : Op]

\* The counter of a scope that a request is counted in.
KeyOf(scope, p) ==
  [scope |-> scope,
   user |-> IF scope = "user" THEN p.user ELSE "any",
   relayer |-> IF scope = "global" THEN "any" ELSE p.relayer,
   op |-> p.op]

Key == {KeyOf(scope, p) : scope \in Scope, p \in Profile}

LimitOf(scope, p) == LimitsOf(scope)[p.op]

VARIABLES
  clock,   \* now, in seconds
  usage,   \* usage_cache, global_usage_cache and relayer_usage_cache
  slot     \* what each request is doing with the limiter

limiterVars == <<clock, usage, slot>>

UsageWindow == [count : Nat, start : Nat]
SlotIdle == [at |-> "idle"]

LimiterInit ==
  /\ clock = 0
  /\ usage = [k \in Key |-> NoUsage]
  /\ slot = [s \in Slot |-> SlotIdle]

-----------------------------------------------------------------------------
WindowStart(t, w) == (t \div w) * w

\* duration_since fails when the window starts after the time read: that counts as expired.
Expired(u, t, w) == t < u.start \/ t - u.start > w

UsageAt(k, t, w) ==
  IF usage[k] = NoUsage THEN [count |-> 0, start |-> WindowStart(t, w)] ELSE usage[k]

\* The count a request would bring the counter to.
CurrentUsage(k, t, w) ==
  IF Expired(UsageAt(k, t, w), t, w) THEN 1 ELSE UsageAt(k, t, w).count + 1

\* Mutant: a new window goes on from the count of the last one.
ChargedOnTop(k, t, w) ==
  IF Expired(UsageAt(k, t, w), t, w)
    THEN [count |-> UsageAt(k, t, w).count + 1, start |-> WindowStart(t, w)]
    ELSE [UsageAt(k, t, w) EXCEPT !.count = @ + 1]

Charged(k, t, w) ==
  IF Expired(UsageAt(k, t, w), t, w)
    THEN [count |-> 1, start |-> WindowStart(t, w)]
    ELSE [UsageAt(k, t, w) EXCEPT !.count = @ + 1]

\* Mutant: a count of zero wraps around (to any large number).
RevertedWrapping(u) ==
  IF u = NoUsage THEN u
  ELSE IF u.count > 0 THEN [u EXCEPT !.count = @ - 1] ELSE [u EXCEPT !.count = 1000]

\* What giving a charge back leaves, whichever window the counter is in by now.
Reverted(u) ==
  IF u # NoUsage /\ u.count > 0 THEN [u EXCEPT !.count = @ - 1] ELSE u

-----------------------------------------------------------------------------
\* A slot goes through the scopes of a phase one by one, then enters the next phase.
SlotAt(s, phase) == slot[s].at = phase

At(s, phase, left) ==
  [at |-> phase, profile |-> slot[s].profile, left |-> left, since |-> clock]

GoOn(s, phase, left, next) == IF left # {} THEN At(s, phase, left) ELSE next

\* check_and_reserve is entered with a key.
Begin(s, p) ==
  /\ SlotAt(s, "idle")
  /\ slot' = [slot EXCEPT ![s] = [at |-> "checking", profile |-> p,
                                  left |-> ConfiguredScopes, since |-> clock]]
  /\ UNCHANGED <<clock, usage>>

WithinLimit(scope, p, t) ==
  CurrentUsage(KeyOf(scope, p), t, LimitsOf(scope).window) <= LimitsOf(scope)[p.op]

\* check_relayer_limits, check_global_user_limits, check_user_limits.
Check(s) ==
  /\ SlotAt(s, "checking")
  /\ LET scope == NextToCheck(slot[s].left)
     IN /\ \E t \in slot[s].since .. clock : WithinLimit(scope, slot[s].profile, t)
        /\ slot' = [slot EXCEPT ![s] = GoOn(s, "checking", slot[s].left \ {scope},
                                            At(s, "charging", ConfiguredScopes))]
  /\ UNCHANGED <<clock, usage>>

\* LimitExceeded: nothing was charged yet.
Exceed(s) ==
  /\ SlotAt(s, "checking")
  /\ \E t \in slot[s].since .. clock :
       ~WithinLimit(NextToCheck(slot[s].left), slot[s].profile, t)
  /\ slot' = [slot EXCEPT ![s] = SlotIdle]
  /\ UNCHANGED <<clock, usage>>

\* reserve_user_operation, reserve_global_user_operation, reserve_relayer_operation: the
\* limit is not looked at again.
Charge(s) ==
  /\ SlotAt(s, "charging")
  /\ LET scope == NextToCharge(slot[s].left)
         k == KeyOf(scope, slot[s].profile)
     IN /\ \E t \in slot[s].since .. clock :
             usage' = [usage EXCEPT ![k] = Charged(k, t, LimitsOf(scope).window)]
        /\ slot' = [slot EXCEPT ![s] = GoOn(s, "charging", slot[s].left \ {scope},
                                            At(s, "held", {}))]
  /\ UNCHANGED clock

\* RateLimitReservation::commit.
Commit(s) ==
  /\ SlotAt(s, "held")
  /\ slot' = [slot EXCEPT ![s] = SlotIdle]
  /\ UNCHANGED <<clock, usage>>

\* Drop for RateLimitReservation: a task is spawned that gives the charges back.
DropReservation(s) ==
  /\ SlotAt(s, "held")
  /\ slot' = [slot EXCEPT ![s] = At(s, "reverting", ConfiguredScopes)]
  /\ UNCHANGED <<clock, usage>>

\* revert_user_operation, revert_global_user_operation, revert_relayer_operation.
Revert(s) ==
  /\ SlotAt(s, "reverting")
  /\ LET scope == NextToCharge(slot[s].left)
         k == KeyOf(scope, slot[s].profile)
     IN /\ usage' = [usage EXCEPT ![k] = Reverted(usage[k])]
        /\ slot' = [slot EXCEPT ![s] = GoOn(s, "reverting", slot[s].left \ {scope}, SlotIdle)]
  /\ UNCHANGED clock

\* The handler's future is dropped between two locks of check_and_reserve: there is no
\* reservation yet whose drop could give back what was charged.
Abandon(s) ==
  /\ slot[s].at \in {"checking", "charging"}
  /\ slot' = [slot EXCEPT ![s] = SlotIdle]
  /\ UNCHANGED <<clock, usage>>

Tick ==
  /\ clock < MaxClock
  /\ clock' = clock + 1
  /\ UNCHANGED <<usage, slot>>

LimiterNext ==
  \/ \E s \in Slot :
       \/ \E p \in Profile : Begin(s, p)
       \/ Check(s) \/ Exceed(s) \/ Charge(s) \/ Commit(s) \/ DropReservation(s)
       \/ Revert(s) \/ Abandon(s)
  \/ Tick

LimiterSpec == LimiterInit /\ [][LimiterNext]_limiterVars

-----------------------------------------------------------------------------
\* What a slot did with a scope: it was checked, and not charged yet.
Unpaid(s, scope) ==
  \/ SlotAt(s, "checking") /\ scope \notin slot[s].left
  \/ SlotAt(s, "charging") /\ scope \in slot[s].left

\* The limits are checked and charged under separate locks, with a clock read before each:
\* however the requests interleave and whatever is given back meanwhile, a counter is never
\* further over its limit than the other requests that were in flight can explain.
OvershootBounded ==
  \A p \in Profile, scope \in ConfiguredScopes :
    LET u == usage[KeyOf(scope, p)] IN
    u # NoUsage => u.count <= LimitsOf(scope)[p.op] + Cardinality(Slot) - 1
=============================================================================
