--------------------------- MODULE RequestsProofs ---------------------------
(***************************************************************************)
(* Proofs about the rate limiter and the requests it counts.                *)
(***************************************************************************)
EXTENDS Requests, FiniteSetTheorems, TLAPS

-----------------------------------------------------------------------------
(***************************************************************************)
(* Arithmetic of windows, and the keys of counters.                         *)
(***************************************************************************)
LEMMA WindowStartBounds ==
  ASSUME NEW t \in Nat, NEW w \in Nat \ {0}
  PROVE  WindowStart(t, w) \in Nat /\ WindowStart(t, w) <= t
  BY DEF WindowStart

LEMMA KeyScope ==
  ASSUME NEW s1 \in Scope, NEW s2 \in Scope, NEW p1 \in Profile, NEW p2 \in Profile,
         KeyOf(s1, p1) = KeyOf(s2, p2)
  PROVE  s1 = s2 /\ p1.op = p2.op
<1>1. KeyOf(s1, p1).scope = KeyOf(s2, p2).scope /\ KeyOf(s1, p1).op = KeyOf(s2, p2).op
  OBVIOUS
<1>. QED  BY <1>1 DEF KeyOf

LEMMA LimitsType ==
  ASSUME NEW scope \in ConfiguredScopes
  PROVE  scope \in Scope /\ LimitsOf(scope) \in LimitSet
<1>1. LimitsForUser \in LimitSet
  BY LimitsAssumption DEF LimitsForUser, LimitSet
<1>. QED  BY <1>1, LimitsAssumption DEF ConfiguredScopes, LimitsOf, Scope

-----------------------------------------------------------------------------
(***************************************************************************)
(* The type of the limiter.  No window starts in the future, and no step    *)
(* of a slot lies in the future.                                            *)
(***************************************************************************)
Phases == {"checking", "charging", "held", "reverting"}
ActiveSlot == [at : Phases, profile : Profile, left : SUBSET ConfiguredScopes, since : Nat]

LimiterType ==
  /\ clock \in Nat
  /\ usage \in [Key -> UsageWindow \cup {NoUsage}]
  /\ \A k \in Key : usage[k] # NoUsage => usage[k].start <= clock
  /\ slot \in [Slot -> ActiveSlot \cup {SlotIdle}]
  /\ \A s \in Slot : slot[s] # SlotIdle => slot[s].since <= clock
  /\ \A s \in Slot : slot[s].at \in {"checking", "charging", "reverting"} => slot[s].left # {}

LEMMA ActiveSlots ==
  ASSUME LimiterType, NEW s \in Slot
  PROVE  /\ slot[s] = SlotIdle <=> SlotAt(s, "idle")
         /\ ~SlotAt(s, "idle") => slot[s] \in ActiveSlot
  BY DEF LimiterType, ActiveSlot, SlotIdle, SlotAt, Phases

LEMMA NextScopes ==
  ASSUME NEW left \in SUBSET ConfiguredScopes, left # {}
  PROVE  NextToCheck(left) \in left /\ NextToCharge(left) \in left
  BY DEF ConfiguredScopes, Scope, NextToCheck, NextToCharge

LEMMA ConfiguredUser ==
  "user" \in ConfiguredScopes
  BY LimitsAssumption DEF ConfiguredScopes, Scope, LimitsOf, LimitsForUser, LimitSet

LEMMA KeysTyped ==
  ASSUME NEW scope \in Scope, NEW p \in Profile
  PROVE  KeyOf(scope, p) \in Key
  BY DEF Key

LEMMA ChargedType ==
  ASSUME LimiterType, NEW k \in Key, NEW t \in Nat, t <= clock, NEW w \in Nat \ {0}
  PROVE  Charged(k, t, w) \in UsageWindow /\ Charged(k, t, w).start <= clock
<1>1. UsageAt(k, t, w) \in UsageWindow /\ UsageAt(k, t, w).start <= clock
  BY WindowStartBounds DEF UsageAt, LimiterType, UsageWindow
<1>2. CASE Expired(UsageAt(k, t, w), t, w)
  BY <1>1, <1>2, WindowStartBounds DEF Charged, UsageWindow, LimiterType
<1>3. CASE ~Expired(UsageAt(k, t, w), t, w)
  BY <1>1, <1>3 DEF Charged, UsageWindow, LimiterType
<1>. QED  BY <1>2, <1>3

LEMMA LimiterTypeInit ==
  LimiterInit => LimiterType
  BY DEF LimiterInit, LimiterType, SlotIdle

LEMMA LimiterTypeStep ==
  LimiterType /\ [LimiterNext]_limiterVars => LimiterType'
<1>. SUFFICES ASSUME LimiterType, [LimiterNext]_limiterVars
              PROVE  LimiterType'
  OBVIOUS
<1>1. ASSUME NEW s \in Slot, NEW p \in Profile, Begin(s, p)
      PROVE  LimiterType'
  BY <1>1, ConfiguredUser DEF Begin, LimiterType, ActiveSlot, Phases, SlotIdle
<1>2. ASSUME NEW s \in Slot, Check(s)
      PROVE  LimiterType'
  <2>. slot[s] \in ActiveSlot /\ slot[s].left # {}
    BY <1>2, ActiveSlots DEF Check, SlotAt, LimiterType
  <2>. DEFINE rest == slot[s].left \ {NextToCheck(slot[s].left)}
              x == GoOn(s, "checking", rest, At(s, "charging", ConfiguredScopes))
  <2>1. usage' = usage /\ clock' = clock /\ slot' = [slot EXCEPT ![s] = x]
    BY <1>2 DEF Check
  <2>2. x \in ActiveSlot /\ x.left # {} /\ x.since = clock
    BY ConfiguredUser DEF At, GoOn, ActiveSlot, Phases, LimiterType
  <2>. HIDE DEF x
  <2>. QED  BY <2>1, <2>2 DEF LimiterType, ActiveSlot, SlotIdle
<1>3. ASSUME NEW s \in Slot, Charge(s)
      PROVE  LimiterType'
  <2>. DEFINE scope == NextToCharge(slot[s].left)
              k == KeyOf(scope, slot[s].profile)
              x == GoOn(s, "charging", slot[s].left \ {scope}, At(s, "held", {}))
  <2>1. slot[s] \in ActiveSlot /\ slot[s].left # {}
    BY <1>3, ActiveSlots DEF Charge, SlotAt, LimiterType
  <2>2. scope \in ConfiguredScopes /\ k \in Key /\ LimitsOf(scope).window \in Nat \ {0}
    BY <2>1, NextScopes, LimitsType, KeysTyped DEF ActiveSlot, LimitSet
  <2>3. PICK t \in slot[s].since .. clock :
          usage' = [usage EXCEPT ![k] = Charged(k, t, LimitsOf(scope).window)]
    BY <1>3 DEF Charge
  <2>4. t \in Nat /\ t <= clock
    BY <2>1 DEF ActiveSlot, LimiterType
  <2>5. /\ Charged(k, t, LimitsOf(scope).window) \in UsageWindow
        /\ Charged(k, t, LimitsOf(scope).window).start <= clock
    BY <2>2, <2>4, ChargedType
  <2>6. clock' = clock /\ slot' = [slot EXCEPT ![s] = x]
    BY <1>3 DEF Charge
  <2>8. x \in ActiveSlot /\ x.since = clock /\ (x.at # "held" => x.left # {})
    BY <2>1 DEF At, GoOn, ActiveSlot, Phases, LimiterType
  <2>. HIDE DEF k, x
  <2>7. /\ usage' \in [Key -> UsageWindow \cup {NoUsage}]
        /\ \A j \in Key : usage'[j] # NoUsage => usage'[j].start <= clock
    BY <2>2, <2>3, <2>5 DEF LimiterType
  <2>. QED  BY <2>6, <2>7, <2>8 DEF LimiterType, ActiveSlot, SlotIdle
<1>4. ASSUME NEW s \in Slot, Commit(s) \/ Exceed(s) \/ Abandon(s)
      PROVE  LimiterType'
  BY <1>4 DEF Commit, Exceed, Abandon, LimiterType, SlotIdle
<1>5. ASSUME NEW s \in Slot, DropReservation(s)
      PROVE  LimiterType'
  <2>. slot[s] \in ActiveSlot
    BY <1>5, ActiveSlots DEF DropReservation, SlotAt, LimiterType
  <2>. QED  BY <1>5, ConfiguredUser DEF DropReservation, At, LimiterType, ActiveSlot, Phases, SlotIdle
<1>6. ASSUME NEW s \in Slot, Revert(s)
      PROVE  LimiterType'
  <2>. DEFINE k == KeyOf(NextToCharge(slot[s].left), slot[s].profile)
              rest == slot[s].left \ {NextToCharge(slot[s].left)}
              x == GoOn(s, "reverting", rest, SlotIdle)
  <2>1. slot[s] \in ActiveSlot /\ slot[s].left # {}
    BY <1>6, ActiveSlots DEF Revert, SlotAt, LimiterType
  <2>2. k \in Key
    BY <2>1, NextScopes, LimitsType, KeysTyped DEF ActiveSlot
  <2>3. /\ usage' = [usage EXCEPT ![k] = Reverted(usage[k])] /\ clock' = clock
        /\ slot' = [slot EXCEPT ![s] = x]
    BY <1>6 DEF Revert
  <2>6. /\ x \in ActiveSlot \cup {SlotIdle}
        /\ x # SlotIdle => x.since = clock /\ x.left # {}
    BY <2>1 DEF At, GoOn, ActiveSlot, Phases, LimiterType
  <2>. HIDE DEF k, x
  <2>4. /\ Reverted(usage[k]) \in UsageWindow \cup {NoUsage}
        /\ Reverted(usage[k]) # NoUsage => Reverted(usage[k]).start <= clock
    BY <2>2, NoUsageAssumption DEF Reverted, LimiterType, UsageWindow
  <2>5. /\ usage' \in [Key -> UsageWindow \cup {NoUsage}]
        /\ \A j \in Key : usage'[j] # NoUsage => usage'[j].start <= clock
    BY <2>2, <2>3, <2>4 DEF LimiterType
  <2>. QED  BY <2>3, <2>5, <2>6 DEF LimiterType, ActiveSlot, SlotIdle
<1>7. CASE Tick
  BY <1>7 DEF Tick, LimiterType, UsageWindow, ActiveSlot
<1>8. CASE UNCHANGED limiterVars
  BY <1>8 DEF limiterVars, LimiterType
<1>. QED  BY <1>1, <1>2, <1>3, <1>4, <1>5, <1>6, <1>7, <1>8 DEF LimiterNext

-----------------------------------------------------------------------------
(***************************************************************************)
(* Why a counter stays within its bound.  A slot is latent for a counter    *)
(* when it may charge it without being told of its present count: it was    *)
(* checked and not charged, in the counter's window, or it goes by a clock  *)
(* it read before that window.  What is counted and what is latent stay     *)
(* together within the limit and the number of other slots: a check that    *)
(* adds a latent slot saw the count below the limit, a charge turns a       *)
(* latent slot into a count of one, and a new window starts with the count  *)
(* of the slot that opens it.                                               *)
(***************************************************************************)
Counts(s, scope, p) ==
  ~SlotAt(s, "idle") /\ KeyOf(scope, slot[s].profile) = KeyOf(scope, p)

Latent(scope, p) ==
  {s \in Slot :
     /\ Counts(s, scope, p)
     /\ \/ /\ Unpaid(s, scope)
           /\ slot[s].since <= usage[KeyOf(scope, p)].start + LimitsOf(scope).window
        \/ /\ SlotAt(s, "checking") /\ scope \in slot[s].left
           /\ slot[s].since < usage[KeyOf(scope, p)].start}

Within(scope, p) ==
  usage[KeyOf(scope, p)] # NoUsage =>
    usage[KeyOf(scope, p)].count + Cardinality(Latent(scope, p))
      <= LimitsOf(scope)[p.op] + Cardinality(Slot) - 1

\* Only a limit that allows something lets a check pass.
PassedAllows(scope) ==
  \A s \in Slot : Unpaid(s, scope) => LimitsOf(scope)[slot[s].profile.op] >= 1

OvershootInv ==
  \A scope \in ConfiguredScopes : PassedAllows(scope) /\ \A p \in Profile : Within(scope, p)

LEMMA LimitsNat ==
  ASSUME NEW scope \in ConfiguredScopes, NEW p \in Profile
  PROVE  LimitsOf(scope)[p.op] \in Nat /\ LimitsOf(scope).window \in Nat \ {0}
  BY LimitsType DEF LimitSet, Profile, Op

LEMMA SlotCards ==
  ASSUME NEW S \in SUBSET Slot
  PROVE  /\ IsFiniteSet(S) /\ Cardinality(S) \in Nat /\ Cardinality(Slot) \in Nat
         /\ Cardinality(S) <= Cardinality(Slot)
         /\ \A T \in SUBSET S : Cardinality(T) <= Cardinality(S)
         /\ \A s \in S : Cardinality(S \ {s}) = Cardinality(S) - 1
  BY SlotAssumption, FS_Subset, FS_CardinalityType, FS_RemoveElement

\* The count does not grow and no slot becomes latent.
LEMMA WithinKept ==
  ASSUME NEW scope \in ConfiguredScopes, NEW p \in Profile,
         LimiterType, LimiterType', Within(scope, p),
         usage'[KeyOf(scope, p)] # NoUsage => usage[KeyOf(scope, p)] # NoUsage,
         usage'[KeyOf(scope, p)] # NoUsage =>
           usage'[KeyOf(scope, p)].count <= usage[KeyOf(scope, p)].count,
         usage'[KeyOf(scope, p)] # NoUsage => Latent(scope, p)' \subseteq Latent(scope, p)
  PROVE  Within(scope, p)'
<1>. DEFINE k == KeyOf(scope, p)
<1>. SUFFICES ASSUME usage'[k] # NoUsage
              PROVE  usage'[k].count + Cardinality(Latent(scope, p)')
                       <= LimitsOf(scope)[p.op] + Cardinality(Slot) - 1
  BY DEF Within
<1>1. k \in Key
  BY LimitsType, KeysTyped
<1>. HIDE DEF k
<1>2. usage[k].count \in Nat /\ usage'[k].count \in Nat /\ usage'[k].count <= usage[k].count
  BY <1>1 DEF LimiterType, UsageWindow, k
<1>3. Latent(scope, p) \in SUBSET Slot
  BY DEF Latent
<1>4. Latent(scope, p)' \subseteq Latent(scope, p)
  BY DEF k
<1>5. /\ Cardinality(Latent(scope, p)') <= Cardinality(Latent(scope, p))
      /\ Cardinality(Latent(scope, p)) \in Nat /\ Cardinality(Latent(scope, p)') \in Nat
  BY <1>3, <1>4, SlotCards
<1>6. usage[k].count + Cardinality(Latent(scope, p))
        <= LimitsOf(scope)[p.op] + Cardinality(Slot) - 1
  BY DEF Within, k
<1>. QED  BY <1>2, <1>5, <1>6, LimitsNat, SlotCards

LEMMA OvershootInit ==
  LimiterInit => OvershootInv
  BY LimitsType, KeysTyped
     DEF LimiterInit, OvershootInv, PassedAllows, Unpaid, SlotAt, SlotIdle, Within

\* A slot that leaves, or that is given its charge back.
LEMMA WithinLeaving ==
  ASSUME LimiterType, LimiterType', OvershootInv,
         NEW s \in Slot,
         Commit(s) \/ Exceed(s) \/ Abandon(s) \/ DropReservation(s) \/ Revert(s)
  PROVE  OvershootInv'
<1>1. /\ \A q \in Slot \ {s} : slot'[q] = slot[q]
      /\ slot'[s].at \in {"idle", "reverting"}
  BY DEF Commit, Exceed, Abandon, DropReservation, Revert, LimiterType, At, GoOn, SlotIdle
<1>2. ASSUME NEW k \in Key, usage'[k] # NoUsage
      PROVE  /\ usage[k] # NoUsage
             /\ usage'[k].count <= usage[k].count /\ usage'[k].start = usage[k].start
  <2>1. usage'[k] = usage[k] \/ usage'[k] = Reverted(usage[k])
    <3>1. CASE Revert(s)
      <4>. DEFINE j == KeyOf(NextToCharge(slot[s].left), slot[s].profile)
      <4>1. usage' = [usage EXCEPT ![j] = Reverted(usage[j])]
        BY <3>1 DEF Revert
      <4>. HIDE DEF j
      <4>. QED  BY <4>1 DEF LimiterType
    <3>2. CASE Commit(s) \/ Exceed(s) \/ Abandon(s) \/ DropReservation(s)
      BY <3>2 DEF Commit, Exceed, Abandon, DropReservation
    <3>. QED  BY <3>1, <3>2
  <2>2. usage[k] # NoUsage => usage[k].count \in Nat /\ usage[k].start \in Nat
    BY DEF LimiterType, UsageWindow
  <2>. QED  BY <1>2, <2>1, <2>2 DEF Reverted, LimiterType, UsageWindow
<1>3. ASSUME NEW scope \in ConfiguredScopes
      PROVE  PassedAllows(scope)'
  BY <1>1 DEF PassedAllows, OvershootInv, Unpaid, SlotAt
<1>4. ASSUME NEW scope \in ConfiguredScopes, NEW p \in Profile
      PROVE  Within(scope, p)'
  <2>1. KeyOf(scope, p) \in Key
    BY <1>4, LimitsType, KeysTyped
  <2>2. ASSUME usage'[KeyOf(scope, p)] # NoUsage
        PROVE  Latent(scope, p)' \subseteq Latent(scope, p)
    BY <1>1, <1>2, <2>1, <2>2 DEF Latent, Counts, Unpaid, SlotAt
  <2>. QED  BY <1>2, <2>1, <2>2, WithinKept DEF OvershootInv
<1>. QED  BY <1>3, <1>4 DEF OvershootInv

\* A slot that begins reads a clock no window is ahead of.
LEMMA WithinBegin ==
  ASSUME LimiterType, LimiterType', OvershootInv, NEW s \in Slot, NEW d \in Profile, Begin(s, d)
  PROVE  OvershootInv'
<1>1. /\ \A q \in Slot \ {s} : slot'[q] = slot[q]
      /\ slot'[s] = [at |-> "checking", profile |-> d, left |-> ConfiguredScopes,
                     since |-> clock]
      /\ usage' = usage
  BY DEF Begin, LimiterType
<1>2. ASSUME NEW scope \in ConfiguredScopes
      PROVE  PassedAllows(scope)'
  BY <1>1, <1>2 DEF PassedAllows, OvershootInv, Unpaid, SlotAt
<1>3. ASSUME NEW scope \in ConfiguredScopes, NEW p \in Profile
      PROVE  Within(scope, p)'
  <2>1. KeyOf(scope, p) \in Key
    BY <1>3, LimitsType, KeysTyped
  <2>2. ASSUME usage'[KeyOf(scope, p)] # NoUsage
        PROVE  Latent(scope, p)' \subseteq Latent(scope, p)
    <3>1. /\ usage[KeyOf(scope, p)].start \in Nat /\ usage[KeyOf(scope, p)].start <= clock
          /\ clock \in Nat
      BY <1>1, <2>1, <2>2 DEF LimiterType, UsageWindow
    <3>. QED  BY <1>1, <3>1 DEF Latent, Counts, Unpaid, SlotAt
  <2>3. usage[KeyOf(scope, p)] # NoUsage => usage[KeyOf(scope, p)].count \in Nat
    BY <2>1 DEF LimiterType, UsageWindow
  <2>. QED  BY <1>1, <2>2, <2>3, WithinKept DEF OvershootInv
<1>. QED  BY <1>2, <1>3 DEF OvershootInv

\* What a check that passes tells, and what it leaves.
LEMMA CheckEffect ==
  ASSUME LimiterType, NEW s \in Slot, Check(s)
  PROVE  /\ usage' = usage /\ clock' = clock
         /\ \A q \in Slot \ {s} : slot'[q] = slot[q]
         /\ slot[s] \in ActiveSlot /\ SlotAt(s, "checking")
         /\ NextToCheck(slot[s].left) \in slot[s].left
         /\ slot'[s].profile = slot[s].profile /\ slot'[s].since = clock
         /\ \/ /\ slot'[s].at = "checking"
               /\ slot'[s].left = slot[s].left \ {NextToCheck(slot[s].left)}
            \/ /\ slot'[s].at = "charging" /\ slot'[s].left = ConfiguredScopes
               /\ slot[s].left = {NextToCheck(slot[s].left)}
         /\ slot[s].since \in Nat /\ slot[s].since <= clock
<1>1. slot[s] \in ActiveSlot /\ slot[s].left # {}
  BY ActiveSlots DEF Check, SlotAt, LimiterType
<1>2. NextToCheck(slot[s].left) \in slot[s].left
  BY <1>1, NextScopes DEF ActiveSlot
<1>. DEFINE sc == NextToCheck(slot[s].left)
            x == GoOn(s, "checking", slot[s].left \ {sc}, At(s, "charging", ConfiguredScopes))
<1>3. usage' = usage /\ clock' = clock /\ slot' = [slot EXCEPT ![s] = x] /\ SlotAt(s, "checking")
  BY DEF Check
<1>4. /\ x.profile = slot[s].profile /\ x.since = clock
      /\ \/ x.at = "checking" /\ x.left = slot[s].left \ {sc}
         \/ x.at = "charging" /\ x.left = ConfiguredScopes /\ slot[s].left \ {sc} = {}
  BY DEF GoOn, At
<1>5. slot'[s] = x /\ \A q \in Slot \ {s} : slot'[q] = slot[q]
  <2>. HIDE DEF x
  <2>. QED  BY <1>3 DEF LimiterType
<1>6. slot[s].since \in Nat /\ slot[s].since <= clock
  BY <1>1, <1>3 DEF LimiterType, ActiveSlot, SlotAt, SlotIdle
<1>. QED  BY <1>1, <1>2, <1>3, <1>4, <1>5, <1>6

LEMMA CheckPasses ==
  ASSUME LimiterType, NEW s \in Slot, Check(s)
  PROVE  \E t \in Nat :
           /\ slot[s].since <= t /\ t <= clock
           /\ WithinLimit(NextToCheck(slot[s].left), slot[s].profile, t)
<1>1. PICK t \in slot[s].since .. clock :
        WithinLimit(NextToCheck(slot[s].left), slot[s].profile, t)
  BY DEF Check
<1>2. slot[s].since \in Nat /\ clock \in Nat
  BY CheckEffect DEF LimiterType
<1>3. t \in Nat /\ slot[s].since <= t /\ t <= clock
  BY <1>2
<1>. QED  BY <1>1, <1>3

LEMMA CurrentUsagePositive ==
  ASSUME LimiterType, NEW k \in Key, NEW t \in Nat, NEW w \in Nat \ {0}
  PROVE  CurrentUsage(k, t, w) \in Nat /\ CurrentUsage(k, t, w) >= 1
<1>1. UsageAt(k, t, w) \in UsageWindow
  BY WindowStartBounds DEF UsageAt, LimiterType, UsageWindow
<1>. QED  BY <1>1 DEF CurrentUsage, UsageWindow

LEMMA WithinCheck ==
  ASSUME LimiterType, LimiterType', OvershootInv, NEW s \in Slot, Check(s)
  PROVE  OvershootInv'
<1>. DEFINE sc == NextToCheck(slot[s].left)
            d == slot[s].profile
<1>1. sc \in ConfiguredScopes /\ d \in Profile /\ slot[s].left \subseteq ConfiguredScopes
  BY CheckEffect DEF ActiveSlot
<1>2. PICK t \in Nat : slot[s].since <= t /\ t <= clock /\ WithinLimit(sc, d, t)
  BY CheckPasses
<1>3. KeyOf(sc, d) \in Key /\ LimitsOf(sc).window \in Nat \ {0} /\ LimitsOf(sc)[d.op] \in Nat
  BY <1>1, LimitsType, KeysTyped, LimitsNat
<1>4. LimitsOf(sc)[d.op] >= 1
  <2>. DEFINE c == CurrentUsage(KeyOf(sc, d), t, LimitsOf(sc).window)
  <2>1. c \in Nat /\ c >= 1
    BY <1>3, CurrentUsagePositive
  <2>2. c <= LimitsOf(sc)[d.op]
    BY <1>2 DEF WithinLimit
  <2>. HIDE DEF c
  <2>. QED  BY <1>3, <2>1, <2>2
<1>5. ASSUME NEW scope \in ConfiguredScopes
      PROVE  PassedAllows(scope)'
  <2>1. ASSUME NEW q \in Slot, Unpaid(q, scope)'
        PROVE  LimitsOf(scope)[slot'[q].profile.op] >= 1
    <3>1. CASE q # s
      BY <2>1, <3>1, CheckEffect DEF OvershootInv, PassedAllows, Unpaid, SlotAt
    <3>2. CASE q = s /\ scope = sc
      BY <3>2, <1>4, CheckEffect
    <3>3. CASE q = s /\ scope # sc
      <4>1. Unpaid(s, scope)
        BY <2>1, <3>3, CheckEffect DEF Unpaid, SlotAt
      <4>. QED  BY <4>1, <3>3, CheckEffect DEF OvershootInv, PassedAllows
    <3>. QED  BY <3>1, <3>2, <3>3
  <2>. QED  BY <2>1 DEF PassedAllows
<1>6. ASSUME NEW scope \in ConfiguredScopes, NEW p \in Profile
      PROVE  Within(scope, p)'
  <2>. DEFINE k == KeyOf(scope, p)
              w == LimitsOf(scope).window
  <2>. SUFFICES ASSUME usage[k] # NoUsage
                PROVE  Within(scope, p)'
    BY CheckEffect DEF Within
  <2>1. k \in Key /\ w \in Nat \ {0} /\ scope \in Scope /\ sc \in Scope
    BY <1>1, LimitsType, KeysTyped, LimitsNat
  <2>2. usage[k].count \in Nat /\ usage[k].start \in Nat /\ clock \in Nat
    BY <2>1 DEF LimiterType, UsageWindow
  <2>3. SUFFICES ASSUME ~(Latent(scope, p)' \subseteq Latent(scope, p))
                 PROVE  Within(scope, p)'
    BY <2>2, CheckEffect, WithinKept DEF OvershootInv
  \* Only the slot that was checked can be new, and only for the counter it was checked for.
  <2>4. s \in Latent(scope, p)' /\ s \notin Latent(scope, p)
    BY <2>3, CheckEffect DEF Latent, Counts, Unpaid, SlotAt
  <2>5. Counts(s, scope, p)
    BY <2>4, CheckEffect DEF Latent, Counts, SlotAt
  <2>6. clock <= usage[k].start + w /\ Unpaid(s, scope)'
    <3>1. \/ Unpaid(s, scope)' /\ clock <= usage[k].start + w
          \/ scope \in slot[s].left /\ clock < usage[k].start
      BY <2>4, CheckEffect DEF Latent, SlotAt
    <3>2. usage[k].start <= clock
      BY <2>1 DEF LimiterType
    <3>. QED  BY <2>2, <3>1, <3>2
  <2>7. scope = sc
    <3>1. CASE scope # sc
      <4>1. Unpaid(s, scope)
        BY <2>6, <3>1, CheckEffect DEF Unpaid, SlotAt
      <4>2. slot[s].since <= usage[k].start + w
        BY <2>1, <2>2, <2>6, CheckEffect
      <4>. QED  BY <2>4, <2>5, <4>1, <4>2 DEF Latent
    <3>. QED  BY <3>1
  <2>8. KeyOf(sc, d) = k /\ d.op = p.op
    <3>1. KeyOf(sc, d) = k
      BY <2>5, <2>7 DEF Counts
    <3>. QED  BY <3>1, <2>1, <1>1, KeyScope
  \* It went by a clock of the counter's window, and saw a count below the limit.
  <2>9. ~(slot[s].since < usage[k].start)
    BY <2>4, <2>5, <2>7, CheckEffect DEF Latent
  <2>10. ~Expired(usage[k], t, w)
    BY <1>2, <2>1, <2>2, <2>6, <2>9, CheckEffect DEF Expired
  <2>11. CurrentUsage(k, t, w) = usage[k].count + 1
    BY <2>10 DEF CurrentUsage, UsageAt
  <2>12. usage[k].count + 1 <= LimitsOf(scope)[p.op]
    BY <1>2, <2>7, <2>8, <2>11 DEF WithinLimit
  <2>13. Cardinality(Latent(scope, p)') <= Cardinality(Slot)
         /\ Cardinality(Latent(scope, p)') \in Nat /\ Cardinality(Slot) \in Nat
    <3>1. Latent(scope, p)' \in SUBSET Slot
      BY DEF Latent
    <3>. QED  BY <3>1, SlotCards
  <2>14. LimitsOf(scope)[p.op] \in Nat
    BY LimitsNat
  <2>. QED  BY <2>2, <2>12, <2>13, <2>14, CheckEffect DEF Within
<1>. QED  BY <1>5, <1>6 DEF OvershootInv

\* What a charge does to its own counter, and what it leaves.
LEMMA ChargeEffect ==
  ASSUME LimiterType, NEW s \in Slot, Charge(s)
  PROVE  LET sc == NextToCharge(slot[s].left)
             k == KeyOf(sc, slot[s].profile)
         IN /\ clock' = clock
            /\ slot[s] \in ActiveSlot /\ SlotAt(s, "charging") /\ sc \in slot[s].left
            /\ k \in Key
            /\ \E t \in Nat : /\ slot[s].since <= t /\ t <= clock
                              /\ usage'[k] = Charged(k, t, LimitsOf(sc).window)
            /\ \A j \in Key \ {k} : usage'[j] = usage[j]
            /\ \A q \in Slot \ {s} : slot'[q] = slot[q]
            /\ slot'[s].profile = slot[s].profile /\ slot'[s].since = clock
            /\ slot'[s].left = slot[s].left \ {sc}
            /\ slot'[s].at = "charging" \/ (slot'[s].at = "held" /\ slot'[s].left = {})
<1>. DEFINE sc == NextToCharge(slot[s].left)
            k == KeyOf(sc, slot[s].profile)
            x == GoOn(s, "charging", slot[s].left \ {sc}, At(s, "held", {}))
<1>1. slot[s] \in ActiveSlot /\ slot[s].left # {} /\ SlotAt(s, "charging")
  BY ActiveSlots DEF Charge, SlotAt, LimiterType
<1>2. sc \in slot[s].left /\ k \in Key
  BY <1>1, NextScopes, LimitsType, KeysTyped DEF ActiveSlot
<1>3. slot' = [slot EXCEPT ![s] = x] /\ clock' = clock
  BY DEF Charge
<1>4. PICK t \in slot[s].since .. clock :
        usage' = [usage EXCEPT ![k] = Charged(k, t, LimitsOf(sc).window)]
  BY DEF Charge
<1>5. t \in Nat /\ slot[s].since <= t /\ t <= clock
  BY <1>1 DEF ActiveSlot, LimiterType
<1>6. /\ x.profile = slot[s].profile /\ x.since = clock /\ x.left = slot[s].left \ {sc}
      /\ x.at = "charging" \/ (x.at = "held" /\ x.left = {})
  BY DEF GoOn, At
<1>7. slot'[s] = x /\ \A q \in Slot \ {s} : slot'[q] = slot[q]
  <2>. HIDE DEF x
  <2>. QED  BY <1>3 DEF LimiterType
<1>8. /\ usage'[k] = Charged(k, t, LimitsOf(sc).window)
      /\ \A j \in Key \ {k} : usage'[j] = usage[j]
  <2>. HIDE DEF k
  <2>. QED  BY <1>2, <1>4 DEF LimiterType
<1>. HIDE DEF x
<1>. QED  BY <1>1, <1>2, <1>3, <1>5, <1>6, <1>7, <1>8

LEMMA WithinCharge ==
  ASSUME LimiterType, LimiterType', OvershootInv, NEW s \in Slot, Charge(s)
  PROVE  OvershootInv'
<1>. DEFINE sc == NextToCharge(slot[s].left)
            d == slot[s].profile
            j == KeyOf(sc, d)
<1>1. sc \in ConfiguredScopes /\ d \in Profile /\ slot[s].left \subseteq ConfiguredScopes
  BY ChargeEffect DEF ActiveSlot
<1>2. ASSUME NEW scope \in ConfiguredScopes
      PROVE  PassedAllows(scope)'
  BY ChargeEffect DEF OvershootInv, PassedAllows, Unpaid, SlotAt
<1>3. ASSUME NEW scope \in ConfiguredScopes, NEW p \in Profile
      PROVE  Within(scope, p)'
  <2>. DEFINE k == KeyOf(scope, p)
              w == LimitsOf(scope).window
  <2>1. k \in Key /\ j \in Key /\ w \in Nat \ {0} /\ scope \in Scope /\ sc \in Scope
    BY <1>1, LimitsType, KeysTyped, LimitsNat
  <2>2. clock \in Nat /\ slot[s].since \in Nat /\ slot[s].since <= clock
    BY ChargeEffect DEF LimiterType, ActiveSlot, SlotAt, SlotIdle
  <2>3. CASE k # j
    <3>1. usage'[k] = usage[k]
      BY <2>1, <2>3, ChargeEffect
    <3>2. usage[k] # NoUsage => usage[k].count \in Nat /\ usage[k].start \in Nat
      BY <2>1 DEF LimiterType, UsageWindow
    <3>3. ASSUME usage'[k] # NoUsage
          PROVE  Latent(scope, p)' \subseteq Latent(scope, p)
      <4>1. ASSUME NEW q \in Latent(scope, p)'
            PROVE  q \in Latent(scope, p)
        <5>1. CASE q # s
          BY <3>1, <4>1, <5>1, ChargeEffect DEF Latent, Counts, Unpaid, SlotAt
        <5>2. CASE q = s
          <6>1. Unpaid(s, scope)' /\ Counts(s, scope, p)' /\ clock <= usage[k].start + w
            BY <3>1, <4>1, <5>2, ChargeEffect DEF Latent, Unpaid, SlotAt
          <6>2. Unpaid(s, scope) /\ Counts(s, scope, p)
            BY <6>1, ChargeEffect DEF Unpaid, Counts, SlotAt
          <6>3. slot[s].since <= usage[k].start + w
            BY <2>1, <2>2, <3>1, <3>2, <3>3, <6>1
          <6>. QED  BY <5>2, <6>2, <6>3 DEF Latent
        <5>. QED  BY <5>1, <5>2
      <4>. QED  BY <4>1
    <3>. QED  BY <3>1, <3>2, <3>3, WithinKept DEF OvershootInv
  <2>4. CASE k = j
    <3>1. scope = sc /\ d.op = p.op
      BY <2>1, <2>4, <1>1, KeyScope
    <3>2. PICK t \in Nat : /\ slot[s].since <= t /\ t <= clock
                           /\ usage'[k] = Charged(k, t, w)
      BY <2>4, <3>1, ChargeEffect
    <3>3. s \notin Latent(scope, p)' /\ Latent(scope, p)' \in SUBSET Slot
      BY <3>1, ChargeEffect DEF Latent, Unpaid, SlotAt
    <3>4. Unpaid(s, scope) /\ Counts(s, scope, p)
      BY <2>4, <3>1, ChargeEffect DEF Unpaid, Counts, SlotAt
    <3>5. LimitsOf(scope)[p.op] \in Nat /\ LimitsOf(scope)[p.op] >= 1
      BY <3>1, <3>4, LimitsNat DEF OvershootInv, PassedAllows
    <3>6. /\ Cardinality(Latent(scope, p)') \in Nat /\ Cardinality(Slot) \in Nat
          /\ Cardinality(Latent(scope, p)') <= Cardinality(Slot) - 1
      <4>1. Latent(scope, p)' \in SUBSET (Slot \ {s})
        BY <3>3
      <4>2. Cardinality(Slot \ {s}) = Cardinality(Slot) - 1
        BY SlotCards
      <4>3. /\ Cardinality(Latent(scope, p)') \in Nat /\ Cardinality(Slot) \in Nat
            /\ Cardinality(Latent(scope, p)') <= Cardinality(Slot \ {s})
        BY <4>1, <3>3, SlotCards
      <4>. QED  BY <4>2, <4>3
    \* A window that opens counts one.
    <3>7. CASE usage[k] = NoUsage \/ Expired(usage[k], t, w)
      <4>1. usage'[k].count = 1
        BY <2>1, <3>2, <3>7, WindowStartBounds
           DEF Charged, UsageAt, LimiterType, UsageWindow
      <4>. QED  BY <4>1, <3>5, <3>6 DEF Within
    \* Within a window the slot was latent, and is no more.
    <3>8. CASE usage[k] # NoUsage /\ ~Expired(usage[k], t, w)
      <4>1. usage[k].count \in Nat /\ usage[k].start \in Nat /\ usage[k] \in UsageWindow
        BY <2>1, <3>8 DEF LimiterType, UsageWindow
      <4>2. usage'[k].count = usage[k].count + 1 /\ usage'[k].start = usage[k].start
        BY <3>2, <3>8, <4>1 DEF Charged, UsageAt, UsageWindow
      <4>3. slot[s].since <= usage[k].start + w
        BY <2>1, <2>2, <3>2, <3>8, <4>1 DEF Expired
      <4>4. s \in Latent(scope, p)
        BY <3>4, <4>3 DEF Latent
      <4>5. Latent(scope, p)' \subseteq Latent(scope, p) \ {s}
        BY <3>3, <4>2, ChargeEffect DEF Latent, Counts, Unpaid, SlotAt
      <4>6. Latent(scope, p) \in SUBSET Slot
        BY DEF Latent
      <4>7. /\ Cardinality(Latent(scope, p)') <= Cardinality(Latent(scope, p) \ {s})
            /\ Cardinality(Latent(scope, p) \ {s}) = Cardinality(Latent(scope, p)) - 1
            /\ Cardinality(Latent(scope, p)) \in Nat
        <5>1. Latent(scope, p) \ {s} \in SUBSET Slot
          BY <4>6
        <5>. QED  BY <4>4, <4>5, <4>6, <5>1, SlotCards
      <4>8. usage[k].count + Cardinality(Latent(scope, p))
              <= LimitsOf(scope)[p.op] + Cardinality(Slot) - 1
        BY <3>8 DEF OvershootInv, Within
      <4>. QED  BY <4>1, <4>2, <4>7, <4>8, <3>5, <3>6 DEF Within
    <3>. QED  BY <3>7, <3>8
  <2>. QED  BY <2>3, <2>4
<1>. QED  BY <1>2, <1>3 DEF OvershootInv

LEMMA OvershootStep ==
  LimiterType /\ LimiterType' /\ OvershootInv /\ [LimiterNext]_limiterVars => OvershootInv'
<1>. SUFFICES ASSUME LimiterType, LimiterType', OvershootInv, [LimiterNext]_limiterVars
              PROVE  OvershootInv'
  OBVIOUS
<1>1. CASE Tick \/ UNCHANGED limiterVars
  BY <1>1 DEF Tick, limiterVars, OvershootInv, PassedAllows, Within, Latent, Counts, Unpaid,
              SlotAt
<1>. QED  BY <1>1, WithinBegin, WithinCheck, WithinCharge, WithinLeaving DEF LimiterNext

LEMMA InvBounds ==
  LimiterType /\ OvershootInv => OvershootBounded
<1>. SUFFICES ASSUME LimiterType, OvershootInv, NEW p \in Profile,
                     NEW scope \in ConfiguredScopes, usage[KeyOf(scope, p)] # NoUsage
              PROVE  usage[KeyOf(scope, p)].count
                       <= LimitsOf(scope)[p.op] + Cardinality(Slot) - 1
  BY DEF OvershootBounded
<1>1. Cardinality(Latent(scope, p)) \in Nat /\ Cardinality(Slot) \in Nat
  <2>1. Latent(scope, p) \in SUBSET Slot
    BY DEF Latent
  <2>. QED  BY <2>1, SlotCards
<1>2. usage[KeyOf(scope, p)].count \in Nat
  BY LimitsType, KeysTyped DEF LimiterType, UsageWindow
<1>. QED  BY <1>1, <1>2, LimitsNat DEF OvershootInv, Within

\* The counters of the limiter, for any number of slots, users, relayers, limits and seconds:
\* requests that pass their checks together overshoot a limit by no more than their number,
\* whatever is given back, to whichever window, and however late a clock is used.
THEOREM LimiterOvershoot == LimiterSpec => []OvershootBounded
<1>1. LimiterInit => LimiterType /\ OvershootInv
  BY LimiterTypeInit, OvershootInit
<1>2. LimiterType /\ OvershootInv /\ [LimiterNext]_limiterVars
      => LimiterType' /\ OvershootInv'
  BY LimiterTypeStep, OvershootStep
<1>3. LimiterType /\ OvershootInv => OvershootBounded
  BY InvBounds
<1>. QED  BY <1>1, <1>2, <1>3, PTL DEF LimiterSpec

-----------------------------------------------------------------------------
(***************************************************************************)
(* The handlers use the limiter as it is meant to be used.                  *)
(***************************************************************************)
Asked ==
  /\ DOMAIN pc = Request
  /\ ask \in [Request -> Demand \cup {Nobody}]
  /\ \A r \in Request : pc[r] # "out" => ask[r] \in Demand

LEMMA AskedInit ==
  Init => Asked
<1>. SUFFICES ASSUME Init
              PROVE  Asked
  OBVIOUS
<1>1. pc = [r \in Request |-> "out"] /\ ask = [r \in Request |-> Nobody]
  BY DEF Init
<1>. QED  BY <1>1 DEF Asked

LEMMA AskedStep ==
  Asked /\ [Next]_vars => Asked'
<1>. SUFFICES ASSUME Asked, [Next]_vars
              PROVE  Asked'
  OBVIOUS
<1>. USE DEF Asked
<1>1. ASSUME NEW r \in Request, NEW d \in Wanted, Arrive(r, d)
      PROVE  Asked'
  <2>1. d \in Demand
    BY RequestsAssumption
  <2>. QED  BY <1>1, <2>1 DEF Arrive, Goto
<1>2. ASSUME NEW r \in Request, Handler(r)
      PROVE  Asked'
  <2>1. ask' = ask
    BY <1>2 DEF Handler, Admission, Refuse, FindStored, EnterLimiter, Limited, BadBlobs, Lock,
                EditDone, EditFails, Signed, SignFails, AnswerStored, Prepare, AdmitFails,
                EstimationFails, Reserve, Saved, Beaten, SaveFails, Push
  <2>2. /\ pc[r] # "out"
        /\ DOMAIN pc' = Request /\ \A q \in Request \ {r} : pc'[q] = pc[q]
    <3>1. CASE Refuse(r) \/ FindStored(r)
      BY <3>1, RequestsAssumption DEF Refuse, FindStored, Answer, AnswerFromRow, FirstStep
    <3>4. CASE EnterLimiter(r)
      BY <3>4 DEF EnterLimiter, Answer, Goto
    <3>5. CASE Limited(r)
      BY <3>5 DEF Limited, Answer
    <3>2. CASE BadBlobs(r) \/ Lock(r) \/ EditDone(r) \/ EditFails(r) \/ Signed(r) \/ SignFails(r)
      BY <3>2 DEF BadBlobs, Lock, EditDone, EditFails, Signed, SignFails, Fail, Answer, Goto
    <3>3. CASE Admission(r)
      BY <3>3 DEF Admission, AnswerStored, Prepare, AdmitFails, EstimationFails, Reserve, Saved,
                  Beaten, SaveFails, Push, Fail, Answer, AnswerFromRow, Goto
    <3>. QED  BY <1>2, <3>1, <3>2, <3>3, <3>4, <3>5 DEF Handler
  <2>. QED  BY <2>1, <2>2
<1>3. ASSUME NEW r \in Request, HangUp(r)
      PROVE  Asked'
  BY <1>3 DEF HangUp, Answer
<1>4. ASSUME NEW r \in Request, GiveBack(r) \/ Settle(r)
      PROVE  Asked'
  BY <1>4 DEF GiveBack, Settle
<1>5. CASE (Tick /\ UNCHANGED requestVars) \/ UNCHANGED vars
  BY <1>5 DEF requestVars, vars
<1>. QED  BY <1>1, <1>2, <1>3, <1>4, <1>5 DEF Next

LEMMA RateKeyed ==
  ASSUME NEW d \in Demand, RateKey(d) # NoKey
  PROVE  LimiterProfile(d) \in Profile
  BY RequestsAssumption DEF RateKey, Demand, LimiterProfile, Profile, Op

LEMMA StepIsLimiterStep ==
  Asked /\ [Next]_vars => [LimiterNext]_limiterVars
<1>. SUFFICES ASSUME Asked, [Next]_vars
              PROVE  [LimiterNext]_limiterVars
  OBVIOUS
<1>1. ASSUME NEW r \in Request,
             \/ UNCHANGED limiterVars
             \/ Check(r) \/ Exceed(r) \/ Charge(r) \/ Commit(r) \/ DropReservation(r)
             \/ Revert(r) \/ Abandon(r)
      PROVE  [LimiterNext]_limiterVars
  BY <1>1 DEF LimiterNext, Request
<1>2. ASSUME NEW r \in Request, EnterLimiter(r)
      PROVE  [LimiterNext]_limiterVars
  <2>1. ask[r] \in Demand
    BY <1>2 DEF EnterLimiter, Asked
  <2>2. CASE RateKey(ask[r]) # NoKey /\ Begin(r, LimiterProfile(ask[r]))
    BY <2>1, <2>2, RateKeyed DEF LimiterNext, Request
  <2>. QED  BY <1>2, <2>2 DEF EnterLimiter, limiterVars
<1>3. ASSUME NEW r \in Request, Handler(r), ~EnterLimiter(r)
      PROVE  [LimiterNext]_limiterVars
  <2>1. CASE Refuse(r) \/ FindStored(r) \/ Lock(r) \/ Prepare(r) \/ Reserve(r) \/ Saved(r)
    BY <2>1 DEF Refuse, FindStored, Lock, Prepare, Reserve, Saved, limiterVars
  <2>2. CASE Limited(r)
    BY <2>2, <1>1 DEF Limited
  <2>3. CASE EditDone(r) \/ Signed(r) \/ Push(r)
    BY <2>3, <1>1 DEF EditDone, Signed, Push, Keep
  <2>4. CASE BadBlobs(r) \/ EditFails(r) \/ SignFails(r) \/ AdmitFails(r) \/ SaveFails(r)
    BY <2>4, <1>1 DEF BadBlobs, EditFails, SignFails, AdmitFails, SaveFails, Fail, LetGo
  <2>5. CASE AnswerStored(r) \/ EstimationFails(r) \/ Beaten(r)
    BY <2>5, <1>1 DEF AnswerStored, EstimationFails, Beaten, LetGo
  <2>. QED  BY <1>3, <2>1, <2>2, <2>3, <2>4, <2>5 DEF Handler, Admission
<1>4. ASSUME NEW r \in Request, HangUp(r) \/ GiveBack(r) \/ Settle(r)
      PROVE  [LimiterNext]_limiterVars
  BY <1>1, <1>4 DEF HangUp, GiveBack, Settle, LetGo, limiterVars
<1>5. ASSUME NEW r \in Request, NEW d \in Wanted, Arrive(r, d)
      PROVE  [LimiterNext]_limiterVars
  BY <1>5 DEF Arrive, limiterVars
<1>6. CASE (Tick /\ UNCHANGED requestVars) \/ UNCHANGED vars
  BY <1>6 DEF LimiterNext, vars, limiterVars
<1>. QED  BY <1>2, <1>3, <1>4, <1>5, <1>6 DEF Next

\* Through the API: however handlers, give-backs, retries and clients that hang up interleave,
\* no counter exceeds its limit by more than the other requests in flight.
THEOREM Overshoot == Spec => []OvershootBounded
<1>1. Init => Asked /\ LimiterInit
  BY AskedInit DEF Init
<1>2. Asked /\ [Next]_vars => Asked' /\ [LimiterNext]_limiterVars
  BY AskedStep, StepIsLimiterStep
<1>3. LimiterSpec => []OvershootBounded
  BY LimiterOvershoot
<1>. QED  BY <1>1, <1>2, <1>3, PTL DEF Spec, LimiterSpec

-----------------------------------------------------------------------------
(***************************************************************************)
(* Admission: idempotent for every set of requests, whatever they ask for    *)
(* and in whatever order they arrive, race, fail and are abandoned.          *)
(***************************************************************************)
Step == {"out", "find", "limit", "limiting", "lock", "edit", "sign", "admit", "estimate",
         "save", "push", "done"}

\* Two requests that one row is to answer, as the unique index sees them.
Twins(r, q) ==
  ask[r].ext # NoExternalId /\ ask[r].ext = ask[q].ext /\ ask[r].relayer = ask[q].relayer

\* A transaction in an answer has a row, that of the request or that of its twin.
AnswerBacked(r) ==
  answer[r] \in Request =>
    /\ row[answer[r]] # "absent"
    /\ answer[r] = r \/ (Twins(r, answer[r]) /\ ask[r].digest = ask[answer[r]].digest)

RowType ==
  /\ pc \in [Request -> Step]
  /\ ask \in [Request -> Demand \cup {Nobody}]
  /\ answer \in [Request -> Reason \cup Request]
  /\ row \in [Request -> {"absent", "PENDING", "FAILED"}]
  /\ inflight \subseteq Request

\* What a request asked for is fixed before anything of it is written.
NothingAhead ==
  \A r \in Request :
    pc[r] = "out" => row[r] = "absent" /\ answer[r] = "none" /\ r \notin inflight

OneRow ==
  \A r, q \in Request :
    row[r] # "absent" /\ row[q] # "absent" /\ Twins(r, q) => r = q

Admitted ==
  /\ RowType /\ NothingAhead /\ OneRow
  /\ \A r \in Request : AnswerBacked(r)
  /\ \A r \in Request : pc[r] = "push" => row[r] # "absent"

LEMMA AdmittedInit == Init => Admitted
BY RequestsAssumption
   DEF Init, Admitted, RowType, NothingAhead, OneRow, AnswerBacked, Step, Reason

-----------------------------------------------------------------------------
(***************************************************************************)
(* A handler's step and the late end of a statement are of one shape: they   *)
(* move one handler, answer it or not, and write its row or not.             *)
(***************************************************************************)
Moves(r) ==
  /\ pc[r] # "out"
  /\ ask' = ask
  /\ inflight' \subseteq inflight \cup {r}
  /\ row' = row \/ (RowsOf(r) = {} /\ \E s \in {"PENDING", "FAILED"} : row' = [row EXCEPT ![r] = s])
  /\ pc' = pc \/ \E p \in Step \ {"out"} :
                   pc' = [pc EXCEPT ![r] = p] /\ (p = "push" => row'[r] # "absent")
  /\ answer' = answer \/ \E a \in Reason \cup Request :
                           /\ answer' = [answer EXCEPT ![r] = a]
                           /\ a \in Request => a \in Stored(r) \/ (a = r /\ row[r] # "absent")

LEMMA RowWritten ==
  ASSUME Admitted, NEW r \in Request, Moves(r)
  PROVE  /\ row' \in [Request -> {"absent", "PENDING", "FAILED"}]
         /\ \A q \in Request : row[q] # "absent" => row'[q] # "absent"
         /\ OneRow'
<1>. USE DEF Admitted, RowType, Moves
<1>1. CASE row' = row
  BY <1>1 DEF OneRow, Twins
<1>2. CASE RowsOf(r) = {} /\ \E s \in {"PENDING", "FAILED"} : row' = [row EXCEPT ![r] = s]
  <2>1. /\ row' \in [Request -> {"absent", "PENDING", "FAILED"}]
        /\ row'[r] # "absent" /\ \A q \in Request \ {r} : row'[q] = row[q]
    BY <1>2
  <2>2. \A q \in Request : row[q] # "absent" => ~Twins(r, q) /\ ~Twins(q, r)
    BY <1>2 DEF RowsOf, Twins
  <2>3. OneRow'
    BY <2>1, <2>2 DEF OneRow, Twins
  <2>. QED  BY <2>1, <2>3
<1>. QED  BY <1>1, <1>2

LEMMA MovesKeep ==
  ASSUME Admitted, NEW r \in Request, Moves(r)
  PROVE  Admitted'
<1>1. /\ row' \in [Request -> {"absent", "PENDING", "FAILED"}]
      /\ \A q \in Request : row[q] # "absent" => row'[q] # "absent"
      /\ OneRow'
  BY RowWritten
<1>2. pc' \in [Request -> Step] /\ pc'[r] # "out" /\ \A q \in Request \ {r} : pc'[q] = pc[q]
  BY DEF Moves, Admitted, RowType
<1>3. /\ answer' \in [Request -> Reason \cup Request]
      /\ \A q \in Request \ {r} : answer'[q] = answer[q]
  BY DEF Moves, Admitted, RowType
<1>4. ask' = ask /\ inflight' \subseteq inflight \cup {r} /\ inflight' \subseteq Request
  BY DEF Moves, Admitted, RowType
<1>5. \A q \in Request \ {r} : row'[q] = row[q]
  BY DEF Moves, Admitted, RowType
<1>6. NothingAhead'
  BY <1>2, <1>3, <1>4, <1>5 DEF Admitted, NothingAhead
<1>7. ASSUME NEW q \in Request
      PROVE  AnswerBacked(q)'
  <2>1. CASE answer'[q] = answer[q]
    BY <1>1, <1>4, <2>1 DEF AnswerBacked, Twins, Admitted
  <2>2. CASE q = r /\ answer'[r] # answer[r]
    <3>1. answer'[r] \in Request => answer'[r] \in Stored(r) \/ (answer'[r] = r /\ row[r] # "absent")
      BY <2>2 DEF Moves, Admitted, RowType
    <3>2. ASSUME answer'[r] \in Stored(r)
          PROVE  /\ row[answer'[r]] # "absent" /\ Twins(r, answer'[r])
                 /\ ask[r].digest = ask[answer'[r]].digest
      BY <3>2 DEF Stored, RowsOf, Twins
    <3>. QED  BY <1>1, <1>4, <2>2, <3>1, <3>2 DEF AnswerBacked, Twins
  <2>. QED  BY <1>3, <2>1, <2>2
<1>8. \A q \in Request : pc'[q] = "push" => row'[q] # "absent"
  BY <1>1, <1>2 DEF Moves, Admitted, RowType
<1>. QED  BY <1>1, <1>2, <1>3, <1>4, <1>6, <1>7, <1>8 DEF Admitted, RowType

LEMMA Arrives ==
  ASSUME Admitted, NEW r \in Request, NEW d \in Wanted, Arrive(r, d)
  PROVE  Admitted'
<1>1. /\ d \in Demand /\ pc[r] = "out" /\ row[r] = "absent" /\ answer[r] = "none"
      /\ r \notin inflight
  BY RequestsAssumption DEF Arrive, Goto, Admitted, NothingAhead
<1>2. /\ pc' \in [Request -> Step] /\ pc'[r] \in {"find", "limit"}
      /\ \A q \in Request \ {r} : pc'[q] = pc[q]
  BY DEF Arrive, Goto, FirstStep, Admitted, RowType, Step
<1>3. /\ ask' \in [Request -> Demand \cup {Nobody}]
      /\ \A q \in Request \ {r} : ask'[q] = ask[q]
  BY <1>1 DEF Arrive, Admitted, RowType
<1>4. UNCHANGED <<row, answer, inflight>>
  BY DEF Arrive
<1>5. OneRow'
  BY <1>1, <1>3, <1>4 DEF Admitted, OneRow, Twins
<1>6. ASSUME NEW q \in Request
      PROVE  AnswerBacked(q)'
  <2>1. CASE q = r
    BY <1>1, <1>4, <2>1, RequestsAssumption DEF AnswerBacked, Reason
  <2>2. CASE q # r
    BY <1>1, <1>3, <1>4, <2>2 DEF Admitted, AnswerBacked, Twins
  <2>. QED  BY <2>1, <2>2
<1>7. NothingAhead' /\ \A q \in Request : pc'[q] = "push" => row'[q] # "absent"
  BY <1>1, <1>2, <1>4 DEF Admitted, NothingAhead
<1>. QED  BY <1>2, <1>3, <1>4, <1>5, <1>6, <1>7 DEF Admitted, RowType

-----------------------------------------------------------------------------
(***************************************************************************)
(* Every step is of that shape.                                             *)
(***************************************************************************)
\* An answer, from a row or without one, ends a handler.
LEMMA Ending ==
  ASSUME Admitted, NEW r \in Request, pc[r] # "out", ask' = ask, row' = row,
         inflight' \subseteq inflight \cup {r},
         AnswerFromRow(r) \/ (\E what \in Reason : Answer(r, what))
           \/ (Answer(r, r) /\ row[r] # "absent")
  PROVE  Moves(r)
<1>1. \A q \in Stored(r) : q \in Request
  BY DEF Stored, RowsOf
<1>. QED
  BY <1>1, RequestsAssumption DEF Moves, AnswerFromRow, Answer, Step, Reason

LEMMA HandlerMoves == ASSUME Admitted, NEW r \in Request, Handler(r) PROVE Moves(r)
<1>1. CASE Refuse(r) \/ FindStored(r)
  <2>1. pc[r] # "out" /\ UNCHANGED <<ask, row, inflight>>
    BY <1>1 DEF Refuse, FindStored, FirstStep
  <2>2. CASE pc' = [pc EXCEPT ![r] = "limit"] /\ UNCHANGED answer
    <3>1. \E p \in Step \ {"out"} : pc' = [pc EXCEPT ![r] = p] /\ p # "push"
      BY <2>2 DEF Step
    <3>. QED  BY <2>1, <2>2, <3>1 DEF Moves
  <2>. QED  BY <1>1, <2>1, <2>2, Ending DEF Refuse, FindStored, Reason
<1>2. CASE EnterLimiter(r)
  <2>1. pc[r] # "out" /\ UNCHANGED <<ask, row, inflight>>
    BY <1>2 DEF EnterLimiter
  <2>2. CASE Answer(r, "error")
    BY <2>1, <2>2, Ending DEF Reason
  <2>3. CASE UNCHANGED answer /\ \E p \in {"limiting", "lock", "sign"} : Goto(r, "limit", p)
    BY <2>1, <2>3 DEF Moves, Goto, Step
  <2>. QED  BY <1>2, <2>2, <2>3 DEF EnterLimiter, Working
<1>3. CASE Limited(r)
  <2>1. pc[r] # "out" /\ UNCHANGED <<ask, row, inflight>>
    BY <1>3 DEF Limited
  <2>2. CASE Answer(r, "limited")
    BY <2>1, <2>2, Ending DEF Reason
  <2>3. CASE UNCHANGED answer /\ (pc' = pc \/ pc' = [pc EXCEPT ![r] = Working(ask[r])])
    BY <2>1, <2>3 DEF Moves, Working, Step
  <2>. QED  BY <1>3, <2>2, <2>3 DEF Limited
<1>4. CASE BadBlobs(r) \/ EditDone(r) \/ EditFails(r) \/ Signed(r) \/ SignFails(r)
  <2>1. /\ pc[r] # "out" /\ UNCHANGED <<ask, row, inflight>>
        /\ \E what \in Reason : Answer(r, what)
    BY <1>4 DEF BadBlobs, EditDone, EditFails, Signed, SignFails, Fail, Reason
  <2>. QED  BY <2>1, Ending
<1>5. CASE Lock(r) \/ Prepare(r) \/ Reserve(r)
  <2>1. /\ pc[r] # "out" /\ UNCHANGED <<ask, row, inflight, answer>>
        /\ \E p \in {"admit", "edit", "estimate", "save"} : pc' = [pc EXCEPT ![r] = p]
    BY <1>5 DEF Lock, Prepare, Reserve, Goto
  <2>. QED  BY <2>1 DEF Moves, Step
<1>6. CASE AnswerStored(r) \/ AdmitFails(r) \/ Beaten(r) \/ SaveFails(r)
  <2>1. /\ pc[r] # "out" /\ UNCHANGED <<ask, row>> /\ inflight' \subseteq inflight \cup {r}
        /\ AnswerFromRow(r) \/ \E what \in Reason : Answer(r, what)
    BY <1>6 DEF AnswerStored, AdmitFails, Beaten, SaveFails, Fail, Reason
  <2>. QED  BY <2>1, Ending
<1>7. CASE EstimationFails(r)
  <2>1. pc[r] # "out" /\ UNCHANGED <<ask, inflight>>
    BY <1>7 DEF EstimationFails
  <2>2. CASE row' = row
    BY <1>7, <2>1, <2>2, Ending DEF EstimationFails, Reason
  <2>3. CASE row' # row
    BY <1>7, <2>1, <2>3, RequestsAssumption
       DEF EstimationFails, UniqueViolation, Answer, Moves, Step, Reason
  <2>. QED  BY <2>2, <2>3
<1>8. CASE Saved(r)
  <2>1. row'[r] # "absent"
    BY <1>8 DEF Saved, Admitted, RowType
  <2>. QED  BY <1>8, <2>1 DEF Saved, Goto, UniqueViolation, Moves, Step
<1>9. CASE Push(r)
  <2>1. row[r] # "absent"
    BY <1>9 DEF Push, Admitted
  <2>. QED  BY <1>9, <2>1, Ending DEF Push
<1>. QED
  BY <1>1, <1>2, <1>3, <1>4, <1>5, <1>6, <1>7, <1>8, <1>9 DEF Handler, Admission

LEMMA AdmittedStep == Admitted /\ [Next]_vars => Admitted'
<1>. SUFFICES ASSUME Admitted, [Next]_vars
              PROVE  Admitted'
  OBVIOUS
<1>1. ASSUME NEW r \in Request, HangUp(r)
      PROVE  Admitted'
  <2>1. /\ pc[r] # "out" /\ UNCHANGED <<ask, row>> /\ inflight' \subseteq inflight \cup {r}
        /\ Answer(r, "gone")
    BY <1>1 DEF HangUp
  <2>. QED  BY <2>1, Ending, MovesKeep DEF Reason
<1>2. ASSUME NEW r \in Request, Settle(r)
      PROVE  Admitted'
  <2>1. pc[r] # "out"
    BY <1>2 DEF Settle, Admitted, NothingAhead
  <2>2. Moves(r)
    BY <1>2, <2>1 DEF Settle, UniqueViolation, Moves
  <2>. QED  BY <2>2, MovesKeep
<1>3. CASE \/ \E r \in Request : GiveBack(r)
           \/ Tick /\ UNCHANGED requestVars
           \/ UNCHANGED vars
  <2>1. UNCHANGED <<pc, ask, answer, row, inflight>>
    BY <1>3 DEF GiveBack, requestVars, vars
  <2>. QED
    BY <2>1 DEF Admitted, RowType, NothingAhead, OneRow, AnswerBacked, Twins
<1>. QED  BY <1>1, <1>2, <1>3, Arrives, HandlerMoves, MovesKeep DEF Next

\* find_admitted_transaction and save_admitted_transaction: clients that repeat a request to a
\* relayer under an external id are told of one transaction, and no request is told of another
\* request's, however they race, fail and are abandoned, and however late a commit takes effect.
THEOREM AdmissionIdempotent == Spec => []SameRequestSameTransaction
<1>1. Admitted => SameRequestSameTransaction
  <2>. SUFFICES ASSUME Admitted, NEW r \in Request, NEW q \in Request,
                       {answer[r], answer[q]} \subseteq Request, Twins(r, q)
                PROVE  answer[r] = answer[q] /\ ask[r].digest = ask[q].digest
    BY DEF SameRequestSameTransaction, Twins
  <2>1. AnswerBacked(r) /\ AnswerBacked(q)
    BY DEF Admitted
  <2>2. /\ row[answer[r]] # "absent" /\ row[answer[q]] # "absent"
        /\ Twins(answer[r], answer[q])
        /\ ask[answer[r]].digest = ask[r].digest /\ ask[answer[q]].digest = ask[q].digest
    BY <2>1 DEF AnswerBacked, Twins
  <2>3. answer[r] = answer[q]
    BY <2>2 DEF Admitted, OneRow
  <2>. QED  BY <2>2, <2>3
<1>. QED  BY AdmittedInit, AdmittedStep, <1>1, PTL DEF Spec
-----------------------------------------------------------------------------
(***************************************************************************)
(* Where a request stands.  The mutex of TransactionsQueues is held through  *)
(* the whole of an operation, nothing is answered before the end, and a slot *)
(* of the limiter is in the phase its handler is at.                         *)
(***************************************************************************)
Guarded == {"admit", "edit", "estimate", "save", "push"}
AtWork == {"lock", "sign"} \cup Guarded

Keyed(r) == ask[r] \in Demand /\ RateKey(ask[r]) # NoKey

Turn(r) ==
  /\ pc[r] # "out" => ask[r] \in Wanted
  /\ pc[r] \in Guarded => holder = r
  /\ pc[r] # "done" => answer[r] = "none" /\ r \notin inflight
  /\ pc[r] = "push" => row[r] = "PENDING"
  /\ pc[r] \notin {"push", "done"} => row[r] = "absent"

AtDesk(r) ==
  /\ ~SlotAt(r, "idle") => Keyed(r) /\ slot[r].profile = LimiterProfile(ask[r])
  /\ slot[r].at \in {"checking", "charging"} <=> pc[r] = "limiting"
  /\ SlotAt(r, "held") <=> pc[r] \in AtWork /\ Keyed(r)
  /\ SlotAt(r, "reverting") => pc[r] = "done" /\ answer[r] \notin {"done", r}

BookType ==
  /\ clock <= MaxClock
  /\ holder \in Request \cup {Nobody}
  /\ queued \subseteq Request
  /\ nonce \in [Request -> Nat]
  /\ next \in [Relayer -> Nat]
  /\ counted \in [Key -> SUBSET Request]

\* The nonce of a row that is there, or may still come to be there, and was not released.
Claims(r) == answer[r] # "error" /\ (pc[r] = "save" \/ row[r] = "PENDING" \/ r \in inflight)

NonceBook ==
  /\ \A r \in Request : Claims(r) => nonce[r] < next[ask[r].relayer]
  /\ \A r \in Request : pc[r] = "save" => next[ask[r].relayer] = nonce[r] + 1
  /\ \A r, q \in Request :
       Claims(r) /\ Claims(q) /\ ask[r].relayer = ask[q].relayer /\ nonce[r] = nonce[q] => r = q
  /\ \A x \in Relayer : \A n \in 0 .. next[x] - 1 :
       \E r \in Request :
         /\ ask[r] # Nobody /\ ask[r].relayer = x /\ nonce[r] = n
         /\ row[r] = "PENDING" \/ pc[r] = "save" \/ answer[r] = "gone"

\* The scopes whose counters may count a request, and those whose counters do while their
\* first window lasts.
Standing(r) ==
  CASE SlotAt(r, "idle")      -> IF answer[r] \in {"done", "gone", r} THEN ConfiguredScopes ELSE {}
    [] SlotAt(r, "checking")  -> {}
    [] SlotAt(r, "charging")  -> ConfiguredScopes \ slot[r].left
    [] SlotAt(r, "held")      -> ConfiguredScopes
    [] SlotAt(r, "reverting") -> slot[r].left

Gone(r) == SlotAt(r, "idle") /\ answer[r] = "gone"

CounterOf(scope, r) == KeyOf(scope, LimiterProfile(ask[r]))

Ledger ==
  /\ \A k \in Key : \A r \in counted[k] :
       Keyed(r) /\ \E scope \in Standing(r) : k = CounterOf(scope, r)
  /\ \A r \in Request : Keyed(r) /\ ~Gone(r) =>
       \A scope \in Standing(r) :
         clock < LimitsOf(scope).window => r \in counted[CounterOf(scope, r)]
  /\ \A scope \in ConfiguredScopes, p \in Profile :
       LET k == KeyOf(scope, p) IN
       /\ usage[k] = NoUsage => counted[k] = {}
       /\ usage[k] # NoUsage /\ clock < LimitsOf(scope).window => usage[k].start = 0
       /\ usage[k] # NoUsage => usage[k].count <= Cardinality(counted[k])
       /\ usage[k] # NoUsage /\ clock < LimitsOf(scope).window
            => usage[k].count = Cardinality(counted[k])

Books ==
  /\ Admitted /\ LimiterType /\ BookType
  /\ \A r \in Request : Turn(r) /\ AtDesk(r)

LEMMA BooksInit == Init => Books
<1>. SUFFICES ASSUME Init
              PROVE  Books
  OBVIOUS
<1>1. Admitted /\ LimiterType
  BY AdmittedInit, LimiterTypeInit DEF Init
<1>2. BookType
  BY ClockAssumption DEF Init, LimiterInit, BookType
<1>3. ASSUME NEW r \in Request
      PROVE  Turn(r) /\ AtDesk(r)
  BY DEF Init, LimiterInit, Turn, AtDesk, Guarded, AtWork, SlotAt, SlotIdle, Request
<1>. QED  BY <1>1, <1>2, <1>3 DEF Books

\* The request a handler serves, and the phase its slot is in.
LEMMA Desk ==
  ASSUME Books, NEW r \in Request
  PROVE  /\ LimiterType /\ Turn(r) /\ AtDesk(r)
         /\ pc \in [Request -> Step] /\ ask \in [Request -> Demand \cup {Nobody}]
         /\ pc[r] # "out" => ask[r] \in Demand
         /\ slot[r].at \in {"idle", "checking", "charging", "held", "reverting"}
         /\ pc[r] \notin AtWork \cup {"limiting", "done"} => SlotAt(r, "idle")
<1>1. LimiterType /\ Turn(r) /\ AtDesk(r) /\ pc \in [Request -> Step]
      /\ ask \in [Request -> Demand \cup {Nobody}]
  BY DEF Books, Admitted, RowType
<1>2. slot[r].at \in {"idle", "checking", "charging", "held", "reverting"}
  BY <1>1 DEF LimiterType, ActiveSlot, Phases, SlotIdle, Request
<1>. QED  BY <1>1, <1>2, RequestsAssumption DEF Turn, AtDesk, SlotAt

\* What a request does to the limiter.
LimiterStep(r) ==
  \/ UNCHANGED limiterVars
  \/ \E p \in Profile : Begin(r, p)
  \/ Check(r) \/ Exceed(r) \/ Charge(r) \/ Commit(r) \/ DropReservation(r) \/ Revert(r) \/ Abandon(r)

LEMMA OneSlot ==
  ASSUME LimiterType, NEW r \in Slot, LimiterStep(r)
  PROVE  /\ \A q \in Slot \ {r} : slot'[q] = slot[q]
         /\ clock' = clock
         /\ ~SlotAt(r, "idle") /\ ~SlotAt(r, "idle")' => slot'[r].profile = slot[r].profile
<1>1. CASE UNCHANGED limiterVars \/ \E p \in Profile : Begin(r, p)
  BY <1>1 DEF LimiterType, limiterVars, Begin, SlotAt
<1>2. CASE Check(r) \/ Exceed(r) \/ Charge(r) \/ Commit(r) \/ DropReservation(r) \/ Revert(r)
           \/ Abandon(r)
  BY <1>2 DEF LimiterType, SlotAt, SlotIdle, Check, Exceed, Charge, Commit, DropReservation,
              Revert, Abandon, GoOn, At
<1>. QED  BY <1>1, <1>2 DEF LimiterStep

\* The phases a slot goes through.
LEMMA Phased ==
  ASSUME LimiterType, NEW r \in Slot
  PROVE  /\ Check(r) => slot[r].at = "checking" /\ slot'[r].at \in {"checking", "charging"}
         /\ Exceed(r) => slot[r].at = "checking" /\ slot'[r].at = "idle"
         /\ Charge(r) => slot[r].at = "charging" /\ slot'[r].at \in {"charging", "held"}
         /\ Commit(r) => slot[r].at = "held" /\ slot'[r].at = "idle"
         /\ DropReservation(r) => slot[r].at = "held" /\ slot'[r].at = "reverting"
         /\ Revert(r) => slot[r].at = "reverting" /\ slot'[r].at \in {"reverting", "idle"}
         /\ Abandon(r) => slot[r].at \in {"checking", "charging"} /\ slot'[r].at = "idle"
<1>1. ASSUME NEW phase, NEW left, NEW last, slot' = [slot EXCEPT ![r] = GoOn(r, phase, left, last)]
      PROVE  slot'[r].at \in {phase, last.at}
  BY <1>1 DEF LimiterType, GoOn, At
<1>2. ASSUME NEW phase, NEW left PROVE At(r, phase, left).at = phase
  BY DEF At
<1>3. /\ Check(r) => slot[r].at = "checking" /\ slot'[r].at \in {"checking", "charging"}
      /\ Charge(r) => slot[r].at = "charging" /\ slot'[r].at \in {"charging", "held"}
      /\ Revert(r) => slot[r].at = "reverting" /\ slot'[r].at \in {"reverting", "idle"}
  BY <1>1, <1>2 DEF SlotAt, SlotIdle, Check, Charge, Revert
<1>4. /\ Exceed(r) => slot[r].at = "checking" /\ slot'[r].at = "idle"
      /\ Commit(r) => slot[r].at = "held" /\ slot'[r].at = "idle"
      /\ DropReservation(r) => slot[r].at = "held" /\ slot'[r].at = "reverting"
      /\ Abandon(r) => slot[r].at \in {"checking", "charging"} /\ slot'[r].at = "idle"
  BY <1>2 DEF LimiterType, SlotAt, SlotIdle, Exceed, Commit, DropReservation, Abandon
<1>. QED  BY <1>3, <1>4

LEMMA StepsOfLimiter ==
  ASSUME Books, NEW r \in Request,
         \/ \E d \in Wanted : Arrive(r, d)
         \/ Handler(r) \/ GiveBack(r) \/ HangUp(r) \/ Settle(r)
  PROVE  LimiterStep(r)
<1>1. CASE \E d \in Wanted : Arrive(r, d)
  BY <1>1 DEF Arrive, LimiterStep, limiterVars
<1>2. CASE GiveBack(r) \/ HangUp(r) \/ Settle(r)
  BY <1>2 DEF GiveBack, HangUp, Settle, LetGo, LimiterStep, limiterVars
<1>3. CASE Refuse(r) \/ FindStored(r) \/ Lock(r) \/ Prepare(r) \/ Reserve(r) \/ Saved(r)
  BY <1>3 DEF Refuse, FindStored, Lock, Prepare, Reserve, Saved, LimiterStep, limiterVars
<1>4. CASE EnterLimiter(r)
  <2>1. ask[r] \in Demand
    BY <1>4, RequestsAssumption DEF EnterLimiter, Books, Turn
  <2>. QED  BY <1>4, <2>1, RateKeyed DEF EnterLimiter, LimiterStep, limiterVars
<1>5. CASE Limited(r)
  BY <1>5 DEF Limited, LimiterStep
<1>6. CASE EditDone(r) \/ Signed(r) \/ Push(r)
  BY <1>6 DEF EditDone, Signed, Push, Keep, LimiterStep
<1>7. CASE BadBlobs(r) \/ EditFails(r) \/ SignFails(r) \/ AdmitFails(r) \/ SaveFails(r)
  BY <1>7 DEF BadBlobs, EditFails, SignFails, AdmitFails, SaveFails, Fail, LetGo, LimiterStep
<1>8. CASE AnswerStored(r) \/ EstimationFails(r) \/ Beaten(r)
  BY <1>8 DEF AnswerStored, EstimationFails, Beaten, LetGo, LimiterStep
<1>. QED
  BY <1>1, <1>2, <1>3, <1>4, <1>5, <1>6, <1>7, <1>8 DEF Handler, Admission

\* A step of one request is no step of another.
LEMMA OthersStay ==
  ASSUME Books, NEW r \in Request, NEW q \in Request \ {r},
         \/ \E d \in Wanted : Arrive(r, d)
         \/ Handler(r) \/ GiveBack(r) \/ HangUp(r) \/ Settle(r)
  PROVE  /\ pc'[q] = pc[q] /\ ask'[q] = ask[q] /\ answer'[q] = answer[q]
         /\ slot'[q] = slot[q] /\ row'[q] = row[q] /\ nonce'[q] = nonce[q]
         /\ q \in inflight' <=> q \in inflight
         /\ holder = q => holder' = q
         /\ Turn(q)' /\ AtDesk(q)'
<1>. USE DEF Books, Admitted, RowType, BookType
<1>1. slot'[q] = slot[q]
  BY StepsOfLimiter, OneSlot DEF Request
<1>2. /\ pc'[q] = pc[q] /\ ask'[q] = ask[q] /\ answer'[q] = answer[q]
      /\ row'[q] = row[q] /\ nonce'[q] = nonce[q]
      /\ q \in inflight' <=> q \in inflight
      /\ holder = q => holder' = q
  <2>1. CASE \E d \in Wanted : Arrive(r, d)
    BY <2>1 DEF Arrive, Goto
  <2>2. CASE GiveBack(r) \/ HangUp(r) \/ Settle(r)
    BY <2>2 DEF GiveBack, HangUp, Settle, Answer, Unlock
  <2>3. CASE Refuse(r) \/ FindStored(r) \/ EnterLimiter(r) \/ Limited(r)
    BY <2>3 DEF Refuse, FindStored, EnterLimiter, Limited, Answer, AnswerFromRow, Goto
  <2>4. CASE Lock(r) \/ Prepare(r) \/ Reserve(r) \/ Saved(r)
    BY <2>4, RequestsAssumption DEF Lock, Prepare, Reserve, Saved, Goto
  <2>5. CASE EditDone(r) \/ Signed(r) \/ Push(r)
    BY <2>5 DEF EditDone, Signed, Push, Answer, Unlock
  <2>6. CASE BadBlobs(r) \/ EditFails(r) \/ SignFails(r) \/ AdmitFails(r) \/ SaveFails(r)
    BY <2>6 DEF BadBlobs, EditFails, SignFails, AdmitFails, SaveFails, Fail, Answer, Unlock
  <2>7. CASE AnswerStored(r) \/ EstimationFails(r) \/ Beaten(r)
    BY <2>7 DEF AnswerStored, EstimationFails, Beaten, Answer, AnswerFromRow, Unlock
  <2>. QED
    BY <2>1, <2>2, <2>3, <2>4, <2>5, <2>6, <2>7 DEF Handler, Admission
<1>3. Turn(q) /\ AtDesk(q)
  OBVIOUS
<1>. QED  BY <1>1, <1>2, <1>3 DEF Turn, AtDesk, Keyed, SlotAt, LimiterProfile

\* The handler that takes the step stays where its slot is.
LEMMA ActorTurn ==
  ASSUME Books, NEW r \in Request,
         \/ \E d \in Wanted : Arrive(r, d)
         \/ Handler(r) \/ GiveBack(r) \/ HangUp(r) \/ Settle(r)
  PROVE  Turn(r)'
<1>. USE DEF Books, Admitted, RowType, Turn
<1>1. CASE \E d \in Wanted : Arrive(r, d)
  BY <1>1, RequestsAssumption DEF Arrive, Goto, FirstStep, Guarded
<1>2. CASE GiveBack(r) \/ HangUp(r) \/ Settle(r)
  BY <1>2 DEF GiveBack, HangUp, Settle, Answer, Guarded
<1>3. CASE Refuse(r) \/ FindStored(r) \/ EnterLimiter(r) \/ Limited(r)
  BY <1>3, RequestsAssumption
     DEF Refuse, FindStored, EnterLimiter, Limited, Answer, AnswerFromRow, Goto, Guarded,
         FirstStep, Working
<1>4. CASE Lock(r) \/ Prepare(r) \/ Reserve(r) \/ Saved(r)
  BY <1>4 DEF Lock, Prepare, Reserve, Saved, Goto, Guarded
<1>5. CASE EditDone(r) \/ Signed(r) \/ Push(r)
  BY <1>5 DEF EditDone, Signed, Push, Answer, Guarded
<1>6. CASE BadBlobs(r) \/ EditFails(r) \/ SignFails(r) \/ AdmitFails(r) \/ SaveFails(r)
  BY <1>6 DEF BadBlobs, EditFails, SignFails, AdmitFails, SaveFails, Fail, Answer, Guarded
<1>7. CASE AnswerStored(r) \/ EstimationFails(r) \/ Beaten(r)
  BY <1>7 DEF AnswerStored, EstimationFails, Beaten, Answer, AnswerFromRow, Guarded
<1>. QED
  BY <1>1, <1>2, <1>3, <1>4, <1>5, <1>6, <1>7 DEF Handler, Admission

\* A handler that ends leaves the limiter, or leaves it a reservation to give back.
LEMMA Leaves ==
  ASSUME Books, NEW r \in Request, pc'[r] = "done", pc[r] \notin {"limiting", "done"},
         Keep(r) \/ (LetGo(r) /\ answer'[r] \notin {"done", r}), ask' = ask
  PROVE  AtDesk(r)'
<1>1. AtDesk(r) /\ LimiterType /\ slot[r].at \in {"idle", "held"}
  BY Desk DEF AtDesk, SlotAt
<1>2. /\ slot'[r].at \in {"idle", "reverting"} /\ (~SlotAt(r, "idle")' => ~SlotAt(r, "idle"))
      /\ SlotAt(r, "reverting")' => answer'[r] \notin {"done", r}
  <2>1. CASE SlotAt(r, "held")
    BY <1>1, <2>1, Phased DEF Keep, LetGo, SlotAt, Request
  <2>2. CASE ~SlotAt(r, "held")
    <3>1. slot' = slot /\ slot[r].at = "idle"
      BY <1>1, <2>2 DEF Keep, LetGo, SlotAt, limiterVars, AtDesk
    <3>. QED  BY <3>1 DEF SlotAt
  <2>. QED  BY <2>1, <2>2
<1>3. ~SlotAt(r, "idle")' => slot'[r].profile = slot[r].profile
  <2>1. LimiterStep(r)
    BY DEF Keep, LetGo, LimiterStep
  <2>. QED  BY <1>1, <1>2, <2>1, OneSlot DEF Request
<1>. QED  BY <1>1, <1>2, <1>3 DEF AtDesk, Keyed, SlotAt, AtWork, Guarded

LEMMA ActorDesk ==
  ASSUME Books, NEW r \in Request,
         \/ \E d \in Wanted : Arrive(r, d)
         \/ Handler(r) \/ GiveBack(r) \/ HangUp(r) \/ Settle(r)
  PROVE  AtDesk(r)'
<1>. USE DEF Request, AtWork, Guarded
<1>0. AtDesk(r) /\ LimiterType /\ pc \in [Request -> Step] /\ LimiterStep(r)
  BY Desk, StepsOfLimiter
<1>b. answer \in [Request -> Reason \cup Request]
  BY DEF Books, Admitted, RowType
<1>1. CASE \E d \in Wanted : Arrive(r, d)
  <2>1. pc[r] = "out" /\ pc'[r] \in {"find", "limit"} /\ slot' = slot
    BY <1>0, <1>1 DEF Arrive, Goto, FirstStep
  <2>. QED  BY <1>0, <2>1, Desk DEF AtDesk, SlotAt
<1>2. CASE Settle(r)
  BY <1>0, <1>2 DEF Settle, AtDesk, Keyed, SlotAt
<1>3. CASE GiveBack(r)
  <2>1. /\ slot[r].at = "reverting" /\ slot'[r].at \in {"reverting", "idle"}
        /\ UNCHANGED <<pc, ask, answer>>
    BY <1>0, <1>3, Phased DEF GiveBack
  <2>. QED  BY <1>0, <2>1, OneSlot DEF AtDesk, Keyed, SlotAt
<1>4. CASE HangUp(r)
  <2>1. /\ pc'[r] = "done" /\ pc[r] # "done" /\ ask' = ask /\ answer'[r] \notin {"done", r}
    BY <1>0, <1>b, <1>4, RequestsAssumption DEF HangUp, Answer, Reason
  <2>2. CASE pc[r] = "limiting"
    <3>1. slot'[r].at = "idle"
      BY <1>0, <1>4, <2>2, Phased DEF HangUp, AtDesk
    <3>. QED  BY <2>1, <3>1 DEF AtDesk, SlotAt
  <2>. QED  BY <1>0, <1>4, <2>1, <2>2, Leaves DEF HangUp, AtDesk
<1>5. CASE Refuse(r) \/ FindStored(r)
  <2>1. slot' = slot /\ ask' = ask /\ pc[r] \in {"find", "limit"} /\ pc'[r] \in {"limit", "done"}
    BY <1>0, <1>5 DEF Refuse, FindStored, Answer, AnswerFromRow, FirstStep
  <2>. QED  BY <1>0, <2>1, Desk DEF AtDesk, Keyed, SlotAt
<1>6. CASE EnterLimiter(r)
  <2>1. ask' = ask /\ pc[r] = "limit" /\ ask[r] \in Demand /\ slot[r].at = "idle"
    BY <1>6, Desk DEF EnterLimiter, SlotAt
  <2>2. CASE RateKey(ask[r]) # NoKey /\ Begin(r, LimiterProfile(ask[r])) /\ Goto(r, "limit", "limiting")
    <3>1. /\ pc'[r] = "limiting" /\ slot'[r].at = "checking"
          /\ slot'[r].profile = LimiterProfile(ask[r])
      BY <1>0, <2>2 DEF Begin, Goto, LimiterType
    <3>. QED  BY <2>1, <2>2, <3>1 DEF AtDesk, Keyed, SlotAt
  <2>3. CASE RateKey(ask[r]) = NoKey /\ slot' = slot /\ Goto(r, "limit", Working(ask[r]))
    BY <1>0, <2>1, <2>3 DEF AtDesk, Keyed, SlotAt, Goto, Working
  <2>4. CASE Answer(r, "error") /\ slot' = slot
    BY <1>0, <2>1, <2>4 DEF AtDesk, Keyed, SlotAt, Answer
  <2>. QED  BY <1>6, <2>2, <2>3, <2>4 DEF EnterLimiter
<1>7. CASE Limited(r)
  <2>1. /\ ask' = ask /\ pc[r] = "limiting" /\ Keyed(r)
        /\ slot[r].profile = LimiterProfile(ask[r])
    BY <1>0, <1>7 DEF Limited, AtDesk, SlotAt
  <2>2. CASE Check(r) /\ UNCHANGED <<pc, answer, counted>>
    <3>1. slot[r].at = "checking" /\ slot'[r].at \in {"checking", "charging"} /\ pc' = pc
      BY <1>0, <2>2, Phased
    <3>. QED  BY <1>0, <2>1, <3>1, OneSlot DEF AtDesk, Keyed, SlotAt
  <2>3. CASE Exceed(r) /\ Answer(r, "limited")
    <3>1. slot'[r].at = "idle" /\ pc'[r] = "done"
      BY <1>0, <2>3, Phased DEF Answer
    <3>. QED  BY <2>1, <3>1 DEF AtDesk, SlotAt
  <2>4. CASE /\ Charge(r)
             /\ pc' = IF slot'[r].at = "held" THEN [pc EXCEPT ![r] = Working(ask[r])] ELSE pc
    <3>1. /\ slot[r].at = "charging" /\ slot'[r].at \in {"charging", "held"}
          /\ pc'[r] = IF slot'[r].at = "held" THEN Working(ask[r]) ELSE "limiting"
      BY <1>0, <2>1, <2>4, Phased
    <3>. QED  BY <1>0, <2>1, <3>1, OneSlot DEF AtDesk, Keyed, SlotAt, Working
  <2>. QED  BY <1>7, <2>2, <2>3, <2>4 DEF Limited
<1>8. CASE Lock(r) \/ Prepare(r) \/ Reserve(r) \/ Saved(r)
  <2>1. /\ slot' = slot /\ ask' = ask
        /\ pc[r] \in AtWork /\ pc'[r] \in AtWork
    BY <1>0, <1>8 DEF Lock, Prepare, Reserve, Saved, Goto
  <2>. QED  BY <1>0, <2>1 DEF AtDesk, Keyed, SlotAt
<1>9. CASE EditDone(r) \/ Signed(r) \/ Push(r)
  <2>1. pc'[r] = "done" /\ pc[r] \notin {"limiting", "done"} /\ Keep(r) /\ ask' = ask
    BY <1>0, <1>9 DEF EditDone, Signed, Push, Answer
  <2>. QED  BY <2>1, Leaves
<1>10. CASE BadBlobs(r) \/ EditFails(r) \/ SignFails(r) \/ AdmitFails(r) \/ SaveFails(r)
  <2>1. /\ pc'[r] = "done" /\ pc[r] \notin {"limiting", "done"}
        /\ LetGo(r) /\ answer'[r] \notin {"done", r} /\ ask' = ask
    BY <1>0, <1>b, <1>10, RequestsAssumption
       DEF BadBlobs, EditFails, SignFails, AdmitFails, SaveFails, Fail, Answer, Reason
  <2>. QED  BY <2>1, Leaves
<1>11. CASE AnswerStored(r) \/ EstimationFails(r) \/ Beaten(r)
  <2>1. /\ pc'[r] = "done" /\ pc[r] \notin {"limiting", "done"}
        /\ LetGo(r) /\ answer'[r] \notin {"done", r} /\ ask' = ask
    <3>1. row[r] = "absent" /\ pc[r] \notin {"limiting", "done"}
      BY <1>11, Desk DEF Turn, AnswerStored, EstimationFails, Beaten
    <3>2. r \notin Stored(r) /\ "done" \notin Stored(r)
      BY <3>1, RequestsAssumption DEF Stored, RowsOf, Reason
    <3>3. AnswerFromRow(r) \/ Answer(r, "error")
             => pc'[r] = "done" /\ answer'[r] \notin {"done", r}
      BY <1>0, <1>b, <3>2, RequestsAssumption DEF Answer, AnswerFromRow, Reason
    <3>. QED  BY <1>11, <3>1, <3>3 DEF AnswerStored, EstimationFails, Beaten
  <2>. QED  BY <2>1, Leaves
<1>. QED
  BY <1>1, <1>2, <1>3, <1>4, <1>5, <1>6, <1>7, <1>8, <1>9, <1>10, <1>11 DEF Handler, Admission

LEMMA BooksTyped ==
  ASSUME Books, NEW r \in Request,
         \/ \E d \in Wanted : Arrive(r, d)
         \/ Handler(r) \/ GiveBack(r) \/ HangUp(r) \/ Settle(r)
  PROVE  BookType'
<1>. USE DEF BookType
<1>0. BookType /\ LimiterType
  BY DEF Books
<1>1. clock' = clock
  BY <1>0, StepsOfLimiter, OneSlot DEF Request
<1>2. UNCHANGED holder \/ holder' = r \/ Unlock(r)
  BY DEF Arrive, GiveBack, HangUp, Settle, Handler, Admission, Refuse, FindStored, EnterLimiter,
         Limited, BadBlobs, Lock, EditDone, EditFails, Signed, SignFails, AnswerStored, Prepare,
         AdmitFails, EstimationFails, Reserve, Saved, Beaten, SaveFails, Push, Fail
<1>3. queued' \subseteq queued \cup {r}
  BY DEF Arrive, GiveBack, HangUp, Settle, Handler, Admission, Refuse, FindStored, EnterLimiter,
         Limited, BadBlobs, Lock, EditDone, EditFails, Signed, SignFails, AnswerStored, Prepare,
         AdmitFails, EstimationFails, Reserve, Saved, Beaten, SaveFails, Push
<1>4. \/ UNCHANGED <<nonce, next>> \/ Reserve(r)
      \/ UNCHANGED nonce /\ next' = Released(r)
  BY DEF Arrive, GiveBack, HangUp, Settle, Handler, Admission, Refuse, FindStored, EnterLimiter,
         Limited, BadBlobs, Lock, EditDone, EditFails, Signed, SignFails, AnswerStored, Prepare,
         AdmitFails, EstimationFails, Saved, Beaten, SaveFails, Push
<1>5. nonce' \in [Request -> Nat] /\ next' \in [Relayer -> Nat]
  <2>1. CASE Reserve(r)
    <3>1. ask[r] \in Demand
      BY <2>1, Desk DEF Reserve, Goto
    <3>. QED  BY <1>0, <2>1, <3>1 DEF Reserve, Demand
  <2>. QED  BY <1>0, <1>4, <2>1 DEF Released
<1>6. counted' \in [Key -> SUBSET Request]
  <2>1. \/ UNCHANGED counted
        \/ \E k : counted' = [counted EXCEPT ![k] = {r}]
        \/ \E k : counted' = [counted EXCEPT ![k] = @ \cup {r}]
        \/ \E k : counted' = [counted EXCEPT ![k] = @ \ {r}]
    <3>1. CASE Limited(r)
      <4>. DEFINE k == KeyOf(NextToCharge(slot[r].left), slot[r].profile)
      <4>1. \/ UNCHANGED counted
            \/ counted' = [counted EXCEPT ![k] = {r}]
            \/ counted' = [counted EXCEPT ![k] = @ \cup {r}]
        BY <3>1 DEF Limited
      <4>. QED  BY <4>1
    <3>2. CASE GiveBack(r)
      BY <3>2 DEF GiveBack
    <3>3. CASE ~Limited(r) /\ ~GiveBack(r)
      BY <3>3 DEF Arrive, HangUp, Settle, Handler, Admission, Refuse, FindStored, EnterLimiter,
         BadBlobs, Lock, EditDone, EditFails, Signed, SignFails, AnswerStored, Prepare,
         AdmitFails, EstimationFails, Reserve, Saved, Beaten, SaveFails, Push
    <3>. QED  BY <3>1, <3>2, <3>3
  <2>. QED  BY <1>0, <2>1
<1>. QED  BY <1>0, <1>1, <1>2, <1>3, <1>5, <1>6 DEF Unlock

LEMMA BooksStep == Books /\ [Next]_vars => Books'
<1>. SUFFICES ASSUME Books, [Next]_vars
              PROVE  Books'
  OBVIOUS
<1>1. Admitted' /\ LimiterType'
  <2>1. Asked
    BY RequestsAssumption DEF Books, Admitted, RowType, Turn, Asked
  <2>2. [LimiterNext]_limiterVars
    BY <2>1, StepIsLimiterStep
  <2>. QED  BY <2>2, AdmittedStep, LimiterTypeStep DEF Books
<1>2. ASSUME NEW r \in Request,
             \/ \E d \in Wanted : Arrive(r, d)
             \/ Handler(r) \/ GiveBack(r) \/ HangUp(r) \/ Settle(r)
      PROVE  BookType' /\ \A q \in Request : Turn(q)' /\ AtDesk(q)'
  BY <1>2, BooksTyped, ActorTurn, ActorDesk, OthersStay
<1>3. CASE (Tick /\ UNCHANGED requestVars) \/ UNCHANGED vars
  <2>1. /\ UNCHANGED <<slot, requestVars>>
        /\ clock' = clock \/ (clock < MaxClock /\ clock' = clock + 1)
    BY <1>3 DEF Tick, vars, requestVars
  <2>2. clock \in Nat /\ MaxClock \in Nat
    BY ClockAssumption DEF Books, LimiterType
  <2>3. BookType'
    BY <2>1, <2>2 DEF Books, BookType, requestVars
  <2>4. ASSUME NEW q \in Request
        PROVE  Turn(q)' /\ AtDesk(q)'
    <3>1. Turn(q) /\ AtDesk(q)
      BY DEF Books
    <3>2. UNCHANGED <<slot, pc, ask, answer, holder, row, inflight>>
      BY <2>1 DEF requestVars
    <3>. QED  BY <3>1, <3>2 DEF Turn, AtDesk, Keyed, SlotAt, LimiterProfile, AtWork, Guarded
  <2>. QED  BY <1>1, <2>3, <2>4 DEF Books
<1>. QED  BY <1>1, <1>2, <1>3 DEF Next, Books

LEMMA BooksKept == Spec => []Books
BY BooksInit, BooksStep, PTL DEF Spec

\* Types through the whole API, for every set of requests: nonces and the counters of the nonce
\* managers stay naturals although releases decrement them, and every step of a handler finds
\* the request it serves.
THEOREM RequestsTyped == Spec => []TypeOK
<1>1. Books => TypeOK
  BY ClockAssumption
     DEF Books, BookType, Admitted, RowType, Turn, LimiterType, TypeOK, Step, Request,
         ActiveSlot, Phases, SlotIdle
<1>. QED  BY <1>1, BooksKept, PTL

-----------------------------------------------------------------------------
(***************************************************************************)
(* The nonces.  While a request is at "save" it is the only one with the     *)
(* mutex and its nonce is the last one handed out, so giving it back takes   *)
(* no other claim away.                                                     *)
(***************************************************************************)
LEMMA NonceInit == Init => NonceBook
BY DEF Init, NonceBook, Claims

Covers(r, n) ==
  /\ ask[r] # Nobody /\ nonce[r] = n
  /\ row[r] = "PENDING" \/ pc[r] = "save" \/ answer[r] = "gone"

\* Neither the counters nor what is on its way to a row change.
LEMMA NonceQuiet ==
  ASSUME Books, NonceBook, UNCHANGED <<nonce, next>>,
         \A q \in Request : /\ Claims(q)' => Claims(q) /\ ask'[q] = ask[q]
                            /\ pc'[q] = "save" => pc[q] = "save" /\ ask'[q] = ask[q]
                            /\ \A n : Covers(q, n) => Covers(q, n)' /\ ask'[q] = ask[q]
  PROVE  NonceBook'
<1>1. \A q \in Request : Claims(q)' => nonce'[q] < next'[ask'[q].relayer]
  BY DEF NonceBook
<1>2. \A q \in Request : pc'[q] = "save" => next'[ask'[q].relayer] = nonce'[q] + 1
  BY DEF NonceBook
<1>3. ASSUME NEW p \in Request, NEW q \in Request, Claims(p)', Claims(q)',
             ask'[p].relayer = ask'[q].relayer, nonce'[p] = nonce'[q]
      PROVE  p = q
  BY <1>3 DEF NonceBook
<1>4. ASSUME NEW x \in Relayer, NEW n \in 0 .. next'[x] - 1
      PROVE  \E q \in Request : ask'[q].relayer = x /\ Covers(q, n)'
  <2>1. PICK q \in Request : ask[q].relayer = x /\ Covers(q, n)
    BY DEF NonceBook, Covers
  <2>. QED  BY <2>1
<1>. QED  BY <1>1, <1>2, <1>3, <1>4 DEF NonceBook, Covers

\* The step of a request that has not got a nonce, or keeps it, changes no claim.
LEMMA NonceKept ==
  ASSUME Books, NonceBook, NEW r \in Request,
         \/ \E d \in Wanted : Arrive(r, d)
         \/ Handler(r) \/ GiveBack(r) \/ HangUp(r) \/ Settle(r),
         ~Reserve(r), ~Beaten(r), ~SaveFails(r)
  PROVE  NonceBook'
<1>1. UNCHANGED <<nonce, next>>
  BY DEF Arrive, GiveBack, HangUp, Settle, Handler, Admission, Refuse, FindStored, EnterLimiter,
         Limited, BadBlobs, Lock, EditDone, EditFails, Signed, SignFails, AnswerStored, Prepare,
         AdmitFails, EstimationFails, Saved, Push
<1>2. ASSUME NEW q \in Request, q # r
      PROVE  /\ Claims(q)' <=> Claims(q)
             /\ pc'[q] = pc[q] /\ ask'[q] = ask[q]
             /\ \A n : Covers(q, n) => Covers(q, n)'
  BY <1>1, <1>2, OthersStay DEF Claims, Covers
<1>3. Turn(r) /\ Turn(r)' /\ Admitted
  BY ActorTurn, Desk DEF Books
<1>4. /\ Claims(r)' => Claims(r) /\ ask'[r] = ask[r]
      /\ pc'[r] = "save" => pc[r] = "save" /\ ask'[r] = ask[r]
      /\ \A n : Covers(r, n) => Covers(r, n)' /\ ask'[r] = ask[r]
  <2>. USE <1>1, <1>3 DEF Turn, Admitted, RowType, NothingAhead, Claims, Covers
  <2>1. CASE \E d \in Wanted : Arrive(r, d)
    BY <2>1 DEF Arrive, Goto, FirstStep
  <2>2. CASE GiveBack(r)
    BY <2>2 DEF GiveBack
  <2>3. CASE HangUp(r)
    BY <2>3 DEF HangUp, Answer
  <2>4. CASE Settle(r)
    BY <2>4 DEF Settle
  <2>5. CASE Refuse(r) \/ FindStored(r) \/ EnterLimiter(r) \/ Limited(r)
    BY <2>5 DEF Refuse, FindStored, EnterLimiter, Limited, Answer, AnswerFromRow, Goto, FirstStep,
         Working
  <2>6. CASE Lock(r) \/ Prepare(r) \/ Saved(r)
    BY <2>6 DEF Lock, Prepare, Saved, Goto
  <2>7. CASE EditDone(r) \/ Signed(r) \/ Push(r) \/ BadBlobs(r) \/ EditFails(r) \/ SignFails(r)
             \/ AdmitFails(r)
    BY <2>7, RequestsAssumption
       DEF EditDone, Signed, Push, BadBlobs, EditFails, SignFails, AdmitFails, Fail, Answer, Reason
  <2>8. CASE AnswerStored(r) \/ EstimationFails(r)
    BY <2>8 DEF AnswerStored, EstimationFails, Answer, AnswerFromRow
  <2>. QED
    BY <2>1, <2>2, <2>3, <2>4, <2>5, <2>6, <2>7, <2>8 DEF Handler, Admission
<1>. QED  BY <1>1, <1>2, <1>4, NonceQuiet

\* get_and_increment: the mutex keeps every other request away from "save".
LEMMA NonceReserved ==
  ASSUME Books, NonceBook, NEW r \in Request, Reserve(r)
  PROVE  NonceBook'
<1>. DEFINE x == ask[r].relayer
<1>1. /\ pc[r] = "estimate" /\ pc'[r] = "save" /\ UNCHANGED <<ask, answer, row, inflight>>
      /\ nonce'[r] = next[x] /\ x \in Relayer
      /\ next'[x] = next[x] + 1 /\ \A y \in Relayer \ {x} : next'[y] = next[y]
  BY Desk DEF Reserve, Goto, Books, BookType, Demand
<1>2. next \in [Relayer -> Nat] /\ nonce \in [Request -> Nat]
  BY DEF Books, BookType
<1>3. ~Claims(r) /\ \A n : ~Covers(r, n)
  BY <1>1, Desk DEF Turn, Claims, Covers
<1>4. ASSUME NEW q \in Request, q # r
      PROVE  /\ Claims(q)' <=> Claims(q)
             /\ pc'[q] = pc[q] /\ ask'[q] = ask[q] /\ nonce'[q] = nonce[q] /\ pc[q] # "save"
             /\ \A n : Covers(q, n) => Covers(q, n)'
             /\ Claims(q) => ask[q].relayer \in Relayer
  <2>1. pc[q] # "save"
    BY <1>1, <1>4, Desk DEF Turn, Guarded
  <2>2. Claims(q) => ask[q] \in Demand
    BY Desk DEF Claims, Turn
  <2>. QED  BY <1>4, <2>1, <2>2, OthersStay
       DEF Claims, Covers, Demand, Handler, Admission
<1>5. \A q \in Request : Claims(q)' => nonce'[q] < next'[ask'[q].relayer]
  BY <1>1, <1>2, <1>4 DEF NonceBook
<1>6. \A q \in Request : pc'[q] = "save" => next'[ask'[q].relayer] = nonce'[q] + 1
  BY <1>1, <1>4
<1>7. ASSUME NEW p \in Request, NEW q \in Request, Claims(p)', Claims(q)',
             ask'[p].relayer = ask'[q].relayer, nonce'[p] = nonce'[q]
      PROVE  p = q
  <2>1. \A v \in Request \ {r} : Claims(v)' /\ ask'[v].relayer = x => nonce'[v] < nonce'[r]
    BY <1>1, <1>4 DEF NonceBook
  <2>2. nonce'[p] \in Nat /\ nonce'[q] \in Nat
    BY <1>1, <1>2, <1>4
  <2>. QED  BY <1>1, <1>4, <1>7, <2>1, <2>2 DEF NonceBook
<1>8. ASSUME NEW y \in Relayer, NEW n \in 0 .. next'[y] - 1
      PROVE  \E q \in Request : ask'[q].relayer = y /\ Covers(q, n)'
  <2>1. CASE y = x /\ n = next[x]
    <3>1. ask[r] # Nobody
      BY <1>1, Desk, RequestsAssumption DEF Turn, Books, Admitted, RowType
    <3>. QED  BY <1>1, <2>1, <3>1 DEF Covers
  <2>2. CASE ~(y = x /\ n = next[x])
    <3>1. n \in 0 .. next[y] - 1
      BY <1>1, <1>2, <2>2
    <3>2. PICK q \in Request : ask[q].relayer = y /\ Covers(q, n)
      BY <3>1 DEF NonceBook, Covers
    <3>. QED  BY <1>3, <1>4, <3>2
  <2>. QED  BY <2>1, <2>2
<1>. QED  BY <1>5, <1>6, <1>7, <1>8 DEF NonceBook, Covers

\* release_unbroadcast_nonce: the nonce given back is the last one, and nobody else's.
LEMMA NonceReleased ==
  ASSUME Books, NonceBook, NEW r \in Request, Beaten(r) \/ SaveFails(r)
  PROVE  NonceBook'
<1>. DEFINE x == ask[r].relayer
<1>1. pc[r] = "save" /\ UNCHANGED <<ask, row, nonce>> /\ next' = Released(r)
  BY DEF Beaten, SaveFails
<1>2. next \in [Relayer -> Nat] /\ nonce \in [Request -> Nat] /\ x \in Relayer /\ ask[r] \in Demand
  BY <1>1, Desk DEF Books, BookType, Demand
<1>3. /\ next[x] = nonce[r] + 1 /\ next'[x] = nonce[r]
      /\ \A y \in Relayer \ {x} : next'[y] = next[y]
  BY <1>1, <1>2 DEF NonceBook, Released
<1>4. pc'[r] = "done" /\ Claims(r) /\ ~Claims(r)'
  <2>1. row[r] = "absent" /\ answer[r] = "none" /\ r \notin inflight
    BY <1>1, Desk DEF Turn
  <2>2. pc'[r] = "done"
    BY Desk DEF Beaten, SaveFails, Fail, Answer, AnswerFromRow
  <2>3. answer'[r] = "error" \/ r \notin inflight'
    BY <2>1 DEF Beaten, SaveFails, Fail, Answer, Books, Admitted, RowType
  <2>. QED  BY <1>1, <2>1, <2>2, <2>3 DEF Claims
<1>5. ASSUME NEW q \in Request, q # r
      PROVE  /\ Claims(q)' <=> Claims(q)
             /\ pc'[q] = pc[q] /\ pc[q] # "save"
             /\ \A n : Covers(q, n) => Covers(q, n)'
             /\ Claims(q) => ask[q].relayer \in Relayer
  <2>1. pc[q] # "save"
    BY <1>1, <1>5, Desk DEF Turn, Guarded
  <2>2. Claims(q) => ask[q] \in Demand
    BY Desk DEF Claims, Turn
  <2>. QED  BY <1>5, <2>1, <2>2, OthersStay
       DEF Claims, Covers, Demand, Handler, Admission
<1>6. ASSUME NEW q \in Request, Claims(q)'
      PROVE  nonce'[q] < next'[ask'[q].relayer]
  <2>1. q # r /\ Claims(q) /\ ask[q].relayer \in Relayer /\ nonce[q] < next[ask[q].relayer]
    BY <1>4, <1>5, <1>6 DEF NonceBook
  <2>2. ask[q].relayer = x => nonce[q] # nonce[r]
    BY <1>4, <2>1 DEF NonceBook
  <2>. QED  BY <1>1, <1>2, <1>3, <2>1, <2>2
<1>7. \A q \in Request : pc'[q] # "save"
  BY <1>4, <1>5
<1>8. ASSUME NEW p \in Request, NEW q \in Request, Claims(p)', Claims(q)',
             ask'[p].relayer = ask'[q].relayer, nonce'[p] = nonce'[q]
      PROVE  p = q
  BY <1>1, <1>4, <1>5, <1>8 DEF NonceBook
<1>9. ASSUME NEW y \in Relayer, NEW n \in 0 .. next'[y] - 1
      PROVE  \E q \in Request : ask'[q].relayer = y /\ Covers(q, n)'
  <2>1. n \in 0 .. next[y] - 1 /\ (y = x => n # nonce[r])
    BY <1>2, <1>3
  <2>2. PICK q \in Request : ask[q].relayer = y /\ Covers(q, n)
    BY <2>1 DEF NonceBook, Covers
  <2>3. q # r
    BY <2>1, <2>2 DEF Covers
  <2>. QED  BY <1>1, <1>5, <2>2, <2>3
<1>. QED  BY <1>6, <1>7, <1>8, <1>9 DEF NonceBook, Covers

\* get_and_increment and release_unbroadcast_nonce around a save that may fail, be beaten by a
\* twin's row or be abandoned with its commit on the way: for any number of requests, two rows
\* share a nonce only if the save of one was answered with an error, and no nonce is skipped but
\* that of a client that hung up.
THEOREM NoncesOfAdmission == Spec => []NoncesAccounted
<1>1. Books /\ NonceBook /\ [Next]_vars => NonceBook'
  <2>. SUFFICES ASSUME Books, NonceBook, [Next]_vars
                PROVE  NonceBook'
    OBVIOUS
  <2>1. CASE (Tick /\ UNCHANGED requestVars) \/ UNCHANGED vars
    <3>1. UNCHANGED requestVars
      BY <2>1 DEF vars, requestVars
    <3>. QED  BY <3>1 DEF requestVars, NonceBook, Claims
  <2>. QED  BY <2>1, NonceKept, NonceReserved, NonceReleased DEF Next
<1>2. Books /\ NonceBook => NoncesAccounted
  BY DEF NonceBook, NoncesAccounted, Claims
<1>. QED  BY <1>1, <1>2, NonceInit, BooksKept, PTL DEF Spec

-----------------------------------------------------------------------------
(***************************************************************************)
(* The ledger of the counters.                                              *)
(***************************************************************************)
LEMMA CounterKey ==
  ASSUME NEW r \in Request, NEW scope \in ConfiguredScopes, Keyed(r)
  PROVE  /\ LimiterProfile(ask[r]) \in Profile
         /\ CounterOf(scope, r) \in Key /\ scope \in Scope
         /\ \A s \in ConfiguredScopes : CounterOf(s, r) = CounterOf(scope, r) => s = scope
<1>1. LimiterProfile(ask[r]) \in Profile
  BY RateKeyed DEF Keyed
<1>2. \A s \in ConfiguredScopes : s \in Scope
  BY DEF ConfiguredScopes
<1>. QED  BY <1>1, <1>2, KeysTyped, KeyScope DEF CounterOf

LEMMA StandingScopes ==
  ASSUME Books, NEW r \in Request
  PROVE  Standing(r) \subseteq ConfiguredScopes
BY Desk DEF Standing, SlotAt, LimiterType, ActiveSlot, SlotIdle, Request, Phases

LEMMA LedgerInit == Init => Ledger
<1>. SUFFICES ASSUME Init
              PROVE  Ledger
  OBVIOUS
<1>1. Books
  BY BooksInit
<1>2. /\ \A r \in Request : Standing(r) = {}
      /\ \A k \in Key : usage[k] = NoUsage /\ counted[k] = {}
  BY RequestsAssumption DEF Init, LimiterInit, Standing, SlotAt, SlotIdle, Request, Reason
<1>3. ASSUME NEW scope \in ConfiguredScopes, NEW p \in Profile
      PROVE  KeyOf(scope, p) \in Key
  BY KeysTyped DEF ConfiguredScopes
<1>. QED  BY <1>2, <1>3 DEF Ledger

\* A step that touches no counter: where the slot of a counted request goes next, it is counted.
LEMMA LedgerQuiet ==
  ASSUME Books, Ledger, NEW r \in Request, UNCHANGED <<clock, usage, counted>>,
         \A q \in Request \ {r} :
            ask'[q] = ask[q] /\ slot'[q] = slot[q] /\ answer'[q] = answer[q],
         Keyed(r) /\ Standing(r) # {} => ask'[r] = ask[r] /\ Standing(r) \subseteq Standing(r)',
         Keyed(r)' /\ ~Gone(r)' /\ Standing(r)' # {}
           => ask'[r] = ask[r] /\ ~Gone(r) /\ Standing(r)' \subseteq Standing(r)
  PROVE  Ledger'
<1>1. \A q \in Request \ {r} :
        /\ Keyed(q)' <=> Keyed(q)
        /\ Gone(q)' <=> Gone(q)
        /\ Standing(q)' = Standing(q)
        /\ \A s : CounterOf(s, q)' = CounterOf(s, q)
  BY DEF Keyed, Gone, Standing, CounterOf, LimiterProfile, SlotAt
<1>2. ask'[r] = ask[r] => (Keyed(r)' <=> Keyed(r)) /\ \A s : CounterOf(s, r)' = CounterOf(s, r)
  BY DEF Keyed, CounterOf, LimiterProfile
<1>3. counted \in [Key -> SUBSET Request]
  BY DEF Books, BookType
<1>4. ASSUME NEW k \in Key, NEW q \in counted'[k]
      PROVE  Keyed(q)' /\ \E scope \in Standing(q)' : k = CounterOf(scope, q)'
  <2>1. q \in Request /\ Keyed(q) /\ \E scope \in Standing(q) : k = CounterOf(scope, q)
    BY <1>3 DEF Ledger
  <2>. QED  BY <1>1, <1>2, <2>1
<1>5. ASSUME NEW q \in Request, Keyed(q)', ~Gone(q)', NEW scope \in Standing(q)',
             clock < LimitsOf(scope).window
      PROVE  q \in counted[CounterOf(scope, q)']
  BY <1>1, <1>2, <1>5 DEF Ledger
<1>. QED  BY <1>4, <1>5 DEF Ledger

\* An answer that comes before the limiter, or from it, counts nothing.
LEMMA Uncounted ==
  ASSUME Books, NEW r \in Request, pc[r] # "done", slot[r].at \in {"idle", "checking"}
  PROVE  Standing(r) = {}
<1>1. answer[r] = "none" /\ answer[r] # r
  BY Desk, RequestsAssumption DEF Turn, Reason
<1>. QED  BY <1>1 DEF Standing, SlotAt

\* A reservation that is committed, given up or dropped stands for what it stood for.
LEMMA LedgerLeaves ==
  ASSUME Books, Ledger, NEW r \in Request, ask' = ask, counted' = counted,
         pc[r] \notin {"limiting", "done"}, pc[r] # "out",
         \A q \in Request \ {r} : slot'[q] = slot[q] /\ answer'[q] = answer[q],
         \/ Keep(r) /\ answer'[r] \in {"done", r} /\ pc[r] \in AtWork
         \/ LetGo(r) /\ (pc[r] \in AtWork \/ answer'[r] = "gone")
  PROVE  Ledger'
<1>0. UNCHANGED <<clock, usage>>
  BY DEF Keep, LetGo, Commit, DropReservation, limiterVars
<1>1. AtDesk(r) /\ LimiterType /\ slot[r].at \in {"idle", "held"}
  BY Desk DEF AtDesk, SlotAt
<1>2. CASE slot[r].at = "held"
  <2>1. Standing(r) = ConfiguredScopes /\ ~Gone(r)
    BY <1>2 DEF Standing, SlotAt, Gone
  <2>2. Standing(r)' = ConfiguredScopes
    <3>1. CASE Keep(r)
      <4>1. slot'[r].at = "idle"
        BY <1>1, <1>2, <3>1, Phased DEF Keep, SlotAt, Request
      <4>2. slot[r].at = "held" /\ ~LetGo(r)
        BY <1>1, <1>2, <3>1, <4>1, Phased DEF LetGo, SlotAt, Request
      <4>. QED  BY <4>1, <4>2 DEF Standing, SlotAt
    <3>2. CASE LetGo(r)
      <4>1. slot'[r] = At(r, "reverting", ConfiguredScopes)
        BY <1>1, <1>2, <3>2 DEF LetGo, SlotAt, DropReservation, LimiterType, Request
      <4>. QED  BY <4>1 DEF Standing, SlotAt, At
    <3>. QED  BY <3>1, <3>2
  <2>. QED  BY <1>0, <2>1, <2>2, LedgerQuiet
<1>3. CASE slot[r].at = "idle"
  <2>1. Standing(r) = {} /\ slot' = slot
    BY <1>3, Uncounted DEF Keep, LetGo, SlotAt, limiterVars
  <2>2. CASE answer'[r] = "gone"
    <3>1. Gone(r)'
      BY <1>3, <2>1, <2>2 DEF Gone, SlotAt
    <3>. QED  BY <1>0, <2>1, <3>1, LedgerQuiet
  <2>3. CASE pc[r] \in AtWork
    <3>1. ~Keyed(r) /\ ~Keyed(r)'
      BY <1>1, <1>3, <2>3 DEF AtDesk, SlotAt, Keyed
    <3>. QED  BY <1>0, <2>1, <3>1, LedgerQuiet
  <2>. QED  BY <2>2, <2>3
<1>. QED  BY <1>1, <1>2, <1>3

\* What a charge does to its counter: it counts on, or opens the window of the clock it goes by.
LEMMA ChargedCount ==
  ASSUME LimiterType, NEW scope \in ConfiguredScopes, NEW p \in Profile, NEW t \in Nat, t <= clock,
         LET k == KeyOf(scope, p) IN
         usage[k] # NoUsage /\ clock < LimitsOf(scope).window => usage[k].start = 0
  PROVE  LET k == KeyOf(scope, p)
             w == LimitsOf(scope).window
             u == Charged(k, t, w)
         IN  /\ u \in UsageWindow
             /\ clock < w => u.start = 0
             /\ usage[k] = NoUsage => u.count = 1
             /\ usage[k] # NoUsage /\ u.start = usage[k].start => u.count = usage[k].count + 1
             /\ usage[k] # NoUsage /\ u.start # usage[k].start => u.count = 1
<1>. DEFINE k == KeyOf(scope, p)
            w == LimitsOf(scope).window
<1>1. k \in Key /\ w \in Nat \ {0} /\ clock \in Nat
  BY LimitsType, KeysTyped, LimitsNat DEF LimiterType
<1>2. usage[k] \in UsageWindow \cup {NoUsage}
  BY <1>1 DEF LimiterType
<1>3. Charged(k, t, w) \in UsageWindow
  BY <1>1, ChargedType
<1>4. WindowStart(t, w) \in Nat /\ WindowStart(t, w) <= t /\ t - WindowStart(t, w) < w
      /\ (t < w => WindowStart(t, w) = 0)
  BY <1>1 DEF WindowStart
<1>. HIDE DEF k, w
<1>5. CASE usage[k] = NoUsage
  <2>1. Charged(k, t, w) = [count |-> 1, start |-> WindowStart(t, w)]
    BY <1>1, <1>4, <1>5 DEF Charged, UsageAt, Expired
  <2>. QED  BY <1>1, <1>3, <1>4, <1>5, <2>1 DEF k, w
<1>6. CASE usage[k] # NoUsage
  <2>1. usage[k].start \in Nat /\ usage[k].count \in Nat /\ UsageAt(k, t, w) = usage[k]
    BY <1>2, <1>6 DEF UsageAt, UsageWindow
  <2>2. CASE Expired(usage[k], t, w)
    <3>1. Charged(k, t, w) = [count |-> 1, start |-> WindowStart(t, w)]
      BY <2>1, <2>2 DEF Charged
    <3>2. WindowStart(t, w) # usage[k].start
      BY <1>1, <1>4, <2>1, <2>2 DEF Expired
    <3>3. ~(clock < w)
      BY <1>1, <1>4, <1>6, <2>1, <2>2 DEF Expired, k, w
    <3>. QED  BY <1>3, <1>6, <3>1, <3>2, <3>3 DEF k, w
  <2>3. CASE ~Expired(usage[k], t, w)
    <3>1. Charged(k, t, w).count = usage[k].count + 1 /\ Charged(k, t, w).start = usage[k].start
      BY <1>2, <1>6, <2>1, <2>3 DEF Charged, UsageWindow
    <3>. QED  BY <1>3, <1>6, <3>1 DEF k, w
  <2>. QED  BY <2>2, <2>3
<1>. QED  BY <1>5, <1>6

\* Cardinalities of the sets of counted requests.
LEMMA CountedCards ==
  ASSUME NEW S \in SUBSET Request, NEW r \in Request
  PROVE  /\ Cardinality(S) \in Nat /\ Cardinality(S \ {r}) \in Nat
         /\ r \notin S => Cardinality(S \cup {r}) = Cardinality(S) + 1
         /\ r \in S => Cardinality(S \ {r}) = Cardinality(S) - 1 /\ Cardinality(S) >= 1
         /\ r \notin S => S \ {r} = S
         /\ Cardinality({r}) = 1 /\ Cardinality({}) = 0
<1>1. IsFiniteSet(S)
  BY SlotAssumption, FS_Subset DEF Request
<1>2. Cardinality(S) \in Nat /\ (r \notin S => Cardinality(S \cup {r}) = Cardinality(S) + 1)
  BY <1>1, FS_CardinalityType, FS_AddElement
<1>3. /\ IsFiniteSet(S \ {r}) /\ Cardinality(S \ {r}) \in Nat
      /\ r \in S => Cardinality(S \ {r}) = Cardinality(S) - 1
  BY <1>1, FS_CardinalityType, FS_RemoveElement
<1>4. r \in S => Cardinality(S) >= 1
  BY <1>2, <1>3
<1>5. Cardinality({r}) = 1 /\ Cardinality({}) = 0
  BY FS_EmptySet, FS_Singleton
<1>. QED  BY <1>2, <1>3, <1>4, <1>5

LEMMA LedgerCharge ==
  ASSUME Books, Ledger, NEW r \in Request, Limited(r), Charge(r)
  PROVE  Ledger'
<1>. DEFINE sc == NextToCharge(slot[r].left)
            k == CounterOf(sc, r)
            w == LimitsOf(sc).window
<1>1. /\ LimiterType /\ counted \in [Key -> SUBSET Request]
      /\ usage \in [Key -> UsageWindow \cup {NoUsage}] /\ clock \in Nat
      /\ SlotAt(r, "charging") /\ pc[r] = "limiting" /\ answer[r] = "none" /\ Keyed(r)
      /\ slot[r].profile = LimiterProfile(ask[r])
  BY Desk DEF Books, BookType, LimiterType, Charge, Limited, Turn, AtDesk, SlotAt
<1>2. slot[r].left \subseteq ConfiguredScopes /\ sc \in slot[r].left /\ sc \in ConfiguredScopes
  <2>1. slot[r] \in ActiveSlot /\ slot[r].left # {}
    BY <1>1, ActiveSlots DEF LimiterType, SlotAt, Request
  <2>. QED  BY <2>1, NextScopes DEF ActiveSlot
<1>3. /\ LimiterProfile(ask[r]) \in Profile /\ k \in Key
      /\ \A s \in ConfiguredScopes : CounterOf(s, r) = k => s = sc
  BY <1>1, <1>2, CounterKey
<1>4. k = KeyOf(sc, slot[r].profile)
  BY <1>1 DEF CounterOf
<1>5. PICK t \in slot[r].since .. clock : usage' = [usage EXCEPT ![k] = Charged(k, t, w)]
  BY <1>4 DEF Charge
<1>6. t \in Nat /\ t <= clock
  <2>1. slot[r].since \in Nat
    BY <1>1, ActiveSlots DEF SlotAt, ActiveSlot, Request
  <2>. QED  BY <1>1, <2>1
<1>7. /\ Charged(k, t, w) \in UsageWindow
      /\ clock < w => Charged(k, t, w).start = 0
      /\ usage[k] = NoUsage => Charged(k, t, w).count = 1
      /\ usage[k] # NoUsage /\ Charged(k, t, w).start = usage[k].start
           => Charged(k, t, w).count = usage[k].count + 1
      /\ usage[k] # NoUsage /\ Charged(k, t, w).start # usage[k].start => Charged(k, t, w).count = 1
  BY <1>1, <1>2, <1>3, <1>6, ChargedCount DEF Ledger, CounterOf
<1>. DEFINE renewed == usage[k] # NoUsage /\ usage'[k].start # usage[k].start
<1>8. /\ usage'[k] = Charged(k, t, w) /\ \A j \in Key \ {k} : usage'[j] = usage[j]
      /\ counted' = [counted EXCEPT ![k] = IF renewed THEN {r} ELSE @ \cup {r}]
      /\ UNCHANGED <<clock, ask, answer>>
  <2>1. usage'[k] = Charged(k, t, w) /\ \A j \in Key \ {k} : usage'[j] = usage[j]
    BY <1>1, <1>3, <1>5
  <2>2. counted' = [counted EXCEPT ![k] = IF renewed THEN {r} ELSE @ \cup {r}]
    BY <1>1, <1>4, Phased DEF Limited, Exceed, SlotAt, Request
  <2>. QED  BY <1>1, <2>1, <2>2, Phased DEF Limited, Exceed, Charge, SlotAt, Request
<1>9. /\ counted'[k] = IF renewed THEN {r} ELSE counted[k] \cup {r}
      /\ \A j \in Key \ {k} : counted'[j] = counted[j]
  BY <1>1, <1>3, <1>8
<1>10. /\ \A q \in Request \ {r} : slot'[q] = slot[q]
       /\ Standing(r) = ConfiguredScopes \ slot[r].left
       /\ Standing(r)' = (ConfiguredScopes \ slot[r].left) \cup {sc}
  <2>1. slot' = [slot EXCEPT ![r] = GoOn(r, "charging", slot[r].left \ {sc}, At(r, "held", {}))]
    BY DEF Charge
  <2>. HIDE DEF sc
  <2>2. /\ slot'[r].at \in {"charging", "held"}
        /\ slot'[r].at = "charging" => slot'[r].left = slot[r].left \ {sc}
        /\ slot'[r].at = "held" => slot[r].left \ {sc} = {}
    BY <1>1, <2>1 DEF GoOn, At, LimiterType, Request
  <2>. QED  BY <1>1, <1>2, <2>1, <2>2 DEF Standing, SlotAt, LimiterType, Request
<1>. HIDE DEF k, w, sc, renewed
<1>11. \A q \in Request :
         /\ Keyed(q)' <=> Keyed(q)
         /\ \A s : CounterOf(s, q)' = CounterOf(s, q)
         /\ q # r => Standing(q)' = Standing(q) /\ (Gone(q)' <=> Gone(q))
  BY <1>8, <1>10 DEF Keyed, CounterOf, LimiterProfile, Standing, Gone, SlotAt
<1>12. r \notin counted[k]
  <2>1. \A s \in Standing(r) : s \in ConfiguredScopes /\ s # sc
    BY <1>2, <1>10
  <2>. QED  BY <1>3, <2>1 DEF Ledger
<1>13. ASSUME NEW j \in Key, NEW q \in counted'[j]
       PROVE  Keyed(q)' /\ \E s \in Standing(q)' : j = CounterOf(s, q)'
  <2>1. q \in Request /\ (q \in counted[j] \/ (q = r /\ j = k))
    BY <1>1, <1>9
  <2>2. CASE q \in counted[j]
    BY <1>10, <1>11, <2>1, <2>2 DEF Ledger
  <2>3. CASE q = r /\ j = k
    BY <1>1, <1>10, <1>11, <2>3 DEF k
  <2>. QED  BY <2>1, <2>2, <2>3
<1>14. clock < w => ~renewed
  BY <1>1, <1>2, <1>3, <1>7, <1>8 DEF Ledger, CounterOf, k, w, renewed
<1>15. ASSUME NEW q \in Request, Keyed(q)', ~Gone(q)', NEW s \in Standing(q)',
              clock' < LimitsOf(s).window
       PROVE  q \in counted'[CounterOf(s, q)']
  <2>1. s \in ConfiguredScopes
    BY <1>2, <1>10, <1>11, StandingScopes
  <2>2. CounterOf(s, q) \in Key /\ CounterOf(s, q)' = CounterOf(s, q) /\ Keyed(q)
    BY <1>11, <1>15, <2>1, CounterKey
  <2>3. CASE q = r /\ s = sc
    BY <1>3, <1>9, <2>2, <2>3 DEF k
  <2>4. CASE ~(q = r /\ s = sc)
    <3>1. s \in Standing(q) /\ ~Gone(q)
      BY <1>1, <1>10, <1>11, <1>15, <2>4 DEF Gone
    <3>2. q \in counted[CounterOf(s, q)]
      BY <1>8, <1>15, <2>2, <3>1 DEF Ledger
    <3>3. CASE CounterOf(s, q) = k
      <4>1. s = sc
        BY <1>2, <1>3, <1>11, <1>15, <2>1, <2>2, <3>3, CounterKey, KeyScope
           DEF k, CounterOf, ConfiguredScopes
      <4>. QED  BY <1>8, <1>9, <1>14, <1>15, <2>2, <3>2, <3>3, <4>1 DEF w
    <3>. QED  BY <1>9, <2>2, <3>2, <3>3
  <2>. QED  BY <2>3, <2>4
<1>16. ASSUME NEW s \in ConfiguredScopes, NEW p \in Profile
       PROVE  LET j == KeyOf(s, p) IN
              /\ usage'[j] = NoUsage => counted'[j] = {}
              /\ usage'[j] # NoUsage /\ clock' < LimitsOf(s).window => usage'[j].start = 0
              /\ usage'[j] # NoUsage => usage'[j].count <= Cardinality(counted'[j])
              /\ usage'[j] # NoUsage /\ clock' < LimitsOf(s).window
                   => usage'[j].count = Cardinality(counted'[j])
  <2>1. KeyOf(s, p) \in Key
    BY KeysTyped DEF ConfiguredScopes
  <2>2. CASE KeyOf(s, p) # k
    BY <1>8, <1>9, <2>1, <2>2 DEF Ledger
  <2>3. CASE KeyOf(s, p) = k
    <3>1. s = sc
      BY <1>2, <1>3, <2>3, KeyScope DEF k, CounterOf, ConfiguredScopes
    <3>2. /\ usage[k] = NoUsage => counted[k] = {}
          /\ usage[k] # NoUsage => usage[k].count <= Cardinality(counted[k])
          /\ usage[k] # NoUsage /\ clock < w => usage[k].count = Cardinality(counted[k])
      BY <2>3, <3>1 DEF Ledger, w
    <3>3. usage'[k] # NoUsage /\ usage'[k].count \in Nat
      BY <1>7, <1>8, NoUsageAssumption DEF UsageWindow
    <3>4. /\ Cardinality(counted[k]) \in Nat /\ Cardinality({r}) = 1 /\ {} \cup {r} = {r}
          /\ Cardinality(counted[k] \cup {r}) = Cardinality(counted[k]) + 1
      BY <1>1, <1>3, <1>12, CountedCards
    <3>5. usage[k] # NoUsage => usage[k].count \in Nat
      BY <1>1, <1>3 DEF UsageWindow
    <3>6. /\ usage'[k].count <= Cardinality(counted'[k])
          /\ clock < w => usage'[k].count = Cardinality(counted'[k])
      <4>1. CASE usage[k] = NoUsage
        <5>1. usage'[k].count = 1
          BY <1>7, <1>8, <4>1
        <5>2. counted'[k] = {r}
          BY <1>9, <3>2, <3>4, <4>1 DEF renewed
        <5>. QED  BY <3>4, <5>1, <5>2
      <4>2. CASE usage[k] # NoUsage /\ renewed
        <5>1. usage'[k].start # usage[k].start
          BY <4>2 DEF renewed
        <5>2. usage'[k].count = 1
          BY <1>7, <1>8, <4>2, <5>1
        <5>3. counted'[k] = {r}
          BY <1>9, <4>2
        <5>. QED  BY <3>4, <5>2, <5>3
      <4>3. CASE usage[k] # NoUsage /\ ~renewed
        <5>1. counted'[k] = counted[k] \cup {r} /\ usage'[k].count = usage[k].count + 1
          BY <1>7, <1>8, <1>9, <4>3 DEF renewed
        <5>. QED  BY <3>2, <3>4, <3>5, <4>3, <5>1
      <4>. QED  BY <4>1, <4>2, <4>3
    <3>7. clock < w => usage'[k].start = 0
      BY <1>7, <1>8
    <3>. QED  BY <1>8, <2>3, <3>1, <3>3, <3>6, <3>7 DEF w
  <2>. QED  BY <2>2, <2>3
<1>. QED  BY <1>13, <1>15, <1>16 DEF Ledger

\* A charge that is given back was still counted, while the window it was made in lasts.
LEMMA LedgerRevert ==
  ASSUME Books, Ledger, NEW r \in Request, GiveBack(r)
  PROVE  Ledger'
<1>. DEFINE sc == NextToCharge(slot[r].left)
            k == CounterOf(sc, r)
            w == LimitsOf(sc).window
<1>1. /\ LimiterType /\ counted \in [Key -> SUBSET Request]
      /\ usage \in [Key -> UsageWindow \cup {NoUsage}] /\ clock \in Nat
      /\ SlotAt(r, "reverting") /\ pc[r] = "done" /\ answer[r] \notin {"done", r} /\ Keyed(r)
      /\ slot[r].profile = LimiterProfile(ask[r]) /\ ~Gone(r)
      /\ UNCHANGED <<clock, ask, answer>>
  BY Desk DEF Books, BookType, LimiterType, Revert, GiveBack, AtDesk, SlotAt, Gone
<1>2. slot[r].left \subseteq ConfiguredScopes /\ sc \in slot[r].left /\ sc \in ConfiguredScopes
  <2>1. slot[r] \in ActiveSlot /\ slot[r].left # {}
    BY <1>1, ActiveSlots DEF LimiterType, SlotAt, Request
  <2>. QED  BY <2>1, NextScopes DEF ActiveSlot
<1>3. /\ LimiterProfile(ask[r]) \in Profile /\ k \in Key
      /\ \A s \in ConfiguredScopes : CounterOf(s, r) = k => s = sc
  BY <1>1, <1>2, CounterKey
<1>4. k = KeyOf(sc, slot[r].profile)
  BY <1>1 DEF CounterOf
<1>5. /\ usage' = [usage EXCEPT ![k] = Reverted(usage[k])]
      /\ counted' = [counted EXCEPT ![k] = @ \ {r}]
  BY <1>4 DEF GiveBack, Revert
<1>6. /\ usage'[k] = Reverted(usage[k]) /\ \A j \in Key \ {k} : usage'[j] = usage[j]
      /\ counted'[k] = counted[k] \ {r} /\ \A j \in Key \ {k} : counted'[j] = counted[j]
  BY <1>1, <1>3, <1>5
<1>7. /\ \A q \in Request \ {r} : slot'[q] = slot[q]
      /\ Standing(r) = slot[r].left
      /\ Standing(r) \ {sc} \subseteq Standing(r)'
      /\ ~Gone(r)' => Standing(r)' = Standing(r) \ {sc}
  <2>1. slot' = [slot EXCEPT ![r] = GoOn(r, "reverting", slot[r].left \ {sc}, SlotIdle)]
    BY DEF GiveBack, Revert
  <2>. HIDE DEF sc
  <2>2. \/ /\ slot'[r].at = "reverting" /\ slot'[r].left = slot[r].left \ {sc}
        \/ /\ slot'[r].at = "idle" /\ slot[r].left \ {sc} = {}
    BY <1>1, <2>1 DEF GoOn, At, SlotIdle, LimiterType, Request
  <2>3. Standing(r) = slot[r].left /\ \A q \in Request \ {r} : slot'[q] = slot[q]
    BY <1>1, <2>1 DEF Standing, SlotAt, LimiterType, Request
  <2>4. CASE slot'[r].at = "reverting" /\ slot'[r].left = slot[r].left \ {sc}
    BY <2>3, <2>4 DEF Standing, SlotAt
  <2>5. CASE slot'[r].at = "idle" /\ slot[r].left \ {sc} = {}
    BY <1>1, <2>3, <2>5 DEF Standing, SlotAt, Gone
  <2>. QED  BY <2>2, <2>3, <2>4, <2>5
<1>. HIDE DEF k, w, sc
<1>8. \A q \in Request :
         /\ Keyed(q)' <=> Keyed(q)
         /\ \A s : CounterOf(s, q)' = CounterOf(s, q)
         /\ q # r => Standing(q)' = Standing(q) /\ (Gone(q)' <=> Gone(q))
  BY <1>1, <1>7 DEF Keyed, CounterOf, LimiterProfile, Standing, Gone, SlotAt
<1>9. clock < w => r \in counted[k]
  BY <1>1, <1>2, <1>7 DEF Ledger, k, w
<1>10. ASSUME NEW j \in Key, NEW q \in counted'[j]
       PROVE  Keyed(q)' /\ \E s \in Standing(q)' : j = CounterOf(s, q)'
  <2>1. q \in Request /\ q \in counted[j] /\ ~(q = r /\ j = k)
    BY <1>1, <1>6
  <2>2. Keyed(q) /\ \E s \in Standing(q) : j = CounterOf(s, q)
    BY <2>1 DEF Ledger
  <2>3. CASE q = r
    <3>1. PICK s \in Standing(r) : j = CounterOf(s, r)
      BY <2>2, <2>3
    <3>2. s # sc
      BY <2>1, <2>3, <3>1 DEF k
    <3>. QED  BY <1>7, <1>8, <2>1, <2>2, <2>3, <3>1, <3>2
  <2>4. CASE q # r
    BY <1>8, <2>1, <2>2, <2>4
  <2>. QED  BY <2>3, <2>4
<1>11. ASSUME NEW q \in Request, Keyed(q)', ~Gone(q)', NEW s \in Standing(q)',
              clock' < LimitsOf(s).window
       PROVE  q \in counted'[CounterOf(s, q)']
  <2>1. s \in Standing(q) /\ ~Gone(q) /\ Keyed(q) /\ CounterOf(s, q)' = CounterOf(s, q)
        /\ (q = r => s # sc)
    BY <1>1, <1>7, <1>8, <1>11
  <2>2. q \in counted[CounterOf(s, q)]
    BY <1>1, <1>11, <2>1 DEF Ledger
  <2>3. s \in ConfiguredScopes /\ CounterOf(s, q) \in Key
    BY <2>1, StandingScopes, CounterKey
  <2>4. q = r => CounterOf(s, q) # k
    BY <1>3, <2>1, <2>3
  <2>. QED  BY <1>6, <2>1, <2>2, <2>3, <2>4
<1>12. ASSUME NEW s \in ConfiguredScopes, NEW p \in Profile
       PROVE  LET j == KeyOf(s, p) IN
              /\ usage'[j] = NoUsage => counted'[j] = {}
              /\ usage'[j] # NoUsage /\ clock' < LimitsOf(s).window => usage'[j].start = 0
              /\ usage'[j] # NoUsage => usage'[j].count <= Cardinality(counted'[j])
              /\ usage'[j] # NoUsage /\ clock' < LimitsOf(s).window
                   => usage'[j].count = Cardinality(counted'[j])
  <2>1. KeyOf(s, p) \in Key
    BY KeysTyped DEF ConfiguredScopes
  <2>2. CASE KeyOf(s, p) # k
    BY <1>1, <1>6, <2>1, <2>2 DEF Ledger
  <2>3. CASE KeyOf(s, p) = k
    <3>1. s = sc
      BY <1>2, <1>3, <2>3, KeyScope DEF k, CounterOf, ConfiguredScopes
    <3>2. /\ usage[k] = NoUsage => counted[k] = {}
          /\ usage[k] # NoUsage /\ clock < w => usage[k].start = 0
          /\ usage[k] # NoUsage => usage[k].count <= Cardinality(counted[k])
          /\ usage[k] # NoUsage /\ clock < w => usage[k].count = Cardinality(counted[k])
      BY <2>3, <3>1 DEF Ledger, w
    <3>3. CASE usage[k] = NoUsage
      <4>1. usage'[k] = NoUsage /\ counted'[k] = {}
        BY <1>6, <3>2, <3>3 DEF Reverted
      <4>. QED  BY <2>3, <4>1
    <3>4. CASE usage[k] # NoUsage
      <4>1. usage[k] \in UsageWindow /\ usage[k].count \in Nat
        BY <1>1, <1>3, <3>4 DEF UsageWindow
      <4>2. /\ usage'[k] # NoUsage /\ usage'[k].start = usage[k].start
            /\ usage'[k].count = IF usage[k].count > 0 THEN usage[k].count - 1 ELSE 0
        BY <1>6, <3>4, <4>1, NoUsageAssumption DEF Reverted, UsageWindow
      <4>3. /\ Cardinality(counted[k]) \in Nat /\ Cardinality(counted[k] \ {r}) \in Nat
            /\ r \in counted[k] => /\ Cardinality(counted[k] \ {r}) = Cardinality(counted[k]) - 1
                                   /\ Cardinality(counted[k]) >= 1
            /\ r \notin counted[k] => counted[k] \ {r} = counted[k]
        BY <1>1, <1>3, CountedCards
      <4>4. usage'[k].count <= Cardinality(counted'[k])
        <5>1. CASE r \in counted[k]
          BY <1>6, <3>2, <3>4, <4>1, <4>2, <4>3, <5>1
        <5>2. CASE r \notin counted[k]
          <6>1. counted'[k] = counted[k] /\ usage[k].count <= Cardinality(counted[k])
            BY <1>6, <3>2, <3>4, <4>3, <5>2
          <6>2. usage'[k].count <= usage[k].count /\ usage'[k].count \in Nat
            BY <4>1, <4>2
          <6>. QED  BY <4>1, <4>3, <6>1, <6>2
        <5>. QED  BY <5>1, <5>2
      <4>5. clock < w => usage'[k].count = Cardinality(counted'[k])
        BY <1>6, <1>9, <3>2, <3>4, <4>1, <4>2, <4>3
      <4>. QED  BY <1>1, <2>3, <3>1, <3>2, <3>4, <4>2, <4>4, <4>5 DEF w
    <3>. QED  BY <3>3, <3>4
  <2>. QED  BY <2>2, <2>3
<1>. QED  BY <1>10, <1>11, <1>12 DEF Ledger

\* The answers that come without a charge, and the steps in between.
LEMMA LedgerActor ==
  ASSUME Books, Ledger, NEW r \in Request,
         \/ \E d \in Wanted : Arrive(r, d)
         \/ Handler(r) \/ GiveBack(r) \/ HangUp(r) \/ Settle(r)
  PROVE  Ledger'
<1>0. /\ AtDesk(r) /\ Turn(r) /\ LimiterType /\ pc \in [Request -> Step]
      /\ slot[r].at \in {"idle", "checking", "charging", "held", "reverting"}
      /\ \A q \in Request \ {r} :
           ask'[q] = ask[q] /\ slot'[q] = slot[q] /\ answer'[q] = answer[q]
      /\ answer \in [Request -> Reason \cup Request]
      /\ ask \in [Request -> Demand \cup {Nobody}]
  BY Desk, OthersStay DEF Books, Admitted, RowType
<1>1. CASE \E d \in Wanted : Arrive(r, d)
  <2>1. pc[r] = "out" /\ UNCHANGED <<clock, usage, counted, slot, answer>>
    BY <1>1 DEF Arrive, Goto
  <2>2. Standing(r) = {}
    BY <1>0, <2>1, Uncounted DEF AtDesk, SlotAt, AtWork, Guarded
  <2>3. Standing(r)' = {}
    BY <2>1, <2>2 DEF Standing, SlotAt
  <2>. QED  BY <1>0, <2>1, <2>2, <2>3, LedgerQuiet
<1>2. CASE Lock(r) \/ Prepare(r) \/ Reserve(r) \/ Saved(r) \/ Settle(r)
  <2>1. UNCHANGED <<clock, usage, counted, slot, answer, ask>>
    BY <1>2 DEF Lock, Prepare, Reserve, Saved, Settle, Goto
  <2>2. Standing(r)' = Standing(r) /\ (Gone(r)' <=> Gone(r))
    BY <2>1 DEF Standing, Gone, SlotAt
  <2>. QED  BY <1>0, <2>1, <2>2, LedgerQuiet
<1>3. CASE Refuse(r) \/ FindStored(r)
  <2>1. /\ pc[r] \in {"find", "limit"} /\ UNCHANGED <<clock, usage, counted, slot, ask>>
        /\ answer'[r] \notin {"done", "gone", r}
    <3>1. row[r] = "absent" /\ answer[r] = "none" /\ pc[r] \in {"find", "limit"}
      BY <1>0, <1>3 DEF Turn, Refuse, FindStored, FirstStep, Guarded
    <3>2. r \notin Stored(r) /\ "done" \notin Stored(r) /\ "gone" \notin Stored(r)
      BY <3>1, RequestsAssumption DEF Stored, RowsOf, Reason
    <3>3. /\ AnswerFromRow(r) => answer'[r] \in Stored(r) \cup {"conflict"}
          /\ Answer(r, "refused") => answer'[r] = "refused"
      BY <1>0 DEF Answer, AnswerFromRow
    <3>4. answer'[r] \in Stored(r) \cup {"conflict", "refused", "none"}
      BY <1>3, <3>1, <3>3 DEF Refuse, FindStored
    <3>. QED  BY <1>3, <3>1, <3>2, <3>4, RequestsAssumption DEF Refuse, FindStored, Reason
  <2>2. Standing(r) = {} /\ slot[r].at = "idle"
    BY <1>0, <2>1, Uncounted DEF AtDesk, SlotAt, AtWork, Guarded
  <2>3. Standing(r)' = {}
    BY <2>1, <2>2 DEF Standing, SlotAt
  <2>. QED  BY <1>0, <2>1, <2>2, <2>3, LedgerQuiet
<1>4. CASE EnterLimiter(r)
  <2>1. pc[r] = "limit" /\ UNCHANGED <<clock, usage, counted, ask>>
    BY <1>4 DEF EnterLimiter, Begin
  <2>2. Standing(r) = {} /\ slot[r].at = "idle"
    BY <1>0, <2>1, Uncounted DEF AtDesk, SlotAt, AtWork, Guarded
  <2>3. slot' = slot \/ slot'[r].at = "checking"
    BY <1>0, <1>4 DEF EnterLimiter, Begin, LimiterType, Request
  <2>4. answer'[r] \in {"none", "error"}
    BY <1>0, <1>4, <2>1 DEF EnterLimiter, Answer, Turn
  <2>5. Standing(r)' = {}
    BY <2>2, <2>3, <2>4, RequestsAssumption DEF Standing, SlotAt, Reason
  <2>. QED  BY <1>0, <2>1, <2>2, <2>5, LedgerQuiet
<1>5. CASE Limited(r)
  <2>1. pc[r] = "limiting" /\ answer[r] = "none" /\ ask' = ask
    BY <1>0, <1>5 DEF Limited, Turn
  <2>2. CASE Charge(r)
    BY <1>5, <2>2, LedgerCharge
  <2>3. CASE Check(r) /\ UNCHANGED <<pc, answer, counted>>
    <3>1. /\ slot[r].at = "checking" /\ Standing(r) = {} /\ UNCHANGED <<clock, usage>>
      BY <1>0, <2>1, <2>3, Phased, Uncounted DEF Check, Request
    <3>2. slot' = [slot EXCEPT ![r] = GoOn(r, "checking",
                        slot[r].left \ {NextToCheck(slot[r].left)},
                        At(r, "charging", ConfiguredScopes))]
      BY <2>3 DEF Check
    <3>3. slot'[r].at = "checking" \/ (slot'[r].at = "charging" /\ slot'[r].left = ConfiguredScopes)
      BY <1>0, <3>2 DEF GoOn, At, LimiterType, Request
    <3>4. Standing(r)' = {}
      BY <3>3 DEF Standing, SlotAt
    <3>. QED  BY <1>0, <2>1, <2>3, <3>1, <3>4, LedgerQuiet
  <2>4. CASE Exceed(r) /\ Answer(r, "limited") /\ UNCHANGED counted
    <3>1. /\ slot[r].at = "checking" /\ slot'[r].at = "idle" /\ Standing(r) = {}
          /\ UNCHANGED <<clock, usage>>
      BY <1>0, <2>1, <2>4, Phased, Uncounted DEF Exceed, Request
    <3>2. answer'[r] = "limited"
      BY <1>0, <2>4 DEF Answer
    <3>3. Standing(r)' = {}
      BY <3>1, <3>2, RequestsAssumption DEF Standing, SlotAt, Reason
    <3>. QED  BY <1>0, <2>1, <2>4, <3>1, <3>3, LedgerQuiet
  <2>. QED  BY <1>5, <2>2, <2>3, <2>4 DEF Limited
<1>6. CASE GiveBack(r)
  BY <1>6, LedgerRevert
<1>7. CASE HangUp(r)
  <2>1. /\ pc[r] \notin {"out", "done"} /\ ask' = ask /\ counted' = counted
        /\ answer[r] = "none" /\ answer'[r] = "gone"
    BY <1>0, <1>7 DEF HangUp, Answer, Turn
  <2>2. CASE pc[r] = "limiting"
    <3>1. /\ slot[r].at \in {"checking", "charging"} /\ slot'[r].at = "idle"
          /\ UNCHANGED <<clock, usage>>
      BY <1>0, <1>7, <2>2, Phased DEF HangUp, AtDesk, Abandon, Request
    <3>2. Gone(r)' /\ Standing(r)' = ConfiguredScopes
      BY <2>1, <3>1 DEF Gone, Standing, SlotAt
    <3>. QED  BY <1>0, <2>1, <3>1, <3>2, LedgerQuiet, StandingScopes
  <2>3. CASE pc[r] # "limiting"
    <3>1. LetGo(r)
      BY <1>0, <1>7, <2>3 DEF HangUp, AtDesk
    <3>. QED  BY <1>0, <2>1, <2>3, <3>1, LedgerLeaves
  <2>. QED  BY <2>2, <2>3
<1>8. CASE EditDone(r) \/ Signed(r) \/ Push(r)
  <2>1. /\ pc[r] \in AtWork /\ pc[r] \notin {"out", "limiting", "done"}
        /\ ask' = ask /\ counted' = counted /\ Keep(r) /\ answer'[r] \in {"done", r}
    BY <1>0, <1>8 DEF EditDone, Signed, Push, Answer, AtWork, Guarded
  <2>. QED  BY <1>0, <2>1, LedgerLeaves
<1>9. CASE \/ BadBlobs(r) \/ EditFails(r) \/ SignFails(r) \/ AdmitFails(r) \/ SaveFails(r)
           \/ AnswerStored(r) \/ EstimationFails(r) \/ Beaten(r)
  <2>1. /\ pc[r] \in AtWork /\ pc[r] \notin {"out", "limiting", "done"}
        /\ ask' = ask /\ counted' = counted /\ LetGo(r)
    BY <1>0, <1>9 DEF BadBlobs, EditFails, SignFails, AdmitFails, SaveFails, AnswerStored,
                      EstimationFails, Beaten, Fail, AtWork, Guarded
  <2>. QED  BY <1>0, <2>1, LedgerLeaves
<1>. QED
  BY <1>1, <1>2, <1>3, <1>4, <1>5, <1>6, <1>7, <1>8, <1>9 DEF Handler, Admission

LEMMA LedgerStep == Books /\ Ledger /\ [Next]_vars => Ledger'
<1>. SUFFICES ASSUME Books, Ledger, [Next]_vars
              PROVE  Ledger'
  OBVIOUS
<1>1. ASSUME NEW r \in Request,
             \/ \E d \in Wanted : Arrive(r, d)
             \/ Handler(r) \/ GiveBack(r) \/ HangUp(r) \/ Settle(r)
      PROVE  Ledger'
  BY <1>1, LedgerActor
<1>2. CASE (Tick /\ UNCHANGED requestVars) \/ UNCHANGED vars
  <2>1. /\ UNCHANGED <<usage, counted, ask, slot, answer>>
        /\ clock' = clock \/ clock' = clock + 1
    BY <1>2 DEF Tick, vars, requestVars
  <2>2. clock \in Nat /\ \A s \in ConfiguredScopes : LimitsOf(s).window \in Nat
    BY LimitsType DEF LimitSet, Books, LimiterType
  <2>3. \A s \in ConfiguredScopes : clock' < LimitsOf(s).window => clock < LimitsOf(s).window
    BY <2>1, <2>2
  <2>4. \A q \in Request :
          /\ Keyed(q)' <=> Keyed(q)
          /\ Gone(q)' <=> Gone(q)
          /\ Standing(q)' = Standing(q)
          /\ \A s : CounterOf(s, q)' = CounterOf(s, q)
    BY <2>1 DEF Keyed, Gone, Standing, CounterOf, LimiterProfile, SlotAt
  <2>5. \A q \in Request : Standing(q) \subseteq ConfiguredScopes
    BY StandingScopes
  <2>6. ASSUME NEW j \in Key, NEW q \in counted'[j]
        PROVE  Keyed(q)' /\ \E s \in Standing(q)' : j = CounterOf(s, q)'
    <3>1. q \in Request /\ q \in counted[j]
      BY <2>1 DEF Books, BookType
    <3>. QED  BY <2>4, <3>1 DEF Ledger
  <2>7. ASSUME NEW q \in Request, Keyed(q)', ~Gone(q)', NEW s \in Standing(q)',
               clock' < LimitsOf(s).window
        PROVE  q \in counted'[CounterOf(s, q)']
    BY <2>1, <2>3, <2>4, <2>5, <2>7 DEF Ledger
  <2>8. ASSUME NEW s \in ConfiguredScopes, NEW p \in Profile
        PROVE  LET j == KeyOf(s, p) IN
               /\ usage'[j] = NoUsage => counted'[j] = {}
               /\ usage'[j] # NoUsage /\ clock' < LimitsOf(s).window => usage'[j].start = 0
               /\ usage'[j] # NoUsage => usage'[j].count <= Cardinality(counted'[j])
               /\ usage'[j] # NoUsage /\ clock' < LimitsOf(s).window
                    => usage'[j].count = Cardinality(counted'[j])
    BY <2>1, <2>3 DEF Ledger
  <2>. QED  BY <2>6, <2>7, <2>8 DEF Ledger
<1>. QED  BY <1>1, <1>2 DEF Next

LEMMA LedgerAlways == Spec => [](Books /\ Ledger)
<1>1. Init => Books /\ Ledger
  BY BooksInit, LedgerInit
<1>2. (Books /\ Ledger) /\ [Next]_vars => (Books /\ Ledger)'
  BY BooksStep, LedgerStep
<1>. QED  BY <1>1, <1>2, PTL DEF Spec

\* The two locks of a charge, the tasks of the dropped reservations and the windows that start
\* anew under them, for every set of requests and every limit: no counter counts more than
\* the charges that stand, and until its window is over it counts every one of them.
THEOREM LedgerExact == Spec => []LedgerKept
<1>1. Books /\ Ledger => LedgerKept
  BY DEF Ledger, LedgerKept
<1>. QED  BY <1>1, LedgerAlways, PTL

\* A duplicate, a refusal and a failure are free at whichever step they end, and a request that
\* was served keeps its charge at every counter, whatever the other requests do meanwhile.
THEOREM ChargesSettled == Spec => []PaidWhenServed
<1>1. Books /\ Ledger => PaidWhenServed
  <2>. HAVE Books /\ Ledger
  <2>. SUFFICES ASSUME NEW r \in Request, pc[r] = "done", SlotAt(r, "idle"), answer[r] # "gone"
                PROVE  /\ (\E k \in Key : r \in counted[k]) => answer[r] \in {"done", r}
                       /\ ( /\ answer[r] \in {"done", r}
                            /\ RateKey(ask[r]) # NoKey
                            /\ \A scope \in ConfiguredScopes : clock < LimitsOf(scope).window )
                          => \A scope \in ConfiguredScopes :
                               r \in counted[KeyOf(scope, LimiterProfile(ask[r]))]
    BY DEF PaidWhenServed
  <2>1. /\ ask[r] \in Demand /\ ~Gone(r)
        /\ Standing(r) = IF answer[r] \in {"done", r} THEN ConfiguredScopes ELSE {}
    BY Desk DEF Gone, Standing, SlotAt
  <2>2. ASSUME NEW k \in Key, r \in counted[k]
        PROVE  answer[r] \in {"done", r}
    BY <2>1, <2>2 DEF Ledger
  <2>3. ASSUME answer[r] \in {"done", r}, RateKey(ask[r]) # NoKey, NEW scope \in ConfiguredScopes,
               clock < LimitsOf(scope).window
        PROVE  r \in counted[KeyOf(scope, LimiterProfile(ask[r]))]
    BY <2>1, <2>3 DEF Ledger, Keyed, CounterOf
  <2>. QED  BY <2>2, <2>3
<1>. QED  BY <1>1, LedgerAlways, PTL

=============================================================================
