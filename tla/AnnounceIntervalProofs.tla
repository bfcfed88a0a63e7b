----------------------- MODULE AnnounceIntervalProofs -----------------------
(***************************************************************************)
(* Proofs about the intervals an announce response carries, from the      *)
(* configuration through varinterval's HandleAnnounce to                  *)
(* WriteAnnounceResponse, for every tick length and configuration.         *)
(***************************************************************************)
EXTENDS AnnounceInterval, TLAPS

LEMMA DivAddMultiple ==
    ASSUME NEW a \in Nat, NEW k \in Nat, NEW S \in Nat \ {0}
    PROVE  (a + k * S) \div S = a \div S + k
  BY SMT

LEMMA DivMonotone ==
    ASSUME NEW a \in Nat, NEW b \in Nat, NEW S \in Nat \ {0}, a <= b
    PROVE  a \div S <= b \div S
  BY SMT

LEMMA DivPositive ==
    ASSUME NEW a \in Nat, NEW S \in Nat \ {0}, a >= S
    PROVE  a \div S > 0
  BY SMT

\* The fewest seconds varinterval adds: one when it always modifies.
Lo == IF hook.probabilityOne THEN 1 ELSE 0

\* The two intervals once varinterval has added k seconds.
RaisedInterval(k) == base.interval + k * Second
RaisedMin(k) == base.minInterval + (IF hook.modifyMinInterval THEN k * Second ELSE 0)

\* Before the post-hook the response holds the configured intervals; after
\* it, both are raised by the same k seconds, k within varinterval's
\* bounds (only the interval when modify_min_interval is off); after the
\* writer, the interval is in seconds and the min interval is too unless
\* the interval came out 0.
IInv ==
    /\ hook \in HookConfig
    /\ base \in [interval : Intervals, minInterval : MinIntervals]
    /\ stage \in {"post", "write", "done"}
    /\ stage = "post" => interval = base.interval /\ minInterval = base.minInterval
    /\ stage = "write" =>
         \E k \in Lo..hook.maxIncreaseDelta :
            interval = RaisedInterval(k) /\ minInterval = RaisedMin(k)
    /\ stage = "done" =>
         \E k \in Lo..hook.maxIncreaseDelta :
            /\ interval = RaisedInterval(k) \div Second
            /\ minInterval = IF interval > 0 THEN RaisedMin(k) \div Second ELSE RaisedMin(k)

LEMMA RaisedNat ==
    ASSUME NEW k \in Nat,
           base \in [interval : Intervals, minInterval : MinIntervals],
           hook \in HookConfig
    PROVE  RaisedInterval(k) \in Nat /\ RaisedMin(k) \in Nat
<1>1. base.interval \in Nat /\ base.minInterval \in Nat /\ Second \in Nat
  BY IntervalAssumptions
<1>2. k * Second \in Nat
  BY <1>1
<1> QED
  BY <1>1, <1>2 DEF RaisedInterval, RaisedMin

LEMMA DrawBounds ==
    ASSUME hook \in HookConfig
    PROVE  /\ hook.maxIncreaseDelta \in Nat \ {0}
           /\ Lo \in {0, 1}
           /\ hook.probabilityOne \in BOOLEAN
<1>1. hook.maxIncreaseDelta \in MaxDeltas \ {0} /\ hook.probabilityOne \in BOOLEAN
  BY DEF HookConfig
<1>2. hook.maxIncreaseDelta \in Nat \ {0}
  BY <1>1, IntervalAssumptions
<1> QED
  BY <1>1, <1>2 DEF Lo

LEMMA Inductive == Spec => []IInv
<1>1. Init => IInv
  BY DEF Init, IInv
<1>2. IInv /\ [Next]_vars => IInv'
  <2> SUFFICES ASSUME IInv, [Next]_vars PROVE IInv'
    OBVIOUS
  <2>1. CASE Modify
    <3>1. PICK add \in Increase :
            /\ interval' = interval + add
            /\ minInterval' = IF hook.modifyMinInterval THEN minInterval + add ELSE minInterval
      BY <2>1 DEF Modify
    <3>2. PICK v \in 0..hook.maxIncreaseDelta - 1 : add = (v + 1) * Second
      BY <3>1 DEF Increase
    <3>3. stage = "post" /\ stage' = "write" /\ UNCHANGED <<hook, base>>
      BY <2>1 DEF Modify
    <3>4. v + 1 \in Lo..hook.maxIncreaseDelta
      BY <3>2, DrawBounds DEF IInv
    <3>5. interval' = RaisedInterval(v + 1)' /\ minInterval' = RaisedMin(v + 1)'
      BY <3>1, <3>2, <3>3 DEF IInv, RaisedInterval, RaisedMin
    <3> QED
      BY <3>3, <3>4, <3>5 DEF IInv, Lo
  <2>2. CASE KeepInterval
    <3>1. stage = "post" /\ stage' = "write" /\ ~hook.probabilityOne
          /\ UNCHANGED <<hook, base, interval, minInterval>>
      BY <2>2 DEF KeepInterval
    <3>2. 0 \in Lo..hook.maxIncreaseDelta
      BY <3>1, DrawBounds DEF Lo, IInv
    <3>3. base.interval \in Nat /\ base.minInterval \in Nat
      BY IntervalAssumptions DEF IInv
    <3>4. interval' = RaisedInterval(0)' /\ minInterval' = RaisedMin(0)'
      BY <3>1, <3>3, IntervalAssumptions DEF IInv, RaisedInterval, RaisedMin
    <3> QED
      BY <3>1, <3>2, <3>4 DEF IInv, Lo
  <2>3. CASE WriteAnnounceResponse
    <3>1. stage = "write" /\ stage' = "done" /\ UNCHANGED <<hook, base>>
      BY <2>3 DEF WriteAnnounceResponse
    <3>2. PICK k \in Lo..hook.maxIncreaseDelta :
            interval = RaisedInterval(k) /\ minInterval = RaisedMin(k)
      BY <3>1 DEF IInv
    <3>3. k \in Nat
      BY DrawBounds DEF IInv
    <3>4. interval \in Nat /\ minInterval \in Nat
      BY <3>2, <3>3, RaisedNat DEF IInv
    <3>5. Second \in Nat \ {0}
      BY IntervalAssumptions
    <3>6. (IF interval > 0 THEN interval \div Second ELSE interval) = interval \div Second
      BY <3>4, <3>5
    <3>7. interval' = interval \div Second
          /\ minInterval' = IF interval' > 0 THEN minInterval \div Second ELSE minInterval
      BY <2>3, <3>6 DEF WriteAnnounceResponse
    <3> QED
      BY <3>1, <3>2, <3>7 DEF IInv, RaisedInterval, RaisedMin, Lo
  <2>4. CASE Done
    BY <2>4 DEF Done, vars, IInv, Lo, RaisedInterval, RaisedMin
  <2>5. CASE UNCHANGED vars
    BY <2>5 DEF vars, IInv, Lo, RaisedInterval, RaisedMin
  <2> QED
    BY <2>1, <2>2, <2>3, <2>4, <2>5 DEF Next
<1> QED
  BY <1>1, <1>2, PTL DEF Spec

\* varinterval raises the interval a client is told by between 1 (0 when
\* its probability is below 1) and max_increase_delta seconds over the
\* configured interval in whole seconds, for every tick length and
\* configuration.
THEOREM JitterBoundsHolds == Spec => []JitterBounds
<1>1. IInv => JitterBounds
  <2> SUFFICES ASSUME IInv, stage = "done"
               PROVE  interval - base.interval \div Second \in Lo..hook.maxIncreaseDelta
    BY DEF JitterBounds, Lo
  <2>1. PICK k \in Lo..hook.maxIncreaseDelta : interval = RaisedInterval(k) \div Second
    BY DEF IInv
  <2>9. hook \in HookConfig /\ base \in [interval : Intervals, minInterval : MinIntervals]
    BY DEF IInv
  <2>10. Lo \in {0, 1} /\ hook.maxIncreaseDelta \in Nat
    BY <2>9, DrawBounds
  <2>11. k \in Nat
    BY <2>1, <2>10
  <2>2. k \in Nat /\ base.interval \in Nat /\ Second \in Nat \ {0}
    BY <2>9, <2>11, IntervalAssumptions
  <2>3. interval = base.interval \div Second + k
    BY <2>1, <2>2, DivAddMultiple DEF RaisedInterval
  <2> QED
    BY <2>1, <2>2, <2>3
<1> QED
  BY <1>1, Inductive, PTL

\* When every configured announce interval is at least a second, the
\* "min interval" a response carries never exceeds its "interval" when the
\* configuration's does not.  (With a sub-second interval WriteAnnounceResponse
\* leaves the min interval unconverted.)
THEOREM MinNotAboveIntervalHolds ==
    ASSUME \A i \in Intervals : i >= Second
    PROVE  Spec => []MinNotAboveInterval
<1>1. IInv => MinNotAboveInterval
  <2> SUFFICES ASSUME IInv, stage = "done", base.minInterval <= base.interval
               PROVE  minInterval <= interval
    BY DEF MinNotAboveInterval
  <2>1. PICK k \in Lo..hook.maxIncreaseDelta :
          /\ interval = RaisedInterval(k) \div Second
          /\ minInterval = IF interval > 0 THEN RaisedMin(k) \div Second ELSE RaisedMin(k)
    BY DEF IInv
  <2>2. k \in Nat /\ Second \in Nat \ {0}
    BY DrawBounds, IntervalAssumptions DEF IInv
  <2>3. RaisedInterval(k) \in Nat /\ RaisedMin(k) \in Nat
    BY <2>2, RaisedNat DEF IInv
  <2>7. base.interval \in Nat /\ base.minInterval \in Nat /\ base.interval >= Second
    BY IntervalAssumptions DEF IInv
  <2>8. k * Second \in Nat
    BY <2>2
  <2>4. RaisedInterval(k) >= Second
    BY <2>2, <2>7, <2>8 DEF RaisedInterval
  <2>5. interval > 0
    BY <2>1, <2>2, <2>3, <2>4, DivPositive
  <2>6. RaisedMin(k) <= RaisedInterval(k)
    BY <2>7, <2>8 DEF RaisedMin, RaisedInterval
  <2> QED
    BY <2>1, <2>2, <2>3, <2>5, <2>6, DivMonotone
<1> QED
  BY <1>1, Inductive, PTL
====
