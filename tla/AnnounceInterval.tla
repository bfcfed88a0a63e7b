-------------------------- MODULE AnnounceInterval --------------------------
(***************************************************************************)
(* The announce intervals from the configured durations to the bencoded   *)
(* response: the response configuration sets Interval and MinInterval     *)
(* (time.Duration, nanoseconds), the varinterval post-hook                *)
(* (src/middleware/torrentapproval/container/list/list.go, the varinterval *)
(* part) may add a whole number of seconds, and WriteAnnounceResponse      *)
(* (src/unnamed/part_001) converts both to seconds.  A duration is an     *)
(* integer count of ticks; Second ticks make one second.                   *)
(***************************************************************************)
EXTENDS Naturals

CONSTANTS
    Second,             \* ticks per second (time.Second)
    Intervals,          \* announce_interval values the configuration may hold
    MinIntervals,       \* min_announce_interval values
    MaxDeltas           \* max_increase_delta values, in seconds

ASSUME IntervalAssumptions ==
    /\ Second \in Nat \ {0}
    /\ Intervals \subseteq Nat /\ MinIntervals \subseteq Nat
    /\ MaxDeltas \subseteq Nat

\* The varinterval configurations NewHook accepts (checkConfig, lines
\* 131-141): a probability in (0, 1], of which only "is it 1" matters to
\* the outcome, and a positive max_increase_delta.
HookConfig == [probabilityOne : BOOLEAN, maxIncreaseDelta : MaxDeltas \ {0},
               modifyMinInterval : BOOLEAN]

VARIABLES
    hook,       \* the varinterval hook's Config
    stage,      \* "post", "write", "done"
    base,       \* the configured [interval, minInterval]
    interval,   \* resp.Interval
    minInterval \* resp.MinInterval

vars == <<hook, stage, base, interval, minInterval>>

Init ==
    /\ stage = "post"
    /\ hook \in HookConfig
    /\ \E i \in Intervals, m \in MinIntervals :
         /\ base = [interval |-> i, minInterval |-> m]
         /\ interval = i
         /\ minInterval = m

\* The seconds varinterval adds: Intn(s0, s1, MaxIncreaseDelta) is v in
\* 0..MaxIncreaseDelta-1 and add is (v+1) seconds.
IncreaseWithoutOffset == {v * Second : v \in 0..hook.maxIncreaseDelta - 1}
Increase == {(v + 1) * Second : v \in 0..hook.maxIncreaseDelta - 1}

\* hook.HandleAnnounce (lines 162-182): the response is modified when the
\* probability is 1 or the drawn p is below it, which any request may draw
\* when it is not.
ModifyDrawingTwice ==
    /\ stage = "post"
    /\ \E add, add2 \in Increase :
         /\ interval' = interval + add
         /\ minInterval' = IF hook.modifyMinInterval THEN minInterval + add2 ELSE minInterval
    /\ stage' = "write"
    /\ UNCHANGED <<hook, base>>

Modify ==
    /\ stage = "post"
    /\ \E add \in Increase :
         /\ interval' = interval + add
         /\ minInterval' = IF hook.modifyMinInterval THEN minInterval + add ELSE minInterval
    /\ stage' = "write"
    /\ UNCHANGED <<hook, base>>

KeepInterval ==
    /\ stage = "post"
    /\ ~hook.probabilityOne
    /\ stage' = "write"
    /\ UNCHANGED <<hook, base, interval, minInterval>>

\* WriteAnnounceResponse (lines 36-42): Interval is divided by time.Second
\* when positive, and MinInterval when the divided Interval is positive.
WriteAnnounceResponse ==
    /\ stage = "write"
    /\ LET i == IF interval > 0 THEN interval \div Second ELSE interval
       IN  /\ interval' = i
           /\ minInterval' = IF i > 0 THEN minInterval \div Second ELSE minInterval
    /\ stage' = "done"
    /\ UNCHANGED <<hook, base>>

Done ==
    /\ stage = "done"
    /\ UNCHANGED vars

Next == Modify \/ KeepInterval \/ WriteAnnounceResponse \/ Done

Spec == Init /\ [][Next]_vars

(***************************************************************************)
(* Properties                                                              *)
(***************************************************************************)
\* The interval a client is told is the configured one in whole seconds,
\* raised by between 1 and MaxIncreaseDelta seconds when varinterval
\* modifies it, and always raised when its probability is 1.
JitterBounds ==
    stage = "done" =>
        interval - base.interval \div Second
            \in (IF hook.probabilityOne THEN 1 ELSE 0)..hook.maxIncreaseDelta

\* A configuration whose min interval does not exceed its interval yields
\* a response where "min interval" does not exceed "interval", whether or
\* not varinterval raised one or both.
MinNotAboveInterval ==
    stage = "done" /\ base.minInterval <= base.interval => minInterval <= interval
====
