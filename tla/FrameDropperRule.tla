-------------------------- MODULE FrameDropperRule --------------------------
(***************************************************************************)
(* The arithmetic of bqhelper_samsung/FrameDropper.cpp, as functions of    *)
(* the dropper's two fields.                                               *)
(***************************************************************************)
EXTENDS Integers

CONSTANTS
    kMaxJitterUs,    \* tolerated jitter (2000us in the code)
    UnitsPerSecond   \* time units in a second (1000000 in the code)

ASSUME RuleAssumption ==
    /\ kMaxJitterUs \in Nat
    /\ UnitsPerSecond \in Nat \ {0}

(* setMaxFrameRate: the interval a rate stands for.  The quotient is        *)
(* truncated, so a rate above UnitsPerSecond gives 0, that is, no limit.    *)
IntervalOf(rate) == IF rate < 0 THEN -1 ELSE UnitsPerSecond \div rate

IsTooEarly(desired, t) == t < desired - kMaxJitterUs

(* Grid points to skip so that t lies less than the jitter behind the next one. *)
IntervalsPast(desired, interval, t) == (t - desired + kMaxJitterUs) \div interval

(* Mutants of NextDesired: the "+ 1" is forgotten; the next desired time is  *)
(* taken from the frame instead of from the grid.                           *)
NextDesiredStandingStill(desired, interval, t) ==
    desired + IntervalsPast(desired, interval, t) * interval
NextDesiredFromFrame(desired, interval, t) == t + interval

NextDesired(desired, interval, t) ==
    desired + (IntervalsPast(desired, interval, t) + 1) * interval

(* shouldDrop as a whole: whether t is dropped, and the desired time after. *)
Drops(desired, interval, t) ==
    interval > 0 /\ desired >= 0 /\ IsTooEarly(desired, t)

DesiredAfter(desired, interval, t) ==
    IF interval <= 0 \/ Drops(desired, interval, t) THEN desired
    ELSE IF desired < 0 THEN t + interval
    ELSE NextDesired(desired, interval, t)

=============================================================================
