---------------------------- MODULE FrameDropper ----------------------------
(***************************************************************************)
(* The frame-rate limiter of the buffer source                             *)
(* (bqhelper_samsung/FrameDropper.cpp).  A frame is dropped when it comes  *)
(* more than kMaxJitterUs before the next desired time; a kept frame moves *)
(* the desired time to the first grid point that is far enough ahead.      *)
(*                                                                         *)
(* The arithmetic is in FrameDropperRule, which GraphicBufferSource uses   *)
(* as well; the state machine below drives one FrameDropper with arbitrary *)
(* non-negative timestamps.                                                *)
(***************************************************************************)
EXTENDS FrameDropperRule, Sequences

CONSTANTS
    MaxFrameRates,   \* arguments of setMaxFrameRate, in frames per second
    FrameTimes,      \* timestamps the source may present
    MaxKept          \* bound on the frames kept in one behaviour

ASSUME DriverAssumption ==
    /\ MaxFrameRates \subseteq Int
    /\ FrameTimes \subseteq Nat
    /\ MaxKept \in Nat

VARIABLES
    mDesiredMinTimeUs,  \* earliest desired time of the next frame, -1 before the first
    mMinIntervalUs,     \* 0: no limit set, -1: dropping disabled
    kept                \* history: timestamps this dropper has kept, in order

vars == <<mDesiredMinTimeUs, mMinIntervalUs, kept>>

-----------------------------------------------------------------------------
Init ==
    /\ mDesiredMinTimeUs = -1
    /\ mMinIntervalUs = 0
    /\ kept = <<>>

(* A client builds a dropper and sets its rate once, as setMaxFps does;    *)
(* rate 0 is BAD_VALUE and leaves the dropper as it was.                   *)
SetMaxFrameRate(rate) ==
    /\ kept = <<>> /\ mMinIntervalUs = 0
    /\ rate # 0
    /\ mMinIntervalUs' = IntervalOf(rate)
    /\ UNCHANGED <<mDesiredMinTimeUs, kept>>

(* shouldDrop returns true: nothing changes. *)
Drop(t) ==
    /\ Drops(mDesiredMinTimeUs, mMinIntervalUs, t)
    /\ UNCHANGED vars

(* shouldDrop returns false. *)
Keep(t) ==
    /\ ~Drops(mDesiredMinTimeUs, mMinIntervalUs, t)
    /\ Len(kept) < MaxKept
    /\ mDesiredMinTimeUs' = DesiredAfter(mDesiredMinTimeUs, mMinIntervalUs, t)
    /\ kept' = Append(kept, t)
    /\ UNCHANGED mMinIntervalUs

Next ==
    \/ \E rate \in MaxFrameRates : SetMaxFrameRate(rate)
    \/ \E t \in FrameTimes : Drop(t) \/ Keep(t)

Spec == Init /\ [][Next]_vars

-----------------------------------------------------------------------------
TypeOK ==
    /\ mDesiredMinTimeUs \in Nat \cup {-1}
    /\ mMinIntervalUs \in Nat \cup {-1}
    /\ kept \in Seq(Nat)

(* The rates for which the jitter is smaller than the interval (below 500  *)
(* frames per second in the code).                                         *)
Throttling == mMinIntervalUs > kMaxJitterUs

(* The rate limit over every window and not only between neighbours: k + 2 *)
(* kept frames span more than k intervals, so jitter never accumulates     *)
(* into a burst.  With k = 0 it says that kept timestamps strictly         *)
(* increase, in whatever order the source presents them.                   *)
RateBound ==
    Throttling => \A i, j \in DOMAIN kept :
        i < j => kept[j] - kept[i] > (j - i - 1) * mMinIntervalUs

(* From the first frame on the average rate is the configured one: the     *)
(* j-th kept frame is at most one jitter ahead of its place on the grid    *)
(* anchored at the first.                                                  *)
AverageRate ==
    mMinIntervalUs > 0 => \A j \in DOMAIN kept :
        kept[j] >= kept[1] + (j - 1) * mMinIntervalUs - kMaxJitterUs

(* The desired time stays on that grid: skipped frames never shift it.     *)
OnGrid ==
    mMinIntervalUs > 0 /\ kept # <<>> =>
        (mDesiredMinTimeUs - kept[1]) % mMinIntervalUs = 0

=============================================================================
