-------------------------- MODULE FrameTimingProofs ---------------------------
(***************************************************************************)
(* First what FrameDropper guarantees for every rate, jitter and sequence  *)
(* of timestamps.  The inductive invariant places the desired time         *)
(* relative to everything kept so far: on the grid anchored at the first   *)
(* frame, at least one interval further for each frame kept, and more than *)
(* the jitter ahead of each of them.  Then what is known of FrameDropper   *)
(* alone is shown to hold of the whole path of a frame's time: the path    *)
(* drives its dropper as FrameDropper allows.                              *)
(***************************************************************************)
EXTENDS FrameTiming, TLAPS

OnGridStrong ==
    mMinIntervalUs > 0 /\ kept # <<>> =>
        \E m \in Nat : /\ m >= Len(kept)
                       /\ mDesiredMinTimeUs = kept[1] + m * mMinIntervalUs

AheadOfKept ==
    Throttling => \A i \in DOMAIN kept :
        mDesiredMinTimeUs - kMaxJitterUs > kept[i] + (Len(kept) - i) * mMinIntervalUs

StartedWhenKept ==
    /\ kept = <<>> => mDesiredMinTimeUs = -1
    /\ mMinIntervalUs > 0 /\ kept # <<>> => mDesiredMinTimeUs >= 0

DropperInv ==
    /\ TypeOK
    /\ StartedWhenKept
    /\ OnGridStrong
    /\ AheadOfKept
    /\ RateBound
    /\ AverageRate

-----------------------------------------------------------------------------
(* Truncating division brackets its dividend. *)
LEMMA DivisionBounds ==
    ASSUME NEW x \in Nat, NEW d \in Nat, d > 0
    PROVE  /\ x \div d \in Nat
           /\ (x \div d) * d <= x
           /\ x < (x \div d) * d + d
BY SMT

(* A multiple of d leaves no remainder. *)
LEMMA MultipleHasNoRemainder ==
    ASSUME NEW m \in Nat, NEW d \in Nat, d > 0
    PROVE  (m * d) % d = 0
BY SMT

(* A grid point further costs one interval more. *)
LEMMA NextMultiple ==
    ASSUME NEW a \in Int, NEW d \in Int
    PROVE  (a + 1) * d = a * d + d
BY SMT

-----------------------------------------------------------------------------
(* A frame that is kept on time moves the desired time by at least one     *)
(* interval, along the grid, to more than the jitter after the frame.      *)
LEMMA NextDesiredAdvances ==
    ASSUME NEW D \in Nat, NEW I \in Nat, I > 0, NEW t \in Nat,
           ~IsTooEarly(D, t)
    PROVE  /\ NextDesired(D, I, t) \in Nat
           /\ NextDesired(D, I, t) >= D + I
           /\ NextDesired(D, I, t) - kMaxJitterUs > t
           /\ \E n \in Nat : NextDesired(D, I, t) = D + (n + 1) * I
<1> DEFINE n == IntervalsPast(D, I, t)
<1>1. t - D + kMaxJitterUs \in Nat
  BY RuleAssumption, DriverAssumption DEF IsTooEarly
<1>2. /\ n \in Nat
      /\ n * I <= t - D + kMaxJitterUs
      /\ t - D + kMaxJitterUs < n * I + I
  BY <1>1, DivisionBounds DEF IntervalsPast
<1>3. NextDesired(D, I, t) = D + (n + 1) * I
  BY DEF NextDesired
<1>4. (n + 1) * I = n * I + I
  BY <1>2, NextMultiple
<1>5. n * I \in Nat
  BY <1>2
<1> HIDE DEF n
<1> QED
  BY <1>2, <1>3, <1>4, <1>5, RuleAssumption, DriverAssumption

(* The kept history after a frame is appended. *)
LEMMA KeptAfterAppend ==
    ASSUME TypeOK, NEW t \in Nat, Keep(t)
    PROVE  /\ kept' \in Seq(Nat)
           /\ Len(kept') = Len(kept) + 1
           /\ Len(kept) \in Nat
           /\ DOMAIN kept = 1..Len(kept)
           /\ DOMAIN kept' = 1..(Len(kept) + 1)
           /\ kept'[Len(kept) + 1] = t
           /\ \A i \in DOMAIN kept : kept'[i] = kept[i] /\ kept[i] \in Nat
           /\ kept' # <<>>
           /\ mMinIntervalUs' = mMinIntervalUs
BY DEF TypeOK, Keep

-----------------------------------------------------------------------------
LEMMA InitIInv == Init => DropperInv
BY DEF Init, DropperInv, TypeOK, StartedWhenKept, OnGridStrong, AheadOfKept,
       Throttling, RateBound, AverageRate

(* Setting the rate precedes the first frame, so nothing is claimed yet.   *)
LEMMA SetMaxFrameRateIInv ==
    ASSUME DropperInv, NEW rate \in MaxFrameRates, SetMaxFrameRate(rate)
    PROVE  DropperInv'
<1>1. IntervalOf(rate) \in Nat \cup {-1}
  <2>1. CASE rate < 0
    BY <2>1 DEF IntervalOf
  <2>2. CASE ~(rate < 0)
    <3>1. rate \in Nat /\ rate > 0
      BY <2>2, RuleAssumption, DriverAssumption DEF SetMaxFrameRate
    <3> QED
      BY <3>1, <2>2, RuleAssumption, DriverAssumption, DivisionBounds DEF IntervalOf
  <2> QED
    BY <2>1, <2>2
<1> QED
  BY <1>1 DEF DropperInv, SetMaxFrameRate, TypeOK, StartedWhenKept, OnGridStrong,
              AheadOfKept, Throttling, RateBound, AverageRate

(* No limit: the kept sequence grows, and every claim is conditional on    *)
(* a positive interval.                                                    *)
LEMMA KeepUnlimitedIInv ==
    ASSUME DropperInv, NEW t \in FrameTimes, Keep(t), ~(mMinIntervalUs > 0)
    PROVE  DropperInv'
<1>1. t \in Nat /\ mMinIntervalUs \in Int /\ mMinIntervalUs' = mMinIntervalUs
      /\ ~(mMinIntervalUs > 0) /\ UNCHANGED mDesiredMinTimeUs
  BY RuleAssumption, DriverAssumption DEF DropperInv, TypeOK, Keep, DesiredAfter, Drops
<1>2. kept' \in Seq(Nat) /\ kept' # <<>>
  BY <1>1, KeptAfterAppend DEF DropperInv
<1>3. ~Throttling'
  BY <1>1, RuleAssumption, DriverAssumption DEF Throttling
<1> QED
  BY <1>1, <1>2, <1>3 DEF DropperInv, TypeOK, StartedWhenKept,
     OnGridStrong, AheadOfKept, RateBound, AverageRate

(* The first frame anchors the grid one interval before the desired time.  *)
LEMMA KeepFirstIInv ==
    ASSUME DropperInv, NEW t \in FrameTimes, Keep(t), mMinIntervalUs > 0, kept = <<>>
    PROVE  DropperInv'
<1>1. /\ t \in Nat /\ kMaxJitterUs \in Nat
      /\ mMinIntervalUs \in Nat /\ mMinIntervalUs > 0
      /\ kept = <<>>
  BY RuleAssumption, DriverAssumption DEF DropperInv, TypeOK, StartedWhenKept
<1>2. kept' = <<t>> /\ mMinIntervalUs' = mMinIntervalUs
  BY <1>1 DEF Keep
<1>3. mDesiredMinTimeUs' = t + mMinIntervalUs
  BY <1>1 DEF DropperInv, StartedWhenKept, Keep, DesiredAfter, Drops
<1>4. DOMAIN kept' = {1} /\ Len(kept') = 1 /\ kept'[1] = t
  BY <1>2
<1>5. TypeOK' /\ StartedWhenKept'
  BY <1>1, <1>2, <1>3 DEF TypeOK, StartedWhenKept
<1>6. OnGridStrong'
  <2>1. mDesiredMinTimeUs' = kept'[1] + 1 * mMinIntervalUs'
    BY <1>1, <1>2, <1>3, <1>4
  <2> QED
    BY <2>1, <1>4 DEF OnGridStrong
<1>7. AheadOfKept'
  BY <1>1, <1>2, <1>3, <1>4 DEF AheadOfKept, Throttling
<1>8. RateBound' /\ AverageRate'
  BY <1>1, <1>2, <1>3, <1>4 DEF RateBound, AverageRate
<1> QED
  BY <1>5, <1>6, <1>7, <1>8 DEF DropperInv

(* A frame kept on time: it is no earlier than the old desired time less   *)
(* the jitter, which AheadOfKept places after every earlier frame.         *)
LEMMA KeepOnTimeIInv ==
    ASSUME DropperInv, NEW t \in FrameTimes, Keep(t), mMinIntervalUs > 0, kept # <<>>
    PROVE  DropperInv'
<1> DEFINE D == mDesiredMinTimeUs
           I == mMinIntervalUs
           J == kMaxJitterUs
           L == Len(kept)
<1>1. /\ t \in Nat /\ J \in Nat /\ D \in Nat
      /\ I \in Nat /\ I > 0 /\ I' = I
      /\ kept # <<>>
      /\ t >= D - J
  BY RuleAssumption, DriverAssumption
     DEF DropperInv, TypeOK, Keep, Drops, StartedWhenKept, IsTooEarly
<1>2. /\ kept' \in Seq(Nat) /\ kept' # <<>>
      /\ L \in Nat /\ L >= 1
      /\ Len(kept') = L + 1
      /\ DOMAIN kept = 1..L /\ DOMAIN kept' = 1..(L + 1)
      /\ kept'[L + 1] = t
      /\ \A i \in 1..L : kept'[i] = kept[i] /\ kept[i] \in Nat
  BY <1>1, KeptAfterAppend DEF DropperInv, TypeOK
<1>3a. D' = NextDesired(D, I, t) /\ ~IsTooEarly(D, t)
  BY <1>1 DEF Keep, Drops, DesiredAfter
<1>3. PICK n \in Nat : D' = D + (n + 1) * I
  <2>1. \E n \in Nat : NextDesired(D, I, t) = D + (n + 1) * I
    BY <1>1, <1>3a, NextDesiredAdvances
  <2> QED
    BY <1>3a, <2>1
<1>4. D' \in Nat /\ D' >= D + I /\ D' - J > t
  BY <1>1, <1>3a, NextDesiredAdvances
<1>5. TypeOK' /\ StartedWhenKept'
  BY <1>1, <1>2, <1>4 DEF TypeOK, StartedWhenKept
<1>6. OnGridStrong'
  <2>1. PICK m \in Nat : m >= L /\ D = kept[1] + m * I
    BY <1>1 DEF DropperInv, OnGridStrong
  <2>2. D' = kept[1] + (m + n + 1) * I
    <3>1. (m + n + 1) * I = m * I + (n + 1) * I
      BY <1>1
    <3> QED
      BY <1>1, <1>2, <1>3, <2>1, <3>1, SMTT(30)
  <2>3. kept'[1] = kept[1]
    BY <1>2
  <2>4. m + n + 1 \in Nat /\ m + n + 1 >= L + 1
    BY <1>2, <2>1
  <2> QED
    BY <1>1, <1>2, <2>2, <2>3, <2>4 DEF OnGridStrong
<1>7. ASSUME Throttling, NEW i \in 1..L
      PROVE  /\ t > kept[i] + (L - i) * I
             /\ D' - J > kept[i] + (L + 1 - i) * I
  <2>1. D - J > kept[i] + (L - i) * I
    BY <1>2, <1>7 DEF DropperInv, AheadOfKept
  <2>2. (L + 1 - i) * I = (L - i) * I + I
    <3>1. L - i \in Int /\ L + 1 - i = (L - i) + 1
      BY <1>2
    <3> QED
      BY <1>1, <3>1, NextMultiple
  <2>3. (L - i) * I \in Int /\ kept[i] \in Int
    BY <1>1, <1>2
  <2> QED
    BY <1>1, <1>4, <2>1, <2>2, <2>3
<1>8. AheadOfKept'
  <2> SUFFICES ASSUME Throttling, NEW i \in 1..(L + 1)
               PROVE  D' - J > kept'[i] + (L + 1 - i) * I
    BY <1>1, <1>2 DEF AheadOfKept, Throttling
  <2>1. CASE i \in 1..L
    BY <1>2, <1>7, <2>1
  <2>2. CASE i = L + 1
    <3>1. (L + 1 - i) * I = 0
      BY <1>1, <1>2, <2>2
    <3>2. kept'[i] = t
      BY <1>2, <2>2
    <3>3. kept'[i] + (L + 1 - i) * I = t
      BY <1>1, <3>1, <3>2
    <3> QED
      BY <1>4, <3>3
  <2> QED
    BY <1>2, <2>1, <2>2
<1>9. RateBound'
  <2> SUFFICES ASSUME Throttling, NEW i \in 1..(L + 1), NEW j \in 1..(L + 1), i < j
               PROVE  kept'[j] - kept'[i] > (j - i - 1) * I
    BY <1>1, <1>2 DEF RateBound, Throttling
  <2>1. CASE j \in 1..L
    <3>1. i \in 1..L
      BY <1>2, <2>1
    <3>2. kept[j] - kept[i] > (j - i - 1) * I
      BY <1>2, <2>1, <3>1 DEF DropperInv, RateBound
    <3> QED
      BY <1>2, <2>1, <3>1, <3>2
  <2>2. CASE j = L + 1
    <3>1. i \in 1..L /\ j - i - 1 = L - i
      BY <1>2, <2>2
    <3>2. t > kept[i] + (L - i) * I
      BY <1>7, <3>1
    <3>3. (L - i) * I \in Int /\ kept[i] \in Int
      BY <1>1, <1>2, <3>1
    <3> QED
      BY <1>1, <1>2, <2>2, <3>1, <3>2, <3>3
  <2> QED
    BY <1>2, <2>1, <2>2
<1>10. AverageRate'
  <2>1. D >= kept[1] + L * I
    <3>1. PICK m \in Nat : m >= L /\ D = kept[1] + m * I
      BY <1>1 DEF DropperInv, OnGridStrong
    <3>2. m * I >= L * I
      <4>1. (m - L) * I >= 0
        BY <1>1, <1>2, <3>1
      <4> QED
        BY <1>1, <1>2, <3>1, <4>1
    <3> QED
      BY <1>1, <1>2, <3>1, <3>2
  <2> SUFFICES ASSUME NEW j \in 1..(L + 1)
               PROVE  kept'[j] >= kept'[1] + (j - 1) * I - J
    BY <1>1, <1>2 DEF AverageRate
  <2>2. CASE j \in 1..L
    BY <1>1, <1>2, <2>2, SMTT(30) DEF DropperInv, AverageRate
  <2>3. CASE j = L + 1
    BY <1>1, <1>2, <2>1, <2>3
  <2> QED
    BY <1>2, <2>2, <2>3
<1> QED
  BY <1>5, <1>6, <1>8, <1>9, <1>10 DEF DropperInv

-----------------------------------------------------------------------------
LEMMA StepIInv == DropperInv /\ [Next]_vars => DropperInv'
<1> SUFFICES ASSUME DropperInv, [Next]_vars PROVE DropperInv'
  OBVIOUS
<1>1. ASSUME NEW rate \in MaxFrameRates, SetMaxFrameRate(rate) PROVE DropperInv'
  BY <1>1, SetMaxFrameRateIInv
<1>2. ASSUME NEW t \in FrameTimes, Keep(t) PROVE DropperInv'
  BY <1>2, KeepUnlimitedIInv, KeepFirstIInv, KeepOnTimeIInv
<1>3. CASE UNCHANGED vars
  BY <1>3 DEF vars, DropperInv, TypeOK, StartedWhenKept, OnGridStrong, AheadOfKept,
              Throttling, RateBound, AverageRate
<1>4. ASSUME NEW t \in FrameTimes, Drop(t) PROVE DropperInv'
  BY <1>3, <1>4 DEF Drop
<1> QED
  BY <1>1, <1>2, <1>3, <1>4 DEF Next

LEMMA InvariantHolds == Spec => []DropperInv
BY InitIInv, StepIInv, PTL DEF Spec

(* The variables of FrameDropper.cpp keep their types: the desired time is *)
(* -1 or a timestamp, the interval -1 or a natural number.                 *)
THEOREM TypeCorrect == Spec => []TypeOK
<1>1. DropperInv => TypeOK
  BY DEF DropperInv
<1> QED
  BY <1>1, InvariantHolds, PTL

(* shouldDrop lets at most k + 2 frames through in k intervals, and never  *)
(* one that goes backward, for every rate whose interval exceeds the       *)
(* jitter and for every sequence of timestamps.                            *)
THEOREM RateIsBounded == Spec => []RateBound
<1>1. DropperInv => RateBound
  BY DEF DropperInv
<1> QED
  BY <1>1, InvariantHolds, PTL

(* shouldDrop keeps the long-run rate: the j-th kept frame is at most one  *)
(* jitter ahead of the grid anchored at the first.                         *)
THEOREM RateIsKept == Spec => []AverageRate
<1>1. DropperInv => AverageRate
  BY DEF DropperInv
<1> QED
  BY <1>1, InvariantHolds, PTL

(* The desired time shouldDrop computes stays on the grid anchored at the  *)
(* first frame, however many intervals are skipped.                        *)
THEOREM DesiredTimeOnGrid == Spec => []OnGrid
<1>1. ASSUME DropperInv PROVE OnGrid
  <2> SUFFICES ASSUME mMinIntervalUs > 0, kept # <<>>
               PROVE  (mDesiredMinTimeUs - kept[1]) % mMinIntervalUs = 0
    BY DEF OnGrid
  <2>1. PICK m \in Nat : mDesiredMinTimeUs = kept[1] + m * mMinIntervalUs
    BY <1>1 DEF DropperInv, OnGridStrong
  <2>2. kept[1] \in Nat /\ mMinIntervalUs \in Nat
    BY <1>1 DEF DropperInv, TypeOK
  <2>3. mDesiredMinTimeUs - kept[1] = m * mMinIntervalUs
    BY <2>1, <2>2
  <2> QED
    BY <2>2, <2>3, MultipleHasNoRemainder
<1> QED
  BY <1>1, InvariantHolds, PTL

-----------------------------------------------------------------------------
(* Each step of the path is a step of the dropper or leaves it alone. *)
LEMMA TimingStepIsDropperStep == [TimingNext]_timingVars => [Next]_vars
<1> SUFFICES ASSUME [TimingNext]_timingVars PROVE [Next]_vars
  OBVIOUS
<1> USE DEF vars, dropperVars
<1>1. ASSUME NEW rate \in MaxFrameRates, LimitRate(rate) PROVE [Next]_vars
  BY <1>1 DEF LimitRate, Next
<1>2. ASSUME NEW config \in TimeLapseConfigs, SetTimeLapseConfig(config[1], config[2])
      PROVE  UNCHANGED vars
  BY <1>2 DEF SetTimeLapseConfig
<1>3. ASSUME NEW offset \in TimeOffsets, SetTimeOffsetUs(offset) PROVE UNCHANGED vars
  BY <1>3 DEF SetTimeOffsetUs
<1>4. ASSUME NEW t \in FrameTimes, FrameDropped(t) \/ FrameRefused(t) \/ FrameStamped(t)
      PROVE  [Next]_vars
  <2>1. Drop(t) \/ Keep(t)
    BY <1>4 DEF FrameDropped, FrameRefused, FrameStamped
  <2> QED
    BY <2>1 DEF Next
<1>5. CASE UNCHANGED timingVars
  BY <1>5 DEF timingVars
<1> QED
  BY <1>1, <1>2, <1>3, <1>4, <1>5 DEF TimingNext

(* The path implements FrameDropper: no mode of calculateCodecTimestamp_l,   *)
(* no refusal and no offset makes shouldDrop see anything but a sequence of  *)
(* frame times.                                                              *)
THEOREM ImplementsFrameDropper == TimingSpec => Spec
<1>1. TimingInit => Init
  BY DEF TimingInit
<1> QED
  BY <1>1, TimingStepIsDropperStep, PTL DEF TimingSpec, Spec

(* The frames that get to calculateCodecTimestamp_l respect the rate, over   *)
(* every window, in every mode.                                              *)
THEOREM TimedRateIsBounded == TimingSpec => []RateBound
BY ImplementsFrameDropper, RateIsBounded, PTL

(* ... and never run ahead of it on average. *)
THEOREM TimedRateIsKept == TimingSpec => []AverageRate
BY ImplementsFrameDropper, RateIsKept, PTL

-----------------------------------------------------------------------------
(* What calculateCodecTimestamp_l tells the codec.  Two things are asked of  *)
(* the clients: frames are stamped later than the offset they are moved by   *)
(* (their times are times since boot), and no encoding rate exceeds the      *)
(* clock's.                                                                  *)
TimesNotNegative == \A t \in FrameTimes, offset \in TimeOffsets \cup {0} : t + offset >= 0
RatesBelowClock == \A config \in TimeLapseConfigs : config[1] <= UnitsPerSecond

(* llround gives an integer ... *)
LEMMA RoundedIsInt ==
    ASSUME NEW p \in Int, NEW q \in Nat, q > 0
    PROVE  Rounded(p, q) \in Int
<1>1. CASE p >= 0
  <2>1. 2 * p + q \in Nat /\ 2 * q \in Nat /\ 2 * q > 0
    BY <1>1
  <2>2. (2 * p + q) \div (2 * q) \in Nat
    BY <2>1, DivisionBounds
  <2> QED
    BY <1>1, <2>2 DEF Rounded
<1>2. CASE ~(p >= 0)
  <2>1. q - 2 * p \in Nat /\ 2 * q \in Nat /\ 2 * q > 0
    BY <1>2
  <2>2. (q - 2 * p) \div (2 * q) \in Nat
    BY <2>1, DivisionBounds
  <2> QED
    BY <1>2, <2>2 DEF Rounded
<1> QED
  BY <1>1, <1>2

(* ... that is within half of the quotient it rounds ... *)
LEMMA RoundedBrackets ==
    ASSUME NEW p \in Nat, NEW q \in Nat, q > 0
    PROVE  /\ Rounded(p, q) \in Nat
           /\ 2 * (Rounded(p, q) * q) <= 2 * p + q
           /\ 2 * p < 2 * (Rounded(p, q) * q) + q
<1> DEFINE r == (2 * p + q) \div (2 * q)
<1>1. 2 * p + q \in Nat /\ 2 * q \in Nat /\ 2 * q > 0
  OBVIOUS
<1>2. r \in Nat /\ r * (2 * q) <= 2 * p + q /\ 2 * p + q < r * (2 * q) + 2 * q
  BY <1>1, DivisionBounds
<1>3. Rounded(p, q) = r
  BY DEF Rounded
<1> HIDE DEF r
<1>4. r * (2 * q) = 2 * (r * q) /\ r * q \in Nat
  BY <1>2
<1> QED
  BY <1>2, <1>3, <1>4

LEMMA RoundedIsClose ==
    ASSUME NEW p \in Nat, NEW q \in Nat, q > 0
    PROVE  /\ Rounded(p, q) \in Nat
           /\ 2 * (Rounded(p, q) * q - p) \in -q..q
<1>1. PICK r \in Nat : Rounded(p, q) = r
  BY RoundedBrackets
<1>2. 2 * (r * q) <= 2 * p + q /\ 2 * p < 2 * (r * q) + q
  BY <1>1, RoundedBrackets
<1>3. PICK m \in Nat : m = r * q
  OBVIOUS
<1>4. 2 * (m - p) \in -q..q
  BY <1>2, <1>3
<1> QED
  BY <1>1, <1>3, <1>4

(* ... and that follows its argument, strictly when it moves by a unit. *)
LEMMA RoundedAdvances ==
    ASSUME NEW p \in Nat, NEW p2 \in Nat, NEW q \in Nat, q > 0
    PROVE  /\ p <= p2 => Rounded(p, q) <= Rounded(p2, q)
           /\ p + q <= p2 => Rounded(p, q) < Rounded(p2, q)
<1>1. PICK r \in Nat : Rounded(p, q) = r
  BY RoundedBrackets
<1>2. PICK r2 \in Nat : Rounded(p2, q) = r2
  BY RoundedBrackets
<1>3. /\ 2 * (r * q) <= 2 * p + q
      /\ 2 * p2 < 2 * (r2 * q) + q
  BY <1>1, <1>2, RoundedBrackets
<1>4. ASSUME NEW a \in Nat, NEW b \in Nat, a > b
      PROVE  a * q >= b * q + q
  <2>1. (a - b - 1) * q >= 0
    BY <1>4
  <2>2. (a - b - 1) * q = a * q - b * q - q
    BY <1>4
  <2> QED
    BY <2>1, <2>2
<1>5. p <= p2 => r <= r2
  <2> SUFFICES ASSUME p <= p2, r > r2 PROVE FALSE
    OBVIOUS
  <2>1. r * q >= r2 * q + q
    BY <1>4
  <2>2. r * q \in Nat /\ r2 * q \in Nat
    OBVIOUS
  <2> QED
    BY <1>3, <2>1, <2>2
<1>6. p + q <= p2 => r < r2
  <2> SUFFICES ASSUME p + q <= p2, r >= r2 PROVE FALSE
    OBVIOUS
  <2>1. r * q >= r2 * q
    BY <1>4
  <2>2. r * q \in Nat /\ r2 * q \in Nat
    OBVIOUS
  <2> QED
    BY <1>3, <2>1, <2>2
<1> QED
  BY <1>1, <1>2, <1>5, <1>6

-----------------------------------------------------------------------------
(* The configuration is one a client gave, or none. *)
ConfigInv ==
    /\ \/ mFps = -1 /\ mCaptureFps = -1
       \/ <<mFps, mCaptureFps>> \in TimeLapseConfigs
    /\ mSnapTimestamps \in BOOLEAN
    /\ Rescaling /\ mSnapTimestamps => mCaptureFps > mFps
    /\ mInputBufferTimeOffsetUs \in TimeOffsets \cup {0}

Frame == [source : Nat, codec : Int]

ClockTypes ==
    /\ mBaseCaptureUs \in Int /\ mBaseFrameUs \in Int
    /\ mPrevCaptureUs \in Int /\ mPrevFrameUs \in Int
    /\ mFrameCount \in Nat
    /\ stamped \in Seq(Frame)

(* Where the clocks are once a frame has been stamped: the codec's is the    *)
(* last frame's, and when times are rescaled both are where the base, and    *)
(* with snapping the count of capture intervals, put them.                   *)
LastStamped ==
    /\ kept = <<>> => stamped = <<>>
    /\ stamped = <<>> => mPrevCaptureUs = -1
    /\ stamped # <<>> => stamped[Len(stamped)].codec = mPrevFrameUs

Rescaled ==
    Rescaling /\ stamped # <<>> =>
        /\ mPrevCaptureUs >= 0 /\ mBaseCaptureUs >= 0
        /\ stamped[1] = [source |-> mBaseCaptureUs, codec |-> mBaseFrameUs]

SnappedClocks ==
    Rescaling /\ mSnapTimestamps /\ stamped # <<>> =>
        /\ mPrevCaptureUs = mBaseCaptureUs + Rounded(mFrameCount * UnitsPerSecond, mCaptureFps)
        /\ mPrevFrameUs = mBaseFrameUs + Rounded(mFrameCount * UnitsPerSecond, mFps)

ScaledClocks ==
    Rescaling /\ ~mSnapTimestamps /\ ~Disabled /\ stamped # <<>> =>
        /\ mPrevCaptureUs >= mBaseCaptureUs
        /\ mPrevFrameUs
             = mBaseFrameUs + Rounded((mPrevCaptureUs - mBaseCaptureUs) * mCaptureFps, mFps)

ClockInv ==
    /\ TypeOK
    /\ ConfigInv
    /\ ClockTypes
    /\ LastStamped
    /\ Rescaled
    /\ SnappedClocks
    /\ ScaledClocks
    /\ RatesBelowClock => TimesAdvance
    /\ SnappedToGrid

clocks == <<configVars, captureVars, mPrevFrameUs, stamped>>

LEMMA UnitsArePositive == UnitsPerSecond \in Nat /\ UnitsPerSecond > 0
BY RuleAssumption

(* A time is rescaled between two positive rates. *)
LEMMA RescalingRates ==
    ASSUME ConfigInv, Rescaling
    PROVE  /\ mFps \in Nat /\ mFps > 0
           /\ mCaptureFps \in Nat /\ mCaptureFps > 0
           /\ <<mFps, mCaptureFps>> \in TimeLapseConfigs
           /\ mSnapTimestamps => mCaptureFps > mFps
<1>1. <<mFps, mCaptureFps>> \in TimeLapseConfigs
  BY DEF ConfigInv, Rescaling
<1>2. <<mFps, mCaptureFps>> \in (Nat \ {0}) \X (Nat \ {0})
  BY <1>1, TimingAssumption
<1> QED
  BY <1>1, <1>2 DEF ConfigInv

(* Whether times are rescaled is the configuration's doing. *)
LEMMA ClocksUnchanged ==
    ASSUME ClockInv, UNCHANGED clocks, TypeOK', kept' = <<>> => kept = <<>>,
           kept' # <<>> /\ stamped # <<>> => UNCHANGED mMinIntervalUs
    PROVE  ClockInv'
BY DEF ClockInv, clocks, configVars, captureVars, baseVars, ConfigInv, ClockTypes,
       LastStamped, Rescaled, SnappedClocks, ScaledClocks, TimesAdvance, SnappedToGrid,
       OnCaptureGrid, Rescaling, Disabled

LEMMA TimingInitInv == TimingInit => ClockInv
BY DEF TimingInit, Init, ClockInv, TypeOK, ConfigInv, ClockTypes, LastStamped, Rescaled,
       SnappedClocks, ScaledClocks, TimesAdvance, SnappedToGrid, Rescaling, Frame

(* The client's calls, while nothing has been stamped. *)
LEMMA SetTimeLapseConfigInv ==
    ASSUME ClockInv, NEW config \in TimeLapseConfigs,
           SetTimeLapseConfig(config[1], config[2])
    PROVE  ClockInv'
<1>1. config = <<config[1], config[2]>>
  BY TimingAssumption
<1>2. kept = <<>> /\ stamped = <<>> /\ UNCHANGED <<dropperVars, captureVars, mPrevFrameUs, stamped>>
  BY DEF SetTimeLapseConfig, ClockInv, LastStamped
<1>3. ConfigInv'
  <2>1. mFps' = config[1] /\ mCaptureFps' = config[2]
        /\ mInputBufferTimeOffsetUs' = mInputBufferTimeOffsetUs
    BY DEF SetTimeLapseConfig
  <2>2. mSnapTimestamps' \in BOOLEAN /\ (mSnapTimestamps' => config[2] > config[1])
    BY DEF SetTimeLapseConfig
  <2> QED
    BY <1>1, <2>1, <2>2 DEF ClockInv, ConfigInv
<1> QED
  BY <1>2, <1>3 DEF ClockInv, dropperVars, captureVars, baseVars, TypeOK, ClockTypes,
     LastStamped, Rescaled, SnappedClocks, ScaledClocks, TimesAdvance, SnappedToGrid

LEMMA SetTimeOffsetUsInv ==
    ASSUME ClockInv, NEW offset \in TimeOffsets, SetTimeOffsetUs(offset)
    PROVE  ClockInv'
<1>1. UNCHANGED <<dropperVars, mFps, mCaptureFps, mSnapTimestamps, captureVars,
                  mPrevFrameUs, stamped>>
  BY DEF SetTimeOffsetUs
<1>2. ConfigInv'
  BY <1>1 DEF SetTimeOffsetUs, ClockInv, ConfigInv, Rescaling
<1> QED
  BY <1>1, <1>2 DEF ClockInv, dropperVars, captureVars, baseVars, TypeOK, ClockTypes,
     LastStamped, Rescaled, SnappedClocks, ScaledClocks, TimesAdvance, SnappedToGrid,
     OnCaptureGrid, Rescaling, Disabled

-----------------------------------------------------------------------------
(* A frame is stamped. *)
(* One more frame in the history, the others as they were. *)
LEMMA StampedAppend ==
    ASSUME stamped \in Seq(Frame), NEW time \in Nat, mPrevFrameUs' \in Int,
           stamped' = Append(stamped, [source |-> time, codec |-> mPrevFrameUs'])
    PROVE  /\ stamped' \in Seq(Frame)
           /\ Len(stamped) \in Nat
           /\ DOMAIN stamped = 1..Len(stamped)
           /\ Len(stamped') = Len(stamped) + 1
           /\ DOMAIN stamped' = 1..(Len(stamped) + 1)
           /\ \A i \in 1..Len(stamped) :
                  stamped'[i] = stamped[i] /\ stamped[i].source \in Nat /\ stamped[i].codec \in Int
           /\ stamped'[Len(stamped) + 1] = [source |-> time, codec |-> mPrevFrameUs']
           /\ stamped' # <<>>
<1>1. PICK codec \in Int : codec = mPrevFrameUs'
  OBVIOUS
<1>2. PICK frame \in Frame : frame = [source |-> time, codec |-> codec]
  BY DEF Frame
<1>3. stamped' = Append(stamped, frame)
  BY <1>1, <1>2
<1>4. \A i \in 1..Len(stamped) : stamped[i] \in Frame
  OBVIOUS
<1>5. \A i \in 1..Len(stamped) : stamped[i].source \in Nat /\ stamped[i].codec \in Int
  BY <1>4 DEF Frame
<1>6. /\ stamped' \in Seq(Frame)
      /\ Len(stamped) \in Nat
      /\ DOMAIN stamped = 1..Len(stamped)
      /\ Len(stamped') = Len(stamped) + 1
      /\ DOMAIN stamped' = 1..(Len(stamped) + 1)
      /\ \A i \in 1..Len(stamped) : stamped'[i] = stamped[i]
      /\ stamped'[Len(stamped) + 1] = frame
      /\ stamped' # <<>>
  BY <1>3
<1> QED
  BY <1>1, <1>2, <1>5, <1>6

(* What every mode of calculateCodecTimestamp_l has in common. *)
LEMMA StampedFacts ==
    ASSUME TimesNotNegative, ClockInv, NEW t \in FrameTimes, FrameStamped(t)
    PROVE  /\ t + mInputBufferTimeOffsetUs \in Nat
           /\ TypeOK' /\ kept' # <<>>
           /\ ConfigInv'
           /\ UNCHANGED <<mMinIntervalUs, mFps, mCaptureFps, mSnapTimestamps>>
           /\ (Rescaling' <=> Rescaling) /\ (Disabled' <=> Disabled)
           /\ stamped' = Append(stamped, [source |-> t + mInputBufferTimeOffsetUs,
                                          codec  |-> mPrevFrameUs'])
<1>1. t \in Nat /\ mInputBufferTimeOffsetUs \in TimeOffsets \cup {0}
  BY DriverAssumption DEF ClockInv, ConfigInv
<1>2. mInputBufferTimeOffsetUs \in Int
  BY <1>1, TimingAssumption
<1>3. t + mInputBufferTimeOffsetUs >= 0
  BY <1>1 DEF TimesNotNegative
<1>4. t + mInputBufferTimeOffsetUs \in Nat
  BY <1>1, <1>2, <1>3
<1>5. Keep(t) /\ UNCHANGED configVars
      /\ stamped' = Append(stamped, [source |-> t + mInputBufferTimeOffsetUs,
                                     codec  |-> mPrevFrameUs'])
  BY DEF FrameStamped
<1>6. UNCHANGED <<mMinIntervalUs, mFps, mCaptureFps, mSnapTimestamps, mInputBufferTimeOffsetUs>>
  BY <1>5 DEF configVars, Keep
<1>7. kept' # <<>>
  BY <1>1, <1>5, KeptAfterAppend DEF ClockInv
<1>8. ConfigInv' /\ (Rescaling' <=> Rescaling) /\ (Disabled' <=> Disabled)
  BY <1>6 DEF ClockInv, ConfigInv, Rescaling, Disabled
<1>9. TypeOK'
  <2>1. kept' \in Seq(Nat)
    BY <1>1, <1>5, KeptAfterAppend DEF ClockInv
  <2>2. DesiredAfter(mDesiredMinTimeUs, mMinIntervalUs, t) \in Nat \cup {-1}
    <3>1. mDesiredMinTimeUs \in Nat \cup {-1} /\ mMinIntervalUs \in Nat \cup {-1}
      BY DEF ClockInv, TypeOK
    <3>2. CASE mMinIntervalUs <= 0
      BY <3>1, <3>2 DEF DesiredAfter
    <3>3. CASE mMinIntervalUs > 0 /\ mDesiredMinTimeUs < 0
      BY <1>1, <3>1, <3>3 DEF DesiredAfter, Drops
    <3>4. CASE mMinIntervalUs > 0 /\ ~(mDesiredMinTimeUs < 0)
      <4>1. mMinIntervalUs \in Nat /\ mDesiredMinTimeUs \in Nat
        BY <3>1, <3>4
      <4>2. ~IsTooEarly(mDesiredMinTimeUs, t)
        BY <1>5, <3>4, <4>1 DEF Keep, Drops
      <4>3. NextDesired(mDesiredMinTimeUs, mMinIntervalUs, t) \in Nat
        BY <1>1, <3>4, <4>1, <4>2, NextDesiredAdvances
      <4> QED
        BY <1>5, <3>4, <4>1, <4>3 DEF DesiredAfter, Keep
    <3> QED
      BY <3>1, <3>2, <3>3, <3>4
  <2> QED
    BY <1>5, <1>6, <2>1, <2>2 DEF ClockInv, TypeOK, Keep
<1> QED
  BY <1>4, <1>5, <1>6, <1>7, <1>8, <1>9

LEMMA RoundedZero == ASSUME NEW q \in Nat, q > 0 PROVE Rounded(0, q) = 0
<1>1. PICK r \in Nat : Rounded(0, q) = r
  BY RoundedBrackets
<1>2. 2 * (r * q) <= q
  BY <1>1, RoundedBrackets
<1>3. r >= 1 => r * q >= q
  OBVIOUS
<1>4. r * q \in Nat
  OBVIOUS
<1>5. ~(r >= 1)
  BY <1>2, <1>3, <1>4
<1> QED
  BY <1>1, <1>5

(* A frame of time timeUs and the codec time it is given are near the place  *)
(* k of the capture grid.                                                    *)
NearPlace(elapsed, shown, k) ==
    /\ 2 * (shown * mFps - k * UnitsPerSecond) \in -mFps..mFps
    /\ 100 * (elapsed * mCaptureFps - k * UnitsPerSecond)
          \in -((50 + TimestampFluctuation) * UnitsPerSecond + 50 * mCaptureFps)
              ..((50 + TimestampFluctuation) * UnitsPerSecond + 50 * mCaptureFps)

(* What stamping a frame does to the clocks, in whatever mode. *)
TypedStep ==
    /\ mBaseCaptureUs' \in Int /\ mBaseFrameUs' \in Int
    /\ mPrevCaptureUs' \in Int /\ mPrevFrameUs' \in Int
    /\ mFrameCount' \in Nat

ForwardStep ==
    RatesBelowClock /\ stamped # <<>> /\ ~Disabled =>
        \/ mPrevFrameUs' > mPrevFrameUs
        \/ mPrevFrameUs' = mPrevFrameUs /\ Rescaling /\ mFps > mCaptureFps

BasedStep(timeUs) ==
    Rescaling =>
        /\ mPrevCaptureUs' >= 0 /\ mBaseCaptureUs' >= 0
        /\ stamped = <<>> => mBaseCaptureUs' = timeUs /\ mBaseFrameUs' = mPrevFrameUs'
        /\ stamped # <<>> => UNCHANGED baseVars

SnappedStep(timeUs) ==
    Rescaling /\ mSnapTimestamps =>
        /\ stamped # <<>> => mFrameCount <= mFrameCount'
        /\ mPrevCaptureUs' = mBaseCaptureUs' + Rounded(mFrameCount' * UnitsPerSecond, mCaptureFps)
        /\ mPrevFrameUs' = mBaseFrameUs' + Rounded(mFrameCount' * UnitsPerSecond, mFps)
        /\ \E k \in 0..mFrameCount' :
               NearPlace(timeUs - mBaseCaptureUs', mPrevFrameUs' - mBaseFrameUs', k)

ScaledStep ==
    Rescaling /\ ~mSnapTimestamps /\ ~Disabled =>
        /\ mPrevCaptureUs' >= mBaseCaptureUs'
        /\ mPrevFrameUs' = mBaseFrameUs'
             + Rounded((mPrevCaptureUs' - mBaseCaptureUs') * mCaptureFps, mFps)

ClockStep(timeUs) ==
    /\ TypedStep /\ ForwardStep /\ BasedStep(timeUs) /\ SnappedStep(timeUs) /\ ScaledStep

(* The first frame is the base. *)
LEMMA FirstCaptureStep ==
    ASSUME ClockInv, NEW timeUs \in Nat, FirstCapture(timeUs)
    PROVE  ClockStep(timeUs)
<1>1. /\ Rescaling /\ stamped = <<>>
      /\ mPrevCaptureUs' = timeUs /\ mBaseCaptureUs' = timeUs
      /\ mBaseFrameUs' = Rounded(timeUs * mCaptureFps, mFps)
      /\ mPrevFrameUs' = mBaseFrameUs'
      /\ mFrameCount' = 0
  BY DEF FirstCapture, ClockInv, Rescaled, ClockTypes
<1>2. /\ mFps \in Nat /\ mFps > 0
      /\ mCaptureFps \in Nat /\ mCaptureFps > 0
  BY <1>1, RescalingRates DEF ClockInv
<1>3. PICK base \in Int : base = mBaseFrameUs'
  <2>1. timeUs * mCaptureFps \in Int
    BY <1>2
  <2> QED
    BY <1>1, <1>2, <2>1, RoundedIsInt
<1>4. TypedStep /\ ForwardStep /\ BasedStep(timeUs)
  BY <1>1, <1>3 DEF TypedStep, ForwardStep, BasedStep
<1>5. Rounded(0, mCaptureFps) = 0 /\ Rounded(0, mFps) = 0
  BY <1>2, RoundedZero
<1>6. SnappedStep(timeUs)
  <2>1. 0 * UnitsPerSecond = 0
    BY UnitsArePositive
  <2>2. NearPlace(0, 0, 0)
    <3>1. PICK U \in Nat : U = UnitsPerSecond
      BY UnitsArePositive
    <3>2. PICK F \in Nat : F = TimestampFluctuation
      BY TimingAssumption
    <3>3. (50 + F) * U + 50 * mCaptureFps \in Nat
      BY <1>2
    <3>4. PICK m \in Nat : m = (50 + F) * U + 50 * mCaptureFps
      BY <3>3
    <3>5. 0 \in -m..m /\ 0 \in -mFps..mFps
      BY <1>2
    <3>6. 2 * (0 * mFps - 0 * U) = 0 /\ 100 * (0 * mCaptureFps - 0 * U) = 0
      BY <1>2
    <3> QED
      BY <3>1, <3>2, <3>4, <3>5, <3>6 DEF NearPlace
  <2>3. 0 \in 0..0
    OBVIOUS
  <2>4. timeUs - mBaseCaptureUs' = 0 /\ mPrevFrameUs' - mBaseFrameUs' = 0
        /\ timeUs + 0 = timeUs /\ base + 0 = base
    BY <1>1, <1>3
  <2> QED
    BY <1>1, <1>3, <1>5, <2>1, <2>2, <2>3, <2>4 DEF SnappedStep
<1>7. ScaledStep
  <2>1. (mPrevCaptureUs' - mBaseCaptureUs') * mCaptureFps = 0
    BY <1>1, <1>2
  <2> QED
    BY <1>1, <1>3, <1>5, <2>1 DEF ScaledStep
<1> QED
  BY <1>4, <1>6, <1>7 DEF ClockStep

(* Neither time lapse nor slow motion: the time itself is kept. *)
LEMMA RealTimeStep ==
    ASSUME ClockInv, NEW timeUs \in Nat, RealTime(timeUs)
    PROVE  ClockStep(timeUs)
<1>1. ~Rescaling /\ UNCHANGED captureVars /\ mPrevFrameUs' = timeUs
      /\ ~Backward(timeUs, mPrevFrameUs)
  BY DEF RealTime
<1>2. TypedStep
  BY <1>1 DEF TypedStep, ClockInv, ClockTypes, captureVars, baseVars
<1>3. ForwardStep
  BY <1>1 DEF ForwardStep, Backward, ClockInv, ClockTypes
<1> QED
  BY <1>1, <1>2, <1>3 DEF ClockStep, BasedStep, SnappedStep, ScaledStep

(* The base is shifted by the rescaled time since the first frame. *)
LEMMA ScaledCaptureStep ==
    ASSUME ClockInv, NEW timeUs \in Nat, ScaledCapture(timeUs)
    PROVE  ClockStep(timeUs)
<1>1. /\ Rescaling /\ mPrevCaptureUs >= 0 /\ ~mSnapTimestamps
      /\ ~Backward(timeUs, mPrevCaptureUs)
      /\ mPrevCaptureUs' = timeUs
      /\ mPrevFrameUs' = mBaseFrameUs + Rounded((timeUs - mBaseCaptureUs) * mCaptureFps, mFps)
      /\ UNCHANGED <<baseVars, mFrameCount>>
  BY DEF ScaledCapture
<1>2. stamped # <<>>
  BY <1>1 DEF ClockInv, LastStamped
<1>3. PICK fps \in Nat, cap \in Nat : fps = mFps /\ cap = mCaptureFps /\ fps > 0 /\ cap > 0
  BY <1>1, RescalingRates DEF ClockInv
<1>4. PICK base \in Nat, prev \in Nat, baseFrame \in Int :
          base = mBaseCaptureUs /\ prev = mPrevCaptureUs /\ baseFrame = mBaseFrameUs
  BY <1>1, <1>2 DEF ClockInv, Rescaled, ClockTypes
<1>5. (timeUs - base) * cap \in Int
  OBVIOUS
<1>6. PICK shown \in Int : shown = Rounded((timeUs - base) * cap, fps)
  BY <1>3, <1>5, RoundedIsInt
<1>7. mPrevFrameUs' = baseFrame + shown
  BY <1>1, <1>3, <1>4, <1>6
<1>8. /\ mBaseCaptureUs' = base /\ mBaseFrameUs' = baseFrame
      /\ mFrameCount' = mFrameCount /\ mFrameCount \in Nat
  BY <1>1, <1>4 DEF baseVars, ClockInv, ClockTypes
<1>9. TypedStep
  BY <1>1, <1>7, <1>8 DEF TypedStep
<1>10. ASSUME ~Disabled
       PROVE  /\ timeUs > prev /\ prev >= base
              /\ mPrevFrameUs = baseFrame + Rounded((prev - base) * cap, fps)
  BY <1>1, <1>2, <1>3, <1>4, <1>10 DEF Backward, ClockInv, ScaledClocks
<1>11. ForwardStep
  <2> SUFFICES ASSUME ~Disabled
               PROVE  \/ mPrevFrameUs' > mPrevFrameUs
                      \/ mPrevFrameUs' = mPrevFrameUs /\ mFps > mCaptureFps
    BY <1>1 DEF ForwardStep
  <2>1. PICK x \in Nat : x = (prev - base) * cap
    <3>1. prev - base \in Nat
      BY <1>10
    <3> QED
      BY <3>1
  <2>2. PICK y \in Nat : y = (timeUs - base) * cap
    <3>1. timeUs - base \in Nat
      BY <1>10
    <3> QED
      BY <3>1
  <2>3. x + cap <= y
    <3>1. (timeUs - prev - 1) * cap >= 0
      BY <1>10
    <3>2. (timeUs - prev - 1) * cap = y - x - cap
      BY <2>1, <2>2
    <3> QED
      BY <3>1, <3>2
  <2>4. PICK was \in Nat : was = Rounded(x, fps)
    BY <1>3, RoundedBrackets
  <2>5. mPrevFrameUs = baseFrame + was
    BY <1>10, <2>1, <2>4
  <2>6. shown = Rounded(y, fps)
    BY <1>6, <2>2
  <2>7. was <= shown /\ (x + fps <= y => was < shown)
    BY <1>3, <2>3, <2>4, <2>6, RoundedAdvances
  <2> QED
    BY <1>3, <1>7, <2>3, <2>5, <2>7
<1>12. BasedStep(timeUs)
  BY <1>1, <1>2, <1>4 DEF BasedStep, baseVars
<1>13. SnappedStep(timeUs)
  BY <1>1 DEF SnappedStep
<1>14. ScaledStep
  <2> SUFFICES ASSUME ~Disabled
               PROVE  /\ timeUs >= base
                      /\ baseFrame + shown
                           = baseFrame + Rounded((timeUs - base) * cap, fps)
    BY <1>1, <1>3, <1>7, <1>8 DEF ScaledStep
  <2> QED
    BY <1>6, <1>10
<1> QED
  BY <1>9, <1>11, <1>12, <1>13, <1>14 DEF ClockStep

(* The frame takes its place on the grid of the capture rate, at least one   *)
(* further than the last frame's.  Its own time is near: the last place was  *)
(* reached with a rounding error of half a unit, and the step from it is     *)
(* rounded to the nearest place, or up to the next one.                      *)
LEMMA SnappedCaptureStep ==
    ASSUME ClockInv, NEW timeUs \in Nat, SnappedCapture(timeUs)
    PROVE  ClockStep(timeUs)
<1>1. /\ Rescaling /\ mPrevCaptureUs >= 0 /\ mSnapTimestamps
      /\ ~TooClose(timeUs)
      /\ mFrameCount' = mFrameCount + FramesSincePrevious(timeUs)
      /\ mPrevCaptureUs'
           = mBaseCaptureUs + Rounded(mFrameCount' * UnitsPerSecond, mCaptureFps)
      /\ mPrevFrameUs' = mBaseFrameUs + Rounded(mFrameCount' * UnitsPerSecond, mFps)
      /\ UNCHANGED baseVars
  BY DEF SnappedCapture, CaptureTime
<1>2. stamped # <<>>
  BY <1>1 DEF ClockInv, LastStamped
<1>3. PICK fps \in Nat, cap \in Nat : /\ fps = mFps /\ cap = mCaptureFps
                                      /\ fps > 0 /\ cap > 0
                                      /\ <<fps, cap>> \in TimeLapseConfigs
  BY <1>1, RescalingRates DEF ClockInv
<1>4. PICK base \in Nat, prev \in Nat, baseFrame \in Int, count \in Nat :
          /\ base = mBaseCaptureUs /\ prev = mPrevCaptureUs /\ baseFrame = mBaseFrameUs
          /\ count = mFrameCount
  BY <1>1, <1>2 DEF ClockInv, Rescaled, ClockTypes
<1>5. PICK U \in Nat : U = UnitsPerSecond /\ U > 0
  BY UnitsArePositive
<1>6. PICK F \in 0..49 : F = TimestampFluctuation
  BY TimingAssumption
<1>7. RatesBelowClock => fps <= U
  BY <1>3, <1>5 DEF RatesBelowClock
<1>8. PICK x \in Int : x = (timeUs - prev) * cap
  OBVIOUS
<1>9. 100 * x >= (50 - F) * U
  <2>1. 100 * (timeUs - prev) * cap >= (50 - F) * U
    BY <1>1, <1>3, <1>4, <1>5, <1>6 DEF TooClose
  <2> QED
    BY <1>8, <2>1
<1>10. x \in Nat
  <2>1. (50 - F) * U >= 0
    OBVIOUS
  <2> QED
    BY <1>9, <2>1
<1>11. PICK r \in Nat : r = Rounded(x, U)
  BY <1>5, <1>10, RoundedBrackets
<1>12. 2 * (r * U - x) \in -U..U
  BY <1>5, <1>10, <1>11, RoundedIsClose
<1>13. PICK n \in Nat : /\ n = FramesSincePrevious(timeUs)
                        /\ n >= 1 /\ (n = r \/ (r = 0 /\ n = 1))
  <2>1. FramesSincePrevious(timeUs) = IF r < 1 THEN 1 ELSE r
    BY <1>3, <1>4, <1>5, <1>8, <1>11 DEF FramesSincePrevious
  <2> QED
    BY <2>1
<1>14. PICK k \in Nat : k = mFrameCount' /\ k = count + n
  BY <1>1, <1>4, <1>13
(* The places reached before and now. *)
<1>15. PICK m \in Nat, a \in Nat : m = count * U /\ a = k * U /\ m + U <= a
  <2>1. k * U = count * U + n * U
    BY <1>14
  <2>2. n * U >= U
    <3>1. (n - 1) * U >= 0
      BY <1>13
    <3>2. (n - 1) * U = n * U - U
      OBVIOUS
    <3> QED
      BY <3>1, <3>2
  <2>3. count * U \in Nat /\ k * U \in Nat /\ n * U \in Nat
    OBVIOUS
  <2> QED
    BY <2>1, <2>2, <2>3
<1>16. PICK was \in Nat : was = Rounded(m, cap)
  BY <1>3, RoundedBrackets
<1>17. PICK place \in Nat : place = Rounded(a, cap)
  BY <1>3, RoundedBrackets
<1>18. PICK wasShown \in Nat : wasShown = Rounded(m, fps)
  BY <1>3, RoundedBrackets
<1>19. PICK shown \in Nat : shown = Rounded(a, fps)
  BY <1>3, RoundedBrackets
<1>20. /\ mPrevCaptureUs' = base + place
       /\ mPrevFrameUs' = baseFrame + shown
       /\ mBaseCaptureUs' = base /\ mBaseFrameUs' = baseFrame
  BY <1>1, <1>3, <1>4, <1>5, <1>14, <1>15, <1>17, <1>19 DEF baseVars
<1>21. /\ prev = base + was
       /\ mPrevFrameUs = baseFrame + wasShown
  BY <1>1, <1>2, <1>3, <1>4, <1>5, <1>15, <1>16, <1>18 DEF ClockInv, SnappedClocks
<1>22. TypedStep
  BY <1>14, <1>20 DEF TypedStep
<1>23. ForwardStep
  <2>1. RatesBelowClock => wasShown < shown
    BY <1>3, <1>7, <1>15, <1>18, <1>19, RoundedAdvances
  <2> QED
    BY <1>20, <1>21, <2>1 DEF ForwardStep
<1>24. BasedStep(timeUs)
  BY <1>1, <1>2, <1>4, <1>20 DEF BasedStep
<1>25. NearPlace(timeUs - base, shown, k)
  <2>1. 2 * (shown * fps - a) \in -fps..fps
    BY <1>3, <1>19, RoundedIsClose
  <2>2. 2 * (was * cap - m) \in -cap..cap
    BY <1>3, <1>16, RoundedIsClose
  <2>3. PICK w \in Nat, g \in Nat : w = was * cap /\ g = r * U
    OBVIOUS
  <2>4. (timeUs - base) * cap = x + w
    BY <1>8, <1>21, <2>3
  <2>5. PICK h \in Nat : h = n * U /\ a = m + h
    BY <1>14, <1>15
  <2>6. h = g \/ (g = 0 /\ h = U)
    BY <1>13, <2>3, <2>5
  <2>7. PICK FU \in Nat : FU = F * U
    OBVIOUS
  <2>8. (50 - F) * U = 50 * U - FU /\ (50 + F) * U = 50 * U + FU
    BY <2>7
  <2>9. 100 * x >= 50 * U - FU
    BY <1>9, <2>8
  <2>10. 2 * (g - x) \in -U..U /\ 2 * (w - m) \in -cap..cap
    BY <1>12, <2>2, <2>3
  <2>11. 100 * (x - h) >= -(50 * U + FU) /\ 100 * (x - h) <= 50 * U + FU
    <3>1. CASE h = g
      BY <2>10, <3>1
    <3>2. CASE g = 0 /\ h = U
      BY <2>9, <2>10, <3>2
    <3> QED
      BY <2>6, <3>1, <3>2
  <2>12. 100 * ((x + w) - a) \in -(50 * U + FU + 50 * cap)..(50 * U + FU + 50 * cap)
    BY <2>5, <2>10, <2>11
  <2> QED
    BY <1>3, <1>5, <1>6, <1>15, <2>1, <2>4, <2>8, <2>12 DEF NearPlace
<1>26. SnappedStep(timeUs)
  <2>1. mPrevFrameUs' - mBaseFrameUs' = shown
    BY <1>20
  <2>2. k \in 0..k /\ count <= k
    BY <1>14
  <2> QED
    BY <1>3, <1>4, <1>5, <1>14, <1>15, <1>17, <1>19, <1>20, <1>25, <2>1, <2>2
       DEF SnappedStep
<1>27. ScaledStep
  BY <1>1 DEF ScaledStep
<1> QED
  BY <1>22, <1>23, <1>24, <1>26, <1>27 DEF ClockStep

LEMMA FrameStampedInv ==
    ASSUME TimesNotNegative, ClockInv, NEW t \in FrameTimes, FrameStamped(t)
    PROVE  ClockInv'
<1>1. PICK time \in Nat : time = t + mInputBufferTimeOffsetUs
  BY StampedFacts
<1>2. ClockStep(time)
  <2>1. FirstCapture(time) \/ SnappedCapture(time) \/ ScaledCapture(time) \/ RealTime(time)
    BY <1>1 DEF FrameStamped
  <2> QED
    BY <2>1, FirstCaptureStep, SnappedCaptureStep, ScaledCaptureStep, RealTimeStep
<1>3. /\ TypeOK' /\ kept' # <<>>
      /\ ConfigInv'
      /\ UNCHANGED <<mMinIntervalUs, mFps, mCaptureFps, mSnapTimestamps>>
      /\ (Rescaling' <=> Rescaling) /\ (Disabled' <=> Disabled)
      /\ stamped' = Append(stamped, [source |-> time, codec |-> mPrevFrameUs'])
  BY <1>1, StampedFacts
<1>4. PICK L \in Nat : L = Len(stamped)
  BY DEF ClockInv, ClockTypes
<1>5. /\ stamped' \in Seq(Frame)
      /\ DOMAIN stamped = 1..L
      /\ Len(stamped') = L + 1
      /\ DOMAIN stamped' = 1..(L + 1)
      /\ \A i \in 1..L :
             stamped'[i] = stamped[i] /\ stamped[i].source \in Nat /\ stamped[i].codec \in Int
      /\ stamped'[L + 1] = [source |-> time, codec |-> mPrevFrameUs']
      /\ stamped' # <<>>
  BY <1>2, <1>3, <1>4, StampedAppend DEF ClockInv, ClockTypes, ClockStep, TypedStep
<1>6. stamped = <<>> <=> L = 0
  BY <1>4 DEF ClockInv, ClockTypes
<1>7. ClockTypes' /\ LastStamped'
  BY <1>2, <1>3, <1>5 DEF ClockTypes, LastStamped, ClockStep, TypedStep
<1>8. Rescaling => stamped'[1] = [source |-> mBaseCaptureUs', codec |-> mBaseFrameUs']
  <2>1. CASE L = 0
    BY <1>2, <1>5, <1>6, <2>1 DEF ClockStep, BasedStep
  <2>2. CASE L > 0
    <3>1. stamped'[1] = stamped[1]
      BY <1>5, <2>2
    <3> QED
      BY <1>2, <1>6, <2>2, <3>1 DEF ClockStep, BasedStep, baseVars, ClockInv, Rescaled
  <2> QED
    BY <2>1, <2>2
<1>9. Rescaled'
  BY <1>2, <1>3, <1>8 DEF Rescaled, ClockStep, BasedStep
<1>10. SnappedClocks'
  BY <1>2, <1>3 DEF SnappedClocks, ClockStep, SnappedStep
<1>11. ScaledClocks'
  BY <1>2, <1>3 DEF ScaledClocks, ClockStep, ScaledStep
<1>12. RatesBelowClock => TimesAdvance'
  <2> SUFFICES ASSUME RatesBelowClock, ~Disabled, NEW j \in 1..L
               PROVE  \/ stamped'[j + 1].codec > stamped'[j].codec
                      \/ /\ stamped'[j + 1].codec = stamped'[j].codec
                         /\ Rescaling /\ mFps > mCaptureFps
    BY <1>3, <1>5 DEF TimesAdvance
  <2>1. CASE j < L
    <3>1. j \in 1..(L - 1) /\ j + 1 \in 1..L
      BY <2>1
    <3>2. stamped'[j] = stamped[j] /\ stamped'[j + 1] = stamped[j + 1]
      BY <1>5, <3>1
    <3> QED
      BY <1>4, <3>1, <3>2 DEF ClockInv, TimesAdvance
  <2>2. CASE j = L
    <3>1. stamped # <<>>
      BY <1>6, <2>2
    <3>2. stamped'[j].codec = mPrevFrameUs
      BY <1>4, <1>5, <2>2, <3>1 DEF ClockInv, LastStamped
    <3>3. stamped'[j + 1].codec = mPrevFrameUs'
      BY <1>5, <2>2
    <3> QED
      BY <1>2, <3>1, <3>2, <3>3 DEF ClockStep, ForwardStep
  <2> QED
    BY <2>1, <2>2
<1>13. SnappedToGrid'
  <2> SUFFICES ASSUME Rescaling, mSnapTimestamps, NEW j \in 1..(L + 1)
               PROVE  (\E k \in 0..mFrameCount : OnCaptureGrid(stamped[j], k))'
    BY <1>3, <1>5 DEF SnappedToGrid
  <2>1. CASE j \in 1..L
    <3>1. PICK k \in 0..mFrameCount : OnCaptureGrid(stamped[j], k)
      BY <1>5, <2>1 DEF ClockInv, SnappedToGrid
    <3>2. stamped'[j] = stamped[j] /\ stamped'[1] = stamped[1]
      BY <1>5, <2>1
    <3>3. OnCaptureGrid(stamped[j], k)'
      BY <1>3, <3>1, <3>2 DEF OnCaptureGrid
    <3>4. mFrameCount \in Nat /\ mFrameCount' \in Nat /\ mFrameCount <= mFrameCount'
      BY <1>2, <1>6, <2>1 DEF ClockInv, ClockTypes, ClockStep, TypedStep, SnappedStep
    <3>5. k \in 0..mFrameCount'
      BY <3>4
    <3> QED
      BY <3>3, <3>5
  <2>2. CASE j = L + 1
    <3>1. PICK k \in 0..mFrameCount' :
              NearPlace(time - mBaseCaptureUs', mPrevFrameUs' - mBaseFrameUs', k)
      BY <1>2 DEF ClockStep, SnappedStep
    <3>2. /\ stamped'[j].source = time /\ stamped'[j].codec = mPrevFrameUs'
          /\ stamped'[1].source = mBaseCaptureUs' /\ stamped'[1].codec = mBaseFrameUs'
      BY <1>5, <1>8, <2>2
    <3>3. OnCaptureGrid(stamped[j], k)'
      BY <1>3, <3>1, <3>2 DEF OnCaptureGrid, NearPlace
    <3> QED
      BY <3>1, <3>3
  <2> QED
    BY <2>1, <2>2
<1> QED
  BY <1>3, <1>7, <1>9, <1>10, <1>11, <1>12, <1>13 DEF ClockInv, RatesBelowClock

(* Each action preserves what is claimed of the clocks.  That the dropper's  *)
(* variables keep their types is known from FrameDropper.                    *)
LEMMA TimingStepInv ==
    TimesNotNegative /\ ClockInv /\ TypeOK' /\ [TimingNext]_timingVars
        => ClockInv'
<1> SUFFICES ASSUME TimesNotNegative, ClockInv, TypeOK', [TimingNext]_timingVars
             PROVE  ClockInv'
  OBVIOUS
<1>1. ASSUME NEW rate \in MaxFrameRates, LimitRate(rate) PROVE ClockInv'
  <2>1. kept = <<>> /\ stamped = <<>>
    BY <1>1 DEF LimitRate, SetMaxFrameRate, ClockInv, LastStamped
  <2> QED
    BY <1>1, <2>1, ClocksUnchanged DEF LimitRate, SetMaxFrameRate, clocks
<1>2. ASSUME NEW config \in TimeLapseConfigs, SetTimeLapseConfig(config[1], config[2])
      PROVE  ClockInv'
  BY <1>2, SetTimeLapseConfigInv
<1>3. ASSUME NEW offset \in TimeOffsets, SetTimeOffsetUs(offset) PROVE ClockInv'
  BY <1>3, SetTimeOffsetUsInv
<1>4. CASE UNCHANGED timingVars
  BY <1>4, ClocksUnchanged DEF timingVars, dropperVars, clocks
<1>5. ASSUME NEW t \in FrameTimes, FrameDropped(t) PROVE ClockInv'
  BY <1>4, <1>5 DEF FrameDropped
<1>6. ASSUME NEW t \in FrameTimes, FrameRefused(t) PROVE ClockInv'
  <2>1. t \in Nat
    BY DriverAssumption
  <2>2. kept' # <<>> /\ UNCHANGED mMinIntervalUs
    BY <1>6, <2>1, KeptAfterAppend DEF FrameRefused, ClockInv
  <2> QED
    BY <1>6, <2>2, ClocksUnchanged DEF FrameRefused, clocks
<1>7. ASSUME NEW t \in FrameTimes, FrameStamped(t) PROVE ClockInv'
  BY <1>7, FrameStampedInv
<1> QED
  BY <1>1, <1>2, <1>3, <1>4, <1>5, <1>6, <1>7 DEF TimingNext

LEMMA ClocksHold ==
    ASSUME TimesNotNegative
    PROVE  TimingSpec => []ClockInv
<1>1. TimingSpec => []TypeOK
  BY ImplementsFrameDropper, TypeCorrect, PTL
<1>2. TimingInit => ClockInv
  BY TimingInitInv
<1>3. ClockInv /\ TypeOK' /\ [TimingNext]_timingVars => ClockInv'
  BY TimingStepInv
<1> QED
  BY <1>1, <1>2, <1>3, PTL DEF TimingSpec

(* calculateCodecTimestamp_l never sends the codec backward, nor twice to    *)
(* the same time unless it compresses time, for every rate, offset, jitter   *)
(* and sequence of frame times, in every mode.                               *)
THEOREM TimesAlwaysAdvance ==
    ASSUME TimesNotNegative, RatesBelowClock
    PROVE  TimingSpec => []TimesAdvance
<1>1. ClockInv => TimesAdvance
  BY RatesBelowClock DEF ClockInv
<1> QED
  BY <1>1, ClocksHold, PTL

(* With snapping, the codec's times and the frames' own stay within half a   *)
(* unit and about half a capture interval of the same grid, however long the *)
(* recording: the rounding errors of calculateCodecTimestamp_l do not add up.*)
THEOREM AlwaysSnappedToGrid ==
    ASSUME TimesNotNegative
    PROVE  TimingSpec => []SnappedToGrid
<1>1. ClockInv => SnappedToGrid
  BY DEF ClockInv
<1> QED
  BY <1>1, ClocksHold, PTL

=============================================================================
