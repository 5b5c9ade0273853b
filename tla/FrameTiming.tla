----------------------------- MODULE FrameTiming ------------------------------
(***************************************************************************)
(* The path of a frame's time to the encoder                               *)
(* (bqhelper_samsung/GraphicBufferSource.cpp): the frame dropper decides,  *)
(* then calculateCodecTimestamp_l shifts the time and, for time lapse and  *)
(* slow motion, rescales it or snaps it to the capture rate, and refuses   *)
(* frames that are too close or go backward.                               *)
(*                                                                         *)
(* The rates are doubles in the code and whole numbers here; products and  *)
(* quotients are exact.  A second has UnitsPerSecond units of time.        *)
(***************************************************************************)
EXTENDS FrameDropper

CONSTANTS
    TimeLapseConfigs,      \* arguments of setTimeLapseConfig: <<fps, captureFps>>
    TimeOffsets,           \* arguments of setTimeOffsetUs
    TimestampFluctuation   \* 100 * kTimestampFluctuation: 5 in the code

ASSUME TimingAssumption ==
    /\ TimeLapseConfigs \subseteq (Nat \ {0}) \X (Nat \ {0})
    /\ TimeOffsets \subseteq {i \in Int : i < 0}
    /\ TimestampFluctuation \in 0..49

VARIABLES
    mFps, mCaptureFps, mSnapTimestamps, mInputBufferTimeOffsetUs,
    mBaseCaptureUs, mBaseFrameUs, mFrameCount, mPrevCaptureUs, mPrevFrameUs,
    stamped  \* history: the frames' times and the codec times they were given

dropperVars == <<mDesiredMinTimeUs, mMinIntervalUs, kept>>
configVars  == <<mFps, mCaptureFps, mSnapTimestamps, mInputBufferTimeOffsetUs>>
baseVars    == <<mBaseCaptureUs, mBaseFrameUs>>
captureVars == <<baseVars, mFrameCount, mPrevCaptureUs>>

timingVars == <<dropperVars, configVars, captureVars, mPrevFrameUs, stamped>>

-----------------------------------------------------------------------------
(* llround(p / q), which rounds halves away from zero. *)
Rounded(p, q) ==
    IF p >= 0 THEN (2 * p + q) \div (2 * q) ELSE -((q - 2 * p) \div (2 * q))

Disabled == mMinIntervalUs = -1

(* Time lapse or slow motion mode. *)
Rescaling == mCaptureFps > 0 /\ (mFps > 2 * mCaptureFps \/ mCaptureFps > 2 * mFps)

TooClose(timeUs) ==
    100 * (timeUs - mPrevCaptureUs) * mCaptureFps
        < (50 - TimestampFluctuation) * UnitsPerSecond

(* Mutant of CaptureTime: the time of the frame itself. *)
CaptureTimeUnsnapped(timeUs, count) == timeUs

(* mPrevCaptureUs, when times are snapped. *)
CaptureTime(timeUs, count) == mBaseCaptureUs + Rounded(count * UnitsPerSecond, mCaptureFps)

FramesSincePrevious(timeUs) ==
    LET nFrames == Rounded((timeUs - mPrevCaptureUs) * mCaptureFps, UnitsPerSecond)
    IN  IF nFrames < 1 THEN 1 ELSE nFrames

FirstCapture(timeUs) ==
    /\ Rescaling /\ mPrevCaptureUs < 0
    /\ mPrevCaptureUs' = timeUs /\ mBaseCaptureUs' = timeUs
    /\ mBaseFrameUs' = Rounded(timeUs * mCaptureFps, mFps)
    /\ mPrevFrameUs' = mBaseFrameUs'
    /\ mFrameCount' = 0

SnappedCapture(timeUs) ==
    /\ Rescaling /\ mPrevCaptureUs >= 0 /\ mSnapTimestamps
    /\ ~TooClose(timeUs)
    /\ mFrameCount' = mFrameCount + FramesSincePrevious(timeUs)
    /\ mPrevCaptureUs' = CaptureTime(timeUs, mFrameCount')
    /\ mPrevFrameUs' = mBaseFrameUs + Rounded(mFrameCount' * UnitsPerSecond, mFps)
    /\ UNCHANGED baseVars

(* Mutant of Backward: a frame that repeats the last time is let through. *)
StrictlyBackward(timeUs, previous) == timeUs < previous /\ ~Disabled

Backward(timeUs, previous) == timeUs <= previous /\ ~Disabled

ScaledCapture(timeUs) ==
    /\ Rescaling /\ mPrevCaptureUs >= 0 /\ ~mSnapTimestamps
    /\ ~Backward(timeUs, mPrevCaptureUs)
    /\ mPrevCaptureUs' = timeUs
    /\ mPrevFrameUs' = mBaseFrameUs + Rounded((timeUs - mBaseCaptureUs) * mCaptureFps, mFps)
    /\ UNCHANGED <<baseVars, mFrameCount>>

RealTime(timeUs) ==
    /\ ~Rescaling
    /\ ~Backward(timeUs, mPrevFrameUs)
    /\ mPrevFrameUs' = timeUs
    /\ UNCHANGED captureVars

(* calculateCodecTimestamp_l returns false. *)
Refused(timeUs) ==
    \/ Rescaling /\ mPrevCaptureUs >= 0 /\ mSnapTimestamps /\ TooClose(timeUs)
    \/ Rescaling /\ mPrevCaptureUs >= 0 /\ ~mSnapTimestamps /\ Backward(timeUs, mPrevCaptureUs)
    \/ ~Rescaling /\ Backward(timeUs, mPrevFrameUs)

-----------------------------------------------------------------------------
(* Frames, as fillCodecBuffer_l handles them. *)

FrameDropped(t) == Drop(t) /\ UNCHANGED timingVars

FrameRefused(t) ==
    /\ Keep(t)
    /\ Refused(t + mInputBufferTimeOffsetUs)
    /\ UNCHANGED <<configVars, captureVars, mPrevFrameUs, stamped>>

FrameStamped(t) ==
    LET timeUs == t + mInputBufferTimeOffsetUs IN
    /\ Keep(t)
    /\ \/ FirstCapture(timeUs) \/ SnappedCapture(timeUs)
       \/ ScaledCapture(timeUs) \/ RealTime(timeUs)
    /\ stamped' = Append(stamped, [source |-> timeUs, codec |-> mPrevFrameUs'])
    /\ UNCHANGED configVars

(* The client's calls; the first two only before the source executes.  The  *)
(* module is about one stretch of executing, from configure to the first    *)
(* stop: what is set between a stop and the next start, when the times of   *)
(* frames kept earlier are still there, is beyond it.                       *)
LimitRate(rate) ==
    /\ SetMaxFrameRate(rate)
    /\ UNCHANGED <<configVars, captureVars, mPrevFrameUs, stamped>>

(* debug.stagefright.snap_timestamps asks for snapping, or not. *)
SetTimeLapseConfig(fps, captureFps) ==
    /\ kept = <<>>
    /\ mFps' = fps /\ mCaptureFps' = captureFps
    /\ mSnapTimestamps' \in (IF captureFps > fps THEN BOOLEAN ELSE {FALSE})
    /\ UNCHANGED <<dropperVars, mInputBufferTimeOffsetUs, captureVars, mPrevFrameUs, stamped>>

SetTimeOffsetUs(timeOffsetUs) ==
    /\ mInputBufferTimeOffsetUs' = timeOffsetUs
    /\ UNCHANGED <<dropperVars, mFps, mCaptureFps, mSnapTimestamps, captureVars,
                   mPrevFrameUs, stamped>>

(* What configure sets. *)
TimingInit ==
    /\ Init
    /\ mFps = -1 /\ mCaptureFps = -1 /\ mSnapTimestamps = TRUE
    /\ mInputBufferTimeOffsetUs = 0
    /\ mBaseCaptureUs = -1 /\ mBaseFrameUs = -1 /\ mFrameCount = 0
    /\ mPrevCaptureUs = -1 /\ mPrevFrameUs = -1
    /\ stamped = <<>>

TimingNext ==
    \/ \E rate \in MaxFrameRates : LimitRate(rate)
    \/ \E config \in TimeLapseConfigs : SetTimeLapseConfig(config[1], config[2])
    \/ \E offset \in TimeOffsets : SetTimeOffsetUs(offset)
    \/ \E t \in FrameTimes : FrameDropped(t) \/ FrameRefused(t) \/ FrameStamped(t)

TimingSpec == TimingInit /\ [][TimingNext]_timingVars

-----------------------------------------------------------------------------
(* Properties. *)

(* The codec is given advancing times, whatever the order of the frames,     *)
(* the offset set between them and the mode, unless the client disabled      *)
(* dropping.  Only a time lapse, which compresses time, may give two frames  *)
(* the same time.                                                            *)
TimesAdvance ==
    ~Disabled => \A j \in 1..(Len(stamped) - 1) :
        LET before == stamped[j].codec
            after  == stamped[j + 1].codec
        IN  after > before \/ (after = before /\ Rescaling /\ mFps > mCaptureFps)

(* With snapping, each frame has a place k on the grid of the capture rate   *)
(* that starts at the first frame: its own time is within half a capture     *)
(* interval and the fluctuation of that place, and the codec is told the     *)
(* time of the place k at the encoding rate.  The error does not accumulate. *)
OnCaptureGrid(frame, k) ==
    LET elapsed == frame.source - stamped[1].source
        shown   == frame.codec - stamped[1].codec
        error   == elapsed * mCaptureFps - k * UnitsPerSecond
    IN  /\ 2 * (shown * mFps - k * UnitsPerSecond) \in -mFps..mFps
        /\ 100 * error \in -((50 + TimestampFluctuation) * UnitsPerSecond + 50 * mCaptureFps)
                           ..((50 + TimestampFluctuation) * UnitsPerSecond + 50 * mCaptureFps)

SnappedToGrid ==
    Rescaling /\ mSnapTimestamps =>
        \A j \in DOMAIN stamped : \E k \in 0..mFrameCount : OnCaptureGrid(stamped[j], k)

=============================================================================
