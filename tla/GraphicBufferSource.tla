------------------------ MODULE GraphicBufferSource -------------------------
(***************************************************************************)
(* The buffer source of the video encoder                                  *)
(* (bqhelper_samsung/GraphicBufferSource.cpp): it takes frames from a      *)
(* BufferQueue, feeds them to the codec's input buffers, repeats the last  *)
(* frame of a static scene, and pauses, resumes or ends the stream at      *)
(* given frame times.                                                      *)
(*                                                                         *)
(* Threads: the producer's (frame callbacks), the codec's (input buffers   *)
(* emptied), the client's (lifecycle and control calls) and the looper's   *)
(* (repeat messages).  Every operation runs under mMutex and is one        *)
(* action, except those that go through fillCodecBuffer_l: they keep       *)
(* mMutex, whose value says where they are, until they return.  While it   *)
(* is held only the BufferQueue and the looper, which do not take it, run. *)
(*                                                                         *)
(* Frames are numbered as the producer queues them.  A VideoBuffer is      *)
(* [buf, ts]; buf 0 (Null) is the null AcquiredBuffer.  A buffer is        *)
(* released to the BufferQueue when nothing refers to it any more, so the  *)
(* acquired buffers are the ones in Held.                                  *)
(***************************************************************************)
EXTENDS FrameDropperRule, Sequences, FiniteSets

CONSTANTS
    CodecBuffers,           \* codec_buffer_id-s of the input port
    kRepeatLastFrameCount,  \* 10 in the code
    MaxAcquired,            \* bufferCount given to configure
    MaxDequeued,            \* buffers the producer may hold or have queued besides
    FrameTimes,             \* n-th frame's timestamp is in FrameTimes[n]
    RepeatDelays,           \* arguments of setRepeatPreviousFrameDelayUs
    MaxFpsArgs,             \* arguments of setMaxFps
    StartTimes,             \* arguments of setStartTimeUs
    ActionTimes,            \* arguments of setSuspend and setStopTimeUs, -1: immediate
    MaxActions,             \* bound on accepted setSuspend/setStopTimeUs calls
    MaxSessions,            \* bound on calls of configure
    SubmitMayFail           \* whether the component may refuse a buffer

ASSUME ConstantsAssumption ==
    /\ IsFiniteSet(CodecBuffers)
    /\ kRepeatLastFrameCount \in Nat \ {0}
    /\ MaxAcquired \in Nat /\ MaxDequeued \in Nat
    /\ FrameTimes \in Seq(SUBSET Nat)
    /\ RepeatDelays \subseteq Nat \ {0}
    /\ MaxFpsArgs \subseteq Int
    /\ StartTimes \subseteq Nat
    /\ ActionTimes \subseteq Nat \cup {-1}
    /\ MaxActions \in Nat /\ MaxSessions \in Nat
    /\ SubmitMayFail \in BOOLEAN

VARIABLES
    \* The BufferQueue: frames queued, frames whose callback is still due, frames made.
    queued, undelivered, produced,
    \* The client: where it is in the lifecycle, and the number of configure calls.
    phase, session,
    \* Who holds mMutex: "free", or the operation that is under way.
    mMutex,
    mComponent, mExecuting, mEndOfStream, mEndOfStreamSent,
    mAvailableBuffers, mNumAvailableUnacquiredBuffers,
    mFreeCodecBuffers, mSubmittedCodecBuffers,
    \* History: what the component was given in this session, in order.
    encoded,
    mSuspended, mActionQueue, mLastActionTimeUs, mStopTimeUs,
    \* History: the setSuspend/setStopTimeUs calls accepted in this session.
    accepted,
    mLatestBuffer, mFrameRepeatIntervalUs, mRepeatLastFrameGeneration,
    mOutstandingFrameRepeatCount, mFrameRepeatBlockedOnCodecBuffer,
    \* The looper: whether there is one, the messages posted to it (their
    \* generations), and the one its thread is delivering (0: none).
    mLooper, posted, handling,
    mPrevFrameUs, mLastFrameTimestampUs, mSkipFramesBeforeUs, mFrameDropper

bqVars      == <<queued, undelivered, produced>>
lifeVars    == <<phase, session, mComponent, mExecuting>>
eosVars     == <<mEndOfStream, mEndOfStreamSent>>
frameVars   == <<mAvailableBuffers, mNumAvailableUnacquiredBuffers>>
codecVars   == <<mFreeCodecBuffers, mSubmittedCodecBuffers, encoded>>
controlVars == <<mSuspended, mActionQueue, mLastActionTimeUs, mStopTimeUs, accepted>>
repeatVars  == <<mLatestBuffer, mFrameRepeatIntervalUs, mRepeatLastFrameGeneration,
                 mOutstandingFrameRepeatCount, mFrameRepeatBlockedOnCodecBuffer>>
looperVars  == <<mLooper, posted, handling>>
timeVars    == <<mPrevFrameUs, mLastFrameTimestampUs, mSkipFramesBeforeUs, mFrameDropper>>

vars == <<bqVars, lifeVars, mMutex, eosVars, frameVars, codecVars, controlVars,
          repeatVars, looperVars, timeVars>>

-----------------------------------------------------------------------------
Null         == 0    \* the null AcquiredBuffer
NotSubmitted == -1   \* no entry in mSubmittedCodecBuffers
NoBuffer     == [buf |-> Null, ts |-> -1]
Eos          == [buf |-> Null, ts |-> -1]   \* the end-of-stream buffer in encoded
NoDropper    == [interval |-> 0, desired |-> -1]  \* a null mFrameDropper drops nothing

MaxFrames == Len(FrameTimes)

(* Encoding times: the latest frame and its last repeat. *)
MaxTime ==
    LET all == UNION {FrameTimes[n] : n \in DOMAIN FrameTimes}
        delays == RepeatDelays \cup {0}
    IN  (CHOOSE m \in all : \A t \in all : t <= m)
        + kRepeatLastFrameCount * (CHOOSE m \in delays : \A d \in delays : d <= m)

(* haveAvailableBuffers_l *)
HaveAvailableBuffers == mAvailableBuffers # <<>> \/ mNumAvailableUnacquiredBuffers > 0

BuffersIn(q) == {q[i].buf : i \in DOMAIN q}
InCodec      == {mSubmittedCodecBuffers[id] : id \in CodecBuffers} \ {Null, NotSubmitted}
InLatest     == {mLatestBuffer.buf} \ {Null}

(* The frames some AcquiredBuffer still refers to. *)
Held == BuffersIn(mAvailableBuffers) \cup InCodec \cup InLatest

(* BufferQueue's acquireBuffer: one buffer more than the maximum may be     *)
(* acquired, so that a consumer can replace the one it shows.               *)
MayAcquire(held) == Cardinality(held) <= MaxAcquired

-----------------------------------------------------------------------------
(* Giving a buffer to the component. *)

(* Mutant of TimestampAccepted: a frame with the previous time passes. *)
TimestampNotBackward(ts) == ts >= mPrevFrameUs \/ mFrameDropper.interval = -1

(* calculateCodecTimestamp_l without time lapse: time must advance, unless  *)
(* the frame drop logic is disabled.                                        *)
TimestampAccepted(ts) == ts > mPrevFrameUs \/ mFrameDropper.interval = -1

(* The first free codec buffer goes to the component holding entry. *)
TakeCodecBuffer(entry) ==
    /\ mSubmittedCodecBuffers' =
           [mSubmittedCodecBuffers EXCEPT ![Head(mFreeCodecBuffers)] = entry.buf]
    /\ mFreeCodecBuffers' = Tail(mFreeCodecBuffers)
    /\ encoded' = Append(encoded, entry)

(* submitBuffer_l returns OK. *)
SubmitBuffer(v) ==
    /\ TimestampAccepted(v.ts)
    /\ mPrevFrameUs' = v.ts
    /\ TakeCodecBuffer(v)

(* submitBuffer_l returns an error: time goes backward, or the component    *)
(* refuses the buffer after its timestamp was taken.                        *)
SubmitBufferFails(v) ==
    /\ \/ ~TimestampAccepted(v.ts) /\ UNCHANGED mPrevFrameUs
       \/ TimestampAccepted(v.ts) /\ SubmitMayFail /\ mPrevFrameUs' = v.ts
    /\ UNCHANGED codecVars

(* Mutant of SubmitEndOfInputStream: whether it was sent is not looked at. *)
SubmitEndOfInputStreamAgain ==
    LET possible == mFreeCodecBuffers # <<>> IN
    \/ /\ possible
       /\ TakeCodecBuffer(Eos)
       /\ mEndOfStreamSent' = TRUE
       /\ mRepeatLastFrameGeneration' = mRepeatLastFrameGeneration + 1
       /\ mLatestBuffer' = NoBuffer
    \/ /\ ~possible
       /\ UNCHANGED <<codecVars, mEndOfStreamSent, mRepeatLastFrameGeneration,
                      mLatestBuffer>>

(* submitEndOfInputStream_l, once the caller has set mEndOfStream. *)
SubmitEndOfInputStream ==
    LET possible == ~mEndOfStreamSent /\ mFreeCodecBuffers # <<>> IN
    \/ /\ possible
       /\ TakeCodecBuffer(Eos)
       /\ mEndOfStreamSent' = TRUE
       /\ mRepeatLastFrameGeneration' = mRepeatLastFrameGeneration + 1
       /\ mLatestBuffer' = NoBuffer
    \/ /\ ~possible \/ SubmitMayFail
       /\ UNCHANGED <<codecVars, mEndOfStreamSent, mRepeatLastFrameGeneration,
                      mLatestBuffer>>

-----------------------------------------------------------------------------
(* Repeating the latest frame. *)

(* Mutant of QueueFrameRepeat: the older messages stay current. *)
QueueFrameRepeatSameGeneration ==
    /\ mFrameRepeatBlockedOnCodecBuffer' = FALSE
    /\ posted' = IF mLooper THEN Append(posted, mRepeatLastFrameGeneration) ELSE posted
    /\ UNCHANGED mRepeatLastFrameGeneration

(* queueFrameRepeat_l: a new message, which makes every older one stale. *)
QueueFrameRepeat ==
    /\ mFrameRepeatBlockedOnCodecBuffer' = FALSE
    /\ IF mLooper
       THEN /\ mRepeatLastFrameGeneration' = mRepeatLastFrameGeneration + 1
            /\ posted' = Append(posted, mRepeatLastFrameGeneration + 1)
       ELSE UNCHANGED <<mRepeatLastFrameGeneration, posted>>

AfterInterval(v) == [v EXCEPT !.ts = @ + mFrameRepeatIntervalUs]

(* setLatestBuffer_l *)
SetLatestBuffer(v) ==
    /\ mLatestBuffer' = AfterInterval(v)
    /\ mOutstandingFrameRepeatCount' = kRepeatLastFrameCount
    /\ QueueFrameRepeat

CanRepeat == mLatestBuffer.buf # Null /\ ~mSuspended' /\ mFreeCodecBuffers # <<>>

(* Mutant of RepeatLatestBuffer: the count is not decremented. *)
RepeatUncounted(blockedAfter) ==
    /\ CanRepeat
    /\ SubmitBuffer(mLatestBuffer)
    /\ mLatestBuffer' = AfterInterval(mLatestBuffer)
    /\ QueueFrameRepeat
    /\ UNCHANGED mOutstandingFrameRepeatCount

(* repeatLatestBuffer_l returns true.  If that was the last repeat nothing  *)
(* more is queued, and the blocked flag is what the caller makes of it.     *)
RepeatLatestBuffer(blockedAfter) ==
    /\ CanRepeat
    /\ SubmitBuffer(mLatestBuffer)
    /\ mOutstandingFrameRepeatCount' = mOutstandingFrameRepeatCount - 1
    /\ IF mOutstandingFrameRepeatCount > 1
       THEN /\ mLatestBuffer' = AfterInterval(mLatestBuffer)
            /\ QueueFrameRepeat
       ELSE /\ mFrameRepeatBlockedOnCodecBuffer' = blockedAfter
            /\ UNCHANGED <<mLatestBuffer, mRepeatLastFrameGeneration, posted>>

(* repeatLatestBuffer_l returns false. *)
RepeatLatestBufferFails(blockedAfter) ==
    /\ \/ ~CanRepeat /\ UNCHANGED <<mPrevFrameUs, codecVars>>
       \/ CanRepeat /\ SubmitBufferFails(mLatestBuffer)
    /\ mFrameRepeatBlockedOnCodecBuffer' = blockedAfter
    /\ UNCHANGED <<mLatestBuffer, mRepeatLastFrameGeneration,
                   mOutstandingFrameRepeatCount, posted>>

-----------------------------------------------------------------------------
(* fillCodecBuffer_l: one frame is taken and handled.  It runs for the      *)
(* frame callback ("frame"), for an emptied codec buffer ("emptied") and in *)
(* the loop of start ("start"); false ends that loop ("filled").            *)

Filling ==
    /\ mMutex \in {"frame", "start"} \/ (mMutex = "emptied" /\ ~mEndOfStreamSent)
    /\ HaveAvailableBuffers

(* Mutant of FillReturns: start submits just the first buffer. *)
FillReturnsOnce(result) == mMutex' = IF mMutex # "start" THEN "free" ELSE "filled"

FillReturns(result) ==
    mMutex' = IF mMutex # "start" THEN "free" ELSE IF result THEN "start" ELSE "filled"

HasItem ==
    /\ mFreeCodecBuffers # <<>>
    /\ mAvailableBuffers # <<>> \/ (queued # <<>> /\ MayAcquire(Held))

Item == Head(IF mAvailableBuffers # <<>> THEN mAvailableBuffers ELSE queued)

\* What is left of the three places after Item is taken.
AvailableAfterItem  == IF mAvailableBuffers # <<>> THEN Tail(mAvailableBuffers) ELSE <<>>
QueuedAfterItem     == IF mAvailableBuffers # <<>> THEN queued ELSE Tail(queued)
UnacquiredAfterItem ==
    mNumAvailableUnacquiredBuffers - (IF mAvailableBuffers # <<>> THEN 0 ELSE 1)

TakeItem ==
    /\ mAvailableBuffers' = AvailableAfterItem
    /\ queued' = QueuedAfterItem
    /\ mNumAvailableUnacquiredBuffers' = UnacquiredAfterItem
    /\ UNCHANGED <<undelivered, produced>>

(* Mutant of ReleaseAllAvailableBuffers: the count is cleared and the       *)
(* frames stay in the BufferQueue.                                          *)
ClearAvailableCount(held, rest, count) ==
    /\ mAvailableBuffers' = <<>>
    /\ queued' = rest
    /\ mNumAvailableUnacquiredBuffers' = 0
    /\ UNCHANGED <<undelivered, produced>>

(* releaseAllAvailableBuffers_l, while the frames in held stay acquired:    *)
(* each signalled frame is acquired and released at once, if one can be.    *)
ReleaseAllAvailableBuffers(held, rest, count) ==
    LET drained == IF MayAcquire(held) THEN count ELSE 0 IN
    /\ mAvailableBuffers' = <<>>
    /\ queued' = SubSeq(rest, drained + 1, Len(rest))
    /\ mNumAvailableUnacquiredBuffers' = count - drained
    /\ UNCHANGED <<undelivered, produced>>

(* Mutant of NewestDue: the first action that is due is taken. *)
FirstDue(n, t) == n = 1 /\ mActionQueue[n].time <= t

(* The scan of mActionQueue ends at entry n: the newest entry not after t,  *)
(* or the first STOP.                                                       *)
NewestDue(n, t) ==
    /\ \A k \in 1..n : mActionQueue[k].time <= t
    /\ \A k \in 1..(n - 1) : mActionQueue[k].action # "STOP"
    /\ n < Len(mActionQueue) /\ mActionQueue[n].action # "STOP" =>
           mActionQueue[n + 1].time > t

NoneDue(t) == mActionQueue # <<>> => t < Head(mActionQueue).time

(* PAUSE and RESUME: the entries up to the newest due one are consumed. *)
ProcessActions(t) ==
    /\ \/ NoneDue(t) /\ UNCHANGED <<mActionQueue, mSuspended>>
       \/ \E n \in DOMAIN mActionQueue :
            /\ NewestDue(n, t)
            /\ mActionQueue[n].action # "STOP"
            /\ mSuspended' = (mActionQueue[n].action = "PAUSE")
            /\ mActionQueue' = SubSeq(mActionQueue, n + 1, Len(mActionQueue))
    /\ UNCHANGED <<mLastActionTimeUs, mStopTimeUs, accepted>>

(* There is no codec buffer for the frame, or it cannot be acquired. *)
FillBails ==
    /\ Filling /\ ~HasItem
    /\ FillReturns(FALSE)
    /\ UNCHANGED <<bqVars, lifeVars, eosVars, frameVars, codecVars, controlVars,
                   repeatVars, looperVars, timeVars>>

(* A STOP is due: everything available is released and the stream ends.     *)
(* The frame itself is still referred to while that happens.                *)
FillStops ==
    /\ Filling /\ HasItem
    /\ \E n \in DOMAIN mActionQueue :
         NewestDue(n, Item.ts) /\ mActionQueue[n].action = "STOP"
    /\ mActionQueue' = <<>>
    /\ ReleaseAllAvailableBuffers(InCodec \cup InLatest \cup {Item.buf},
                                  QueuedAfterItem, UnacquiredAfterItem)
    /\ mEndOfStream' = TRUE
    /\ SubmitEndOfInputStream
    /\ FillReturns(TRUE)
    /\ UNCHANGED <<lifeVars, mSuspended, mLastActionTimeUs, mStopTimeUs, accepted,
                   mFrameRepeatIntervalUs, mOutstandingFrameRepeatCount,
                   mFrameRepeatBlockedOnCodecBuffer, looperVars, timeVars>>

(* The frame is dropped: the source is suspended, or has not started yet. *)
FillDiscards ==
    /\ Filling /\ HasItem
    /\ ProcessActions(Item.ts)
    /\ mSuspended' \/ Item.ts < mSkipFramesBeforeUs
    /\ TakeItem
    /\ FillReturns(TRUE)
    /\ UNCHANGED <<lifeVars, eosVars, codecVars, repeatVars, looperVars, timeVars>>

(* The frame as it is encoded: relative to the start time, if one is set. *)
Shifted(item) ==
    IF mSkipFramesBeforeUs > 0 THEN [item EXCEPT !.ts = @ - mSkipFramesBeforeUs] ELSE item

Encodable ==
    /\ Filling /\ HasItem
    /\ ProcessActions(Item.ts)
    /\ ~mSuspended' /\ Item.ts >= mSkipFramesBeforeUs
    /\ TakeItem
    /\ FillReturns(TRUE)
    /\ UNCHANGED <<lifeVars, eosVars, mFrameRepeatIntervalUs, mLooper, handling,
                   mSkipFramesBeforeUs>>

RateLimited(ts) == Drops(mFrameDropper.desired, mFrameDropper.interval, ts)

PassRateLimit(ts) ==
    /\ ~RateLimited(ts)
    /\ mFrameDropper' = [mFrameDropper EXCEPT !.desired =
                             DesiredAfter(@, mFrameDropper.interval, ts)]

(* The frame was handled and may be repeated. *)
Remember(item) ==
    /\ mLastFrameTimestampUs' = item.ts
    /\ IF mFrameRepeatIntervalUs > 0
       THEN SetLatestBuffer(Shifted(item))
       ELSE UNCHANGED <<mLatestBuffer, mRepeatLastFrameGeneration, posted,
                        mOutstandingFrameRepeatCount, mFrameRepeatBlockedOnCodecBuffer>>

(* The frame rate limit drops the frame, but it is the latest all the same. *)
FillSkips ==
    /\ Encodable
    /\ RateLimited(Shifted(Item).ts)
    /\ Remember(Item)
    /\ UNCHANGED <<codecVars, mPrevFrameUs, mFrameDropper>>

(* The frame is submitted to the component. *)
FillSubmits ==
    /\ Encodable
    /\ PassRateLimit(Shifted(Item).ts)
    /\ SubmitBuffer(Shifted(Item))
    /\ Remember(Item)

(* The frame could not be submitted and is dropped. *)
FillFails ==
    /\ Encodable
    /\ PassRateLimit(Shifted(Item).ts)
    /\ SubmitBufferFails(Shifted(Item))
    /\ UNCHANGED <<mLastFrameTimestampUs, mLatestBuffer, mRepeatLastFrameGeneration,
                   mOutstandingFrameRepeatCount, mFrameRepeatBlockedOnCodecBuffer, posted>>

FillCodecBuffer ==
    \/ FillBails \/ FillStops \/ FillDiscards \/ FillSkips \/ FillSubmits \/ FillFails

-----------------------------------------------------------------------------
(* The producer and its callback. *)

(* The producer queues a frame; its onFrameAvailable comes later. *)
QueueBuffer ==
    /\ produced < MaxFrames
    /\ Len(queued) + Cardinality(Held) < MaxAcquired + MaxDequeued
    /\ \E t \in FrameTimes[produced + 1] :
         queued' = Append(queued, [buf |-> produced + 1, ts |-> t])
    /\ produced' = produced + 1
    /\ undelivered' = undelivered + 1
    /\ UNCHANGED <<lifeVars, mMutex, eosVars, frameVars, codecVars, controlVars,
                   repeatVars, looperVars, timeVars>>

(* areWeDiscardingAvailableBuffers_l *)
DiscardingAvailableBuffers ==
    \/ mEndOfStreamSent
    \/ ~mComponent
    \/ mSuspended /\ mActionQueue = <<>>
    \/ ~mExecuting

(* The condition under which onFrameAvailable leaves the frame for later. *)
MustDefer == ~DiscardingAvailableBuffers /\ mFreeCodecBuffers = <<>>

(* onBufferAcquired_l ignores the frame. *)
Ignores == mEndOfStreamSent \/ ~mComponent \/ (mSuspended /\ mActionQueue = <<>>)

CallbackBegins ==
    /\ mMutex = "free"
    /\ undelivered > 0
    /\ undelivered' = undelivered - 1
    /\ UNCHANGED <<produced, lifeVars, eosVars, codecVars, controlVars, mLatestBuffer,
                   mFrameRepeatIntervalUs, mOutstandingFrameRepeatCount,
                   mFrameRepeatBlockedOnCodecBuffer, looperVars, timeVars>>

(* No codec buffer is free: the frame is counted, and a pending repeat is   *)
(* cancelled.                                                               *)
FrameDeferred ==
    /\ CallbackBegins
    /\ MustDefer
    /\ mNumAvailableUnacquiredBuffers' = mNumAvailableUnacquiredBuffers + 1
    /\ mRepeatLastFrameGeneration' = mRepeatLastFrameGeneration + 1
    /\ UNCHANGED <<queued, mAvailableBuffers, mMutex>>

(* The BufferQueue allows no further acquire: the frame is counted. *)
FrameNotAcquired ==
    /\ CallbackBegins
    /\ ~MustDefer /\ ~MayAcquire(Held)
    /\ mNumAvailableUnacquiredBuffers' = mNumAvailableUnacquiredBuffers + 1
    /\ UNCHANGED <<queued, mAvailableBuffers, mRepeatLastFrameGeneration, mMutex>>

(* A frame is acquired, and released by returning. *)
FrameIgnored ==
    /\ CallbackBegins
    /\ ~MustDefer /\ MayAcquire(Held) /\ Ignores
    /\ queued' = Tail(queued)
    /\ UNCHANGED <<frameVars, mRepeatLastFrameGeneration, mMutex>>

(* A frame is acquired and, once executing, handled at once. *)
FrameAcquired ==
    /\ CallbackBegins
    /\ ~MustDefer /\ MayAcquire(Held) /\ ~Ignores
    /\ queued' = Tail(queued)
    /\ mAvailableBuffers' = Append(mAvailableBuffers, Head(queued))
    /\ mRepeatLastFrameGeneration' = mRepeatLastFrameGeneration + 1
    /\ mMutex' = IF mExecuting THEN "frame" ELSE "free"
    /\ UNCHANGED mNumAvailableUnacquiredBuffers

OnFrameAvailable == FrameDeferred \/ FrameNotAcquired \/ FrameIgnored \/ FrameAcquired

-----------------------------------------------------------------------------
(* The codec's callback. *)

(* Mutant of OnInputBufferEmptied: it returns before the buffer is freed    *)
(* when it is no longer executing.                                          *)
OnInputBufferEmptiedWhileExecuting(id) ==
    /\ mMutex = "free"
    /\ mSubmittedCodecBuffers[id] # NotSubmitted
    /\ mSubmittedCodecBuffers' = [mSubmittedCodecBuffers EXCEPT ![id] = NotSubmitted]
    /\ mFreeCodecBuffers' =
           IF mExecuting THEN Append(mFreeCodecBuffers, id) ELSE mFreeCodecBuffers
    /\ mMutex' = IF mSubmittedCodecBuffers[id] # Null /\ mExecuting THEN "emptied" ELSE "free"
    /\ UNCHANGED <<bqVars, lifeVars, eosVars, frameVars, encoded, controlVars,
                   repeatVars, looperVars, timeVars>>

(* onInputBufferEmptied: the codec buffer is free again and its frame       *)
(* reference is dropped.  For the EOS buffer, and when no longer executing, *)
(* that is all.  (A buffer the component does not hold, as one of a session *)
(* that was released, is refused before anything changes.)                  *)
OnInputBufferEmptied(id) ==
    /\ mMutex = "free"
    /\ mSubmittedCodecBuffers[id] # NotSubmitted
    /\ mSubmittedCodecBuffers' = [mSubmittedCodecBuffers EXCEPT ![id] = NotSubmitted]
    /\ mFreeCodecBuffers' = Append(mFreeCodecBuffers, id)
    /\ mMutex' = IF mSubmittedCodecBuffers[id] # Null /\ mExecuting THEN "emptied" ELSE "free"
    /\ UNCHANGED <<bqVars, lifeVars, eosVars, frameVars, encoded, controlVars,
                   repeatVars, looperVars, timeVars>>

(* CHECK(!mEndOfStreamSent) fails and the process aborts. *)
EmptiedAborts ==
    /\ mMutex = "emptied"
    /\ HaveAvailableBuffers /\ mEndOfStreamSent
    /\ mMutex' = "aborted"
    /\ UNCHANGED <<bqVars, lifeVars, eosVars, frameVars, codecVars, controlVars,
                   repeatVars, looperVars, timeVars>>

EmptiedWithoutFrames ==
    /\ mMutex = "emptied"
    /\ ~HaveAvailableBuffers
    /\ mMutex' = "free"
    /\ UNCHANGED <<bqVars, lifeVars, mEndOfStream, frameVars, controlVars,
                   mFrameRepeatIntervalUs, mLooper, handling,
                   mLastFrameTimestampUs, mSkipFramesBeforeUs, mFrameDropper>>

EosPending == mEndOfStream /\ mStopTimeUs = -1

(* No frame is left: the buffer takes the pending EOS ... *)
EmptiedSendsEos ==
    /\ EmptiedWithoutFrames
    /\ EosPending
    /\ SubmitEndOfInputStream
    /\ UNCHANGED <<mOutstandingFrameRepeatCount, mFrameRepeatBlockedOnCodecBuffer,
                   posted, mPrevFrameUs>>

(* ... or the repeat that was waiting for it. *)
EmptiedRepeats ==
    /\ EmptiedWithoutFrames
    /\ ~EosPending
    /\ UNCHANGED mEndOfStreamSent
    /\ \/ /\ mFrameRepeatBlockedOnCodecBuffer
          /\ RepeatLatestBuffer(FALSE) \/ RepeatLatestBufferFails(FALSE)
       \/ /\ ~mFrameRepeatBlockedOnCodecBuffer
          /\ UNCHANGED <<codecVars, mLatestBuffer, mRepeatLastFrameGeneration,
                         mOutstandingFrameRepeatCount, mFrameRepeatBlockedOnCodecBuffer,
                         posted, mPrevFrameUs>>

-----------------------------------------------------------------------------
(* The client: lifecycle. *)

ClientCall == mMutex = "free" /\ phase \in {"loaded", "executing", "idle"}

(* configure, on a component that was just created.  The BufferQueue        *)
(* refuses the acquire limit while more buffers than that are acquired.     *)
(* mAvailableBuffers, mNumAvailableUnacquiredBuffers, mLastActionTimeUs and *)
(* mLastFrameTimestampUs are not reset.  (When the BufferQueue refuses the  *)
(* size or the format the rest is not done, and the client, which is told,  *)
(* does not use this component: such a configure is left out.)              *)
Configure ==
    /\ mMutex = "free" /\ phase = "unbound"
    /\ session < MaxSessions
    /\ Cardinality(Held) <= MaxAcquired
    /\ phase' = "loaded" /\ session' = session + 1
    /\ mComponent' = TRUE /\ mExecuting' = FALSE
    /\ mSuspended' = FALSE /\ mActionQueue' = <<>> /\ mStopTimeUs' = -1
    /\ mEndOfStream' = FALSE /\ mEndOfStreamSent' = FALSE
    /\ mSkipFramesBeforeUs' = -1 /\ mFrameDropper' = NoDropper /\ mPrevFrameUs' = -1
    /\ mFrameRepeatIntervalUs' = -1 /\ mRepeatLastFrameGeneration' = 0
    /\ mOutstandingFrameRepeatCount' = 0 /\ mFrameRepeatBlockedOnCodecBuffer' = FALSE
    /\ mLatestBuffer' = NoBuffer
    /\ encoded' = <<>> /\ accepted' = <<>>
    /\ UNCHANGED <<bqVars, mMutex, frameVars, mFreeCodecBuffers, mSubmittedCodecBuffers,
                   mLastActionTimeUs, looperVars, mLastFrameTimestampUs>>

(* onInputBufferAdded: the component allocates its input buffers between    *)
(* loaded and idle; while executing the call is refused.                    *)
OnInputBufferAdded(id) ==
    /\ mMutex = "free" /\ phase = "loaded"
    /\ id \notin {mFreeCodecBuffers[i] : i \in DOMAIN mFreeCodecBuffers}
    /\ mFreeCodecBuffers' = Append(mFreeCodecBuffers, id)
    /\ UNCHANGED <<bqVars, lifeVars, mMutex, eosVars, frameVars, mSubmittedCodecBuffers,
                   encoded, controlVars, repeatVars, looperVars, timeVars>>

(* start, called when the component reached executing, with all its input   *)
(* buffers on this side.  The frames available are handled one after the    *)
(* other (FillCodecBuffer) before it goes on.                               *)
Start ==
    /\ mMutex = "free" /\ phase \in {"loaded", "idle"}
    /\ Len(mFreeCodecBuffers) = Cardinality(CodecBuffers)
    /\ phase' = "executing" /\ mExecuting' = TRUE
    /\ mMutex' = "start"
    /\ UNCHANGED <<bqVars, session, mComponent, eosVars, frameVars, codecVars,
                   controlVars, repeatVars, looperVars, timeVars>>

(* The loop has ended: an EOS that is pending with no frames before it. *)
StartSendsEos ==
    /\ mMutex = "filled" \/ (mMutex = "start" /\ ~HaveAvailableBuffers)
    /\ IF EosPending /\ ~HaveAvailableBuffers
       THEN SubmitEndOfInputStream
       ELSE UNCHANGED <<codecVars, mEndOfStreamSent, mRepeatLastFrameGeneration,
                        mLatestBuffer>>
    /\ mMutex' = "looper"
    /\ UNCHANGED <<bqVars, lifeVars, mEndOfStream, frameVars, controlVars,
                   mFrameRepeatIntervalUs, mOutstandingFrameRepeatCount,
                   mFrameRepeatBlockedOnCodecBuffer, looperVars, timeVars>>

(* The looper is created when repeating is configured; the message for a    *)
(* frame that was handled in the loop could not be posted until now.        *)
StartLooper ==
    /\ mMutex = "looper"
    /\ mMutex' = "free"
    /\ IF mFrameRepeatIntervalUs > 0 /\ ~mLooper
       THEN /\ mLooper' = TRUE
            /\ IF mLatestBuffer.buf # Null
               THEN /\ mFrameRepeatBlockedOnCodecBuffer' = FALSE
                    /\ mRepeatLastFrameGeneration' = mRepeatLastFrameGeneration + 1
                    /\ posted' = Append(posted, mRepeatLastFrameGeneration + 1)
               ELSE UNCHANGED <<mFrameRepeatBlockedOnCodecBuffer,
                                mRepeatLastFrameGeneration, posted>>
       ELSE UNCHANGED <<mLooper, posted, mFrameRepeatBlockedOnCodecBuffer,
                        mRepeatLastFrameGeneration>>
    /\ UNCHANGED <<bqVars, lifeVars, eosVars, frameVars, codecVars, controlVars,
                   mLatestBuffer, mFrameRepeatIntervalUs, mOutstandingFrameRepeatCount,
                   handling, timeVars>>

(* stop, called when the component leaves executing. *)
Stop ==
    /\ mMutex = "free" /\ phase = "executing"
    /\ phase' = "idle" /\ mExecuting' = FALSE
    /\ UNCHANGED <<bqVars, session, mComponent, mMutex, eosVars, frameVars, codecVars,
                   controlVars, repeatVars, looperVars, timeVars>>

(* Mutant of Release: mMutex is still held while looper->stop() waits. *)
ReleaseHoldingMutex ==
    /\ mMutex = "free" /\ phase \in {"loaded", "idle"}
    /\ phase' = "releasing"
    /\ mMutex' = "release"
    /\ mLooper' = FALSE /\ posted' = <<>>
    /\ mFreeCodecBuffers' = <<>>
    /\ mSubmittedCodecBuffers' = [id \in CodecBuffers |-> NotSubmitted]
    /\ mLatestBuffer' = NoBuffer
    /\ mComponent' = FALSE /\ mExecuting' = FALSE
    /\ UNCHANGED <<bqVars, session, eosVars, frameVars, encoded, controlVars,
                   mFrameRepeatIntervalUs, mRepeatLastFrameGeneration,
                   mOutstandingFrameRepeatCount, mFrameRepeatBlockedOnCodecBuffer,
                   handling, timeVars>>

(* release, its part under mMutex: the looper takes no further message, and *)
(* the codec's and the latest buffers are given up.                         *)
Release ==
    /\ mMutex = "free" /\ phase \in {"loaded", "idle"}
    /\ phase' = "releasing"
    /\ mLooper' = FALSE /\ posted' = <<>>
    /\ mFreeCodecBuffers' = <<>>
    /\ mSubmittedCodecBuffers' = [id \in CodecBuffers |-> NotSubmitted]
    /\ mLatestBuffer' = NoBuffer
    /\ mComponent' = FALSE /\ mExecuting' = FALSE
    /\ UNCHANGED <<bqVars, session, mMutex, eosVars, frameVars, encoded, controlVars,
                   mFrameRepeatIntervalUs, mRepeatLastFrameGeneration,
                   mOutstandingFrameRepeatCount, mFrameRepeatBlockedOnCodecBuffer,
                   handling, timeVars>>

(* Mutant of ReleaseReturns: the looper's thread is not waited for. *)
ReleaseReturnsAtOnce ==
    /\ phase = "releasing"
    /\ phase' = "unbound"
    /\ UNCHANGED <<bqVars, session, mComponent, mExecuting, mMutex, eosVars, frameVars,
                   codecVars, controlVars, repeatVars, looperVars, timeVars>>

(* release, after mMutex: looper->stop() waits for the message its thread   *)
(* is delivering.                                                           *)
ReleaseReturns ==
    /\ phase = "releasing"
    /\ handling = 0
    /\ phase' = "unbound"
    /\ UNCHANGED <<bqVars, session, mComponent, mExecuting, mMutex, eosVars, frameVars,
                   codecVars, controlVars, repeatVars, looperVars, timeVars>>

-----------------------------------------------------------------------------
(* The client: control. *)

ControlCall ==
    /\ ClientCall
    /\ UNCHANGED <<lifeVars, mMutex, eosVars, mFrameRepeatIntervalUs, mLooper, handling,
                   mLastFrameTimestampUs, mSkipFramesBeforeUs, mFrameDropper>>

Accept(action, t) ==
    /\ Len(accepted) < MaxActions
    /\ accepted' = Append(accepted, [action |-> action, time |-> t])

(* Mutant of ActionAccepted: an action may lie before an earlier one. *)
AnyActionAccepted(t) == TRUE

ActionAccepted(t) == mLastActionTimeUs = -1 \/ t >= mLastActionTimeUs

(* setSuspend and setStopTimeUs with a time: the action is queued, unless   *)
(* a stop time is set or the time lies before that of an earlier action.    *)
(* (The comparison with the clock only refuses times in the future.  The    *)
(* time of a stop is one of the clock: setStopTimeUs(-1), which would queue *)
(* a STOP and leave no stop time set, is not a call a client makes.)        *)
QueueAction(action, t) ==
    /\ ControlCall
    /\ t >= 0
    /\ mStopTimeUs = -1
    /\ ActionAccepted(t)
    /\ Accept(action, t)
    /\ mLastActionTimeUs' = t
    /\ mActionQueue' = Append(mActionQueue, [action |-> action, time |-> t])
    /\ mStopTimeUs' = IF action = "STOP" THEN t ELSE mStopTimeUs
    /\ UNCHANGED <<bqVars, frameVars, codecVars, mSuspended, mLatestBuffer,
                   mRepeatLastFrameGeneration, mOutstandingFrameRepeatCount,
                   mFrameRepeatBlockedOnCodecBuffer, posted, mPrevFrameUs>>

(* setSuspend(true, -1): at once, and everything available is released. *)
SuspendNow ==
    /\ ControlCall
    /\ -1 \in ActionTimes /\ mStopTimeUs = -1
    /\ Accept("PAUSE", -1)
    /\ mSuspended' = TRUE
    /\ ReleaseAllAvailableBuffers(InCodec \cup InLatest, queued,
                                  mNumAvailableUnacquiredBuffers)
    /\ UNCHANGED <<codecVars, mActionQueue, mLastActionTimeUs, mStopTimeUs, mLatestBuffer,
                   mRepeatLastFrameGeneration, mOutstandingFrameRepeatCount,
                   mFrameRepeatBlockedOnCodecBuffer, posted, mPrevFrameUs>>

(* setSuspend(false, -1): at once; a repeat that was blocked is made up for. *)
ResumeNow ==
    /\ ControlCall
    /\ -1 \in ActionTimes /\ mStopTimeUs = -1
    /\ Accept("RESUME", -1)
    /\ mSuspended' = FALSE
    /\ \/ /\ mExecuting /\ ~HaveAvailableBuffers /\ mFrameRepeatBlockedOnCodecBuffer
          /\ RepeatLatestBuffer(FALSE) \/ RepeatLatestBufferFails(TRUE)
       \/ /\ ~(mExecuting /\ ~HaveAvailableBuffers /\ mFrameRepeatBlockedOnCodecBuffer)
          /\ UNCHANGED <<codecVars, mLatestBuffer, mRepeatLastFrameGeneration,
                         mOutstandingFrameRepeatCount, mFrameRepeatBlockedOnCodecBuffer,
                         posted, mPrevFrameUs>>
    /\ UNCHANGED <<bqVars, frameVars, mActionQueue, mLastActionTimeUs, mStopTimeUs>>

(* Mutant of SignalEndOfInputStream: the stream's end is left to others. *)
OnlyNoteEndOfInputStream ==
    /\ ClientCall
    /\ ~mEndOfStream
    /\ mEndOfStream' = TRUE
    /\ UNCHANGED <<bqVars, lifeVars, mMutex, mEndOfStreamSent, frameVars, codecVars,
                   controlVars, repeatVars, looperVars, timeVars>>

(* signalEndOfInputStream: with nothing pending the EOS goes out from here. *)
SignalEndOfInputStream ==
    /\ ClientCall
    /\ ~mEndOfStream
    /\ mEndOfStream' = TRUE
    /\ IF mStopTimeUs = -1 /\ mExecuting /\ ~HaveAvailableBuffers
       THEN SubmitEndOfInputStream
       ELSE UNCHANGED <<codecVars, mEndOfStreamSent, mRepeatLastFrameGeneration,
                        mLatestBuffer>>
    /\ UNCHANGED <<bqVars, lifeVars, mMutex, frameVars, controlVars,
                   mFrameRepeatIntervalUs, mOutstandingFrameRepeatCount,
                   mFrameRepeatBlockedOnCodecBuffer, looperVars, timeVars>>

(* setRepeatPreviousFrameDelayUs, setMaxFps: refused while executing.       *)
(* setMaxFps replaces the dropper; rate 0 leaves none.                      *)
Setter ==
    /\ ClientCall
    /\ UNCHANGED <<bqVars, lifeVars, mMutex, eosVars, frameVars, codecVars, controlVars,
                   mLatestBuffer, mRepeatLastFrameGeneration, mOutstandingFrameRepeatCount,
                   mFrameRepeatBlockedOnCodecBuffer, looperVars, mPrevFrameUs,
                   mLastFrameTimestampUs>>

SetRepeatPreviousFrameDelayUs(delay) ==
    /\ Setter /\ ~mExecuting
    /\ mFrameRepeatIntervalUs' = delay
    /\ UNCHANGED <<mSkipFramesBeforeUs, mFrameDropper>>

SetMaxFps(rate) ==
    /\ Setter /\ ~mExecuting
    /\ mFrameDropper' = IF rate = 0 THEN NoDropper
                        ELSE [interval |-> IntervalOf(rate), desired |-> -1]
    /\ UNCHANGED <<mFrameRepeatIntervalUs, mSkipFramesBeforeUs>>

SetStartTimeUs(t) ==
    /\ Setter
    /\ mSkipFramesBeforeUs' = IF t > 0 THEN t ELSE -1
    /\ UNCHANGED <<mFrameRepeatIntervalUs, mFrameDropper>>

-----------------------------------------------------------------------------
(* The looper's thread. *)

(* A message is taken from the queue when its delay is over, and its        *)
(* delivery begins by waiting for mMutex.                                   *)
TakeMessage ==
    /\ mLooper /\ posted # <<>> /\ handling = 0
    /\ handling' = Head(posted)
    /\ posted' = Tail(posted)
    /\ UNCHANGED <<bqVars, lifeVars, mMutex, eosVars, frameVars, codecVars, controlVars,
                   repeatVars, mLooper, timeVars>>

(* onMessageReceived(kWhatRepeatLastFrame) *)
OnMessageReceived ==
    /\ mMutex = "free"
    /\ handling # 0
    /\ handling' = 0
    /\ UNCHANGED <<bqVars, lifeVars, mMutex, eosVars, frameVars, controlVars,
                   mFrameRepeatIntervalUs, mLooper, mLastFrameTimestampUs,
                   mSkipFramesBeforeUs, mFrameDropper>>

MessageIsCurrent == handling = mRepeatLastFrameGeneration

MessageRepeats ==
    /\ OnMessageReceived
    /\ MessageIsCurrent /\ mExecuting /\ ~HaveAvailableBuffers
    /\ \/ RepeatLatestBuffer(mFrameRepeatBlockedOnCodecBuffer)
       \/ RepeatLatestBufferFails(TRUE)

MessageIgnored ==
    /\ OnMessageReceived
    /\ ~(MessageIsCurrent /\ mExecuting /\ ~HaveAvailableBuffers)
    /\ UNCHANGED <<codecVars, mLatestBuffer, mRepeatLastFrameGeneration,
                   mOutstandingFrameRepeatCount, mFrameRepeatBlockedOnCodecBuffer,
                   posted, mPrevFrameUs>>

-----------------------------------------------------------------------------
Init ==
    /\ queued = <<>> /\ undelivered = 0 /\ produced = 0
    /\ phase = "unbound" /\ session = 0 /\ mMutex = "free"
    /\ mComponent = FALSE /\ mExecuting = FALSE
    /\ mEndOfStream = FALSE /\ mEndOfStreamSent = FALSE
    /\ mAvailableBuffers = <<>> /\ mNumAvailableUnacquiredBuffers = 0
    /\ mFreeCodecBuffers = <<>>
    /\ mSubmittedCodecBuffers = [id \in CodecBuffers |-> NotSubmitted]
    /\ encoded = <<>>
    /\ mSuspended = FALSE /\ mActionQueue = <<>>
    /\ mLastActionTimeUs = -1 /\ mStopTimeUs = -1 /\ accepted = <<>>
    /\ mLatestBuffer = NoBuffer /\ mFrameRepeatIntervalUs = -1
    /\ mRepeatLastFrameGeneration = 0 /\ mOutstandingFrameRepeatCount = 0
    /\ mFrameRepeatBlockedOnCodecBuffer = FALSE
    /\ mLooper = FALSE /\ posted = <<>> /\ handling = 0
    /\ mPrevFrameUs = -1 /\ mLastFrameTimestampUs = -1
    /\ mSkipFramesBeforeUs = -1 /\ mFrameDropper = NoDropper

(* The steps that finish an operation under way. *)
Continue ==
    \/ FillCodecBuffer
    \/ EmptiedAborts \/ EmptiedSendsEos \/ EmptiedRepeats
    \/ StartSendsEos \/ StartLooper

Lifecycle ==
    \/ Configure
    \/ \E id \in CodecBuffers : OnInputBufferAdded(id)
    \/ Start \/ Stop \/ Release \/ ReleaseReturns

Control ==
    \/ \E t \in ActionTimes, action \in {"PAUSE", "RESUME", "STOP"} : QueueAction(action, t)
    \/ SuspendNow \/ ResumeNow
    \/ SignalEndOfInputStream
    \/ \E delay \in RepeatDelays : SetRepeatPreviousFrameDelayUs(delay)
    \/ \E rate \in MaxFpsArgs : SetMaxFps(rate)
    \/ \E t \in StartTimes : SetStartTimeUs(t)

Callbacks ==
    \/ OnFrameAvailable
    \/ \E id \in CodecBuffers : OnInputBufferEmptied(id)
    \/ MessageRepeats \/ MessageIgnored

Next == QueueBuffer \/ TakeMessage \/ Callbacks \/ Continue \/ Lifecycle \/ Control

Spec == Init /\ [][Next]_vars

(* Callbacks that are due are made, the codec returns every buffer it is    *)
(* given, a thread that waits for mMutex gets it, and an operation that     *)
(* holds it goes on.  The producer and the client may stop at any time.     *)
Fairness ==
    /\ WF_vars(OnFrameAvailable)
    /\ \A id \in CodecBuffers : WF_vars(OnInputBufferEmptied(id))
    /\ WF_vars(Continue)
    /\ WF_vars(TakeMessage)
    /\ WF_vars(MessageRepeats \/ MessageIgnored)
    /\ WF_vars(ReleaseReturns)

FairSpec == Spec /\ Fairness

-----------------------------------------------------------------------------
(* Properties. *)

VideoBuffers == [buf : 1..MaxFrames, ts : Int]
Actions      == [action : {"PAUSE", "RESUME", "STOP"}, time : Nat \cup {-1}]
FreeSet      == {mFreeCodecBuffers[i] : i \in DOMAIN mFreeCodecBuffers}

(* The variables keep their types; in particular the counters of signalled  *)
(* frames and of outstanding repeats never become negative.                 *)
QueueTypeOK ==
    /\ queued \in Seq(VideoBuffers) /\ undelivered \in Nat /\ produced \in 0..MaxFrames
    /\ mAvailableBuffers \in Seq(VideoBuffers)
    /\ mNumAvailableUnacquiredBuffers \in Nat

LifeTypeOK ==
    /\ phase \in {"unbound", "loaded", "executing", "idle", "releasing"}
    /\ session \in 0..MaxSessions
    /\ mMutex \in {"free", "frame", "emptied", "start", "filled", "looper", "aborted"}
    /\ mComponent \in BOOLEAN /\ mExecuting \in BOOLEAN
    /\ mEndOfStream \in BOOLEAN /\ mEndOfStreamSent \in BOOLEAN

CodecTypeOK ==
    /\ mFreeCodecBuffers \in Seq(CodecBuffers)
    /\ mSubmittedCodecBuffers \in [CodecBuffers -> 1..MaxFrames \cup {Null, NotSubmitted}]
    /\ encoded \in Seq(VideoBuffers \cup {Eos})

ControlTypeOK ==
    /\ mSuspended \in BOOLEAN
    /\ mActionQueue \in Seq(Actions) /\ accepted \in Seq(Actions)
    /\ mLastActionTimeUs \in Nat \cup {-1} /\ mStopTimeUs \in Nat \cup {-1}

RepeatTypeOK ==
    /\ mLatestBuffer \in VideoBuffers \cup {NoBuffer}
    /\ mFrameRepeatIntervalUs \in Nat \cup {-1}
    /\ mRepeatLastFrameGeneration \in Nat
    /\ mOutstandingFrameRepeatCount \in 0..kRepeatLastFrameCount
    /\ mFrameRepeatBlockedOnCodecBuffer \in BOOLEAN
    /\ mLooper \in BOOLEAN /\ posted \in Seq(Nat) /\ handling \in Nat

TimeTypeOK ==
    /\ mPrevFrameUs \in Int /\ mLastFrameTimestampUs \in Int
    /\ mSkipFramesBeforeUs \in Nat \cup {-1}
    /\ mFrameDropper \in [interval : Nat \cup {-1}, desired : Int]

TypeOK ==
    /\ QueueTypeOK /\ LifeTypeOK /\ CodecTypeOK
    /\ ControlTypeOK /\ RepeatTypeOK /\ TimeTypeOK

(* Every frame the producer queued is either counted as unacquired or about *)
(* to be announced: acquireBuffer_l never finds the queue empty ("shouldn't *)
(* happen"), and no frame is left behind uncounted.                         *)
QueueAccounted == Len(queued) = mNumAvailableUnacquiredBuffers + undelivered

(* A codec buffer is either free, once, or submitted: it is never handed to *)
(* the component twice, and while the component runs none is lost.          *)
CodecBuffersConserved ==
    /\ \A i, j \in DOMAIN mFreeCodecBuffers :
         mFreeCodecBuffers[i] = mFreeCodecBuffers[j] => i = j
    /\ \A id \in FreeSet : mSubmittedCodecBuffers[id] = NotSubmitted
    /\ phase \in {"executing", "idle"} =>
         \A id \in CodecBuffers :
            mSubmittedCodecBuffers[id] = NotSubmitted => id \in FreeSet

(* The end of stream is the last thing the component is given in a session, *)
(* and mEndOfStreamSent says exactly whether it was given.                  *)
EosIsLast ==
    /\ \A i \in DOMAIN encoded : encoded[i] = Eos => i = Len(encoded)
    /\ mEndOfStreamSent <=> (encoded # <<>> /\ encoded[Len(encoded)] = Eos)

(* Frames reach the component in the order they were queued, a repeat only  *)
(* ever repeats the newest, and encoding time strictly advances unless the  *)
(* client disabled frame dropping.                                          *)
Newest(stream) == stream[Len(stream)]

FrameSubmitted == encoded' # encoded /\ encoded' # <<>> /\ Newest(encoded') # Eos

StreamInOrder ==
    [][FrameSubmitted /\ encoded # <<>> =>
          /\ Newest(encoded').buf >= Newest(encoded).buf
          /\ mFrameDropper.interval # -1 => Newest(encoded').ts > Newest(encoded).ts]_vars

(* Only one repeat is ever in the air: at most one message is current, none *)
(* is while a repeat waits for a codec buffer, and a current message finds  *)
(* a latest buffer with repeats left.                                       *)
CurrentMessages ==
    {i \in DOMAIN posted : posted[i] = mRepeatLastFrameGeneration}
    \cup (IF handling # 0 /\ handling = mRepeatLastFrameGeneration THEN {0} ELSE {})

SingleRepeatChain ==
    mLooper => \A i, j \in CurrentMessages :
        /\ i = j
        /\ ~mFrameRepeatBlockedOnCodecBuffer
        /\ mLatestBuffer.buf # Null
        /\ mOutstandingFrameRepeatCount > 0

(* When release has returned, no thread of that session is left in the      *)
(* message handler: none can act on the next session.                       *)
NoHandlerAfterRelease == phase \in {"unbound", "loaded"} => handling = 0 \/ mLooper

(* "STOP action should only show up at the end of the list", and action     *)
(* times never decrease (GraphicBufferSource.h, mActionQueue).              *)
ActionQueueOrdered ==
    \A i, j \in DOMAIN mActionQueue :
        i < j => /\ mActionQueue[i].time <= mActionQueue[j].time
                 /\ mActionQueue[i].action # "STOP"

(* The stream the component is given is one EncoderFeed allows: newest       *)
(* frames and bounded repeats at advancing times, the end of stream last.    *)
Feed == INSTANCE EncoderFeed WITH
            Frames <- 1..MaxFrames, Times <- 0..MaxTime,
            MaxRepeats <- kRepeatLastFrameCount, EndOfStream <- Eos, stream <- encoded

EncoderFed == Feed!Spec

(* A queued frame that is submitted is governed by the newest action not     *)
(* after it among all those accepted, and that is neither PAUSE nor STOP.    *)
(* (The queue keeps only what was not consumed by earlier frames, and an     *)
(* immediate call overrides it, so only timed calls are considered.)         *)
Governs(k, t) ==
    /\ accepted[k].time <= t
    /\ \A l \in DOMAIN accepted : l > k => accepted[l].time > t

TimedOnly == \A k \in DOMAIN accepted : accepted[k].time >= 0

ActionsRespected ==
    [][FrameSubmitted /\ Filling /\ TimedOnly =>
          \A k \in DOMAIN accepted :
             Governs(k, Item.ts) => accepted[k].action = "RESUME"]_vars

(* Without drops the source conserves work: between operations no codec     *)
(* buffer is idle while a signalled frame waits, and none while the end of  *)
(* the stream does.                                                         *)
WorkConserved ==
    mMutex = "free" /\ mExecuting /\ mFreeCodecBuffers # <<>> =>
        /\ ~HaveAvailableBuffers
        /\ EosPending => mEndOfStreamSent

(* The CHECK of onInputBufferEmptied never fails. *)
NeverAborts == mMutex # "aborted"

(* An end of stream that was signalled without a stop time reaches the      *)
(* component, unless it stops executing first: "Otherwise, we'll let        *)
(* codecBufferEmptied() (or start) do it".                                  *)
EosReachesComponent ==
    (mEndOfStream /\ mExecuting /\ mStopTimeUs = -1)
        ~> (mEndOfStreamSent \/ ~mExecuting \/ mStopTimeUs # -1)

(* release, which waits for the looper's thread, returns. *)
ReleaseTerminates == phase = "releasing" ~> phase # "releasing"

=============================================================================
