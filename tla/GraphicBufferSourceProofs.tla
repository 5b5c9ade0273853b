---------------------- MODULE GraphicBufferSourceProofs ----------------------
(***************************************************************************)
(* What GraphicBufferSource guarantees for every number of codec buffers,  *)
(* every sequence of frame times and every bound.  The inductive invariant *)
(* IInv joins the invariants of the specification with what ties them      *)
(* together: who may hold mMutex in which phase, which repeat messages     *)
(* exist, and what is known of the action queue's last entry.              *)
(***************************************************************************)
EXTENDS GraphicBufferSource, TLAPS, SequenceTheorems, FiniteSetTheorems,
        WellFoundedInduction

(* mMutex is kept across steps, and codec buffers are submitted, only while *)
(* the component executes; a looper exists only once it did.                *)
PhaseInv ==
    /\ mExecuting <=> phase = "executing"
    /\ mComponent <=> phase \in {"loaded", "executing", "idle"}
    /\ mMutex # "free" => phase = "executing"
    /\ mLooper => phase \in {"executing", "idle"}
    /\ ~mLooper => posted = <<>>
    /\ ~mLooper /\ phase # "releasing" => handling = 0

CodecInv ==
    /\ CodecBuffersConserved
    /\ phase \notin {"executing", "idle"} =>
          \A id \in CodecBuffers : mSubmittedCodecBuffers[id] = NotSubmitted

(* Messages are posted with increasing generations, and the one being       *)
(* delivered is older than those still posted.                              *)
GenerationInv ==
    /\ \A i \in DOMAIN posted : /\ posted[i] <= mRepeatLastFrameGeneration
                                /\ handling < posted[i]
    /\ \A i, j \in DOMAIN posted : i < j => posted[i] < posted[j]
    /\ handling <= mRepeatLastFrameGeneration

(* A frame that can still be repeated, because its message is current,      *)
(* because it waits for a codec buffer, or because there is no looper yet.  *)
RepeatInv ==
    /\ GenerationInv
    /\ SingleRepeatChain
    /\ mFrameRepeatBlockedOnCodecBuffer /\ mLatestBuffer.buf # Null =>
          mOutstandingFrameRepeatCount > 0
    /\ ~mLooper /\ mLatestBuffer.buf # Null =>
          ~mFrameRepeatBlockedOnCodecBuffer /\ mOutstandingFrameRepeatCount > 0

ActionInv ==
    /\ ActionQueueOrdered
    /\ \A i \in DOMAIN mActionQueue :
          /\ mActionQueue[i].time <= mLastActionTimeUs
          /\ mActionQueue[i].time >= 0
          /\ mStopTimeUs = -1 => mActionQueue[i].action # "STOP"

IInv ==
    /\ TypeOK
    /\ PhaseInv
    /\ QueueAccounted
    /\ CodecInv
    /\ RepeatInv
    /\ ActionInv

-----------------------------------------------------------------------------
(* Facts about the helpers. *)

LEMMA ConstantTypes ==
    /\ MaxFrames \in Nat
    /\ \A n \in 1..MaxFrames : FrameTimes[n] \subseteq Nat
    /\ kRepeatLastFrameCount \in Nat /\ kRepeatLastFrameCount > 0
BY ConstantsAssumption DEF MaxFrames

(* The frame fillCodecBuffer_l takes, and what is left of the three places. *)
LEMMA ItemTaken ==
    ASSUME QueueTypeOK, QueueAccounted, HasItem, HaveAvailableBuffers
    PROVE  /\ Item \in VideoBuffers
           /\ AvailableAfterItem \in Seq(VideoBuffers)
           /\ QueuedAfterItem \in Seq(VideoBuffers)
           /\ UnacquiredAfterItem \in Nat
           /\ Len(QueuedAfterItem) = UnacquiredAfterItem + undelivered
<1>1. CASE mAvailableBuffers # <<>>
  <2>1. Head(mAvailableBuffers) \in VideoBuffers /\ Tail(mAvailableBuffers) \in Seq(VideoBuffers)
    BY <1>1, HeadTailProperties DEF QueueTypeOK
  <2> QED
    BY <1>1, <2>1 DEF QueueTypeOK, QueueAccounted, Item, AvailableAfterItem,
                      QueuedAfterItem, UnacquiredAfterItem
<1>2. CASE mAvailableBuffers = <<>>
  <2>1. queued # <<>> /\ mNumAvailableUnacquiredBuffers > 0
    BY <1>2 DEF HasItem, HaveAvailableBuffers
  <2>2. /\ Head(queued) \in VideoBuffers
        /\ Tail(queued) \in Seq(VideoBuffers)
        /\ Len(Tail(queued)) = Len(queued) - 1
    BY <2>1, HeadTailProperties DEF QueueTypeOK
  <2>3. AvailableAfterItem = <<>> /\ QueuedAfterItem = Tail(queued) /\ Item = Head(queued)
        /\ UnacquiredAfterItem = mNumAvailableUnacquiredBuffers - 1
    BY <1>2 DEF QueueTypeOK, Item, AvailableAfterItem, QueuedAfterItem, UnacquiredAfterItem
  <2> QED
    BY <2>1, <2>2, <2>3 DEF QueueTypeOK, QueueAccounted
<1> QED
  BY <1>1, <1>2

(* A time shift keeps a frame a frame, and the same one. *)
LEMMA ShiftedType ==
    ASSUME TimeTypeOK, NEW v \in VideoBuffers
    PROVE  Shifted(v) \in VideoBuffers /\ Shifted(v).buf = v.buf
BY DEF TimeTypeOK, VideoBuffers, Shifted

LEMMA AfterIntervalType ==
    ASSUME RepeatTypeOK, NEW v \in VideoBuffers
    PROVE  AfterInterval(v) \in VideoBuffers /\ AfterInterval(v).buf = v.buf
BY SMTT(30) DEF RepeatTypeOK, VideoBuffers, AfterInterval

(* releaseAllAvailableBuffers_l empties mAvailableBuffers, and takes from   *)
(* the BufferQueue exactly as many frames as from the count.                *)
LEMMA AllReleased ==
    ASSUME NEW held, NEW rest \in Seq(VideoBuffers), NEW count \in Nat,
           undelivered \in Nat, Len(rest) = count + undelivered,
           ReleaseAllAvailableBuffers(held, rest, count)
    PROVE  /\ mAvailableBuffers' = <<>>
           /\ queued' \in Seq(VideoBuffers)
           /\ mNumAvailableUnacquiredBuffers' \in Nat
           /\ Len(queued') = mNumAvailableUnacquiredBuffers' + undelivered
           /\ UNCHANGED <<undelivered, produced>>
<1> DEFINE drained == IF MayAcquire(held) THEN count ELSE 0
<1>1. drained \in 0..count
  OBVIOUS
<1>2. /\ queued' = SubSeq(rest, drained + 1, Len(rest))
      /\ mNumAvailableUnacquiredBuffers' = count - drained
  BY DEF ReleaseAllAvailableBuffers
<1>3. Len(rest) \in Nat /\ \A i \in (drained + 1)..Len(rest) : rest[i] \in VideoBuffers
  BY <1>1, ElementOfSeq
<1>4. /\ queued' \in Seq(VideoBuffers)
      /\ Len(queued') = IF drained + 1 <= Len(rest) THEN Len(rest) - drained ELSE 0
  <2> HIDE DEF drained
  <2> QED
    BY <1>1, <1>2, <1>3, SubSeqProperties
<1> HIDE DEF drained
<1> QED
  BY <1>1, <1>2, <1>4 DEF ReleaseAllAvailableBuffers

(* A codec buffer goes from the free ones to the component. *)
LEMMA CodecBufferTaken ==
    ASSUME CodecTypeOK, mFreeCodecBuffers # <<>>,
           NEW entry \in VideoBuffers \cup {Eos}, TakeCodecBuffer(entry)
    PROVE  CodecTypeOK'
<1>1. /\ Head(mFreeCodecBuffers) \in CodecBuffers
      /\ Tail(mFreeCodecBuffers) \in Seq(CodecBuffers)
  BY HeadTailProperties DEF CodecTypeOK
<1>2. entry.buf \in 1..MaxFrames \cup {Null, NotSubmitted}
  BY DEF VideoBuffers, Eos
<1>3. Append(encoded, entry) \in Seq(VideoBuffers \cup {Eos})
  BY AppendProperties DEF CodecTypeOK
<1> QED
  BY <1>1, <1>2, <1>3 DEF CodecTypeOK, TakeCodecBuffer

-----------------------------------------------------------------------------
(* The two queues of frames and their counters. *)

(* The actions that leave the frames alone. *)
LEMMA FramesUntouched ==
    ASSUME \/ FillBails \/ EmptiedAborts \/ EmptiedSendsEos \/ EmptiedRepeats
           \/ \E id \in CodecBuffers : OnInputBufferEmptied(id) \/ OnInputBufferAdded(id)
           \/ Configure \/ Start \/ StartSendsEos \/ StartLooper \/ Stop
           \/ Release \/ ReleaseReturns
           \/ \E t \in ActionTimes, action \in {"PAUSE", "RESUME", "STOP"} : QueueAction(action, t)
           \/ ResumeNow \/ SignalEndOfInputStream
           \/ \E delay \in RepeatDelays : SetRepeatPreviousFrameDelayUs(delay)
           \/ \E rate \in MaxFpsArgs : SetMaxFps(rate)
           \/ \E t \in StartTimes : SetStartTimeUs(t)
           \/ TakeMessage \/ MessageRepeats \/ MessageIgnored
    PROVE  UNCHANGED <<bqVars, frameVars>>
<1>1. CASE \/ FillBails \/ EmptiedAborts \/ EmptiedSendsEos \/ EmptiedRepeats
           \/ TakeMessage \/ MessageRepeats \/ MessageIgnored
  BY <1>1 DEF FillBails, EmptiedAborts, EmptiedSendsEos, EmptiedRepeats,
              EmptiedWithoutFrames, TakeMessage, MessageRepeats, MessageIgnored,
              OnMessageReceived
<1>2. CASE \E id \in CodecBuffers : OnInputBufferEmptied(id) \/ OnInputBufferAdded(id)
  BY <1>2 DEF OnInputBufferEmptied, OnInputBufferAdded
<1>3. CASE Configure \/ Start \/ StartSendsEos \/ StartLooper \/ Stop \/ Release
           \/ ReleaseReturns
  BY <1>3 DEF Configure, Start, StartSendsEos, StartLooper, Stop, Release, ReleaseReturns
<1>4. CASE \/ \E t \in ActionTimes, action \in {"PAUSE", "RESUME", "STOP"} :
                  QueueAction(action, t)
           \/ ResumeNow \/ SignalEndOfInputStream
  BY <1>4 DEF QueueAction, ResumeNow, SignalEndOfInputStream
<1>5. CASE \/ \E delay \in RepeatDelays : SetRepeatPreviousFrameDelayUs(delay)
           \/ \E rate \in MaxFpsArgs : SetMaxFps(rate)
           \/ \E t \in StartTimes : SetStartTimeUs(t)
  BY <1>5 DEF SetRepeatPreviousFrameDelayUs, SetMaxFps, SetStartTimeUs, Setter
<1> QED
  BY <1>1, <1>2, <1>3, <1>4, <1>5

QueueInv == QueueTypeOK /\ QueueAccounted

LEMMA QueueStep == IInv /\ [Next]_vars => QueueInv'
<1> SUFFICES ASSUME IInv, [Next]_vars PROVE QueueInv'
  OBVIOUS
<1> USE DEF QueueInv
<1>1. QueueTypeOK /\ QueueAccounted
  BY DEF IInv, TypeOK
<1>2. CASE UNCHANGED <<bqVars, frameVars>>
  BY <1>1, <1>2 DEF bqVars, frameVars, QueueTypeOK, QueueAccounted
<1>3. CASE FillStops
  <2>1. /\ QueuedAfterItem \in Seq(VideoBuffers) /\ UnacquiredAfterItem \in Nat
        /\ Len(QueuedAfterItem) = UnacquiredAfterItem + undelivered
    BY <1>1, <1>3, ItemTaken DEF FillStops, Filling
  <2>2. ReleaseAllAvailableBuffers(InCodec \cup InLatest \cup {Item.buf},
                                   QueuedAfterItem, UnacquiredAfterItem)
    BY <1>3 DEF FillStops
  <2> QED
    <3>1. undelivered \in Nat
      BY <1>1 DEF QueueTypeOK
    <3>2. /\ mAvailableBuffers' = <<>>
          /\ queued' \in Seq(VideoBuffers)
          /\ mNumAvailableUnacquiredBuffers' \in Nat
          /\ Len(queued') = mNumAvailableUnacquiredBuffers' + undelivered
          /\ UNCHANGED <<undelivered, produced>>
      BY <2>1, <2>2, <3>1, AllReleased
    <3> QED
      BY <1>1, <3>2 DEF QueueTypeOK, QueueAccounted
<1>4. ASSUME Filling, HasItem, TakeItem PROVE QueueInv'
  BY <1>1, <1>4, ItemTaken DEF Filling, TakeItem, QueueTypeOK, QueueAccounted
<1>5. CASE FillDiscards \/ FillSkips \/ FillSubmits \/ FillFails
  BY <1>4, <1>5 DEF FillDiscards, FillSkips, FillSubmits, FillFails, Encodable
<1>6. CASE SuspendNow
  <2>1. ReleaseAllAvailableBuffers(InCodec \cup InLatest, queued,
                                   mNumAvailableUnacquiredBuffers)
    BY <1>6 DEF SuspendNow
  <2> QED
    <3>1. /\ queued \in Seq(VideoBuffers) /\ mNumAvailableUnacquiredBuffers \in Nat
          /\ undelivered \in Nat
          /\ Len(queued) = mNumAvailableUnacquiredBuffers + undelivered
      BY <1>1 DEF QueueTypeOK, QueueAccounted
    <3>2. /\ mAvailableBuffers' = <<>>
          /\ queued' \in Seq(VideoBuffers)
          /\ mNumAvailableUnacquiredBuffers' \in Nat
          /\ Len(queued') = mNumAvailableUnacquiredBuffers' + undelivered
          /\ UNCHANGED <<undelivered, produced>>
      BY <2>1, <3>1, AllReleased
    <3> QED
      BY <1>1, <3>2 DEF QueueTypeOK, QueueAccounted
<1>7. CASE QueueBuffer
  <2>1. PICK t \in FrameTimes[produced + 1] :
            queued' = Append(queued, [buf |-> produced + 1, ts |-> t])
    BY <1>7 DEF QueueBuffer
  <2>2. produced + 1 \in 1..MaxFrames
    BY <1>1, <1>7, ConstantTypes DEF QueueTypeOK, QueueBuffer
  <2>3. [buf |-> produced + 1, ts |-> t] \in VideoBuffers
    BY <2>1, <2>2, ConstantTypes DEF VideoBuffers
  <2>4. queued' \in Seq(VideoBuffers) /\ Len(queued') = Len(queued) + 1
    BY <1>1, <2>1, <2>3, AppendProperties DEF QueueTypeOK
  <2>5. UNCHANGED frameVars /\ undelivered' = undelivered + 1 /\ produced' = produced + 1
    BY <1>7 DEF QueueBuffer
  <2> QED
    BY <1>1, <2>2, <2>4, <2>5 DEF frameVars, QueueTypeOK, QueueAccounted
<1>8. CASE FrameDeferred \/ FrameNotAcquired
  BY <1>1, <1>8 DEF FrameDeferred, FrameNotAcquired, CallbackBegins, QueueTypeOK, QueueAccounted
<1>9. CASE FrameIgnored \/ FrameAcquired
  <2>1. queued # <<>> /\ undelivered > 0 /\ undelivered' = undelivered - 1
        /\ produced' = produced /\ queued' = Tail(queued)
        /\ mNumAvailableUnacquiredBuffers' = mNumAvailableUnacquiredBuffers
    BY <1>1, <1>9 DEF FrameIgnored, FrameAcquired, CallbackBegins, frameVars,
                      QueueTypeOK, QueueAccounted
  <2>2. /\ Head(queued) \in VideoBuffers
        /\ Tail(queued) \in Seq(VideoBuffers)
        /\ Len(Tail(queued)) = Len(queued) - 1
    BY <1>1, <2>1, HeadTailProperties DEF QueueTypeOK
  <2>3. mAvailableBuffers' \in Seq(VideoBuffers)
    <3>1. Append(mAvailableBuffers, Head(queued)) \in Seq(VideoBuffers)
      BY <1>1, <2>2, AppendProperties DEF QueueTypeOK
    <3> QED
      BY <1>1, <1>9, <3>1 DEF FrameIgnored, FrameAcquired, frameVars, QueueTypeOK
  <2> QED
    BY <1>1, <2>1, <2>2, <2>3 DEF QueueTypeOK, QueueAccounted
<1>10. CASE UNCHANGED vars
  BY <1>2, <1>10 DEF vars
<1> QED
  BY <1>2, <1>3, <1>5, <1>6, <1>7, <1>8, <1>9, <1>10, FramesUntouched
     DEF Next, Callbacks, OnFrameAvailable, Continue, FillCodecBuffer, Lifecycle, Control

-----------------------------------------------------------------------------
(* The lifecycle, mMutex and the looper. *)

LifeInv == LifeTypeOK /\ PhaseInv

(* Repeats and the end of the stream post messages through the looper only. *)
LEMMA LooperNeededToPost ==
    ASSUME \/ QueueFrameRepeat
           \/ \E b \in BOOLEAN : RepeatLatestBuffer(b) \/ RepeatLatestBufferFails(b)
           \/ UNCHANGED posted,
           ~mLooper
    PROVE  UNCHANGED posted
BY DEF QueueFrameRepeat, RepeatLatestBuffer, RepeatLatestBufferFails

LEMMA LifeStep == IInv /\ [Next]_vars => LifeInv'
<1> SUFFICES ASSUME IInv, [Next]_vars PROVE LifeInv'
  OBVIOUS
<1> USE DEF LifeInv
<1>1. LifeTypeOK /\ PhaseInv /\ mFrameRepeatBlockedOnCodecBuffer \in BOOLEAN
  BY DEF IInv, TypeOK, RepeatTypeOK
<1>2. CASE UNCHANGED <<lifeVars, mMutex, eosVars, looperVars>>
  BY <1>1, <1>2 DEF lifeVars, eosVars, looperVars, LifeTypeOK, PhaseInv
<1>3. ASSUME UNCHANGED <<lifeVars, mLooper, handling>>, mMutex' = mMutex \/ mMutex' = "free",
             mEndOfStream' \in BOOLEAN, mEndOfStreamSent' \in BOOLEAN,
             ~mLooper => UNCHANGED posted
      PROVE  LifeInv'
  BY <1>1, <1>3 DEF lifeVars, LifeTypeOK, PhaseInv
<1>4. ASSUME FillReturns(TRUE) \/ FillReturns(FALSE), Filling,
             UNCHANGED <<lifeVars, mLooper, handling>>,
             mEndOfStream' \in BOOLEAN, mEndOfStreamSent' \in BOOLEAN,
             ~mLooper => UNCHANGED posted
      PROVE  LifeInv'
  BY <1>1, <1>4 DEF lifeVars, LifeTypeOK, PhaseInv, FillReturns, Filling
<1>5. ASSUME SubmitEndOfInputStream PROVE mEndOfStreamSent' \in BOOLEAN
  BY <1>1, <1>5 DEF SubmitEndOfInputStream, LifeTypeOK
<1>6. CASE FillBails \/ FillDiscards
  BY <1>1, <1>4, <1>6 DEF FillBails, FillDiscards, lifeVars, eosVars, looperVars, LifeTypeOK
<1>7. CASE FillStops
  BY <1>4, <1>5, <1>7 DEF FillStops, looperVars
<1>8. CASE FillSkips \/ FillSubmits \/ FillFails
  <2>1. ~mLooper => UNCHANGED posted
    BY <1>8, LooperNeededToPost
       DEF FillSkips, FillSubmits, FillFails, Remember, SetLatestBuffer
  <2> QED
    BY <1>1, <1>4, <1>8, <2>1
       DEF FillSkips, FillSubmits, FillFails, Encodable, lifeVars, eosVars, LifeTypeOK
<1>9. CASE QueueBuffer \/ FrameDeferred \/ FrameNotAcquired \/ FrameIgnored
  BY <1>2, <1>9 DEF QueueBuffer, FrameDeferred, FrameNotAcquired, FrameIgnored, CallbackBegins
<1>10. CASE FrameAcquired
  BY <1>1, <1>10 DEF FrameAcquired, CallbackBegins, lifeVars, eosVars, looperVars,
                     LifeTypeOK, PhaseInv
<1>11. ASSUME NEW id \in CodecBuffers, OnInputBufferEmptied(id) PROVE LifeInv'
  BY <1>1, <1>11 DEF OnInputBufferEmptied, lifeVars, eosVars, looperVars, LifeTypeOK, PhaseInv
<1>12. CASE EmptiedAborts
  BY <1>1, <1>12 DEF EmptiedAborts, lifeVars, eosVars, looperVars, LifeTypeOK, PhaseInv
<1>13. CASE EmptiedSendsEos
  BY <1>1, <1>3, <1>5, <1>13 DEF EmptiedSendsEos, EmptiedWithoutFrames, LifeTypeOK
<1>14. CASE EmptiedRepeats
  <2>1. ~mLooper => UNCHANGED posted
    BY <1>14, LooperNeededToPost DEF EmptiedRepeats
  <2> QED
    BY <1>1, <1>3, <1>14, <2>1 DEF EmptiedRepeats, EmptiedWithoutFrames, LifeTypeOK
<1>15. CASE Configure
  <2>1. /\ session' \in 0..MaxSessions /\ phase' = "loaded"
        /\ mMutex' = "free" /\ mMutex' = mMutex
        /\ mComponent' = TRUE /\ mExecuting' = FALSE
        /\ mEndOfStream' = FALSE /\ mEndOfStreamSent' = FALSE
    BY <1>1, <1>15, ConstantsAssumption DEF Configure, LifeTypeOK
  <2>2. UNCHANGED <<mLooper, posted, handling>> /\ phase = "unbound"
    BY <1>15 DEF Configure, looperVars
  <2> QED
    BY <1>1, <2>1, <2>2 DEF LifeTypeOK, PhaseInv
<1>16. ASSUME NEW id \in CodecBuffers, OnInputBufferAdded(id) PROVE LifeInv'
  BY <1>2, <1>16 DEF OnInputBufferAdded
<1>17. CASE Start \/ Stop \/ Release \/ ReleaseReturns
  <2>1. CASE Start
    BY <1>1, <2>1 DEF Start, eosVars, looperVars, LifeTypeOK, PhaseInv
  <2>2. CASE Stop
    BY <1>1, <2>2 DEF Stop, eosVars, looperVars, LifeTypeOK, PhaseInv
  <2>3. CASE Release
    BY <1>1, <2>3 DEF Release, eosVars, LifeTypeOK, PhaseInv
  <2>4. CASE ReleaseReturns
    BY <1>1, <2>4 DEF ReleaseReturns, eosVars, looperVars, LifeTypeOK, PhaseInv
  <2> QED
    BY <1>17, <2>1, <2>2, <2>3, <2>4
<1>18. CASE StartSendsEos
  <2>1. mEndOfStreamSent' \in BOOLEAN
    BY <1>1, <1>5, <1>18 DEF StartSendsEos, LifeTypeOK
  <2> QED
    BY <1>1, <1>18, <2>1 DEF StartSendsEos, lifeVars, looperVars, LifeTypeOK, PhaseInv
<1>19. CASE StartLooper
  BY <1>1, <1>19 DEF StartLooper, lifeVars, eosVars, LifeTypeOK, PhaseInv
<1>20. ASSUME NEW t \in ActionTimes, NEW action \in {"PAUSE", "RESUME", "STOP"},
              QueueAction(action, t)
       PROVE  LifeInv'
  BY <1>2, <1>20 DEF QueueAction, ControlCall, looperVars
<1>21. CASE SuspendNow
  BY <1>2, <1>21 DEF SuspendNow, ControlCall, looperVars
<1>22. CASE ResumeNow
  <2>1. ~mLooper => UNCHANGED posted
    BY <1>22, LooperNeededToPost DEF ResumeNow
  <2> QED
    BY <1>1, <1>3, <1>22, <2>1 DEF ResumeNow, ControlCall, eosVars, LifeTypeOK
<1>23. CASE SignalEndOfInputStream
  BY <1>1, <1>3, <1>5, <1>23 DEF SignalEndOfInputStream, looperVars, LifeTypeOK
<1>24. ASSUME \/ \E delay \in RepeatDelays : SetRepeatPreviousFrameDelayUs(delay)
              \/ \E rate \in MaxFpsArgs : SetMaxFps(rate)
              \/ \E t \in StartTimes : SetStartTimeUs(t)
       PROVE  LifeInv'
  BY <1>2, <1>24 DEF SetRepeatPreviousFrameDelayUs, SetMaxFps, SetStartTimeUs, Setter
<1>25. CASE TakeMessage
  BY <1>1, <1>25 DEF TakeMessage, lifeVars, eosVars, LifeTypeOK, PhaseInv
<1>26. CASE MessageRepeats \/ MessageIgnored
  <2>1. ~mLooper => UNCHANGED posted
    BY <1>1, <1>26, LooperNeededToPost DEF MessageRepeats, MessageIgnored
  <2>2. UNCHANGED <<lifeVars, mMutex, eosVars, mLooper>> /\ handling' = 0
    BY <1>26 DEF MessageRepeats, MessageIgnored, OnMessageReceived
  <2> QED
    BY <1>1, <2>1, <2>2 DEF lifeVars, eosVars, LifeTypeOK, PhaseInv
<1>27. CASE UNCHANGED vars
  BY <1>2, <1>27 DEF vars
<1> QED
  BY <1>6, <1>7, <1>8, <1>9, <1>10, <1>11, <1>12, <1>13, <1>14, <1>15, <1>16, <1>17,
     <1>18, <1>19, <1>20, <1>21, <1>22, <1>23, <1>24, <1>25, <1>26, <1>27
     DEF Next, Callbacks, OnFrameAvailable, Continue, FillCodecBuffer, Lifecycle, Control

-----------------------------------------------------------------------------
(* The codec buffers. *)

CodecPart == CodecTypeOK /\ CodecInv

(* The properties of Head and Tail, in the form the free list needs. *)
LEMMA FreeListPopped ==
    ASSUME CodecTypeOK, mFreeCodecBuffers # <<>>
    PROVE  /\ Head(mFreeCodecBuffers) = mFreeCodecBuffers[1]
           /\ DOMAIN mFreeCodecBuffers = 1..Len(mFreeCodecBuffers)
           /\ Len(mFreeCodecBuffers) \in Nat /\ Len(mFreeCodecBuffers) > 0
           /\ DOMAIN Tail(mFreeCodecBuffers) = 1..(Len(mFreeCodecBuffers) - 1)
           /\ \A i \in 1..(Len(mFreeCodecBuffers) - 1) :
                 Tail(mFreeCodecBuffers)[i] = mFreeCodecBuffers[i + 1]
BY HeadTailProperties, LenProperties DEF CodecTypeOK

LEMMA CodecBufferSubmitted ==
    ASSUME CodecPart, phase = "executing", phase' = phase, mFreeCodecBuffers # <<>>,
           NEW entry \in VideoBuffers \cup {Eos}, TakeCodecBuffer(entry)
    PROVE  CodecPart'
<1> DEFINE free == mFreeCodecBuffers
           L == Len(mFreeCodecBuffers)
           S == mSubmittedCodecBuffers
<1>1. CodecTypeOK'
  BY CodecBufferTaken DEF CodecPart
<1>2. /\ Head(free) = free[1] /\ DOMAIN free = 1..L /\ L \in Nat /\ L > 0
      /\ DOMAIN free' = 1..(L - 1)
      /\ \A i \in 1..(L - 1) : free'[i] = free[i + 1]
  BY FreeListPopped DEF CodecPart, TakeCodecBuffer
<1>3. /\ S \in [CodecBuffers -> 1..MaxFrames \cup {Null, NotSubmitted}]
      /\ \A i \in 1..L : free[i] \in CodecBuffers
  BY <1>2, ElementOfSeq DEF CodecPart, CodecTypeOK
<1>4. entry.buf # NotSubmitted
  BY ConstantTypes DEF VideoBuffers, Eos, Null, NotSubmitted
<1>5. /\ \A id \in CodecBuffers : id # free[1] => S'[id] = S[id]
      /\ S'[free[1]] = entry.buf
  BY <1>2, <1>3 DEF TakeCodecBuffer
<1>6. /\ \A i, j \in 1..L : free[i] = free[j] => i = j
      /\ \A i \in 1..L : S[free[i]] = NotSubmitted
      /\ \A id \in CodecBuffers : S[id] = NotSubmitted => \E i \in 1..L : id = free[i]
  BY <1>2 DEF CodecPart, CodecInv, CodecBuffersConserved, FreeSet
<1>7. \A i, j \in 1..(L - 1) : free'[i] = free'[j] => i = j
  BY <1>2, <1>6
<1>8. \A i \in 1..(L - 1) : free'[i] \in CodecBuffers /\ S'[free'[i]] = NotSubmitted
  <2> TAKE i \in 1..(L - 1)
  <2>1. i + 1 \in 1..L /\ 1 \in 1..L /\ i + 1 # 1
    BY <1>2
  <2>2. free'[i] = free[i + 1] /\ free[i + 1] # free[1] /\ free[i + 1] \in CodecBuffers
    BY <1>2, <1>3, <1>6, <2>1
  <2> QED
    BY <1>5, <1>6, <2>1, <2>2
<1>9. ASSUME NEW id \in CodecBuffers, S'[id] = NotSubmitted
      PROVE  \E i \in 1..(L - 1) : id = free'[i]
  <2>1. id # free[1] /\ S[id] = NotSubmitted
    BY <1>4, <1>5, <1>9
  <2>2. PICK i \in 1..L : id = free[i]
    BY <1>6, <2>1
  <2>3. i - 1 \in 1..(L - 1) /\ free'[i - 1] = free[i]
    BY <1>2, <2>1, <2>2
  <2> QED
    BY <2>2, <2>3
<1> HIDE DEF free, L, S
<1>10. CodecBuffersConserved'
  <2>1. FreeSet' = {free'[i] : i \in 1..(L - 1)}
    BY <1>2 DEF FreeSet, free
  <2>2. \A id \in FreeSet' : S'[id] = NotSubmitted
    BY <1>8, <2>1
  <2>3. \A id \in CodecBuffers : S'[id] = NotSubmitted => id \in FreeSet'
    BY <1>9, <2>1
  <2>4. \A i, j \in DOMAIN free' : free'[i] = free'[j] => i = j
    BY <1>2, <1>7
  <2> QED
    BY <2>2, <2>3, <2>4 DEF CodecBuffersConserved, free, S
<1> QED
  BY <1>1, <1>10 DEF CodecPart, CodecInv

LEMMA CodecBufferReturned ==
    ASSUME CodecPart, NEW id \in CodecBuffers, phase' = phase, UNCHANGED encoded,
           \/ /\ mSubmittedCodecBuffers[id] # NotSubmitted
              /\ mSubmittedCodecBuffers' = [mSubmittedCodecBuffers EXCEPT ![id] = NotSubmitted]
           \/ phase = "loaded" /\ id \notin FreeSet /\ UNCHANGED mSubmittedCodecBuffers,
           mFreeCodecBuffers' = Append(mFreeCodecBuffers, id)
    PROVE  CodecPart'
<1> DEFINE free == mFreeCodecBuffers
           L == Len(mFreeCodecBuffers)
           S == mSubmittedCodecBuffers
<1>1. /\ free \in Seq(CodecBuffers) /\ DOMAIN free = 1..L /\ L \in Nat
      /\ S \in [CodecBuffers -> 1..MaxFrames \cup {Null, NotSubmitted}]
  BY LenProperties DEF CodecPart, CodecTypeOK
<1>2. /\ free' \in Seq(CodecBuffers) /\ DOMAIN free' = 1..(L + 1)
      /\ \A i \in 1..L : free'[i] = free[i]
      /\ free'[L + 1] = id
  BY <1>1, AppendProperties, LenProperties
<1>3. /\ S' \in [CodecBuffers -> 1..MaxFrames \cup {Null, NotSubmitted}]
      /\ \A x \in CodecBuffers : x # id => S'[x] = S[x]
      /\ S'[id] = NotSubmitted
  <2>1. CASE phase = "loaded" /\ UNCHANGED mSubmittedCodecBuffers
    BY <1>1, <2>1 DEF CodecPart, CodecInv
  <2>2. CASE mSubmittedCodecBuffers' = [mSubmittedCodecBuffers EXCEPT ![id] = NotSubmitted]
    BY <1>1, <2>2
  <2> QED
    BY <2>1, <2>2
<1>4. id \notin FreeSet
  BY DEF CodecPart, CodecInv, CodecBuffersConserved
<1>5. FreeSet = {free[i] : i \in 1..L} /\ FreeSet' = {free'[i] : i \in 1..(L + 1)}
  BY <1>1, <1>2 DEF FreeSet
<1>6. FreeSet' = FreeSet \cup {id}
  BY <1>1, <1>2, <1>5
<1>7. \A i, j \in DOMAIN free' : free'[i] = free'[j] => i = j
  <2>1. \A i, j \in 1..L : free[i] = free[j] => i = j
    BY <1>1 DEF CodecPart, CodecInv, CodecBuffersConserved
  <2>2. \A i \in 1..L : free[i] # id
    BY <1>4, <1>5
  <2> QED
    BY <1>1, <1>2, <2>1, <2>2
<1>8. \A x \in FreeSet' : S'[x] = NotSubmitted
  <2>1. FreeSet \subseteq CodecBuffers
    BY <1>1, <1>5, ElementOfSeq
  <2> QED
    BY <1>3, <1>6, <2>1 DEF CodecPart, CodecInv, CodecBuffersConserved
<1>9. phase \in {"executing", "idle"} =>
          \A x \in CodecBuffers : S'[x] = NotSubmitted => x \in FreeSet'
  BY <1>3, <1>6 DEF CodecPart, CodecInv, CodecBuffersConserved
<1>10. phase \notin {"executing", "idle"} => \A x \in CodecBuffers : S'[x] = NotSubmitted
  BY <1>3 DEF CodecPart, CodecInv
<1>11. encoded' \in Seq(VideoBuffers \cup {Eos})
  BY DEF CodecPart, CodecTypeOK
<1> QED
  BY <1>2, <1>3, <1>7, <1>8, <1>9, <1>10, <1>11
     DEF CodecPart, CodecTypeOK, CodecInv, CodecBuffersConserved

(* start finds all codec buffers on its side: a free list without           *)
(* duplicates that is as long as there are codec buffers holds all of them. *)
LEMMA AllFreeAtStart ==
    ASSUME CodecPart, Len(mFreeCodecBuffers) = Cardinality(CodecBuffers)
    PROVE  FreeSet = CodecBuffers
<1> DEFINE free == mFreeCodecBuffers
           L == Len(mFreeCodecBuffers)
<1>1. free \in Seq(CodecBuffers) /\ DOMAIN free = 1..L /\ L \in Nat
      /\ free \in [1..L -> CodecBuffers]
  BY LenProperties DEF CodecPart, CodecTypeOK
<1>2. \A i, j \in 1..L : free[i] = free[j] => i = j
  BY <1>1 DEF CodecPart, CodecInv, CodecBuffersConserved
<1>3. free \in Injection(1..L, CodecBuffers)
  BY <1>1, <1>2 DEF Injection, IsInjective
<1>4. IsFiniteSet(1..L) /\ Cardinality(1..L) = L
  BY <1>1, FS_Interval
<1>5. free \in Surjection(1..L, CodecBuffers)
  BY <1>3, <1>4, FS_Injection, ConstantsAssumption
<1>6. \A x \in CodecBuffers : \E i \in 1..L : free[i] = x
  BY <1>5 DEF Surjection
<1> QED
  BY <1>1, <1>6 DEF FreeSet

(* The calls that may give a frame or the EOS to the component, or nothing. *)
LEMMA FrameSubmittedOrNot ==
    ASSUME CodecPart, phase = "executing", phase' = phase, mFreeCodecBuffers # <<>>,
           NEW v \in VideoBuffers, SubmitBuffer(v) \/ SubmitBufferFails(v)
    PROVE  CodecPart'
<1>1. CASE SubmitBuffer(v)
  BY <1>1, CodecBufferSubmitted DEF SubmitBuffer
<1>2. CASE SubmitBufferFails(v)
  BY <1>2 DEF SubmitBufferFails, codecVars, CodecPart, CodecTypeOK, CodecInv,
              CodecBuffersConserved, FreeSet
<1> QED
  BY <1>1, <1>2

LEMMA EosSubmittedOrNot ==
    ASSUME CodecPart, phase = "executing", phase' = phase, SubmitEndOfInputStream
    PROVE  CodecPart'
<1>1. CASE mFreeCodecBuffers # <<>> /\ TakeCodecBuffer(Eos)
  BY <1>1, CodecBufferSubmitted
<1>2. CASE UNCHANGED codecVars
  BY <1>2 DEF codecVars, CodecPart, CodecTypeOK, CodecInv, CodecBuffersConserved, FreeSet
<1> QED
  BY <1>1, <1>2 DEF SubmitEndOfInputStream

LEMMA RepeatSubmittedOrNot ==
    ASSUME CodecPart, RepeatTypeOK, phase = "executing", phase' = phase,
           NEW b \in BOOLEAN, RepeatLatestBuffer(b) \/ RepeatLatestBufferFails(b)
    PROVE  CodecPart'
<1>1. CASE CanRepeat
  <2>1. mLatestBuffer \in VideoBuffers /\ mFreeCodecBuffers # <<>>
    BY <1>1 DEF CanRepeat, RepeatTypeOK, NoBuffer, Null
  <2>2. SubmitBuffer(mLatestBuffer) \/ SubmitBufferFails(mLatestBuffer)
    BY <1>1 DEF RepeatLatestBuffer, RepeatLatestBufferFails
  <2> QED
    BY <2>1, <2>2, FrameSubmittedOrNot
<1>2. CASE ~CanRepeat
  <2>1. UNCHANGED codecVars
    BY <1>2 DEF RepeatLatestBuffer, RepeatLatestBufferFails
  <2> QED
    BY <2>1 DEF codecVars, CodecPart, CodecTypeOK, CodecInv, CodecBuffersConserved, FreeSet
<1> QED
  BY <1>1, <1>2

LEMMA CodecStep == IInv /\ [Next]_vars => CodecPart'
<1> SUFFICES ASSUME IInv, [Next]_vars PROVE CodecPart'
  OBVIOUS
<1>1. CodecPart /\ LifeTypeOK /\ PhaseInv /\ RepeatTypeOK
  BY DEF IInv, TypeOK, CodecPart
<1>2. CASE UNCHANGED <<codecVars, phase>>
  BY <1>1, <1>2 DEF codecVars, CodecPart, CodecTypeOK, CodecInv, CodecBuffersConserved, FreeSet
<1>3. CASE FillBails \/ FillDiscards \/ FillSkips
  BY <1>2, <1>3 DEF FillBails, FillDiscards, FillSkips, Encodable, lifeVars
<1>4. Filling => phase = "executing"
  BY <1>1 DEF Filling, PhaseInv
<1>5. CASE FillStops
  BY <1>1, <1>4, <1>5, EosSubmittedOrNot DEF FillStops, lifeVars
<1>6. CASE FillSubmits \/ FillFails
  <2>1. /\ Filling /\ HasItem /\ phase' = phase
        /\ SubmitBuffer(Shifted(Item)) \/ SubmitBufferFails(Shifted(Item))
    BY <1>6 DEF FillSubmits, FillFails, Encodable, lifeVars
  <2>2. Shifted(Item) \in VideoBuffers
    BY <2>1, ItemTaken, ShiftedType DEF IInv, TypeOK, Filling
  <2>3. mFreeCodecBuffers # <<>>
    BY <2>1 DEF HasItem
  <2> QED
    BY <1>1, <1>4, <2>1, <2>2, <2>3, FrameSubmittedOrNot
<1>7. CASE QueueBuffer \/ OnFrameAvailable
  BY <1>2, <1>7 DEF QueueBuffer, OnFrameAvailable, FrameDeferred, FrameNotAcquired,
                    FrameIgnored, FrameAcquired, CallbackBegins, lifeVars
<1>8. ASSUME NEW id \in CodecBuffers, OnInputBufferEmptied(id) PROVE CodecPart'
  BY <1>1, <1>8, CodecBufferReturned DEF OnInputBufferEmptied, lifeVars
<1>9. ASSUME NEW id \in CodecBuffers, OnInputBufferAdded(id) PROVE CodecPart'
  BY <1>1, <1>9, CodecBufferReturned DEF OnInputBufferAdded, lifeVars, FreeSet
<1>10. CASE EmptiedAborts
  BY <1>2, <1>10 DEF EmptiedAborts, lifeVars
<1>11. CASE EmptiedSendsEos
  BY <1>1, <1>11, EosSubmittedOrNot DEF EmptiedSendsEos, EmptiedWithoutFrames, lifeVars, PhaseInv
<1>12. CASE EmptiedRepeats
  <2>1. phase = "executing" /\ phase' = phase
    BY <1>1, <1>12 DEF EmptiedRepeats, EmptiedWithoutFrames, lifeVars, PhaseInv
  <2> QED
    BY <1>1, <1>2, <1>12, <2>1, RepeatSubmittedOrNot DEF EmptiedRepeats
<1>13. CASE Configure
  BY <1>1, <1>13 DEF Configure, CodecPart, CodecTypeOK, CodecInv, CodecBuffersConserved, FreeSet
<1>14. CASE Start
  <2>1. FreeSet = CodecBuffers
    BY <1>1, <1>14, AllFreeAtStart DEF Start
  <2>2. UNCHANGED codecVars /\ phase' = "executing"
    BY <1>14 DEF Start
  <2> QED
    BY <1>1, <2>1, <2>2 DEF codecVars, CodecPart, CodecTypeOK, CodecInv,
                            CodecBuffersConserved, FreeSet
<1>15. CASE StartSendsEos
  <2>1. phase = "executing" /\ phase' = phase
    BY <1>1, <1>15 DEF StartSendsEos, lifeVars, PhaseInv
  <2>2. SubmitEndOfInputStream \/ UNCHANGED codecVars
    BY <1>15 DEF StartSendsEos
  <2> QED
    BY <1>1, <1>2, <2>1, <2>2, EosSubmittedOrNot
<1>16. CASE StartLooper
  BY <1>2, <1>16 DEF StartLooper, lifeVars
<1>17. CASE Stop \/ ReleaseReturns
  BY <1>1, <1>17 DEF Stop, ReleaseReturns, codecVars, CodecPart, CodecTypeOK, CodecInv,
                     CodecBuffersConserved, FreeSet
<1>18. CASE Release
  <2>1. /\ mFreeCodecBuffers' = <<>> /\ encoded' = encoded /\ phase' = "releasing"
        /\ mSubmittedCodecBuffers' = [id \in CodecBuffers |-> NotSubmitted]
    BY <1>18 DEF Release
  <2> QED
    BY <1>1, <2>1 DEF CodecPart, CodecTypeOK, CodecInv, CodecBuffersConserved, FreeSet
<1>19. ASSUME \/ \E t \in ActionTimes, action \in {"PAUSE", "RESUME", "STOP"} :
                    QueueAction(action, t)
              \/ SuspendNow
       PROVE  CodecPart'
  BY <1>2, <1>19 DEF QueueAction, SuspendNow, ControlCall, lifeVars
<1>20. CASE ResumeNow
  <2>1. phase' = phase
    BY <1>20 DEF ResumeNow, ControlCall, lifeVars
  <2>2. CASE mExecuting /\ \E b \in BOOLEAN : RepeatLatestBuffer(b) \/ RepeatLatestBufferFails(b)
    BY <1>1, <2>1, <2>2, RepeatSubmittedOrNot DEF PhaseInv
  <2>3. CASE UNCHANGED codecVars
    BY <1>2, <2>1, <2>3
  <2> QED
    BY <1>20, <2>2, <2>3 DEF ResumeNow
<1>21. CASE SignalEndOfInputStream
  <2>1. phase' = phase
    BY <1>21 DEF SignalEndOfInputStream, lifeVars
  <2>2. (mExecuting /\ SubmitEndOfInputStream) \/ UNCHANGED codecVars
    BY <1>21 DEF SignalEndOfInputStream
  <2> QED
    BY <1>1, <1>2, <2>1, <2>2, EosSubmittedOrNot DEF PhaseInv
<1>22. ASSUME \/ \E delay \in RepeatDelays : SetRepeatPreviousFrameDelayUs(delay)
              \/ \E rate \in MaxFpsArgs : SetMaxFps(rate)
              \/ \E t \in StartTimes : SetStartTimeUs(t)
       PROVE  CodecPart'
  BY <1>2, <1>22 DEF SetRepeatPreviousFrameDelayUs, SetMaxFps, SetStartTimeUs, Setter, lifeVars
<1>23. CASE TakeMessage \/ MessageIgnored
  BY <1>2, <1>23 DEF TakeMessage, MessageIgnored, OnMessageReceived, lifeVars
<1>24. CASE MessageRepeats
  <2>1. phase = "executing" /\ phase' = phase
    BY <1>1, <1>24 DEF MessageRepeats, OnMessageReceived, lifeVars, PhaseInv
  <2> QED
    BY <1>1, <1>24, <2>1, RepeatSubmittedOrNot DEF MessageRepeats, RepeatTypeOK
<1>25. CASE UNCHANGED vars
  BY <1>2, <1>25 DEF vars, lifeVars
<1> QED
  BY <1>3, <1>5, <1>6, <1>7, <1>8, <1>9, <1>10, <1>11, <1>12, <1>13, <1>14, <1>15, <1>16,
     <1>17, <1>18, <1>19, <1>20, <1>21, <1>22, <1>23, <1>24, <1>25
     DEF Next, Callbacks, Continue, FillCodecBuffer, Lifecycle, Control

-----------------------------------------------------------------------------
(* The queue of timed actions. *)

ControlPart == ControlTypeOK /\ ActionInv

(* What is left of the queue once its first n entries are consumed. *)
LEMMA ActionsConsumed ==
    ASSUME ControlPart, NEW n \in DOMAIN mActionQueue,
           mActionQueue' = SubSeq(mActionQueue, n + 1, Len(mActionQueue)),
           mSuspended' \in BOOLEAN, UNCHANGED <<mLastActionTimeUs, mStopTimeUs, accepted>>
    PROVE  ControlPart'
<1> DEFINE q == mActionQueue
<1>1. q \in Seq(Actions) /\ Len(q) \in Nat /\ DOMAIN q = 1..Len(q) /\ n \in 1..Len(q)
  BY LenProperties DEF ControlPart, ControlTypeOK
<1>2. \A i \in (n + 1)..Len(q) : q[i] \in Actions
  BY <1>1, ElementOfSeq
<1>3. /\ q' \in Seq(Actions)
      /\ Len(q') = Len(q) - n
      /\ \A i \in 1..(Len(q) - n) : q'[i] = q[n + i]
  BY <1>1, <1>2, SubSeqProperties
<1>4. DOMAIN q' = 1..(Len(q) - n) /\ \A i \in 1..(Len(q) - n) : n + i \in 1..Len(q)
  BY <1>1, <1>3, LenProperties
<1> HIDE DEF q
<1>5. ControlTypeOK'
  BY <1>3 DEF q, ControlPart, ControlTypeOK
<1>6. ActionQueueOrdered'
  <2> SUFFICES ASSUME NEW i \in 1..(Len(q) - n), NEW j \in 1..(Len(q) - n), i < j
               PROVE  q'[i].time <= q'[j].time /\ q'[i].action # "STOP"
    BY <1>4 DEF q, ActionQueueOrdered
  <2>1. n + i \in 1..Len(q) /\ n + j \in 1..Len(q) /\ n + i < n + j
    BY <1>1, <1>4
  <2> QED
    BY <1>1, <1>3, <2>1 DEF q, ControlPart, ActionInv, ActionQueueOrdered
<1>7. ActionInv'
  <2> SUFFICES ASSUME NEW i \in 1..(Len(q) - n)
               PROVE  /\ q'[i].time <= mLastActionTimeUs
                      /\ q'[i].time >= 0
                      /\ mStopTimeUs = -1 => q'[i].action # "STOP"
    BY <1>4, <1>6 DEF q, ActionInv
  <2> QED
    BY <1>1, <1>3, <1>4 DEF q, ControlPart, ActionInv
<1> QED
  BY <1>5, <1>7 DEF ControlPart

(* A timed action is appended: it is not older than the last one, and no    *)
(* STOP is queued before it.                                                *)
LEMMA ActionQueued ==
    ASSUME ControlPart, NEW t \in ActionTimes, NEW action \in {"PAUSE", "RESUME", "STOP"},
           QueueAction(action, t)
    PROVE  ControlPart'
<1> DEFINE q == mActionQueue
           entry == [action |-> action, time |-> t]
<1>1. t \in Nat /\ mStopTimeUs = -1 /\ mLastActionTimeUs' = t
      /\ mLastActionTimeUs <= t /\ mSuspended' = mSuspended
      /\ q' = Append(q, entry) /\ accepted' = Append(accepted, entry)
      /\ mStopTimeUs' \in {-1, t}
      /\ (mStopTimeUs' = -1 => action # "STOP")
  BY ConstantsAssumption
     DEF QueueAction, ActionAccepted, Accept, ControlPart, ControlTypeOK
<1>2. entry \in Actions /\ entry.time = t /\ entry.action = action
  BY <1>1 DEF Actions
<1>3. q \in Seq(Actions) /\ accepted \in Seq(Actions) /\ Len(q) \in Nat /\ DOMAIN q = 1..Len(q)
      /\ mLastActionTimeUs \in Int /\ \A i \in 1..Len(q) : q[i].time \in Int
  <2>1. q \in Seq(Actions) /\ accepted \in Seq(Actions) /\ mLastActionTimeUs \in Int
    BY DEF ControlPart, ControlTypeOK
  <2>2. Len(q) \in Nat /\ DOMAIN q = 1..Len(q) /\ \A i \in 1..Len(q) : q[i] \in Actions
    BY <2>1, LenProperties, ElementOfSeq
  <2>3. \A a \in Actions : a.time \in Int
    BY DEF Actions
  <2> HIDE DEF q
  <2> QED
    BY <2>1, <2>2, <2>3
<1>4. /\ q' \in Seq(Actions) /\ DOMAIN q' = 1..(Len(q) + 1)
      /\ \A i \in 1..Len(q) : q'[i] = q[i]
      /\ q'[Len(q) + 1] = entry
  BY <1>1, <1>2, <1>3, AppendProperties, LenProperties
<1>5. accepted' \in Seq(Actions)
  BY <1>1, <1>2, <1>3, AppendProperties
<1> HIDE DEF q, entry
<1>6. ControlTypeOK'
  BY <1>1, <1>4, <1>5 DEF q, ControlPart, ControlTypeOK
<1>7. \A i \in 1..Len(q) : /\ q[i].time <= mLastActionTimeUs
                           /\ q[i].time >= 0
                           /\ q[i].action # "STOP"
  BY <1>1, <1>3 DEF q, ControlPart, ActionInv
<1>8. ActionQueueOrdered'
  <2> SUFFICES ASSUME NEW i \in 1..(Len(q) + 1), NEW j \in 1..(Len(q) + 1), i < j
               PROVE  q'[i].time <= q'[j].time /\ q'[i].action # "STOP"
    BY <1>4 DEF q, ActionQueueOrdered
  <2>1. i \in 1..Len(q)
    BY <1>3
  <2>2. CASE j \in 1..Len(q)
    BY <1>3, <1>4, <2>1, <2>2 DEF q, ControlPart, ActionInv, ActionQueueOrdered
  <2>3. CASE j = Len(q) + 1
    BY <1>1, <1>2, <1>3, <1>4, <1>7, <2>1, <2>3
  <2>4. j \in 1..Len(q) \/ j = Len(q) + 1
    BY <1>3
  <2> QED
    BY <2>2, <2>3, <2>4
<1>9. ActionInv'
  <2> SUFFICES ASSUME NEW i \in 1..(Len(q) + 1)
               PROVE  /\ q'[i].time <= t
                      /\ q'[i].time >= 0
                      /\ mStopTimeUs' = -1 => q'[i].action # "STOP"
    BY <1>1, <1>4, <1>8 DEF q, ActionInv
  <2>1. CASE i \in 1..Len(q)
    BY <1>1, <1>3, <1>4, <1>7, <2>1
  <2>2. CASE i = Len(q) + 1
    BY <1>1, <1>2, <1>4, <2>2
  <2> QED
    BY <1>3, <2>1, <2>2
<1> QED
  BY <1>6, <1>9 DEF ControlPart

(* An immediate pause or resume is recorded and leaves the queue alone. *)
LEMMA ActionAtOnce ==
    ASSUME ControlPart, NEW action \in {"PAUSE", "RESUME"}, Accept(action, -1),
           mSuspended' \in BOOLEAN, UNCHANGED <<mActionQueue, mLastActionTimeUs, mStopTimeUs>>
    PROVE  ControlPart'
<1>1. [action |-> action, time |-> -1] \in Actions
  BY DEF Actions
<1>2. accepted' \in Seq(Actions)
  BY <1>1, AppendProperties DEF Accept, ControlPart, ControlTypeOK
<1> QED
  BY <1>2 DEF ControlPart, ControlTypeOK, ActionInv, ActionQueueOrdered

LEMMA ControlStep == IInv /\ [Next]_vars => ControlPart'
<1> SUFFICES ASSUME IInv, [Next]_vars PROVE ControlPart'
  OBVIOUS
<1>1. ControlPart
  BY DEF IInv, TypeOK, ControlPart
<1>2. CASE UNCHANGED controlVars
  BY <1>1, <1>2 DEF controlVars, ControlPart, ControlTypeOK, ActionInv, ActionQueueOrdered
<1>3. ASSUME NEW t, ProcessActions(t) PROVE ControlPart'
  <2>1. CASE UNCHANGED <<mActionQueue, mSuspended>>
    BY <1>2, <1>3, <2>1 DEF ProcessActions, controlVars
  <2>2. CASE \E n \in DOMAIN mActionQueue :
               /\ mSuspended' = (mActionQueue[n].action = "PAUSE")
               /\ mActionQueue' = SubSeq(mActionQueue, n + 1, Len(mActionQueue))
    BY <1>1, <1>3, <2>2, ActionsConsumed DEF ProcessActions
  <2> QED
    BY <1>3, <2>1, <2>2 DEF ProcessActions
<1>4. CASE FillStops
  BY <1>1, <1>4 DEF FillStops, ControlPart, ControlTypeOK, ActionInv, ActionQueueOrdered
<1>5. CASE FillDiscards \/ FillSkips \/ FillSubmits \/ FillFails
  BY <1>3, <1>5 DEF FillDiscards, FillSkips, FillSubmits, FillFails, Encodable
<1>6. CASE Configure
  <2>1. /\ mSuspended' = FALSE /\ mStopTimeUs' = -1
        /\ mActionQueue' = <<>> /\ accepted' = <<>>
        /\ mLastActionTimeUs' = mLastActionTimeUs
    BY <1>6 DEF Configure
  <2> QED
    <3>1. ControlTypeOK'
      <4>1. <<>> \in Seq(Actions) /\ mLastActionTimeUs \in Nat \cup {-1}
        BY <1>1, EmptySeq DEF ControlPart, ControlTypeOK
      <4> QED
        BY <2>1, <4>1 DEF ControlTypeOK
    <3>2. DOMAIN mActionQueue' = {}
      BY <2>1
    <3> QED
      BY <3>1, <3>2 DEF ControlPart, ActionInv, ActionQueueOrdered
<1>7. ASSUME NEW t \in ActionTimes, NEW action \in {"PAUSE", "RESUME", "STOP"},
             QueueAction(action, t)
      PROVE  ControlPart'
  BY <1>1, <1>7, ActionQueued
<1>8. CASE SuspendNow
  BY <1>1, <1>8, ActionAtOnce DEF SuspendNow
<1>9. CASE ResumeNow
  BY <1>1, <1>9, ActionAtOnce DEF ResumeNow
<1>10. CASE \/ FillBails \/ EmptiedAborts \/ EmptiedSendsEos \/ EmptiedRepeats
            \/ StartSendsEos \/ StartLooper \/ OnFrameAvailable \/ QueueBuffer
  BY <1>2, <1>10 DEF FillBails, EmptiedAborts, EmptiedSendsEos, EmptiedRepeats,
     EmptiedWithoutFrames, StartSendsEos, StartLooper, OnFrameAvailable, FrameDeferred,
     FrameNotAcquired, FrameIgnored, FrameAcquired, CallbackBegins, QueueBuffer
<1>11. CASE \/ \E id \in CodecBuffers : OnInputBufferEmptied(id) \/ OnInputBufferAdded(id)
            \/ Start \/ Stop \/ Release \/ ReleaseReturns
            \/ SignalEndOfInputStream
  BY <1>2, <1>11 DEF OnInputBufferEmptied, OnInputBufferAdded, Start, Stop, Release,
     ReleaseReturns, SignalEndOfInputStream
<1>12. CASE \/ \E delay \in RepeatDelays : SetRepeatPreviousFrameDelayUs(delay)
            \/ \E rate \in MaxFpsArgs : SetMaxFps(rate)
            \/ \E t \in StartTimes : SetStartTimeUs(t)
            \/ TakeMessage \/ MessageRepeats \/ MessageIgnored
  BY <1>2, <1>12 DEF SetRepeatPreviousFrameDelayUs, SetMaxFps, SetStartTimeUs, Setter,
     TakeMessage, MessageRepeats, MessageIgnored, OnMessageReceived
<1>13. CASE UNCHANGED vars
  BY <1>2, <1>13 DEF vars
<1> QED
  BY <1>4, <1>5, <1>6, <1>7, <1>8, <1>9, <1>10, <1>11, <1>12, <1>13
     DEF Next, Callbacks, Continue, FillCodecBuffer, Lifecycle, Control

-----------------------------------------------------------------------------
(* Timestamps and the frame dropper. *)

(* The frame dropper's fields stay numbers, whatever its interval. *)
LEMMA DesiredAfterType ==
    ASSUME NEW desired \in Int, NEW interval \in Nat \cup {-1}, NEW ts \in Int
    PROVE  DesiredAfter(desired, interval, ts) \in Int
<1>1. CASE interval > 0
  <2>1. (ts - desired + kMaxJitterUs) \in Int
    BY RuleAssumption
  <2>2. IntervalsPast(desired, interval, ts) \in Int
    BY <1>1, <2>1 DEF IntervalsPast
  <2>3. (IntervalsPast(desired, interval, ts) + 1) * interval \in Int
    BY <1>1, <2>2
  <2>4. NextDesired(desired, interval, ts) \in Int
    BY <2>3 DEF NextDesired
  <2> QED
    BY <2>4 DEF DesiredAfter
<1>2. CASE ~(interval > 0)
  BY <1>2 DEF DesiredAfter
<1> QED
  BY <1>1, <1>2

LEMMA IntervalOfType ==
    ASSUME NEW rate \in Int, rate # 0
    PROVE  IntervalOf(rate) \in Nat \cup {-1}
<1>1. CASE rate < 0
  BY <1>1 DEF IntervalOf
<1>2. CASE rate > 0
  <2>1. UnitsPerSecond \in Nat
    BY RuleAssumption
  <2>2. UnitsPerSecond \div rate \in Nat
    BY <1>2, <2>1
  <2> QED
    BY <1>2, <2>2 DEF IntervalOf
<1> QED
  BY <1>1, <1>2

LEMMA TimeStep == IInv /\ [Next]_vars => TimeTypeOK'
<1> SUFFICES ASSUME IInv, [Next]_vars PROVE TimeTypeOK'
  OBVIOUS
<1>1. TimeTypeOK /\ RepeatTypeOK
  BY DEF IInv, TypeOK
<1>2. CASE UNCHANGED timeVars
  BY <1>1, <1>2 DEF timeVars, TimeTypeOK
<1>3. CASE UNCHANGED <<mLastFrameTimestampUs, mSkipFramesBeforeUs, mFrameDropper>>
           /\ mPrevFrameUs' \in Int
  BY <1>1, <1>3 DEF TimeTypeOK
<1>4. ASSUME Filling, HasItem
      PROVE  /\ Item \in VideoBuffers /\ Item.ts \in Int
             /\ Shifted(Item) \in VideoBuffers /\ Shifted(Item).ts \in Int
  <2>1. Item \in VideoBuffers
    BY <1>4, ItemTaken DEF Filling, IInv, TypeOK
  <2>2. Shifted(Item) \in VideoBuffers
    BY <1>1, <2>1, ShiftedType
  <2> QED
    BY <2>1, <2>2 DEF VideoBuffers
<1>5. ASSUME Filling, HasItem, PassRateLimit(Shifted(Item).ts)
      PROVE  mFrameDropper' \in [interval : Nat \cup {-1}, desired : Int]
  <2>1. DesiredAfter(mFrameDropper.desired, mFrameDropper.interval, Shifted(Item).ts) \in Int
    BY <1>1, <1>4, <1>5, DesiredAfterType DEF TimeTypeOK
  <2> QED
    BY <1>1, <1>5, <2>1 DEF PassRateLimit, TimeTypeOK
<1>6. CASE FillSkips
  BY <1>1, <1>4, <1>6 DEF FillSkips, Encodable, Remember, TimeTypeOK
<1>7. CASE FillSubmits
  BY <1>1, <1>4, <1>5, <1>7 DEF FillSubmits, Encodable, SubmitBuffer, Remember, TimeTypeOK
<1>8. CASE FillFails
  <2>1. mPrevFrameUs' \in Int
    BY <1>1, <1>4, <1>8 DEF FillFails, Encodable, SubmitBufferFails, TimeTypeOK
  <2> QED
    BY <1>1, <1>5, <1>8, <2>1 DEF FillFails, Encodable, TimeTypeOK
<1>9. ASSUME NEW b \in BOOLEAN, RepeatLatestBuffer(b) \/ RepeatLatestBufferFails(b)
      PROVE  mPrevFrameUs' \in Int
  <2>1. CASE UNCHANGED mPrevFrameUs
    BY <1>1, <2>1 DEF TimeTypeOK
  <2>2. CASE CanRepeat /\ mPrevFrameUs' = mLatestBuffer.ts
    BY <1>1, <2>2 DEF CanRepeat, RepeatTypeOK, VideoBuffers, NoBuffer
  <2> QED
    BY <1>9, <2>1, <2>2
       DEF RepeatLatestBuffer, RepeatLatestBufferFails, SubmitBuffer, SubmitBufferFails
<1>10. CASE EmptiedRepeats
  BY <1>2, <1>3, <1>9, <1>10 DEF EmptiedRepeats, EmptiedWithoutFrames, timeVars
<1>11. CASE ResumeNow
  BY <1>2, <1>3, <1>9, <1>11 DEF ResumeNow, ControlCall, timeVars
<1>12. CASE MessageRepeats
  <2>1. mFrameRepeatBlockedOnCodecBuffer \in BOOLEAN
    BY <1>1 DEF RepeatTypeOK
  <2> QED
    BY <1>3, <1>9, <1>12, <2>1 DEF MessageRepeats, OnMessageReceived
<1>13. CASE Configure
  BY <1>1, <1>13 DEF Configure, NoDropper, TimeTypeOK
<1>14. ASSUME NEW rate \in MaxFpsArgs, SetMaxFps(rate) PROVE TimeTypeOK'
  <2>1. rate \in Int
    BY ConstantsAssumption
  <2> QED
    BY <1>1, <1>14, <2>1, IntervalOfType DEF SetMaxFps, Setter, NoDropper, TimeTypeOK
<1>15. ASSUME NEW t \in StartTimes, SetStartTimeUs(t) PROVE TimeTypeOK'
  BY <1>1, <1>15, ConstantsAssumption DEF SetStartTimeUs, Setter, TimeTypeOK
<1>16. CASE \/ FillBails \/ FillStops \/ FillDiscards \/ EmptiedAborts \/ EmptiedSendsEos
            \/ StartSendsEos \/ StartLooper \/ OnFrameAvailable \/ QueueBuffer
  BY <1>2, <1>16 DEF FillBails, FillStops, FillDiscards, EmptiedAborts, EmptiedSendsEos,
     EmptiedWithoutFrames, StartSendsEos, StartLooper, OnFrameAvailable, FrameDeferred,
     FrameNotAcquired, FrameIgnored, FrameAcquired, CallbackBegins, QueueBuffer, timeVars
<1>17. CASE \/ \E id \in CodecBuffers : OnInputBufferEmptied(id) \/ OnInputBufferAdded(id)
            \/ Start \/ Stop \/ Release \/ ReleaseReturns
            \/ SignalEndOfInputStream
            \/ \E delay \in RepeatDelays : SetRepeatPreviousFrameDelayUs(delay)
  BY <1>2, <1>17 DEF OnInputBufferEmptied, OnInputBufferAdded, Start, Stop, Release,
     ReleaseReturns, SignalEndOfInputStream, SetRepeatPreviousFrameDelayUs, Setter, timeVars
<1>18. CASE \/ \E t \in ActionTimes, action \in {"PAUSE", "RESUME", "STOP"} :
                  QueueAction(action, t)
            \/ SuspendNow \/ TakeMessage \/ MessageIgnored
  BY <1>2, <1>18 DEF QueueAction, SuspendNow, ControlCall, TakeMessage, MessageIgnored,
     OnMessageReceived, timeVars
<1>19. CASE UNCHANGED vars
  BY <1>2, <1>19 DEF vars
<1> QED
  BY <1>6, <1>7, <1>8, <1>10, <1>11, <1>12, <1>13, <1>14, <1>15, <1>16, <1>17, <1>18, <1>19
     DEF Next, Callbacks, Continue, FillCodecBuffer, Lifecycle, Control

-----------------------------------------------------------------------------
(* The repeat messages.  With increasing generations there is at most one   *)
(* current message; what remains of SingleRepeatChain is that it finds a    *)
(* frame to repeat.                                                         *)

RepeatPart == RepeatTypeOK /\ RepeatInv

HasCurrent ==
    \/ \E i \in DOMAIN posted : posted[i] = mRepeatLastFrameGeneration
    \/ handling # 0 /\ handling = mRepeatLastFrameGeneration

Repeatable ==
    /\ ~mFrameRepeatBlockedOnCodecBuffer
    /\ mLatestBuffer.buf # Null
    /\ mOutstandingFrameRepeatCount > 0

RepeatFacts ==
    /\ RepeatTypeOK
    /\ GenerationInv
    /\ mLooper /\ HasCurrent => Repeatable
    /\ mFrameRepeatBlockedOnCodecBuffer /\ mLatestBuffer.buf # Null =>
          mOutstandingFrameRepeatCount > 0
    /\ ~mLooper /\ mLatestBuffer.buf # Null => Repeatable

LEMMA PostedIsIndexed ==
    ASSUME NEW s \in Seq(Nat)
    PROVE  DOMAIN s = 1..Len(s) /\ Len(s) \in Nat /\ \A i \in DOMAIN s : s[i] \in Nat
BY LenProperties, ElementOfSeq

LEMMA ChainKnown == ASSUME RepeatPart PROVE RepeatFacts
<1>1. ASSUME mLooper, HasCurrent PROVE Repeatable
  <2>1. PICK i \in CurrentMessages : TRUE
    BY <1>1 DEF HasCurrent, CurrentMessages
  <2> QED
    BY <1>1, <2>1 DEF RepeatPart, RepeatInv, SingleRepeatChain, Repeatable
<1> QED
  BY <1>1 DEF RepeatPart, RepeatInv, RepeatFacts, Repeatable

LEMMA ChainKept == ASSUME RepeatFacts' PROVE RepeatPart'
<1> DEFINE gen == mRepeatLastFrameGeneration'
<1>1. /\ DOMAIN posted' = 1..Len(posted')
      /\ \A i \in DOMAIN posted' : posted'[i] \in Nat /\ handling' < posted'[i]
      /\ \A i, j \in DOMAIN posted' : i < j => posted'[i] < posted'[j]
      /\ handling' \in Nat /\ gen \in Nat /\ Len(posted') \in Nat
  BY PostedIsIndexed DEF RepeatFacts, RepeatTypeOK, GenerationInv
<1>2. ASSUME NEW i \in DOMAIN posted', NEW j \in DOMAIN posted',
             posted'[i] = gen, posted'[j] = gen
      PROVE  i = j
  <2>1. i \in Int /\ j \in Int
    BY <1>1
  <2>2. ~(i < j) /\ ~(j < i)
    BY <1>1, <1>2
  <2> QED
    BY <2>1, <2>2
<1>3. ASSUME NEW i \in DOMAIN posted', posted'[i] = gen PROVE handling' # gen
  BY <1>1, <1>3
<1>4. ASSUME mLooper', NEW i \in CurrentMessages', NEW j \in CurrentMessages'
      PROVE  i = j /\ Repeatable'
  <2>1. /\ i = 0 \/ (i \in DOMAIN posted' /\ posted'[i] = gen)
        /\ j = 0 \/ (j \in DOMAIN posted' /\ posted'[j] = gen)
        /\ i = 0 \/ j = 0 =>
              (handling' # 0 /\ handling' = gen) \/ 0 \in DOMAIN posted'
    BY <1>4 DEF CurrentMessages
  <2>2. 0 \notin DOMAIN posted'
    BY <1>1
  <2>3. i = j
    BY <1>2, <1>3, <2>1, <2>2
  <2>4. HasCurrent'
    BY <2>1, <2>2 DEF HasCurrent
  <2> QED
    BY <1>4, <2>3, <2>4 DEF RepeatFacts
<1>5. SingleRepeatChain'
  BY <1>4 DEF SingleRepeatChain, Repeatable
<1> QED
  BY <1>5 DEF RepeatFacts, RepeatPart, RepeatInv, Repeatable

(* A new generation makes every message stale. *)
LEMMA GenerationBumped ==
    ASSUME RepeatFacts,
           mRepeatLastFrameGeneration' = mRepeatLastFrameGeneration + 1,
           mLatestBuffer' \in {mLatestBuffer, NoBuffer},
           UNCHANGED <<mFrameRepeatIntervalUs, mOutstandingFrameRepeatCount,
                       mFrameRepeatBlockedOnCodecBuffer, mLooper, posted, handling>>
    PROVE  RepeatFacts'
<1>1. RepeatTypeOK' /\ GenerationInv'
  <2>1. \A i \in DOMAIN posted : posted[i] \in Nat
    BY PostedIsIndexed DEF RepeatFacts, RepeatTypeOK
  <2> QED
    BY <2>1 DEF RepeatFacts, RepeatTypeOK, GenerationInv
<1>2. ~HasCurrent'
  <2>1. \A i \in DOMAIN posted : posted[i] \in Nat
    BY PostedIsIndexed DEF RepeatFacts, RepeatTypeOK
  <2> QED
    BY <2>1 DEF RepeatFacts, RepeatTypeOK, GenerationInv, HasCurrent
<1> QED
  BY <1>1, <1>2 DEF RepeatFacts, Repeatable, NoBuffer

(* The message posted last is the only current one. *)
LEMMA MessagePosted ==
    ASSUME RepeatTypeOK, GenerationInv,
           mRepeatLastFrameGeneration' = mRepeatLastFrameGeneration + 1,
           posted' = Append(posted, mRepeatLastFrameGeneration + 1),
           handling' \in {handling, 0}
    PROVE  posted' \in Seq(Nat) /\ GenerationInv'
<1> DEFINE gen == mRepeatLastFrameGeneration
           L == Len(posted)
<1>1. /\ DOMAIN posted = 1..L /\ L \in Nat /\ gen \in Nat /\ handling \in Nat
      /\ \A i \in 1..L : posted[i] \in Nat
      /\ posted \in Seq(Nat)
  BY PostedIsIndexed DEF RepeatTypeOK
<1>2. /\ posted' \in Seq(Nat) /\ DOMAIN posted' = 1..(L + 1)
      /\ \A i \in 1..L : posted'[i] = posted[i]
      /\ posted'[L + 1] = gen + 1
  BY <1>1, AppendProperties, LenProperties
<1>3. /\ \A i \in 1..L : posted[i] <= gen /\ handling < posted[i]
      /\ \A i, j \in 1..L : i < j => posted[i] < posted[j]
      /\ handling <= gen
  BY <1>1 DEF GenerationInv
<1> HIDE DEF L, gen
<1>4. \A i \in 1..(L + 1) : posted'[i] <= gen + 1 /\ handling' < posted'[i]
  <2> TAKE i \in 1..(L + 1)
  <2>1. CASE i \in 1..L
    BY <1>1, <1>2, <1>3, <2>1
  <2>2. CASE i = L + 1
    BY <1>1, <1>2, <1>3, <2>2
  <2> QED
    BY <1>1, <2>1, <2>2
<1>5. \A i, j \in 1..(L + 1) : i < j => posted'[i] < posted'[j]
  <2> SUFFICES ASSUME NEW i \in 1..(L + 1), NEW j \in 1..(L + 1), i < j
               PROVE  posted'[i] < posted'[j]
    OBVIOUS
  <2>1. i \in 1..L
    BY <1>1
  <2>2. CASE j \in 1..L
    BY <1>2, <1>3, <2>1, <2>2
  <2>3. CASE j = L + 1
    BY <1>1, <1>2, <1>3, <2>1, <2>3
  <2>4. j \in 1..L \/ j = L + 1
    BY <1>1
  <2> QED
    BY <2>2, <2>3, <2>4
<1>6. handling' <= gen + 1 /\ mRepeatLastFrameGeneration' = gen + 1
  BY <1>1, <1>3 DEF gen
<1> QED
  BY <1>2, <1>4, <1>5, <1>6 DEF GenerationInv

(* A repeat is queued for a latest buffer that has repeats left. *)
LEMMA RepeatQueued ==
    ASSUME RepeatFacts, QueueFrameRepeat, mLatestBuffer' \in VideoBuffers,
           mOutstandingFrameRepeatCount' \in 0..kRepeatLastFrameCount,
           mOutstandingFrameRepeatCount' > 0,
           handling' \in {handling, 0},
           UNCHANGED <<mFrameRepeatIntervalUs, mLooper>>
    PROVE  RepeatFacts'
<1>0. mFrameRepeatBlockedOnCodecBuffer' \in BOOLEAN /\ handling' \in Nat
  <2>1. mFrameRepeatBlockedOnCodecBuffer' \in BOOLEAN
    BY Zenon DEF QueueFrameRepeat
  <2>2. handling' \in Nat
    BY DEF RepeatFacts, RepeatTypeOK
  <2> QED
    BY <2>1, <2>2
<1>1. Repeatable'
  BY ConstantTypes DEF QueueFrameRepeat, Repeatable, VideoBuffers, Null
<1>2. CASE mLooper
  <2>1. posted' \in Seq(Nat) /\ GenerationInv'
    BY <1>2, MessagePosted DEF RepeatFacts, QueueFrameRepeat
  <2>2. RepeatTypeOK'
    BY <1>0, <1>2, <2>1 DEF RepeatFacts, RepeatTypeOK, QueueFrameRepeat
  <2> QED
    BY <1>1, <2>1, <2>2 DEF RepeatFacts, Repeatable
<1>3. CASE ~mLooper
  <2>1. UNCHANGED <<mRepeatLastFrameGeneration, posted>>
    BY <1>3 DEF QueueFrameRepeat
  <2>2. RepeatTypeOK'
    BY <1>0, <2>1 DEF RepeatFacts, RepeatTypeOK
  <2>3. GenerationInv'
    <3>1. \A i \in DOMAIN posted : posted[i] \in Nat
      BY PostedIsIndexed DEF RepeatFacts, RepeatTypeOK
    <3> QED
      BY <2>1, <3>1 DEF RepeatFacts, RepeatTypeOK, GenerationInv
  <2> QED
    BY <1>1, <2>2, <2>3 DEF RepeatFacts, Repeatable
<1> QED
  BY <1>2, <1>3

(* When repeatLatestBuffer_l is called, no other message is current: the    *)
(* caller delivers the current one, or makes up for a blocked repeat.       *)
RepeatTurn ==
    /\ mLatestBuffer.buf # Null => mLooper /\ mOutstandingFrameRepeatCount > 0
    /\ mLooper => \/ ~HasCurrent /\ handling' = handling
                  \/ handling = mRepeatLastFrameGeneration /\ handling' = 0
    /\ handling' \in {handling, 0}

LEMMA TurnOfBlocked ==
    ASSUME RepeatFacts, mFrameRepeatBlockedOnCodecBuffer, UNCHANGED handling
    PROVE  RepeatTurn
BY DEF RepeatFacts, Repeatable, RepeatTurn

LEMMA TurnOfMessage ==
    ASSUME RepeatFacts, mLooper, handling # 0, MessageIsCurrent, handling' = 0
    PROVE  RepeatTurn /\ ~mFrameRepeatBlockedOnCodecBuffer
<1>1. HasCurrent
  BY DEF MessageIsCurrent, HasCurrent
<1> QED
  BY <1>1 DEF RepeatFacts, Repeatable, RepeatTurn, MessageIsCurrent

(* After its turn no message is current, unless a new one is posted. *)
LEMMA TurnTaken ==
    ASSUME RepeatTypeOK, GenerationInv, RepeatTurn,
           UNCHANGED <<mLooper, mRepeatLastFrameGeneration, posted>>
    PROVE  GenerationInv' /\ (mLooper => ~HasCurrent')
<1>1. \A i \in DOMAIN posted : posted[i] \in Nat
  BY PostedIsIndexed DEF RepeatTypeOK
<1>2. GenerationInv'
  BY <1>1 DEF RepeatTypeOK, GenerationInv, RepeatTurn
<1>3. ASSUME mLooper PROVE ~HasCurrent'
  <2>1. CASE ~HasCurrent /\ handling' = handling
    BY <2>1 DEF HasCurrent
  <2>2. CASE handling = mRepeatLastFrameGeneration /\ handling' = 0
    BY <1>1, <2>2 DEF RepeatTypeOK, GenerationInv, HasCurrent
  <2> QED
    BY <1>3, <2>1, <2>2 DEF RepeatTurn
<1> QED
  BY <1>2, <1>3

LEMMA RepeatMade ==
    ASSUME RepeatFacts, RepeatTurn, RepeatLatestBuffer(FALSE),
           UNCHANGED <<mFrameRepeatIntervalUs, mLooper>>
    PROVE  RepeatFacts'
<1>1. /\ mLatestBuffer.buf # Null /\ mLooper /\ mOutstandingFrameRepeatCount > 0
      /\ mOutstandingFrameRepeatCount' = mOutstandingFrameRepeatCount - 1
      /\ mLatestBuffer \in VideoBuffers
  BY DEF RepeatLatestBuffer, CanRepeat, RepeatTurn, RepeatFacts, RepeatTypeOK, NoBuffer
<1>2. mOutstandingFrameRepeatCount' \in 0..kRepeatLastFrameCount
  BY <1>1, ConstantTypes DEF RepeatFacts, RepeatTypeOK
<1>3. CASE mOutstandingFrameRepeatCount > 1
  <2>1. mLatestBuffer' = AfterInterval(mLatestBuffer) /\ QueueFrameRepeat
    BY <1>3 DEF RepeatLatestBuffer
  <2>2. mLatestBuffer' \in VideoBuffers
    BY <1>1, <2>1, AfterIntervalType DEF RepeatFacts
  <2>3. mOutstandingFrameRepeatCount' > 0
    BY <1>1, <1>3 DEF RepeatFacts, RepeatTypeOK
  <2>4. handling' \in {handling, 0}
    BY DEF RepeatTurn
  <2> QED
    BY <1>2, <2>1, <2>2, <2>3, <2>4, RepeatQueued
<1>4. CASE ~(mOutstandingFrameRepeatCount > 1)
  <2>1. /\ mFrameRepeatBlockedOnCodecBuffer' = FALSE
        /\ UNCHANGED <<mLatestBuffer, mRepeatLastFrameGeneration, posted>>
    BY <1>4 DEF RepeatLatestBuffer
  <2>2. GenerationInv' /\ ~HasCurrent'
    BY <1>1, <2>1, TurnTaken DEF RepeatFacts
  <2>3. RepeatTypeOK'
    <3>1. handling' \in Nat
      BY DEF RepeatFacts, RepeatTypeOK, RepeatTurn
    <3> QED
      BY <1>2, <2>1, <3>1 DEF RepeatFacts, RepeatTypeOK
  <2> QED
    BY <1>1, <2>1, <2>2, <2>3 DEF RepeatFacts
<1> QED
  BY <1>3, <1>4

LEMMA RepeatNotMade ==
    ASSUME RepeatFacts, RepeatTurn, NEW b \in BOOLEAN, RepeatLatestBufferFails(b),
           UNCHANGED <<mFrameRepeatIntervalUs, mLooper>>
    PROVE  RepeatFacts'
<1>1. /\ mFrameRepeatBlockedOnCodecBuffer' = b
      /\ UNCHANGED <<mLatestBuffer, mRepeatLastFrameGeneration,
                     mOutstandingFrameRepeatCount, posted>>
  BY DEF RepeatLatestBufferFails
<1>2. GenerationInv' /\ (mLooper => ~HasCurrent')
  BY <1>1, TurnTaken DEF RepeatFacts
<1>3. RepeatTypeOK'
  BY <1>1 DEF RepeatFacts, RepeatTypeOK, RepeatTurn
<1>4. mLatestBuffer.buf # Null => mLooper /\ mOutstandingFrameRepeatCount > 0
  BY DEF RepeatTurn
<1> QED
  BY <1>1, <1>2, <1>3, <1>4 DEF RepeatFacts

(* The looper's thread takes the oldest message. *)
LEMMA MessageTaken == ASSUME RepeatFacts, TakeMessage PROVE RepeatFacts'
<1> DEFINE L == Len(posted)
<1>1. /\ DOMAIN posted = 1..L /\ L \in Nat /\ L > 0 /\ posted \in Seq(Nat)
      /\ \A i \in 1..L : posted[i] \in Nat
  BY PostedIsIndexed DEF RepeatFacts, RepeatTypeOK, TakeMessage
<1>2. /\ handling' = posted[1] /\ mLooper /\ mLooper' = mLooper /\ UNCHANGED repeatVars
      /\ posted' \in Seq(Nat) /\ DOMAIN posted' = 1..(L - 1)
      /\ \A i \in 1..(L - 1) : posted'[i] = posted[i + 1]
  BY <1>1, HeadTailProperties, LenProperties DEF TakeMessage
<1>3. /\ \A i \in 1..L : posted[i] <= mRepeatLastFrameGeneration
      /\ \A i, j \in 1..L : i < j => posted[i] < posted[j]
  BY <1>1 DEF RepeatFacts, GenerationInv
<1> HIDE DEF L
<1>4. \A i \in 1..(L - 1) : i + 1 \in 1..L /\ 1 \in 1..L /\ 1 < i + 1
  BY <1>1
<1>5. \A i \in 1..(L - 1) :
         posted'[i] <= mRepeatLastFrameGeneration /\ handling' < posted'[i]
  BY <1>2, <1>3, <1>4
<1>6. \A i, j \in 1..(L - 1) : i < j => posted'[i] < posted'[j]
  BY <1>1, <1>2, <1>3, <1>4
<1>7. handling' <= mRepeatLastFrameGeneration /\ handling' \in Nat
  BY <1>1, <1>2, <1>3
<1>8. GenerationInv'
  BY <1>2, <1>5, <1>6, <1>7 DEF GenerationInv, repeatVars
<1>9. HasCurrent' => HasCurrent
  <2>1. ASSUME NEW i \in DOMAIN posted', posted'[i] = mRepeatLastFrameGeneration'
        PROVE  HasCurrent
    <3>1. i + 1 \in DOMAIN posted /\ posted[i + 1] = mRepeatLastFrameGeneration
      BY <1>1, <1>2, <1>4, <2>1 DEF repeatVars
    <3> QED
      BY <3>1 DEF HasCurrent
  <2>2. ASSUME handling' = mRepeatLastFrameGeneration' PROVE HasCurrent
    <3>1. 1 \in DOMAIN posted /\ posted[1] = mRepeatLastFrameGeneration
      BY <1>1, <1>2, <2>2 DEF repeatVars
    <3> QED
      BY <3>1 DEF HasCurrent
  <2> QED
    BY <2>1, <2>2 DEF HasCurrent
<1>10. RepeatTypeOK'
  BY <1>2, <1>7 DEF RepeatFacts, RepeatTypeOK, repeatVars
<1> QED
  BY <1>2, <1>8, <1>9, <1>10 DEF RepeatFacts, Repeatable, repeatVars

LEMMA EosEndsRepeats ==
    ASSUME RepeatFacts, SubmitEndOfInputStream,
           UNCHANGED <<mFrameRepeatIntervalUs, mOutstandingFrameRepeatCount,
                       mFrameRepeatBlockedOnCodecBuffer, looperVars>>
    PROVE  RepeatFacts'
<1>1. \/ /\ mRepeatLastFrameGeneration' = mRepeatLastFrameGeneration + 1
         /\ mLatestBuffer' = NoBuffer
      \/ UNCHANGED <<mRepeatLastFrameGeneration, mLatestBuffer>>
  BY DEF SubmitEndOfInputStream
<1>2. CASE UNCHANGED <<mRepeatLastFrameGeneration, mLatestBuffer>>
  BY <1>2 DEF looperVars, RepeatFacts, RepeatTypeOK, GenerationInv, HasCurrent, Repeatable
<1>3. CASE /\ mRepeatLastFrameGeneration' = mRepeatLastFrameGeneration + 1
           /\ mLatestBuffer' = NoBuffer
  BY <1>3, GenerationBumped DEF looperVars
<1> QED
  BY <1>1, <1>2, <1>3

LEMMA RepeatStep == IInv /\ [Next]_vars => RepeatPart'
<1> SUFFICES ASSUME IInv, [Next]_vars PROVE RepeatFacts'
  BY ChainKept
<1>1. RepeatFacts /\ PhaseInv /\ TypeOK
  BY ChainKnown DEF IInv, TypeOK, RepeatPart
<1>2. CASE UNCHANGED <<repeatVars, looperVars>>
  BY <1>1, <1>2 DEF repeatVars, looperVars, RepeatFacts, RepeatTypeOK, GenerationInv,
                    HasCurrent, Repeatable
<1>3. CASE FillBails \/ FillDiscards
  BY <1>2, <1>3 DEF FillBails, FillDiscards
<1>4. CASE FillStops
  BY <1>1, <1>4, EosEndsRepeats DEF FillStops
<1>5. CASE FillSkips \/ FillSubmits
  <2>1. /\ Filling /\ HasItem /\ Remember(Item)
        /\ UNCHANGED <<mFrameRepeatIntervalUs, mLooper, handling>>
    BY <1>5 DEF FillSkips, FillSubmits, Encodable
  <2>2. CASE mFrameRepeatIntervalUs > 0
    <3>1. Shifted(Item) \in VideoBuffers
      BY <1>1, <2>1, ItemTaken, ShiftedType DEF IInv, TypeOK, Filling
    <3>2. /\ mLatestBuffer' = AfterInterval(Shifted(Item)) /\ QueueFrameRepeat
          /\ mOutstandingFrameRepeatCount' = kRepeatLastFrameCount
      BY <2>1, <2>2 DEF Remember, SetLatestBuffer
    <3>3. mLatestBuffer' \in VideoBuffers
      BY <1>1, <3>1, <3>2, AfterIntervalType DEF RepeatFacts
    <3> QED
      BY <1>1, <2>1, <3>2, <3>3, RepeatQueued, ConstantTypes
  <2>3. CASE ~(mFrameRepeatIntervalUs > 0)
    BY <1>2, <2>1, <2>3 DEF Remember, repeatVars, looperVars
  <2> QED
    BY <2>2, <2>3
<1>6. CASE FillFails
  BY <1>2, <1>6 DEF FillFails, Encodable, repeatVars, looperVars
<1>7. CASE FrameNotAcquired \/ FrameIgnored
  BY <1>2, <1>7 DEF FrameNotAcquired, FrameIgnored, CallbackBegins, repeatVars
<1>8. CASE FrameDeferred \/ FrameAcquired
  <2>1. /\ mRepeatLastFrameGeneration' = mRepeatLastFrameGeneration + 1
        /\ UNCHANGED <<mLatestBuffer, mFrameRepeatIntervalUs, mOutstandingFrameRepeatCount,
                       mFrameRepeatBlockedOnCodecBuffer, looperVars>>
    BY <1>8 DEF FrameDeferred, FrameAcquired, CallbackBegins
  <2> QED
    BY <1>1, <2>1, GenerationBumped DEF looperVars
<1>9. CASE \/ QueueBuffer \/ EmptiedAborts \/ Start \/ Stop \/ ReleaseReturns
           \/ \E id \in CodecBuffers : OnInputBufferEmptied(id) \/ OnInputBufferAdded(id)
  BY <1>2, <1>9 DEF QueueBuffer, EmptiedAborts, Start, Stop, ReleaseReturns,
                    OnInputBufferEmptied, OnInputBufferAdded
<1>10. CASE EmptiedSendsEos
  <2>1. /\ SubmitEndOfInputStream
        /\ UNCHANGED <<mFrameRepeatIntervalUs, mOutstandingFrameRepeatCount,
                       mFrameRepeatBlockedOnCodecBuffer, looperVars>>
    BY <1>10 DEF EmptiedSendsEos, EmptiedWithoutFrames, looperVars
  <2> QED
    BY <1>1, <2>1, EosEndsRepeats
<1>11. CASE EmptiedRepeats
  <2>1. UNCHANGED <<mFrameRepeatIntervalUs, mLooper, handling>>
    BY <1>11 DEF EmptiedRepeats, EmptiedWithoutFrames
  <2>2. \/ /\ mFrameRepeatBlockedOnCodecBuffer
           /\ RepeatLatestBuffer(FALSE) \/ RepeatLatestBufferFails(FALSE)
        \/ UNCHANGED <<repeatVars, looperVars>>
    BY <1>11 DEF EmptiedRepeats, EmptiedWithoutFrames, repeatVars, looperVars
  <2>3. CASE /\ mFrameRepeatBlockedOnCodecBuffer
             /\ RepeatLatestBuffer(FALSE) \/ RepeatLatestBufferFails(FALSE)
    <3>1. RepeatTurn
      BY <1>1, <2>1, <2>3, TurnOfBlocked
    <3> QED
      BY <1>1, <2>1, <2>3, <3>1, RepeatMade, RepeatNotMade
  <2> QED
    BY <1>2, <2>2, <2>3
<1>12. CASE Configure
  <2>1. posted = <<>> /\ handling = 0 /\ UNCHANGED looperVars
    BY <1>1, <1>12 DEF Configure, PhaseInv
  <2>2. /\ mFrameRepeatIntervalUs' = -1 /\ mRepeatLastFrameGeneration' = 0
        /\ mOutstandingFrameRepeatCount' = 0 /\ mFrameRepeatBlockedOnCodecBuffer' = FALSE
        /\ mLatestBuffer' = NoBuffer
    BY <1>12 DEF Configure
  <2> QED
    <3>1. posted' = <<>> /\ DOMAIN posted' = {} /\ handling' = 0
      BY <2>1 DEF looperVars
    <3>2. RepeatTypeOK'
      <4>1. mFrameRepeatBlockedOnCodecBuffer' \in BOOLEAN
        BY Zenon, <2>2
      <4>2. mOutstandingFrameRepeatCount' \in 0..kRepeatLastFrameCount
        BY <2>2, ConstantTypes
      <4>3. mLooper' \in BOOLEAN /\ posted' \in Seq(Nat) /\ handling' \in Nat
        BY <1>1, <2>1 DEF looperVars, RepeatFacts, RepeatTypeOK
      <4> QED
        BY <2>2, <4>1, <4>2, <4>3 DEF RepeatTypeOK
    <3>3. GenerationInv' /\ ~HasCurrent'
      BY <2>2, <3>1 DEF GenerationInv, HasCurrent
    <3> QED
      BY <2>2, <3>2, <3>3 DEF RepeatFacts, NoBuffer
<1>13. CASE StartSendsEos
  <2>1. /\ \/ SubmitEndOfInputStream
           \/ UNCHANGED <<mRepeatLastFrameGeneration, mLatestBuffer>>
        /\ UNCHANGED <<mFrameRepeatIntervalUs, mOutstandingFrameRepeatCount,
                       mFrameRepeatBlockedOnCodecBuffer, looperVars>>
    BY <1>13 DEF StartSendsEos
  <2> QED
    BY <1>1, <1>2, <2>1, EosEndsRepeats DEF repeatVars
<1>14. CASE StartLooper
  <2>1. phase = "executing"
    BY <1>1, <1>14 DEF StartLooper, PhaseInv
  <2>2. UNCHANGED <<mLatestBuffer, mFrameRepeatIntervalUs, mOutstandingFrameRepeatCount,
                    handling>>
    BY <1>14 DEF StartLooper
  <2>3. CASE UNCHANGED <<mLooper, posted, mFrameRepeatBlockedOnCodecBuffer,
                         mRepeatLastFrameGeneration>>
    BY <1>2, <2>2, <2>3 DEF repeatVars, looperVars
  <2>4. CASE /\ ~mLooper /\ mLooper' /\ mLatestBuffer.buf = Null
             /\ UNCHANGED <<posted, mFrameRepeatBlockedOnCodecBuffer,
                            mRepeatLastFrameGeneration>>
    <3>1. posted = <<>> /\ handling = 0
      BY <1>1, <2>1, <2>4 DEF PhaseInv
    <3> QED
      BY <1>1, <2>2, <2>4, <3>1 DEF RepeatFacts, RepeatTypeOK, GenerationInv, HasCurrent
  <2>5. CASE /\ ~mLooper /\ mLooper' /\ mLatestBuffer.buf # Null
             /\ mLooper' \in BOOLEAN /\ mFrameRepeatBlockedOnCodecBuffer' \in BOOLEAN
             /\ ~mFrameRepeatBlockedOnCodecBuffer'
             /\ mRepeatLastFrameGeneration' = mRepeatLastFrameGeneration + 1
             /\ posted' = Append(posted, mRepeatLastFrameGeneration + 1)
    <3>1. posted' \in Seq(Nat) /\ GenerationInv'
      BY <1>1, <2>2, <2>5, MessagePosted DEF RepeatFacts
    <3>2. Repeatable'
      BY <1>1, <2>2, <2>5 DEF RepeatFacts, Repeatable
    <3>3. RepeatTypeOK'
      BY <1>1, <2>2, <2>5, <3>1 DEF RepeatFacts, RepeatTypeOK
    <3> QED
      BY <3>1, <3>2, <3>3 DEF RepeatFacts, Repeatable
  <2> QED
    BY <1>14, <2>3, <2>4, <2>5 DEF StartLooper
<1>15. CASE Release
  <2>1. /\ mLooper' = FALSE /\ posted' = <<>> /\ mLatestBuffer' = NoBuffer
        /\ UNCHANGED <<mFrameRepeatIntervalUs, mRepeatLastFrameGeneration,
                       mOutstandingFrameRepeatCount, mFrameRepeatBlockedOnCodecBuffer,
                       handling>>
    BY <1>15 DEF Release
  <2>2. posted' \in Seq(Nat) /\ DOMAIN posted' = {}
    BY <2>1, EmptySeq
  <2>3. RepeatTypeOK' /\ GenerationInv'
    BY <1>1, <2>1, <2>2 DEF RepeatFacts, RepeatTypeOK, GenerationInv
  <2> QED
    BY <2>1, <2>3 DEF RepeatFacts, NoBuffer
<1>16. ASSUME \/ \E t \in ActionTimes, action \in {"PAUSE", "RESUME", "STOP"} :
                    QueueAction(action, t)
              \/ SuspendNow
       PROVE  RepeatFacts'
  BY <1>2, <1>16 DEF QueueAction, SuspendNow, ControlCall, repeatVars, looperVars
<1>17. CASE ResumeNow
  <2>1. UNCHANGED <<mFrameRepeatIntervalUs, mLooper, handling>>
    BY <1>17 DEF ResumeNow, ControlCall
  <2>2. \/ /\ mFrameRepeatBlockedOnCodecBuffer
           /\ RepeatLatestBuffer(FALSE) \/ RepeatLatestBufferFails(TRUE)
        \/ UNCHANGED <<repeatVars, looperVars>>
    BY <1>17 DEF ResumeNow, ControlCall, repeatVars, looperVars
  <2>3. CASE /\ mFrameRepeatBlockedOnCodecBuffer
             /\ RepeatLatestBuffer(FALSE) \/ RepeatLatestBufferFails(TRUE)
    <3>1. RepeatTurn
      BY <1>1, <2>1, <2>3, TurnOfBlocked
    <3> QED
      BY <1>1, <2>1, <2>3, <3>1, RepeatMade, RepeatNotMade
  <2> QED
    BY <1>2, <2>2, <2>3
<1>18. CASE SignalEndOfInputStream
  <2>1. /\ \/ SubmitEndOfInputStream
           \/ UNCHANGED <<mRepeatLastFrameGeneration, mLatestBuffer>>
        /\ UNCHANGED <<mFrameRepeatIntervalUs, mOutstandingFrameRepeatCount,
                       mFrameRepeatBlockedOnCodecBuffer, looperVars>>
    BY <1>18 DEF SignalEndOfInputStream
  <2> QED
    BY <1>1, <1>2, <2>1, EosEndsRepeats DEF repeatVars
<1>19. ASSUME NEW delay \in RepeatDelays, SetRepeatPreviousFrameDelayUs(delay)
       PROVE  RepeatFacts'
  <2>1. /\ mFrameRepeatIntervalUs' \in Nat
        /\ UNCHANGED <<mLatestBuffer, mRepeatLastFrameGeneration,
                       mOutstandingFrameRepeatCount, mFrameRepeatBlockedOnCodecBuffer,
                       looperVars>>
    BY <1>19, ConstantsAssumption DEF SetRepeatPreviousFrameDelayUs, Setter
  <2> QED
    BY <1>1, <2>1 DEF looperVars, RepeatFacts, RepeatTypeOK, GenerationInv,
                      HasCurrent, Repeatable
<1>20. CASE (\E rate \in MaxFpsArgs : SetMaxFps(rate)) \/ (\E t \in StartTimes : SetStartTimeUs(t))
  BY <1>2, <1>20 DEF SetMaxFps, SetStartTimeUs, Setter, repeatVars
<1>21. CASE TakeMessage
  BY <1>1, <1>21, MessageTaken
<1>22. CASE MessageRepeats
  <2>1. /\ UNCHANGED <<mFrameRepeatIntervalUs, mLooper>> /\ handling # 0 /\ handling' = 0
        /\ MessageIsCurrent /\ mExecuting
        /\ \/ RepeatLatestBuffer(mFrameRepeatBlockedOnCodecBuffer)
           \/ RepeatLatestBufferFails(TRUE)
    BY <1>22 DEF MessageRepeats, OnMessageReceived
  <2>2. mLooper
    BY <1>1, <2>1 DEF PhaseInv
  <2>3. RepeatTurn /\ mFrameRepeatBlockedOnCodecBuffer = FALSE
    BY <1>1, <2>1, <2>2, TurnOfMessage DEF RepeatFacts, RepeatTypeOK
  <2> QED
    BY <1>1, <2>1, <2>3, RepeatMade, RepeatNotMade
<1>23. CASE MessageIgnored
  <2>1. UNCHANGED <<repeatVars, mLooper, posted>> /\ handling' = 0
    BY <1>23 DEF MessageIgnored, OnMessageReceived, repeatVars
  <2>2. \A i \in DOMAIN posted : posted[i] \in Nat
    BY <1>1, PostedIsIndexed DEF RepeatFacts, RepeatTypeOK
  <2>3. GenerationInv' /\ (HasCurrent' => HasCurrent)
    BY <1>1, <2>1, <2>2 DEF RepeatFacts, RepeatTypeOK, GenerationInv, HasCurrent, repeatVars
  <2> QED
    BY <1>1, <2>1, <2>3 DEF RepeatFacts, RepeatTypeOK, Repeatable, repeatVars
<1>24. CASE UNCHANGED vars
  BY <1>2, <1>24 DEF vars
<1> QED
  BY <1>3, <1>4, <1>5, <1>6, <1>7, <1>8, <1>9, <1>10, <1>11, <1>12, <1>13, <1>14, <1>15,
     <1>16, <1>17, <1>18, <1>19, <1>20, <1>21, <1>22, <1>23, <1>24
     DEF Next, Callbacks, OnFrameAvailable, Continue, FillCodecBuffer, Lifecycle, Control

-----------------------------------------------------------------------------
(* The inductive invariant, and what follows from it. *)

LEMMA InitIInv == Init => IInv
<1> SUFFICES ASSUME Init PROVE IInv
  OBVIOUS
<1>1. QueueTypeOK /\ QueueAccounted
  <2>1. queued = <<>> /\ mAvailableBuffers = <<>> /\ undelivered = 0 /\ produced = 0
        /\ mNumAvailableUnacquiredBuffers = 0
    BY DEF Init
  <2>2. <<>> \in Seq(VideoBuffers) /\ Len(<<>>) = 0
    BY EmptySeq
  <2> QED
    BY <2>1, <2>2, ConstantTypes DEF QueueTypeOK, QueueAccounted
<1>2. LifeTypeOK /\ PhaseInv
  <2>1. /\ phase = "unbound" /\ session = 0 /\ mMutex = "free"
        /\ ~mComponent /\ ~mExecuting /\ ~mLooper /\ posted = <<>> /\ handling = 0
    BY DEF Init
  <2>2. /\ mComponent \in BOOLEAN /\ mExecuting \in BOOLEAN
        /\ mEndOfStream \in BOOLEAN /\ mEndOfStreamSent \in BOOLEAN
    BY Zenon DEF Init
  <2>3. LifeTypeOK
    BY <2>1, <2>2, ConstantsAssumption DEF LifeTypeOK
  <2> QED
    BY <2>1, <2>3 DEF PhaseInv
<1>3. CodecTypeOK /\ CodecInv
  <2>1. /\ mFreeCodecBuffers = <<>> /\ encoded = <<>> /\ phase = "unbound"
        /\ mSubmittedCodecBuffers = [id \in CodecBuffers |-> NotSubmitted]
    BY DEF Init
  <2> QED
    BY <2>1 DEF CodecTypeOK, CodecInv, CodecBuffersConserved, FreeSet
<1>4. ControlTypeOK /\ ActionInv
  <2>1. /\ mActionQueue = <<>> /\ accepted = <<>> /\ DOMAIN mActionQueue = {}
        /\ mLastActionTimeUs = -1 /\ mStopTimeUs = -1
    BY DEF Init
  <2>2. mSuspended \in BOOLEAN
    BY Zenon DEF Init
  <2>3. <<>> \in Seq(Actions)
    BY EmptySeq
  <2> QED
    BY <2>1, <2>2, <2>3 DEF ControlTypeOK, ActionInv, ActionQueueOrdered
<1>5. RepeatTypeOK
  <2>1. mFrameRepeatBlockedOnCodecBuffer \in BOOLEAN /\ mLooper \in BOOLEAN
    BY Zenon DEF Init
  <2>2. /\ mLatestBuffer = NoBuffer /\ mFrameRepeatIntervalUs = -1
        /\ mRepeatLastFrameGeneration = 0 /\ mOutstandingFrameRepeatCount = 0
        /\ posted = <<>> /\ handling = 0
    BY DEF Init
  <2>3. mOutstandingFrameRepeatCount \in 0..kRepeatLastFrameCount
    BY <2>2, ConstantTypes
  <2> QED
    BY <2>1, <2>2, <2>3 DEF RepeatTypeOK
<1>6. RepeatInv
  BY DEF Init, RepeatInv, GenerationInv, SingleRepeatChain, NoBuffer
<1>7. TimeTypeOK
  BY DEF Init, TimeTypeOK, NoDropper
<1> QED
  BY <1>1, <1>2, <1>3, <1>4, <1>5, <1>6, <1>7 DEF IInv, TypeOK

LEMMA StepIInv == IInv /\ [Next]_vars => IInv'
<1> SUFFICES ASSUME IInv, [Next]_vars PROVE IInv'
  OBVIOUS
<1>1. QueueInv' /\ LifeInv' /\ CodecPart' /\ ControlPart' /\ RepeatPart' /\ TimeTypeOK'
  BY QueueStep, LifeStep, CodecStep, ControlStep, RepeatStep, TimeStep
<1> QED
  BY <1>1 DEF QueueInv, LifeInv, CodecPart, ControlPart, RepeatPart, IInv, TypeOK

LEMMA InvariantHolds == Spec => []IInv
<1>1. Init => IInv
  BY InitIInv
<1>2. IInv /\ [Next]_vars => IInv'
  BY StepIInv
<1> QED
  BY <1>1, <1>2, PTL DEF Spec

(* Every variable keeps its type: in particular the number of frames left   *)
(* in the BufferQueue and the number of outstanding repeats are never       *)
(* decremented below zero.                                                  *)
THEOREM TypeCorrect == Spec => []TypeOK
<1>1. IInv => TypeOK
  BY DEF IInv
<1> QED
  BY <1>1, InvariantHolds, PTL

(* The source's counters account for every frame in the BufferQueue, so     *)
(* acquireBuffer_l never finds it empty: discarding frames while suspended, *)
(* and stopping, keep the count right.                                      *)
THEOREM EveryFrameAccounted == Spec => []QueueAccounted
<1>1. IInv => QueueAccounted
  BY DEF IInv
<1> QED
  BY <1>1, InvariantHolds, PTL

(* No codec buffer is handed to the component twice, and none is lost while *)
(* it executes, whatever submitBuffer fails or is refused.                  *)
THEOREM NoCodecBufferLost == Spec => []CodecBuffersConserved
<1>1. IInv => CodecBuffersConserved
  BY DEF IInv, CodecInv
<1> QED
  BY <1>1, InvariantHolds, PTL

(* The generations of the repeat messages do what they are for: whatever    *)
(* the delays between posting and handling, at most one message acts, and   *)
(* it finds a frame with repeats left (repeatLatestBuffer_l's decrement     *)
(* never starts from zero).                                                 *)
THEOREM OneRepeatChain == Spec => []SingleRepeatChain
<1>1. IInv => SingleRepeatChain
  BY DEF IInv, RepeatInv
<1> QED
  BY <1>1, InvariantHolds, PTL

(* No message handler outlives release, for any number of sessions. *)
THEOREM HandlerDrained == Spec => []NoHandlerAfterRelease
<1>1. IInv => NoHandlerAfterRelease
  BY DEF IInv, PhaseInv, NoHandlerAfterRelease
<1> QED
  BY <1>1, InvariantHolds, PTL

(* mActionQueue is sorted by time with STOP only at its end, for any        *)
(* sequence of setSuspend and setStopTimeUs calls in any session.           *)
THEOREM ActionsOrdered == Spec => []ActionQueueOrdered
<1>1. IInv => ActionQueueOrdered
  BY DEF IInv, ActionInv
<1> QED
  BY <1>1, InvariantHolds, PTL

-----------------------------------------------------------------------------
(* What a step may do to the stream and to the frame that is repeated.      *)

streamVars == <<encoded, mEndOfStreamSent, mLatestBuffer, mOutstandingFrameRepeatCount,
                mPrevFrameUs>>

RepeatTried ==
    /\ \E b \in BOOLEAN : RepeatLatestBuffer(b) \/ RepeatLatestBufferFails(b)
    /\ UNCHANGED <<bqVars, frameVars, mEndOfStreamSent>>
    /\ UNCHANGED mFrameRepeatIntervalUs
    /\ ~Filling
    /\ mLatestBuffer.buf # Null => mOutstandingFrameRepeatCount > 0

EosTried ==
    /\ SubmitEndOfInputStream
    /\ UNCHANGED <<mOutstandingFrameRepeatCount, mPrevFrameUs>>
    /\ FillStops \/ (~HaveAvailableBuffers /\ UNCHANGED <<bqVars, frameVars>>)

LEMMA StreamSteps ==
    ASSUME IInv, [Next]_vars
    PROVE  \/ UNCHANGED streamVars
           \/ EosTried
           \/ RepeatTried
           \/ FillSkips \/ FillSubmits \/ FillFails
           \/ Configure
           \/ Release
<1> USE DEF streamVars
<1>1. mFrameRepeatBlockedOnCodecBuffer \in BOOLEAN
  BY DEF IInv, TypeOK, RepeatTypeOK
<1>2. CASE FillBails \/ FillDiscards
  BY <1>2 DEF FillBails, FillDiscards, eosVars, codecVars, repeatVars, timeVars
<1>3. CASE QueueBuffer \/ OnFrameAvailable
  BY <1>3 DEF QueueBuffer, OnFrameAvailable, FrameDeferred, FrameNotAcquired, FrameIgnored,
              FrameAcquired, CallbackBegins, eosVars, codecVars, repeatVars, timeVars
<1>4. CASE \E id \in CodecBuffers : OnInputBufferEmptied(id) \/ OnInputBufferAdded(id)
  BY <1>4 DEF OnInputBufferEmptied, OnInputBufferAdded, eosVars, repeatVars, timeVars
<1>5. CASE EmptiedAborts \/ Start \/ StartLooper \/ Stop \/ ReleaseReturns
  BY <1>5 DEF EmptiedAborts, Start, StartLooper, Stop, ReleaseReturns,
              eosVars, codecVars, repeatVars, timeVars
<1>6. CASE \/ \E t \in ActionTimes, action \in {"PAUSE", "RESUME", "STOP"} :
                  QueueAction(action, t)
           \/ SuspendNow
  BY <1>6 DEF QueueAction, SuspendNow, ControlCall, eosVars, codecVars
<1>7. CASE \/ \E delay \in RepeatDelays : SetRepeatPreviousFrameDelayUs(delay)
           \/ \E rate \in MaxFpsArgs : SetMaxFps(rate)
           \/ \E t \in StartTimes : SetStartTimeUs(t)
  BY <1>7 DEF SetRepeatPreviousFrameDelayUs, SetMaxFps, SetStartTimeUs, Setter,
              eosVars, codecVars
<1>8. CASE TakeMessage \/ MessageIgnored
  BY <1>8 DEF TakeMessage, MessageIgnored, OnMessageReceived, eosVars, codecVars,
              repeatVars, timeVars
<1>9. CASE FillStops
  BY <1>9 DEF FillStops, EosTried, timeVars
<1>10. CASE EmptiedSendsEos
  BY <1>10 DEF EmptiedSendsEos, EmptiedWithoutFrames, EosTried
<1>11. CASE StartSendsEos
  <2>1. CASE EosPending /\ ~HaveAvailableBuffers
    BY <1>11, <2>1 DEF StartSendsEos, EosTried, timeVars
  <2>2. CASE ~(EosPending /\ ~HaveAvailableBuffers)
    BY <1>11, <2>2 DEF StartSendsEos, codecVars, timeVars
  <2> QED
    BY <2>1, <2>2
<1>12. CASE SignalEndOfInputStream
  <2>1. CASE mStopTimeUs = -1 /\ mExecuting /\ ~HaveAvailableBuffers
    BY <1>12, <2>1 DEF SignalEndOfInputStream, EosTried, timeVars
  <2>2. CASE ~(mStopTimeUs = -1 /\ mExecuting /\ ~HaveAvailableBuffers)
    BY <1>12, <2>2 DEF SignalEndOfInputStream, codecVars, timeVars
  <2> QED
    BY <2>1, <2>2
<1>13. CASE EmptiedRepeats
  <2>1. UNCHANGED <<bqVars, frameVars, mEndOfStreamSent, mFrameRepeatIntervalUs>> /\ ~Filling
    BY <1>13 DEF EmptiedRepeats, EmptiedWithoutFrames, Filling
  <2>2. CASE /\ \E b \in BOOLEAN : RepeatLatestBuffer(b) \/ RepeatLatestBufferFails(b)
             /\ mFrameRepeatBlockedOnCodecBuffer
    BY <2>1, <2>2 DEF RepeatTried, IInv, RepeatInv
  <2>3. CASE UNCHANGED <<codecVars, mLatestBuffer, mOutstandingFrameRepeatCount, mPrevFrameUs>>
    BY <2>1, <2>3 DEF codecVars
  <2> QED
    BY <1>13, <2>2, <2>3 DEF EmptiedRepeats
<1>14. CASE ResumeNow
  <2>1. UNCHANGED <<bqVars, frameVars, mEndOfStreamSent, mFrameRepeatIntervalUs>> /\ ~Filling
    BY <1>14 DEF ResumeNow, ControlCall, ClientCall, Filling, eosVars
  <2>2. CASE /\ \E b \in BOOLEAN : RepeatLatestBuffer(b) \/ RepeatLatestBufferFails(b)
             /\ mFrameRepeatBlockedOnCodecBuffer
    BY <2>1, <2>2 DEF RepeatTried, IInv, RepeatInv
  <2>3. CASE UNCHANGED <<codecVars, mLatestBuffer, mOutstandingFrameRepeatCount, mPrevFrameUs>>
    BY <2>1, <2>3 DEF codecVars
  <2> QED
    BY <1>14, <2>2, <2>3 DEF ResumeNow
<1>15. CASE MessageRepeats
  <2>1. UNCHANGED <<bqVars, frameVars, mEndOfStreamSent, mFrameRepeatIntervalUs>> /\ ~Filling
    BY <1>15 DEF MessageRepeats, OnMessageReceived, Filling, eosVars
  <2>2. \E b \in BOOLEAN : RepeatLatestBuffer(b) \/ RepeatLatestBufferFails(b)
    BY <1>1, <1>15 DEF MessageRepeats
  <2>3. mLooper /\ 0 \in CurrentMessages
    BY <1>15 DEF MessageRepeats, OnMessageReceived, MessageIsCurrent, CurrentMessages,
                 IInv, PhaseInv
  <2>4. mOutstandingFrameRepeatCount > 0
    BY <2>3 DEF IInv, RepeatInv, SingleRepeatChain
  <2> QED
    BY <2>1, <2>2, <2>4 DEF RepeatTried
<1>16. CASE UNCHANGED vars
  BY <1>16 DEF vars, eosVars, codecVars, repeatVars, timeVars
<1> QED
  BY <1>2, <1>3, <1>4, <1>5, <1>6, <1>7, <1>8, <1>9, <1>10, <1>11, <1>12, <1>13, <1>14,
     <1>15, <1>16
     DEF Next, Callbacks, Continue, FillCodecBuffer, Lifecycle, Control

LEMMA ControlUntouched ==
    ASSUME [Next]_vars, ~FillStops, ~FillDiscards, ~FillSkips, ~FillSubmits, ~FillFails,
           ~Configure, ~SuspendNow, ~ResumeNow,
           \A t \in ActionTimes, action \in {"PAUSE", "RESUME", "STOP"} : ~QueueAction(action, t)
    PROVE  UNCHANGED controlVars
<1>1. CASE \/ FillBails \/ EmptiedAborts \/ EmptiedSendsEos \/ EmptiedRepeats
           \/ StartSendsEos \/ StartLooper \/ OnFrameAvailable \/ QueueBuffer
  BY <1>1 DEF FillBails, EmptiedAborts, EmptiedSendsEos, EmptiedRepeats,
     EmptiedWithoutFrames, StartSendsEos, StartLooper, OnFrameAvailable, FrameDeferred,
     FrameNotAcquired, FrameIgnored, FrameAcquired, CallbackBegins, QueueBuffer
<1>2. CASE \/ \E id \in CodecBuffers : OnInputBufferEmptied(id) \/ OnInputBufferAdded(id)
           \/ Start \/ Stop \/ Release \/ ReleaseReturns \/ SignalEndOfInputStream
  BY <1>2 DEF OnInputBufferEmptied, OnInputBufferAdded, Start, Stop, Release,
     ReleaseReturns, SignalEndOfInputStream
<1>3. CASE \/ \E delay \in RepeatDelays : SetRepeatPreviousFrameDelayUs(delay)
           \/ \E rate \in MaxFpsArgs : SetMaxFps(rate)
           \/ \E t \in StartTimes : SetStartTimeUs(t)
           \/ TakeMessage \/ MessageRepeats \/ MessageIgnored
  BY <1>3 DEF SetRepeatPreviousFrameDelayUs, SetMaxFps, SetStartTimeUs, Setter,
     TakeMessage, MessageRepeats, MessageIgnored, OnMessageReceived
<1>4. CASE UNCHANGED vars
  BY <1>4 DEF vars
<1> QED
  BY <1>1, <1>2, <1>3, <1>4
     DEF Next, Callbacks, Continue, FillCodecBuffer, Lifecycle, Control

-----------------------------------------------------------------------------
(* The end of the stream. *)

(* The frames in the component can all be acquired at once; where timed     *)
(* actions are made, besides the one that may be repeated and the one that  *)
(* is stopped at, while a codec buffer is free.                             *)
AcquireLimitSuffices ==
    Cardinality(CodecBuffers)
        + (IF RepeatDelays = {} \/ ActionTimes \subseteq {-1} THEN 0 ELSE 1) <= MaxAcquired

(* A frame is kept for repeats only where a repeat interval was set. *)
IntervalInv ==
    /\ mFrameRepeatIntervalUs \in RepeatDelays \cup {-1}
    /\ mLatestBuffer.buf # Null => mFrameRepeatIntervalUs > 0

(* Actions wait only where timed ones are made. *)
TimedInv == mActionQueue # <<>> => ~(ActionTimes \subseteq {-1})

(* After the end of stream nothing waits, and nothing may be repeated. *)
EndInv ==
    /\ IntervalInv
    /\ TimedInv
    /\ mEndOfStreamSent => ~HaveAvailableBuffers /\ mLatestBuffer.buf = Null
    /\ EosIsLast
    /\ NeverAborts

LEMMA LatestAfterRepeat ==
    ASSUME RepeatTypeOK, RepeatTried
    PROVE  mLatestBuffer'.buf = mLatestBuffer.buf
<1>1. CASE mLatestBuffer' = mLatestBuffer
  BY <1>1
<1>2. CASE CanRepeat /\ mLatestBuffer' = AfterInterval(mLatestBuffer)
  BY <1>2, AfterIntervalType DEF CanRepeat, RepeatTypeOK, NoBuffer, Null
<1> QED
  BY <1>1, <1>2 DEF RepeatTried, RepeatLatestBuffer, RepeatLatestBufferFails

LEMMA IntervalStep == IInv /\ IntervalInv /\ [Next]_vars => IntervalInv'
<1> SUFFICES ASSUME IInv, IntervalInv, [Next]_vars PROVE IntervalInv'
  OBVIOUS
<1>1. PhaseInv /\ RepeatTypeOK /\ TimeTypeOK /\ RepeatDelays \subseteq Nat \ {0}
  BY ConstantsAssumption DEF IInv, TypeOK
<1>2. CASE Configure
  BY <1>2 DEF Configure, IntervalInv, NoBuffer
<1>3. ASSUME NEW delay \in RepeatDelays, SetRepeatPreviousFrameDelayUs(delay) PROVE IntervalInv'
  BY <1>1, <1>3 DEF SetRepeatPreviousFrameDelayUs, Setter, IntervalInv
<1>4. ASSUME UNCHANGED mFrameRepeatIntervalUs, mLatestBuffer'.buf \in {mLatestBuffer.buf, Null}
      PROVE  IntervalInv'
  BY <1>4 DEF IntervalInv
<1>5. ASSUME ~Configure, \A delay \in RepeatDelays : ~SetRepeatPreviousFrameDelayUs(delay)
      PROVE  UNCHANGED mFrameRepeatIntervalUs
  <2>1. CASE FillCodecBuffer \/ QueueBuffer \/ OnFrameAvailable
    BY <2>1 DEF FillCodecBuffer, FillBails, FillDiscards, FillStops, FillSkips, FillSubmits,
       FillFails, Encodable, QueueBuffer, OnFrameAvailable, FrameDeferred, FrameNotAcquired,
       FrameIgnored, FrameAcquired, CallbackBegins, repeatVars
  <2>2. CASE \/ \E id \in CodecBuffers : OnInputBufferEmptied(id) \/ OnInputBufferAdded(id)
             \/ EmptiedAborts \/ Start \/ StartLooper \/ Stop \/ ReleaseReturns
             \/ Release \/ StartSendsEos
    BY <2>2 DEF OnInputBufferEmptied, OnInputBufferAdded, EmptiedAborts, Start, StartLooper,
                Stop, ReleaseReturns, Release, StartSendsEos, repeatVars
  <2>3. CASE \/ \E t \in ActionTimes, action \in {"PAUSE", "RESUME", "STOP"} :
                    QueueAction(action, t)
             \/ SuspendNow \/ ResumeNow
    BY <2>3 DEF QueueAction, SuspendNow, ResumeNow, ControlCall
  <2>4. CASE \/ SignalEndOfInputStream
             \/ \E rate \in MaxFpsArgs : SetMaxFps(rate)
             \/ \E t \in StartTimes : SetStartTimeUs(t)
    BY <2>4 DEF SignalEndOfInputStream, SetMaxFps, SetStartTimeUs
  <2>5. CASE TakeMessage \/ MessageIgnored \/ MessageRepeats \/ EmptiedSendsEos \/ EmptiedRepeats
    BY <2>5 DEF TakeMessage, MessageIgnored, MessageRepeats, OnMessageReceived, EmptiedSendsEos,
                EmptiedRepeats, EmptiedWithoutFrames, repeatVars
  <2>6. CASE UNCHANGED vars
    BY <2>6 DEF vars, repeatVars
  <2> QED
    BY <1>5, <2>1, <2>2, <2>3, <2>4, <2>5, <2>6
       DEF Next, Callbacks, Continue, Lifecycle, Control
<1>6. CASE UNCHANGED streamVars \/ EosTried \/ Release
  <2>1. mLatestBuffer' = mLatestBuffer \/ mLatestBuffer' = NoBuffer
    BY <1>6 DEF streamVars, EosTried, SubmitEndOfInputStream, Release
  <2>2. mLatestBuffer'.buf \in {mLatestBuffer.buf, Null}
    BY <2>1 DEF NoBuffer
  <2> QED
    BY <1>2, <1>3, <1>4, <1>5, <2>2
<1>7. CASE RepeatTried
  BY <1>1, <1>4, <1>7, LatestAfterRepeat DEF RepeatTried
<1>8. CASE FillSkips \/ FillSubmits \/ FillFails
  BY <1>8 DEF IntervalInv, FillSkips, FillSubmits, FillFails, Encodable, Remember
<1> QED
  BY <1>2, <1>6, <1>7, <1>8, StreamSteps

LEMMA TimedStep == IInv /\ TimedInv /\ [Next]_vars => TimedInv'
<1> SUFFICES ASSUME IInv, TimedInv, [Next]_vars PROVE TimedInv'
  OBVIOUS
<1>1. CASE UNCHANGED mActionQueue \/ mActionQueue' = <<>>
  BY <1>1 DEF TimedInv
<1>2. CASE FillDiscards \/ FillSkips \/ FillSubmits \/ FillFails
  <2>1. UNCHANGED mActionQueue \/ \E n \in DOMAIN mActionQueue : TRUE
    BY <1>2 DEF FillDiscards, FillSkips, FillSubmits, FillFails, Encodable, ProcessActions
  <2>2. (\E n \in DOMAIN mActionQueue : TRUE) => mActionQueue # <<>>
    OBVIOUS
  <2> QED
    BY <1>1, <2>1, <2>2 DEF TimedInv
<1>3. ASSUME NEW t \in ActionTimes, NEW action \in {"PAUSE", "RESUME", "STOP"},
             QueueAction(action, t)
      PROVE  TimedInv'
  <2>1. t >= 0 /\ t # -1
    BY <1>3, ConstantsAssumption DEF QueueAction
  <2> QED
    BY <2>1 DEF TimedInv
<1> QED
  BY <1>1, <1>2, <1>3, ControlUntouched
     DEF controlVars, Configure, SuspendNow, ResumeNow, FillStops

LEMMA UnionBounded ==
    ASSUME NEW S, IsFiniteSet(S), NEW T, IsFiniteSet(T)
    PROVE  /\ IsFiniteSet(S \cup T)
           /\ Cardinality(S \cup T) \in Nat
           /\ Cardinality(S \cup T) <= Cardinality(S) + Cardinality(T)
<1>1. /\ IsFiniteSet(S \cup T)
      /\ Cardinality(S \cup T) = Cardinality(S) + Cardinality(T) - Cardinality(S \cap T)
  BY FS_Union
<1>2. /\ Cardinality(S \cup T) \in Nat /\ Cardinality(S \cap T) \in Nat
      /\ Cardinality(S) \in Nat /\ Cardinality(T) \in Nat
  BY <1>1, FS_Intersection, FS_CardinalityType
<1> QED
  BY <1>1, <1>2

LEMMA LatestBounded ==
    /\ IsFiniteSet(InLatest) /\ Cardinality(InLatest) \in 0..1
    /\ mLatestBuffer.buf = Null => Cardinality(InLatest) = 0
<1>1. CASE mLatestBuffer.buf = Null
  BY <1>1, FS_EmptySet DEF InLatest
<1>2. CASE mLatestBuffer.buf # Null
  <2>1. InLatest = {mLatestBuffer.buf}
    BY <1>2 DEF InLatest
  <2>2. IsFiniteSet({mLatestBuffer.buf}) /\ Cardinality({mLatestBuffer.buf}) = 1
    BY FS_Singleton
  <2> QED
    BY <1>2, <2>1, <2>2
<1> QED
  BY <1>1, <1>2

(* Everything the component and the source may hold at once. *)
LEMMA HeldBounded ==
    ASSUME IInv, NEW extra, IsFiniteSet(extra),
           Cardinality(CodecBuffers) + Cardinality(InLatest) + Cardinality(extra)
               <= MaxAcquired + (IF mFreeCodecBuffers # <<>> THEN 1 ELSE 0)
    PROVE  MayAcquire(InCodec \cup InLatest \cup extra)
<1> DEFINE busy == {id \in CodecBuffers : mSubmittedCodecBuffers[id] # NotSubmitted}
           S == mSubmittedCodecBuffers
<1>1. IsFiniteSet(CodecBuffers) /\ MaxAcquired \in Nat /\ Cardinality(CodecBuffers) \in Nat
  BY ConstantsAssumption, FS_CardinalityType
<1>2. IsFiniteSet(busy) /\ Cardinality(busy) \in Nat /\ Cardinality(busy) <= Cardinality(CodecBuffers)
  BY <1>1, FS_Subset, FS_CardinalityType
<1>3. mFreeCodecBuffers # <<>> => Cardinality(busy) < Cardinality(CodecBuffers)
  <2> SUFFICES ASSUME mFreeCodecBuffers # <<>> PROVE Cardinality(busy) < Cardinality(CodecBuffers)
    OBVIOUS
  <2>1. CodecPart
    BY DEF IInv, TypeOK, CodecPart
  <2>2. PICK id \in CodecBuffers : id \in FreeSet
    <3>1. 1 \in DOMAIN mFreeCodecBuffers /\ mFreeCodecBuffers[1] \in CodecBuffers
      BY <2>1, FreeListPopped, ElementOfSeq DEF CodecPart, CodecTypeOK
    <3> QED
      BY <3>1 DEF FreeSet
  <2>3. id \notin busy
    BY <2>1, <2>2 DEF CodecPart, CodecInv, CodecBuffersConserved
  <2>4. busy \subseteq CodecBuffers \ {id}
    BY <2>3
  <2>5. /\ IsFiniteSet(CodecBuffers \ {id})
        /\ Cardinality(CodecBuffers \ {id}) = Cardinality(CodecBuffers) - 1
    BY <1>1, FS_RemoveElement
  <2>6. Cardinality(busy) <= Cardinality(CodecBuffers \ {id})
    BY <2>4, <2>5, FS_Subset
  <2> QED
    BY <1>1, <1>2, <2>5, <2>6
<1>4. IsFiniteSet(InCodec) /\ Cardinality(InCodec) <= Cardinality(busy) /\ Cardinality(InCodec) \in Nat
  <2>1. InCodec \subseteq {S[id] : id \in busy}
    BY DEF InCodec
  <2>2. /\ IsFiniteSet({S[id] : id \in busy})
        /\ Cardinality({S[id] : id \in busy}) <= Cardinality(busy)
        /\ Cardinality({S[id] : id \in busy}) \in Nat
    <3> DEFINE f == [id \in busy |-> S[id]]
               image == {S[id] : id \in busy}
    <3>1. f \in Surjection(busy, image)
      BY DEF Surjection
    <3> HIDE DEF f, busy
    <3> QED
      BY <1>2, <3>1, FS_Surjection, FS_CardinalityType
  <2> HIDE DEF busy, S
  <2> QED
    BY <1>2, <2>1, <2>2, FS_Subset, FS_CardinalityType
<1>5. IsFiniteSet(InLatest) /\ Cardinality(InLatest) \in Nat
  BY LatestBounded
<1>6. /\ IsFiniteSet(InCodec \cup InLatest)
      /\ Cardinality(InCodec \cup InLatest) \in Nat
      /\ Cardinality(InCodec \cup InLatest) <= Cardinality(InCodec) + Cardinality(InLatest)
  BY <1>4, <1>5, UnionBounded
<1>7. /\ Cardinality(InCodec \cup InLatest \cup extra) \in Nat
      /\ Cardinality(InCodec \cup InLatest \cup extra)
             <= Cardinality(InCodec \cup InLatest) + Cardinality(extra)
  BY <1>6, UnionBounded
<1>8. Cardinality(extra) \in Nat
  BY FS_CardinalityType
<1> HIDE DEF busy
<1> QED
  BY <1>1, <1>2, <1>3, <1>4, <1>5, <1>6, <1>7, <1>8 DEF MayAcquire

(* What the component is given goes behind what it was given before. *)
LEMMA FrameGiven ==
    ASSUME CodecTypeOK, EosIsLast, ~mEndOfStreamSent, UNCHANGED mEndOfStreamSent,
           NEW v \in VideoBuffers, encoded' = Append(encoded, v)
    PROVE  EosIsLast'
<1>1. encoded \in Seq(VideoBuffers \cup {Eos}) /\ v # Eos /\ Len(encoded) \in Nat
      /\ DOMAIN encoded = 1..Len(encoded)
  BY ConstantTypes, LenProperties DEF CodecTypeOK, VideoBuffers, Eos, Null
<1>2. /\ Len(encoded') = Len(encoded) + 1 /\ DOMAIN encoded' = 1..(Len(encoded) + 1)
      /\ \A i \in 1..Len(encoded) : encoded'[i] = encoded[i]
      /\ encoded'[Len(encoded) + 1] = v
  BY <1>1, AppendProperties
<1>3. \A i \in 1..Len(encoded) : encoded[i] # Eos
  BY <1>1 DEF EosIsLast
<1>4. \A i \in DOMAIN encoded' : encoded'[i] # Eos
  BY <1>1, <1>2, <1>3
<1>5. encoded'[Len(encoded')] = v
  BY <1>1, <1>2
<1> QED
  BY <1>1, <1>4, <1>5 DEF EosIsLast

LEMMA EosGiven ==
    ASSUME CodecTypeOK, EosIsLast, ~mEndOfStreamSent, mEndOfStreamSent',
           encoded' = Append(encoded, Eos)
    PROVE  EosIsLast'
<1>1. encoded \in Seq(VideoBuffers \cup {Eos}) /\ Len(encoded) \in Nat
      /\ DOMAIN encoded = 1..Len(encoded)
  BY LenProperties DEF CodecTypeOK
<1>2. /\ Len(encoded') = Len(encoded) + 1 /\ DOMAIN encoded' = 1..(Len(encoded) + 1)
      /\ \A i \in 1..Len(encoded) : encoded'[i] = encoded[i]
      /\ encoded'[Len(encoded) + 1] = Eos
  BY <1>1, AppendProperties
<1>3. \A i \in 1..Len(encoded) : encoded[i] # Eos
  BY <1>1 DEF EosIsLast
<1>4. \A i \in DOMAIN encoded' : encoded'[i] = Eos => i = Len(encoded')
  BY <1>1, <1>2, <1>3
<1>5. encoded'[Len(encoded')] = Eos /\ encoded' # <<>>
  BY <1>1, <1>2
<1> QED
  BY <1>4, <1>5 DEF EosIsLast

(* A STOP leaves no frame behind. *)
LEMMA StopDrains ==
    ASSUME IInv, IntervalInv, TimedInv, AcquireLimitSuffices, FillStops
    PROVE  ~HaveAvailableBuffers'
<1>1. Filling /\ HasItem /\ mFreeCodecBuffers # <<>>
  BY DEF FillStops, HasItem
<1>2. MayAcquire(InCodec \cup InLatest \cup {Item.buf})
  <2>1. IsFiniteSet({Item.buf}) /\ Cardinality({Item.buf}) = 1
    BY FS_Singleton
  <2>2. Cardinality(InLatest) <= (IF RepeatDelays = {} THEN 0 ELSE 1)
    BY LatestBounded DEF IntervalInv
  <2>3. ~(ActionTimes \subseteq {-1})
    BY DEF TimedInv, FillStops
  <2>4. Cardinality(CodecBuffers) \in Nat /\ MaxAcquired \in Nat /\ Cardinality(InLatest) \in Nat
    BY ConstantsAssumption, FS_CardinalityType, LatestBounded
  <2>5. Cardinality(CodecBuffers) + Cardinality(InLatest) + 1 <= MaxAcquired + 1
    BY <2>2, <2>3, <2>4 DEF AcquireLimitSuffices
  <2> QED
    BY <1>1, <2>1, <2>5, HeldBounded
<1>3. UnacquiredAfterItem \in Nat
  BY <1>1, ItemTaken DEF Filling, IInv, TypeOK
<1>4. mAvailableBuffers' = <<>> /\ mNumAvailableUnacquiredBuffers' = 0
  BY <1>2, <1>3 DEF FillStops, ReleaseAllAvailableBuffers
<1> QED
  BY <1>4 DEF HaveAvailableBuffers

(* Once the end of stream is sent every frame that comes is acquired and    *)
(* let go at once.                                                          *)
LEMMA NothingWaitsAfterEos ==
    ASSUME IInv, EndInv, AcquireLimitSuffices, mEndOfStreamSent, [Next]_vars
    PROVE  ~HaveAvailableBuffers'
<1>1. ~HaveAvailableBuffers /\ mAvailableBuffers = <<>> /\ QueueTypeOK
      /\ mNumAvailableUnacquiredBuffers = 0
  BY DEF EndInv, HaveAvailableBuffers, IInv, TypeOK, QueueTypeOK
<1>2. MayAcquire(Held)
  <2>1. IsFiniteSet({}) /\ Cardinality({}) = 0
    BY FS_EmptySet
  <2>2. MayAcquire(InCodec \cup InLatest \cup {})
    <3>1. Cardinality(InLatest) = 0
      BY LatestBounded DEF EndInv
    <3>2. Cardinality(CodecBuffers) \in Nat /\ MaxAcquired \in Nat
      BY ConstantsAssumption, FS_CardinalityType
    <3>3. Cardinality(CodecBuffers) <= MaxAcquired
      BY <3>2 DEF AcquireLimitSuffices
    <3>4. Cardinality(CodecBuffers) + Cardinality(InLatest) + Cardinality({})
              <= MaxAcquired + (IF mFreeCodecBuffers # <<>> THEN 1 ELSE 0)
      BY <2>1, <3>1, <3>2, <3>3
    <3> QED
      BY <2>1, <3>4, HeldBounded
  <2>3. BuffersIn(mAvailableBuffers) = {}
    BY <1>1 DEF BuffersIn
  <2>4. Held = InCodec \cup InLatest \cup {}
    BY <2>3 DEF Held
  <2> QED
    BY <2>2, <2>4
<1>3. CASE UNCHANGED frameVars
  BY <1>1, <1>3 DEF frameVars, HaveAvailableBuffers
<1>4. ~FillStops /\ ~FillDiscards /\ ~FillSkips /\ ~FillSubmits /\ ~FillFails
  BY <1>1 DEF FillStops, FillDiscards, FillSkips, FillSubmits, FillFails, Encodable, Filling
<1>5. CASE QueueBuffer \/ FrameIgnored
  BY <1>3, <1>5 DEF QueueBuffer, FrameIgnored
<1>6. ~FrameDeferred /\ ~FrameNotAcquired /\ ~FrameAcquired
  BY <1>2 DEF FrameDeferred, FrameNotAcquired, FrameAcquired, MustDefer,
              DiscardingAvailableBuffers, Ignores
<1>7. CASE SuspendNow
  <2>1. mAvailableBuffers' = <<>> /\ mNumAvailableUnacquiredBuffers' = 0
    BY <1>1, <1>7 DEF SuspendNow, ReleaseAllAvailableBuffers
  <2> QED
    BY <2>1 DEF HaveAvailableBuffers
<1>8. CASE UNCHANGED vars
  BY <1>3, <1>8 DEF vars
<1> QED
  BY <1>3, <1>4, <1>5, <1>6, <1>7, <1>8, FramesUntouched
     DEF Next, Callbacks, OnFrameAvailable, Continue, FillCodecBuffer, Lifecycle, Control

LEMMA EndStep == IInv /\ EndInv /\ AcquireLimitSuffices /\ [Next]_vars => EndInv'
<1> SUFFICES ASSUME IInv, EndInv, AcquireLimitSuffices, [Next]_vars PROVE EndInv'
  OBVIOUS
<1>1. CodecTypeOK /\ RepeatTypeOK /\ EosIsLast /\ NeverAborts /\ IntervalInv
      /\ mEndOfStreamSent \in BOOLEAN
  BY DEF IInv, TypeOK, LifeTypeOK, EndInv
<1>2. IntervalInv' /\ TimedInv'
  BY IntervalStep, TimedStep DEF EndInv
<1>3. mEndOfStreamSent => mLatestBuffer.buf = Null /\ ~HaveAvailableBuffers
  BY DEF EndInv
<1>4. NeverAborts'
  <2>1. ~EmptiedAborts
    BY <1>3 DEF EmptiedAborts
  <2>2. CASE UNCHANGED mMutex
    BY <1>1, <2>2 DEF NeverAborts
  <2>3. CASE FillCodecBuffer
    BY <2>3 DEF FillCodecBuffer, FillBails, FillStops, FillDiscards, FillSkips, FillSubmits,
                FillFails, Encodable, FillReturns, NeverAborts
  <2>4. CASE \E id \in CodecBuffers : OnInputBufferEmptied(id) \/ OnInputBufferAdded(id)
    BY <2>2, <2>4 DEF OnInputBufferEmptied, OnInputBufferAdded, NeverAborts
  <2>5. CASE QueueBuffer \/ OnFrameAvailable \/ TakeMessage \/ MessageRepeats \/ MessageIgnored
    BY <1>1, <2>5 DEF QueueBuffer, OnFrameAvailable, FrameDeferred, FrameNotAcquired,
       FrameIgnored, FrameAcquired, CallbackBegins, TakeMessage, MessageRepeats,
       MessageIgnored, OnMessageReceived, NeverAborts
  <2>6. CASE \/ EmptiedSendsEos \/ EmptiedRepeats \/ Start \/ StartSendsEos \/ StartLooper
             \/ Configure \/ Stop \/ Release \/ ReleaseReturns
    BY <1>1, <2>6 DEF EmptiedSendsEos, EmptiedRepeats, EmptiedWithoutFrames, Start,
       StartSendsEos, StartLooper, Configure, Stop, Release, ReleaseReturns, NeverAborts
  <2>7. CASE Control
    BY <2>2, <2>7 DEF Control, QueueAction, SuspendNow, ResumeNow, ControlCall,
       SignalEndOfInputStream, SetRepeatPreviousFrameDelayUs, SetMaxFps, SetStartTimeUs, Setter
  <2>8. CASE UNCHANGED vars
    BY <2>2, <2>8 DEF vars
  <2> QED
    BY <2>1, <2>3, <2>4, <2>5, <2>6, <2>7, <2>8 DEF Next, Callbacks, Continue, Lifecycle
<1>5. ASSUME UNCHANGED <<encoded, mEndOfStreamSent>>,
             mLatestBuffer'.buf \in {mLatestBuffer.buf, Null}
      PROVE  EndInv'
  <2>1. EosIsLast'
    BY <1>1, <1>5 DEF EosIsLast
  <2>2. mEndOfStreamSent' => ~HaveAvailableBuffers'
    BY <1>5, NothingWaitsAfterEos
  <2> QED
    BY <1>2, <1>3, <1>4, <1>5, <2>1, <2>2 DEF EndInv
<1>6. ASSUME ~mEndOfStreamSent, UNCHANGED mEndOfStreamSent,
             \/ UNCHANGED encoded
             \/ \E v \in VideoBuffers : encoded' = Append(encoded, v)
      PROVE  EndInv'
  <2>1. EosIsLast'
    BY <1>1, <1>6, FrameGiven DEF EosIsLast
  <2> QED
    BY <1>2, <1>4, <1>6, <2>1 DEF EndInv
<1>7. CASE UNCHANGED streamVars \/ Release
  <2>1. UNCHANGED <<encoded, mEndOfStreamSent>>
    BY <1>7 DEF streamVars, Release, eosVars
  <2>2. mLatestBuffer' = mLatestBuffer \/ mLatestBuffer' = NoBuffer
    BY <1>7 DEF streamVars, Release
  <2> QED
    BY <1>5, <2>1, <2>2 DEF NoBuffer
<1>8. CASE EosTried
  <2>1. CASE UNCHANGED <<encoded, mEndOfStreamSent, mLatestBuffer>>
    BY <1>5, <2>1
  <2>2. CASE ~UNCHANGED <<encoded, mEndOfStreamSent, mLatestBuffer>>
    <3>1. /\ ~mEndOfStreamSent /\ mEndOfStreamSent' = TRUE
          /\ encoded' = Append(encoded, Eos) /\ mLatestBuffer' = NoBuffer
      BY <1>8, <2>2 DEF EosTried, SubmitEndOfInputStream, TakeCodecBuffer, codecVars
    <3>2. EosIsLast'
      BY <1>1, <3>1, EosGiven
    <3>3. ~HaveAvailableBuffers'
      BY <1>1, <1>8, StopDrains DEF EndInv, EosTried, HaveAvailableBuffers, frameVars
    <3> QED
      BY <1>2, <1>4, <3>1, <3>2, <3>3 DEF EndInv, NoBuffer
  <2> QED
    BY <2>1, <2>2
<1>9. CASE RepeatTried
  <2>1. UNCHANGED mEndOfStreamSent /\ mLatestBuffer'.buf = mLatestBuffer.buf
    BY <1>1, <1>9, LatestAfterRepeat DEF RepeatTried
  <2>2. CASE UNCHANGED encoded
    BY <1>5, <2>1, <2>2
  <2>3. CASE CanRepeat /\ encoded' = Append(encoded, mLatestBuffer)
    <3>1. ~mEndOfStreamSent
      BY <1>3, <2>3 DEF CanRepeat
    <3>2. mLatestBuffer \in VideoBuffers
      BY <1>1, <2>3 DEF CanRepeat, RepeatTypeOK, NoBuffer, Null
    <3> QED
      BY <1>6, <2>1, <2>3, <3>1, <3>2
  <2> QED
    BY <1>9, <2>2, <2>3 DEF RepeatTried, RepeatLatestBuffer, RepeatLatestBufferFails,
                            SubmitBuffer, SubmitBufferFails, TakeCodecBuffer, codecVars
<1>10. CASE FillSkips \/ FillSubmits \/ FillFails
  <2>1. /\ Filling /\ HasItem /\ UNCHANGED mEndOfStreamSent
        /\ HaveAvailableBuffers
    BY <1>10 DEF FillSkips, FillSubmits, FillFails, Encodable, Filling, eosVars
  <2>2. Shifted(Item) \in VideoBuffers
    BY <2>1, ItemTaken, ShiftedType DEF IInv, TypeOK
  <2>3. UNCHANGED encoded \/ encoded' = Append(encoded, Shifted(Item))
    BY <1>10 DEF FillSkips, FillSubmits, FillFails, SubmitBuffer, SubmitBufferFails,
                 TakeCodecBuffer, codecVars
  <2> QED
    BY <1>3, <1>6, <2>1, <2>2, <2>3
<1>11. CASE Configure
  <2>1. ~mEndOfStreamSent' /\ encoded' = <<>>
    BY <1>11 DEF Configure
  <2> QED
    BY <1>2, <1>4, <2>1 DEF EndInv, EosIsLast
<1> QED
  BY <1>7, <1>8, <1>9, <1>10, <1>11, StreamSteps

LEMMA EndHolds == ASSUME AcquireLimitSuffices PROVE Spec => [](IInv /\ EndInv)
<1>1. Init => IInv /\ EndInv
  <2>1. Init => EndInv
    BY DEF Init, EndInv, IntervalInv, TimedInv, HaveAvailableBuffers, NoBuffer, EosIsLast, NeverAborts
  <2> QED
    BY <2>1, InitIInv
<1>2. (IInv /\ EndInv) /\ [Next]_vars => (IInv /\ EndInv)'
  BY StepIInv, EndStep
<1> QED
  BY <1>1, <1>2, PTL DEF Spec

(* The end of stream is the last thing the component is given, and sent     *)
(* once, wherever everything can be acquired that may be held at once.      *)
THEOREM EosAlwaysLast == ASSUME AcquireLimitSuffices PROVE Spec => []EosIsLast
<1>1. EndInv => EosIsLast
  BY DEF EndInv
<1> QED
  BY <1>1, EndHolds, PTL

(* The CHECK of onInputBufferEmptied cannot fail there; the run that makes  *)
(* it fail has a limit that is one too small.                               *)
THEOREM CheckHolds == ASSUME AcquireLimitSuffices PROVE Spec => []NeverAborts
<1>1. EndInv => NeverAborts
  BY DEF EndInv
<1> QED
  BY <1>1, EndHolds, PTL

-----------------------------------------------------------------------------
(* The order of the frames. *)

(* The frames on their way, acquired or not, have increasing numbers, those *)
(* that are acquired first, and the times they were made with.              *)
Waiting == {mAvailableBuffers[i] : i \in DOMAIN mAvailableBuffers}
           \cup {queued[i] : i \in DOMAIN queued}

FramesInv ==
    /\ \A i, j \in DOMAIN mAvailableBuffers :
          i < j => mAvailableBuffers[i].buf < mAvailableBuffers[j].buf
    /\ \A i, j \in DOMAIN queued : i < j => queued[i].buf < queued[j].buf
    /\ \A i \in DOMAIN mAvailableBuffers, j \in DOMAIN queued :
          mAvailableBuffers[i].buf < queued[j].buf
    /\ \A v \in Waiting : v.buf <= produced /\ v.ts \in FrameTimes[v.buf]

(* Frame b is older than everything that waits. *)
Behind(b) == b <= produced /\ \A v \in Waiting : b < v.buf

(* The first m acquired frames and the first k of the others are gone. *)
FramesGone(m, k) ==
    /\ \A i \in DOMAIN mAvailableBuffers' :
          /\ i + m \in DOMAIN mAvailableBuffers
          /\ mAvailableBuffers'[i] = mAvailableBuffers[i + m]
    /\ \A i \in DOMAIN queued' : i + k \in DOMAIN queued /\ queued'[i] = queued[i + k]
    /\ UNCHANGED produced

LEMMA OrderKept ==
    ASSUME QueueTypeOK, QueueTypeOK', FramesInv, NEW m \in Nat, NEW k \in Nat, FramesGone(m, k)
    PROVE  FramesInv' /\ Waiting' \subseteq Waiting
<1> DEFINE a == mAvailableBuffers
           q == queued
<1>1. DOMAIN a \subseteq Nat /\ DOMAIN a' \subseteq Nat
      /\ DOMAIN q \subseteq Nat /\ DOMAIN q' \subseteq Nat
  BY LenProperties DEF QueueTypeOK
<1>2. Waiting' \subseteq Waiting
  BY DEF FramesGone, Waiting
<1>3. ASSUME NEW i \in DOMAIN a', NEW j \in DOMAIN a', i < j PROVE a'[i].buf < a'[j].buf
  <2>1. i + m \in DOMAIN a /\ j + m \in DOMAIN a /\ i + m < j + m
    BY <1>1, <1>3 DEF FramesGone
  <2>2. a[i + m].buf < a[j + m].buf
    BY <2>1 DEF FramesInv
  <2> QED
    BY <2>2 DEF FramesGone
<1>4. ASSUME NEW i \in DOMAIN q', NEW j \in DOMAIN q', i < j PROVE q'[i].buf < q'[j].buf
  <2>1. i + k \in DOMAIN q /\ j + k \in DOMAIN q /\ i + k < j + k
    BY <1>1, <1>4 DEF FramesGone
  <2>2. q[i + k].buf < q[j + k].buf
    BY <2>1 DEF FramesInv
  <2> QED
    BY <2>2 DEF FramesGone
<1>5. ASSUME NEW i \in DOMAIN a', NEW j \in DOMAIN q' PROVE a'[i].buf < q'[j].buf
  <2>1. a[i + m].buf < q[j + k].buf
    BY <1>5 DEF FramesGone, FramesInv
  <2> QED
    BY <2>1, <1>5 DEF FramesGone
<1>6. \A v \in Waiting' : v.buf <= produced' /\ v.ts \in FrameTimes[v.buf]
  BY <1>2 DEF FramesInv, FramesGone
<1> QED
  BY <1>2, <1>3, <1>4, <1>5, <1>6 DEF FramesInv

LEMMA TailShifts ==
    ASSUME NEW S, NEW q \in Seq(S), q # <<>>
    PROVE  /\ \A i \in DOMAIN Tail(q) : i + 1 \in DOMAIN q /\ Tail(q)[i] = q[i + 1]
           /\ Head(q) = q[1] /\ 1 \in DOMAIN q
<1>1. /\ Tail(q) \in Seq(S) /\ Len(Tail(q)) = Len(q) - 1
      /\ \A i \in 1..Len(Tail(q)) : Tail(q)[i] = q[i + 1]
      /\ Head(q) = q[1]
  BY HeadTailProperties
<1>2. /\ DOMAIN q = 1..Len(q) /\ DOMAIN Tail(q) = 1..(Len(q) - 1)
      /\ Len(q) \in Nat /\ Len(q) > 0
  BY <1>1, LenProperties
<1>3. ASSUME NEW i \in DOMAIN Tail(q) PROVE i + 1 \in DOMAIN q /\ Tail(q)[i] = q[i + 1]
  BY <1>1, <1>2
<1>4. 1 \in DOMAIN q
  BY <1>2
<1> QED
  BY <1>1, <1>3, <1>4

LEMMA SubSeqShifts ==
    ASSUME NEW S, NEW q \in Seq(S), NEW k \in Nat, NEW r, r = SubSeq(q, k + 1, Len(q))
    PROVE  \A i \in DOMAIN r : i + k \in DOMAIN q /\ r[i] = q[i + k]
<1>1. /\ DOMAIN q = 1..Len(q) /\ Len(q) \in Nat
      /\ \A i \in (k + 1)..Len(q) : q[i] \in S
  BY LenProperties, ElementOfSeq
<1>2. /\ r \in Seq(S)
      /\ Len(r) = IF k + 1 <= Len(q) THEN Len(q) - k ELSE 0
      /\ \A i \in 1..(Len(q) - k) : r[i] = q[k + 1 + i - 1]
  BY <1>1, SubSeqProperties
<1>3. DOMAIN r = 1..Len(r)
  BY <1>2, LenProperties
<1>4. ASSUME NEW i \in DOMAIN r PROVE i + k \in DOMAIN q /\ r[i] = q[i + k]
  <2>1. i \in 1..(Len(q) - k) /\ i \in Nat
    <3>1. i \in 1..Len(r) /\ Len(r) \in Nat
      BY <1>2, <1>3, <1>4, LenProperties
    <3>2. Len(r) > 0 /\ k + 1 <= Len(q) /\ Len(r) = Len(q) - k
      BY <1>1, <1>2, <3>1
    <3> QED
      BY <3>1, <3>2
  <2>2. i + k \in DOMAIN q /\ k + 1 + i - 1 = i + k
    BY <1>1, <2>1
  <2> QED
    BY <1>2, <2>1, <2>2
<1> QED
  BY <1>4

(* The frame that is taken is the oldest. *)
LEMMA OldestTaken ==
    ASSUME QueueTypeOK, QueueTypeOK', QueueAccounted, FramesInv, Filling, HasItem, TakeItem
    PROVE  /\ Item \in Waiting /\ FramesInv' /\ Waiting' \subseteq Waiting
           /\ Item.buf <= produced' /\ \A v \in Waiting' : Item.buf < v.buf
<1> DEFINE a == mAvailableBuffers
           q == queued
<1>1. a \in Seq(VideoBuffers) /\ q \in Seq(VideoBuffers) /\ UNCHANGED produced
      /\ DOMAIN a \subseteq Nat /\ DOMAIN q \subseteq Nat
      /\ DOMAIN a' \subseteq Nat /\ DOMAIN q' \subseteq Nat
  BY LenProperties DEF QueueTypeOK, TakeItem
<1>2. CASE a # <<>>
  <2>1. a' = Tail(a) /\ q' = q /\ Item = a[1] /\ 1 \in DOMAIN a
        /\ \A i \in DOMAIN a' : i + 1 \in DOMAIN a /\ a'[i] = a[i + 1]
    <3>1. a' = Tail(a) /\ q' = q /\ Item = Head(a)
      BY <1>2 DEF TakeItem, AvailableAfterItem, QueuedAfterItem, Item
    <3> QED
      BY <1>1, <1>2, <3>1, TailShifts
  <2>2. FramesGone(1, 0)
    BY <1>1, <2>1 DEF FramesGone
  <2>3. FramesInv' /\ Waiting' \subseteq Waiting
    BY <2>2, OrderKept
  <2>4. Item \in Waiting
    BY <2>1 DEF Waiting
  <2>5. ASSUME NEW v \in Waiting' PROVE Item.buf < v.buf
    <3>1. CASE \E i \in DOMAIN a' : v = a'[i]
      <4>1. PICK i \in DOMAIN a' : v = a'[i]
        BY <3>1
      <4>2. i + 1 \in DOMAIN a /\ v = a[i + 1] /\ 1 < i + 1 /\ i \in Nat
        <5>1. a' \in Seq(VideoBuffers)
          BY DEF QueueTypeOK
        <5>2. i >= 1 /\ i \in Nat
          BY <5>1, LenProperties
        <5> QED
          BY <2>1, <4>1, <5>2
      <4> QED
        BY <2>1, <4>2 DEF FramesInv
    <3>2. CASE \E j \in DOMAIN q : v = q[j]
      BY <2>1, <3>2 DEF FramesInv
    <3> QED
      BY <2>1, <2>5, <3>1, <3>2 DEF Waiting
  <2> QED
    BY <1>1, <2>3, <2>4, <2>5 DEF FramesInv
<1>3. CASE a = <<>>
  <2>1. q # <<>>
    BY <1>3 DEF HasItem
  <2>2. a' = <<>> /\ q' = Tail(q) /\ Item = q[1] /\ 1 \in DOMAIN q
        /\ \A i \in DOMAIN q' : i + 1 \in DOMAIN q /\ q'[i] = q[i + 1]
    <3>1. a' = <<>> /\ q' = Tail(q) /\ Item = Head(q)
      BY <1>3 DEF TakeItem, AvailableAfterItem, QueuedAfterItem, Item
    <3> QED
      BY <1>1, <2>1, <3>1, TailShifts
  <2>3. FramesGone(0, 1)
    BY <1>1, <2>2 DEF FramesGone
  <2>4. FramesInv' /\ Waiting' \subseteq Waiting
    BY <2>3, OrderKept
  <2>5. Item \in Waiting
    BY <2>2 DEF Waiting
  <2>6. ASSUME NEW v \in Waiting' PROVE Item.buf < v.buf
    <3>1. PICK i \in DOMAIN q' : v = q'[i]
      BY <2>2 DEF Waiting
    <3>2. i + 1 \in DOMAIN q /\ v = q[i + 1] /\ 1 < i + 1 /\ i \in Nat
      <4>1. q' \in Seq(VideoBuffers)
        BY DEF QueueTypeOK
      <4>2. i >= 1 /\ i \in Nat
        BY <4>1, LenProperties
      <4> QED
        BY <2>2, <3>1, <4>2
    <3> QED
      BY <2>2, <3>2 DEF FramesInv
  <2> QED
    BY <1>1, <2>4, <2>5, <2>6 DEF FramesInv
<1> QED
  BY <1>2, <1>3

(* The frames that remain after a release of all are the last ones queued. *)
LEMMA LastRemain ==
    ASSUME QueueTypeOK, QueueTypeOK', FramesInv,
           NEW rest \in Seq(VideoBuffers), NEW k \in Nat,
           \A i \in DOMAIN rest : i + k \in DOMAIN queued /\ rest[i] = queued[i + k],
           NEW held, NEW count \in Nat, ReleaseAllAvailableBuffers(held, rest, count)
    PROVE  FramesInv' /\ Waiting' \subseteq Waiting /\ UNCHANGED produced
<1>1. PICK d \in Nat : queued' = SubSeq(rest, d + 1, Len(rest))
  BY DEF ReleaseAllAvailableBuffers
<1>2. mAvailableBuffers' = <<>> /\ UNCHANGED produced
  BY DEF ReleaseAllAvailableBuffers
<1>3. \A i \in DOMAIN queued' : i + d \in DOMAIN rest /\ queued'[i] = rest[i + d]
  <2> DEFINE r == queued'
  <2>1. r = SubSeq(rest, d + 1, Len(rest))
    BY <1>1
  <2> HIDE DEF r
  <2>2. \A i \in DOMAIN r : i + d \in DOMAIN rest /\ r[i] = rest[i + d]
    BY <2>1, SubSeqShifts
  <2> QED
    BY <2>2 DEF r
<1>4. ASSUME NEW i \in DOMAIN queued'
      PROVE  i + (d + k) \in DOMAIN queued /\ queued'[i] = queued[i + (d + k)]
  <2>1. i + d \in DOMAIN rest /\ queued'[i] = rest[i + d]
    BY <1>3
  <2>2. (i + d) + k \in DOMAIN queued /\ rest[i + d] = queued[(i + d) + k]
    BY <2>1
  <2>3. i \in Nat
    BY LenProperties DEF QueueTypeOK
  <2>4. (i + d) + k = i + (d + k)
    BY <2>3
  <2> QED
    BY <2>1, <2>2, <2>4
<1>5. FramesGone(0, d + k) /\ d + k \in Nat
  BY <1>2, <1>4 DEF FramesGone
<1> QED
  BY <1>2, <1>5, OrderKept

(* The frames that wait keep their order; only the producer adds one, with  *)
(* the next number.                                                         *)
FramesStepped ==
    /\ FramesInv'
    /\ \/ Waiting' \subseteq Waiting /\ UNCHANGED produced
       \/ /\ produced < MaxFrames /\ produced' = produced + 1
          /\ \E t \in FrameTimes[produced + 1] :
                Waiting' \subseteq Waiting \cup {[buf |-> produced + 1, ts |-> t]}

LEMMA FramesStep == ASSUME IInv, FramesInv, [Next]_vars PROVE FramesStepped
<1> DEFINE a == mAvailableBuffers
           q == queued
<1>1. QueueTypeOK /\ QueueAccounted /\ QueueTypeOK'
  BY QueueStep DEF IInv, TypeOK, QueueInv
<1>2. /\ a \in Seq(VideoBuffers) /\ q \in Seq(VideoBuffers)
      /\ DOMAIN a = 1..Len(a) /\ DOMAIN q = 1..Len(q) /\ Len(a) \in Nat /\ Len(q) \in Nat
      /\ produced \in 0..MaxFrames /\ MaxFrames \in Nat
  BY <1>1, LenProperties, ConstantTypes DEF QueueTypeOK
<1>3. CASE UNCHANGED <<mAvailableBuffers, queued, produced>>
  BY <1>3 DEF FramesStepped, FramesInv, Waiting
<1>4. CASE FrameDeferred \/ FrameNotAcquired
  BY <1>3, <1>4 DEF FrameDeferred, FrameNotAcquired, CallbackBegins
<1>5. ASSUME FrameIgnored \/ FrameAcquired
      PROVE  /\ q # <<>> /\ q' = Tail(q) /\ UNCHANGED produced
             /\ Head(q) = q[1] /\ 1 \in DOMAIN q
             /\ \A i \in DOMAIN q' : i + 1 \in DOMAIN q /\ q'[i] = q[i + 1]
  <2>1. q # <<>> /\ q' = Tail(q) /\ UNCHANGED produced
    BY <1>1, <1>5 DEF FrameIgnored, FrameAcquired, CallbackBegins, QueueTypeOK, QueueAccounted
  <2> QED
    BY <1>2, <2>1, TailShifts
<1>6. CASE FrameIgnored
  <2>1. UNCHANGED mAvailableBuffers
    BY <1>6 DEF FrameIgnored, frameVars
  <2>2. FramesGone(0, 1)
    BY <1>2, <1>5, <1>6, <2>1 DEF FramesGone
  <2> QED
    BY <1>1, <1>5, <1>6, <2>2, OrderKept DEF FramesStepped
<1>7. CASE FrameAcquired
  <2>1. a' = Append(a, q[1]) /\ q[1] \in VideoBuffers
    BY <1>2, <1>5, <1>7, ElementOfSeq DEF FrameAcquired
  <2>2. /\ DOMAIN a' = 1..(Len(a) + 1) /\ a'[Len(a) + 1] = q[1]
        /\ \A i \in 1..Len(a) : a'[i] = a[i]
    <3>1. a' \in Seq(VideoBuffers) /\ Len(a') = Len(a) + 1
          /\ a'[Len(a) + 1] = q[1] /\ \A i \in 1..Len(a) : a'[i] = a[i]
      BY <1>2, <2>1, AppendProperties
    <3> QED
      BY <1>2, <3>1, LenProperties
  <2>3. ASSUME NEW i \in DOMAIN a', NEW j \in DOMAIN a', i < j PROVE a'[i].buf < a'[j].buf
    <3>1. i \in 1..Len(a)
      BY <1>2, <2>2, <2>3
    <3>2. CASE j \in 1..Len(a)
      BY <1>2, <2>2, <2>3, <3>1, <3>2 DEF FramesInv
    <3>3. CASE j = Len(a) + 1
      BY <1>2, <1>5, <1>7, <2>2, <3>1, <3>3 DEF FramesInv
    <3> QED
      BY <1>2, <2>2, <3>2, <3>3
  <2>4. ASSUME NEW j \in DOMAIN q' PROVE j + 1 \in DOMAIN q /\ q'[j] = q[j + 1] /\ 1 < j + 1
    <3>1. j \in Nat /\ j >= 1
      BY <1>1, LenProperties DEF QueueTypeOK
    <3> QED
      BY <1>5, <1>7, <3>1
  <2>5. ASSUME NEW i \in DOMAIN q', NEW j \in DOMAIN q', i < j PROVE q'[i].buf < q'[j].buf
    <3>1. i + 1 < j + 1
      BY <2>5, <1>1, LenProperties DEF QueueTypeOK
    <3> QED
      BY <2>4, <3>1 DEF FramesInv
  <2>6. ASSUME NEW i \in DOMAIN a', NEW j \in DOMAIN q' PROVE a'[i].buf < q'[j].buf
    <3>1. CASE i \in 1..Len(a)
      BY <1>2, <2>2, <2>4, <3>1 DEF FramesInv
    <3>2. CASE i = Len(a) + 1
      BY <1>5, <1>7, <2>2, <2>4, <3>2 DEF FramesInv
    <3> QED
      BY <1>2, <2>2, <3>1, <3>2
  <2>7. Waiting' \subseteq Waiting
    <3> SUFFICES ASSUME NEW v \in Waiting' PROVE v \in Waiting
      OBVIOUS
    <3>1. CASE \E i \in DOMAIN a' : v = a'[i]
      <4>1. PICK i \in DOMAIN a' : v = a'[i]
        BY <3>1
      <4>2. CASE i \in 1..Len(a)
        BY <1>2, <2>2, <4>1, <4>2 DEF Waiting
      <4>3. CASE i = Len(a) + 1
        BY <1>5, <1>7, <2>2, <4>1, <4>3 DEF Waiting
      <4> QED
        BY <1>2, <2>2, <4>2, <4>3
    <3>2. CASE \E j \in DOMAIN q' : v = q'[j]
      BY <2>4, <3>2 DEF Waiting
    <3> QED
      BY <3>1, <3>2 DEF Waiting
  <2> QED
    BY <1>5, <1>7, <2>3, <2>5, <2>6, <2>7 DEF FramesStepped, FramesInv
<1>8. CASE FillDiscards \/ FillSkips \/ FillSubmits \/ FillFails
  <2>1. Filling /\ HasItem /\ TakeItem
    BY <1>8 DEF FillDiscards, FillSkips, FillSubmits, FillFails, Encodable
  <2> QED
    BY <1>1, <2>1, OldestTaken DEF FramesStepped, TakeItem
<1>9. CASE SuspendNow
  <2>1. ReleaseAllAvailableBuffers(InCodec \cup InLatest, queued, mNumAvailableUnacquiredBuffers)
    BY <1>9 DEF SuspendNow
  <2>2. mNumAvailableUnacquiredBuffers \in Nat
        /\ \A i \in DOMAIN queued : i + 0 \in DOMAIN queued /\ queued[i] = queued[i + 0]
    BY <1>1, <1>2 DEF QueueTypeOK
  <2> QED
    BY <1>1, <1>2, <2>1, <2>2, LastRemain DEF FramesStepped
<1>10. CASE FillStops
  <2>1. Filling /\ HasItem
        /\ ReleaseAllAvailableBuffers(InCodec \cup InLatest \cup {Item.buf},
                                      QueuedAfterItem, UnacquiredAfterItem)
    BY <1>10 DEF FillStops
  <2>2. QueuedAfterItem \in Seq(VideoBuffers) /\ UnacquiredAfterItem \in Nat
    BY <1>1, <2>1, ItemTaken DEF Filling
  <2>3. \E k \in Nat : \A i \in DOMAIN QueuedAfterItem :
           i + k \in DOMAIN queued /\ QueuedAfterItem[i] = queued[i + k]
    <3>1. CASE mAvailableBuffers # <<>>
      <4>1. QueuedAfterItem = queued
        BY <3>1 DEF QueuedAfterItem
      <4>2. \A i \in DOMAIN queued : i + 0 \in DOMAIN queued /\ queued[i] = queued[i + 0]
        BY <1>2
      <4> QED
        BY <4>1, <4>2
    <3>2. CASE mAvailableBuffers = <<>>
      <4>1. QueuedAfterItem = Tail(queued) /\ queued # <<>>
        BY <2>1, <3>2 DEF QueuedAfterItem, HasItem
      <4>2. \A i \in DOMAIN QueuedAfterItem :
               i + 1 \in DOMAIN queued /\ QueuedAfterItem[i] = queued[i + 1]
        BY <1>2, <4>1, TailShifts
      <4> QED
        BY <4>2
    <3> QED
      BY <3>1, <3>2
  <2>4. PICK k \in Nat : \A i \in DOMAIN QueuedAfterItem :
           i + k \in DOMAIN queued /\ QueuedAfterItem[i] = queued[i + k]
    BY <2>3
  <2>5. PICK rest \in Seq(VideoBuffers) : rest = QueuedAfterItem
    BY <2>2
  <2> QED
    BY <1>1, <2>1, <2>2, <2>4, <2>5, LastRemain DEF FramesStepped
<1>11. CASE QueueBuffer
  <2>1. PICK t \in FrameTimes[produced + 1] :
            queued' = Append(queued, [buf |-> produced + 1, ts |-> t])
    BY <1>11 DEF QueueBuffer
  <2>2. a' = a /\ produced' = produced + 1 /\ produced < MaxFrames /\ produced + 1 \in 1..MaxFrames
    BY <1>2, <1>11 DEF QueueBuffer, frameVars
  <2> DEFINE new == [buf |-> produced + 1, ts |-> t]
  <2>3. new \in VideoBuffers /\ new.buf = produced + 1 /\ new.ts \in FrameTimes[new.buf]
    BY <2>1, <2>2, ConstantTypes DEF VideoBuffers
  <2>4. /\ DOMAIN q' = 1..(Len(q) + 1) /\ q'[Len(q) + 1] = new
        /\ \A i \in 1..Len(q) : q'[i] = q[i]
    <3> HIDE DEF new
    <3>1. q' = Append(q, new)
      BY <2>1 DEF new
    <3>2. q' \in Seq(VideoBuffers) /\ Len(q') = Len(q) + 1
          /\ q'[Len(q) + 1] = new /\ \A i \in 1..Len(q) : q'[i] = q[i]
      BY <1>2, <2>3, <3>1, AppendProperties
    <3> QED
      BY <1>2, <3>2, LenProperties
  <2> HIDE DEF new
  <2>5. \A v \in Waiting : v.buf < new.buf /\ v \in VideoBuffers
    <3>1. \A v \in Waiting : v \in VideoBuffers
      BY <1>2, ElementOfSeq DEF Waiting
    <3> QED
      BY <1>2, <2>3, <3>1 DEF FramesInv, VideoBuffers
  <2>6. Waiting' \subseteq Waiting \cup {new}
    <3> SUFFICES ASSUME NEW v \in Waiting', v # new PROVE v \in Waiting
      OBVIOUS
    <3>1. CASE \E i \in DOMAIN a : v = a[i]
      BY <3>1 DEF Waiting
    <3>2. CASE \E j \in DOMAIN q' : v = q'[j]
      <4>1. PICK j \in DOMAIN q' : v = q'[j]
        BY <3>2
      <4>2. j \in 1..Len(q)
        BY <1>2, <2>4, <4>1
      <4> QED
        BY <1>2, <2>4, <4>1, <4>2 DEF Waiting
    <3> QED
      BY <2>2, <3>1, <3>2 DEF Waiting
  <2>7. ASSUME NEW i \in DOMAIN q', NEW j \in DOMAIN q', i < j PROVE q'[i].buf < q'[j].buf
    <3>1. i \in 1..Len(q)
      BY <1>2, <2>4, <2>7
    <3>2. CASE j \in 1..Len(q)
      BY <1>2, <2>4, <2>7, <3>1, <3>2 DEF FramesInv
    <3>3. CASE j = Len(q) + 1
      <4>1. q[i] \in Waiting
        BY <1>2, <3>1 DEF Waiting
      <4> QED
        BY <2>4, <2>5, <3>1, <3>3, <4>1
    <3> QED
      BY <1>2, <2>4, <3>2, <3>3
  <2>8. ASSUME NEW i \in DOMAIN a, NEW j \in DOMAIN q' PROVE a[i].buf < q'[j].buf
    <3>1. CASE j \in 1..Len(q)
      BY <1>2, <2>4, <3>1 DEF FramesInv
    <3>2. CASE j = Len(q) + 1
      <4>1. a[i] \in Waiting
        BY DEF Waiting
      <4> QED
        BY <2>4, <2>5, <3>2, <4>1
    <3> QED
      BY <1>2, <2>4, <3>1, <3>2
  <2>9. ASSUME NEW v \in Waiting' PROVE v.buf <= produced' /\ v.ts \in FrameTimes[v.buf]
    <3>1. CASE v = new
      BY <1>2, <2>2, <2>3, <3>1
    <3>2. CASE v \in Waiting
      <4>1. v.buf < produced + 1 /\ v.ts \in FrameTimes[v.buf] /\ v.buf \in Int
        BY <2>3, <2>5, <3>2 DEF FramesInv, VideoBuffers
      <4> QED
        BY <1>2, <2>2, <4>1
    <3> QED
      BY <2>6, <2>9, <3>1, <3>2
  <2>10. FramesInv'
    BY <2>2, <2>7, <2>8, <2>9 DEF FramesInv
  <2> QED
    BY <2>1, <2>2, <2>6, <2>10 DEF FramesStepped, new
<1>12. CASE UNCHANGED <<bqVars, frameVars>>
  BY <1>3, <1>12 DEF bqVars, frameVars
<1>13. CASE UNCHANGED vars
  BY <1>12, <1>13 DEF vars
<1> HIDE DEF a, q
<1> QED
  BY <1>4, <1>6, <1>7, <1>8, <1>9, <1>10, <1>11, <1>12, <1>13, FramesUntouched
     DEF Next, Callbacks, OnFrameAvailable, Continue, FillCodecBuffer, Lifecycle, Control

LEMMA BehindKept ==
    ASSUME IInv, FramesInv, [Next]_vars, NEW b \in Nat, Behind(b)
    PROVE  Behind(b)'
<1>1. FramesStepped /\ produced \in Nat
  BY FramesStep, ConstantTypes DEF IInv, TypeOK, QueueTypeOK
<1> QED
  BY <1>1 DEF FramesStepped, Behind

-----------------------------------------------------------------------------
(* The order of the stream. *)

(* What the component was given last, and what may be repeated, is older    *)
(* than every frame that waits, and only the newest is repeated.            *)
FedInv ==
    /\ Behind(mLatestBuffer.buf)
    /\ encoded # <<>> => Behind(Newest(encoded).buf)
    /\ encoded # <<>> /\ mLatestBuffer.buf # Null =>
          Newest(encoded).buf <= mLatestBuffer.buf

(* The time of the last frame is still that of the clock, so that the next  *)
(* one is later: a refused buffer has set the clock, which takes it back    *)
(* only while frames are not dropped for their time.                        *)
ClockKept == ~SubmitMayFail \/ MaxFpsArgs \subseteq Nat

ClockInv ==
    /\ mPrevFrameUs >= -1
    /\ mLatestBuffer.buf # Null => mLatestBuffer.ts >= 0
    /\ encoded # <<>> => mPrevFrameUs >= Newest(encoded).ts
    /\ MaxFpsArgs \subseteq Nat => mFrameDropper.interval # -1

OrderInv == IntervalInv /\ FramesInv /\ FedInv /\ ClockInv

LEMMA NewestAppended ==
    ASSUME CodecTypeOK, NEW v \in VideoBuffers \cup {Eos}, NEW r, r = Append(encoded, v)
    PROVE  r # <<>> /\ Newest(r) = v /\ r # encoded
<1>1. encoded \in Seq(VideoBuffers \cup {Eos}) /\ Len(encoded) \in Nat
  BY LenProperties DEF CodecTypeOK
<1>2. r \in Seq(VideoBuffers \cup {Eos}) /\ Len(r) = Len(encoded) + 1 /\ r[Len(encoded) + 1] = v
  BY <1>1, AppendProperties
<1> QED
  BY <1>1, <1>2 DEF Newest

LEMMA NewestType ==
    ASSUME CodecTypeOK, encoded # <<>>
    PROVE  Newest(encoded) \in VideoBuffers \cup {Eos}
<1>1. encoded \in Seq(VideoBuffers \cup {Eos}) /\ Len(encoded) \in Nat /\ Len(encoded) > 0
  BY LenProperties, EmptySeq DEF CodecTypeOK
<1> QED
  BY <1>1, ElementOfSeq DEF Newest

(* What is given in a step, if anything. *)
LEMMA GivenSteps ==
    ASSUME IInv, [Next]_vars
    PROVE  \/ UNCHANGED encoded
           \/ Configure
           \/ EosTried /\ encoded' = Append(encoded, Eos) /\ mLatestBuffer' = NoBuffer
           \/ RepeatTried /\ CanRepeat /\ SubmitBuffer(mLatestBuffer)
           \/ FillSubmits
<1>1. CASE UNCHANGED streamVars \/ Release \/ FillSkips \/ FillFails
  BY <1>1 DEF streamVars, Release, FillSkips, FillFails, SubmitBufferFails, codecVars
<1>2. CASE EosTried
  BY <1>2 DEF EosTried, SubmitEndOfInputStream, TakeCodecBuffer, codecVars
<1>3. CASE RepeatTried
  BY <1>3 DEF RepeatTried, RepeatLatestBuffer, RepeatLatestBufferFails, SubmitBufferFails, codecVars
<1> QED
  BY <1>1, <1>2, <1>3, StreamSteps

LEMMA FrameFacts ==
    ASSUME IInv, [Next]_vars, FramesInv, FillSkips \/ FillSubmits \/ FillFails
    PROVE  \E v \in VideoBuffers :
              /\ Item \in Waiting /\ Item \in VideoBuffers /\ v = Shifted(Item) /\ v.buf = Item.buf
              /\ v.ts >= 0
              /\ v.buf <= produced' /\ \A w \in Waiting' : v.buf < w.buf
              /\ \/ UNCHANGED mLatestBuffer /\ (mFrameRepeatIntervalUs <= 0 \/ FillFails)
                 \/ /\ mFrameRepeatIntervalUs > 0 /\ ~FillFails
                    /\ mLatestBuffer' = AfterInterval(v)
<1>1. Filling /\ HasItem /\ TakeItem /\ Item.ts >= mSkipFramesBeforeUs
  BY DEF FillSkips, FillSubmits, FillFails, Encodable
<1>2. QueueTypeOK /\ QueueAccounted /\ QueueTypeOK' /\ TimeTypeOK /\ HaveAvailableBuffers
  BY <1>1, QueueStep DEF IInv, TypeOK, QueueInv, Filling
<1>3. Item \in VideoBuffers
  BY <1>1, <1>2, ItemTaken
<1>4. /\ Item \in Waiting
      /\ Item.buf <= produced' /\ \A w \in Waiting' : Item.buf < w.buf
  BY <1>1, <1>2, OldestTaken
<1>5. Item.ts \in Nat
  <2>1. Item.ts \in FrameTimes[Item.buf] /\ Item.buf \in 1..MaxFrames
    BY <1>3, <1>4 DEF FramesInv, VideoBuffers
  <2> QED
    BY <2>1, ConstantTypes
<1>6. PICK v \in VideoBuffers : v = Shifted(Item)
  BY <1>2, <1>3, ShiftedType
<1>7. v.buf = Item.buf
  BY <1>2, <1>3, <1>6, ShiftedType
<1>8. v.ts >= 0
  BY <1>1, <1>2, <1>3, <1>5, <1>6 DEF Shifted, TimeTypeOK, VideoBuffers
<1>9. \/ UNCHANGED mLatestBuffer /\ (mFrameRepeatIntervalUs <= 0 \/ FillFails)
      \/ mFrameRepeatIntervalUs > 0 /\ ~FillFails /\ mLatestBuffer' = AfterInterval(v)
  <2>1. CASE FillFails
    BY <2>1 DEF FillFails
  <2>2. CASE (FillSkips \/ FillSubmits) /\ ~FillFails /\ mFrameRepeatIntervalUs > 0
    BY <1>6, <2>2 DEF FillSkips, FillSubmits, Remember, SetLatestBuffer
  <2>3. CASE (FillSkips \/ FillSubmits) /\ ~(mFrameRepeatIntervalUs > 0)
    <3>1. UNCHANGED mLatestBuffer
      BY <2>3 DEF FillSkips, FillSubmits, Remember
    <3>2. mFrameRepeatIntervalUs <= 0
      BY <2>3 DEF IInv, TypeOK, RepeatTypeOK
    <3> QED
      BY <3>1, <3>2
  <2> QED
    BY <2>1, <2>2, <2>3
<1> QED
  BY <1>3, <1>4, <1>6, <1>7, <1>8, <1>9

LEMMA FedStep ==
    ASSUME IInv, OrderInv, [Next]_vars
    PROVE  FedInv'
<1>1. /\ CodecTypeOK /\ RepeatTypeOK /\ QueueTypeOK /\ QueueTypeOK' /\ FedInv /\ FramesInv
      /\ IntervalInv
  BY QueueStep DEF IInv, TypeOK, OrderInv, QueueInv
<1>2. /\ mLatestBuffer \in VideoBuffers \cup {NoBuffer} /\ mLatestBuffer.buf \in Nat
      /\ MaxFrames \in Nat
  BY <1>1, ConstantTypes DEF RepeatTypeOK, VideoBuffers, NoBuffer, Null
<1>3. /\ mLatestBuffer.buf <= produced' /\ \A w \in Waiting' : mLatestBuffer.buf < w.buf
  <2>1. PICK b \in Nat : b = mLatestBuffer.buf
    BY <1>2
  <2>2. Behind(b)'
    BY <1>1, <2>1, BehindKept DEF FedInv
  <2> QED
    BY <2>1, <2>2 DEF Behind
<1>4. encoded # <<>> => /\ Newest(encoded).buf \in Nat /\ Newest(encoded).buf <= produced'
                        /\ \A w \in Waiting' : Newest(encoded).buf < w.buf
  <2> SUFFICES ASSUME encoded # <<>>
               PROVE  /\ Newest(encoded).buf \in Nat /\ Newest(encoded).buf <= produced'
                      /\ \A w \in Waiting' : Newest(encoded).buf < w.buf
    OBVIOUS
  <2>1. PICK b \in Nat : b = Newest(encoded).buf
    BY <1>1, <1>2, NewestType DEF VideoBuffers, Eos, Null
  <2>2. Behind(b)'
    BY <1>1, <2>1, BehindKept DEF FedInv
  <2> QED
    BY <2>1, <2>2 DEF Behind
<1>5. /\ 0 <= produced' /\ \A w \in Waiting' : 0 < w.buf
  <2>1. produced' \in Nat /\ Waiting' \subseteq VideoBuffers
    <3>1. /\ mAvailableBuffers' \in Seq(VideoBuffers) /\ queued' \in Seq(VideoBuffers)
          /\ produced' \in 0..MaxFrames
      BY <1>1 DEF QueueTypeOK
    <3> QED
      BY <1>2, <3>1, ElementOfSeq, LenProperties DEF Waiting
  <2> QED
    BY <2>1 DEF VideoBuffers
<1>6. ASSUME UNCHANGED encoded, mLatestBuffer'.buf \in {mLatestBuffer.buf, Null} PROVE FedInv'
  <2>1. Behind(mLatestBuffer.buf)'
    BY <1>3, <1>5, <1>6 DEF Behind, Null
  <2>2. encoded' # <<>> => Behind(Newest(encoded).buf)'
    BY <1>4, <1>6 DEF Behind
  <2> QED
    BY <1>1, <1>6, <2>1, <2>2 DEF FedInv
<1>7. CASE UNCHANGED streamVars \/ Release
  <2>1. UNCHANGED encoded /\ (mLatestBuffer' = mLatestBuffer \/ mLatestBuffer' = NoBuffer)
    BY <1>7 DEF streamVars, Release
  <2> QED
    BY <1>6, <2>1 DEF NoBuffer
<1>8. CASE EosTried
  <2>1. CASE UNCHANGED <<encoded, mLatestBuffer>>
    BY <1>6, <2>1
  <2>2. CASE encoded' = Append(encoded, Eos) /\ mLatestBuffer' = NoBuffer
    <3>1. Newest(encoded') = Eos
      BY <1>1, <2>2, NewestAppended
    <3> QED
      BY <1>5, <2>2, <3>1 DEF FedInv, Behind, NoBuffer, Eos, Null
  <2> QED
    BY <1>8, <2>1, <2>2 DEF EosTried, SubmitEndOfInputStream, TakeCodecBuffer, codecVars
<1>9. CASE RepeatTried
  <2>1. mLatestBuffer'.buf = mLatestBuffer.buf
    BY <1>1, <1>9, LatestAfterRepeat
  <2>2. CASE UNCHANGED encoded
    BY <1>6, <2>1, <2>2
  <2>3. CASE CanRepeat /\ encoded' = Append(encoded, mLatestBuffer)
    <3>1. mLatestBuffer \in VideoBuffers
      BY <1>2, <2>3 DEF CanRepeat, NoBuffer, Null
    <3>2. Newest(encoded') = mLatestBuffer
      BY <1>1, <2>3, <3>1, NewestAppended
    <3> QED
      BY <1>2, <1>3, <2>1, <3>2 DEF FedInv, Behind
  <2> QED
    BY <1>9, <2>2, <2>3 DEF RepeatTried, RepeatLatestBuffer, RepeatLatestBufferFails,
                            SubmitBuffer, SubmitBufferFails, TakeCodecBuffer, codecVars
<1>10. CASE FillSkips \/ FillSubmits \/ FillFails
  <2>1. PICK v \in VideoBuffers :
              /\ Item \in Waiting /\ Item \in VideoBuffers /\ v = Shifted(Item) /\ v.buf = Item.buf
              /\ v.ts >= 0
              /\ v.buf <= produced' /\ \A w \in Waiting' : v.buf < w.buf
              /\ \/ UNCHANGED mLatestBuffer /\ (mFrameRepeatIntervalUs <= 0 \/ FillFails)
                 \/ /\ mFrameRepeatIntervalUs > 0 /\ ~FillFails
                    /\ mLatestBuffer' = AfterInterval(v)
    BY <1>1, <1>10, FrameFacts
  <2>2. AfterInterval(v).buf = v.buf /\ v.buf \in Nat
    BY <1>1, <1>2, AfterIntervalType DEF VideoBuffers
  <2>3. encoded # <<>> => Newest(encoded).buf < v.buf
    BY <1>1, <2>1 DEF FedInv, Behind
  <2>4. Behind(mLatestBuffer.buf)'
    BY <1>3, <2>1, <2>2 DEF Behind
  <2>5. CASE UNCHANGED encoded
    <3>1. CASE UNCHANGED mLatestBuffer
      BY <1>6, <2>5, <3>1
    <3>2. CASE mLatestBuffer' = AfterInterval(v)
      <4>1. encoded' # <<>> => Behind(Newest(encoded).buf)'
        BY <1>4, <2>5 DEF Behind
      <4>2. encoded' # <<>> => Newest(encoded').buf <= mLatestBuffer'.buf
        BY <1>4, <2>2, <2>3, <2>5, <3>2
      <4> QED
        BY <2>4, <4>1, <4>2 DEF FedInv
    <3> QED
      BY <2>1, <3>1, <3>2
  <2>6. CASE FillSubmits /\ encoded' = Append(encoded, v) /\ ~FillFails
    <3>1. Newest(encoded') = v
      BY <1>1, <2>6, NewestAppended
    <3>2. Behind(Newest(encoded).buf)'
      BY <2>1, <3>1 DEF Behind
    <3>3. mLatestBuffer'.buf # Null => v.buf <= mLatestBuffer'.buf
      <4>1. CASE UNCHANGED mLatestBuffer
        BY <1>1, <2>1, <2>2, <2>6, <4>1 DEF IntervalInv, IInv, TypeOK, RepeatTypeOK
      <4>2. CASE mLatestBuffer' = AfterInterval(v)
        BY <2>2, <4>2
      <4> QED
        BY <2>1, <4>1, <4>2
    <3> QED
      BY <2>4, <3>1, <3>2, <3>3 DEF FedInv
  <2>7. FillFails => UNCHANGED encoded
    BY DEF FillFails, SubmitBufferFails, codecVars
  <2>8. FillSubmits => encoded' = Append(encoded, v)
    BY <2>1 DEF FillSubmits, SubmitBuffer, TakeCodecBuffer
  <2>9. FillSkips => UNCHANGED encoded
    BY DEF FillSkips, codecVars
  <2> QED
    BY <1>10, <2>5, <2>6, <2>7, <2>8, <2>9
<1>11. CASE Configure
  <2>1. encoded' = <<>> /\ mLatestBuffer' = NoBuffer
    BY <1>11 DEF Configure
  <2> QED
    BY <1>5, <2>1 DEF FedInv, Behind, NoBuffer, Null
<1> QED
  BY <1>7, <1>8, <1>9, <1>10, <1>11, StreamSteps

-----------------------------------------------------------------------------
(* The clock of the stream. *)

LEMMA DropperKept ==
    ASSUME [Next]_vars, ~Configure, \A rate \in MaxFpsArgs : ~SetMaxFps(rate),
           ~FillSubmits, ~FillFails
    PROVE  UNCHANGED mFrameDropper
<1>1. CASE \/ FillBails \/ FillDiscards \/ FillStops \/ FillSkips \/ QueueBuffer
           \/ OnFrameAvailable
  BY <1>1 DEF FillBails, FillDiscards, FillStops, FillSkips, QueueBuffer, OnFrameAvailable,
     FrameDeferred, FrameNotAcquired, FrameIgnored, FrameAcquired, CallbackBegins, timeVars
<1>2. CASE \/ \E id \in CodecBuffers : OnInputBufferEmptied(id) \/ OnInputBufferAdded(id)
           \/ EmptiedAborts \/ Start \/ StartLooper \/ Stop \/ ReleaseReturns
           \/ Release \/ StartSendsEos
  BY <1>2 DEF OnInputBufferEmptied, OnInputBufferAdded, EmptiedAborts, Start, StartLooper,
              Stop, ReleaseReturns, Release, StartSendsEos, timeVars
<1>3. CASE \/ \E t \in ActionTimes, action \in {"PAUSE", "RESUME", "STOP"} :
                  QueueAction(action, t)
           \/ SuspendNow \/ ResumeNow
  BY <1>3 DEF QueueAction, SuspendNow, ResumeNow, ControlCall
<1>4. CASE \/ SignalEndOfInputStream
           \/ \E delay \in RepeatDelays : SetRepeatPreviousFrameDelayUs(delay)
           \/ \E t \in StartTimes : SetStartTimeUs(t)
  BY <1>4 DEF SignalEndOfInputStream, SetRepeatPreviousFrameDelayUs, SetStartTimeUs, timeVars
<1>5. CASE TakeMessage \/ MessageIgnored \/ MessageRepeats \/ EmptiedSendsEos \/ EmptiedRepeats
  BY <1>5 DEF TakeMessage, MessageIgnored, MessageRepeats, OnMessageReceived, EmptiedSendsEos,
              EmptiedRepeats, EmptiedWithoutFrames, timeVars
<1>6. CASE UNCHANGED vars
  BY <1>6 DEF vars, timeVars
<1> QED
  BY <1>1, <1>2, <1>3, <1>4, <1>5, <1>6
     DEF Next, Callbacks, Continue, FillCodecBuffer, Lifecycle, Control

DropperInv == MaxFpsArgs \subseteq Nat => mFrameDropper.interval # -1

LEMMA DropperStep ==
    ASSUME IInv, DropperInv, [Next]_vars
    PROVE  DropperInv'
<1>1. mFrameDropper \in [interval : Nat \cup {-1}, desired : Int]
  BY DEF IInv, TypeOK, TimeTypeOK
<1>2. CASE Configure
  BY <1>2 DEF Configure, NoDropper, DropperInv
<1>3. ASSUME NEW rate \in MaxFpsArgs, SetMaxFps(rate) PROVE DropperInv'
  <2> SUFFICES ASSUME MaxFpsArgs \subseteq Nat PROVE mFrameDropper'.interval # -1
    BY DEF DropperInv
  <2>1. CASE rate = 0
    BY <1>3, <2>1 DEF SetMaxFps, NoDropper
  <2>2. CASE rate # 0
    <3>1. rate \in Nat /\ rate > 0 /\ UnitsPerSecond \in Nat
      BY <2>2, RuleAssumption
    <3>2. UnitsPerSecond \div rate \in Nat
      BY <3>1
    <3>3. IntervalOf(rate) \in Nat
      BY <3>1, <3>2 DEF IntervalOf
    <3> QED
      BY <1>3, <2>2, <3>3 DEF SetMaxFps
  <2> QED
    BY <2>1, <2>2
<1>4. CASE FillSubmits \/ FillFails
  <2>1. PassRateLimit(Shifted(Item).ts)
    BY <1>4 DEF FillSubmits, FillFails
  <2> QED
    BY <1>1, <2>1 DEF PassRateLimit, DropperInv
<1>5. CASE UNCHANGED mFrameDropper
  BY <1>5 DEF DropperInv
<1> QED
  BY <1>2, <1>3, <1>4, <1>5, DropperKept

(* A frame is given, or refused, at a time the clock then shows. *)
LEMMA ClockSet ==
    ASSUME CodecTypeOK, ClockInv, ClockKept, TimeTypeOK,
           NEW v \in VideoBuffers, v.ts >= 0, SubmitBuffer(v) \/ SubmitBufferFails(v)
    PROVE  mPrevFrameUs' >= -1 /\ (encoded' # <<>> => mPrevFrameUs' >= Newest(encoded').ts)
<1>1. v.ts \in Int /\ mPrevFrameUs \in Int
      /\ (encoded # <<>> => Newest(encoded).ts \in Int /\ mPrevFrameUs >= Newest(encoded).ts)
  BY NewestType DEF VideoBuffers, TimeTypeOK, ClockInv, Eos
<1>2. CASE SubmitBuffer(v)
  <2>1. mPrevFrameUs' = v.ts /\ encoded' = Append(encoded, v)
    BY <1>2 DEF SubmitBuffer, TakeCodecBuffer
  <2>2. Newest(encoded') = v
    BY <2>1, NewestAppended
  <2> QED
    BY <1>1, <2>1, <2>2
<1>3. CASE SubmitBufferFails(v)
  <2>1. UNCHANGED encoded
    BY <1>3 DEF SubmitBufferFails, codecVars
  <2>2. CASE UNCHANGED mPrevFrameUs
    BY <1>1, <2>1, <2>2 DEF ClockInv
  <2>3. CASE TimestampAccepted(v.ts) /\ SubmitMayFail /\ mPrevFrameUs' = v.ts
    <3>1. mFrameDropper.interval # -1
      BY <2>3 DEF ClockInv, ClockKept
    <3>2. v.ts > mPrevFrameUs
      BY <2>3, <3>1 DEF TimestampAccepted
    <3> QED
      BY <1>1, <2>1, <2>3, <3>2
  <2> QED
    BY <1>3, <2>2, <2>3 DEF SubmitBufferFails
<1> QED
  BY <1>2, <1>3

LEMMA ClockStep ==
    ASSUME IInv, OrderInv, ClockKept, [Next]_vars
    PROVE  ClockInv'
<1>1. /\ CodecTypeOK /\ RepeatTypeOK /\ TimeTypeOK /\ ClockInv /\ FramesInv /\ IntervalInv
      /\ mLatestBuffer \in VideoBuffers \cup {NoBuffer}
      /\ mPrevFrameUs \in Int /\ mFrameRepeatIntervalUs \in Int
  BY DEF IInv, TypeOK, OrderInv, RepeatTypeOK, TimeTypeOK
<1>2. DropperInv'
  BY <1>1, DropperStep DEF ClockInv, DropperInv
<1>3. ASSUME UNCHANGED <<encoded, mPrevFrameUs>>,
             mLatestBuffer' = mLatestBuffer \/ mLatestBuffer' = NoBuffer
      PROVE  ClockInv'
  BY <1>1, <1>2, <1>3 DEF ClockInv, DropperInv, NoBuffer
<1>4. CASE UNCHANGED streamVars
  BY <1>3, <1>4 DEF streamVars
<1>5. CASE Release
  BY <1>3, <1>5 DEF Release, timeVars
<1>6. CASE EosTried
  <2>1. CASE UNCHANGED <<encoded, mLatestBuffer>>
    BY <1>3, <1>6, <2>1 DEF EosTried
  <2>2. CASE encoded' = Append(encoded, Eos) /\ mLatestBuffer' = NoBuffer
    <3>1. Newest(encoded') = Eos
      BY <1>1, <2>2, NewestAppended
    <3> QED
      BY <1>1, <1>2, <1>6, <2>2, <3>1 DEF EosTried, ClockInv, DropperInv, NoBuffer, Eos
  <2> QED
    BY <1>6, <2>1, <2>2 DEF EosTried, SubmitEndOfInputStream, TakeCodecBuffer, codecVars
<1>7. ASSUME NEW v \in VideoBuffers, v.ts >= 0, mFrameRepeatIntervalUs > 0
      PROVE  AfterInterval(v).ts >= 0
  BY <1>1, <1>7 DEF AfterInterval, VideoBuffers
<1>8. CASE RepeatTried
  <2>1. CASE UNCHANGED <<encoded, mPrevFrameUs, mLatestBuffer>>
    BY <1>3, <2>1
  <2>2. CASE /\ CanRepeat
             /\ SubmitBuffer(mLatestBuffer) \/ SubmitBufferFails(mLatestBuffer)
             /\ mLatestBuffer' = mLatestBuffer \/ mLatestBuffer' = AfterInterval(mLatestBuffer)
    <3>1. mLatestBuffer \in VideoBuffers /\ mLatestBuffer.ts >= 0 /\ mFrameRepeatIntervalUs > 0
      BY <1>1, <2>2 DEF CanRepeat, NoBuffer, Null, ClockInv, IntervalInv
    <3>2. mPrevFrameUs' >= -1 /\ (encoded' # <<>> => mPrevFrameUs' >= Newest(encoded').ts)
      BY <1>1, <2>2, <3>1, ClockSet
    <3>3. mLatestBuffer'.ts >= 0
      BY <1>7, <2>2, <3>1
    <3> QED
      BY <1>2, <3>2, <3>3 DEF ClockInv, DropperInv
  <2> QED
    BY <1>8, <2>1, <2>2 DEF RepeatTried, RepeatLatestBuffer, RepeatLatestBufferFails, codecVars
<1>9. CASE FillSkips \/ FillSubmits \/ FillFails
  <2>1. PICK v \in VideoBuffers :
              /\ v = Shifted(Item) /\ v.ts >= 0
              /\ \/ UNCHANGED mLatestBuffer
                 \/ mFrameRepeatIntervalUs > 0 /\ mLatestBuffer' = AfterInterval(v)
    BY <1>1, <1>9, FrameFacts
  <2>2. mLatestBuffer'.buf # Null => mLatestBuffer'.ts >= 0
    BY <1>1, <1>7, <2>1 DEF ClockInv
  <2>3. CASE FillSkips
    <3>1. UNCHANGED <<encoded, mPrevFrameUs>>
      BY <2>3 DEF FillSkips, codecVars
    <3> QED
      BY <1>1, <1>2, <2>2, <3>1 DEF ClockInv, DropperInv
  <2>4. CASE FillSubmits \/ FillFails
    <3>1. mPrevFrameUs' >= -1 /\ (encoded' # <<>> => mPrevFrameUs' >= Newest(encoded').ts)
      BY <1>1, <2>1, <2>4, ClockSet DEF FillSubmits, FillFails
    <3> QED
      BY <1>2, <2>2, <3>1 DEF ClockInv, DropperInv
  <2> QED
    BY <1>9, <2>3, <2>4
<1>10. CASE Configure
  BY <1>2, <1>10 DEF Configure, ClockInv, DropperInv, NoBuffer
<1> QED
  BY <1>4, <1>5, <1>6, <1>8, <1>9, <1>10, StreamSteps

LEMMA OrderHolds == ASSUME ClockKept PROVE Spec => [](IInv /\ OrderInv)
<1>1. Init => IInv /\ OrderInv
  <2> SUFFICES ASSUME Init PROVE OrderInv
    BY InitIInv
  <2>1. queued = <<>> /\ mAvailableBuffers = <<>> /\ produced = 0 /\ encoded = <<>>
        /\ mLatestBuffer = NoBuffer /\ mPrevFrameUs = -1 /\ mFrameDropper = NoDropper
        /\ mFrameRepeatIntervalUs = -1
    BY DEF Init
  <2>2. Waiting = {}
    BY <2>1 DEF Waiting
  <2> QED
    BY <2>1, <2>2 DEF OrderInv, IntervalInv, FramesInv, FedInv, Behind, ClockInv, NoBuffer,
                      Null, NoDropper
<1>2. (IInv /\ OrderInv) /\ [Next]_vars => (IInv /\ OrderInv)'
  <2> SUFFICES ASSUME IInv, OrderInv, [Next]_vars PROVE IInv' /\ OrderInv'
    OBVIOUS
  <2>1. IInv' /\ IntervalInv' /\ FramesInv' /\ FedInv' /\ ClockInv'
    BY StepIInv, IntervalStep, FramesStep, FedStep, ClockStep DEF OrderInv, FramesStepped
  <2> QED
    BY <2>1 DEF OrderInv
<1> QED
  BY <1>1, <1>2, PTL DEF Spec

(* Frames reach the component in the order they were queued, a repeat only  *)
(* ever repeats the newest, and encoding time strictly advances unless the  *)
(* client disabled dropping; where the client may disable it, provided the  *)
(* component refuses no buffer.                                             *)
THEOREM StreamAlwaysInOrder == ASSUME ClockKept PROVE Spec => StreamInOrder
<1> DEFINE Forward ==
              FrameSubmitted /\ encoded # <<>> =>
                  /\ Newest(encoded').buf >= Newest(encoded).buf
                  /\ mFrameDropper.interval # -1 => Newest(encoded').ts > Newest(encoded).ts
<1>1. IInv /\ OrderInv /\ [Next]_vars => Forward
  <2> SUFFICES ASSUME IInv, OrderInv, [Next]_vars, FrameSubmitted, encoded # <<>>
               PROVE  /\ Newest(encoded').buf >= Newest(encoded).buf
                      /\ mFrameDropper.interval # -1 =>
                            Newest(encoded').ts > Newest(encoded).ts
    OBVIOUS
  <2>1. /\ CodecTypeOK /\ RepeatTypeOK /\ TimeTypeOK /\ FedInv /\ ClockInv /\ FramesInv
        /\ mPrevFrameUs \in Int
    BY DEF IInv, TypeOK, OrderInv, TimeTypeOK
  <2>2. /\ Newest(encoded).ts \in Int /\ Newest(encoded).buf \in Int
        /\ mPrevFrameUs >= Newest(encoded).ts /\ Behind(Newest(encoded).buf)
    BY <2>1, NewestType, ConstantTypes DEF FedInv, ClockInv, VideoBuffers, Eos, Null
  <2>3. ASSUME NEW v \in VideoBuffers, SubmitBuffer(v)
        PROVE  /\ Newest(encoded') = v
               /\ mFrameDropper.interval # -1 => v.ts > Newest(encoded).ts
    <3>1. Newest(encoded') = v
      BY <2>1, <2>3, NewestAppended DEF SubmitBuffer, TakeCodecBuffer
    <3>2. mFrameDropper.interval # -1 => v.ts > mPrevFrameUs
      BY <2>3 DEF SubmitBuffer, TimestampAccepted
    <3> QED
      BY <2>1, <2>2, <2>3, <3>1, <3>2 DEF VideoBuffers
  <2>4. CASE EosTried /\ encoded' = Append(encoded, Eos)
    BY <2>1, <2>4, NewestAppended DEF FrameSubmitted
  <2>5. CASE CanRepeat /\ SubmitBuffer(mLatestBuffer)
    <3>1. mLatestBuffer \in VideoBuffers /\ Newest(encoded).buf <= mLatestBuffer.buf
      BY <2>1, <2>5 DEF CanRepeat, RepeatTypeOK, NoBuffer, Null, FedInv
    <3> QED
      BY <2>2, <2>3, <2>5, <3>1 DEF VideoBuffers
  <2>6. CASE FillSubmits
    <3>1. PICK v \in VideoBuffers : v = Shifted(Item) /\ Item \in Waiting /\ v.buf = Item.buf
      BY <2>1, <2>6, FrameFacts
    <3>2. Newest(encoded).buf < v.buf
      BY <2>2, <3>1 DEF Behind
    <3> QED
      BY <2>2, <2>3, <2>6, <3>1, <3>2 DEF FillSubmits, VideoBuffers
  <2>7. CASE Configure
    BY <2>7 DEF Configure, FrameSubmitted
  <2> QED
    BY <2>4, <2>5, <2>6, <2>7, GivenSteps DEF FrameSubmitted
<1>2. Spec => [][Forward]_vars
  <2>1. (IInv /\ OrderInv) /\ [Next]_vars => [Forward]_vars
    BY <1>1
  <2> QED
    BY <2>1, OrderHolds, PTL DEF Spec
<1> QED
  BY <1>2 DEF StreamInOrder

-----------------------------------------------------------------------------
(* The actions are obeyed. *)

FramesInOrder ==
    \A m, n \in 1..MaxFrames : m < n => \A s \in FrameTimes[m], t \in FrameTimes[n] : s <= t

(* The accepted actions are those consumed, followed by the queue.          *)
Consumed == Len(accepted) - Len(mActionQueue)

(* No frame that waits or is still to come lies before action k. *)
Past(k) ==
    /\ \A v \in Waiting : accepted[k].time <= v.ts
    /\ \A n \in (produced + 1)..MaxFrames : \A t \in FrameTimes[n] : accepted[k].time <= t

(* The last action consumed is in force. *)
InForce(k) ==
    IF k > 0 /\ accepted[k].action = "STOP"
    THEN mEndOfStreamSent
    ELSE mSuspended <=> (k > 0 /\ accepted[k].action = "PAUSE")

ObeyedInv ==
    TimedOnly =>
        /\ Consumed >= 0
        /\ \A i \in DOMAIN mActionQueue : mActionQueue[i] = accepted[Consumed + i]
        /\ \A k \in 1..Consumed : Past(k)
        /\ \A k, l \in DOMAIN accepted : k < l => accepted[k].time <= accepted[l].time
        /\ \A k \in DOMAIN accepted : accepted[k].time <= mLastActionTimeUs
        /\ InForce(Consumed)

LEMMA ControlFacts ==
    ASSUME ControlTypeOK
    PROVE  /\ Len(accepted) \in Nat /\ DOMAIN accepted = 1..Len(accepted)
           /\ Len(mActionQueue) \in Nat /\ DOMAIN mActionQueue = 1..Len(mActionQueue)
           /\ \A k \in 1..Len(accepted) : /\ accepted[k] \in Actions
                                          /\ accepted[k].time \in Int
                                          /\ accepted[k].action \in {"PAUSE", "RESUME", "STOP"}
           /\ Consumed \in Int /\ Consumed <= Len(accepted)
<1>1. accepted \in Seq(Actions) /\ mActionQueue \in Seq(Actions)
  BY DEF ControlTypeOK
<1>2. Len(accepted) \in Nat /\ Len(mActionQueue) \in Nat
      /\ DOMAIN accepted = 1..Len(accepted) /\ DOMAIN mActionQueue = 1..Len(mActionQueue)
  BY <1>1, LenProperties
<1>3. \A k \in 1..Len(accepted) : accepted[k] \in Actions
  BY <1>1, ElementOfSeq
<1>4. \A a \in Actions : a.time \in Int /\ a.action \in {"PAUSE", "RESUME", "STOP"}
  BY DEF Actions
<1> QED
  BY <1>2, <1>3, <1>4 DEF Consumed

(* The scan of the queue: the actions up to s are due, those behind are     *)
(* not, and the last one due is in force.                                   *)
LEMMA ActionsProcessed ==
    ASSUME ControlPart, ObeyedInv, TimedOnly, NEW t \in Int, ProcessActions(t)
    PROVE  \E s \in Consumed..Len(accepted) :
              /\ Len(mActionQueue') = Len(accepted) - s
              /\ \A i \in DOMAIN mActionQueue' : mActionQueue'[i] = accepted[s + i]
              /\ \A j \in (Consumed + 1)..s : accepted[j].time <= t
              /\ \A j \in (s + 1)..Len(accepted) : accepted[j].time > t
              /\ \/ s = Consumed /\ mSuspended' = mSuspended
                 \/ /\ s > Consumed /\ accepted[s].action # "STOP"
                    /\ mSuspended' <=> accepted[s].action = "PAUSE"
<1> DEFINE q == mActionQueue
           N == Len(accepted)
           L == Len(mActionQueue)
           C == Consumed
<1>1. /\ q \in Seq(Actions) /\ N \in Nat /\ L \in Nat /\ DOMAIN q = 1..L
      /\ C \in Int /\ C = N - L /\ C >= 0 /\ C <= N
      /\ \A i \in 1..L : q[i] = accepted[C + i]
      /\ \A k \in 1..N : accepted[k].time \in Int
      /\ \A i, j \in 1..L : i < j => q[i].time <= q[j].time
  BY ControlFacts DEF ControlPart, ControlTypeOK, ObeyedInv, Consumed, ActionInv, ActionQueueOrdered
<1> HIDE DEF q, N, L, C
<1>2. ASSUME NEW i \in 1..L PROVE C + i \in 1..N /\ q[i].time \in Int
  <2>1. C + i \in 1..N
    BY <1>1
  <2> QED
    BY <1>1, <2>1
<1>3. CASE NoneDue(t) /\ UNCHANGED <<mActionQueue, mSuspended>>
  <2>1. \A j \in (C + 1)..N : accepted[j].time > t
    <3> SUFFICES ASSUME NEW j \in (C + 1)..N PROVE accepted[j].time > t
      OBVIOUS
    <3>1. PICK i \in 1..L : i = j - C
      <4>1. j - C \in 1..L
        BY <1>1
      <4> QED
        BY <4>1
    <3>2. q # <<>> /\ 1 \in 1..L
      <4>1. 1 \in 1..L
        BY <1>1, <3>1
      <4> QED
        BY <1>1, <4>1
    <3>3. Head(q) = q[1]
      BY <1>1, <3>2, HeadTailProperties
    <3>4. t < q[1].time
      BY <1>3, <3>2, <3>3 DEF NoneDue, q
    <3>5. q[1].time <= q[i].time
      BY <1>1, <1>2, <3>1, <3>2
    <3>6. C + i = j
      BY <1>1, <3>1
    <3>7. q[i] = accepted[j]
      BY <1>1, <3>1, <3>6
    <3> QED
      BY <1>2, <3>2, <3>1, <3>4, <3>5, <3>7
  <2>2. /\ Len(mActionQueue') = N - C
        /\ \A i \in DOMAIN mActionQueue' : mActionQueue'[i] = accepted[C + i]
        /\ mSuspended' = mSuspended
    BY <1>1, <1>3 DEF q, L
  <2>3. \A j \in (C + 1)..C : accepted[j].time <= t
    BY <1>1
  <2>4. C \in C..N
    BY <1>1
  <2> QED
    BY <2>1, <2>2, <2>3, <2>4 DEF C, N
<1>4. ASSUME NEW n \in 1..L, NewestDue(n, t), q[n].action # "STOP",
             mSuspended' <=> q[n].action = "PAUSE", mActionQueue' = SubSeq(q, n + 1, L)
      PROVE  \E s \in C..N :
              /\ Len(mActionQueue') = N - s
              /\ \A i \in DOMAIN mActionQueue' : mActionQueue'[i] = accepted[s + i]
              /\ \A j \in (C + 1)..s : accepted[j].time <= t
              /\ \A j \in (s + 1)..N : accepted[j].time > t
              /\ s > C /\ accepted[s].action # "STOP"
              /\ mSuspended' <=> accepted[s].action = "PAUSE"
  <2> DEFINE s == C + n
  <2>1. /\ Len(mActionQueue') = L - n
        /\ DOMAIN mActionQueue' = 1..(L - n)
        /\ \A i \in 1..(L - n) : mActionQueue'[i] = q[n + i]
    <3>1. \A i \in (n + 1)..L : q[i] \in Actions
      BY <1>1, ElementOfSeq
    <3>2. /\ mActionQueue' \in Seq(Actions)
          /\ Len(mActionQueue') = L - n
          /\ \A i \in 1..(L - n) : mActionQueue'[i] = q[n + i]
      <4>1. /\ SubSeq(q, n + 1, L) \in Seq(Actions)
            /\ Len(SubSeq(q, n + 1, L)) = IF n + 1 <= L THEN L - (n + 1) + 1 ELSE 0
            /\ \A i \in 1..(L - (n + 1) + 1) : SubSeq(q, n + 1, L)[i] = q[n + 1 + i - 1]
        BY <1>1, <3>1, SubSeqProperties
      <4>2. (IF n + 1 <= L THEN L - (n + 1) + 1 ELSE 0) = L - n /\ L - (n + 1) + 1 = L - n
            /\ \A i \in 1..(L - n) : n + 1 + i - 1 = n + i
        BY <1>1
      <4> QED
        BY <1>4, <4>1, <4>2
    <3> QED
      BY <3>2, LenProperties
  <2>2. Len(mActionQueue') = N - s
    BY <1>1, <2>1
  <2>3. \A i \in DOMAIN mActionQueue' : mActionQueue'[i] = accepted[s + i]
    <3> SUFFICES ASSUME NEW i \in 1..(L - n) PROVE mActionQueue'[i] = accepted[s + i]
      BY <2>1
    <3>1. n + i \in 1..L /\ C + (n + i) = s + i
      BY <1>1
    <3> QED
      BY <1>1, <2>1, <3>1
  <2>4. ASSUME NEW j \in (C + 1)..s PROVE accepted[j].time <= t
    <3>1. PICK i \in 1..n : i = j - C
      <4>1. j - C \in 1..n
        BY <1>1
      <4> QED
        BY <4>1
    <3>2. q[i].time <= t
      BY <1>4 DEF NewestDue, q
    <3>3. i \in 1..L /\ C + i = j
      BY <1>1, <3>1
    <3>4. q[i] = accepted[j]
      BY <1>1, <3>3
    <3> QED
      BY <3>2, <3>4
  <2>5. ASSUME NEW j \in (s + 1)..N PROVE accepted[j].time > t
    <3>1. PICK i \in (n + 1)..L : i = j - C
      <4>1. j - C \in (n + 1)..L
        BY <1>1
      <4> QED
        BY <4>1
    <3>2. n < L /\ n + 1 \in 1..L /\ i \in 1..L /\ C + i = j /\ (i = n + 1 \/ n + 1 < i)
      BY <1>1, <3>1
    <3>5. q[i] = accepted[j]
      BY <1>1, <3>2
    <3>3. q[n + 1].time > t
      BY <1>4, <3>2 DEF NewestDue, q, L
    <3>4. q[n + 1].time <= q[i].time
      BY <1>1, <1>2, <3>2
    <3> QED
      BY <1>2, <3>2, <3>3, <3>4, <3>5
  <2>6. s \in C..N /\ s > C /\ q[n] = accepted[s]
    BY <1>1
  <2> HIDE DEF s
  <2> QED
    BY <1>4, <2>2, <2>3, <2>4, <2>5, <2>6
<1>5. CASE \E n \in DOMAIN mActionQueue :
            /\ NewestDue(n, t)
            /\ mActionQueue[n].action # "STOP"
            /\ mSuspended' = (mActionQueue[n].action = "PAUSE")
            /\ mActionQueue' = SubSeq(mActionQueue, n + 1, Len(mActionQueue))
  <2>1. PICK n \in 1..L :
            /\ NewestDue(n, t) /\ q[n].action # "STOP"
            /\ mSuspended' = (q[n].action = "PAUSE") /\ mActionQueue' = SubSeq(q, n + 1, L)
    BY <1>1, <1>5 DEF q, L
  <2>2. mSuspended' <=> q[n].action = "PAUSE"
    BY <2>1
  <2> QED
    BY <1>4, <2>1, <2>2 DEF C, N
<1> QED
  BY <1>3, <1>5 DEF ProcessActions

(* The frame that is taken lies not behind any that waits. *)
LEMMA ItemIsOldest ==
    ASSUME QueueTypeOK, FramesInv, Filling, HasItem, FramesInOrder
    PROVE  /\ Item \in Waiting /\ Item \in VideoBuffers
           /\ \A v \in Waiting : Item.ts <= v.ts
           /\ \A n \in (produced + 1)..MaxFrames : \A t \in FrameTimes[n] : Item.ts <= t
<1>1. /\ mAvailableBuffers \in Seq(VideoBuffers) /\ queued \in Seq(VideoBuffers)
      /\ produced \in 0..MaxFrames /\ MaxFrames \in Nat
  BY ConstantTypes DEF QueueTypeOK
<1>2. Waiting \subseteq VideoBuffers
  BY <1>1, ElementOfSeq, LenProperties DEF Waiting
<1>3. Item \in Waiting /\ \A v \in Waiting : v = Item \/ Item.buf < v.buf
  <2>1. CASE mAvailableBuffers # <<>>
    <3>1. Item = mAvailableBuffers[1] /\ 1 \in DOMAIN mAvailableBuffers
      BY <1>1, <2>1, TailShifts DEF Item
    <3>2. \A i \in DOMAIN mAvailableBuffers : i = 1 \/ 1 < i
      BY <1>1, LenProperties
    <3> QED
      BY <3>1, <3>2 DEF FramesInv, Waiting
  <2>2. CASE mAvailableBuffers = <<>>
    <3>1. Item = queued[1] /\ 1 \in DOMAIN queued
      BY <1>1, <2>2, TailShifts DEF Item, HasItem
    <3>2. \A i \in DOMAIN queued : i = 1 \/ 1 < i
      BY <1>1, LenProperties
    <3>3. DOMAIN mAvailableBuffers = {}
      BY <2>2
    <3> QED
      BY <3>1, <3>2, <3>3 DEF FramesInv, Waiting
  <2> QED
    BY <2>1, <2>2
<1>4. \A v \in Waiting : /\ v.buf \in 1..MaxFrames /\ v.buf <= produced
                         /\ v.ts \in FrameTimes[v.buf] /\ v.ts \in Int
  BY <1>2 DEF FramesInv, VideoBuffers
<1>5. ASSUME NEW v \in Waiting PROVE Item.ts <= v.ts
  BY <1>3, <1>4 DEF FramesInOrder
<1>6. ASSUME NEW n \in (produced + 1)..MaxFrames, NEW t \in FrameTimes[n] PROVE Item.ts <= t
  <2>1. n \in 1..MaxFrames /\ Item.buf < n
    BY <1>1, <1>3, <1>4
  <2> QED
    BY <1>3, <1>4, <2>1 DEF FramesInOrder
<1> QED
  BY <1>2, <1>3, <1>5, <1>6

(* What was past stays past. *)
LEMMA PastKept ==
    ASSUME IInv, FramesInv, [Next]_vars, NEW k \in DOMAIN accepted, Past(k),
           accepted'[k] = accepted[k]
    PROVE  Past(k)'
<1>1. FramesStepped /\ produced \in Nat /\ MaxFrames \in Nat
  BY FramesStep, ConstantTypes DEF IInv, TypeOK, QueueTypeOK
<1>2. CASE Waiting' \subseteq Waiting /\ UNCHANGED produced
  BY <1>2 DEF Past
<1>3. CASE /\ produced < MaxFrames /\ produced' = produced + 1
           /\ \E t \in FrameTimes[produced + 1] :
                 Waiting' \subseteq Waiting \cup {[buf |-> produced + 1, ts |-> t]}
  <2>1. PICK t \in FrameTimes[produced + 1] :
              Waiting' \subseteq Waiting \cup {[buf |-> produced + 1, ts |-> t]}
    BY <1>3
  <2>2. accepted[k].time <= t
    BY <1>1, <1>3 DEF Past
  <2>3. \A v \in Waiting' : accepted[k].time <= v.ts
    BY <2>1, <2>2 DEF Past
  <2>4. \A n \in (produced' + 1)..MaxFrames : n \in (produced + 1)..MaxFrames
    BY <1>1, <1>3
  <2> QED
    BY <2>3, <2>4 DEF Past
<1> QED
  BY <1>1, <1>2, <1>3 DEF FramesStepped

LEMMA SentStays ==
    ASSUME IInv, [Next]_vars, ~Configure, mEndOfStreamSent
    PROVE  mEndOfStreamSent'
<1>1. CASE UNCHANGED streamVars \/ Release \/ RepeatTried
  BY <1>1 DEF streamVars, Release, RepeatTried, eosVars
<1>2. CASE EosTried
  BY <1>2 DEF EosTried, SubmitEndOfInputStream
<1>3. CASE FillSkips \/ FillSubmits \/ FillFails
  BY <1>3 DEF FillSkips, FillSubmits, FillFails, Encodable, eosVars
<1> QED
  BY <1>1, <1>2, <1>3, StreamSteps

(* A timed action that is accepted comes last. *)
LEMMA ObeyQueued ==
    ASSUME IInv, FramesInv, ObeyedInv, [Next]_vars, TimedOnly',
           NEW t \in ActionTimes, NEW action \in {"PAUSE", "RESUME", "STOP"},
           QueueAction(action, t)
    PROVE  ObeyedInv'
<1> DEFINE entry == [action |-> action, time |-> t]
           q == mActionQueue
           N == Len(accepted)
           L == Len(mActionQueue)
           C == Consumed
<1>1. ControlTypeOK /\ mLastActionTimeUs \in Int
  BY DEF IInv, TypeOK, ControlTypeOK
<1>2. /\ t \in Nat /\ mLastActionTimeUs' = t /\ mLastActionTimeUs <= t
      /\ q' = Append(q, entry) /\ accepted' = Append(accepted, entry)
      /\ UNCHANGED <<mSuspended, mEndOfStreamSent>>
  BY <1>1, ConstantsAssumption
     DEF QueueAction, ActionAccepted, Accept, ControlCall, ControlTypeOK, eosVars
<1>3. /\ N \in Nat /\ DOMAIN accepted = 1..N /\ L \in Nat /\ DOMAIN q = 1..L
      /\ C = N - L /\ C \in Int /\ \A k \in 1..N : accepted[k].time \in Int
  BY <1>1, ControlFacts DEF Consumed
<1>4. entry \in Actions /\ entry.time = t
  BY <1>2 DEF Actions
<1> HIDE DEF entry
<1>5. /\ DOMAIN accepted' = 1..(N + 1) /\ Len(accepted') = N + 1
      /\ \A k \in 1..N : accepted'[k] = accepted[k]
      /\ accepted'[N + 1] = entry
  <2>1. accepted \in Seq(Actions)
    BY <1>1 DEF ControlTypeOK
  <2>2. /\ accepted' \in Seq(Actions) /\ Len(accepted') = N + 1
        /\ \A k \in 1..N : accepted'[k] = accepted[k] /\ accepted'[N + 1] = entry
    BY <1>2, <1>4, <2>1, AppendProperties
  <2>3. accepted'[N + 1] = entry
    BY <1>2, <1>4, <2>1, AppendProperties
  <2> QED
    BY <2>2, <2>3, LenProperties
<1>6. /\ DOMAIN q' = 1..(L + 1) /\ Len(q') = L + 1
      /\ \A i \in 1..L : q'[i] = q[i]
      /\ q'[L + 1] = entry
  <2>1. q \in Seq(Actions)
    BY <1>1 DEF ControlTypeOK
  <2>2. /\ q' \in Seq(Actions) /\ Len(q') = L + 1 /\ \A i \in 1..L : q'[i] = q[i]
    BY <1>2, <1>4, <2>1, AppendProperties
  <2>3. q'[L + 1] = entry
    BY <1>2, <1>4, <2>1, AppendProperties
  <2> QED
    BY <2>2, <2>3, LenProperties
<1>7. TimedOnly
  BY <1>3, <1>5 DEF TimedOnly
<1>8. /\ C >= 0 /\ \A i \in 1..L : q[i] = accepted[C + i]
      /\ \A k \in 1..C : Past(k)
      /\ \A k, l \in 1..N : k < l => accepted[k].time <= accepted[l].time
      /\ \A k \in 1..N : accepted[k].time <= mLastActionTimeUs
      /\ InForce(C)
  BY <1>3, <1>7 DEF ObeyedInv
<1>9. Consumed' = C /\ C <= N
  <2>1. Consumed' = (N + 1) - (L + 1)
    BY <1>5, <1>6 DEF Consumed
  <2> QED
    BY <1>3, <2>1
<1> HIDE DEF q, N, L, C
<1>10. ASSUME NEW i \in 1..(L + 1) PROVE q'[i] = accepted'[C + i]
  <2>1. CASE i \in 1..L
    <3>1. C + i \in 1..N
      BY <1>3, <1>8, <2>1
    <3> QED
      BY <1>5, <1>6, <1>8, <2>1, <3>1
  <2>2. CASE i = L + 1
    <3>1. C + i = N + 1
      BY <1>3, <2>2
    <3> QED
      BY <1>5, <1>6, <2>2, <3>1
  <2> QED
    BY <1>3, <2>1, <2>2
<1>11. ASSUME NEW k \in 1..C PROVE Past(k)'
  <2>1. k \in DOMAIN accepted /\ Past(k) /\ accepted'[k] = accepted[k]
    BY <1>3, <1>5, <1>8, <1>9, <1>11
  <2> QED
    BY <2>1, PastKept
<1>12. ASSUME NEW k \in 1..(N + 1) PROVE accepted'[k].time <= t
  <2>1. CASE k \in 1..N
    <3>1. accepted'[k] = accepted[k] /\ accepted[k].time <= mLastActionTimeUs
          /\ accepted[k].time \in Int
      BY <1>3, <1>5, <1>8, <2>1
    <3> QED
      BY <1>1, <1>2, <3>1
  <2>2. CASE k = N + 1
    BY <1>2, <1>4, <1>5, <2>2
  <2> QED
    BY <1>3, <2>1, <2>2
<1>13. ASSUME NEW k \in 1..(N + 1), NEW l \in 1..(N + 1), k < l
       PROVE  accepted'[k].time <= accepted'[l].time
  <2>1. k \in 1..N
    BY <1>3, <1>13
  <2>2. CASE l \in 1..N
    BY <1>5, <1>8, <1>13, <2>1, <2>2
  <2>3. CASE l = N + 1
    BY <1>4, <1>5, <1>12, <2>3
  <2> QED
    BY <1>3, <2>2, <2>3
<1>14. InForce(Consumed)'
  <2>1. C > 0 => accepted'[C] = accepted[C]
    BY <1>3, <1>5, <1>8, <1>9
  <2> QED
    BY <1>2, <1>8, <1>9, <2>1 DEF InForce
<1> QED
  BY <1>2, <1>5, <1>6, <1>8, <1>9, <1>10, <1>11, <1>12, <1>13, <1>14 DEF ObeyedInv, q

(* The actions that are due when a frame is taken come into force. *)
LEMMA ObeyTaken ==
    ASSUME IInv, FramesInv, ObeyedInv, [Next]_vars, FramesInOrder, TimedOnly,
           Filling, HasItem, UNCHANGED <<accepted, mLastActionTimeUs>>,
           NEW s \in Consumed..Len(accepted),
           Len(mActionQueue') = Len(accepted) - s,
           \A i \in DOMAIN mActionQueue' : mActionQueue'[i] = accepted[s + i],
           \A j \in (Consumed + 1)..s : accepted[j].time <= Item.ts,
           InForce(s)'
    PROVE  ObeyedInv'
<1>1. ControlTypeOK /\ QueueTypeOK /\ MaxFrames \in Nat
  BY ConstantTypes DEF IInv, TypeOK
<1>2. /\ Len(accepted) \in Nat /\ DOMAIN accepted = 1..Len(accepted) /\ Consumed \in Int
      /\ \A k \in 1..Len(accepted) : accepted[k].time \in Int
      /\ Consumed >= 0 /\ s \in Int /\ s >= 0 /\ s <= Len(accepted)
  BY <1>1, ControlFacts DEF ObeyedInv
<1>3. Consumed' = s
  <2>1. Consumed' = Len(accepted) - (Len(accepted) - s)
    BY DEF Consumed
  <2> QED
    BY <1>2, <2>1
<1>4. ASSUME NEW k \in 1..s PROVE Past(k)
  <2>1. CASE k \in 1..Consumed
    BY <2>1 DEF ObeyedInv
  <2>2. CASE k \in (Consumed + 1)..s
    <3>1. accepted[k].time <= Item.ts /\ accepted[k].time \in Int
      BY <1>2, <2>2
    <3>2. /\ Item \in VideoBuffers /\ Waiting \subseteq VideoBuffers
          /\ \A v \in Waiting : Item.ts <= v.ts
          /\ \A n \in (produced + 1)..MaxFrames : \A t \in FrameTimes[n] : Item.ts <= t
      <4>1. Waiting \subseteq VideoBuffers
        BY <1>1, ElementOfSeq, LenProperties DEF Waiting, QueueTypeOK
      <4> QED
        BY <1>1, <4>1, ItemIsOldest
    <3>3. Item.ts \in Int /\ \A v \in Waiting : v.ts \in Int
      BY <3>2 DEF VideoBuffers
    <3>4. \A v \in Waiting : accepted[k].time <= v.ts
      BY <3>1, <3>2, <3>3
    <3>5. \A n \in (produced + 1)..MaxFrames : \A t \in FrameTimes[n] : accepted[k].time <= t
      <4> SUFFICES ASSUME NEW n \in (produced + 1)..MaxFrames, NEW t \in FrameTimes[n]
                   PROVE  accepted[k].time <= t
        OBVIOUS
      <4>1. t \in Int
        BY <1>1, ConstantTypes DEF QueueTypeOK
      <4> QED
        BY <3>1, <3>2, <3>3, <4>1
    <3> QED
      BY <3>4, <3>5 DEF Past
  <2> QED
    BY <1>2, <2>1, <2>2
<1>5. ASSUME NEW k \in 1..s PROVE Past(k)'
  <2>1. k \in DOMAIN accepted
    BY <1>2
  <2> QED
    BY <1>4, <2>1, PastKept
<1>6. InForce(Consumed)'
  BY <1>3 DEF InForce
<1> QED
  BY <1>2, <1>3, <1>5, <1>6 DEF ObeyedInv

(* Nothing is accepted, nothing consumed. *)
LEMMA ObeyKept ==
    ASSUME IInv, FramesInv, ObeyedInv, [Next]_vars, ~Configure, UNCHANGED controlVars
    PROVE  ObeyedInv'
<1> SUFFICES ASSUME TimedOnly PROVE ObeyedInv'
  BY DEF ObeyedInv, TimedOnly, controlVars
<1>1. UNCHANGED <<mSuspended, mActionQueue, mLastActionTimeUs, accepted>>
  BY DEF controlVars
<1>2. ControlTypeOK /\ Consumed' = Consumed
  BY <1>1 DEF IInv, TypeOK, Consumed
<1>3. /\ DOMAIN accepted = 1..Len(accepted) /\ Consumed \in Int /\ Consumed >= 0
      /\ Consumed <= Len(accepted) /\ Len(accepted) \in Nat
  BY <1>2, ControlFacts DEF ObeyedInv
<1>4. ASSUME NEW k \in 1..Consumed PROVE Past(k)'
  <2>1. k \in DOMAIN accepted /\ Past(k) /\ accepted'[k] = accepted[k]
    BY <1>1, <1>3 DEF ObeyedInv
  <2> QED
    BY <2>1, PastKept
<1>5. InForce(Consumed)'
  <2>1. mEndOfStreamSent => mEndOfStreamSent'
    BY SentStays
  <2> QED
    BY <1>1, <1>2, <2>1 DEF ObeyedInv, InForce
<1> QED
  BY <1>1, <1>2, <1>4, <1>5 DEF ObeyedInv

(* A frame is taken, and no STOP is due. *)
LEMMA ObeyFrame ==
    ASSUME IInv, FramesInv, ObeyedInv, [Next]_vars, FramesInOrder, TimedOnly,
           Filling, HasItem, ProcessActions(Item.ts), UNCHANGED eosVars
    PROVE  ObeyedInv'
<1>1. ControlPart /\ QueueTypeOK
  BY DEF IInv, TypeOK, ControlPart
<1>2. Item.ts \in Int
  BY <1>1, ItemIsOldest DEF VideoBuffers
<1>3. PICK s \in Consumed..Len(accepted) :
         /\ Len(mActionQueue') = Len(accepted) - s
         /\ \A i \in DOMAIN mActionQueue' : mActionQueue'[i] = accepted[s + i]
         /\ \A j \in (Consumed + 1)..s : accepted[j].time <= Item.ts
         /\ \/ s = Consumed /\ mSuspended' = mSuspended
            \/ /\ s > Consumed /\ accepted[s].action # "STOP"
               /\ mSuspended' <=> accepted[s].action = "PAUSE"
  BY <1>1, <1>2, ActionsProcessed
<1>4. UNCHANGED <<accepted, mLastActionTimeUs>>
  BY DEF ProcessActions
<1>5. Consumed >= 0 /\ InForce(Consumed) /\ Consumed \in Int /\ Len(accepted) \in Int
  BY <1>1, ControlFacts DEF ObeyedInv, ControlPart
<1>6. InForce(s)'
  <2>1. CASE s = Consumed /\ mSuspended' = mSuspended
    BY <1>4, <1>5, <2>1 DEF InForce, eosVars
  <2>2. CASE s > Consumed /\ accepted[s].action # "STOP"
             /\ (mSuspended' <=> accepted[s].action = "PAUSE")
    <3>1. s > 0
      BY <1>3, <1>5, <2>2
    <3> QED
      BY <1>4, <2>2, <3>1 DEF InForce
  <2> QED
    BY <1>3, <2>1, <2>2
<1> QED
  BY <1>3, <1>4, <1>6, ObeyTaken

(* A frame is taken at which the stream stops. *)
LEMMA ObeyStop ==
    ASSUME IInv, EndInv, FramesInv, ObeyedInv, [Next]_vars, FramesInOrder, TimedOnly,
           ~SubmitMayFail, FillStops
    PROVE  ObeyedInv'
<1> DEFINE q == mActionQueue
           N == Len(accepted)
           L == Len(mActionQueue)
           C == Consumed
<1>1. /\ q \in Seq(Actions) /\ N \in Nat /\ L \in Nat /\ DOMAIN q = 1..L
      /\ C \in Int /\ C = N - L /\ C >= 0 /\ C <= N
      /\ \A i \in 1..L : q[i] = accepted[C + i]
      /\ \A i, j \in 1..L : i < j => q[i].action # "STOP"
  BY ControlFacts
     DEF IInv, TypeOK, ControlTypeOK, ObeyedInv, Consumed, ActionInv, ActionQueueOrdered
<1>2. /\ Filling /\ HasItem /\ mActionQueue' = <<>>
      /\ UNCHANGED <<accepted, mLastActionTimeUs>>
  BY DEF FillStops
<1>3. PICK n \in 1..L : NewestDue(n, Item.ts) /\ q[n].action = "STOP"
  BY <1>1 DEF FillStops
<1>4. n = L
  <2>1. ~(n < L)
    BY <1>1, <1>3
  <2> QED
    BY <1>1, <2>1
<1>5. ASSUME NEW j \in (C + 1)..N PROVE accepted[j].time <= Item.ts
  <2>1. PICK i \in 1..L : i = j - C
    <3>1. j - C \in 1..L
      BY <1>1
    <3> QED
      BY <3>1
  <2>2. q[i].time <= Item.ts
    BY <1>3, <1>4, <2>1 DEF NewestDue, q
  <2>3. C + i = j
    BY <1>1, <2>1
  <2>4. q[i] = accepted[j]
    BY <1>1, <2>3
  <2> QED
    BY <2>2, <2>4
<1>6. mEndOfStreamSent'
  <2>1. ~mEndOfStreamSent /\ mFreeCodecBuffers # <<>>
    BY <1>2 DEF EndInv, Filling, HasItem
  <2> QED
    BY <2>1 DEF FillStops, SubmitEndOfInputStream
<1>7. InForce(N)'
  <2>1. C + L = N /\ N > 0
    BY <1>1, <1>4
  <2>2. accepted[N].action = "STOP"
    BY <1>1, <1>3, <1>4, <2>1
  <2> QED
    BY <1>2, <1>6, <2>1, <2>2 DEF InForce
<1>8. /\ Len(mActionQueue') = N - N /\ DOMAIN mActionQueue' = {}
      /\ N \in C..N
  <2>1. Len(mActionQueue') = 0 /\ DOMAIN mActionQueue' = {}
    BY <1>2
  <2>2. N - N = 0 /\ N \in C..N
    BY <1>1
  <2> QED
    BY <2>1, <2>2
<1> QED
  BY <1>2, <1>5, <1>7, <1>8, ObeyTaken

LEMMA ObeyStep ==
    ASSUME IInv, EndInv, FramesInv, ObeyedInv, FramesInOrder, ~SubmitMayFail, [Next]_vars
    PROVE  ObeyedInv'
<1>1. ControlTypeOK
  BY DEF IInv, TypeOK
<1>2. CASE Configure
  <2>1. accepted' = <<>> /\ mActionQueue' = <<>> /\ ~mSuspended'
    BY <1>2 DEF Configure
  <2>2. Consumed' = 0
    BY <2>1 DEF Consumed
  <2> QED
    BY <2>1, <2>2 DEF ObeyedInv, InForce
<1>3. CASE SuspendNow \/ ResumeNow
  <2>1. PICK action \in {"PAUSE", "RESUME"} :
           accepted' = Append(accepted, [action |-> action, time |-> -1])
    BY <1>3 DEF SuspendNow, ResumeNow, Accept
  <2>2. [action |-> action, time |-> -1] \in Actions /\ accepted \in Seq(Actions)
    BY <1>1 DEF Actions, ControlTypeOK
  <2> DEFINE entry == [action |-> action, time |-> -1]
  <2>3. entry.time = -1
    OBVIOUS
  <2> HIDE DEF entry
  <2>4. Len(accepted) \in Nat
    BY <2>2, LenProperties
  <2>5. accepted' \in Seq(Actions) /\ Len(accepted') = Len(accepted) + 1
        /\ accepted'[Len(accepted) + 1] = entry
    BY <2>1, <2>2, AppendProperties DEF entry
  <2>6. Len(accepted) + 1 \in DOMAIN accepted'
    BY <2>4, <2>5, LenProperties
  <2>7. ~TimedOnly'
    BY <2>3, <2>5, <2>6 DEF TimedOnly
  <2> QED
    BY <2>7 DEF ObeyedInv
<1>4. ASSUME NEW t \in ActionTimes, NEW action \in {"PAUSE", "RESUME", "STOP"},
             QueueAction(action, t)
      PROVE  ObeyedInv'
  <2>1. CASE TimedOnly'
    BY <1>4, <2>1, ObeyQueued
  <2>2. CASE ~TimedOnly'
    BY <2>2 DEF ObeyedInv
  <2> QED
    BY <2>1, <2>2
<1>5. CASE FillStops \/ FillDiscards \/ FillSkips \/ FillSubmits \/ FillFails
  <2>1. UNCHANGED accepted
    BY <1>5 DEF FillStops, FillDiscards, FillSkips, FillSubmits, FillFails, Encodable,
                ProcessActions
  <2>2. CASE ~TimedOnly
    BY <2>1, <2>2 DEF ObeyedInv, TimedOnly
  <2>3. CASE FillStops /\ TimedOnly
    BY <2>3, ObeyStop
  <2>4. CASE (FillDiscards \/ FillSkips \/ FillSubmits \/ FillFails) /\ TimedOnly
    <3>1. Filling /\ HasItem /\ ProcessActions(Item.ts) /\ UNCHANGED eosVars
      BY <2>4 DEF FillDiscards, FillSkips, FillSubmits, FillFails, Encodable
    <3> QED
      BY <2>4, <3>1, ObeyFrame
  <2> QED
    BY <1>5, <2>2, <2>3, <2>4
<1>6. CASE UNCHANGED controlVars /\ ~Configure
  BY <1>6, ObeyKept
<1> QED
  BY <1>2, <1>3, <1>4, <1>5, <1>6, ControlUntouched

LEMMA ObeyHolds ==
    ASSUME FramesInOrder, AcquireLimitSuffices, ~SubmitMayFail
    PROVE  Spec => [](IInv /\ EndInv /\ FramesInv /\ ObeyedInv)
<1>1. Init => FramesInv /\ ObeyedInv
  <2> SUFFICES ASSUME Init PROVE FramesInv /\ ObeyedInv
    OBVIOUS
  <2>1. queued = <<>> /\ mAvailableBuffers = <<>> /\ accepted = <<>> /\ mActionQueue = <<>>
        /\ ~mSuspended
    BY DEF Init
  <2>2. Waiting = {} /\ Consumed = 0
    BY <2>1 DEF Waiting, Consumed
  <2> QED
    BY <2>1, <2>2 DEF FramesInv, ObeyedInv, InForce
<1>2. (FramesInv /\ ObeyedInv) /\ (IInv /\ EndInv) /\ [Next]_vars => (FramesInv /\ ObeyedInv)'
  BY FramesStep, ObeyStep DEF FramesStepped
<1> QED
  BY <1>1, <1>2, EndHolds, PTL DEF Spec

(* A queued frame that is submitted is governed by the newest of the        *)
(* accepted actions that is not after it, and that is a RESUME: where frame *)
(* times do not decrease, nothing is refused by the component, and a STOP   *)
(* finds the frames behind it acquirable.                                   *)
THEOREM ActionsAlwaysRespected ==
    ASSUME FramesInOrder, AcquireLimitSuffices, ~SubmitMayFail
    PROVE  Spec => ActionsRespected
<1> DEFINE Obeyed ==
              FrameSubmitted /\ Filling /\ TimedOnly =>
                  \A k \in DOMAIN accepted :
                     Governs(k, Item.ts) => accepted[k].action = "RESUME"
<1>1. IInv /\ EndInv /\ FramesInv /\ ObeyedInv /\ [Next]_vars => Obeyed
  <2> SUFFICES ASSUME IInv, EndInv, FramesInv, ObeyedInv, [Next]_vars,
                      FrameSubmitted, Filling, TimedOnly,
                      NEW k \in DOMAIN accepted, Governs(k, Item.ts)
               PROVE  accepted[k].action = "RESUME"
    OBVIOUS
  <2>1. CodecTypeOK /\ ControlPart /\ QueueTypeOK
    BY DEF IInv, TypeOK, ControlPart
  <2>2. FillSubmits
    <3>1. ~(EosTried /\ encoded' = Append(encoded, Eos))
      BY <2>1, NewestAppended DEF FrameSubmitted
    <3> QED
      BY <3>1, GivenSteps DEF FrameSubmitted, Configure, RepeatTried
  <2>3. HasItem /\ ProcessActions(Item.ts) /\ ~mSuspended'
    BY <2>2 DEF FillSubmits, Encodable
  <2>4. Item.ts \in Int /\ Item \in Waiting
    BY <2>1, <2>3, ItemIsOldest DEF VideoBuffers
  <2>5. PICK s \in Consumed..Len(accepted) :
           /\ \A j \in (Consumed + 1)..s : accepted[j].time <= Item.ts
           /\ \A j \in (s + 1)..Len(accepted) : accepted[j].time > Item.ts
           /\ \/ s = Consumed /\ mSuspended' = mSuspended
              \/ /\ s > Consumed /\ accepted[s].action # "STOP"
                 /\ mSuspended' <=> accepted[s].action = "PAUSE"
    BY <2>1, <2>3, <2>4, ActionsProcessed
  <2>6. /\ Len(accepted) \in Nat /\ DOMAIN accepted = 1..Len(accepted)
        /\ Consumed \in Int /\ Consumed >= 0 /\ s \in Int
        /\ \A l \in 1..Len(accepted) :
              accepted[l].time \in Int /\ accepted[l].action \in {"PAUSE", "RESUME", "STOP"}
    BY <2>1, ControlFacts DEF ControlPart, ObeyedInv
  <2>7. k = s
    <3>1. ~(k > s)
      <4>1. ASSUME k > s PROVE FALSE
        <5>1. k \in (s + 1)..Len(accepted)
          BY <2>6, <4>1
        <5>2. accepted[k].time > Item.ts /\ accepted[k].time <= Item.ts
          BY <2>5, <5>1 DEF Governs
        <5> QED
          BY <2>4, <2>6, <5>2
      <4> QED
        BY <4>1
    <3>2. ~(k < s)
      <4>1. ASSUME k < s PROVE FALSE
        <5>1. s \in 1..Len(accepted)
          BY <2>6, <4>1
        <5>2. accepted[s].time > Item.ts
          BY <2>6, <4>1, <5>1 DEF Governs
        <5>3. CASE s \in 1..Consumed
          <6>1. accepted[s].time <= Item.ts
            BY <2>4, <5>3 DEF ObeyedInv, Past
          <6> QED
            BY <2>4, <2>6, <5>1, <5>2, <6>1
        <5>4. CASE s \in (Consumed + 1)..s
          <6>1. accepted[s].time <= Item.ts
            BY <2>5, <5>4
          <6> QED
            BY <2>4, <2>6, <5>1, <5>2, <6>1
        <5> QED
          BY <2>6, <5>1, <5>3, <5>4
      <4> QED
        BY <4>1
    <3> QED
      BY <2>6, <3>1, <3>2
  <2>8. accepted[s].action # "STOP" /\ accepted[s].action # "PAUSE"
    <3>1. CASE s > Consumed
      BY <2>3, <2>5, <2>6, <3>1
    <3>2. CASE s = Consumed /\ mSuspended' = mSuspended
      <4>1. s > 0 /\ InForce(s)
        BY <2>6, <2>7, <3>2 DEF ObeyedInv
      <4>2. ~mEndOfStreamSent
        BY DEF EndInv, Filling
      <4> QED
        BY <2>3, <3>2, <4>1, <4>2 DEF InForce
    <3> QED
      BY <2>5, <2>6, <3>1, <3>2
  <2> QED
    BY <2>6, <2>7, <2>8
<1>2. Spec => [][Obeyed]_vars
  <2>1. (IInv /\ EndInv /\ FramesInv /\ ObeyedInv) /\ [Next]_vars => [Obeyed]_vars
    BY <1>1
  <2> QED
    BY <2>1, ObeyHolds, PTL DEF Spec
<1> QED
  BY <1>2 DEF ActionsRespected

-----------------------------------------------------------------------------
(* The repeats of a frame. *)

(* Entries of the stream for frame b. *)
Fed(b) == Cardinality({i \in DOMAIN encoded : encoded[i].buf = b})

StreamBehind == \A i \in DOMAIN encoded : Behind(encoded[i].buf)

(* The stream is older than all that waits; what was repeated of a frame    *)
(* and what may still be together do not exceed the limit.                  *)
CountInv ==
    /\ StreamBehind
    /\ mLatestBuffer.buf # Null =>
          Fed(mLatestBuffer.buf) + mOutstandingFrameRepeatCount <= kRepeatLastFrameCount + 1

(* Repeats used up, the next one included. *)
Turns == (kRepeatLastFrameCount + 1) - mOutstandingFrameRepeatCount

(* The frame's time has moved on by that many repeats, at most d apart. *)
LateInv(d) ==
    mLatestBuffer.buf # Null =>
        \E f \in FrameTimes[mLatestBuffer.buf] : mLatestBuffer.ts <= f + Turns * d

LEMMA FedAppended ==
    ASSUME CodecTypeOK, NEW v \in VideoBuffers \cup {Eos}, encoded' = Append(encoded, v), NEW b
    PROVE  /\ Fed(b) \in Nat
           /\ Fed(b)' = Fed(b) + (IF v.buf = b THEN 1 ELSE 0)
<1> DEFINE N == Len(encoded)
           S == {i \in DOMAIN encoded : encoded[i].buf = b}
           T == {i \in DOMAIN encoded' : encoded'[i].buf = b}
<1>1. encoded \in Seq(VideoBuffers \cup {Eos}) /\ N \in Nat /\ DOMAIN encoded = 1..N
  BY LenProperties DEF CodecTypeOK
<1>2. /\ DOMAIN encoded' = 1..(N + 1)
      /\ \A i \in 1..N : encoded'[i] = encoded[i]
      /\ encoded'[N + 1] = v
  <2>1. /\ encoded' \in Seq(VideoBuffers \cup {Eos}) /\ Len(encoded') = N + 1
        /\ \A i \in 1..N : encoded'[i] = encoded[i]
        /\ encoded'[N + 1] = v
    BY <1>1, AppendProperties
  <2> QED
    BY <2>1, LenProperties
<1> HIDE DEF N
<1>3. IsFiniteSet(S) /\ Cardinality(S) \in Nat
  <2>1. IsFiniteSet(1..N)
    BY <1>1, FS_Interval
  <2> QED
    BY <1>1, <2>1, FS_Subset, FS_CardinalityType
<1>4. CASE v.buf = b
  <2>1. T = S \cup {N + 1} /\ N + 1 \notin S
    BY <1>1, <1>2, <1>4
  <2>2. Cardinality(T) = Cardinality(S) + 1
    BY <1>3, <2>1, FS_AddElement
  <2> QED
    BY <1>3, <1>4, <2>2 DEF Fed
<1>5. CASE v.buf # b
  <2>1. T = S
    BY <1>1, <1>2, <1>5
  <2>2. Fed(b)' = Fed(b) /\ Fed(b) \in Nat
    BY <1>3, <2>1 DEF Fed
  <2> HIDE DEF S, T
  <2> QED
    BY <1>5, <2>2
<1> QED
  BY <1>4, <1>5

LEMMA FedType ==
    ASSUME CodecTypeOK, NEW b
    PROVE  /\ Fed(b) \in Nat
           /\ (\A i \in DOMAIN encoded : encoded[i].buf # b) => Fed(b) = 0
<1>1. DOMAIN encoded = 1..Len(encoded) /\ Len(encoded) \in Nat
  BY LenProperties DEF CodecTypeOK
<1>2. IsFiniteSet(1..Len(encoded))
  BY <1>1, FS_Interval
<1>3. IsFiniteSet({i \in DOMAIN encoded : encoded[i].buf = b})
  BY <1>1, <1>2, FS_Subset
<1>4. (\A i \in DOMAIN encoded : encoded[i].buf # b)
          => {i \in DOMAIN encoded : encoded[i].buf = b} = {}
  OBVIOUS
<1> QED
  BY <1>3, <1>4, FS_CardinalityType, FS_EmptySet DEF Fed

LEMMA StreamBehindKept ==
    ASSUME IInv, FramesInv, [Next]_vars, StreamBehind,
           NEW v \in VideoBuffers \cup {Eos}, encoded' = Append(encoded, v),
           NEW b \in Nat, b = v.buf, Behind(b)'
    PROVE  StreamBehind'
<1>1. encoded \in Seq(VideoBuffers \cup {Eos}) /\ Len(encoded) \in Nat
      /\ DOMAIN encoded = 1..Len(encoded)
  BY LenProperties DEF IInv, TypeOK, CodecTypeOK
<1>2. /\ DOMAIN encoded' = 1..(Len(encoded) + 1)
      /\ \A i \in 1..Len(encoded) : encoded'[i] = encoded[i]
      /\ encoded'[Len(encoded) + 1] = v
  <2>1. /\ encoded' \in Seq(VideoBuffers \cup {Eos}) /\ Len(encoded') = Len(encoded) + 1
        /\ \A i \in 1..Len(encoded) : encoded'[i] = encoded[i]
        /\ encoded'[Len(encoded) + 1] = v
    BY <1>1, AppendProperties
  <2> QED
    BY <2>1, LenProperties
<1>3. ASSUME NEW i \in 1..(Len(encoded) + 1)
      PROVE  \E c \in Nat : c = encoded'[i].buf /\ Behind(c)'
  <2>1. CASE i = Len(encoded) + 1
    BY <1>2, <2>1
  <2>2. CASE i \in 1..Len(encoded)
    <3>1. PICK c \in Nat : c = encoded[i].buf
      <4>1. encoded[i] \in VideoBuffers \cup {Eos}
        BY <1>1, <2>2, ElementOfSeq
      <4> QED
        BY <4>1, ConstantTypes DEF VideoBuffers, Eos, Null
    <3>2. Behind(c)'
      BY <1>1, <2>2, <3>1, BehindKept DEF StreamBehind
    <3> QED
      BY <1>2, <2>2, <3>1, <3>2
  <2> QED
    BY <1>1, <2>1, <2>2
<1> QED
  BY <1>2, <1>3 DEF StreamBehind, Behind

LEMMA StreamBehindStays ==
    ASSUME IInv, FramesInv, [Next]_vars, StreamBehind, UNCHANGED encoded
    PROVE  StreamBehind'
<1>1. ASSUME NEW i \in DOMAIN encoded PROVE \E c \in Nat : c = encoded[i].buf /\ Behind(c)'
  <2>1. PICK c \in Nat : c = encoded[i].buf
    <3>1. encoded[i] \in VideoBuffers \cup {Eos}
      BY ElementOfSeq, LenProperties DEF IInv, TypeOK, CodecTypeOK
    <3> QED
      BY <3>1, ConstantTypes DEF VideoBuffers, Eos, Null
  <2> QED
    BY <2>1, BehindKept DEF StreamBehind
<1> QED
  BY <1>1 DEF StreamBehind, Behind

LEMMA CountStep ==
    ASSUME IInv, IntervalInv, FramesInv, FedInv, CountInv, [Next]_vars
    PROVE  CountInv'
<1>1. /\ CodecTypeOK /\ RepeatTypeOK /\ QueueTypeOK /\ StreamBehind
      /\ kRepeatLastFrameCount \in Nat /\ kRepeatLastFrameCount > 0
      /\ mOutstandingFrameRepeatCount \in Nat
  BY ConstantTypes DEF IInv, TypeOK, CountInv, RepeatTypeOK
<1>2. mLatestBuffer.buf # Null => mFrameRepeatIntervalUs > 0
  BY DEF IntervalInv
<1>3. ASSUME UNCHANGED <<encoded, mOutstandingFrameRepeatCount>>,
             mLatestBuffer'.buf \in {mLatestBuffer.buf, Null}
      PROVE  CountInv'
  <2>1. StreamBehind'
    BY <1>1, <1>3, StreamBehindStays
  <2> QED
    BY <1>3, <2>1 DEF CountInv, Fed
<1>4. CASE UNCHANGED streamVars \/ Release \/ FillFails
  <2>1. UNCHANGED <<encoded, mOutstandingFrameRepeatCount>>
    BY <1>4 DEF streamVars, Release, FillFails, SubmitBufferFails, codecVars
  <2>2. mLatestBuffer' = mLatestBuffer \/ mLatestBuffer' = NoBuffer
    BY <1>4 DEF streamVars, Release, FillFails
  <2> QED
    BY <1>3, <2>1, <2>2 DEF NoBuffer
<1>5. CASE EosTried
  <2>1. CASE UNCHANGED <<encoded, mLatestBuffer>>
    BY <1>3, <1>5, <2>1 DEF EosTried
  <2>2. CASE ~UNCHANGED <<encoded, mLatestBuffer>>
    <3>1. encoded' = Append(encoded, Eos) /\ mLatestBuffer' = NoBuffer
      BY <1>5, <2>2 DEF EosTried, SubmitEndOfInputStream, TakeCodecBuffer, codecVars
    <3>2. Behind(0)
      <4>1. Waiting \subseteq VideoBuffers
        BY <1>1, ElementOfSeq, LenProperties DEF Waiting, QueueTypeOK
      <4> QED
        BY <1>1, <4>1 DEF Behind, QueueTypeOK, VideoBuffers
    <3>3. Behind(0)'
      BY <3>2, BehindKept
    <3>4. StreamBehind'
      BY <1>1, <3>1, <3>3, StreamBehindKept DEF Eos, Null
    <3> QED
      BY <3>1, <3>4 DEF CountInv, NoBuffer
  <2> QED
    BY <2>1, <2>2
<1>6. CASE RepeatTried
  <2>1. mLatestBuffer'.buf = mLatestBuffer.buf
    BY <1>1, <1>6, LatestAfterRepeat
  <2>2. CASE UNCHANGED <<encoded, mOutstandingFrameRepeatCount>>
    BY <1>3, <2>1, <2>2
  <2>3. CASE CanRepeat /\ SubmitBuffer(mLatestBuffer)
             /\ mOutstandingFrameRepeatCount' = mOutstandingFrameRepeatCount - 1
    <3>1. mLatestBuffer \in VideoBuffers
      BY <1>1, <2>3 DEF CanRepeat, RepeatTypeOK, NoBuffer, Null
    <3>2. PICK b \in Nat : b = mLatestBuffer.buf
      BY <3>1, ConstantTypes DEF VideoBuffers
    <3>3. encoded' = Append(encoded, mLatestBuffer)
      BY <2>3 DEF SubmitBuffer, TakeCodecBuffer
    <3>4. Behind(b)'
      BY <3>2, BehindKept DEF FedInv
    <3>5. StreamBehind'
      BY <1>1, <3>1, <3>2, <3>3, <3>4, StreamBehindKept
    <3>6. Fed(b)' = Fed(b) + 1 /\ Fed(b) \in Nat
      BY <1>1, <3>1, <3>2, <3>3, FedAppended
    <3>7. Fed(b) + mOutstandingFrameRepeatCount <= kRepeatLastFrameCount + 1
      BY <2>3, <3>2 DEF CanRepeat, CountInv
    <3>8. Fed(b)' + mOutstandingFrameRepeatCount' <= kRepeatLastFrameCount + 1
      BY <1>1, <2>3, <3>6, <3>7
    <3>9. mLatestBuffer'.buf = b
      BY <2>1, <3>2
    <3> QED
      BY <3>5, <3>8, <3>9 DEF CountInv, Fed
  <2> QED
    BY <1>6, <2>2, <2>3
       DEF RepeatTried, RepeatLatestBuffer, RepeatLatestBufferFails, SubmitBufferFails, codecVars
<1>7. CASE FillSkips \/ FillSubmits
  <2>1. PICK v \in VideoBuffers :
           /\ Item \in Waiting /\ v = Shifted(Item) /\ v.buf = Item.buf
           /\ v.buf <= produced' /\ \A w \in Waiting' : v.buf < w.buf
           /\ \/ UNCHANGED mLatestBuffer /\ (mFrameRepeatIntervalUs <= 0 \/ FillFails)
              \/ mFrameRepeatIntervalUs > 0 /\ ~FillFails /\ mLatestBuffer' = AfterInterval(v)
    BY <1>7, FrameFacts
  <2>2. PICK b \in Nat : b = v.buf
    BY ConstantTypes DEF VideoBuffers
  <2>3. Fed(b) = 0
    <3>1. \A i \in DOMAIN encoded : encoded[i].buf # b
      <4> SUFFICES ASSUME NEW i \in DOMAIN encoded PROVE encoded[i].buf # b
        OBVIOUS
      <4>1. encoded[i].buf < b
        BY <1>1, <2>1, <2>2 DEF StreamBehind, Behind
      <4> QED
        <5>1. encoded[i] \in VideoBuffers \cup {Eos}
          BY <1>1, ElementOfSeq, LenProperties DEF CodecTypeOK
        <5>2. encoded[i].buf \in Int
          BY <5>1, ConstantTypes DEF VideoBuffers, Eos, Null
        <5> QED
          BY <4>1, <5>2
    <3> QED
      BY <1>1, <3>1, FedType
  <2>4. Behind(b)'
    BY <2>1, <2>2 DEF Behind
  <2>5. \/ UNCHANGED encoded /\ Fed(b)' = 0
        \/ encoded' = Append(encoded, v) /\ Fed(b)' = 1
    <3>1. CASE FillSkips
      BY <2>3, <3>1 DEF FillSkips, codecVars, Fed
    <3>2. CASE FillSubmits
      <4>1. encoded' = Append(encoded, v)
        BY <2>1, <3>2 DEF FillSubmits, SubmitBuffer, TakeCodecBuffer
      <4> QED
        BY <1>1, <2>2, <2>3, <4>1, FedAppended
    <3> QED
      BY <1>7, <3>1, <3>2
  <2>6. StreamBehind'
    BY <1>1, <2>2, <2>4, <2>5, StreamBehindStays, StreamBehindKept
  <2>7. CASE mFrameRepeatIntervalUs > 0
    <3>1. mFrameRepeatIntervalUs \in Int
      BY <1>1, <2>7 DEF RepeatTypeOK
    <3>2. mOutstandingFrameRepeatCount' = kRepeatLastFrameCount
      BY <1>7, <2>7 DEF FillSkips, FillSubmits, Remember, SetLatestBuffer
    <3>3. mLatestBuffer' = AfterInterval(v)
      BY <1>7, <2>1, <2>7 DEF FillSkips, FillSubmits, Remember, SetLatestBuffer
    <3>4. mLatestBuffer'.buf = b
      BY <1>1, <2>2, <3>3, AfterIntervalType
    <3>5. Fed(b)' + mOutstandingFrameRepeatCount' <= kRepeatLastFrameCount + 1
      BY <1>1, <2>5, <3>2
    <3> QED
      BY <2>6, <3>4, <3>5 DEF CountInv, Fed
  <2>8. CASE ~(mFrameRepeatIntervalUs > 0)
    <3>1. UNCHANGED mLatestBuffer /\ mLatestBuffer.buf = Null
      BY <1>2, <1>7, <2>8 DEF FillSkips, FillSubmits, Remember
    <3> QED
      BY <2>6, <3>1 DEF CountInv
  <2> QED
    BY <2>7, <2>8
<1>8. CASE Configure
  <2>1. encoded' = <<>> /\ mLatestBuffer' = NoBuffer
    BY <1>8 DEF Configure
  <2> QED
    BY <2>1 DEF CountInv, StreamBehind, NoBuffer
<1> QED
  BY <1>4, <1>5, <1>6, <1>7, <1>8, StreamSteps

LEMMA LateStep ==
    ASSUME IInv, IntervalInv, FramesInv,
           NEW d \in Nat, \A delay \in RepeatDelays : delay <= d, LateInv(d), [Next]_vars
    PROVE  LateInv(d)'
<1>1. /\ RepeatTypeOK /\ TimeTypeOK /\ kRepeatLastFrameCount \in Nat
      /\ mOutstandingFrameRepeatCount \in Nat /\ Turns \in Nat
      /\ mFrameRepeatIntervalUs \in Int
      /\ mFrameRepeatIntervalUs > 0 => mFrameRepeatIntervalUs <= d
  BY ConstantTypes DEF IInv, TypeOK, RepeatTypeOK, IntervalInv, Turns
<1>2. ASSUME UNCHANGED mOutstandingFrameRepeatCount, mLatestBuffer' \in {mLatestBuffer, NoBuffer}
      PROVE  LateInv(d)'
  <2>1. Turns' = Turns
    BY <1>2 DEF Turns
  <2> QED
    BY <1>2, <2>1 DEF LateInv, NoBuffer
<1>3. CASE UNCHANGED streamVars \/ EosTried \/ FillFails
  BY <1>2, <1>3 DEF streamVars, EosTried, SubmitEndOfInputStream, FillFails
<1>4. CASE Configure \/ Release
  BY <1>4 DEF Configure, Release, LateInv, NoBuffer
<1>5. CASE RepeatTried
  <2>1. CASE UNCHANGED <<mLatestBuffer, mOutstandingFrameRepeatCount>>
    BY <1>2, <2>1
  <2>2. CASE /\ CanRepeat
             /\ mOutstandingFrameRepeatCount' = mOutstandingFrameRepeatCount - 1
             /\ mLatestBuffer' = AfterInterval(mLatestBuffer) \/ UNCHANGED mLatestBuffer
    <3>1. mLatestBuffer \in VideoBuffers /\ mLatestBuffer.buf # Null /\ mLatestBuffer.ts \in Int
      BY <1>1, <2>2 DEF CanRepeat, RepeatTypeOK, VideoBuffers, NoBuffer, Null
    <3>2. PICK f \in FrameTimes[mLatestBuffer.buf] : mLatestBuffer.ts <= f + Turns * d
      BY <3>1 DEF LateInv
    <3>3. f \in Nat
      BY <3>1, ConstantTypes DEF VideoBuffers
    <3>4. Turns' = Turns + 1
      BY <1>1, <2>2 DEF Turns
    <3>5. mLatestBuffer'.buf = mLatestBuffer.buf
      BY <1>1, <1>5, LatestAfterRepeat
    <3>6. mLatestBuffer'.ts \in Int /\ mLatestBuffer'.ts <= mLatestBuffer.ts + d
      <4>1. CASE UNCHANGED mLatestBuffer
        BY <3>1, <4>1
      <4>2. CASE mLatestBuffer' = AfterInterval(mLatestBuffer)
        <5>1. mFrameRepeatIntervalUs <= d
          BY <1>1, <3>1 DEF IntervalInv
        <5>2. mLatestBuffer'.ts = mLatestBuffer.ts + mFrameRepeatIntervalUs
          BY <3>1, <4>2 DEF AfterInterval, VideoBuffers
        <5> QED
          BY <1>1, <3>1, <5>1, <5>2
      <4> QED
        BY <2>2, <4>1, <4>2
    <3>7. PICK n \in Nat : n = Turns
      BY <1>1
    <3>8. (n + 1) * d = n * d + d /\ n * d \in Nat
      OBVIOUS
    <3>9. mLatestBuffer'.ts <= f + Turns' * d
      <4>1. mLatestBuffer.ts <= f + n * d
        BY <3>2, <3>7
      <4>2. mLatestBuffer'.ts <= f + (n + 1) * d
        BY <3>1, <3>3, <3>6, <3>8, <4>1
      <4> QED
        BY <3>4, <3>7, <4>2
    <3> QED
      BY <3>2, <3>5, <3>9 DEF LateInv
  <2> QED
    BY <1>5, <2>1, <2>2 DEF RepeatTried, RepeatLatestBuffer, RepeatLatestBufferFails, QueueFrameRepeat
<1>6. CASE FillSkips \/ FillSubmits
  <2>1. PICK v \in VideoBuffers :
           /\ Item \in Waiting /\ Item \in VideoBuffers /\ v = Shifted(Item) /\ v.buf = Item.buf
    BY <1>6, FrameFacts
  <2>2. Item.ts \in FrameTimes[v.buf]
    BY <2>1 DEF FramesInv
  <2>3. v.ts <= Item.ts /\ v.ts \in Int /\ Item.ts \in Int
    BY <1>1, <2>1 DEF Shifted, VideoBuffers, TimeTypeOK
  <2>4. CASE mFrameRepeatIntervalUs > 0
    <3>1. mOutstandingFrameRepeatCount' = kRepeatLastFrameCount
      BY <1>6, <2>4 DEF FillSkips, FillSubmits, Remember, SetLatestBuffer
    <3>2. mLatestBuffer' = AfterInterval(v)
      BY <1>6, <2>1, <2>4 DEF FillSkips, FillSubmits, Remember, SetLatestBuffer
    <3>3. Turns' = 1 /\ Turns' * d = d
      BY <1>1, <3>1 DEF Turns
    <3>4. mLatestBuffer'.buf = v.buf /\ mLatestBuffer'.ts = v.ts + mFrameRepeatIntervalUs
      BY <3>2 DEF AfterInterval, VideoBuffers
    <3>5. mLatestBuffer'.ts <= Item.ts + d
      BY <1>1, <2>3, <2>4, <3>4
    <3> QED
      BY <2>2, <3>3, <3>4, <3>5 DEF LateInv
  <2>5. CASE ~(mFrameRepeatIntervalUs > 0)
    <3>1. UNCHANGED mLatestBuffer /\ mLatestBuffer.buf = Null
      BY <1>6, <2>5 DEF FillSkips, FillSubmits, Remember, IntervalInv
    <3> QED
      BY <3>1 DEF LateInv
  <2> QED
    BY <2>4, <2>5
<1> QED
  BY <1>3, <1>4, <1>5, <1>6, StreamSteps

-----------------------------------------------------------------------------
(* The source feeds the encoder. *)

LEMMA GreatestNatural ==
    ASSUME NEW S \in SUBSET Nat, S # {}, NEW b \in Nat, \A n \in S : n <= b
    PROVE  \E m \in S : \A n \in S : n <= m
<1> DEFINE T == {b - n : n \in S}
<1>1. T \in SUBSET Nat /\ T # {}
  <2>1. PICK n \in S : TRUE
    OBVIOUS
  <2>2. b - n \in T
    BY <2>1
  <2>3. \A m \in S : b - m \in Nat
    OBVIOUS
  <2> QED
    BY <2>2, <2>3
<1> HIDE DEF T
<1>2. PICK k \in T : \A j \in T : <<j, k>> \notin OpToRel(<, Nat)
  BY <1>1, WFMin, NatLessThanWellFounded, Zenon
<1>3. \A j \in T : ~(j < k)
  BY <1>1, <1>2, Zenon DEF OpToRel
<1>4. PICK m \in S : k = b - m
  BY DEF T
<1>5. ASSUME NEW n \in S PROVE n <= m
  <2>1. b - n \in T
    BY DEF T
  <2>2. ~(b - n < b - m)
    BY <1>3, <1>4, <2>1
  <2> QED
    BY <2>2
<1> QED
  BY <1>5

(* Times are 64 bits wide, so those of the frames and of the delays between *)
(* repeats have a bound.                                                    *)
TimesBounded ==
    \E b \in Nat :
        /\ \A n \in 1..MaxFrames : \A t \in FrameTimes[n] : t <= b
        /\ \A delay \in RepeatDelays : delay <= b

(* Every encoding time is one of EncoderFeed's. *)
LEMMA MaxTimeReached ==
    ASSUME TimesBounded
    PROVE  \E d \in Nat :
              /\ \A delay \in RepeatDelays : delay <= d
              /\ \A n \in 1..MaxFrames : \A t \in FrameTimes[n] :
                    MaxTime \in Int /\ t + kRepeatLastFrameCount * d <= MaxTime
<1> DEFINE all == UNION {FrameTimes[n] : n \in DOMAIN FrameTimes}
           delays == RepeatDelays \cup {0}
           last == CHOOSE m \in all : \A t \in all : t <= m
           most == CHOOSE m \in delays : \A d \in delays : d <= m
<1>1. PICK b \in Nat :
         /\ \A n \in 1..MaxFrames : \A t \in FrameTimes[n] : t <= b
         /\ \A delay \in RepeatDelays : delay <= b
  BY DEF TimesBounded
<1>2. DOMAIN FrameTimes = 1..MaxFrames
  BY ConstantsAssumption, LenProperties DEF MaxFrames
<1>3. /\ all \in SUBSET Nat /\ \A t \in all : t <= b
      /\ delays \in SUBSET Nat /\ delays # {} /\ \A t \in delays : t <= b
  BY <1>1, <1>2, ConstantTypes, ConstantsAssumption
<1>4. MaxTime = last + kRepeatLastFrameCount * most
  BY DEF MaxTime
<1> HIDE DEF all, delays
<1>5. most \in Nat /\ \A d \in delays : d <= most
  <2>1. \E m \in delays : \A d \in delays : d <= m
    BY <1>3, GreatestNatural
  <2> QED
    BY <1>3, <2>1
<1>6. ASSUME NEW n \in 1..MaxFrames, NEW t \in FrameTimes[n]
      PROVE  MaxTime \in Int /\ t + kRepeatLastFrameCount * most <= MaxTime
  <2>1. t \in all
    BY <1>2 DEF all
  <2>2. \E m \in all : \A u \in all : u <= m
    BY <1>3, <2>1, GreatestNatural
  <2>3. last \in Nat /\ t <= last /\ t \in Nat
    BY <1>3, <2>1, <2>2
  <2> HIDE DEF last, most
  <2>4. kRepeatLastFrameCount * most \in Int
    BY <1>5, ConstantTypes
  <2> QED
    BY <1>4, <2>3, <2>4
<1>7. \A delay \in RepeatDelays : delay <= most
  BY <1>5 DEF delays
<1> HIDE DEF most
<1> QED
  BY <1>5, <1>6, <1>7

(* Each step feeds the encoder as EncoderFeed allows, or not at all. *)
LEMMA FeedStep ==
    ASSUME IInv, EndInv, OrderInv, CountInv, MaxFpsArgs \subseteq Nat, [Next]_vars,
           NEW d \in Nat, LateInv(d),
           \A n \in 1..MaxFrames : \A t \in FrameTimes[n] :
               MaxTime \in Int /\ t + kRepeatLastFrameCount * d <= MaxTime
    PROVE  Feed!Next \/ UNCHANGED encoded
<1>1. /\ CodecTypeOK /\ RepeatTypeOK /\ TimeTypeOK /\ FedInv /\ ClockInv /\ FramesInv
      /\ mPrevFrameUs \in Int /\ kRepeatLastFrameCount \in Nat
  BY ConstantTypes DEF IInv, TypeOK, OrderInv, TimeTypeOK
<1>2. encoded # <<>> =>
          /\ Newest(encoded).ts \in Int /\ Newest(encoded).buf \in Int
          /\ mPrevFrameUs >= Newest(encoded).ts /\ Behind(Newest(encoded).buf)
  BY <1>1, NewestType, ConstantTypes DEF FedInv, ClockInv, VideoBuffers, Eos, Null
<1>3. ASSUME ~mEndOfStreamSent PROVE Feed!Open
  BY <1>3 DEF EndInv, EosIsLast, Feed!Open, Feed!Last
<1>4. ASSUME NEW v \in VideoBuffers, SubmitBuffer(v)
      PROVE  /\ encoded' = Append(encoded, v)
             /\ encoded # <<>> => v.ts > Newest(encoded).ts
  <2>1. mFrameDropper.interval # -1
    BY <1>1 DEF ClockInv
  <2>2. v.ts > mPrevFrameUs
    BY <1>4, <2>1 DEF SubmitBuffer, TimestampAccepted
  <2> QED
    BY <1>1, <1>2, <1>4, <2>2 DEF SubmitBuffer, TakeCodecBuffer, VideoBuffers
<1>5. ASSUME NEW v \in VideoBuffers, v.ts \in 0..MaxTime, SubmitBuffer(v), ~mEndOfStreamSent,
             encoded # <<>> => v.buf > Newest(encoded).buf
      PROVE  Feed!Next
  <2>1. v = [buf |-> v.buf, ts |-> v.ts] /\ v.buf \in 1..MaxFrames
    BY DEF VideoBuffers
  <2>2. Feed!FeedFrame(v.buf, v.ts)
    BY <1>3, <1>4, <1>5, <2>1 DEF Feed!FeedFrame, Feed!Last, Newest
  <2> QED
    BY <1>5, <2>1, <2>2 DEF Feed!Next
<1>6. CASE Configure
  BY <1>6 DEF Configure, Feed!Next, Feed!NewSession
<1>7. CASE EosTried /\ encoded' = Append(encoded, Eos)
  <2>1. CASE encoded' = encoded
    BY <2>1
  <2>2. CASE encoded' # encoded
    <3>1. ~mEndOfStreamSent
      BY <1>7, <2>2 DEF EosTried, SubmitEndOfInputStream, codecVars
    <3> QED
      BY <1>3, <1>7, <3>1 DEF Feed!Next, Feed!End
  <2> QED
    BY <2>1, <2>2
<1>8. CASE RepeatTried /\ CanRepeat /\ SubmitBuffer(mLatestBuffer)
  <2>1. mLatestBuffer \in VideoBuffers /\ mLatestBuffer.buf # Null /\ ~mEndOfStreamSent
    BY <1>1, <1>8 DEF CanRepeat, RepeatTypeOK, NoBuffer, Null, EndInv
  <2>2. mOutstandingFrameRepeatCount \in Nat /\ mOutstandingFrameRepeatCount > 0
    BY <1>1, <1>8, <2>1 DEF RepeatTried, RepeatTypeOK
  <2>3. mLatestBuffer.ts \in 0..MaxTime
    <3>1. PICK f \in FrameTimes[mLatestBuffer.buf] : mLatestBuffer.ts <= f + Turns * d
      BY <2>1 DEF LateInv
    <3>2. f \in Nat /\ mLatestBuffer.buf \in 1..MaxFrames /\ mLatestBuffer.ts \in Int
      BY <2>1, <3>1, ConstantTypes DEF VideoBuffers
    <3>3. MaxTime \in Int /\ f + kRepeatLastFrameCount * d <= MaxTime
      BY <3>1, <3>2
    <3>4. PICK n \in Nat, k \in Nat : n = Turns /\ k = kRepeatLastFrameCount /\ n <= k
      BY <1>1, <2>2 DEF RepeatTypeOK, Turns
    <3>5. n * d <= k * d /\ n * d \in Nat /\ k * d \in Nat
      <4>1. PICK j \in Nat : k = n + j
        <5>1. k - n \in Nat /\ k = n + (k - n)
          BY <3>4
        <5> QED
          BY <5>1
      <4>2. (n + j) * d = n * d + j * d /\ j * d \in Nat /\ n * d \in Nat
        OBVIOUS
      <4> QED
        BY <4>1, <4>2
    <3>6. mLatestBuffer.ts >= 0
      BY <1>1, <2>1 DEF ClockInv
    <3>7. mLatestBuffer.ts <= f + n * d /\ f + k * d <= MaxTime
      BY <3>1, <3>3, <3>4
    <3> QED
      BY <3>2, <3>3, <3>5, <3>6, <3>7
  <2>4. CASE encoded # <<>> /\ Newest(encoded).buf = mLatestBuffer.buf
    <3>1. [Newest(encoded) EXCEPT !.ts = mLatestBuffer.ts] = mLatestBuffer
      <4>1. Newest(encoded) \in VideoBuffers
        BY <1>1, <2>1, <2>4, NewestType DEF Eos
      <4> QED
        BY <2>1, <2>4, <4>1 DEF VideoBuffers
    <3>2. Feed!TimesFed(Newest(encoded).buf) <= kRepeatLastFrameCount
      <4>1. PICK b \in Nat : b = mLatestBuffer.buf
        BY <2>1, ConstantTypes DEF VideoBuffers
      <4>2. Fed(b) \in Nat
        BY <1>1, FedType
      <4>3. Fed(b) + mOutstandingFrameRepeatCount <= kRepeatLastFrameCount + 1
        BY <2>1, <4>1 DEF CountInv
      <4>4. Fed(b) <= kRepeatLastFrameCount
        BY <1>1, <2>2, <4>2, <4>3
      <4>5. Feed!TimesFed(b) = Fed(b)
        BY DEF Fed, Feed!TimesFed, Cardinality, Feed!Cardinality
      <4>6. Newest(encoded).buf = b
        BY <2>4, <4>1
      <4> HIDE DEF Newest
      <4> QED
        BY <4>4, <4>5, <4>6
    <3>3. Feed!FeedRepeat(mLatestBuffer.ts)
      BY <1>3, <1>4, <1>8, <2>1, <2>4, <3>1, <3>2 DEF Feed!FeedRepeat, Feed!Last, Newest
    <3> QED
      BY <2>3, <3>3 DEF Feed!Next
  <2>5. CASE encoded # <<>> => Newest(encoded).buf # mLatestBuffer.buf
    <3>1. encoded # <<>> => mLatestBuffer.buf > Newest(encoded).buf
      BY <1>1, <1>2, <2>1, <2>5 DEF FedInv, VideoBuffers
    <3> QED
      BY <1>5, <1>8, <2>1, <2>3, <3>1
  <2> QED
    BY <2>4, <2>5
<1>9. CASE FillSubmits
  <2>1. PICK v \in VideoBuffers :
           /\ Item \in Waiting /\ Item \in VideoBuffers /\ v = Shifted(Item) /\ v.buf = Item.buf
           /\ v.ts >= 0
    BY <1>1, <1>9, FrameFacts
  <2>2. v.ts <= Item.ts /\ v.ts \in Int /\ Item.ts \in Int
    BY <1>1, <2>1 DEF Shifted, VideoBuffers, TimeTypeOK
  <2>3. Item.ts <= MaxTime /\ MaxTime \in Int
    <3>1. Item.ts \in FrameTimes[Item.buf] /\ Item.buf \in 1..MaxFrames
      BY <1>1, <2>1 DEF FramesInv, VideoBuffers
    <3>2. MaxTime \in Int /\ Item.ts + kRepeatLastFrameCount * d <= MaxTime
      BY <3>1
    <3>3. kRepeatLastFrameCount * d \in Nat
      BY <1>1
    <3> QED
      BY <2>2, <3>2, <3>3
  <2>4. ~mEndOfStreamSent
    BY <1>9 DEF FillSubmits, Encodable, Filling, EndInv
  <2>5. encoded # <<>> => v.buf > Newest(encoded).buf
    BY <1>2, <2>1 DEF Behind, VideoBuffers
  <2>6. SubmitBuffer(v)
    BY <1>9, <2>1 DEF FillSubmits
  <2> QED
    BY <1>5, <2>1, <2>2, <2>3, <2>4, <2>5, <2>6
<1> QED
  BY <1>6, <1>7, <1>8, <1>9, GivenSteps

LEMMA CountsHold ==
    ASSUME ClockKept, NEW d \in Nat, \A delay \in RepeatDelays : delay <= d
    PROVE  Spec => [](CountInv /\ LateInv(d))
<1>1. Init => CountInv /\ LateInv(d)
  BY DEF Init, CountInv, StreamBehind, LateInv, NoBuffer
<1>2. (IInv /\ OrderInv) /\ (CountInv /\ LateInv(d)) /\ [Next]_vars => (CountInv /\ LateInv(d))'
  BY CountStep, LateStep DEF OrderInv
<1> QED
  BY <1>1, <1>2, OrderHolds, PTL DEF Spec

(* The stream the component is given is one EncoderFeed allows: newer       *)
(* frames and bounded repeats at advancing times, the end of stream last.   *)
THEOREM EncoderAlwaysFed ==
    ASSUME AcquireLimitSuffices, TimesBounded, MaxFpsArgs \subseteq Nat
    PROVE  Spec => EncoderFed
<1>1. PICK d \in Nat :
         /\ \A delay \in RepeatDelays : delay <= d
         /\ \A n \in 1..MaxFrames : \A t \in FrameTimes[n] :
               MaxTime \in Int /\ t + kRepeatLastFrameCount * d <= MaxTime
  BY MaxTimeReached
<1>2. ClockKept
  BY DEF ClockKept
<1>3. Init => Feed!Init
  BY DEF Init, Feed!Init
<1>4. IInv /\ EndInv /\ OrderInv /\ CountInv /\ LateInv(d) /\ [Next]_vars => [Feed!Next]_encoded
  BY <1>1, FeedStep
<1>5. Spec => [](IInv /\ EndInv /\ OrderInv /\ CountInv /\ LateInv(d))
  BY <1>1, <1>2, EndHolds, OrderHolds, CountsHold, PTL
<1> QED
  BY <1>3, <1>4, <1>5, PTL DEF Spec, EncoderFed, Feed!Spec

-----------------------------------------------------------------------------
(* Work is conserved. *)

(* Frames are so far apart that the repeats of one end before the next. *)
FramesApart(d) ==
    \A m, n \in 1..MaxFrames : m < n =>
        \A s \in FrameTimes[m], t \in FrameTimes[n] : s + kRepeatLastFrameCount * d < t

(* Nothing makes the source drop a frame. *)
NothingDropped ==
    /\ ActionTimes = {} /\ StartTimes = {} /\ MaxFpsArgs = {} /\ ~SubmitMayFail
    /\ \E d \in Nat : (\A delay \in RepeatDelays : delay <= d) /\ FramesApart(d)

(* Every frame that waits or is still to come is later than t. *)
Passed(t) ==
    /\ \A v \in Waiting : t < v.ts
    /\ \A n \in (produced + 1)..MaxFrames : \A u \in FrameTimes[n] : t < u

QuietInv ==
    /\ ~mSuspended /\ mActionQueue = <<>> /\ mStopTimeUs = -1
    /\ mSkipFramesBeforeUs = -1 /\ mFrameDropper = NoDropper
    /\ Passed(mPrevFrameUs)

LEMMA PassedKept ==
    ASSUME IInv, FramesInv, [Next]_vars, NEW p, Passed(p)
    PROVE  Passed(p)'
<1>1. FramesStepped /\ produced \in Nat /\ MaxFrames \in Nat
  BY FramesStep, ConstantTypes DEF IInv, TypeOK, QueueTypeOK
<1>2. CASE Waiting' \subseteq Waiting /\ UNCHANGED produced
  BY <1>2 DEF Passed
<1>3. CASE /\ produced < MaxFrames /\ produced' = produced + 1
           /\ \E t \in FrameTimes[produced + 1] :
                 Waiting' \subseteq Waiting \cup {[buf |-> produced + 1, ts |-> t]}
  <2>1. PICK t \in FrameTimes[produced + 1] :
              Waiting' \subseteq Waiting \cup {[buf |-> produced + 1, ts |-> t]}
    BY <1>3
  <2>2. p < t
    BY <1>1, <1>3 DEF Passed
  <2>3. \A v \in Waiting' : p < v.ts
    BY <2>1, <2>2 DEF Passed
  <2>4. \A n \in (produced' + 1)..MaxFrames : n \in (produced + 1)..MaxFrames
    BY <1>1, <1>3
  <2> QED
    BY <2>3, <2>4 DEF Passed
<1> QED
  BY <1>1, <1>2, <1>3 DEF FramesStepped

(* What is encoded of a frame is over before any later one. *)
LEMMA FrameOver ==
    ASSUME QueueTypeOK, FramesInv, NEW d \in Nat, FramesApart(d),
           NEW b \in 1..MaxFrames, Behind(b), NEW f \in FrameTimes[b],
           NEW p \in Int, p <= f + kRepeatLastFrameCount * d
    PROVE  Passed(p)
<1>1. f \in Nat /\ kRepeatLastFrameCount * d \in Nat /\ produced \in Nat /\ b <= produced
  BY ConstantTypes DEF QueueTypeOK, Behind
<1>2. ASSUME NEW n \in 1..MaxFrames, b < n, NEW t \in FrameTimes[n] PROVE p < t
  <2>1. t \in Nat /\ f + kRepeatLastFrameCount * d < t
    BY <1>2, ConstantTypes DEF FramesApart
  <2> QED
    BY <1>1, <2>1
<1>3. ASSUME NEW v \in Waiting PROVE p < v.ts
  <2>1. v \in VideoBuffers
    BY ElementOfSeq, LenProperties DEF Waiting, QueueTypeOK
  <2> QED
    BY <1>2, <2>1 DEF FramesInv, Behind, VideoBuffers
<1>4. ASSUME NEW n \in (produced + 1)..MaxFrames, NEW t \in FrameTimes[n] PROVE p < t
  <2>1. n \in 1..MaxFrames /\ b < n
    BY <1>1, ConstantTypes
  <2> QED
    BY <1>2, <2>1
<1> QED
  BY <1>3, <1>4 DEF Passed

LEMMA SkipKept ==
    ASSUME [Next]_vars, ~Configure, StartTimes = {}
    PROVE  UNCHANGED mSkipFramesBeforeUs
<1>1. CASE FillCodecBuffer \/ QueueBuffer \/ OnFrameAvailable
  BY <1>1 DEF FillCodecBuffer, FillBails, FillDiscards, FillStops, FillSkips, FillSubmits,
     FillFails, Encodable, QueueBuffer, OnFrameAvailable,
     FrameDeferred, FrameNotAcquired, FrameIgnored, FrameAcquired, CallbackBegins, timeVars
<1>2. CASE \/ \E id \in CodecBuffers : OnInputBufferEmptied(id) \/ OnInputBufferAdded(id)
           \/ EmptiedAborts \/ Start \/ StartLooper \/ Stop \/ ReleaseReturns
           \/ Release \/ StartSendsEos
  BY <1>2 DEF OnInputBufferEmptied, OnInputBufferAdded, EmptiedAborts, Start, StartLooper,
              Stop, ReleaseReturns, Release, StartSendsEos, timeVars
<1>3. CASE \/ \E t \in ActionTimes, action \in {"PAUSE", "RESUME", "STOP"} :
                  QueueAction(action, t)
           \/ SuspendNow \/ ResumeNow
  BY <1>3 DEF QueueAction, SuspendNow, ResumeNow, ControlCall
<1>4. CASE \/ SignalEndOfInputStream
           \/ \E delay \in RepeatDelays : SetRepeatPreviousFrameDelayUs(delay)
           \/ \E rate \in MaxFpsArgs : SetMaxFps(rate)
  BY <1>4 DEF SignalEndOfInputStream, SetRepeatPreviousFrameDelayUs, SetMaxFps, timeVars
<1>5. CASE TakeMessage \/ MessageIgnored \/ MessageRepeats \/ EmptiedSendsEos \/ EmptiedRepeats
  BY <1>5 DEF TakeMessage, MessageIgnored, MessageRepeats, OnMessageReceived, EmptiedSendsEos,
              EmptiedRepeats, EmptiedWithoutFrames, timeVars
<1>6. CASE UNCHANGED vars
  BY <1>6 DEF vars, timeVars
<1> QED
  BY <1>1, <1>2, <1>3, <1>4, <1>5, <1>6
     DEF Next, Callbacks, Continue, Lifecycle, Control

LEMMA ItemWaits ==
    ASSUME QueueTypeOK, HasItem
    PROVE  Item \in Waiting
<1>1. CASE mAvailableBuffers # <<>>
  <2>1. Item = mAvailableBuffers[1] /\ 1 \in DOMAIN mAvailableBuffers
    BY <1>1, TailShifts DEF Item, QueueTypeOK
  <2> QED
    BY <2>1 DEF Waiting
<1>2. CASE mAvailableBuffers = <<>>
  <2>1. Item = queued[1] /\ 1 \in DOMAIN queued
    BY <1>2, TailShifts DEF Item, HasItem, QueueTypeOK
  <2> QED
    BY <2>1 DEF Waiting
<1> QED
  BY <1>1, <1>2

(* A frame that may still be repeated was not repeated too often. *)
LEMMA TurnsBounded ==
    ASSUME NEW d \in Nat, mOutstandingFrameRepeatCount \in 1..kRepeatLastFrameCount
    PROVE  /\ Turns * d \in Nat /\ kRepeatLastFrameCount * d \in Nat
           /\ Turns * d <= kRepeatLastFrameCount * d
<1>1. PICK n \in Nat, k \in Nat : n = Turns /\ k = kRepeatLastFrameCount /\ n <= k
  BY ConstantTypes DEF Turns
<1>2. PICK j \in Nat : k = n + j
  <2>1. k - n \in Nat /\ k = n + (k - n)
    BY <1>1
  <2> QED
    BY <2>1
<1>3. (n + j) * d = n * d + j * d /\ j * d \in Nat /\ n * d \in Nat
  OBVIOUS
<1> QED
  BY <1>1, <1>2, <1>3

(* Where nothing is dropped a frame that is taken is submitted. *)
LEMMA OnlySubmits ==
    ASSUME IInv, FramesInv, QuietInv, ~SubmitMayFail
    PROVE  ~FillStops /\ ~FillDiscards /\ ~FillSkips /\ ~FillFails
<1>1. ~FillStops
  BY DEF FillStops, QuietInv
<1>2. ASSUME ProcessActions(Item.ts) PROVE ~mSuspended'
  BY <1>2 DEF ProcessActions, QuietInv
<1>3. ASSUME Filling, HasItem
      PROVE  /\ Item \in Waiting /\ Item \in VideoBuffers /\ Shifted(Item) = Item
             /\ Item.ts > mPrevFrameUs /\ Item.ts >= mSkipFramesBeforeUs
  <2>1. Item \in VideoBuffers /\ Item \in Waiting
    BY <1>3, ItemTaken, ItemWaits DEF IInv, TypeOK, Filling
  <2>2. Item.ts \in Nat
    BY <2>1, ConstantTypes DEF FramesInv, VideoBuffers
  <2>3. mPrevFrameUs < Item.ts /\ mPrevFrameUs \in Int
    BY <2>1 DEF QuietInv, Passed, IInv, TypeOK, TimeTypeOK
  <2> QED
    BY <2>1, <2>2, <2>3 DEF QuietInv, Shifted
<1>4. ~FillDiscards
  <2> SUFFICES ASSUME FillDiscards PROVE FALSE
    OBVIOUS
  <2>1. Filling /\ HasItem /\ ProcessActions(Item.ts)
        /\ (mSuspended' \/ Item.ts < mSkipFramesBeforeUs)
    BY DEF FillDiscards
  <2>2. Item.ts \in Int /\ mSkipFramesBeforeUs \in Int
    BY <1>3, <2>1 DEF VideoBuffers, QuietInv
  <2> QED
    BY <1>2, <1>3, <2>1, <2>2
<1>5. ~RateLimited(Shifted(Item).ts)
  BY DEF RateLimited, Drops, QuietInv, NoDropper
<1>6. ~FillFails
  <2> SUFFICES ASSUME FillFails PROVE FALSE
    OBVIOUS
  <2>1. Filling /\ HasItem /\ SubmitBufferFails(Shifted(Item))
    BY DEF FillFails, Encodable
  <2>2. TimestampAccepted(Shifted(Item).ts)
    BY <1>3, <2>1 DEF TimestampAccepted
  <2> QED
    BY <2>1, <2>2 DEF SubmitBufferFails
<1> QED
  BY <1>1, <1>4, <1>5, <1>6 DEF FillSkips

LEMMA QuietStep ==
    ASSUME IInv, OrderInv, QuietInv, NEW d \in Nat, LateInv(d), FramesApart(d),
           ActionTimes = {}, StartTimes = {}, MaxFpsArgs = {}, ~SubmitMayFail, [Next]_vars
    PROVE  QuietInv'
<1>1. /\ QueueTypeOK /\ RepeatTypeOK /\ TimeTypeOK /\ FedInv /\ FramesInv
      /\ kRepeatLastFrameCount \in Nat
  BY ConstantTypes DEF IInv, TypeOK, OrderInv
<1>2. ~FillStops /\ ~FillDiscards /\ ~FillSkips /\ ~FillFails
  BY <1>1, OnlySubmits
<1>3. CASE Configure
  <2>1. FramesStepped
    BY <1>1, FramesStep
  <2>2. \A v \in Waiting' : -1 < v.ts
    <3> SUFFICES ASSUME NEW v \in Waiting' PROVE -1 < v.ts
      OBVIOUS
    <3>1. UNCHANGED <<mAvailableBuffers, queued>>
      BY <1>3 DEF Configure, bqVars, frameVars
    <3>2. v \in Waiting
      BY <3>1 DEF Waiting
    <3>3. v \in VideoBuffers
      BY <1>1, <3>2, ElementOfSeq, LenProperties DEF Waiting, QueueTypeOK
    <3>4. v.ts \in Nat
      BY <1>1, <3>2, <3>3, ConstantTypes DEF FramesInv, VideoBuffers
    <3> QED
      BY <3>4
  <2>3. produced' = produced /\ produced \in Nat
    BY <1>1, <1>3 DEF Configure, bqVars, QueueTypeOK
  <2>4. \A n \in (produced' + 1)..MaxFrames : \A u \in FrameTimes[n] : -1 < u
    <3> SUFFICES ASSUME NEW n \in (produced' + 1)..MaxFrames, NEW u \in FrameTimes[n]
                 PROVE  -1 < u
      OBVIOUS
    <3>1. u \in Nat
      BY <2>3, ConstantTypes
    <3> QED
      BY <3>1
  <2>5. mPrevFrameUs' = -1
    BY <1>3 DEF Configure
  <2>6. Passed(mPrevFrameUs)'
    BY <2>2, <2>4, <2>5 DEF Passed
  <2> QED
    BY <1>3, <2>6 DEF Configure, QuietInv
<1>4. ASSUME ~Configure PROVE UNCHANGED <<mSuspended, mActionQueue, mStopTimeUs>>
  <2>1. CASE FillSubmits
    BY <2>1 DEF FillSubmits, Encodable, ProcessActions, QuietInv
  <2>2. CASE ~FillSubmits
    <3>1. ~SuspendNow /\ ~ResumeNow
      BY DEF SuspendNow, ResumeNow
    <3> QED
      BY <1>2, <1>4, <2>2, <3>1, ControlUntouched DEF controlVars
  <2> QED
    BY <2>1, <2>2
<1>5. ASSUME ~Configure PROVE UNCHANGED <<mSkipFramesBeforeUs, mFrameDropper>>
  <2>1. CASE FillSubmits
    <3>1. mFrameDropper' = [mFrameDropper EXCEPT !.desired =
                               DesiredAfter(@, mFrameDropper.interval, Shifted(Item).ts)]
      BY <2>1 DEF FillSubmits, PassRateLimit
    <3>2. mFrameDropper = NoDropper
      BY DEF QuietInv
    <3>3. DesiredAfter(-1, 0, Shifted(Item).ts) = -1
      BY DEF DesiredAfter
    <3>4. UNCHANGED mFrameDropper
      BY <3>1, <3>2, <3>3 DEF NoDropper
    <3> QED
      BY <1>5, <3>4, SkipKept
  <2>2. CASE ~FillSubmits
    BY <1>2, <1>5, <2>2, SkipKept, DropperKept
  <2> QED
    BY <2>1, <2>2
<1>6. ASSUME ~Configure PROVE \E p \in Int : p = mPrevFrameUs' /\ Passed(p)'
  <2>1. CASE UNCHANGED mPrevFrameUs
    <3>1. PICK p \in Int : p = mPrevFrameUs
      BY <1>1 DEF TimeTypeOK
    <3>2. Passed(p)
      BY <3>1 DEF QuietInv
    <3>3. Passed(p)'
      BY <1>1, <3>2, PassedKept
    <3> QED
      BY <2>1, <3>1, <3>3
  <2>2. CASE CanRepeat /\ SubmitBuffer(mLatestBuffer) /\ RepeatTried
    <3>1. mLatestBuffer \in VideoBuffers /\ mLatestBuffer.buf # Null
          /\ mOutstandingFrameRepeatCount > 0 /\ mOutstandingFrameRepeatCount \in Nat
      BY <1>1, <2>2 DEF CanRepeat, RepeatTypeOK, NoBuffer, Null, RepeatTried
    <3>2. PICK f \in FrameTimes[mLatestBuffer.buf] : mLatestBuffer.ts <= f + Turns * d
      BY <3>1 DEF LateInv
    <3>3. f \in Nat /\ mLatestBuffer.ts \in Int /\ mLatestBuffer.buf \in 1..MaxFrames
      BY <3>1, <3>2, ConstantTypes DEF VideoBuffers
    <3>4. Turns * d <= kRepeatLastFrameCount * d /\ Turns * d \in Nat
          /\ kRepeatLastFrameCount * d \in Nat
      BY <1>1, <3>1, TurnsBounded DEF RepeatTypeOK
    <3>5. mLatestBuffer.ts <= f + kRepeatLastFrameCount * d
      BY <3>2, <3>3, <3>4
    <3>6. PICK p \in Int : p = mLatestBuffer.ts
      BY <3>3
    <3>7. Passed(p)
      BY <1>1, <3>2, <3>3, <3>5, <3>6, FrameOver DEF FedInv
    <3>8. Passed(p)'
      BY <1>1, <3>7, PassedKept
    <3> QED
      BY <2>2, <3>6, <3>8 DEF SubmitBuffer
  <2>3. CASE FillSubmits
    <3>1. PICK v \in VideoBuffers :
             /\ Item \in Waiting /\ Item \in VideoBuffers /\ v = Shifted(Item) /\ v.buf = Item.buf
             /\ v.buf <= produced' /\ \A w \in Waiting' : v.buf < w.buf
      BY <1>1, <2>3, FrameFacts
    <3>2. v = Item
      BY <3>1 DEF Shifted, QuietInv
    <3>3. PICK b \in 1..MaxFrames, p \in Int : b = v.buf /\ p = v.ts
      BY DEF VideoBuffers
    <3>4. p \in FrameTimes[b] /\ p \in Nat
      BY <1>1, <3>1, <3>2, <3>3, ConstantTypes DEF FramesInv
    <3>5. QueueTypeOK' /\ FramesInv'
      BY <1>1, QueueStep, FramesStep DEF QueueInv, FramesStepped
    <3>6. kRepeatLastFrameCount * d \in Nat
      BY <1>1
    <3>7. ASSUME NEW n \in 1..MaxFrames, b < n, NEW t \in FrameTimes[n] PROVE p < t
      <4>1. t \in Nat /\ p + kRepeatLastFrameCount * d < t
        BY <3>4, <3>7, ConstantTypes DEF FramesApart
      <4> QED
        BY <3>4, <3>6, <4>1
    <3>8. Passed(p)'
      <4>1. ASSUME NEW w \in Waiting' PROVE p < w.ts
        <5>1. w \in VideoBuffers
          BY <3>5, ElementOfSeq, LenProperties DEF Waiting, QueueTypeOK
        <5> QED
          BY <3>1, <3>3, <3>5, <3>7, <5>1 DEF FramesInv, VideoBuffers
      <4>2. ASSUME NEW n \in (produced' + 1)..MaxFrames, NEW t \in FrameTimes[n] PROVE p < t
        <5>1. n \in 1..MaxFrames /\ b < n
          <6>1. produced' \in Nat /\ MaxFrames \in Nat /\ b <= produced'
            BY <3>1, <3>3, <3>5, ConstantTypes DEF QueueTypeOK
          <6>2. PICK q \in Nat : q = produced'
            BY <6>1
          <6>3. n \in (q + 1)..MaxFrames
            BY <6>2
          <6>4. PICK m \in Nat, c \in Nat : m = MaxFrames /\ c = b /\ c <= q
            BY <6>1, <6>2
          <6>5. n \in (q + 1)..m
            BY <6>3, <6>4
          <6>6. n \in 1..m /\ c < n
            BY <6>4, <6>5
          <6> QED
            BY <6>4, <6>6
        <5> QED
          BY <3>7, <5>1
      <4> QED
        BY <4>1, <4>2 DEF Passed
    <3> QED
      BY <2>3, <3>1, <3>3, <3>8 DEF FillSubmits, SubmitBuffer
  <2> QED
    <3>1. CASE RepeatTried
      <4>1. CASE RepeatTried /\ UNCHANGED mPrevFrameUs
        BY <2>1, <4>1
      <4>2. CASE RepeatTried /\ CanRepeat /\ SubmitBuffer(mLatestBuffer)
        BY <2>2, <4>2
      <4>3. ~(CanRepeat /\ SubmitBufferFails(mLatestBuffer)) \/ UNCHANGED mPrevFrameUs
        BY DEF SubmitBufferFails
      <4> QED
        BY <3>1, <4>1, <4>2, <4>3 DEF RepeatTried, RepeatLatestBuffer, RepeatLatestBufferFails
    <3>2. CASE UNCHANGED streamVars \/ EosTried \/ Release
      BY <2>1, <3>2 DEF streamVars, EosTried, Release, timeVars
    <3> QED
      BY <1>2, <1>6, <2>3, <3>1, <3>2, StreamSteps
<1>7. CASE ~Configure
  <2>1. Passed(mPrevFrameUs)'
    BY <1>6, <1>7 DEF Passed
  <2> QED
    BY <1>4, <1>5, <1>7, <2>1 DEF QuietInv
<1> QED
  BY <1>3, <1>7


(* A codec buffer is idle for want of frames and of an end of stream only. *)
Idle ==
    mFreeCodecBuffers # <<>> => ~HaveAvailableBuffers /\ (EosPending => mEndOfStreamSent)

(* How far the operation that holds mMutex has come. *)
WorkInv ==
    /\ \A id \in CodecBuffers : mSubmittedCodecBuffers[id] = Null => mEndOfStreamSent
    /\ mExecuting /\ mMutex \in {"free", "looper"} => Idle
    /\ mMutex = "frame" =>
          /\ mFreeCodecBuffers # <<>> /\ Len(mAvailableBuffers) = 1
          /\ mNumAvailableUnacquiredBuffers = 0 /\ ~EosPending
    /\ mMutex = "emptied" =>
          mFreeCodecBuffers # <<>> /\ (Len(mFreeCodecBuffers) = 1 \/ Idle)
    /\ mMutex = "filled" => mFreeCodecBuffers = <<>> \/ ~HaveAvailableBuffers

workVars == <<mMutex, mExecuting, mFreeCodecBuffers, mSubmittedCodecBuffers, frameVars, eosVars>>

(* While a codec buffer is free a frame that waits can be acquired. *)
LEMMA FreeMayAcquire ==
    ASSUME IInv, AcquireLimitSuffices, mFreeCodecBuffers # <<>>, mAvailableBuffers = <<>>
    PROVE  MayAcquire(Held)
<1>1. IsFiniteSet({}) /\ Cardinality({}) = 0
  BY FS_EmptySet
<1>2. /\ Cardinality(CodecBuffers) \in Nat /\ MaxAcquired \in Nat
      /\ Cardinality(InLatest) \in 0..1
  BY ConstantsAssumption, FS_CardinalityType, LatestBounded
<1>3. Cardinality(CodecBuffers) <= MaxAcquired
  BY <1>2 DEF AcquireLimitSuffices
<1>4. Cardinality(CodecBuffers) + Cardinality(InLatest) + 0 <= MaxAcquired + 1
  BY <1>2, <1>3
<1>5. MayAcquire(InCodec \cup InLatest \cup {})
  BY <1>1, <1>4, HeldBounded
<1>6. Held = InCodec \cup InLatest \cup {}
  BY DEF Held, BuffersIn
<1> QED
  BY <1>5, <1>6

(* What the component is given is a frame, or the end of stream. *)
LEMMA NullOnlyAtEnd ==
    ASSUME CodecTypeOK, NEW v \in VideoBuffers \cup {Eos}, mFreeCodecBuffers # <<>>,
           TakeCodecBuffer(v), v = Eos => mEndOfStreamSent',
           mEndOfStreamSent => mEndOfStreamSent',
           \A id \in CodecBuffers : mSubmittedCodecBuffers[id] = Null => mEndOfStreamSent
    PROVE  \A id \in CodecBuffers : mSubmittedCodecBuffers'[id] = Null => mEndOfStreamSent'
<1>1. v # Eos => v.buf # Null
  BY ConstantTypes DEF VideoBuffers, Null
<1>2. \A id \in CodecBuffers :
         mSubmittedCodecBuffers'[id] = IF id = Head(mFreeCodecBuffers) THEN v.buf
                                       ELSE mSubmittedCodecBuffers[id]
  BY DEF TakeCodecBuffer, CodecTypeOK
<1> QED
  BY <1>1, <1>2

LEMMA EosWork ==
    ASSUME CodecTypeOK, WorkInv, ~SubmitMayFail, SubmitEndOfInputStream, UNCHANGED frameVars,
           mEndOfStreamSent \in BOOLEAN
    PROVE  /\ \A id \in CodecBuffers : mSubmittedCodecBuffers'[id] = Null => mEndOfStreamSent'
           /\ mFreeCodecBuffers' # <<>> => mEndOfStreamSent'
<1>1. CASE ~mEndOfStreamSent /\ mFreeCodecBuffers # <<>>
  <2>1. TakeCodecBuffer(Eos) /\ mEndOfStreamSent'
    BY <1>1 DEF SubmitEndOfInputStream
  <2> QED
    BY <1>1, <2>1, NullOnlyAtEnd DEF WorkInv
<1>2. CASE ~(~mEndOfStreamSent /\ mFreeCodecBuffers # <<>>)
  BY <1>2 DEF SubmitEndOfInputStream, WorkInv, codecVars
<1> QED
  BY <1>1, <1>2

LEMMA RepeatWork ==
    ASSUME CodecTypeOK, RepeatTypeOK, WorkInv, UNCHANGED <<frameVars, eosVars>>,
           NEW b \in BOOLEAN, RepeatLatestBuffer(b) \/ RepeatLatestBufferFails(b)
    PROVE  /\ \A id \in CodecBuffers : mSubmittedCodecBuffers'[id] = Null => mEndOfStreamSent'
           /\ mFreeCodecBuffers' # <<>> => mFreeCodecBuffers # <<>>
<1>1. CASE CanRepeat /\ TakeCodecBuffer(mLatestBuffer)
  <2>1. mLatestBuffer \in VideoBuffers /\ mFreeCodecBuffers # <<>>
    BY <1>1 DEF CanRepeat, RepeatTypeOK, NoBuffer, Null
  <2>2. mLatestBuffer # Eos
    BY <2>1, ConstantTypes DEF VideoBuffers, Eos, Null
  <2> QED
    BY <1>1, <2>1, <2>2, NullOnlyAtEnd DEF WorkInv, eosVars
<1>2. CASE UNCHANGED codecVars
  BY <1>2 DEF WorkInv, codecVars, eosVars
<1> QED
  BY <1>1, <1>2 DEF RepeatLatestBuffer, RepeatLatestBufferFails, SubmitBuffer, SubmitBufferFails

LEMMA WorkStep ==
    ASSUME IInv, EndInv, FramesInv, QuietInv, QuietInv', WorkInv, AcquireLimitSuffices,
           ActionTimes = {}, StartTimes = {}, ~SubmitMayFail, [Next]_vars
    PROVE  WorkInv'
<1> DEFINE SentInv == \A id \in CodecBuffers :
                          mSubmittedCodecBuffers[id] = Null => mEndOfStreamSent
<1>1. /\ CodecTypeOK /\ QueueTypeOK /\ RepeatTypeOK /\ LifeTypeOK /\ PhaseInv /\ SentInv
      /\ QueueAccounted /\ CodecInv
      /\ EosPending <=> mEndOfStream
      /\ EosPending' <=> mEndOfStream'
  BY DEF IInv, TypeOK, QuietInv, EosPending, WorkInv
<1>2. ~FillStops /\ ~FillDiscards /\ ~FillSkips /\ ~FillFails
  BY <1>1, OnlySubmits
<1>3. mEndOfStreamSent => ~HaveAvailableBuffers
  BY DEF EndInv
<1>4. mFreeCodecBuffers # <<>> /\ mAvailableBuffers = <<>> => MayAcquire(Held)
  BY FreeMayAcquire
<1>5. CASE UNCHANGED workVars
  BY <1>1, <1>5 DEF workVars, frameVars, eosVars, WorkInv, Idle, HaveAvailableBuffers
<1>6. CASE FillBails
  <2>1. mFreeCodecBuffers = <<>>
    <3>1. HaveAvailableBuffers /\ ~HasItem
      BY <1>6 DEF FillBails, Filling
    <3>2. mAvailableBuffers = <<>> => queued # <<>>
      BY <1>1, <3>1 DEF HaveAvailableBuffers, QueueTypeOK, QueueAccounted
    <3> QED
      BY <1>4, <3>1, <3>2 DEF HasItem
  <2>2. mMutex = "start" /\ mMutex' = "filled"
    BY <1>6, <2>1 DEF FillBails, Filling, FillReturns, WorkInv
  <2> QED
    BY <1>1, <1>6, <2>1, <2>2 DEF FillBails, codecVars, frameVars, eosVars, WorkInv
<1>7. CASE FillSubmits
  <2>1. /\ Filling /\ HasItem /\ TakeItem /\ UNCHANGED eosVars /\ HaveAvailableBuffers
        /\ mFreeCodecBuffers # <<>> /\ TakeCodecBuffer(Shifted(Item))
        /\ mMutex' = IF mMutex # "start" THEN "free" ELSE "start"
    BY <1>7 DEF FillSubmits, Encodable, SubmitBuffer, Filling, HasItem, FillReturns
  <2>2. Shifted(Item) \in VideoBuffers
    <3>1. Item \in VideoBuffers /\ TimeTypeOK
      BY <1>1, <2>1, ItemTaken DEF IInv, TypeOK
    <3> QED
      BY <3>1, ShiftedType
  <2>3. SentInv'
    <3>1. Shifted(Item) # Eos
      BY <2>2, ConstantTypes DEF VideoBuffers, Eos, Null
    <3> QED
      BY <1>1, <2>1, <2>2, <3>1, NullOnlyAtEnd DEF eosVars
  <2>4. CASE mMutex = "start"
    BY <2>1, <2>3, <2>4 DEF WorkInv
  <2>5. CASE mMutex = "frame"
    <3>1. Len(mAvailableBuffers) = 1 /\ mNumAvailableUnacquiredBuffers = 0 /\ ~EosPending
      BY <2>5 DEF WorkInv
    <3>2. mAvailableBuffers # <<>> /\ mAvailableBuffers' = Tail(mAvailableBuffers)
          /\ mNumAvailableUnacquiredBuffers' = 0
      <4>1. mAvailableBuffers # <<>>
        BY <3>1
      <4>2. AvailableAfterItem = Tail(mAvailableBuffers)
        BY <4>1 DEF AvailableAfterItem
      <4>3. UnacquiredAfterItem = 0
        <5>1. UnacquiredAfterItem = mNumAvailableUnacquiredBuffers - 0
          BY <4>1 DEF UnacquiredAfterItem
        <5> QED
          BY <3>1, <5>1
      <4> QED
        BY <2>1, <4>1, <4>2, <4>3 DEF TakeItem
    <3>3. mAvailableBuffers' = <<>>
      BY <1>1, <3>1, <3>2, HeadTailProperties, EmptySeq DEF QueueTypeOK
    <3>4. Idle'
      BY <1>1, <2>1, <3>1, <3>2, <3>3 DEF Idle, HaveAvailableBuffers, eosVars
    <3> QED
      BY <2>1, <2>3, <2>5, <3>4 DEF WorkInv
  <2>6. CASE mMutex = "emptied"
    <3>1. Len(mFreeCodecBuffers) = 1
      BY <2>1, <2>6 DEF WorkInv, Idle
    <3>2. mFreeCodecBuffers' = Tail(mFreeCodecBuffers)
      BY <2>1 DEF TakeCodecBuffer
    <3>3. mFreeCodecBuffers' = <<>>
      BY <1>1, <2>1, <3>1, <3>2, HeadTailProperties, EmptySeq DEF CodecTypeOK
    <3> QED
      BY <2>1, <2>3, <2>6, <3>3 DEF WorkInv, Idle
  <2> QED
    BY <2>1, <2>4, <2>5, <2>6 DEF Filling
<1>8. CASE OnFrameAvailable
  <2>1. mMutex = "free" /\ SentInv' /\ UNCHANGED <<mFreeCodecBuffers, mExecuting, eosVars>>
    BY <1>1, <1>8 DEF OnFrameAvailable, FrameDeferred, FrameNotAcquired, FrameIgnored,
                      FrameAcquired, CallbackBegins, codecVars, lifeVars, eosVars
  <2>2. CASE FrameDeferred
    BY <2>1, <2>2 DEF FrameDeferred, MustDefer, WorkInv, Idle
  <2>3. CASE FrameNotAcquired
    <3>1. mExecuting => mFreeCodecBuffers = <<>>
      BY <1>4, <2>1, <2>3 DEF FrameNotAcquired, WorkInv, Idle, HaveAvailableBuffers
    <3> QED
      BY <2>1, <2>3, <3>1 DEF FrameNotAcquired, WorkInv, Idle
  <2>4. CASE FrameIgnored
    BY <1>1, <2>1, <2>4
       DEF FrameIgnored, WorkInv, Idle, frameVars, eosVars, HaveAvailableBuffers
  <2>5. CASE FrameAcquired /\ ~mExecuting
    BY <2>1, <2>5 DEF FrameAcquired, WorkInv
  <2>6. CASE FrameAcquired /\ mExecuting
    <3>1. mMutex' = "frame" /\ mFreeCodecBuffers # <<>> /\ ~mEndOfStreamSent
      BY <2>6 DEF FrameAcquired, MustDefer, DiscardingAvailableBuffers, Ignores, QuietInv
    <3>2. mAvailableBuffers = <<>> /\ mNumAvailableUnacquiredBuffers = 0 /\ ~EosPending
      BY <1>1, <2>1, <2>6, <3>1 DEF WorkInv, Idle, HaveAvailableBuffers, QueueTypeOK
    <3>3. Len(mAvailableBuffers') = 1 /\ mNumAvailableUnacquiredBuffers' = 0
      BY <2>6, <3>2 DEF FrameAcquired
    <3>4. ~EosPending'
      BY <1>1, <2>1, <3>2 DEF eosVars
    <3> QED
      BY <2>1, <3>1, <3>3, <3>4 DEF WorkInv
  <2> QED
    BY <1>8, <2>2, <2>3, <2>4, <2>5, <2>6 DEF OnFrameAvailable
<1>9. ASSUME NEW id \in CodecBuffers, OnInputBufferEmptied(id) PROVE WorkInv'
  <2>1. /\ mMutex = "free" /\ mMutex' \in {"free", "emptied"}
        /\ mMutex' = "free" /\ mExecuting => mSubmittedCodecBuffers[id] = Null
        /\ mMutex' = "emptied" => mExecuting
        /\ mFreeCodecBuffers' = Append(mFreeCodecBuffers, id)
        /\ UNCHANGED <<mExecuting, frameVars, eosVars>>
    BY <1>9 DEF OnInputBufferEmptied, lifeVars
  <2>2. SentInv'
    <3>1. \A i \in CodecBuffers : mSubmittedCodecBuffers'[i] = Null => mSubmittedCodecBuffers[i] = Null
      BY <1>1, <1>9 DEF OnInputBufferEmptied, CodecTypeOK, Null, NotSubmitted
    <3> QED
      BY <1>1, <2>1, <3>1 DEF eosVars
  <2>3. mFreeCodecBuffers' # <<>> /\ (mFreeCodecBuffers = <<>> => Len(mFreeCodecBuffers') = 1)
    <3>1. Len(mFreeCodecBuffers') = Len(mFreeCodecBuffers) + 1 /\ Len(mFreeCodecBuffers) \in Nat
      BY <1>1, <2>1, AppendProperties, LenProperties DEF CodecTypeOK
    <3> QED
      BY <3>1
  <2>4. mFreeCodecBuffers # <<>> /\ mExecuting => Idle'
    BY <1>1, <2>1 DEF WorkInv, Idle, frameVars, eosVars, HaveAvailableBuffers
  <2>5. CASE mMutex' = "emptied"
    BY <2>1, <2>2, <2>3, <2>4, <2>5 DEF WorkInv
  <2>6. CASE mMutex' = "free"
    <3>1. mExecuting => mEndOfStreamSent /\ ~HaveAvailableBuffers
      BY <1>1, <1>3, <2>1, <2>6
    <3>2. mExecuting => Idle'
      BY <2>1, <3>1 DEF Idle, frameVars, eosVars, HaveAvailableBuffers
    <3> QED
      BY <2>1, <2>2, <2>6, <3>2 DEF WorkInv
  <2> QED
    BY <2>1, <2>5, <2>6
<1>10. CASE EmptiedAborts
  BY <1>3, <1>10 DEF EmptiedAborts
<1>11. CASE EmptiedSendsEos
  <2>1. /\ mMutex' = "free" /\ ~HaveAvailableBuffers /\ UNCHANGED frameVars
        /\ SubmitEndOfInputStream
    BY <1>11 DEF EmptiedSendsEos, EmptiedWithoutFrames
  <2>2. SentInv' /\ (mFreeCodecBuffers' # <<>> => mEndOfStreamSent')
    BY <1>1, <2>1, EosWork DEF LifeTypeOK
  <2>3. Idle'
    BY <2>1, <2>2 DEF Idle, frameVars, HaveAvailableBuffers
  <2> QED
    BY <2>1, <2>2, <2>3 DEF WorkInv
<1>12. CASE EmptiedRepeats
  <2>1. /\ mMutex' = "free" /\ ~HaveAvailableBuffers /\ ~EosPending
        /\ UNCHANGED <<frameVars, eosVars>>
    BY <1>12 DEF EmptiedRepeats, EmptiedWithoutFrames, eosVars
  <2>2. SentInv'
    <3>1. CASE RepeatLatestBuffer(FALSE) \/ RepeatLatestBufferFails(FALSE)
      BY <1>1, <2>1, <3>1, RepeatWork
    <3>2. CASE UNCHANGED codecVars
      BY <1>1, <2>1, <3>2 DEF codecVars, eosVars
    <3> QED
      BY <1>12, <3>1, <3>2 DEF EmptiedRepeats
  <2>3. Idle'
    BY <1>1, <2>1 DEF Idle, frameVars, eosVars, HaveAvailableBuffers
  <2> QED
    BY <2>1, <2>2, <2>3 DEF WorkInv
<1>13. CASE Configure
  <2>1. mMutex' = "free" /\ ~mExecuting' /\ UNCHANGED mSubmittedCodecBuffers /\ phase = "unbound"
    BY <1>13 DEF Configure
  <2>2. \A id \in CodecBuffers : mSubmittedCodecBuffers[id] = NotSubmitted
    BY <1>1, <2>1 DEF CodecInv
  <2> QED
    BY <2>1, <2>2 DEF WorkInv, Null, NotSubmitted
<1>14. ASSUME NEW id \in CodecBuffers, OnInputBufferAdded(id) PROVE WorkInv'
  <2>1. /\ mMutex' = "free" /\ ~mExecuting'
        /\ UNCHANGED <<mSubmittedCodecBuffers, mEndOfStreamSent>>
    BY <1>1, <1>14 DEF OnInputBufferAdded, PhaseInv, lifeVars, eosVars
  <2> QED
    BY <1>1, <2>1 DEF WorkInv
<1>15. CASE Start
  BY <1>1, <1>15 DEF Start, codecVars, eosVars, WorkInv
<1>16. CASE StartSendsEos
  <2>1. /\ mMutex' = "looper" /\ UNCHANGED <<frameVars, mEndOfStream>>
        /\ mFreeCodecBuffers = <<>> \/ ~HaveAvailableBuffers
    BY <1>16 DEF StartSendsEos, WorkInv
  <2>2. CASE EosPending /\ ~HaveAvailableBuffers
    <3>1. SentInv' /\ (mFreeCodecBuffers' # <<>> => mEndOfStreamSent')
      BY <1>1, <1>16, <2>1, <2>2, EosWork DEF LifeTypeOK, StartSendsEos
    <3>2. Idle'
      BY <2>1, <2>2, <3>1 DEF Idle, frameVars, HaveAvailableBuffers
    <3> QED
      BY <2>1, <3>1, <3>2 DEF WorkInv
  <2>3. CASE ~(EosPending /\ ~HaveAvailableBuffers)
    <3>1. UNCHANGED <<codecVars, mEndOfStreamSent>>
      BY <1>16, <2>3 DEF StartSendsEos
    <3>2. Idle'
      BY <1>1, <2>1, <2>3, <3>1 DEF Idle, frameVars, HaveAvailableBuffers, codecVars
    <3> QED
      BY <1>1, <2>1, <3>1, <3>2 DEF WorkInv, codecVars
  <2> QED
    BY <2>2, <2>3
<1>17. CASE StartLooper
  <2>1. /\ mMutex = "looper" /\ mMutex' = "free" /\ mExecuting
        /\ UNCHANGED <<codecVars, frameVars, eosVars>>
    BY <1>1, <1>17 DEF StartLooper, PhaseInv
  <2>2. Idle'
    BY <1>1, <2>1 DEF WorkInv, Idle, HaveAvailableBuffers, codecVars, frameVars, eosVars
  <2> QED
    BY <1>1, <2>1, <2>2 DEF WorkInv, codecVars, eosVars
<1>18. CASE Stop \/ Release
  <2>1. mMutex' = "free" /\ ~mExecuting' /\ UNCHANGED mEndOfStreamSent
    BY <1>18 DEF Stop, Release, eosVars
  <2>2. SentInv'
    BY <1>1, <1>18, <2>1 DEF Stop, Release, codecVars, Null, NotSubmitted
  <2> QED
    BY <2>1, <2>2 DEF WorkInv
<1>19. CASE SignalEndOfInputStream
  <2>1. mMutex = "free" /\ mMutex' = "free" /\ UNCHANGED <<mExecuting, frameVars>>
    BY <1>19 DEF SignalEndOfInputStream, ClientCall, lifeVars
  <2>2. CASE mStopTimeUs = -1 /\ mExecuting /\ ~HaveAvailableBuffers
    <3>1. SentInv' /\ (mFreeCodecBuffers' # <<>> => mEndOfStreamSent')
      BY <1>1, <1>19, <2>1, <2>2, EosWork DEF LifeTypeOK, SignalEndOfInputStream
    <3>2. Idle'
      BY <2>1, <2>2, <3>1 DEF Idle, frameVars, HaveAvailableBuffers
    <3> QED
      BY <2>1, <3>1, <3>2 DEF WorkInv
  <2>3. CASE ~(mStopTimeUs = -1 /\ mExecuting /\ ~HaveAvailableBuffers)
    <3>1. UNCHANGED <<codecVars, mEndOfStreamSent>>
      BY <1>19, <2>3 DEF SignalEndOfInputStream
    <3>2. mExecuting => mFreeCodecBuffers = <<>>
      BY <2>1, <2>3 DEF QuietInv, WorkInv, Idle
    <3> QED
      BY <1>1, <2>1, <3>1, <3>2 DEF WorkInv, Idle, codecVars
  <2> QED
    BY <2>2, <2>3
<1>20. CASE MessageRepeats
  <2>1. mMutex = "free" /\ mMutex' = "free" /\ mExecuting
        /\ UNCHANGED <<mExecuting, frameVars, eosVars>>
    BY <1>20 DEF MessageRepeats, OnMessageReceived, lifeVars
  <2>2. SentInv' /\ (mFreeCodecBuffers' # <<>> => mFreeCodecBuffers # <<>>)
    BY <1>1, <1>20, <2>1, RepeatWork DEF MessageRepeats, RepeatTypeOK
  <2>3. Idle'
    BY <1>1, <2>1, <2>2 DEF WorkInv, Idle, HaveAvailableBuffers, frameVars, eosVars
  <2> QED
    BY <2>1, <2>2, <2>3 DEF WorkInv
<1>21. CASE \/ QueueBuffer \/ TakeMessage \/ MessageIgnored \/ ReleaseReturns
  BY <1>5, <1>21 DEF workVars, QueueBuffer, TakeMessage, MessageIgnored, OnMessageReceived,
                     ReleaseReturns, lifeVars, codecVars
<1>22. CASE \/ \E delay \in RepeatDelays : SetRepeatPreviousFrameDelayUs(delay)
            \/ \E rate \in MaxFpsArgs : SetMaxFps(rate)
  BY <1>5, <1>22 DEF workVars, SetRepeatPreviousFrameDelayUs, SetMaxFps, Setter, lifeVars, codecVars
<1>23. ~SuspendNow /\ ~ResumeNow
  BY DEF SuspendNow, ResumeNow
<1>24. CASE UNCHANGED vars
  BY <1>5, <1>24 DEF vars, workVars, lifeVars, codecVars
<1> QED
  BY <1>2, <1>6, <1>7, <1>8, <1>9, <1>10, <1>11, <1>12, <1>13, <1>14, <1>15, <1>16, <1>17,
     <1>18, <1>19, <1>20, <1>21, <1>22, <1>23, <1>24
     DEF Next, Callbacks, Continue, FillCodecBuffer, Lifecycle, Control

(* Where nothing makes the source drop a frame it conserves work: between   *)
(* operations no codec buffer is idle while a signalled frame waits, and    *)
(* none while the end of the stream does.                                   *)
THEOREM WorkAlwaysConserved ==
    ASSUME NothingDropped, AcquireLimitSuffices
    PROVE  Spec => []WorkConserved
<1>1. PICK d \in Nat : (\A delay \in RepeatDelays : delay <= d) /\ FramesApart(d)
  BY DEF NothingDropped
<1>2. ClockKept /\ ActionTimes = {} /\ StartTimes = {} /\ MaxFpsArgs = {} /\ ~SubmitMayFail
  BY DEF NothingDropped, ClockKept
<1>3. Init => QuietInv /\ WorkInv
  <2> SUFFICES ASSUME Init PROVE QuietInv /\ WorkInv
    OBVIOUS
  <2>1. /\ queued = <<>> /\ mAvailableBuffers = <<>> /\ mPrevFrameUs = -1 /\ produced = 0
        /\ ~mExecuting /\ mMutex = "free"
        /\ mSubmittedCodecBuffers = [id \in CodecBuffers |-> NotSubmitted]
    BY DEF Init
  <2>2. Passed(-1)
    <3>1. Waiting = {}
      BY <2>1 DEF Waiting
    <3>2. \A n \in (produced + 1)..MaxFrames : \A u \in FrameTimes[n] : u \in Nat
      BY <2>1, ConstantTypes
    <3> QED
      BY <3>1, <3>2 DEF Passed
  <2>3. Passed(mPrevFrameUs)
    BY <2>1, <2>2
  <2> QED
    BY <2>1, <2>3 DEF Init, QuietInv, WorkInv, Null, NotSubmitted
<1>4. (IInv /\ EndInv /\ OrderInv /\ LateInv(d)) /\ (QuietInv /\ WorkInv) /\ [Next]_vars
          => (QuietInv /\ WorkInv)'
  BY <1>1, <1>2, QuietStep, WorkStep DEF OrderInv
<1>5. Spec => [](IInv /\ EndInv /\ OrderInv /\ LateInv(d))
  BY <1>1, <1>2, EndHolds, OrderHolds, CountsHold, PTL
<1>6. WorkInv => WorkConserved
  BY DEF WorkInv, Idle, WorkConserved
<1> QED
  BY <1>3, <1>4, <1>5, <1>6, PTL DEF Spec

=============================================================================
