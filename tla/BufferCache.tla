----------------------------- MODULE BufferCache ------------------------------
(***************************************************************************)
(* The graphic buffers behind the frames of the buffer source              *)
(* (bqhelper_samsung/GraphicBufferSource.cpp): the BufferQueue sends the   *)
(* buffer of a slot only once, the source keeps it in mBufferSlots, and an *)
(* AcquiredBuffer releases its slot to the queue when nothing refers to it *)
(* any more, with the fences the encoder returned.  The producer may free  *)
(* all its slots at any time; onBuffersReleased tells the source later.    *)
(*                                                                         *)
(* The source's operations run under mMutex and each makes one call to the *)
(* queue, which does not look at the source's state, so that each is one   *)
(* action.  Which AcquiredBuffers are referred to is GraphicBufferSource's *)
(* business: here any of them may be dropped at any time.                  *)
(***************************************************************************)
EXTENDS Integers, Sequences, FiniteSets

CONSTANTS
    Slots,
    MaxFrames,   \* bound on the frames queued
    MaxFrees,    \* bound on how often the producer frees its slots
    MaxFences    \* bound on the release fences of one frame: its submissions

ASSUME ConstantsAssumption ==
    /\ IsFiniteSet(Slots)
    /\ MaxFrames \in Nat /\ MaxFrees \in Nat /\ MaxFences \in Nat

VARIABLES
    \* The BufferQueue: its slots, the items queued, callbacks due, and counters.
    slots, queue, undelivered, frames, frees,
    \* The release fence of the last release.
    releasedWith,
    \* All CachedBuffers ever made, in order, and the one in each slot (0: none).
    cachedBuffers, mBufferSlots,
    \* The AcquiredBuffers that something refers to.
    acquired,
    mNumOutstandingAcquires

queueVars == <<slots, queue, undelivered, frames, frees>>
cacheVars == <<cachedBuffers, mBufferSlots>>

vars == <<queueVars, releasedWith, cacheVars, acquired, mNumOutstandingAcquires>>

-----------------------------------------------------------------------------
(* The BufferQueue.  A slot is known when its buffer was sent to the        *)
(* consumer (mAcquireCalled); an item of a slot freed after it was queued   *)
(* is stale, and sent with its buffer.  Buffers are numbered by the frame   *)
(* that first used them, 0 is none.                                         *)

EmptySlot == [buffer |-> 0, state |-> "free", frame |-> 0, known |-> FALSE]

SourceStep == UNCHANGED <<queue, undelivered, frames, frees>>
QueueStep  == UNCHANGED <<releasedWith, cacheVars, acquired, mNumOutstandingAcquires>>

(* The producer dequeues a free slot, whose buffer may be reallocated, and  *)
(* queues it.                                                               *)
QueueFrame(s) ==
    /\ slots[s].state = "free" /\ frames < MaxFrames
    /\ frames' = frames + 1
    /\ \E reallocated \in BOOLEAN :
         LET new    == reallocated \/ slots[s].buffer = 0
             buffer == IF new THEN frames' ELSE slots[s].buffer
             known  == ~new /\ slots[s].known
         IN  /\ slots' = [slots EXCEPT ![s] = [buffer |-> buffer, state |-> "queued",
                                               frame |-> frames', known |-> known]]
             /\ queue' = Append(queue, [slot |-> s, buffer |-> buffer, frame |-> frames',
                                        known |-> known, stale |-> FALSE])
    /\ UNCHANGED <<undelivered, frees>>
    /\ QueueStep

(* The producer disconnects, or changes its number of buffers. *)
FreeAllSlots ==
    /\ frees < MaxFrees
    /\ frees' = frees + 1
    /\ slots' = [s \in Slots |-> EmptySlot]
    /\ queue' = [i \in DOMAIN queue |-> [queue[i] EXCEPT !.known = FALSE, !.stale = TRUE]]
    /\ undelivered' = undelivered + 1
    /\ UNCHANGED frames
    /\ QueueStep

(* getReleasedBuffers: the slots whose buffers the consumer must forget. *)
ReleasedSlots ==
    {s \in Slots : /\ ~slots[s].known
                   /\ \A i \in DOMAIN queue : queue[i].slot = s => ~queue[i].known}

(* releaseBuffer: the release of a frame that is not the slot's any more is *)
(* ignored.                                                                 *)
ReleaseSlot(s, frame) ==
    slots' = IF slots[s].state = "acquired" /\ slots[s].frame = frame
             THEN [slots EXCEPT ![s].state = "free"] ELSE slots

-----------------------------------------------------------------------------
(* Mutant of IsAcquired: every buffer in the cache is taken for acquired. *)
IsCachedAtAll(c) == TRUE

(* CachedBuffer::isAcquired *)
IsAcquired(c) == \E a \in acquired : a.buffer = c

(* discardBufferAtSlotIndex_l for the slots S: what becomes of the          *)
(* CachedBuffers in them, and how many acquires are not outstanding then.   *)
Discarded(S) == {mBufferSlots[s] : s \in S} \ {0}

DroppedFromCache(S) ==
    [c \in DOMAIN cachedBuffers |->
        IF c \in Discarded(S) THEN [cachedBuffers[c] EXCEPT !.mIsCached = FALSE]
        ELSE cachedBuffers[c]]

AcquiresDiscarded(S) == Cardinality({c \in Discarded(S) : IsAcquired(c)})

(* acquireBuffer_l, when the item comes with its buffer: the slot is set or *)
(* updated.                                                                 *)
NewInSlot(s, graphicBuffer) ==
    /\ cachedBuffers' = Append(DroppedFromCache({s}),
                               [slot |-> s, graphicBuffer |-> graphicBuffer, mIsCached |-> TRUE])
    /\ mBufferSlots' = [mBufferSlots EXCEPT ![s] = Len(cachedBuffers')]
    /\ mNumOutstandingAcquires' = mNumOutstandingAcquires - AcquiresDiscarded({s}) + 1

AcquireBuffer ==
    /\ queue # <<>>
    /\ LET bi == Head(queue) IN
         /\ slots' = IF bi.stale THEN slots
                     ELSE [slots EXCEPT ![bi.slot].state = "acquired", ![bi.slot].known = TRUE]
         /\ IF ~bi.known THEN NewInSlot(bi.slot, bi.buffer)
            ELSE /\ UNCHANGED cacheVars
                 /\ mNumOutstandingAcquires' = mNumOutstandingAcquires + 1
         /\ acquired' = acquired \cup
              {[buffer |-> mBufferSlots'[bi.slot], frame |-> bi.frame,
                mReleaseFenceFds |-> <<>>, mGotReleaseFences |-> FALSE]}
    /\ queue' = Tail(queue)
    /\ UNCHANGED <<undelivered, frames, frees, releasedWith>>

(* addReleaseFenceFd, each time the encoder is done with the frame; it may   *)
(* return no fence.                                                          *)
AddReleaseFenceFd(a) ==
    /\ \E fds \in {a.mReleaseFenceFds, Append(a.mReleaseFenceFds, Len(a.mReleaseFenceFds) + 1)} :
         /\ Len(fds) <= MaxFences
         /\ acquired' = (acquired \ {a}) \cup
              {[a EXCEPT !.mReleaseFenceFds = fds, !.mGotReleaseFences = TRUE]}
    /\ UNCHANGED <<queueVars, releasedWith, cacheVars, mNumOutstandingAcquires>>

(* Mutant of MergedFence: the second half starts one too late. *)
MergedFenceSkippingOne(fds) ==
    LET merge[p \in Nat \X Nat] ==
            LET start == p[1]  num == p[2] IN
            IF num = 0 THEN {} ELSE IF num = 1 THEN {fds[start + 1]}
            ELSE merge[<<start, num \div 2>>]
                 \cup merge[<<start + num \div 2 + 1, num - num \div 2 - 1>>]
    IN  merge[<<0, Len(fds)>>]

(* getReleaseFence(start, num): a fence is the set of fences it waits for.   *)
(* merge[<<start, num>>] is what it returns.                                 *)
MergedFence(fds) ==
    LET merge[p \in Nat \X Nat] ==
            LET start == p[1]  num == p[2] IN
            IF num = 0 THEN {} ELSE IF num = 1 THEN {fds[start + 1]}
            ELSE merge[<<start, num \div 2>>]
                 \cup merge[<<start + num \div 2, num - num \div 2>>]
    IN  merge[<<0, Len(fds)>>]

AcquireFence == {0}

ReleaseFence(a) == IF a.mGotReleaseFences THEN MergedFence(a.mReleaseFenceFds) ELSE AcquireFence

MustRelease(a) == cachedBuffers[a.buffer].mIsCached

(* ~AcquiredBuffer *)
DropAcquiredBuffer(a) ==
    /\ acquired' = acquired \ {a}
    /\ IF MustRelease(a)
       THEN /\ mNumOutstandingAcquires' = mNumOutstandingAcquires - 1
            /\ ReleaseSlot(cachedBuffers[a.buffer].slot, a.frame)
            /\ releasedWith' = ReleaseFence(a)
       ELSE UNCHANGED <<mNumOutstandingAcquires, slots, releasedWith>>
    /\ UNCHANGED cacheVars
    /\ SourceStep

(* Mutant of SlotsToDiscard: all slots are discarded. *)
AllSlots == Slots

SlotsToDiscard == ReleasedSlots

(* onBuffersReleased.  (getReleasedBuffers fails only for a queue that was   *)
(* abandoned, which the source itself does, as it is destroyed: no notice    *)
(* comes after that, and the mask of all slots is not needed.)               *)
OnBuffersReleased ==
    /\ undelivered > 0
    /\ undelivered' = undelivered - 1
    /\ cachedBuffers' = DroppedFromCache(SlotsToDiscard)
    /\ mBufferSlots' = [s \in Slots |-> IF s \in SlotsToDiscard THEN 0 ELSE mBufferSlots[s]]
    /\ mNumOutstandingAcquires' = mNumOutstandingAcquires - AcquiresDiscarded(SlotsToDiscard)
    /\ UNCHANGED <<slots, queue, frames, frees, releasedWith, acquired>>

-----------------------------------------------------------------------------
Init ==
    /\ slots = [s \in Slots |-> EmptySlot] /\ queue = <<>>
    /\ undelivered = 0 /\ frames = 0 /\ frees = 0
    /\ releasedWith = {}
    /\ cachedBuffers = <<>> /\ mBufferSlots = [s \in Slots |-> 0]
    /\ acquired = {} /\ mNumOutstandingAcquires = 0

Next ==
    \/ \E s \in Slots : QueueFrame(s)
    \/ FreeAllSlots
    \/ AcquireBuffer \/ OnBuffersReleased
    \/ \E a \in acquired : AddReleaseFenceFd(a) \/ DropAcquiredBuffer(a)

Spec == Init /\ [][Next]_vars

-----------------------------------------------------------------------------
(* Properties. *)

(* The variables keep their types; an item without a buffer has its slot in  *)
(* the cache, and no acquire is uncounted twice.                             *)
TypeOK ==
    /\ slots \in [Slots -> [buffer : 0..MaxFrames, frame : 0..MaxFrames, known : BOOLEAN,
                            state : {"free", "queued", "acquired"}]]
    /\ queue \in Seq([slot : Slots, buffer : 1..MaxFrames, frame : 1..MaxFrames,
                      known : BOOLEAN, stale : BOOLEAN])
    /\ undelivered \in 0..frees /\ frames \in 0..MaxFrames /\ frees \in 0..MaxFrees
    /\ releasedWith \subseteq 0..MaxFences
    /\ cachedBuffers \in Seq([slot : Slots, graphicBuffer : 1..MaxFrames, mIsCached : BOOLEAN])
    /\ mBufferSlots \in [Slots -> 0..Len(cachedBuffers)]
    /\ \A a \in acquired : /\ a.buffer \in DOMAIN cachedBuffers /\ a.frame \in 1..MaxFrames
                           /\ a.mReleaseFenceFds \in Seq(1..MaxFences)
                           /\ a.mGotReleaseFences \in BOOLEAN
    /\ mNumOutstandingAcquires \in Nat

(* mNumOutstandingAcquires is the number of acquired buffers still to be     *)
(* released: the destructor's "potential buffer leak" never shows.           *)
StillCached == {a \in acquired : cachedBuffers[a.buffer].mIsCached}

OutstandingExact == mNumOutstandingAcquires = Cardinality(StillCached)

(* When the queue sends no buffer with an item, the cache has the one the    *)
(* producer filled: the encoder never gets another picture, and the lookup   *)
(* of the slot never fails.  And a slot the consumer has acquired is         *)
(* released some time: an acquired buffer knows it, with the right frame.    *)
CacheCoherent ==
    /\ \A i \in DOMAIN queue :
         LET c == mBufferSlots[queue[i].slot] IN
         queue[i].known => c # 0 /\ cachedBuffers[c].graphicBuffer = queue[i].buffer
    /\ \A s \in Slots :
         slots[s].state = "acquired" =>
             \E a \in StillCached : /\ cachedBuffers[a.buffer].slot = s
                                    /\ a.frame = slots[s].frame

(* The producer gets its buffer back with all the fences the encoder         *)
(* returned, or with the acquire fence if the encoder never had it.          *)
FencesReturned ==
    [][\A a \in acquired : a.frame \notin {b.frame : b \in acquired'} /\ MustRelease(a) =>
          releasedWith' = IF a.mGotReleaseFences
                          THEN {a.mReleaseFenceFds[i] : i \in DOMAIN a.mReleaseFenceFds}
                          ELSE AcquireFence]_vars

=============================================================================
