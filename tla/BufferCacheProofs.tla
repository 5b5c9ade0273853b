-------------------------- MODULE BufferCacheProofs ---------------------------
(***************************************************************************)
(* That the count of the outstanding acquires is exact, that the cache has *)
(* the buffers the queue relies on it to have, and that no release fence   *)
(* is lost, proved for any number of slots, frames and fences.             *)
(*                                                                         *)
(* The queue decides what the cache must hold: while a slot is known its   *)
(* buffer is in the cache, and an acquired buffer that is in the cache is  *)
(* the one that holds its slot.  The items of slots that were freed since  *)
(* are at the queue's front, and none of their slots is known again before *)
(* they are acquired.                                                      *)
(***************************************************************************)
EXTENDS BufferCache, FiniteSetTheorems, SequenceTheorems, WellFoundedInduction, TLAPS

Buffers  == DOMAIN cachedBuffers
Items    == DOMAIN queue
SlotOf(c)  == cachedBuffers[c].slot
Cached(c)  == cachedBuffers[c].mIsCached

SlotRecords == [buffer : Nat, frame : Nat, known : BOOLEAN, state : {"free", "queued", "acquired"}]
ItemRecords ==
    [slot : Slots, buffer : Nat, frame : Nat, known : BOOLEAN, stale : BOOLEAN]
CachedBuffers == [slot : Slots, graphicBuffer : Nat, mIsCached : BOOLEAN]
AcquiredBuffers ==
    [buffer : Nat, frame : Nat, mReleaseFenceFds : Seq(Nat), mGotReleaseFences : BOOLEAN]

Types ==
    /\ slots \in [Slots -> SlotRecords]
    /\ queue \in Seq(ItemRecords)
    /\ cachedBuffers \in Seq(CachedBuffers)
    /\ mBufferSlots \in [Slots -> Nat]
    /\ acquired \subseteq AcquiredBuffers
    /\ \A a \in acquired : a.buffer \in Buffers
    /\ frames \in Nat

-----------------------------------------------------------------------------
(* The queue's items: the stale ones, of slots that are not known, then at   *)
(* most one for each slot, which is queued.                                  *)
StaleFirst ==
    \A i, j \in Items : i < j /\ queue[j].stale => queue[i].stale

StaleUnknown ==
    \A i \in Items : queue[i].stale => ~queue[i].known /\ ~slots[queue[i].slot].known

QueuedOnce ==
    \A i, j \in Items : i # j /\ ~queue[i].stale /\ ~queue[j].stale => queue[i].slot # queue[j].slot

QueuedSlot ==
    \A i \in Items : ~queue[i].stale =>
        LET slot == slots[queue[i].slot] IN
        /\ slot.state = "queued" /\ slot.frame = queue[i].frame
        /\ slot.buffer = queue[i].buffer /\ slot.known = queue[i].known

AcquiredKnown == \A s \in Slots : slots[s].state = "acquired" => slots[s].known

QueueInv == StaleFirst /\ StaleUnknown /\ QueuedOnce /\ QueuedSlot /\ AcquiredKnown

(* The cache: a CachedBuffer is in it when it is in its slot, and that of a  *)
(* slot the queue knows is the slot's.                                       *)
CachedInSlot ==
    /\ \A c \in Buffers : Cached(c) <=> mBufferSlots[SlotOf(c)] = c
    /\ \A s \in Slots : mBufferSlots[s] # 0 => /\ mBufferSlots[s] \in Buffers
                                               /\ SlotOf(mBufferSlots[s]) = s

KnownCached ==
    \A s \in Slots : slots[s].known =>
        /\ mBufferSlots[s] # 0
        /\ cachedBuffers[mBufferSlots[s]].graphicBuffer = slots[s].buffer

CacheInv == CachedInSlot /\ KnownCached

(* The acquired buffers: at most one for each CachedBuffer in the cache, and *)
(* if the queue knows the slot, the slot is acquired by that one's frame.    *)
AcquiredOnce ==
    \A a, b \in StillCached : a.buffer = b.buffer => a = b

HoldsSlot ==
    \A a \in StillCached :
        LET slot == slots[SlotOf(a.buffer)] IN
        slot.known => slot.state = "acquired" /\ slot.frame = a.frame

SlotHeld ==
    \A s \in Slots : slots[s].state = "acquired" =>
        \E a \in StillCached : SlotOf(a.buffer) = s /\ a.frame = slots[s].frame

AcquiredInv == AcquiredOnce /\ HoldsSlot /\ SlotHeld

(* The CachedBuffers that are in the cache and acquired: as many as the      *)
(* AcquiredBuffers still to be released, which are one for each.             *)
HeldBuffers == {c \in Buffers : Cached(c) /\ IsAcquired(c)}

CountInv == mNumOutstandingAcquires = Cardinality(HeldBuffers)

(* The inductive invariant. *)
IInv == Types /\ QueueInv /\ CacheInv /\ AcquiredInv /\ CountInv

LEMMA InitEstablishes == Init => IInv
<1> SUFFICES ASSUME Init PROVE IInv
  OBVIOUS
<1>1. Types
  BY DEF Init, Types, SlotRecords, EmptySlot
<1>2. QueueInv /\ CacheInv
  BY DEF Init, EmptySlot, QueueInv, StaleFirst, StaleUnknown, QueuedOnce, QueuedSlot, AcquiredKnown,
         CacheInv, CachedInSlot, KnownCached, Buffers, Items
<1>3. StillCached = {} /\ HeldBuffers = {}
  BY DEF Init, StillCached, HeldBuffers, Buffers
<1> QED BY <1>1, <1>2, <1>3, FS_EmptySet
        DEF Init, EmptySlot, IInv, AcquiredInv, AcquiredOnce, HoldsSlot, SlotHeld, CountInv

-----------------------------------------------------------------------------
(* discardBufferAtSlotIndex_l drops from the cache the CachedBuffers of the  *)
(* slots, and counts those of them that are acquired.                        *)
LEMMA DroppedBuffers ==
    ASSUME Types, CachedInSlot, NEW S \in SUBSET Slots
    PROVE  /\ DroppedFromCache(S) \in Seq(CachedBuffers)
           /\ Len(DroppedFromCache(S)) = Len(cachedBuffers)
           /\ \A c \in Buffers :
                 /\ DroppedFromCache(S)[c].slot = SlotOf(c)
                 /\ DroppedFromCache(S)[c].graphicBuffer = cachedBuffers[c].graphicBuffer
                 /\ DroppedFromCache(S)[c].mIsCached = (Cached(c) /\ SlotOf(c) \notin S)
<1> DEFINE dropped == DroppedFromCache(S)
<1>1. Buffers = 1..Len(cachedBuffers) /\ \A c \in Buffers : cachedBuffers[c] \in CachedBuffers
  BY DEF Types, Buffers
<1>2. ASSUME NEW c \in Buffers PROVE c \in Discarded(S) <=> Cached(c) /\ SlotOf(c) \in S
  <2>1. c # 0 /\ SlotOf(c) \in Slots
    BY <1>1 DEF SlotOf, CachedBuffers
  <2> QED BY <2>1 DEF Discarded, CachedInSlot
<1>3. ASSUME NEW c \in Buffers
      PROVE  /\ dropped[c] \in CachedBuffers
             /\ dropped[c].slot = SlotOf(c)
             /\ dropped[c].graphicBuffer = cachedBuffers[c].graphicBuffer
             /\ dropped[c].mIsCached = (Cached(c) /\ SlotOf(c) \notin S)
  <2>1. dropped[c] = IF c \in Discarded(S) THEN [cachedBuffers[c] EXCEPT !.mIsCached = FALSE]
                     ELSE cachedBuffers[c]
    BY DEF DroppedFromCache, Buffers
  <2>2. cachedBuffers[c] \in CachedBuffers
    BY <1>1
  <2>3. CASE c \in Discarded(S)
    BY <1>2, <2>1, <2>2, <2>3 DEF CachedBuffers, SlotOf, Cached
  <2>4. CASE c \notin Discarded(S)
    BY <1>2, <2>1, <2>2, <2>4 DEF CachedBuffers, SlotOf, Cached
  <2> QED BY <2>3, <2>4
<1>4. DOMAIN dropped = 1..Len(cachedBuffers)
  BY <1>1 DEF DroppedFromCache, Buffers
<1>5. dropped \in Seq(CachedBuffers) /\ Len(dropped) = Len(cachedBuffers)
  <2>1. dropped = [c \in 1..Len(cachedBuffers) |-> dropped[c]]
    BY <1>1 DEF DroppedFromCache, Buffers
  <2> HIDE DEF dropped
  <2> QED BY <1>1, <1>3, <2>1 DEF Types
<1> QED BY <1>3, <1>5

LEMMA HeldFinite == Types => IsFiniteSet(HeldBuffers)
<1> SUFFICES ASSUME Types PROVE IsFiniteSet(HeldBuffers)
  OBVIOUS
<1>1. Buffers = 1..Len(cachedBuffers) /\ Len(cachedBuffers) \in Int
  BY DEF Types, Buffers
<1>2. IsFiniteSet(1..Len(cachedBuffers))
  BY <1>1, FS_Interval
<1>3. HeldBuffers \in SUBSET (1..Len(cachedBuffers))
  BY <1>1 DEF HeldBuffers
<1> QED BY <1>2, <1>3, FS_Subset

LEMMA CountDiscarded ==
    ASSUME Types, CachedInSlot, NEW S \in SUBSET Slots
    PROVE  Cardinality({c \in HeldBuffers : SlotOf(c) \notin S})
               = Cardinality(HeldBuffers) - AcquiresDiscarded(S)
<1> DEFINE gone == {c \in Discarded(S) : IsAcquired(c)}
<1>1. Buffers = 1..Len(cachedBuffers) /\ \A c \in Buffers : SlotOf(c) \in Slots
  <2>1. Buffers = 1..Len(cachedBuffers) /\ \A c \in Buffers : cachedBuffers[c] \in CachedBuffers
    BY DEF Types, Buffers
  <2> QED BY <2>1 DEF SlotOf, CachedBuffers
<1>2. gone = {c \in HeldBuffers : SlotOf(c) \in S}
  BY <1>1 DEF Discarded, HeldBuffers, CachedInSlot, Types
<1>3. HeldBuffers \cap gone = gone
      /\ {c \in HeldBuffers : SlotOf(c) \notin S} = HeldBuffers \ gone
  BY <1>2
<1> HIDE DEF gone
<1>4. Cardinality(HeldBuffers \ gone) = Cardinality(HeldBuffers) - Cardinality(HeldBuffers \cap gone)
  BY HeldFinite, FS_Difference
<1>5. AcquiresDiscarded(S) = Cardinality(gone)
  BY DEF AcquiresDiscarded, gone
<1> QED BY <1>3, <1>4, <1>5

(* AcquiredBuffers that are still in the cache are one for each CachedBuffer *)
(* that is held.                                                             *)
LEMMA HeldOnce == Types /\ AcquiredOnce => Cardinality(StillCached) = Cardinality(HeldBuffers)
<1> SUFFICES ASSUME Types, AcquiredOnce PROVE Cardinality(StillCached) = Cardinality(HeldBuffers)
  OBVIOUS
<1> DEFINE holder == [c \in HeldBuffers |-> CHOOSE a \in StillCached : a.buffer = c]
<1>1. ASSUME NEW c \in HeldBuffers PROVE holder[c] \in StillCached /\ holder[c].buffer = c
  <2>1. \E a \in StillCached : a.buffer = c
    BY DEF HeldBuffers, IsAcquired, StillCached, Cached
  <2> QED BY <2>1
<1>2. ASSUME NEW a \in StillCached PROVE a.buffer \in HeldBuffers
  BY DEF HeldBuffers, IsAcquired, StillCached, Cached, Types
<1>3. holder \in [HeldBuffers -> StillCached]
  BY <1>1
<1>4. \A a \in StillCached : holder[a.buffer] = a
  BY <1>1, <1>2 DEF AcquiredOnce
<1> HIDE DEF holder
<1>5. holder \in Bijection(HeldBuffers, StillCached)
  BY <1>1, <1>2, <1>3, <1>4 DEF Bijection, Injection, Surjection, IsInjective
<1>6. ExistsBijection(HeldBuffers, StillCached)
  BY <1>5 DEF ExistsBijection
<1> QED BY <1>6, HeldFinite, FS_Bijection

-----------------------------------------------------------------------------
(* The producer queues a frame in a free slot, which has no item that is not *)
(* stale, and if it is known no AcquiredBuffer either.                       *)
LEMMA QueueFrameStep ==
    ASSUME IInv, NEW s \in Slots, QueueFrame(s)
    PROVE  IInv'
<1> USE DEF IInv
<1>1. PICK reallocated \in BOOLEAN :
        LET new    == reallocated \/ slots[s].buffer = 0
            buffer == IF new THEN frames' ELSE slots[s].buffer
            known  == ~new /\ slots[s].known
        IN  /\ slots' = [slots EXCEPT ![s] = [buffer |-> buffer, state |-> "queued",
                                              frame |-> frames', known |-> known]]
            /\ queue' = Append(queue, [slot |-> s, buffer |-> buffer, frame |-> frames',
                                       known |-> known, stale |-> FALSE])
  BY DEF QueueFrame
<1> DEFINE new    == reallocated \/ slots[s].buffer = 0
           buffer == IF new THEN frames' ELSE slots[s].buffer
           known  == ~new /\ slots[s].known
           record == [buffer |-> buffer, state |-> "queued", frame |-> frames', known |-> known]
           item   == [slot |-> s, buffer |-> buffer, frame |-> frames', known |-> known,
                      stale |-> FALSE]
<1>2. slots' = [slots EXCEPT ![s] = record] /\ queue' = Append(queue, item)
  BY <1>1
<1>3. /\ frames' = frames + 1 /\ slots[s].state = "free"
      /\ UNCHANGED <<cachedBuffers, mBufferSlots, acquired, mNumOutstandingAcquires>>
  BY DEF QueueFrame, QueueStep, cacheVars
<1>4. slots[s] \in SlotRecords /\ buffer \in Nat /\ known \in BOOLEAN /\ (known => slots[s].known)
      /\ frames' \in Nat /\ (known => buffer = slots[s].buffer)
  BY <1>3 DEF Types, SlotRecords
<1>5. record \in SlotRecords /\ item \in ItemRecords
  BY <1>4 DEF SlotRecords, ItemRecords
<1>6. /\ record.buffer = buffer /\ record.state = "queued" /\ record.frame = frames'
      /\ record.known = known
      /\ item.slot = s /\ item.buffer = buffer /\ item.frame = frames' /\ item.known = known
      /\ item.stale = FALSE
  OBVIOUS
<1> HIDE DEF record, item, buffer, known, new
<1>7. Types'
  BY <1>2, <1>3, <1>4, <1>5 DEF Types, Buffers
<1>8. /\ slots'[s] = record /\ \A r \in Slots \ {s} : slots'[r] = slots[r]
      /\ Items = 1..Len(queue) /\ Items' = 1..Len(queue) + 1 /\ Len(queue) \in Nat
      /\ queue'[Len(queue) + 1] = item /\ \A i \in Items : queue'[i] = queue[i]
      /\ \A i \in Items : queue[i].slot \in Slots
  <2>1. queue \in Seq(ItemRecords) /\ Items = 1..Len(queue) /\ Len(queue) \in Nat
        /\ slots \in [Slots -> SlotRecords]
    BY DEF Types, Items
  <2>2. \A i \in Items : queue[i] \in ItemRecords
    BY <2>1
  <2>3. \A i \in Items : queue[i].slot \in Slots
    BY <2>2 DEF ItemRecords
  <2> QED BY <1>2, <1>5, <2>1, <2>3, AppendProperties DEF Items
<1>9. \A i \in Items : ~queue[i].stale => queue[i].slot # s
  BY <1>3 DEF QueueInv, QueuedSlot
<1>10. QueueInv'
  <2>1. StaleFirst'
    BY <1>6, <1>8 DEF QueueInv, StaleFirst
  <2>2. StaleUnknown'
    BY <1>4, <1>6, <1>8 DEF QueueInv, StaleUnknown
  <2>3. QueuedOnce'
    BY <1>6, <1>8, <1>9 DEF QueueInv, QueuedOnce
  <2>4. QueuedSlot'
    BY <1>6, <1>8, <1>9 DEF QueueInv, QueuedSlot
  <2>5. AcquiredKnown'
    BY <1>6, <1>8 DEF QueueInv, AcquiredKnown
  <2> QED BY <2>1, <2>2, <2>3, <2>4, <2>5 DEF QueueInv
<1>11. CacheInv'
  BY <1>3, <1>4, <1>6, <1>8 DEF CacheInv, CachedInSlot, KnownCached, Buffers, Cached, SlotOf
<1>12. StillCached' = StillCached /\ HeldBuffers' = HeldBuffers
       /\ \A c : SlotOf(c)' = SlotOf(c)
  BY <1>3 DEF StillCached, HeldBuffers, Buffers, Cached, IsAcquired, SlotOf
<1>13. AcquiredInv'
  <2>1. AcquiredOnce'
    BY <1>12 DEF AcquiredInv, AcquiredOnce
  <2>2. \A a \in StillCached : SlotOf(a.buffer) = s => ~slots[s].known
    BY <1>3 DEF AcquiredInv, HoldsSlot
  <2>3. \A a \in StillCached : SlotOf(a.buffer) \in Slots
    <3>1. \A c \in Buffers : cachedBuffers[c] \in CachedBuffers
      BY DEF Types, Buffers
    <3> QED BY <3>1 DEF StillCached, Types, SlotOf, CachedBuffers
  <2>4. HoldsSlot'
    BY <1>4, <1>6, <1>8, <1>12, <2>2, <2>3 DEF AcquiredInv, HoldsSlot
  <2>5. SlotHeld'
    BY <1>6, <1>8, <1>12 DEF AcquiredInv, SlotHeld
  <2> QED BY <2>1, <2>4, <2>5 DEF AcquiredInv
<1>14. CountInv'
  BY <1>3, <1>12 DEF CountInv
<1> QED BY <1>7, <1>10, <1>11, <1>13, <1>14

(* The producer frees its slots: every item is stale, and no slot is known.  *)
LEMMA FreeAllSlotsStep ==
    ASSUME IInv, FreeAllSlots
    PROVE  IInv'
<1> USE DEF IInv
<1>1. /\ slots' = [s \in Slots |-> EmptySlot]
      /\ queue' = [i \in DOMAIN queue |-> [queue[i] EXCEPT !.known = FALSE, !.stale = TRUE]]
      /\ UNCHANGED <<cachedBuffers, mBufferSlots, acquired, mNumOutstandingAcquires, frames>>
  BY DEF FreeAllSlots, QueueStep, cacheVars
<1>2. EmptySlot \in SlotRecords /\ EmptySlot.known = FALSE /\ EmptySlot.state = "free"
  BY DEF EmptySlot, SlotRecords
<1>3. queue \in Seq(ItemRecords) /\ Items = 1..Len(queue) /\ Len(queue) \in Nat
      /\ \A i \in Items : queue[i] \in ItemRecords
  BY DEF Types, Items
<1>4. \A i \in Items : /\ queue'[i] \in ItemRecords /\ queue'[i].slot = queue[i].slot
                        /\ ~queue'[i].known /\ queue'[i].stale
  BY <1>1, <1>3 DEF ItemRecords, Items
<1>5. Items' = Items /\ queue' \in Seq(ItemRecords)
  <2>1. queue' = [i \in 1..Len(queue) |-> queue'[i]]
    BY <1>1, <1>3 DEF Items
  <2>2. \A i \in 1..Len(queue) : queue'[i] \in ItemRecords
    BY <1>3, <1>4
  <2>3. queue' \in Seq(ItemRecords)
    BY <1>3, <2>1, <2>2
  <2> QED BY <1>1, <2>3 DEF Items
<1>6. Types'
  BY <1>1, <1>2, <1>5 DEF Types, Buffers
<1>7. \A i \in Items : queue'[i].slot \in Slots
  BY <1>4 DEF ItemRecords
<1>8. QueueInv'
  BY <1>1, <1>2, <1>4, <1>5, <1>7
     DEF QueueInv, StaleFirst, StaleUnknown, QueuedOnce, QueuedSlot, AcquiredKnown
<1>9. CacheInv'
  BY <1>1, <1>2 DEF CacheInv, CachedInSlot, KnownCached, Buffers, Cached, SlotOf
<1>10. StillCached' = StillCached /\ HeldBuffers' = HeldBuffers
       /\ \A c : SlotOf(c)' = SlotOf(c)
  BY <1>1 DEF StillCached, HeldBuffers, Buffers, Cached, IsAcquired, SlotOf
<1>11. \A a \in StillCached : SlotOf(a.buffer) \in Slots
  <2>1. \A c \in Buffers : cachedBuffers[c] \in CachedBuffers
    BY DEF Types, Buffers
  <2> QED BY <2>1 DEF StillCached, Types, SlotOf, CachedBuffers
<1>12. AcquiredInv'
  BY <1>1, <1>2, <1>10, <1>11 DEF AcquiredInv, AcquiredOnce, HoldsSlot, SlotHeld
<1>13. CountInv'
  BY <1>1, <1>10 DEF CountInv
<1> QED BY <1>6, <1>8, <1>9, <1>12, <1>13

-----------------------------------------------------------------------------
LEMMA StillCachedTypes ==
    ASSUME Types, NEW a \in StillCached
    PROVE  /\ a \in acquired /\ a \in AcquiredBuffers
           /\ a.buffer \in Buffers /\ Cached(a.buffer) /\ SlotOf(a.buffer) \in Slots
<1>1. a \in acquired /\ a \in AcquiredBuffers /\ a.buffer \in Buffers /\ Cached(a.buffer)
  BY DEF StillCached, Types, Cached
<1>2. cachedBuffers[a.buffer] \in CachedBuffers
  BY <1>1 DEF Types, Buffers
<1> QED BY <1>1, <1>2 DEF SlotOf, CachedBuffers

(* Fences are added to an AcquiredBuffer, which stays where it is. *)
LEMMA AddReleaseFenceFdStep ==
    ASSUME IInv, NEW a \in acquired, AddReleaseFenceFd(a)
    PROVE  IInv'
<1> USE DEF IInv
<1>1. PICK fds \in {a.mReleaseFenceFds,
                    Append(a.mReleaseFenceFds, Len(a.mReleaseFenceFds) + 1)} :
          acquired' = (acquired \ {a})
                        \cup {[a EXCEPT !.mReleaseFenceFds = fds, !.mGotReleaseFences = TRUE]}
  BY DEF AddReleaseFenceFd
<1>2. UNCHANGED <<slots, queue, frames, cachedBuffers, mBufferSlots, mNumOutstandingAcquires>>
  BY DEF AddReleaseFenceFd, queueVars, cacheVars
<1>3. a \in AcquiredBuffers /\ a.buffer \in Buffers
  BY DEF Types
<1>4. fds \in Seq(Nat)
  <2>1. a.mReleaseFenceFds \in Seq(Nat) /\ Len(a.mReleaseFenceFds) + 1 \in Nat
    BY <1>3 DEF AcquiredBuffers
  <2>2. Append(a.mReleaseFenceFds, Len(a.mReleaseFenceFds) + 1) \in Seq(Nat)
    BY <2>1
  <2> QED BY <2>1, <2>2
<1> DEFINE b == [a EXCEPT !.mReleaseFenceFds = fds, !.mGotReleaseFences = TRUE]
<1>5. b \in AcquiredBuffers /\ b.buffer = a.buffer /\ b.frame = a.frame
  BY <1>3, <1>4 DEF AcquiredBuffers
<1>6. acquired' = (acquired \ {a}) \cup {b}
  BY <1>1
<1> HIDE DEF b
<1>7. Types'
  BY <1>2, <1>3, <1>5, <1>6 DEF Types, Buffers
<1>8. QueueInv' /\ CacheInv'
  BY <1>2 DEF QueueInv, StaleFirst, StaleUnknown, QueuedOnce, QueuedSlot, AcquiredKnown, Items,
              CacheInv, CachedInSlot, KnownCached, Buffers, Cached, SlotOf
<1>9. /\ \A c : IsAcquired(c)' <=> IsAcquired(c)
      /\ \A c : SlotOf(c)' = SlotOf(c) /\ Cached(c)' = Cached(c)
  BY <1>2, <1>5, <1>6 DEF IsAcquired, SlotOf, Cached
<1>10. HeldBuffers' = HeldBuffers
  BY <1>2, <1>9 DEF HeldBuffers, Buffers
<1>11. \A x : x \in StillCached' <=> (x \in StillCached /\ x # a) \/ (x = b /\ a \in StillCached)
  BY <1>2, <1>5, <1>6 DEF StillCached
<1>12. AcquiredOnce'
  BY <1>5, <1>11 DEF AcquiredInv, AcquiredOnce
<1>13. HoldsSlot'
  BY <1>2, <1>5, <1>9, <1>11 DEF AcquiredInv, HoldsSlot
<1>14. SlotHeld'
  <2> SUFFICES ASSUME NEW s \in Slots, slots[s].state = "acquired"
               PROVE  \E x \in StillCached' : SlotOf(x.buffer) = s /\ x.frame = slots[s].frame
    BY <1>2, <1>9 DEF SlotHeld
  <2>1. PICK x \in StillCached : SlotOf(x.buffer) = s /\ x.frame = slots[s].frame
    BY DEF AcquiredInv, SlotHeld
  <2>2. CASE x = a
    BY <1>5, <1>11, <2>1, <2>2
  <2>3. CASE x # a
    BY <1>11, <2>1, <2>3
  <2> QED BY <2>2, <2>3
<1>15. CountInv'
  BY <1>2, <1>10 DEF CountInv
<1> QED BY <1>7, <1>8, <1>12, <1>13, <1>14, <1>15 DEF AcquiredInv

(* An AcquiredBuffer is dropped: if it is still in the cache it is the only  *)
(* one of its CachedBuffer, and the slot is free if it held it.              *)
LEMMA DropAcquiredBufferStep ==
    ASSUME IInv, NEW a \in acquired, DropAcquiredBuffer(a)
    PROVE  IInv'
<1> USE DEF IInv
<1>1. /\ acquired' = acquired \ {a}
      /\ UNCHANGED <<queue, frames, cachedBuffers, mBufferSlots>>
  BY DEF DropAcquiredBuffer, cacheVars, SourceStep
<1>2. \A c : SlotOf(c)' = SlotOf(c) /\ Cached(c)' = Cached(c)
  BY <1>1 DEF SlotOf, Cached
<1>3. StillCached' = StillCached \ {a}
  BY <1>1 DEF StillCached
<1>4. a.buffer \in Buffers /\ (MustRelease(a) <=> a \in StillCached)
      /\ (MustRelease(a) <=> Cached(a.buffer))
  BY DEF MustRelease, StillCached, Types, Cached
<1>5. AcquiredOnce'
  BY <1>3 DEF AcquiredInv, AcquiredOnce
<1>6. CASE ~MustRelease(a)
  <2>1. UNCHANGED <<mNumOutstandingAcquires, slots>>
    BY <1>6 DEF DropAcquiredBuffer
  <2>2. StillCached' = StillCached
    BY <1>3, <1>4, <1>6
  <2>3. HeldBuffers' = HeldBuffers
    <3>1. \A c : c # a.buffer => (IsAcquired(c)' <=> IsAcquired(c))
      BY <1>1 DEF IsAcquired
    <3> QED BY <1>1, <1>2, <1>4, <1>6, <3>1 DEF HeldBuffers, Buffers
  <2>4. Types'
    BY <1>1, <2>1 DEF Types, Buffers
  <2>5. QueueInv' /\ CacheInv'
    BY <1>1, <2>1 DEF QueueInv, StaleFirst, StaleUnknown, QueuedOnce, QueuedSlot, AcquiredKnown,
                      Items, CacheInv, CachedInSlot, KnownCached, Buffers, Cached, SlotOf
  <2>6. HoldsSlot' /\ SlotHeld'
    BY <1>2, <2>1, <2>2 DEF AcquiredInv, HoldsSlot, SlotHeld
  <2> QED BY <1>5, <2>1, <2>3, <2>4, <2>5, <2>6 DEF AcquiredInv, CountInv
<1>7. CASE MustRelease(a)
  <2> DEFINE s == SlotOf(a.buffer)
  <2>1. /\ mNumOutstandingAcquires' = mNumOutstandingAcquires - 1
        /\ slots' = IF slots[s].state = "acquired" /\ slots[s].frame = a.frame
                    THEN [slots EXCEPT ![s].state = "free"] ELSE slots
    BY <1>7 DEF DropAcquiredBuffer, ReleaseSlot, SlotOf
  <2>2. a \in StillCached /\ s \in Slots
    BY <1>4, <1>7, StillCachedTypes
  <2>3. /\ \A r \in Slots : /\ slots[r] \in SlotRecords /\ slots'[r] \in SlotRecords
                             /\ slots'[r].known = slots[r].known
                             /\ slots'[r].frame = slots[r].frame
                             /\ slots'[r].buffer = slots[r].buffer
        /\ \A r \in Slots \ {s} : slots'[r] = slots[r]
        /\ slots'[s].state = slots[s].state \/ (slots[s].state = "acquired" /\ slots'[s].state = "free")
        /\ slots'[s].state = "acquired" => slots[s].frame # a.frame
        /\ slots' \in [Slots -> SlotRecords]
    <3>1. slots \in [Slots -> SlotRecords]
      BY DEF Types
    <3> HIDE DEF s
    <3> QED BY <2>1, <2>2, <3>1 DEF SlotRecords
  <2> HIDE DEF s
  <2>4. \A b \in StillCached : b # a => SlotOf(b.buffer) # s
    <3> SUFFICES ASSUME NEW b \in StillCached, b # a, SlotOf(b.buffer) = s PROVE FALSE
      OBVIOUS
    <3>1. /\ a.buffer \in Buffers /\ Cached(a.buffer)
          /\ b.buffer \in Buffers /\ Cached(b.buffer)
      BY <2>2, StillCachedTypes
    <3>2. a.buffer = b.buffer
      BY <3>1 DEF CacheInv, CachedInSlot, s
    <3> QED BY <2>2, <3>2 DEF AcquiredInv, AcquiredOnce
  <2>5. HeldBuffers' = HeldBuffers \ {a.buffer} /\ a.buffer \in HeldBuffers
    <3>1. \A c : c # a.buffer => (IsAcquired(c)' <=> IsAcquired(c))
      BY <1>1 DEF IsAcquired
    <3>2. a.buffer \in HeldBuffers
      BY <1>4, <1>7 DEF HeldBuffers, IsAcquired
    <3>3. ~IsAcquired(a.buffer)'
      BY <1>1, <1>4, <1>7 DEF IsAcquired, AcquiredInv, AcquiredOnce, StillCached, MustRelease
    <3> QED BY <1>1, <1>2, <3>1, <3>2, <3>3 DEF HeldBuffers, Buffers
  <2>6. CountInv'
    BY <2>1, <2>5, HeldFinite, FS_RemoveElement DEF CountInv
  <2>7. Types'
    BY <1>1, <2>3 DEF Types, Buffers
  <2>8. \A i \in Items : queue[i].slot \in Slots
    <3>1. \A i \in Items : queue[i] \in ItemRecords
      BY DEF Types, Items
    <3> QED BY <3>1 DEF ItemRecords
  <2>9. QueueInv'
    <3>1. StaleFirst' /\ QueuedOnce' /\ Items' = Items
      BY <1>1 DEF QueueInv, StaleFirst, QueuedOnce, Items
    <3>2. StaleUnknown'
      BY <1>1, <2>3, <2>8, <3>1 DEF QueueInv, StaleUnknown
    <3>3. QueuedSlot'
      <4> SUFFICES ASSUME NEW i \in Items, ~queue[i].stale
                   PROVE  LET slot == slots'[queue[i].slot] IN
                          /\ slot.state = "queued" /\ slot.frame = queue[i].frame
                          /\ slot.buffer = queue[i].buffer /\ slot.known = queue[i].known
        BY <1>1, <3>1 DEF QueuedSlot
      <4>1. /\ slots[queue[i].slot].state = "queued" /\ slots[queue[i].slot].frame = queue[i].frame
            /\ slots[queue[i].slot].buffer = queue[i].buffer
            /\ slots[queue[i].slot].known = queue[i].known
        BY DEF QueueInv, QueuedSlot
      <4> QED BY <2>3, <2>8, <4>1
    <3>4. AcquiredKnown'
      BY <2>3 DEF QueueInv, AcquiredKnown
    <3> QED BY <3>1, <3>2, <3>3, <3>4 DEF QueueInv
  <2>10. CacheInv'
    BY <1>1, <1>2, <2>3 DEF CacheInv, CachedInSlot, KnownCached, Buffers
  <2>11. HoldsSlot'
    <3> SUFFICES ASSUME NEW b \in StillCached, b # a, slots'[SlotOf(b.buffer)].known
                 PROVE  slots'[SlotOf(b.buffer)].state = "acquired"
                        /\ slots'[SlotOf(b.buffer)].frame = b.frame
      BY <1>2, <1>3 DEF HoldsSlot
    <3>1. SlotOf(b.buffer) \in Slots \ {s}
      BY <2>4, StillCachedTypes
    <3> QED BY <2>3, <3>1 DEF AcquiredInv, HoldsSlot
  <2>12. SlotHeld'
    <3> SUFFICES ASSUME NEW r \in Slots, slots'[r].state = "acquired"
                 PROVE  \E b \in StillCached \ {a} :
                            SlotOf(b.buffer) = r /\ b.frame = slots'[r].frame
      BY <1>2, <1>3 DEF SlotHeld
    <3>1. slots[r].state = "acquired"
      BY <2>3
    <3>2. PICK b \in StillCached : SlotOf(b.buffer) = r /\ b.frame = slots[r].frame
      BY <3>1 DEF AcquiredInv, SlotHeld
    <3>3. b # a
      BY <2>3, <3>2 DEF s
    <3> QED BY <2>3, <3>2, <3>3
  <2> QED BY <1>5, <2>6, <2>7, <2>9, <2>10, <2>11, <2>12 DEF AcquiredInv
<1> QED BY <1>6, <1>7

(* onBuffersReleased discards slots that are not known, so that none of them *)
(* is held.                                                                  *)
LEMMA OnBuffersReleasedStep ==
    ASSUME IInv, OnBuffersReleased
    PROVE  IInv'
<1> USE DEF IInv
<1> DEFINE S == SlotsToDiscard
<1>1. /\ cachedBuffers' = DroppedFromCache(S)
      /\ mBufferSlots' = [s \in Slots |-> IF s \in S THEN 0 ELSE mBufferSlots[s]]
      /\ mNumOutstandingAcquires' = mNumOutstandingAcquires - AcquiresDiscarded(S)
      /\ UNCHANGED <<slots, queue, frames, acquired>>
  BY DEF OnBuffersReleased
<1>2. S \in SUBSET Slots /\ \A s \in S : ~slots[s].known
  BY DEF SlotsToDiscard, ReleasedSlots
<1> HIDE DEF S
<1>3. Buffers = 1..Len(cachedBuffers) /\ Buffers' = Buffers
      /\ cachedBuffers' \in Seq(CachedBuffers)
  BY <1>1, <1>2, DroppedBuffers DEF Types, CacheInv, Buffers
<1>4. \A c \in Buffers :
         /\ SlotOf(c)' = SlotOf(c) /\ Cached(c)' = (Cached(c) /\ SlotOf(c) \notin S)
         /\ cachedBuffers'[c].graphicBuffer = cachedBuffers[c].graphicBuffer
  BY <1>1, <1>2, DroppedBuffers DEF Types, CacheInv, SlotOf, Cached
<1>5. \A c \in Buffers : SlotOf(c) \in Slots
  <2>1. \A c \in Buffers : cachedBuffers[c] \in CachedBuffers
    BY DEF Types, Buffers
  <2> QED BY <2>1 DEF SlotOf, CachedBuffers
<1>6. Types'
  BY <1>1, <1>3 DEF Types
<1>7. QueueInv'
  BY <1>1 DEF QueueInv, StaleFirst, StaleUnknown, QueuedOnce, QueuedSlot, AcquiredKnown, Items
<1>8. CacheInv'
  <2>1. \A c \in Buffers : c # 0
    BY <1>3
  <2>2. CachedInSlot'
    BY <1>1, <1>3, <1>4, <1>5, <2>1 DEF CacheInv, CachedInSlot
  <2>3. KnownCached'
    BY <1>1, <1>2, <1>4 DEF CacheInv, CachedInSlot, KnownCached
  <2> QED BY <2>2, <2>3 DEF CacheInv
<1>9. StillCached' = {a \in StillCached : SlotOf(a.buffer) \notin S}
  <2>1. \A a \in acquired : Cached(a.buffer)' = (Cached(a.buffer) /\ SlotOf(a.buffer) \notin S)
    BY <1>4 DEF Types
  <2> QED BY <1>1, <2>1 DEF StillCached, Cached
<1>10. \A a \in StillCached : SlotOf(a.buffer)' = SlotOf(a.buffer)
  BY <1>4, StillCachedTypes
<1>11. AcquiredInv'
  <2>1. AcquiredOnce'
    BY <1>9 DEF AcquiredInv, AcquiredOnce
  <2>2. HoldsSlot'
    BY <1>1, <1>9, <1>10 DEF AcquiredInv, HoldsSlot
  <2>3. \A s \in Slots : slots[s].state = "acquired" => s \notin S
    BY <1>2 DEF QueueInv, AcquiredKnown
  <2>4. SlotHeld'
    BY <1>1, <1>9, <1>10, <2>3 DEF AcquiredInv, SlotHeld
  <2> QED BY <2>1, <2>2, <2>4 DEF AcquiredInv
<1>12. CountInv'
  <2>1. \A c : IsAcquired(c)' <=> IsAcquired(c)
    BY <1>1 DEF IsAcquired
  <2>2. HeldBuffers' = {c \in HeldBuffers : SlotOf(c) \notin S}
    BY <1>3, <1>4, <2>1 DEF HeldBuffers
  <2> QED BY <1>1, <1>2, <2>2, CountDiscarded DEF CountInv, CacheInv
<1> QED BY <1>6, <1>7, <1>8, <1>11, <1>12

-----------------------------------------------------------------------------
(* The source acquires the queue's first item.  First what that does to the  *)
(* queue: the slot of an item that is not stale is acquired.                 *)
AcquiredSlot(bi) == [slots[bi.slot] EXCEPT !.state = "acquired", !.known = TRUE]

LEMMA AcquireTakesItem ==
    ASSUME IInv, AcquireBuffer
    PROVE  LET bi == Head(queue) IN
           /\ bi \in ItemRecords /\ (bi.stale => ~bi.known /\ ~slots[bi.slot].known)
           /\ ~bi.stale => /\ slots[bi.slot].state = "queued" /\ slots[bi.slot].known = bi.known
                           /\ slots'[bi.slot].state = "acquired" /\ slots'[bi.slot].known
                           /\ slots'[bi.slot].frame = bi.frame
                           /\ slots'[bi.slot].buffer = bi.buffer
                           /\ slots[bi.slot].buffer = bi.buffer
           /\ bi.stale => slots'[bi.slot] = slots[bi.slot]
           /\ \A s \in Slots \ {bi.slot} : slots'[s] = slots[s]
           /\ slots' \in [Slots -> SlotRecords] /\ queue' \in Seq(ItemRecords)
           /\ QueueInv'
<1> USE DEF IInv
<1> DEFINE bi == Head(queue)
<1>1. /\ queue # <<>> /\ queue' = Tail(queue)
      /\ slots' = IF bi.stale THEN slots
                  ELSE [slots EXCEPT ![bi.slot].state = "acquired", ![bi.slot].known = TRUE]
  BY DEF AcquireBuffer
<1>2. queue \in Seq(ItemRecords) /\ slots \in [Slots -> SlotRecords]
  BY DEF Types
<1>3. /\ Len(queue) \in Nat /\ Len(queue) > 0 /\ Items = 1..Len(queue)
      /\ bi = queue[1] /\ 1 \in Items /\ bi \in ItemRecords
      /\ queue' \in Seq(ItemRecords) /\ Items' = 1..(Len(queue) - 1)
      /\ \A i \in Items : queue[i] \in ItemRecords
  BY <1>1, <1>2 DEF Items
<1>4. \A i \in Items' : i + 1 \in Items /\ i + 1 # 1 /\ queue'[i] = queue[i + 1]
  BY <1>1, <1>2, <1>3, HeadTailProperties DEF Items
<1> HIDE DEF bi
<1>5. bi.slot \in Slots /\ bi.stale \in BOOLEAN /\ bi.known \in BOOLEAN
      /\ slots[bi.slot] \in SlotRecords
  BY <1>2, <1>3 DEF ItemRecords
<1>8. StaleFirst' /\ QueuedOnce'
  <2> SUFFICES ASSUME NEW i \in Items', NEW j \in Items'
               PROVE  /\ i < j /\ queue'[j].stale => queue'[i].stale
                      /\ i # j /\ ~queue'[i].stale /\ ~queue'[j].stale =>
                            queue'[i].slot # queue'[j].slot
    BY DEF StaleFirst, QueuedOnce
  <2>1. /\ i + 1 \in Items /\ j + 1 \in Items
        /\ queue'[i] = queue[i + 1] /\ queue'[j] = queue[j + 1]
    BY <1>4
  <2>2. (i < j <=> i + 1 < j + 1) /\ (i = j <=> i + 1 = j + 1)
    BY <1>3
  <2> QED BY <2>1, <2>2 DEF QueueInv, StaleFirst, QueuedOnce
<1>6. CASE bi.stale
  <2>1. slots' = slots /\ ~bi.known /\ ~slots[bi.slot].known
    BY <1>1, <1>3, <1>6 DEF QueueInv, StaleUnknown
  <2>3. StaleUnknown' /\ QueuedSlot' /\ AcquiredKnown'
    BY <1>4, <2>1 DEF QueueInv, StaleUnknown, QueuedSlot, AcquiredKnown
  <2> QED BY <1>2, <1>3, <1>6, <1>8, <2>1, <2>3 DEF QueueInv, bi
<1>7. CASE ~bi.stale
  <2>1. slots' = [slots EXCEPT ![bi.slot] = AcquiredSlot(bi)]
    BY <1>1, <1>2, <1>5, <1>7 DEF AcquiredSlot
  <2>2. /\ slots[bi.slot].state = "queued" /\ slots[bi.slot].frame = bi.frame
        /\ slots[bi.slot].buffer = bi.buffer /\ slots[bi.slot].known = bi.known
    BY <1>3, <1>7 DEF QueueInv, QueuedSlot
  <2>3. AcquiredSlot(bi) \in SlotRecords /\ AcquiredSlot(bi).known = TRUE
        /\ AcquiredSlot(bi).state = "acquired" /\ AcquiredSlot(bi).frame = bi.frame
        /\ AcquiredSlot(bi).buffer = bi.buffer
    BY <1>5, <2>2 DEF AcquiredSlot, SlotRecords
  <2>4. /\ slots' \in [Slots -> SlotRecords] /\ slots'[bi.slot] = AcquiredSlot(bi)
        /\ \A s \in Slots \ {bi.slot} : slots'[s] = slots[s]
    BY <1>2, <1>5, <2>1, <2>3
  <2>6. \A i \in Items' : ~queue'[i].stale /\ queue'[i].slot \in Slots \ {bi.slot}
    <3> SUFFICES ASSUME NEW i \in Items'
                 PROVE  ~queue'[i].stale /\ queue'[i].slot \in Slots \ {bi.slot}
      OBVIOUS
    <3>1. i + 1 \in Items /\ 1 < i + 1 /\ queue'[i] = queue[i + 1] /\ queue[i + 1] \in ItemRecords
      BY <1>3, <1>4
    <3>2. ~queue[i + 1].stale
      BY <1>3, <1>7, <3>1 DEF QueueInv, StaleFirst
    <3>3. queue[i + 1].slot # bi.slot
      BY <1>3, <1>7, <3>1, <3>2 DEF QueueInv, QueuedOnce
    <3> QED BY <3>1, <3>2, <3>3 DEF ItemRecords
  <2>7. StaleUnknown' /\ QueuedSlot'
    BY <1>4, <2>4, <2>6 DEF QueueInv, StaleUnknown, QueuedSlot
  <2>8. AcquiredKnown'
    BY <2>3, <2>4 DEF QueueInv, AcquiredKnown
  <2> QED BY <1>3, <1>7, <2>2, <1>8, <2>3, <2>4, <2>7, <2>8 DEF QueueInv, bi
<1> QED BY <1>6, <1>7

(* Then the acquired buffers, whether the item came with its buffer or not:  *)
(* the new one is the only one of its slot in the cache.                     *)
LEMMA AcquireTakesSlot ==
    ASSUME IInv, AcquireBuffer, NEW b,
           LET s == Head(queue).slot IN
           /\ b.frame = Head(queue).frame /\ SlotOf(b.buffer)' = s
           /\ \A a \in StillCached :
                 SlotOf(a.buffer)' = SlotOf(a.buffer) /\ a.buffer # b.buffer
           /\ StillCached' = {a \in StillCached : SlotOf(a.buffer) # s} \cup {b}
    PROVE  AcquiredInv'
<1> DEFINE bi == Head(queue)
<1>1. /\ bi \in ItemRecords
      /\ bi.stale => ~slots[bi.slot].known /\ slots'[bi.slot] = slots[bi.slot]
      /\ ~bi.stale => /\ slots'[bi.slot].state = "acquired" /\ slots'[bi.slot].frame = bi.frame
      /\ \A s \in Slots \ {bi.slot} : slots'[s] = slots[s]
  BY AcquireTakesItem
<1>2. bi.slot \in Slots /\ bi.stale \in BOOLEAN
  BY <1>1 DEF ItemRecords
<1>3. b.frame = bi.frame /\ SlotOf(b.buffer)' = bi.slot
  OBVIOUS
<1>4. \A a : a \in StillCached' <=> a = b \/ (a \in StillCached /\ SlotOf(a.buffer) # bi.slot)
  OBVIOUS
<1>5. \A a \in StillCached : SlotOf(a.buffer) \in Slots
  BY StillCachedTypes DEF IInv
<1> HIDE DEF bi
<1>6. AcquiredOnce'
  BY <1>4 DEF IInv, AcquiredInv, AcquiredOnce
<1>7. HoldsSlot'
  <2> SUFFICES ASSUME NEW a \in StillCached', slots'[SlotOf(a.buffer)'].known
               PROVE  slots'[SlotOf(a.buffer)'].state = "acquired"
                      /\ slots'[SlotOf(a.buffer)'].frame = a.frame
    BY DEF HoldsSlot
  <2>1. CASE a = b
    BY <1>1, <1>2, <1>3, <2>1
  <2>2. CASE a \in StillCached /\ SlotOf(a.buffer) # bi.slot
    <3>1. slots'[SlotOf(a.buffer)'] = slots[SlotOf(a.buffer)]
      BY <1>1, <1>5, <2>2
    <3> QED BY <2>2, <3>1 DEF IInv, AcquiredInv, HoldsSlot
  <2> QED BY <1>4, <2>1, <2>2
<1>8. SlotHeld'
  <2> SUFFICES ASSUME NEW s \in Slots, slots'[s].state = "acquired"
               PROVE  \E a \in StillCached' : SlotOf(a.buffer)' = s /\ a.frame = slots'[s].frame
    BY DEF SlotHeld
  <2>1. CASE s = bi.slot
    <3>1. ~bi.stale
      BY <1>1, <1>2, <2>1 DEF IInv, QueueInv, AcquiredKnown
    <3> QED BY <1>1, <1>3, <1>4, <2>1, <3>1
  <2>2. CASE s # bi.slot
    <3>1. slots'[s] = slots[s]
      BY <1>1, <2>2
    <3>2. PICK a \in StillCached : SlotOf(a.buffer) = s /\ a.frame = slots[s].frame
      BY <3>1 DEF IInv, AcquiredInv, SlotHeld
    <3> QED BY <1>4, <2>2, <3>1, <3>2
  <2> QED BY <2>1, <2>2
<1> QED BY <1>6, <1>7, <1>8 DEF AcquiredInv

LEMMA AcquireBufferStep ==
    ASSUME IInv, AcquireBuffer
    PROVE  IInv'
<1> DEFINE bi == Head(queue)
<1>0. PICK b : b = [buffer |-> mBufferSlots'[bi.slot], frame |-> bi.frame,
                    mReleaseFenceFds |-> <<>>, mGotReleaseFences |-> FALSE]
  OBVIOUS
<1>1. /\ bi \in ItemRecords /\ (bi.stale => ~bi.known /\ ~slots[bi.slot].known)
      /\ ~bi.stale => /\ slots[bi.slot].state = "queued" /\ slots[bi.slot].known = bi.known
                      /\ slots'[bi.slot].buffer = bi.buffer /\ slots[bi.slot].buffer = bi.buffer
      /\ bi.stale => slots'[bi.slot] = slots[bi.slot]
      /\ \A s \in Slots \ {bi.slot} : slots'[s] = slots[s]
      /\ slots' \in [Slots -> SlotRecords] /\ queue' \in Seq(ItemRecords)
      /\ QueueInv'
  BY AcquireTakesItem
<1>2. /\ acquired' = acquired \cup {b} /\ UNCHANGED frames
      /\ IF ~bi.known THEN NewInSlot(bi.slot, bi.buffer)
         ELSE UNCHANGED cacheVars /\ mNumOutstandingAcquires' = mNumOutstandingAcquires + 1
  BY <1>0 DEF AcquireBuffer
<1>3. bi.slot \in Slots /\ bi.buffer \in Nat /\ bi.frame \in Nat /\ bi.known \in BOOLEAN
      /\ bi.stale \in BOOLEAN
  BY <1>1 DEF ItemRecords
<1>4. b.buffer = mBufferSlots'[bi.slot] /\ b.frame = bi.frame
      /\ (mBufferSlots'[bi.slot] \in Nat => b \in AcquiredBuffers)
  BY <1>0, <1>3 DEF AcquiredBuffers
<1>5. /\ cachedBuffers \in Seq(CachedBuffers) /\ mBufferSlots \in [Slots -> Nat]
      /\ Buffers = 1..Len(cachedBuffers) /\ Len(cachedBuffers) \in Nat
      /\ \A c \in Buffers : SlotOf(c) \in Slots
      /\ \A a \in acquired : a.buffer \in Buffers
  <2>1. \A c \in Buffers : cachedBuffers[c] \in CachedBuffers
    BY DEF IInv, Types, Buffers
  <2> QED BY <2>1 DEF IInv, Types, Buffers, SlotOf, CachedBuffers
<1>10. PICK s : s = bi.slot
  OBVIOUS
<1> HIDE DEF bi
<1>6. \A a \in StillCached : a.buffer \in Buffers
  BY <1>5 DEF StillCached
<1>7. CASE bi.known
  <2>1. ~bi.stale /\ slots[s].known /\ slots[s].state = "queued"
    BY <1>1, <1>3, <1>7, <1>10
  <2>2. UNCHANGED <<cachedBuffers, mBufferSlots>>
        /\ mNumOutstandingAcquires' = mNumOutstandingAcquires + 1
    BY <1>2, <1>7 DEF cacheVars
  <2>3. /\ b.buffer = mBufferSlots[s] /\ b.buffer # 0 /\ b.buffer \in Buffers
        /\ SlotOf(b.buffer) = s /\ Cached(b.buffer)
    BY <1>3, <1>4, <1>10, <2>1, <2>2 DEF IInv, CacheInv, KnownCached, CachedInSlot
  <2>4. \A a \in StillCached : SlotOf(a.buffer) # s
    BY <2>1 DEF IInv, AcquiredInv, HoldsSlot
  <2>5. \A c : SlotOf(c)' = SlotOf(c) /\ Cached(c)' = Cached(c)
    BY <2>2 DEF SlotOf, Cached
  <2>6. StillCached' = StillCached \cup {b} /\ b.buffer \notin HeldBuffers
    BY <1>2, <2>2, <2>3, <2>4, <2>5 DEF StillCached, Cached, HeldBuffers, IsAcquired
  <2>7. Types'
    BY <1>1, <1>2, <1>4, <1>5, <2>2, <2>3 DEF IInv, Types, Buffers
  <2>8. CacheInv'
    <3>1. CachedInSlot'
      BY <2>2, <2>5 DEF IInv, CacheInv, CachedInSlot, Buffers
    <3>2. KnownCached'
      BY <1>1, <1>10, <2>1, <2>2 DEF IInv, CacheInv, KnownCached
    <3> QED BY <3>1, <3>2 DEF CacheInv
  <2>9. AcquiredInv'
    <3>1. StillCached' = {a \in StillCached : SlotOf(a.buffer) # s} \cup {b}
      BY <2>4, <2>6
    <3>2. \A a \in StillCached : SlotOf(a.buffer)' = SlotOf(a.buffer) /\ a.buffer # b.buffer
      BY <2>3, <2>4, <2>5
    <3> QED BY <1>4, <2>3, <2>5, <3>1, <3>2, AcquireTakesSlot, <1>10 DEF bi
  <2>10. CountInv'
    <3>1. HeldBuffers' = HeldBuffers \cup {b.buffer}
      BY <1>2, <2>2, <2>3, <2>5 DEF HeldBuffers, IsAcquired, Buffers
    <3> QED BY <2>2, <2>6, <3>1, HeldFinite, FS_AddElement, FS_CardinalityType DEF IInv, CountInv
  <2> QED BY <1>1, <2>7, <2>8, <2>9, <2>10 DEF IInv
<1>8. CASE ~bi.known
  <2>0. PICK n : n = Len(cachedBuffers) + 1
    OBVIOUS
  <2> DEFINE new == [slot |-> s, graphicBuffer |-> bi.buffer, mIsCached |-> TRUE]
  <2>1. /\ cachedBuffers' = Append(DroppedFromCache({s}), new)
        /\ mBufferSlots' = [mBufferSlots EXCEPT ![s] = Len(cachedBuffers')]
        /\ mNumOutstandingAcquires' = mNumOutstandingAcquires - AcquiresDiscarded({s}) + 1
    BY <1>2, <1>8, <1>10 DEF NewInSlot
  <2>2. new \in CachedBuffers /\ new.slot = s /\ new.graphicBuffer = bi.buffer
        /\ new.mIsCached = TRUE
    BY <1>3, <1>10 DEF CachedBuffers
  <2> HIDE DEF new
  <2>3. /\ DroppedFromCache({s}) \in Seq(CachedBuffers)
        /\ Len(DroppedFromCache({s})) = Len(cachedBuffers)
        /\ \A c \in Buffers :
              /\ DroppedFromCache({s})[c].slot = SlotOf(c)
              /\ DroppedFromCache({s})[c].graphicBuffer = cachedBuffers[c].graphicBuffer
              /\ DroppedFromCache({s})[c].mIsCached = (Cached(c) /\ SlotOf(c) # s)
    <3>1. {s} \in SUBSET Slots
      BY <1>3, <1>10
    <3> QED BY <3>1, DroppedBuffers DEF IInv, CacheInv
  <2>4. /\ cachedBuffers' \in Seq(CachedBuffers) /\ Len(cachedBuffers') = n
        /\ cachedBuffers'[n] = new
        /\ \A c \in Buffers : cachedBuffers'[c] = DroppedFromCache({s})[c]
    <3> DEFINE dropped == DroppedFromCache({s})
    <3>1. dropped \in Seq(CachedBuffers) /\ Len(dropped) = Len(cachedBuffers)
      BY <2>3
    <3> HIDE DEF dropped
    <3>2. /\ Append(dropped, new) \in Seq(CachedBuffers) /\ Len(Append(dropped, new)) = n
          /\ Append(dropped, new)[n] = new
          /\ \A c \in 1..Len(cachedBuffers) : Append(dropped, new)[c] = dropped[c]
      BY <1>5, <2>0, <2>2, <3>1, AppendProperties
    <3> QED BY <1>5, <2>1, <3>2 DEF dropped
  <2>5. /\ Buffers' = Buffers \cup {n} /\ n \notin Buffers /\ 0 \notin Buffers /\ n \in Nat \ {0}
        /\ SlotOf(n)' = s /\ Cached(n)' /\ cachedBuffers'[n].graphicBuffer = bi.buffer
        /\ \A c \in Buffers : /\ SlotOf(c)' = SlotOf(c)
                               /\ (Cached(c)' <=> Cached(c) /\ SlotOf(c) # s)
                               /\ cachedBuffers'[c].graphicBuffer = cachedBuffers[c].graphicBuffer
    <3>1. Buffers' = 1..n
      BY <2>4 DEF Buffers
    <3>2. Buffers' = Buffers \cup {n} /\ n \notin Buffers /\ 0 \notin Buffers /\ n \in Nat \ {0}
      BY <1>5, <2>0, <3>1
    <3>3. SlotOf(n)' = s /\ Cached(n)' /\ cachedBuffers'[n].graphicBuffer = bi.buffer
      BY <2>2, <2>4 DEF SlotOf, Cached
    <3>4. \A c \in Buffers : /\ SlotOf(c)' = SlotOf(c)
                             /\ (Cached(c)' <=> Cached(c) /\ SlotOf(c) # s)
                             /\ cachedBuffers'[c].graphicBuffer = cachedBuffers[c].graphicBuffer
      BY <2>3, <2>4 DEF SlotOf, Cached
    <3> QED BY <3>2, <3>3, <3>4
  <2>6. /\ mBufferSlots' \in [Slots -> Nat] /\ mBufferSlots'[s] = n /\ b.buffer = n
        /\ \A r \in Slots \ {s} : mBufferSlots'[r] = mBufferSlots[r]
    <3>1. mBufferSlots' = [mBufferSlots EXCEPT ![s] = n] /\ n \in Nat /\ s \in Slots
      BY <1>3, <1>10, <2>1, <2>4, <2>5
    <3>2. mBufferSlots \in [Slots -> Nat] /\ b.buffer = mBufferSlots'[s]
      BY <1>4, <1>5, <1>10
    <3> QED BY <3>1, <3>2
  <2>7. Types'
    BY <1>1, <1>2, <1>4, <1>5, <2>4, <2>5, <2>6 DEF IInv, Types
  <2>8. CacheInv'
    <3>1. CachedInSlot'
      <4>1. ASSUME NEW c \in Buffers'
            PROVE  Cached(c)' <=> mBufferSlots'[SlotOf(c)'] = c
        <5>1. CASE c = n
          BY <2>5, <2>6, <5>1
        <5>2. CASE c \in Buffers /\ SlotOf(c) = s
          BY <2>5, <2>6, <5>2
        <5>3. CASE c \in Buffers /\ SlotOf(c) # s
          <6>1. SlotOf(c)' = SlotOf(c) /\ (Cached(c)' <=> Cached(c)) /\ SlotOf(c) \in Slots \ {s}
            BY <1>5, <2>5, <5>3
          <6>2. mBufferSlots'[SlotOf(c)'] = mBufferSlots[SlotOf(c)]
            BY <2>6, <6>1
          <6> QED BY <5>3, <6>1, <6>2 DEF IInv, CacheInv, CachedInSlot
        <5> QED BY <2>5, <4>1, <5>1, <5>2, <5>3
      <4>2. ASSUME NEW r \in Slots, mBufferSlots'[r] # 0
            PROVE  mBufferSlots'[r] \in Buffers' /\ SlotOf(mBufferSlots[r])' = r
        <5>1. CASE r = s
          BY <2>5, <2>6, <5>1
        <5>2. CASE r # s
          BY <2>5, <2>6, <4>2, <5>2 DEF IInv, CacheInv, CachedInSlot
        <5> QED BY <5>1, <5>2
      <4> QED BY <4>1, <4>2 DEF CachedInSlot
    <3>2. KnownCached'
      <4> SUFFICES ASSUME NEW r \in Slots, slots'[r].known
                   PROVE  /\ mBufferSlots'[r] # 0
                          /\ cachedBuffers'[mBufferSlots'[r]].graphicBuffer = slots'[r].buffer
        BY DEF KnownCached
      <4>1. CASE r = s
        BY <1>1, <1>3, <1>8, <1>10, <2>5, <2>6, <4>1
      <4>2. CASE r # s
        <5>1. slots'[r] = slots[r] /\ mBufferSlots'[r] = mBufferSlots[r]
          BY <1>1, <1>10, <2>6, <4>2
        <5> QED BY <2>5, <5>1 DEF IInv, CacheInv, KnownCached, CachedInSlot
      <4> QED BY <4>1, <4>2
    <3> QED BY <3>1, <3>2 DEF CacheInv
  <2>9. StillCached' = {a \in StillCached : SlotOf(a.buffer) # s} \cup {b}
    <3>1. \A a \in acquired : Cached(a.buffer)' <=> Cached(a.buffer) /\ SlotOf(a.buffer) # s
      BY <1>5, <2>5
    <3>2. Cached(b.buffer)'
      BY <2>5, <2>6
    <3> QED BY <1>2, <3>1, <3>2 DEF StillCached, Cached
  <2>10. AcquiredInv'
    <3>1. \A a \in StillCached : SlotOf(a.buffer)' = SlotOf(a.buffer) /\ a.buffer # b.buffer
      BY <1>6, <2>5, <2>6
    <3> QED BY <1>4, <2>5, <2>6, <2>9, <3>1, AcquireTakesSlot, <1>10 DEF bi
  <2>11. CountInv'
    <3> DEFINE kept == {c \in HeldBuffers : SlotOf(c) \notin {s}}
    <3>1. \A c : IsAcquired(c)' <=> IsAcquired(c) \/ c = n
      BY <1>2, <2>6 DEF IsAcquired
    <3>2. HeldBuffers' = kept \cup {n} /\ n \notin kept
      BY <2>5, <3>1 DEF HeldBuffers
    <3>3. Cardinality(kept) = Cardinality(HeldBuffers) - AcquiresDiscarded({s})
      <4>1. {s} \in SUBSET Slots
        BY <1>3, <1>10
      <4> QED BY <4>1, CountDiscarded DEF IInv, CacheInv
    <3>4. IsFiniteSet(kept)
      <4>1. kept \in SUBSET HeldBuffers
        OBVIOUS
      <4> QED BY <4>1, HeldFinite, FS_Subset DEF IInv
    <3> HIDE DEF kept
    <3>5. Cardinality(HeldBuffers') = Cardinality(kept) + 1
      BY <3>2, <3>4, FS_AddElement
    <3> QED BY <2>1, <3>3, <3>5 DEF IInv, CountInv
  <2> QED BY <1>1, <2>7, <2>8, <2>10, <2>11 DEF IInv
<1> QED BY <1>3, <1>7, <1>8

-----------------------------------------------------------------------------
LEMMA StepPreserves == IInv /\ [Next]_vars => IInv'
<1>1. ASSUME IInv, UNCHANGED vars PROVE IInv'
  BY <1>1 DEF vars, queueVars, cacheVars, IInv, Types, QueueInv, StaleFirst, StaleUnknown,
              QueuedOnce, QueuedSlot, AcquiredKnown, Items, CacheInv, CachedInSlot, KnownCached,
              Buffers, Cached, SlotOf, AcquiredInv, AcquiredOnce, HoldsSlot, SlotHeld,
              StillCached, CountInv, HeldBuffers, IsAcquired
<1> QED BY <1>1, QueueFrameStep, FreeAllSlotsStep, AcquireBufferStep, OnBuffersReleasedStep,
           AddReleaseFenceFdStep, DropAcquiredBufferStep DEF Next

LEMMA InvariantHolds == Spec => []IInv
BY InitEstablishes, StepPreserves, PTL DEF Spec

(* mNumOutstandingAcquires counts the acquired buffers still to be released, *)
(* however the producer frees its slots between acquireBuffer_l,             *)
(* onBuffersReleased and ~AcquiredBuffer: the destructor's warning of a      *)
(* potential buffer leak is never false, and none is missed.                 *)
THEOREM OutstandingAlwaysExact == Spec => []OutstandingExact
<1>1. IInv => OutstandingExact
  BY HeldOnce DEF IInv, AcquiredInv, CountInv, OutstandingExact
<1> QED BY InvariantHolds, <1>1, PTL

(* acquireBuffer_l finds in mBufferSlots the buffer the producer filled      *)
(* whenever the queue sends none, and a slot that is acquired is released    *)
(* some time.                                                                *)
THEOREM CacheAlwaysCoherent == Spec => []CacheCoherent
<1>1. IInv => CacheCoherent
  <2> SUFFICES ASSUME IInv PROVE CacheCoherent
    OBVIOUS
  <2>1. ASSUME NEW i \in DOMAIN queue, queue[i].known
        PROVE  LET c == mBufferSlots[queue[i].slot] IN
               c # 0 /\ cachedBuffers[c].graphicBuffer = queue[i].buffer
    <3>1. queue[i] \in ItemRecords
      BY DEF IInv, Types
    <3>2. /\ queue[i].slot \in Slots /\ slots[queue[i].slot].known
          /\ slots[queue[i].slot].buffer = queue[i].buffer
      BY <2>1, <3>1 DEF IInv, QueueInv, StaleUnknown, QueuedSlot, Items, ItemRecords
    <3> QED BY <3>2 DEF IInv, CacheInv, KnownCached
  <2> QED BY <2>1 DEF IInv, AcquiredInv, SlotHeld, SlotOf, CacheCoherent
<1> QED BY InvariantHolds, <1>1, PTL

-----------------------------------------------------------------------------
(* The fences.  getReleaseFence halves its range until one fence is left; by *)
(* the least range for which it would not, it merges all of the range.       *)
LEMMA LeastNatural ==
    ASSUME NEW S \in SUBSET Nat, S # {}
    PROVE  \E n \in S : \A m \in S : n <= m
<1>1. PICK n \in S : \A m \in S : <<m, n>> \notin OpToRel(<, Nat)
  BY WFMin, NatLessThanWellFounded, Zenon
<1>2. \A m \in S : ~(m < n)
  BY <1>1, Zenon DEF OpToRel
<1> QED BY <1>2

FencesOf(fds, p) == {fds[i] : i \in (p[1] + 1)..(p[1] + p[2])}

(* What getReleaseFence returns for a range, by merge for smaller ones. *)
Halved(fds, merge, p) ==
    IF p[2] = 0 THEN {} ELSE IF p[2] = 1 THEN {fds[p[1] + 1]}
    ELSE merge[<<p[1], p[2] \div 2>>] \cup merge[<<p[1] + p[2] \div 2, p[2] - p[2] \div 2>>]

LEMMA HalvesMakeRange ==
    ASSUME NEW fds, NEW merge, NEW p \in Nat \X Nat,
           \A q \in Nat \X Nat : q[2] < p[2] => merge[q] = FencesOf(fds, q)
    PROVE  Halved(fds, merge, p) = FencesOf(fds, p)
<1>1. PICK start \in Nat, num \in Nat : p = <<start, num>>
  OBVIOUS
<1>2. p[1] = start /\ p[2] = num
  BY <1>1
<1>3. CASE num = 0
  BY <1>2, <1>3 DEF Halved, FencesOf
<1>4. CASE num = 1
  <2>1. (start + 1)..(start + num) = {start + 1}
    BY <1>4
  <2> QED BY <1>2, <1>4, <2>1 DEF Halved, FencesOf
<1>5. CASE num # 0 /\ num # 1
  <2>1. PICK half \in Nat : half = num \div 2 /\ half < num /\ num - half \in Nat /\ num - half < num
    BY <1>5
  <2>2. merge[<<start, half>>] = {fds[i] : i \in (start + 1)..(start + half)}
    BY <1>2, <2>1 DEF FencesOf
  <2>3. merge[<<start + half, num - half>>]
          = {fds[i] : i \in (start + half + 1)..(start + half + (num - half))}
    <3>1. <<start + half, num - half>> \in Nat \X Nat
      BY <2>1
    <3> QED BY <1>2, <2>1, <3>1 DEF FencesOf
  <2>4. (start + 1)..(start + num)
          = ((start + 1)..(start + half)) \cup ((start + half + 1)..(start + half + (num - half)))
    BY <2>1
  <2>5. Halved(fds, merge, p) = merge[<<start, half>>] \cup merge[<<start + half, num - half>>]
    BY <1>2, <1>5, <2>1 DEF Halved
  <2>6. FencesOf(fds, p) = {fds[i] : i \in (start + 1)..(start + num)}
    BY <1>2 DEF FencesOf
  <2> QED BY <2>2, <2>3, <2>4, <2>5, <2>6
<1> QED BY <1>3, <1>4, <1>5

Merges(fds, merge) == merge = [p \in Nat \X Nat |-> Halved(fds, merge, p)]

LEMMA MergedFenceIsAll ==
    ASSUME NEW fds \in Seq(Nat)
    PROVE  MergedFence(fds) = {fds[i] : i \in DOMAIN fds}
<1>1. \E merge : Merges(fds, merge)
  <2> DEFINE closed == [p \in Nat \X Nat |-> FencesOf(fds, p)]
  <2>1. \A q \in Nat \X Nat : closed[q] = FencesOf(fds, q)
    OBVIOUS
  <2> HIDE DEF closed
  <2>2. \A p \in Nat \X Nat : FencesOf(fds, p) = Halved(fds, closed, p)
    BY <2>1, HalvesMakeRange
  <2>3. closed = [p \in Nat \X Nat |-> Halved(fds, closed, p)]
    BY <2>2 DEF closed
  <2> QED BY <2>3 DEF Merges
<1> DEFINE merge == CHOOSE m : Merges(fds, m)
<1>2. Merges(fds, merge)
  BY <1>1
<1>3. MergedFence(fds) = merge[<<0, Len(fds)>>]
  BY DEF MergedFence, Merges, Halved
<1> HIDE DEF merge
<1>4. \A p \in Nat \X Nat : merge[p] = Halved(fds, merge, p)
  BY <1>2 DEF Merges
<1>5. \A n \in Nat : \A start \in Nat : merge[<<start, n>>] = FencesOf(fds, <<start, n>>)
  <2> DEFINE wrong == {n \in Nat : \E start \in Nat :
                                     merge[<<start, n>>] # FencesOf(fds, <<start, n>>)}
  <2> SUFFICES ASSUME wrong # {} PROVE FALSE
    OBVIOUS
  <2>1. PICK n \in wrong : \A m \in wrong : n <= m
    BY LeastNatural
  <2>2. PICK start \in Nat : merge[<<start, n>>] # FencesOf(fds, <<start, n>>)
    BY <2>1
  <2>3. \A q \in Nat \X Nat : q[2] < n => merge[q] = FencesOf(fds, q)
    <3> SUFFICES ASSUME NEW first \in Nat, NEW num \in Nat, num < n
                 PROVE  merge[<<first, num>>] = FencesOf(fds, <<first, num>>)
      OBVIOUS
    <3>1. num \notin wrong
      BY <2>1
    <3> QED BY <3>1
  <2>4. <<start, n>> \in Nat \X Nat /\ <<start, n>>[2] = n
    BY <2>1, <2>2
  <2> QED BY <1>4, <2>2, <2>3, <2>4, HalvesMakeRange
<1>6. FencesOf(fds, <<0, Len(fds)>>) = {fds[i] : i \in DOMAIN fds}
  BY DEF FencesOf
<1> QED BY <1>3, <1>5, <1>6

(* ~AcquiredBuffer gives the producer its buffer back with every fence       *)
(* addReleaseFenceFd was given for it, or with the acquire fence if there    *)
(* was none: of any number of fences getReleaseFence merges all.             *)
THEOREM FencesAlwaysReturned == Spec => FencesReturned
<1> DEFINE Returned(a) ==
        releasedWith' = IF a.mGotReleaseFences
                        THEN {a.mReleaseFenceFds[i] : i \in DOMAIN a.mReleaseFenceFds}
                        ELSE AcquireFence
<1>1. ASSUME IInv, Next, NEW a \in acquired, a.frame \notin {b.frame : b \in acquired'},
             MustRelease(a)
      PROVE  Returned(a)
  <2>1. a \notin acquired'
    BY <1>1
  <2>2. a \in AcquiredBuffers
    BY <1>1 DEF IInv, Types
  <2>3. ASSUME NEW x \in acquired, AddReleaseFenceFd(x) PROVE FALSE
    <3>1. PICK fds : acquired' = (acquired \ {x})
                        \cup {[x EXCEPT !.mReleaseFenceFds = fds, !.mGotReleaseFences = TRUE]}
      BY <2>3 DEF AddReleaseFenceFd
    <3>2. x = a
      BY <1>1, <2>1, <3>1
    <3>3. [x EXCEPT !.mReleaseFenceFds = fds, !.mGotReleaseFences = TRUE].frame = a.frame
      BY <2>2, <3>2 DEF AcquiredBuffers
    <3> QED BY <1>1, <3>1, <3>3
  <2>4. \E x \in acquired : DropAcquiredBuffer(x)
    BY <1>1, <2>1, <2>3 DEF Next, QueueFrame, FreeAllSlots, QueueStep, AcquireBuffer,
                            OnBuffersReleased
  <2>5. DropAcquiredBuffer(a)
    BY <1>1, <2>1, <2>4 DEF DropAcquiredBuffer
  <2>6. releasedWith' = ReleaseFence(a)
    BY <1>1, <2>5 DEF DropAcquiredBuffer
  <2>7. MergedFence(a.mReleaseFenceFds) = {a.mReleaseFenceFds[i] : i \in DOMAIN a.mReleaseFenceFds}
    BY <2>2, MergedFenceIsAll DEF AcquiredBuffers
  <2> QED BY <2>6, <2>7 DEF ReleaseFence
<1>2. IInv /\ [Next]_vars =>
          [\A a \in acquired : a.frame \notin {b.frame : b \in acquired'} /\ MustRelease(a) =>
               Returned(a)]_vars
  BY <1>1
<1> QED BY InvariantHolds, <1>2, PTL DEF Spec, FencesReturned

=============================================================================
