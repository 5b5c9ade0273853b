------------------------- MODULE PrimaryDeviceProofs -------------------------
(***************************************************************************)
(* First the audio device: every stream handle is closed by whoever opened *)
(* it, and once, proved for any number of threads, streams and addresses.  *)
(* The handles of the streams that are held are distinct, an address being *)
(* given again only when it was freed, and a thread in the middle of       *)
(* opening or closing a stream is the only one that serves it.  So nobody  *)
(* else moves the stream on, and what is removed on closing is this        *)
(* stream's.  Then the primary device, which is an audio device: setMode,  *)
(* and the wait in it, leave the streams alone.  And last what setMode     *)
(* itself tells the vendor's device.                                       *)
(***************************************************************************)
EXTENDS PrimaryDevice, FiniteSetTheorems, SequenceTheorems, TLAPS

-----------------------------------------------------------------------------
StreamRecords ==
    [state : {"none", "opening", "open", "closing", "closed"}, kind : Kinds, handle : Handles]

Opening(t) == step[t] \in {"increment", "opened"}
Closing(t) == step[t] \in {"decrement", "closed", "fatal"}

Types ==
    /\ stream \in [Streams -> StreamRecords]
    /\ step \in [Threads -> {"idle", "increment", "opened", "decrement", "closed", "fatal"}]
    /\ serves \in [Threads -> Streams \cup {NoStream}]

(* A thread between two steps of a call serves a stream in the state it left *)
(* it in, and no other thread serves that stream.                            *)
ServedAlone ==
    /\ \A t \in Threads : Opening(t) => serves[t] \in Streams /\ stream[serves[t]].state = "opening"
    /\ \A t \in Threads : Closing(t) => serves[t] \in Streams /\ stream[serves[t]].state = "closing"
    /\ \A t, u \in Threads :
          t # u /\ step[t] # "idle" /\ step[u] # "idle" => serves[t] # serves[u]

Held(s) == stream[s].state \in {"opening", "open"}

(* Two streams that are held have different handles. *)
HandlesDistinct ==
    \A r, s \in Streams :
        r # s /\ Held(r) /\ Held(s) => stream[r].handle # stream[s].handle

(* HandlesMatch, stream by stream: each handle that is open is some held     *)
(* stream's, and each held stream's handle is open where it should be.       *)
Owned ==
    /\ \A h \in vendorStreams :
          \E s \in Streams : Held(s) /\ stream[s].kind # "stub" /\ stream[s].handle = h
    /\ \A h \in gScoStubStreams :
          \E s \in Streams : Held(s) /\ stream[s].kind = "stub" /\ stream[s].handle = h
    /\ \A s \in Streams : Held(s) =>
          stream[s].handle \in IF stream[s].kind = "stub" THEN gScoStubStreams ELSE vendorStreams

(* The inductive invariant. *)
HandlesInv == Types /\ ServedAlone /\ HandlesDistinct /\ Owned

-----------------------------------------------------------------------------
LEMMA OwnedIsMatched == Types /\ Owned => HandlesMatch
BY DEF Types, Owned, Held, HandlesMatch, HandlesOf, Alive, StreamRecords, Kinds

LEMMA InitEstablishes == Init => HandlesInv
BY DEF Init, HandlesInv, Types, ServedAlone, HandlesDistinct, Owned, Held, Opening, Closing,
       StreamRecords, Kinds

-----------------------------------------------------------------------------
(* A stream is opened on an address that is free: what changes is that a     *)
(* stream nobody served is held.                                             *)
LEMMA OpenPreserves ==
    ASSUME NEW t \in Threads, NEW s \in Streams, NEW h \in Handles, NEW kind \in Kinds,
           HandlesInv, step[t] = "idle", stream[s].state = "none", Free(h),
           stream' = [stream EXCEPT ![s] = [state |-> "opening", kind |-> kind, handle |-> h]],
           Begin(t, s, "increment"),
           IF kind = "stub"
           THEN gScoStubStreams' = gScoStubStreams \cup {h} /\ vendorStreams' = vendorStreams
           ELSE vendorStreams' = vendorStreams \cup {h} /\ gScoStubStreams' = gScoStubStreams
    PROVE  HandlesInv'
<1>1. Types'
  BY DEF HandlesInv, Types, StreamRecords, Begin
<1>2. /\ step' = [step EXCEPT ![t] = "increment"] /\ serves' = [serves EXCEPT ![t] = s]
      /\ stream'[s] = [state |-> "opening", kind |-> kind, handle |-> h]
      /\ \A r \in Streams : r # s => stream'[r] = stream[r]
  BY DEF HandlesInv, Types, Begin
<1>3. \A u \in Threads : step[u] # "idle" => u # t /\ serves[u] # s
  <2>1. \A u \in Threads : step[u] # "idle" => Opening(u) \/ Closing(u)
    BY DEF HandlesInv, Types, Opening, Closing
  <2> QED BY <2>1 DEF HandlesInv, ServedAlone
<1>4. ServedAlone'
  <2>1. \A u \in Threads : u # t => step'[u] = step[u] /\ serves'[u] = serves[u]
    BY <1>2 DEF HandlesInv, Types
  <2>2. step'[t] = "increment" /\ serves'[t] = s
    BY <1>2 DEF HandlesInv, Types
  <2> QED BY <1>2, <1>3, <2>1, <2>2 DEF HandlesInv, ServedAlone, Opening, Closing
<1>5. \A r \in Streams : Held(r) => stream[r].handle # h
  BY DEF HandlesInv, Owned, Free
<1>6. HandlesDistinct'
  BY <1>2, <1>5 DEF HandlesInv, HandlesDistinct, Held
<1>7. ~Held(s)
  BY DEF Held
<1>8. \A r \in Streams : Held(r) => r # s /\ Held(r)' /\ stream'[r] = stream[r]
  BY <1>2, <1>7 DEF Held
<1>9. Owned'
  BY <1>2, <1>7, <1>8 DEF HandlesInv, Owned, Held, Kinds
<1> QED BY <1>1, <1>4, <1>6, <1>9 DEF HandlesInv

LEMMA ClosePreserves ==
    ASSUME NEW t \in Threads, NEW s \in Streams, HandlesInv, CloseStream(t, s)
    PROVE  HandlesInv'
<1>1. /\ step[t] = "idle" /\ stream[s].state = "open" /\ CloseHandle(s)
      /\ stream' = [stream EXCEPT ![s].state = "closing"]
      /\ step' = [step EXCEPT ![t] = "decrement"] /\ serves' = [serves EXCEPT ![t] = s]
  BY DEF CloseStream, Begin
<1>2. Types'
  BY <1>1 DEF HandlesInv, Types, StreamRecords
<1>3. /\ stream'[s].state = "closing"
      /\ \A r \in Streams : r # s => stream'[r] = stream[r]
  BY <1>1 DEF HandlesInv, Types, StreamRecords
<1>4. \A u \in Threads : step[u] # "idle" => u # t /\ serves[u] # s
  <2>1. \A u \in Threads : step[u] # "idle" => Opening(u) \/ Closing(u)
    BY DEF HandlesInv, Types, Opening, Closing
  <2> QED BY <1>1, <2>1 DEF HandlesInv, ServedAlone
<1>5. ServedAlone'
  <2>1. \A u \in Threads : u # t => step'[u] = step[u] /\ serves'[u] = serves[u]
    BY <1>1 DEF HandlesInv, Types
  <2>2. step'[t] = "decrement" /\ serves'[t] = s
    BY <1>1 DEF HandlesInv, Types
  <2> QED BY <1>3, <1>4, <2>1, <2>2 DEF HandlesInv, ServedAlone, Opening, Closing
<1>6. HandlesDistinct'
  BY <1>3 DEF HandlesInv, HandlesDistinct, Held
<1>7. Held(s) /\ ~Held(s)' /\ \A r \in Streams : r # s => (Held(r)' <=> Held(r))
  BY <1>1, <1>3 DEF Held
<1>8. \A r \in Streams : r # s /\ Held(r) => stream[r].handle # stream[s].handle
  BY <1>7 DEF HandlesInv, HandlesDistinct
<1>9. CASE stream[s].kind = "stub"
  <2>1. gScoStubStreams' = gScoStubStreams \ {stream[s].handle} /\ vendorStreams' = vendorStreams
    BY <1>1, <1>7, <1>9 DEF CloseHandle, HandlesInv, Owned
  <2> QED BY <1>2, <1>3, <1>5, <1>6, <1>7, <1>8, <1>9, <2>1 DEF HandlesInv, Owned
<1>10. CASE stream[s].kind # "stub"
  <2>1. stream[s].handle \notin gScoStubStreams
    BY <1>7, <1>8, <1>10 DEF HandlesInv, Owned
  <2>2. vendorStreams' = vendorStreams \ {stream[s].handle} /\ gScoStubStreams' = gScoStubStreams
    BY <1>1, <2>1 DEF CloseHandle
  <2> QED BY <1>2, <1>3, <1>5, <1>6, <1>7, <1>8, <1>10, <2>2 DEF HandlesInv, Owned
<1> QED BY <1>9, <1>10

(* The steps in between: the thread goes from one to another within opening, *)
(* or within closing, and nothing else that matters changes.                 *)
LEMMA LoadPreserves ==
    ASSUME NEW t \in Threads, NEW next, HandlesInv,
           \/ step[t] = "increment" /\ next = "opened"
           \/ step[t] = "decrement" /\ next \in {"closed", "fatal"},
           step' = [step EXCEPT ![t] = next],
           UNCHANGED <<handleVars, stream, serves>>
    PROVE  HandlesInv'
<1>1. Types'
  BY DEF HandlesInv, Types
<1>2. \A u \in Threads : /\ Opening(u)' <=> Opening(u)
                         /\ Closing(u)' <=> Closing(u)
                         /\ step'[u] # "idle" <=> step[u] # "idle"
  BY DEF HandlesInv, Types, Opening, Closing
<1>3. ServedAlone'
  BY <1>2 DEF HandlesInv, ServedAlone
<1> QED BY <1>1, <1>3 DEF HandlesInv, HandlesDistinct, Owned, Held, handleVars

(* The end of a call: the stream it served is open, as it was held before,   *)
(* or closed, as it was not.                                                 *)
LEMMA EndPreserves ==
    ASSUME NEW t \in Threads, NEW next, HandlesInv,
           \/ step[t] = "opened" /\ next = "open"
           \/ step[t] = "closed" /\ next = "closed",
           stream' = [stream EXCEPT ![serves[t]].state = next],
           step' = [step EXCEPT ![t] = "idle"],
           UNCHANGED <<handleVars, serves>>
    PROVE  HandlesInv'
<1> DEFINE s == serves[t]
<1>1. /\ s \in Streams
      /\ \/ stream[s].state = "opening" /\ next = "open"
         \/ stream[s].state = "closing" /\ next = "closed"
  BY DEF HandlesInv, ServedAlone, Opening, Closing
<1>2. Types'
  BY <1>1 DEF HandlesInv, Types, StreamRecords
<1>3. /\ stream'[s].state = next /\ stream'[s].handle = stream[s].handle
      /\ stream'[s].kind = stream[s].kind
      /\ \A r \in Streams : r # s => stream'[r] = stream[r]
  BY <1>1 DEF HandlesInv, Types, StreamRecords
<1>4. \A u \in Threads : u # t => step'[u] = step[u] /\ (step[u] # "idle" => serves[u] # s)
  BY DEF HandlesInv, Types, ServedAlone
<1>5. step'[t] = "idle"
  BY DEF HandlesInv, Types
<1>6. ServedAlone'
  BY <1>3, <1>4, <1>5 DEF HandlesInv, ServedAlone, Opening, Closing
<1>7. \A r \in Streams : /\ Held(r)' <=> Held(r)
                         /\ stream'[r].handle = stream[r].handle
                         /\ stream'[r].kind = stream[r].kind
  BY <1>1, <1>3 DEF Held
<1> QED BY <1>2, <1>6, <1>7 DEF HandlesInv, HandlesDistinct, Owned, handleVars

-----------------------------------------------------------------------------
LEMMA CallPreserves ==
    ASSUME NEW t \in Threads, HandlesInv, Call(t)
    PROVE  HandlesInv'
<1>1. ASSUME NEW s \in Streams, NEW h \in Handles, NEW kind \in {"output", "input"},
             OpenStream(t, s, kind, h)
      PROVE  HandlesInv'
  BY <1>1, OpenPreserves DEF OpenStream, Serves, Kinds
<1>2. ASSUME NEW s \in Streams, NEW h \in Handles, OpenScoStubStream(t, s, h)
      PROVE  HandlesInv'
  BY <1>2, OpenPreserves DEF OpenScoStubStream, Serves, Kinds
<1>3. CASE LoadToIncrement(t)
  BY <1>3, LoadPreserves DEF LoadToIncrement
<1>4. CASE StreamOpened(t)
  BY <1>4, EndPreserves DEF StreamOpened
<1>5. ASSUME NEW s \in Streams, CloseStream(t, s) PROVE HandlesInv'
  BY <1>5, ClosePreserves
<1>6. CASE LoadToDecrement(t)
  BY <1>6, LoadPreserves DEF LoadToDecrement
<1>7. CASE StreamClosed(t)
  BY <1>7, EndPreserves DEF StreamClosed
<1>8. CASE CloseDevice(t)
  BY <1>8 DEF CloseDevice, HandlesInv, Types, ServedAlone, HandlesDistinct, Owned, Held, Opening,
              Closing, handleVars, threadVars
<1> QED BY <1>1, <1>2, <1>3, <1>4, <1>5, <1>6, <1>7, <1>8
        DEF Call, OpenOutputStream, OpenInputStream

LEMMA StepPreserves == HandlesInv /\ [Next]_vars => HandlesInv'
<1> SUFFICES ASSUME HandlesInv, [Next]_vars PROVE HandlesInv'
  OBVIOUS
<1>1. CASE \E t \in Threads : Call(t)
  BY <1>1, CallPreserves
<1>2. CASE DestroyDevice
  BY <1>2 DEF DestroyDevice, HandlesInv, Types, ServedAlone, HandlesDistinct, Owned, Held, Opening,
              Closing, handleVars, threadVars
<1>3. CASE UNCHANGED vars
  BY <1>3 DEF vars, HandlesInv, Types, ServedAlone, HandlesDistinct, Owned, Held, Opening, Closing,
              handleVars, threadVars
<1> QED BY <1>1, <1>2, <1>3 DEF Next

(* However the calls of any number of threads interleave, and however        *)
(* addresses are used again, the vendor's device has exactly its own streams *)
(* open, and the stubs are exactly those that are held.                      *)
THEOREM HandlesAlwaysMatch == Spec => []HandlesMatch
<1>1. HandlesInv => HandlesMatch
  BY OwnedIsMatched DEF HandlesInv
<1> QED BY InitEstablishes, StepPreserves, <1>1, PTL DEF Spec

-----------------------------------------------------------------------------
(* The count, for one thread.  A stream is counted from the end of the call  *)
(* that opens it to the end of the one that closes it, and between its load  *)
(* and its store the thread knows the count.                                 *)
OneThread == \A t, u \in Threads : t = u

Counted == {s \in Streams : stream[s].state \in {"open", "closing"}}

CountKnown ==
    /\ mOpenedStreamsCount = Cardinality(Counted)
    /\ loaded = [t \in Threads |-> loaded[t]]
    /\ \A t \in Threads : step[t] \in {"opened", "closed"} => loaded[t] = mOpenedStreamsCount

ClosingServed ==
    \A s \in Streams : stream[s].state = "closing" =>
        \E t \in Threads : Closing(t) /\ serves[t] = s

GoneClosed == device = "gone" => mIsClosed

(* The inductive invariant of the count. *)
CountInv == OneThread /\ HandlesInv /\ CountKnown /\ ClosingServed /\ GoneClosed

LEMMA CountedFinite == IsFiniteSet(Counted) /\ Cardinality(Counted) \in Nat
BY ConstantsAssumption, FS_Subset, FS_CardinalityType DEF Counted

LEMMA CountIsExact == CountInv => CountExact
<1> SUFFICES ASSUME CountInv, \A t \in Threads : step[t] = "idle"
             PROVE  mOpenedStreamsCount = Cardinality(OpenStreams)
  BY DEF CountInv, GoneClosed, CountExact
<1>1. \A s \in Streams : stream[s].state # "closing"
  BY DEF CountInv, ClosingServed, Closing
<1>2. Counted = OpenStreams
  BY <1>1 DEF Counted, OpenStreams
<1> QED BY <1>2 DEF CountInv, CountKnown

LEMMA CountInit == OneThread /\ Init => CountInv
<1> SUFFICES ASSUME OneThread, Init PROVE CountInv
  OBVIOUS
<1>1. Counted = {}
  BY DEF Init, Counted
<1> QED BY <1>1, InitEstablishes, FS_EmptySet
        DEF CountInv, CountKnown, ClosingServed, GoneClosed, Init

-----------------------------------------------------------------------------
(* A step that leaves alone which streams are counted, and the count. *)
LEMMA CountUndisturbed ==
    ASSUME CountInv, HandlesInv',
           \A s \in Streams : stream'[s].state \in {"open", "closing"} <=>
                              stream[s].state \in {"open", "closing"},
           mOpenedStreamsCount' = mOpenedStreamsCount,
           loaded' = [t \in Threads |-> loaded'[t]],
           \A t \in Threads : step'[t] \in {"opened", "closed"} =>
               loaded'[t] = mOpenedStreamsCount,
           ClosingServed', GoneClosed'
    PROVE  CountInv'
<1>1. Counted' = Counted
  BY DEF Counted
<1> QED BY <1>1 DEF CountInv, CountKnown, OneThread

LEMMA BeginKeepsCount ==
    ASSUME NEW t \in Threads, NEW s \in Streams, NEW next \in {"increment", "decrement"}, CountInv, HandlesInv',
           step[t] = "idle", Begin(t, s, next),
           \A r \in Streams : r # s => stream'[r] = stream[r],
           \/ next = "increment" /\ stream[s].state = "none" /\ stream'[s].state = "opening"
           \/ next = "decrement" /\ stream[s].state = "open" /\ stream'[s].state = "closing",
           UNCHANGED <<mOpenedStreamsCount, deviceVars>>
    PROVE  CountInv'
<1>1. /\ step'[t] = next /\ serves'[t] = s /\ loaded' = loaded
      /\ \A u \in Threads : u = t
  BY DEF Begin, CountInv, OneThread, HandlesInv, Types
<1>2. \A r \in Streams : stream'[r].state \in {"open", "closing"} <=>
                         stream[r].state \in {"open", "closing"}
  OBVIOUS
<1>3. \A r \in Streams : stream[r].state # "closing"
  BY <1>1 DEF CountInv, ClosingServed, Closing
<1>4. ClosingServed'
  BY <1>1, <1>3 DEF ClosingServed, Closing
<1>5. GoneClosed'
  BY DEF CountInv, GoneClosed, deviceVars
<1>6. \A u \in Threads : step'[u] \in {"opened", "closed"} => loaded'[u] = mOpenedStreamsCount
  BY <1>1
<1> QED BY <1>1, <1>2, <1>4, <1>5, <1>6, CountUndisturbed DEF CountInv, CountKnown

LEMMA LoadKeepsCount ==
    ASSUME NEW t \in Threads, NEW next, CountInv, HandlesInv',
           \/ step[t] = "increment" /\ next = "opened"
           \/ step[t] = "decrement" /\ next \in {"closed", "fatal"},
           step' = [step EXCEPT ![t] = next],
           loaded' = [loaded EXCEPT ![t] = mOpenedStreamsCount],
           UNCHANGED <<mOpenedStreamsCount, deviceVars, stream, serves>>
    PROVE  CountInv'
<1>1. step'[t] = next /\ loaded'[t] = mOpenedStreamsCount /\ \A u \in Threads : u = t
  BY DEF CountInv, OneThread, HandlesInv, Types, CountKnown
<1>2. ClosingServed'
  BY <1>1 DEF CountInv, ClosingServed, Closing
<1>3. GoneClosed'
  BY DEF CountInv, GoneClosed, deviceVars
<1>4. loaded' = [u \in Threads |-> loaded'[u]]
  BY DEF CountInv, CountKnown
<1> QED BY <1>1, <1>2, <1>3, <1>4, CountUndisturbed

(* The store, which is the only step that changes the count. *)
LEMMA EndKeepsCount ==
    ASSUME NEW t \in Threads, CountInv, HandlesInv', StreamOpened(t) \/ StreamClosed(t)
    PROVE  CountInv'
<1> DEFINE s == serves[t]
<1>1. step'[t] = "idle" /\ \A u \in Threads : u = t
  BY DEF CountInv, OneThread, HandlesInv, Types, StreamOpened, StreamClosed
<1>2. /\ loaded[t] = mOpenedStreamsCount /\ loaded' = loaded
      /\ mOpenedStreamsCount = Cardinality(Counted)
  BY DEF CountInv, CountKnown, StreamOpened, StreamClosed
<1>3. \A r \in Streams : r # s => stream'[r] = stream[r]
  BY DEF CountInv, HandlesInv, Types, StreamOpened, StreamClosed
<1>4. mOpenedStreamsCount' = Cardinality(Counted')
  <2>1. CASE StreamOpened(t)
    <3>1. s \in Streams /\ stream[s].state = "opening" /\ stream'[s].state = "open"
      BY <2>1 DEF StreamOpened, CountInv, HandlesInv, ServedAlone, Opening, Types, StreamRecords
    <3>2. Counted' = Counted \cup {s} /\ s \notin Counted
      BY <1>3, <3>1 DEF Counted
    <3> QED BY <1>2, <2>1, <3>2, CountedFinite, FS_AddElement DEF StreamOpened
  <2>2. CASE StreamClosed(t)
    <3>1. s \in Streams /\ stream[s].state = "closing" /\ stream'[s].state = "closed"
      BY <2>2 DEF StreamClosed, CountInv, HandlesInv, ServedAlone, Closing, Types, StreamRecords
    <3>2. Counted' = Counted \ {s} /\ s \in Counted
      BY <1>3, <3>1 DEF Counted
    <3>3. Cardinality(Counted \ {s}) = Cardinality(Counted) - 1
      <4> HIDE DEF s
      <4> QED BY <3>2, CountedFinite, FS_RemoveElement
    <3>4. mOpenedStreamsCount' = loaded[t] - 1
      BY <2>2 DEF StreamClosed
    <3> QED BY <1>2, <3>2, <3>3, <3>4
  <2> QED BY <2>1, <2>2
<1>5. \A r \in Streams : stream'[r].state # "closing"
  <2>1. \A r \in Streams : stream[r].state = "closing" => r = s
    BY <1>1 DEF CountInv, ClosingServed
  <2>2. s \in Streams /\ stream'[s].state # "closing"
    BY DEF StreamOpened, StreamClosed, CountInv, HandlesInv, ServedAlone, Opening, Closing, Types,
           StreamRecords
  <2> QED BY <1>3, <2>1, <2>2
<1>6. ClosingServed' /\ GoneClosed'
  BY <1>5 DEF ClosingServed, CountInv, GoneClosed, StreamOpened, StreamClosed, deviceVars
<1> QED BY <1>1, <1>2, <1>4, <1>6 DEF CountInv, CountKnown, OneThread

LEMMA CallKeepsCount ==
    ASSUME NEW t \in Threads, CountInv, HandlesInv', Call(t)
    PROVE  CountInv'
<1>1. ASSUME NEW s \in Streams, NEW h \in Handles, NEW kind \in {"output", "input"},
             OpenStream(t, s, kind, h) \/ OpenScoStubStream(t, s, h)
      PROVE  CountInv'
  <2>1. stream'[s].state = "opening" /\ \A r \in Streams : r # s => stream'[r] = stream[r]
    BY <1>1 DEF OpenStream, OpenScoStubStream, CountInv, HandlesInv, Types
  <2> QED BY <1>1, <2>1, BeginKeepsCount DEF OpenStream, OpenScoStubStream, Serves
<1>2. ASSUME NEW s \in Streams, CloseStream(t, s) PROVE CountInv'
  <2>1. stream'[s].state = "closing" /\ \A r \in Streams : r # s => stream'[r] = stream[r]
    BY <1>2 DEF CloseStream, CountInv, HandlesInv, Types, StreamRecords
  <2> QED BY <1>2, <2>1, BeginKeepsCount DEF CloseStream
<1>3. CASE LoadToIncrement(t)
  BY <1>3, LoadKeepsCount DEF LoadToIncrement
<1>4. CASE LoadToDecrement(t)
  BY <1>4, LoadKeepsCount DEF LoadToDecrement
<1>5. CASE StreamOpened(t) \/ StreamClosed(t)
  BY <1>5, EndKeepsCount
<1>6. CASE CloseDevice(t)
  BY <1>6 DEF CloseDevice, CountInv, CountKnown, Counted, ClosingServed, Closing, GoneClosed,
              OneThread, threadVars
<1> QED BY <1>1, <1>2, <1>3, <1>4, <1>5, <1>6 DEF Call, OpenOutputStream, OpenInputStream

LEMMA CountStep == CountInv /\ [Next]_vars => CountInv'
<1> SUFFICES ASSUME CountInv, [Next]_vars PROVE CountInv'
  OBVIOUS
<1>1. HandlesInv'
  BY StepPreserves DEF CountInv
<1>2. CASE \E t \in Threads : Call(t)
  BY <1>1, <1>2, CallKeepsCount
<1>3. CASE DestroyDevice
  <2>1. Counted = {}
    BY <1>3 DEF DestroyDevice, Counted, Alive
  <2>2. mIsClosed'
    BY <1>3, <2>1, FS_EmptySet DEF DestroyDevice, MayClose, CountInv, CountKnown
  <2> QED BY <1>1, <1>3, <2>2 DEF DestroyDevice, CountInv, CountKnown, Counted, ClosingServed, Closing,
              GoneClosed, OneThread, threadVars
<1>4. CASE UNCHANGED vars
  BY <1>1, <1>4 DEF vars, CountInv, CountKnown, Counted, ClosingServed, Closing, GoneClosed, OneThread,
              threadVars, deviceVars
<1> QED BY <1>2, <1>3, <1>4 DEF Next

(* With one thread the count between calls is the number of open streams,    *)
(* however many were opened and closed, and a device that is gone was closed.*)
THEOREM CountAlwaysExact == OneThread /\ Spec => []CountExact
BY CountInit, CountStep, CountIsExact, PTL DEF Spec

-----------------------------------------------------------------------------
LEMMA StepIsDeviceStep == [PrimaryNext]_primaryVars => [Next]_vars
<1>1. ASSUME DeviceCall \/ DropDevice PROVE Next
  BY <1>1 DEF DeviceCall, DropDevice, Next
<1>2. ASSUME NEW slot \in Slots, NEW value \in {"0", "1"}, ReportCall(slot, value)
      PROVE  UNCHANGED vars
  BY <1>2 DEF ReportCall
<1>3. UNCHANGED primaryVars => UNCHANGED vars
  BY DEF primaryVars
<1> QED BY <1>1, <1>2, <1>3 DEF PrimaryNext

(* The primary device implements the audio device: initial states are its    *)
(* initial states, and each step is one of its steps or leaves it alone.     *)
THEOREM ImplementsAudioDevice == PrimarySpec => Spec
<1>1. PrimaryInit => Init
  BY DEF PrimaryInit
<1> QED BY <1>1, StepIsDeviceStep, PTL DEF PrimarySpec, Spec

(* So its stream handles are closed by whoever opened them, and once.        *)
THEOREM PrimaryHandlesMatch == PrimarySpec => []HandlesMatch
BY ImplementsAudioDevice, HandlesAlwaysMatch, PTL

(* And with one thread its count is exact.                                   *)
THEOREM PrimaryCountExact == OneThread /\ PrimarySpec => []CountExact
BY ImplementsAudioDevice, CountAlwaysExact, PTL

-----------------------------------------------------------------------------
(* What setMode has read of the two properties, and told the vendor's device. *)
Answers == {"", "0", "1"}

SetModeTypes ==
    /\ ongoing \in [Slots -> Answers] /\ simSlot \in [Threads -> [Slots -> Answers]]
    /\ setMode \in [Threads -> {"idle", "read1", "read2", "decide", "set"}]
    /\ mode \in [Threads -> Modes \cup {"invalid"}]
    /\ vendor \in [callState : 0..2, simSlot : 0..2]

SetModeInv == SetModeTypes /\ InCallIsActive

LEMMA SetModeInit == PrimaryInit => SetModeInv
<1> SUFFICES ASSUME PrimaryInit PROVE SetModeInv
  OBVIOUS
<1>1. <<"", "">> \in [Slots -> Answers]
  <2>1. <<"", "">> \in Seq(Answers) /\ Len(<<"", "">>) = 2
    BY DEF Answers
  <2>2. <<"", "">> \in [1..2 -> Answers]
    BY <2>1, ElementOfSeq, LenProperties
  <2>3. Slots = 1..2
    BY DEF Slots
  <2> QED BY <2>2, <2>3
<1>2. ongoing \in [Slots -> Answers]
  <2>1. PICK value \in {"", "0"} : ongoing = [slot \in Slots |-> value]
    BY DEF PrimaryInit
  <2> QED BY <2>1 DEF Answers
<1>3. vendor \in [callState : 0..2, simSlot : 0..2]
  <2>1. vendor = [callState |-> 0, simSlot |-> 0]
    BY DEF PrimaryInit
  <2> QED BY <2>1
<1> QED BY <1>1, <1>2, <1>3 DEF PrimaryInit, SetModeInv, SetModeTypes, InCallIsActive, Modes

LEMMA CallKeepsSetMode ==
    ASSUME OneThread, SetModeInv, NEW t \in Threads,
           SetModeStep(t) \/ \E m \in Modes \cup {"invalid"} : SetMode(t, m), UNCHANGED ongoing
    PROVE  SetModeInv'
<1> USE DEF SetModeInv, SetModeTypes
<1>1. \A u \in Threads : u = t
  BY DEF OneThread
<1>2. CASE \E m \in Modes \cup {"invalid"} : SetMode(t, m)
  <2>1. PICK m \in Modes \cup {"invalid"} : SetMode(t, m)
    BY <1>2
  <2>2. SetModeTypes'
    BY <2>1 DEF SetMode, Proceed
  <2>3. setMode'[t] = "read1"
    BY <2>1 DEF SetMode, Proceed
  <2> QED BY <1>1, <2>2, <2>3 DEF InCallIsActive
<1>3. CASE ReadSlot1(t) \/ ReadSlot2(t)
  <2>1. PICK slot \in Slots : ReadSlot(t, slot)
    BY <1>3 DEF ReadSlot1, ReadSlot2, Slots
  <2>2. SetModeTypes' /\ setMode'[t] \in {"read2", "decide"}
    BY <1>3, <2>1 DEF ReadSlot1, ReadSlot2, ReadSlot, Proceed
  <2> QED BY <1>1, <2>2 DEF InCallIsActive
<1>4. CASE Wait(t)
  BY <1>1, <1>4 DEF Wait, Proceed, InCallIsActive
<1>5. CASE SetCallParameters(t)
  <2>1. CallParameters(t) \in [callState : 0..2, simSlot : 0..2]
    <3>1. \A state \in 0..2, slot \in 0..2 :
             [vendor EXCEPT !.callState = state, !.simSlot = slot]
                 \in [callState : 0..2, simSlot : 0..2]
      OBVIOUS
    <3>2. [vendor EXCEPT !.callState = 1] \in [callState : 0..2, simSlot : 0..2]
      OBVIOUS
    <3> QED BY <3>1, <3>2 DEF CallParameters
  <2>2. mode[t] = "IN_CALL" /\ PropertiesSet(t) => \E slot \in Slots : simSlot[t][slot] = "1"
    BY <1>5, ZenonT(60) DEF SetCallParameters, MustWait, PropertiesSet, Answers
  <2>3. mode[t] = "IN_CALL" /\ PropertiesSet(t) =>
            vendor'.callState = 2 /\ simSlot[t][vendor'.simSlot] = "1"
    <3> SUFFICES ASSUME mode[t] = "IN_CALL", PropertiesSet(t)
                 PROVE  vendor'.callState = 2 /\ simSlot[t][vendor'.simSlot] = "1"
      OBVIOUS
    <3>1. vendor' = CallParameters(t)
      BY <1>5 DEF SetCallParameters
    <3>2. CASE simSlot[t][1] = "1"
      BY <3>1, <3>2 DEF CallParameters
    <3>3. CASE simSlot[t][1] # "1"
      BY <2>2, <3>1, <3>3 DEF CallParameters, Slots
    <3> QED BY <3>2, <3>3
  <2>4. UNCHANGED <<mode, simSlot>>
    BY <1>5 DEF SetCallParameters
  <2>5. InCallIsActive'
    BY <1>1, <2>3, <2>4 DEF InCallIsActive, PropertiesSet
  <2>6. SetModeTypes'
    BY <1>5, <2>1, <2>4 DEF SetCallParameters, Proceed
  <2> QED BY <2>5, <2>6
<1>6. CASE SetVendorMode(t)
  <2>1. mode' = mode /\ simSlot' = simSlot /\ vendor' = vendor /\ setMode[t] = "set"
    BY <1>6 DEF SetVendorMode
  <2>2. InCallIsActive'
    BY <1>1, <2>1 DEF InCallIsActive, PropertiesSet
  <2>3. SetModeTypes'
    BY <1>6, <2>1 DEF SetVendorMode, Proceed
  <2> QED BY <2>2, <2>3
<1> QED BY <1>2, <1>3, <1>4, <1>5, <1>6 DEF SetModeStep

LEMMA SetModeKept == OneThread /\ SetModeInv /\ [PrimaryNext]_primaryVars => SetModeInv'
<1> SUFFICES ASSUME OneThread, SetModeInv, [PrimaryNext]_primaryVars PROVE SetModeInv'
  OBVIOUS
<1>1. CASE UNCHANGED <<ongoing, callVars>>
  BY <1>1 DEF callVars, SetModeInv, SetModeTypes, InCallIsActive, PropertiesSet
<1>2. ASSUME NEW slot \in Slots, NEW value \in {"0", "1"}, ReportCall(slot, value)
      PROVE  SetModeInv'
  BY <1>2 DEF ReportCall, callVars, SetModeInv, SetModeTypes, InCallIsActive, PropertiesSet, Answers
<1>3. UNCHANGED primaryVars => UNCHANGED <<ongoing, callVars>>
  BY DEF primaryVars
<1> QED BY <1>1, <1>2, <1>3, CallKeepsSetMode DEF PrimaryNext

(* setMode (PrimaryDevice.cpp) never puts the vendor's device in a call it   *)
(* was not told the SIM of, whenever the radio changes the properties        *)
(* between the two reads.  The calls are made one after another.             *)
THEOREM InCallAlwaysActive == OneThread /\ PrimarySpec => []InCallIsActive
<1>1. SetModeInv => InCallIsActive
  BY DEF SetModeInv
<1>2. OneThread /\ PrimarySpec => []SetModeInv
  <2>1. CASE OneThread
    <3>1. SetModeInv /\ [PrimaryNext]_primaryVars => SetModeInv'
      BY <2>1, SetModeKept
    <3> QED BY <3>1, SetModeInit, PTL DEF PrimarySpec
  <2>2. CASE ~OneThread
    BY <2>2
  <2> QED BY <2>1, <2>2
<1> QED BY <1>1, <1>2, PTL

=============================================================================
