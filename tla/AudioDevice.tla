---------------------------- MODULE AudioDevice -----------------------------
(***************************************************************************)
(* The audio device of the HAL (audio/impl/Device.cpp) and the streams it  *)
(* opened: the count of open streams that guards closing the device, and   *)
(* the stub streams that stand in for Bluetooth SCO outputs the vendor's   *)
(* device refuses to open.                                                 *)
(*                                                                         *)
(* A stream handle is an address: the vendor's device and calloc may give  *)
(* an address again once it was freed.  mOpenedStreamsCount is a plain     *)
(* int, so incrementing and decrementing it are a load and a store that    *)
(* other binder threads may come between; gScoStubStreams is changed under *)
(* gScoStubLock.                                                           *)
(***************************************************************************)
EXTENDS Integers, FiniteSets

CONSTANTS
    Threads,    \* the binder threads that serve calls
    Streams,    \* the StreamIn and StreamOut objects
    Handles,    \* addresses of audio_stream_in_t and audio_stream_out_t
    NoStream

ASSUME ConstantsAssumption ==
    /\ Threads # {} /\ IsFiniteSet(Streams)
    /\ NoStream \notin Streams

VARIABLES
    mOpenedStreamsCount,
    mIsClosed,
    gScoStubStreams,
    vendorStreams,  \* the handles the vendor's device has open
    device,         \* "open", until the last reference is dropped: "gone"
    stream,         \* each stream object: how far it is, what it is, its handle
    step,           \* each thread: where it is in a call
    serves,         \* each thread: the stream of that call
    loaded          \* each thread: the value of mOpenedStreamsCount it loaded

deviceVars == <<mIsClosed, device>>
handleVars == <<gScoStubStreams, vendorStreams>>
threadVars == <<step, serves, loaded>>

vars == <<mOpenedStreamsCount, deviceVars, handleVars, stream, threadVars>>

-----------------------------------------------------------------------------
Kinds == {"output", "stub", "input"}
Alive(s) == stream[s].state \in {"opening", "open", "closing"}

(* The handles of the live streams of some kinds. *)
HandlesOf(kinds) ==
    {stream[s].handle : s \in {r \in Streams : Alive(r) /\ stream[r].kind \in kinds
                                              /\ stream[r].state # "closing"}}

Free(h) == h \notin gScoStubStreams \cup vendorStreams

(* A client calls a device it has neither closed nor dropped. *)
Serves(t) == step[t] = "idle" /\ device = "open"

Begin(t, s, next) ==
    /\ step' = [step EXCEPT ![t] = next]
    /\ serves' = [serves EXCEPT ![t] = s]
    /\ UNCHANGED loaded

-----------------------------------------------------------------------------
(* openOutputStreamCore, openInputStreamCore: a stream the vendor's device  *)
(* opens.  What is refused leaves nothing behind.  A client does not open   *)
(* streams of a device it closed; the code does not look.                   *)
OpenStream(t, s, kind, h) ==
    /\ Serves(t) /\ ~mIsClosed
    /\ stream[s].state = "none" /\ Free(h)
    /\ kind \in {"output", "input"}
    /\ vendorStreams' = vendorStreams \cup {h}
    /\ stream' = [stream EXCEPT ![s] = [state |-> "opening", kind |-> kind, handle |-> h]]
    /\ Begin(t, s, "increment")
    /\ UNCHANGED <<mOpenedStreamsCount, gScoStubStreams, deviceVars>>

(* openOutputStreamCore for a SCO device that the vendor's device refuses:  *)
(* createScoStubStream.                                                     *)
OpenScoStubStream(t, s, h) ==
    /\ Serves(t) /\ ~mIsClosed
    /\ stream[s].state = "none" /\ Free(h)
    /\ gScoStubStreams' = gScoStubStreams \cup {h}
    /\ stream' = [stream EXCEPT ![s] = [state |-> "opening", kind |-> "stub", handle |-> h]]
    /\ Begin(t, s, "increment")
    /\ UNCHANGED <<mOpenedStreamsCount, vendorStreams, deviceVars>>

OpenOutputStream(t, s, h) == OpenStream(t, s, "output", h) \/ OpenScoStubStream(t, s, h)

(* openInputStream; "the framework must not create a stream if there is no  *)
(* client": metadata without tracks is refused.                             *)
OpenInputStream(t, s, h, tracks) == tracks # 0 /\ OpenStream(t, s, "input", h)

(* Mutant of StreamOpened: the stream is not counted. *)
StreamOpenedUncounted(t) ==
    /\ step[t] = "opened"
    /\ stream' = [stream EXCEPT ![serves[t]].state = "open"]
    /\ step' = [step EXCEPT ![t] = "idle"]
    /\ UNCHANGED <<mOpenedStreamsCount, deviceVars, handleVars, serves, loaded>>

(* ++mOpenedStreamsCount *)
LoadToIncrement(t) ==
    /\ step[t] = "increment"
    /\ step' = [step EXCEPT ![t] = "opened"]
    /\ loaded' = [loaded EXCEPT ![t] = mOpenedStreamsCount]
    /\ UNCHANGED <<mOpenedStreamsCount, deviceVars, handleVars, stream, serves>>

StreamOpened(t) ==
    /\ step[t] = "opened"
    /\ mOpenedStreamsCount' = loaded[t] + 1
    /\ stream' = [stream EXCEPT ![serves[t]].state = "open"]
    /\ step' = [step EXCEPT ![t] = "idle"]
    /\ UNCHANGED <<deviceVars, handleVars, serves, loaded>>

-----------------------------------------------------------------------------
(* Mutant of CloseHandle: a stub stays in gScoStubStreams. *)
CloseHandleOnly(s) ==
    LET h == stream[s].handle IN
    /\ vendorStreams' = IF h \in gScoStubStreams THEN vendorStreams ELSE vendorStreams \ {h}
    /\ UNCHANGED gScoStubStreams

(* closeOutputStream asks destroyScoStubStream whether the handle is a      *)
(* stub's; closeInputStream goes to the vendor's device.                    *)
CloseHandle(s) ==
    LET h == stream[s].handle IN
    IF stream[s].kind # "input" /\ h \in gScoStubStreams
    THEN gScoStubStreams' = gScoStubStreams \ {h} /\ UNCHANGED vendorStreams
    ELSE vendorStreams' = vendorStreams \ {h} /\ UNCHANGED gScoStubStreams

(* StreamOut::close, StreamIn::close or their destructors; only the first   *)
(* of them gets here.                                                       *)
CloseStream(t, s) ==
    /\ step[t] = "idle"
    /\ stream[s].state = "open"
    /\ CloseHandle(s)
    /\ stream' = [stream EXCEPT ![s].state = "closing"]
    /\ Begin(t, s, "decrement")
    /\ UNCHANGED <<mOpenedStreamsCount, deviceVars>>

(* LOG_ALWAYS_FATAL_IF(mOpenedStreamsCount == 0), --mOpenedStreamsCount *)
LoadToDecrement(t) ==
    /\ step[t] = "decrement"
    /\ step' = [step EXCEPT ![t] = IF mOpenedStreamsCount = 0 THEN "fatal" ELSE "closed"]
    /\ loaded' = [loaded EXCEPT ![t] = mOpenedStreamsCount]
    /\ UNCHANGED <<mOpenedStreamsCount, deviceVars, handleVars, stream, serves>>

StreamClosed(t) ==
    /\ step[t] = "closed"
    /\ mOpenedStreamsCount' = loaded[t] - 1
    /\ stream' = [stream EXCEPT ![serves[t]].state = "closed"]
    /\ step' = [step EXCEPT ![t] = "idle"]
    /\ UNCHANGED <<deviceVars, handleVars, serves, loaded>>

-----------------------------------------------------------------------------
(* The condition of doClose. *)
MayClose == ~mIsClosed /\ mOpenedStreamsCount = 0

(* close *)
CloseDevice(t) ==
    /\ Serves(t)
    /\ MayClose
    /\ mIsClosed' = TRUE
    /\ UNCHANGED <<mOpenedStreamsCount, device, handleVars, stream, threadVars>>

(* ~Device: every live stream holds a reference to the device, and so does  *)
(* a call.  doClose closes it, if that was not done.                        *)
DestroyDevice ==
    /\ device = "open"
    /\ \A t \in Threads : step[t] = "idle"
    /\ \A s \in Streams : ~Alive(s)
    /\ device' = "gone"
    /\ mIsClosed' = (mIsClosed \/ MayClose)
    /\ UNCHANGED <<mOpenedStreamsCount, handleVars, stream, threadVars>>

-----------------------------------------------------------------------------
Init ==
    /\ mOpenedStreamsCount = 0 /\ mIsClosed = FALSE /\ device = "open"
    /\ gScoStubStreams = {} /\ vendorStreams = {}
    /\ \E h \in Handles :
         stream = [s \in Streams |-> [state |-> "none", kind |-> "output", handle |-> h]]
    /\ step = [t \in Threads |-> "idle"]
    /\ serves = [t \in Threads |-> NoStream]
    /\ loaded = [t \in Threads |-> 0]

Call(t) ==
    \/ \E s \in Streams, h \in Handles :
         \/ OpenOutputStream(t, s, h)
         \/ \E tracks \in 0..1 : OpenInputStream(t, s, h, tracks)
    \/ LoadToIncrement(t) \/ StreamOpened(t)
    \/ \E s \in Streams : CloseStream(t, s)
    \/ LoadToDecrement(t) \/ StreamClosed(t)
    \/ CloseDevice(t)

Next == (\E t \in Threads : Call(t)) \/ DestroyDevice

Spec == Init /\ [][Next]_vars

-----------------------------------------------------------------------------
(* Properties.  They are about calls that are served one at a time, unless  *)
(* they say otherwise.                                                      *)

(* The variables keep their types; the count is never negative. *)
TypeOK ==
    /\ mOpenedStreamsCount \in Nat /\ mIsClosed \in BOOLEAN /\ device \in {"open", "gone"}
    /\ gScoStubStreams \subseteq Handles /\ vendorStreams \subseteq Handles
    /\ stream \in [Streams -> [state : {"none", "opening", "open", "closing", "closed"},
                              kind : Kinds, handle : Handles]]
    /\ step \in [Threads -> {"idle", "increment", "opened", "decrement", "closed", "fatal"}]
    /\ serves \in [Threads -> Streams \cup {NoStream}]
    /\ loaded \in [Threads -> Nat]

(* Between calls the count is the number of open streams; so the doClose of  *)
(* the destructor, whose result is ignored, never refuses, and a device that *)
(* is gone was closed.                                                       *)
OpenStreams == {s \in Streams : stream[s].state = "open"}

CountExact ==
    /\ (\A t \in Threads : step[t] = "idle") => mOpenedStreamsCount = Cardinality(OpenStreams)
    /\ device = "gone" => mIsClosed

(* Every handle is closed by whoever opened it, and once: the vendor's       *)
(* device has exactly its own streams open and the stubs are exactly the     *)
(* live ones, even when an address is used again.  This holds for any        *)
(* number of threads.                                                        *)
HandlesMatch ==
    /\ vendorStreams = HandlesOf({"output", "input"})
    /\ gScoStubStreams = HandlesOf({"stub"})

=============================================================================
