----------------------------- MODULE StreamOut ------------------------------
(***************************************************************************)
(* An output stream of the audio HAL (audio/impl/StreamOut.cpp): the       *)
(* client sends commands and samples through fast message queues, the      *)
(* WriteThread serves them and calls the vendor's stream; the client       *)
(* prepares, sets callbacks on, closes and drops the stream by binder      *)
(* calls.                                                                  *)
(*                                                                         *)
(* Actors: the client's writing thread (external), its binder calls, one   *)
(* at a time ("only this thread writes", close), the WriteThread and the   *)
(* vendor's callback thread.  Samples are numbered; the client sends again *)
(* what the vendor's stream did not accept.                                *)
(***************************************************************************)
EXTENDS Naturals, Sequences

CONSTANTS
    MaxSamples,       \* bound on the samples the client has to play
    QueueSize,        \* frameSize * framesCount, in samples
    MaxQueries,       \* bound on the commands that are not WRITE
    CallbackKinds,    \* which of the callbacks "write" and "event" are used
    WriteMayFail      \* whether the vendor's write may return an error

ASSUME ConstantsAssumption ==
    /\ MaxSamples \in Nat /\ QueueSize \in Nat \ {0} /\ MaxQueries \in Nat
    /\ CallbackKinds \subseteq {"write", "event"}
    /\ WriteMayFail \in BOOLEAN

VARIABLES
    \* The queues and the flag bits of mEfGroup; mDataMQ # nullptr is prepared.
    prepared, mCommandMQ, mDataMQ, mStatusMQ, flags,
    mStopWriteThread,
    \* The WriteThread: where it is, its status to send and the data it read.
    thread, mStatus, mBuffer,
    \* The vendor's stream, and the samples it accepted.
    mStream, played,
    \* The binder call under way, and whether the object is still there.
    call, object,
    \* Callbacks the vendor's stream knows of, and those being delivered.
    registered, delivering,
    \* The client's writing thread: its step, what it has sent, was told and asked.
    client, command, sent, queries

queueVars    == <<prepared, mCommandMQ, mDataMQ, mStatusMQ, flags>>
threadVars   == <<thread, mStatus, mBuffer>>
streamVars   == <<mStream, played>>
objectVars   == <<call, object, mStopWriteThread>>
callbackVars == <<registered, delivering>>
clientVars   == <<client, command, sent, queries>>

vars == <<queueVars, threadVars, streamVars, objectVars, callbackVars, clientVars>>

-----------------------------------------------------------------------------
Commands == {"WRITE", "GET_PRESENTATION_POSITION", "GET_LATENCY", "UNKNOWN"}
Results  == {"OK", "NOT_SUPPORTED", "INVALID_STATE"}
NoStatus == [replyTo |-> "UNKNOWN", retval |-> "OK", written |-> 0]

InVendorStream == thread \in {"writing", "asking"}

-----------------------------------------------------------------------------
(* The client's writing thread: command and data first, then NOT_EMPTY, and *)
(* the status once NOT_FULL is set.                                         *)

ClientStep == UNCHANGED <<prepared, threadVars, streamVars, objectVars, callbackVars>>

ClientMaySend == client = "ready" /\ prepared /\ object = "live" /\ call = "none" /\
                 ~mStopWriteThread

SendCommand(c) ==
    /\ ClientMaySend
    /\ mCommandMQ = <<>>
    /\ IF c = "WRITE" THEN sent < MaxSamples /\ UNCHANGED queries
       ELSE queries < MaxQueries /\ queries' = queries + 1
    /\ mCommandMQ' = <<c>>
    /\ command' = c
    /\ client' = IF c = "WRITE" THEN "filling" ELSE "waking"
    /\ UNCHANGED <<mDataMQ, mStatusMQ, flags, sent>>
    /\ ClientStep

SendData ==
    /\ client = "filling"
    /\ client' = "waking"
    /\ \E n \in 1..(QueueSize - Len(mDataMQ)) :
         /\ sent + n <= MaxSamples
         /\ mDataMQ' = mDataMQ \o [i \in 1..n |-> sent + i]
    /\ UNCHANGED <<mCommandMQ, mStatusMQ, flags, command, sent, queries>>
    /\ ClientStep

WakeThread ==
    /\ client = "waking"
    /\ client' = "waiting"
    /\ flags' = flags \cup {"NOT_EMPTY"}
    /\ UNCHANGED <<mCommandMQ, mDataMQ, mStatusMQ, command, sent, queries>>
    /\ ClientStep

ReadStatus ==
    /\ client = "waiting"
    /\ "NOT_FULL" \in flags
    /\ flags' = flags \ {"NOT_FULL"}
    /\ mStatusMQ # <<>>
    /\ mStatusMQ' = Tail(mStatusMQ)
    /\ sent' = IF command = "WRITE" /\ Head(mStatusMQ).retval = "OK"
               THEN sent + Head(mStatusMQ).written ELSE sent
    /\ client' = "ready"
    /\ UNCHANGED <<mCommandMQ, mDataMQ, command, queries>>
    /\ ClientStep

-----------------------------------------------------------------------------
(* WriteThread::threadLoop, one action per step the other actors can see. *)

ThreadStep == UNCHANGED <<prepared, mStream, objectVars, callbackVars, clientVars>>

(* The loop's condition. *)
CheckStop ==
    /\ thread = "checking"
    /\ thread' = IF mStopWriteThread THEN "exited" ELSE "waiting"
    /\ UNCHANGED <<mCommandMQ, mDataMQ, mStatusMQ, flags, mStatus, mBuffer, played>>
    /\ ThreadStep

(* mEfGroup->wait returns with the bit, which it clears ... *)
WaitReturns ==
    /\ thread = "waiting"
    /\ "NOT_EMPTY" \in flags
    /\ flags' = flags \ {"NOT_EMPTY"}
    /\ thread' = "reading"
    /\ UNCHANGED <<mCommandMQ, mDataMQ, mStatusMQ, mStatus, mBuffer, played>>
    /\ ThreadStep

(* Mutant of WaitReturnsWithoutFlag: what the wait returned is not looked at. *)
GoOnWithoutFlag ==
    /\ thread = "waiting"
    /\ "NOT_EMPTY" \notin flags
    /\ thread' = "reading"
    /\ UNCHANGED <<mCommandMQ, mDataMQ, mStatusMQ, flags, mStatus, mBuffer, played>>
    /\ ThreadStep

(* ... or without it: there is nothing to do. *)
WaitReturnsWithoutFlag ==
    /\ thread = "waiting"
    /\ "NOT_EMPTY" \notin flags
    /\ thread' = "checking"
    /\ UNCHANGED <<mCommandMQ, mDataMQ, mStatusMQ, flags, mStatus, mBuffer, played>>
    /\ ThreadStep

CommandRead == mCommandMQ # <<>>

(* What mCommandMQ->read leaves in mStatus.replyTo. *)
Received == IF mCommandMQ # <<>> THEN Head(mCommandMQ) ELSE mStatus.replyTo

(* doWrite reads all the samples there are. *)
TakeData == mBuffer' = mDataMQ /\ mDataMQ' = <<>>

ReadCommand ==
    /\ thread = "reading"
    /\ IF CommandRead
       THEN /\ mStatus' = [replyTo |-> Received, written |-> 0,
                           retval |-> IF Received = "UNKNOWN" THEN "NOT_SUPPORTED" ELSE "OK"]
            /\ thread' = CASE Received = "WRITE"   -> "writing"
                           [] Received = "UNKNOWN" -> "replying"
                           [] OTHER                -> "asking"
       ELSE thread' = "checking" /\ UNCHANGED mStatus
    /\ mCommandMQ' = <<>>
    /\ IF CommandRead /\ Received = "WRITE" THEN TakeData ELSE UNCHANGED <<mBuffer, mDataMQ>>
    /\ UNCHANGED <<mStatusMQ, flags, played>>
    /\ ThreadStep

(* Mutant of VendorWrites: all that was read is reported as written. *)
VendorWritesInFull ==
    /\ thread = "writing"
    /\ thread' = "replying"
    /\ \E n \in 0..Len(mBuffer) :
         /\ played' = played \o SubSeq(mBuffer, 1, n)
         /\ mStatus' = [mStatus EXCEPT !.written = Len(mBuffer)]
    /\ UNCHANGED <<mCommandMQ, mDataMQ, mStatusMQ, flags, mBuffer>>
    /\ ThreadStep

(* doWrite: the vendor's stream accepts some of the samples, or fails. *)
VendorWrites ==
    /\ thread = "writing"
    /\ thread' = "replying"
    /\ \/ \E n \in 0..Len(mBuffer) :
            /\ played' = played \o SubSeq(mBuffer, 1, n)
            /\ mStatus' = [mStatus EXCEPT !.written = n]
       \/ /\ WriteMayFail
          /\ mStatus' = [mStatus EXCEPT !.retval = "INVALID_STATE"]
          /\ UNCHANGED played
    /\ UNCHANGED <<mCommandMQ, mDataMQ, mStatusMQ, flags, mBuffer>>
    /\ ThreadStep

(* doGetPresentationPosition and doGetLatency; only the position may fail.  *)
VendorAnswers ==
    /\ thread = "asking"
    /\ thread' = "replying"
    /\ \/ UNCHANGED mStatus
       \/ /\ mStatus.replyTo = "GET_PRESENTATION_POSITION"
          /\ \E r \in Results \ {"OK"} : mStatus' = [mStatus EXCEPT !.retval = r]
    /\ UNCHANGED <<mCommandMQ, mDataMQ, mStatusMQ, flags, mBuffer, played>>
    /\ ThreadStep

(* The status is queued if the queue, of one entry, has room. *)
WriteStatus ==
    /\ thread = "replying"
    /\ thread' = "waking"
    /\ mStatusMQ' = IF mStatusMQ = <<>> THEN <<mStatus>> ELSE mStatusMQ
    /\ UNCHANGED <<mCommandMQ, mDataMQ, flags, mStatus, mBuffer, played>>
    /\ ThreadStep

(* Mutant of WakeClient: a command that failed does not wake the client. *)
WakeClientOnSuccess ==
    /\ thread = "waking"
    /\ thread' = "checking"
    /\ flags' = IF mStatus.retval = "OK" THEN flags \cup {"NOT_FULL"} ELSE flags
    /\ UNCHANGED <<mCommandMQ, mDataMQ, mStatusMQ, mStatus, mBuffer, played>>
    /\ ThreadStep

WakeClient ==
    /\ thread = "waking"
    /\ thread' = "checking"
    /\ flags' = flags \cup {"NOT_FULL"}
    /\ UNCHANGED <<mCommandMQ, mDataMQ, mStatusMQ, mStatus, mBuffer, played>>
    /\ ThreadStep

-----------------------------------------------------------------------------
(* Binder calls. *)

CallMade == object = "live" /\ call = "none"

(* prepareForWriting; what it refuses, and the failures it undoes, leave    *)
(* everything as it was.  A closed stream can still be prepared.            *)
PrepareForWriting ==
    /\ CallMade
    /\ ~prepared
    /\ prepared' = TRUE
    /\ thread' = "checking"
    /\ UNCHANGED <<mCommandMQ, mDataMQ, mStatusMQ, flags, mStatus, mBuffer, streamVars,
                   objectVars, callbackVars, clientVars>>

(* setCallback, setEventCallback: the vendor's stream is told first; a       *)
(* callback that comes before the client's is stored finds none and returns. *)
(* Clients do this while the stream is open.                                 *)
SetCallback(kind) ==
    /\ CallMade
    /\ mStream = "open"
    /\ registered' = registered \cup {kind}
    /\ UNCHANGED <<queueVars, threadVars, streamVars, objectVars, delivering, clientVars>>

(* Mutant of StopThread: the thread is not woken. *)
StopThreadAsleep ==
    /\ mStopWriteThread' = TRUE
    /\ UNCHANGED flags

(* close, its first half: the thread is told to stop and is woken. *)
StopThread ==
    /\ mStopWriteThread' = TRUE
    /\ flags' = IF prepared THEN flags \cup {"NOT_EMPTY"} ELSE flags

(* close, by the client; a second close is refused.                         *)
Close ==
    /\ CallMade
    /\ ~mStopWriteThread
    /\ StopThread
    /\ call' = "closing"
    /\ UNCHANGED <<prepared, mCommandMQ, mDataMQ, mStatusMQ, threadVars, streamVars,
                   object, callbackVars, clientVars>>

(* close, its second half: mDevice->closeOutputStream has the vendor's      *)
(* stream make no further callbacks ...                                     *)
VendorStopsCallbacks ==
    /\ call = "closing"
    /\ registered # {}
    /\ registered' = {}
    /\ UNCHANGED <<queueVars, threadVars, streamVars, objectVars, delivering, clientVars>>

(* ... and returns when none is being delivered any more.  The destructor   *)
(* goes on.                                                                 *)
CloseReturns ==
    /\ call = "closing"
    /\ registered = {} /\ delivering = {}
    /\ mStream' = "closed"
    /\ call' = IF object = "live" THEN "none" ELSE "joining"
    /\ UNCHANGED <<queueVars, threadVars, played, object, mStopWriteThread, callbackVars,
                   clientVars>>

(* ~StreamOut, once the client has dropped the stream: close, if that was   *)
(* not done ...                                                             *)
Destroy ==
    /\ CallMade
    /\ object' = "destroying"
    /\ IF mStopWriteThread
       THEN call' = "joining" /\ UNCHANGED <<flags, mStopWriteThread>>
       ELSE call' = "closing" /\ StopThread
    /\ UNCHANGED <<prepared, mCommandMQ, mDataMQ, mStatusMQ, threadVars, streamVars,
                   callbackVars, clientVars>>

(* Mutant of Destroyed: the thread is not joined. *)
DestroyedAtOnce ==
    /\ call = "joining"
    /\ object' = "gone" /\ call' = "none"
    /\ UNCHANGED <<queueVars, threadVars, streamVars, mStopWriteThread, callbackVars,
                   clientVars>>

(* ... then the thread is joined, and the members are destroyed. *)
Destroyed ==
    /\ call = "joining"
    /\ thread \in {"none", "exited"}
    /\ object' = "gone" /\ call' = "none"
    /\ UNCHANGED <<queueVars, threadVars, streamVars, mStopWriteThread, callbackVars,
                   clientVars>>

-----------------------------------------------------------------------------
(* The vendor's callback thread: it enters asyncCallback or                 *)
(* asyncEventCallback, which loads the stored callback and calls it.        *)

CallbackEntered(kind) ==
    /\ kind \in registered \ delivering
    /\ delivering' = delivering \cup {kind}
    /\ UNCHANGED <<queueVars, threadVars, streamVars, objectVars, registered, clientVars>>

CallbackReturns(kind) ==
    /\ kind \in delivering
    /\ delivering' = delivering \ {kind}
    /\ UNCHANGED <<queueVars, threadVars, streamVars, objectVars, registered, clientVars>>

-----------------------------------------------------------------------------
Init ==
    /\ prepared = FALSE /\ mCommandMQ = <<>> /\ mDataMQ = <<>> /\ mStatusMQ = <<>>
    /\ flags = {} /\ mStopWriteThread = FALSE
    /\ thread = "none" /\ mStatus = NoStatus /\ mBuffer = <<>>
    /\ mStream = "open" /\ played = <<>>
    /\ call = "none" /\ object = "live"
    /\ registered = {} /\ delivering = {}
    /\ client = "ready" /\ command = "UNKNOWN" /\ sent = 0 /\ queries = 0

ClientThread ==
    (\E c \in Commands : SendCommand(c)) \/ SendData \/ WakeThread \/ ReadStatus

ThreadLoop ==
    \/ CheckStop \/ WaitReturns \/ ReadCommand
    \/ VendorWrites \/ VendorAnswers \/ WriteStatus \/ WakeClient

Binder ==
    \/ PrepareForWriting
    \/ \E kind \in CallbackKinds : SetCallback(kind)
    \/ Close \/ VendorStopsCallbacks \/ CloseReturns \/ Destroy \/ Destroyed

Callbacks == \E kind \in CallbackKinds : CallbackEntered(kind) \/ CallbackReturns(kind)

Next == ClientThread \/ ThreadLoop \/ WaitReturnsWithoutFlag \/ Binder \/ Callbacks

Spec == Init /\ [][Next]_vars

(* The WriteThread runs, the vendor's calls return, a client that sent a    *)
(* command goes on, calls under way return.  Nobody must send, close or     *)
(* drop anything, and no wait must return by itself.                        *)
Fairness ==
    /\ WF_vars(ThreadLoop)
    /\ WF_vars(SendData) /\ WF_vars(WakeThread) /\ WF_vars(ReadStatus)
    /\ WF_vars(VendorStopsCallbacks \/ CloseReturns) /\ WF_vars(Destroyed)
    /\ \A kind \in CallbackKinds : WF_vars(CallbackReturns(kind))

FairSpec == Spec /\ Fairness

-----------------------------------------------------------------------------
(* Properties. *)

Statuses == [replyTo : Commands, retval : Results, written : 0..QueueSize]

(* The variables keep their types. *)
TypeOK ==
    /\ prepared \in BOOLEAN /\ mStopWriteThread \in BOOLEAN
    /\ mCommandMQ \in Seq(Commands) /\ Len(mCommandMQ) <= 1
    /\ mDataMQ \in Seq(Nat) /\ Len(mDataMQ) <= QueueSize
    /\ mStatusMQ \in Seq(Statuses) /\ Len(mStatusMQ) <= 1
    /\ flags \subseteq {"NOT_EMPTY", "NOT_FULL"}
    /\ thread \in {"none", "checking", "waiting", "reading", "writing", "asking",
                   "replying", "waking", "exited"}
    /\ mStatus \in Statuses /\ mBuffer \in Seq(Nat) /\ Len(mBuffer) <= QueueSize
    /\ mStream \in {"open", "closed"} /\ played \in Seq(Nat)
    /\ call \in {"none", "closing", "joining"}
    /\ object \in {"live", "destroying", "gone"}
    /\ registered \subseteq CallbackKinds
    /\ delivering \subseteq CallbackKinds
    /\ client \in {"ready", "filling", "waking", "waiting"} /\ command \in Commands
    /\ sent \in 0..MaxSamples /\ queries \in 0..MaxQueries

(* A command gets exactly one status, its own: what the client finds when    *)
(* it is woken answers the command it sent, and nothing is left over for     *)
(* the next one.  The wake of close may have a command answered that was not *)
(* announced yet.                                                            *)
OneReplyPerCommand ==
    ~mStopWriteThread =>
    /\ client \in {"ready", "filling", "waking"} => mStatusMQ = <<>> /\ "NOT_FULL" \notin flags
    /\ client = "waiting" /\ "NOT_FULL" \in flags =>
          mStatusMQ # <<>> /\ Head(mStatusMQ).replyTo = command
    /\ thread = "replying" => mStatusMQ = <<>> /\ mStatus.replyTo = command

(* The samples are played in order, each once, and the client is told how    *)
(* many: the stream implements AudioTransfer.                                *)
Transfer == INSTANCE AudioTransfer WITH
                MaxBatch <- QueueSize, taken <- played, confirmed <- sent

SamplesTransferred == Transfer!Spec

(* "WriteThread's lifespan never exceeds StreamOut's lifespan", and the      *)
(* vendor's callbacks never find the StreamOut gone ("it is guaranteed that  *)
(* the callback thread is joined prior to exit from StreamOut's destructor").*)
OutlivesItsThreads ==
    object = "gone" => thread \in {"none", "exited"} /\ delivering = {} /\ registered = {}

(* Every command that was announced is answered, unless the stream is        *)
(* closed.                                                                   *)
CommandsAnswered == client = "waiting" ~> (client = "ready" \/ mStopWriteThread)

(* Dropping the stream ends: its thread stops and is joined.                 *)
DestructionEnds == object = "destroying" ~> object = "gone"

=============================================================================
