------------------------------ MODULE StreamIn ------------------------------
(***************************************************************************)
(* An input stream of the audio HAL (audio/impl/StreamIn.cpp): the client  *)
(* asks for samples through a command queue, the ReadThread reads them     *)
(* from the vendor's stream and passes them on in the data queue.  The     *)
(* client may leave samples in the data queue, and asks for them again;    *)
(* the thread then reads no more than fits.                                *)
(*                                                                         *)
(* Actors as in StreamOut: the client's reading thread (external), its     *)
(* binder calls one at a time, and the ReadThread.  Samples are numbered   *)
(* as the vendor's stream captures them.                                   *)
(***************************************************************************)
EXTENDS Naturals, Sequences

CONSTANTS
    MaxSamples,       \* bound on the samples captured
    QueueSize,        \* frameSize * framesCount, in samples
    MaxRequest,       \* the most a client asks for at once
    MaxQueries,       \* bound on the commands that are not READ
    ReadMayFail       \* whether the vendor's read may return an error

ASSUME ConstantsAssumption ==
    /\ MaxSamples \in Nat /\ QueueSize \in Nat \ {0} /\ MaxRequest \in Nat \ {0}
    /\ MaxQueries \in Nat
    /\ ReadMayFail \in BOOLEAN

VARIABLES
    \* The queues and the flag bits of mEfGroup; mDataMQ # nullptr is prepared.
    prepared, mCommandMQ, mDataMQ, mStatusMQ, flags,
    mStopReadThread,
    \* The ReadThread: where it is, its parameters and the status to send.
    thread, mParameters, mStatus,
    \* The vendor's stream, and how many samples were read from it.
    mStream, captured,
    \* The binder call under way, and whether the object is still there.
    call, object,
    \* The client's reading thread: its step, its command, what it was told
    \* and the samples it has.
    client, command, told, received, queries

queueVars  == <<prepared, mCommandMQ, mDataMQ, mStatusMQ, flags>>
threadVars == <<thread, mParameters, mStatus>>
streamVars == <<mStream, captured>>
objectVars == <<call, object, mStopReadThread>>
clientVars == <<client, command, told, received, queries>>

vars == <<queueVars, threadVars, streamVars, objectVars, clientVars>>

-----------------------------------------------------------------------------
Parameters == [command : {"READ"}, read : 1..MaxRequest]
              \cup [command : {"GET_CAPTURE_POSITION", "UNKNOWN"}, read : {0}]
Results    == {"OK", "NOT_SUPPORTED", "INVALID_STATE"}
NoCommand  == [command |-> "UNKNOWN", read |-> 0]

InVendorStream == thread \in {"reading", "asking"}

-----------------------------------------------------------------------------
(* The client's reading thread: the command, then NOT_FULL, and once        *)
(* NOT_EMPTY is set the status, and as much of the data as it likes.        *)

ClientStep == UNCHANGED <<prepared, threadVars, streamVars, objectVars>>

SendCommand(c) ==
    /\ client = "ready" /\ prepared /\ object = "live" /\ call = "none" /\ ~mStopReadThread
    /\ mCommandMQ = <<>>
    /\ IF c.command = "READ" THEN captured < MaxSamples /\ UNCHANGED queries
       ELSE queries < MaxQueries /\ queries' = queries + 1
    /\ mCommandMQ' = <<c>>
    /\ command' = c.command
    /\ client' = "waking"
    /\ UNCHANGED <<mDataMQ, mStatusMQ, flags, told, received>>
    /\ ClientStep

WakeThread ==
    /\ client = "waking"
    /\ client' = "waiting"
    /\ flags' = flags \cup {"NOT_FULL"}
    /\ UNCHANGED <<mCommandMQ, mDataMQ, mStatusMQ, command, told, received, queries>>
    /\ ClientStep

ReadStatus ==
    /\ client = "waiting"
    /\ "NOT_EMPTY" \in flags
    /\ flags' = flags \ {"NOT_EMPTY"}
    /\ mStatusMQ # <<>>
    /\ mStatusMQ' = Tail(mStatusMQ)
    /\ IF command = "READ" /\ Head(mStatusMQ).retval = "OK"
       THEN /\ told' = told + Head(mStatusMQ).read
            /\ \E n \in 0..Len(mDataMQ) :
                 /\ received' = received \o SubSeq(mDataMQ, 1, n)
                 /\ mDataMQ' = SubSeq(mDataMQ, n + 1, Len(mDataMQ))
       ELSE UNCHANGED <<told, received, mDataMQ>>
    /\ client' = "ready"
    /\ UNCHANGED <<mCommandMQ, command, queries>>
    /\ ClientStep

-----------------------------------------------------------------------------
(* ReadThread::threadLoop, one action per step the other actors can see. *)

ThreadStep == UNCHANGED <<prepared, mStream, objectVars, clientVars>>

CheckStop ==
    /\ thread = "checking"
    /\ thread' = IF mStopReadThread THEN "exited" ELSE "waiting"
    /\ UNCHANGED <<mCommandMQ, mDataMQ, mStatusMQ, flags, mParameters, mStatus, captured>>
    /\ ThreadStep

(* mEfGroup->wait returns with the bit, which it clears ... *)
WaitReturns ==
    /\ thread = "waiting"
    /\ "NOT_FULL" \in flags
    /\ flags' = flags \ {"NOT_FULL"}
    /\ thread' = "taking"
    /\ UNCHANGED <<mCommandMQ, mDataMQ, mStatusMQ, mParameters, mStatus, captured>>
    /\ ThreadStep

(* Mutant of WaitReturnsWithoutFlag: what the wait returned is not looked at. *)
GoOnWithoutFlag ==
    /\ thread = "waiting"
    /\ "NOT_FULL" \notin flags
    /\ thread' = "taking"
    /\ UNCHANGED <<mCommandMQ, mDataMQ, mStatusMQ, flags, mParameters, mStatus, captured>>
    /\ ThreadStep

(* ... or without it: there is nothing to do. *)
WaitReturnsWithoutFlag ==
    /\ thread = "waiting"
    /\ "NOT_FULL" \notin flags
    /\ thread' = "checking"
    /\ UNCHANGED <<mCommandMQ, mDataMQ, mStatusMQ, flags, mParameters, mStatus, captured>>
    /\ ThreadStep

CommandRead == mCommandMQ # <<>>

(* What mCommandMQ->read leaves in mParameters. *)
Received == IF mCommandMQ # <<>> THEN Head(mCommandMQ) ELSE mParameters

ReadCommand ==
    /\ thread = "taking"
    /\ IF CommandRead
       THEN /\ mParameters' = Received
            /\ mStatus' = [mStatus EXCEPT
                             !.replyTo = Received.command,
                             !.retval = IF Received.command = "UNKNOWN" THEN "NOT_SUPPORTED"
                                        ELSE "OK"]
            /\ thread' = CASE Received.command = "READ"    -> "reading"
                           [] Received.command = "UNKNOWN" -> "replying"
                           [] OTHER                        -> "asking"
       ELSE thread' = "checking" /\ UNCHANGED <<mParameters, mStatus>>
    /\ mCommandMQ' = <<>>
    /\ UNCHANGED <<mDataMQ, mStatusMQ, flags, captured>>
    /\ ThreadStep

(* Mutant of RequestedToRead: it is not truncated to the room in the queue. *)
RequestedInFull == mParameters.read

RequestedToRead ==
    LET availableToWrite == QueueSize - Len(mDataMQ) IN
    IF mParameters.read > availableToWrite THEN availableToWrite ELSE mParameters.read

(* doRead: the vendor's stream delivers at most what is requested, or       *)
(* fails and leaves the count of the last reply; what does not fit into the *)
(* data queue is lost.                                                      *)
VendorReads ==
    /\ thread = "reading"
    /\ thread' = "replying"
    /\ \/ \E n \in 0..RequestedToRead :
            /\ captured + n <= MaxSamples
            /\ captured' = captured + n
            /\ mStatus' = [mStatus EXCEPT !.read = n]
            /\ mDataMQ' = IF Len(mDataMQ) + n <= QueueSize
                          THEN mDataMQ \o [i \in 1..n |-> captured + i]
                          ELSE mDataMQ
       \/ /\ ReadMayFail
          /\ mStatus' = [mStatus EXCEPT !.retval = "INVALID_STATE"]
          /\ UNCHANGED <<captured, mDataMQ>>
    /\ UNCHANGED <<mCommandMQ, mStatusMQ, flags, mParameters>>
    /\ ThreadStep

(* doGetCapturePosition *)
VendorAnswers ==
    /\ thread = "asking"
    /\ thread' = "replying"
    /\ \E r \in Results : mStatus' = [mStatus EXCEPT !.retval = r]
    /\ UNCHANGED <<mCommandMQ, mDataMQ, mStatusMQ, flags, mParameters, captured>>
    /\ ThreadStep

(* The status is queued if the queue, of one entry, has room. *)
WriteStatus ==
    /\ thread = "replying"
    /\ thread' = "waking"
    /\ mStatusMQ' = IF mStatusMQ = <<>> THEN <<mStatus>> ELSE mStatusMQ
    /\ UNCHANGED <<mCommandMQ, mDataMQ, flags, mParameters, mStatus, captured>>
    /\ ThreadStep

(* Mutant of WakeClient: the bit the client itself sets is set. *)
WakeItself ==
    /\ thread = "waking"
    /\ thread' = "checking"
    /\ flags' = flags \cup {"NOT_FULL"}
    /\ UNCHANGED <<mCommandMQ, mDataMQ, mStatusMQ, mParameters, mStatus, captured>>
    /\ ThreadStep

WakeClient ==
    /\ thread = "waking"
    /\ thread' = "checking"
    /\ flags' = flags \cup {"NOT_EMPTY"}
    /\ UNCHANGED <<mCommandMQ, mDataMQ, mStatusMQ, mParameters, mStatus, captured>>
    /\ ThreadStep

-----------------------------------------------------------------------------
(* Binder calls. *)

CallMade == object = "live" /\ call = "none"

(* prepareForReading; what it refuses, and the failures it undoes, leave    *)
(* everything as it was.  A closed stream can still be prepared.            *)
PrepareForReading ==
    /\ CallMade
    /\ ~prepared
    /\ prepared' = TRUE
    /\ thread' = "checking"
    /\ UNCHANGED <<mCommandMQ, mDataMQ, mStatusMQ, flags, mParameters, mStatus, streamVars,
                   objectVars, clientVars>>

(* Mutant of StopThread: the thread is woken but not told to stop. *)
WakeOnly ==
    /\ UNCHANGED mStopReadThread
    /\ flags' = IF prepared THEN flags \cup {"NOT_FULL"} ELSE flags

StopThread ==
    /\ mStopReadThread' = TRUE
    /\ flags' = IF prepared THEN flags \cup {"NOT_FULL"} ELSE flags

(* close: the thread is told to stop and is woken, and the vendor's stream  *)
(* is closed without waiting for the thread.                                *)
Close ==
    /\ CallMade
    /\ ~mStopReadThread
    /\ StopThread
    /\ mStream' = "closed"
    /\ UNCHANGED <<prepared, mCommandMQ, mDataMQ, mStatusMQ, threadVars, captured, call,
                   object, clientVars>>

(* ~StreamIn: close, if that was not done ... *)
Destroy ==
    /\ CallMade
    /\ object' = "destroying"
    /\ call' = "joining"
    /\ mStream' = "closed"
    /\ IF mStopReadThread THEN UNCHANGED <<flags, mStopReadThread>> ELSE StopThread
    /\ UNCHANGED <<prepared, mCommandMQ, mDataMQ, mStatusMQ, threadVars, captured,
                   clientVars>>

(* ... then the thread is joined, and the members are destroyed. *)
Destroyed ==
    /\ call = "joining"
    /\ thread \in {"none", "exited"}
    /\ object' = "gone" /\ call' = "none"
    /\ UNCHANGED <<queueVars, threadVars, streamVars, mStopReadThread, clientVars>>

-----------------------------------------------------------------------------
Init ==
    /\ prepared = FALSE /\ mCommandMQ = <<>> /\ mDataMQ = <<>> /\ mStatusMQ = <<>>
    /\ flags = {} /\ mStopReadThread = FALSE
    /\ thread = "none" /\ mParameters = NoCommand
    /\ mStatus = [replyTo |-> "UNKNOWN", retval |-> "OK", read |-> 0]
    /\ mStream = "open" /\ captured = 0
    /\ call = "none" /\ object = "live"
    /\ client = "ready" /\ command = "UNKNOWN" /\ told = 0 /\ received = <<>> /\ queries = 0

ClientThread == (\E c \in Parameters : SendCommand(c)) \/ WakeThread \/ ReadStatus

ThreadLoop ==
    \/ CheckStop \/ WaitReturns \/ ReadCommand
    \/ VendorReads \/ VendorAnswers \/ WriteStatus \/ WakeClient

Binder == PrepareForReading \/ Close \/ Destroy \/ Destroyed

Next == ClientThread \/ ThreadLoop \/ WaitReturnsWithoutFlag \/ Binder

Spec == Init /\ [][Next]_vars

(* As for StreamOut: only what is under way must go on. *)
Fairness ==
    /\ WF_vars(ThreadLoop)
    /\ WF_vars(WakeThread) /\ WF_vars(ReadStatus)
    /\ WF_vars(Destroyed)

FairSpec == Spec /\ Fairness

-----------------------------------------------------------------------------
(* Properties. *)

Statuses == [replyTo : {"READ", "GET_CAPTURE_POSITION", "UNKNOWN"}, retval : Results,
             read : 0..QueueSize]

(* The variables keep their types; the data queue never overflows. *)
TypeOK ==
    /\ prepared \in BOOLEAN /\ mStopReadThread \in BOOLEAN
    /\ mCommandMQ \in Seq(Parameters) /\ Len(mCommandMQ) <= 1
    /\ mDataMQ \in Seq(Nat) /\ Len(mDataMQ) <= QueueSize
    /\ mStatusMQ \in Seq(Statuses) /\ Len(mStatusMQ) <= 1
    /\ flags \subseteq {"NOT_EMPTY", "NOT_FULL"}
    /\ thread \in {"none", "checking", "waiting", "taking", "reading", "asking",
                   "replying", "waking", "exited"}
    /\ mParameters \in Parameters /\ mStatus \in Statuses
    /\ mStream \in {"open", "closed"} /\ captured \in 0..MaxSamples
    /\ call \in {"none", "joining"} /\ object \in {"live", "destroying", "gone"}
    /\ client \in {"ready", "waking", "waiting"}
    /\ command \in {"READ", "GET_CAPTURE_POSITION", "UNKNOWN"}
    /\ told \in 0..MaxSamples /\ received \in Seq(Nat) /\ queries \in 0..MaxQueries

(* A command gets exactly one status, its own, until the stream is closed.   *)
OneReplyPerCommand ==
    ~mStopReadThread =>
    /\ client \in {"ready", "waking"} => mStatusMQ = <<>> /\ "NOT_EMPTY" \notin flags
    /\ client = "waiting" /\ "NOT_EMPTY" \in flags =>
          mStatusMQ # <<>> /\ Head(mStatusMQ).replyTo = command
    /\ thread = "replying" => mStatusMQ = <<>> /\ mStatus.replyTo = command

(* No sample that was captured is lost, doubled or reordered on its way to   *)
(* the client, and the client is told of as many as were captured: the       *)
(* samples it has and those in the data queue implement AudioTransfer.       *)
Transfer == INSTANCE AudioTransfer WITH
                MaxBatch <- QueueSize, taken <- received \o mDataMQ, confirmed <- told

SamplesTransferred == Transfer!Spec

(* Every command that was announced is answered, unless the stream is        *)
(* closed.                                                                   *)
CommandsAnswered == client = "waiting" ~> (client = "ready" \/ mStopReadThread)

(* Dropping the stream ends: its thread stops and is joined.                 *)
DestructionEnds == object = "destroying" ~> object = "gone"

=============================================================================
