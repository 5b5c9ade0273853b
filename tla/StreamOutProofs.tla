--------------------------- MODULE StreamOutProofs ---------------------------
(***************************************************************************)
(* The protocol of the output stream and the end of its life, proved for   *)
(* any number of samples and commands and any size of the queues.          *)
(***************************************************************************)
EXTENDS StreamOut, TLAPS

-----------------------------------------------------------------------------
(* Until the stream is closed the client and the WriteThread take turns: a   *)
(* command is on its way, being served, or answered, and the queues and the  *)
(* bits are those of that phase and no other.                                *)
Quiet == mStatusMQ = <<>> /\ "NOT_FULL" \notin flags

Asleep == thread \in {"none", "checking", "waiting"}

Taken == mCommandMQ = <<>> /\ mStatus.replyTo = command /\ "NOT_EMPTY" \notin flags

NotAnnounced ==
    /\ client \in {"ready", "filling", "waking"}
    /\ Quiet /\ Asleep /\ "NOT_EMPTY" \notin flags
    /\ mCommandMQ = IF client = "ready" THEN <<>> ELSE <<command>>

Announced ==
    /\ client = "waiting" /\ Quiet /\ mCommandMQ = <<command>>
    /\ IF "NOT_EMPTY" \in flags THEN Asleep ELSE thread = "reading"

Served ==
    client = "waiting" /\ Taken /\ Quiet /\ thread \in {"writing", "asking", "replying"}

Answered ==
    /\ client = "waiting" /\ Taken /\ mStatusMQ = <<mStatus>>
    /\ IF "NOT_FULL" \in flags THEN Asleep ELSE thread = "waking"

StatusRecord ==
    mStatus = [replyTo |-> mStatus.replyTo, retval |-> mStatus.retval, written |-> mStatus.written]

(* The inductive invariant of the protocol. *)
ProtocolInv ==
    /\ StatusRecord
    /\ prepared <=> thread # "none"
    /\ client # "ready" => prepared
    /\ ~mStopWriteThread => NotAnnounced \/ Announced \/ Served \/ Answered

LEMMA ProtocolInit == Init => ProtocolInv
BY DEF Init, ProtocolInv, StatusRecord, NoStatus, NotAnnounced, Quiet, Asleep

LEMMA ClientKeepsProtocol == ProtocolInv /\ ClientThread => ProtocolInv'
<1> SUFFICES ASSUME ProtocolInv, ClientThread PROVE ProtocolInv'
  OBVIOUS
<1> USE DEF ProtocolInv, StatusRecord, NotAnnounced, Announced, Served, Answered, Quiet, Asleep,
            Taken, ClientStep, threadVars, objectVars
<1>1. CASE \E c \in Commands : SendCommand(c)
  BY <1>1 DEF SendCommand, ClientMaySend
<1>2. CASE SendData
  BY <1>2 DEF SendData
<1>3. CASE WakeThread
  BY <1>3 DEF WakeThread
<1>4. CASE ReadStatus
  BY <1>4 DEF ReadStatus
<1> QED BY <1>1, <1>2, <1>3, <1>4 DEF ClientThread

LEMMA ThreadKeepsProtocol ==
    ProtocolInv /\ (ThreadLoop \/ WaitReturnsWithoutFlag) => ProtocolInv'
<1> SUFFICES ASSUME ProtocolInv, ThreadLoop \/ WaitReturnsWithoutFlag PROVE ProtocolInv'
  OBVIOUS
<1> USE DEF ProtocolInv, StatusRecord, NotAnnounced, Announced, Served, Answered, Quiet, Asleep,
            Taken, ThreadStep, objectVars, clientVars
<1>1. CASE CheckStop
  BY <1>1 DEF CheckStop
<1>2. CASE WaitReturns
  BY <1>2 DEF WaitReturns
<1>3. CASE ReadCommand
  BY <1>3 DEF ReadCommand, CommandRead, Received
<1>4. CASE VendorWrites
  BY <1>4 DEF VendorWrites
<1>5. CASE VendorAnswers
  BY <1>5 DEF VendorAnswers
<1>6. CASE WriteStatus
  BY <1>6 DEF WriteStatus
<1>7. CASE WakeClient
  BY <1>7 DEF WakeClient
<1>8. CASE WaitReturnsWithoutFlag
  BY <1>8 DEF WaitReturnsWithoutFlag
<1> QED BY <1>1, <1>2, <1>3, <1>4, <1>5, <1>6, <1>7, <1>8 DEF ThreadLoop

LEMMA ProtocolStep == ProtocolInv /\ [Next]_vars => ProtocolInv'
<1> SUFFICES ASSUME ProtocolInv, [Next]_vars PROVE ProtocolInv'
  OBVIOUS
<1>1. CASE PrepareForWriting
  BY <1>1 DEF PrepareForWriting, ProtocolInv, StatusRecord, NotAnnounced, Announced, Served,
              Answered, Quiet, Asleep, Taken, objectVars, clientVars
<1>2. CASE Close \/ Destroy
  BY <1>2 DEF Close, Destroy, StopThread, ProtocolInv, StatusRecord, NotAnnounced, Announced,
              Served, Answered, Quiet, Asleep, Taken, threadVars, clientVars
<1>3. CASE UNCHANGED <<queueVars, threadVars, mStopWriteThread, clientVars>>
  BY <1>3 DEF ProtocolInv, StatusRecord, NotAnnounced, Announced, Served, Answered, Quiet, Asleep,
              Taken, queueVars, threadVars, clientVars
<1>4. ASSUME NEW kind \in CallbackKinds,
             SetCallback(kind) \/ CallbackEntered(kind) \/ CallbackReturns(kind)
      PROVE  ProtocolInv'
  BY <1>3, <1>4 DEF SetCallback, CallbackEntered, CallbackReturns, objectVars
<1>5. CASE VendorStopsCallbacks \/ CloseReturns \/ Destroyed \/ UNCHANGED vars
  BY <1>3, <1>5 DEF VendorStopsCallbacks, CloseReturns, Destroyed, vars, objectVars
<1> QED BY <1>1, <1>2, <1>4, <1>5, ClientKeepsProtocol, ThreadKeepsProtocol
        DEF Next, Binder, Callbacks

(* Every command gets one status, its own, whatever the sizes.               *)
THEOREM OneReplyAlways == Spec => []OneReplyPerCommand
<1>1. ProtocolInv => OneReplyPerCommand
  BY DEF ProtocolInv, NotAnnounced, Announced, Served, Answered, Quiet, Asleep, Taken,
         OneReplyPerCommand
<1> QED BY ProtocolInit, ProtocolStep, <1>1, PTL DEF Spec

-----------------------------------------------------------------------------
(* The end of the stream's life: it is closed before the thread is joined,   *)
(* and a closed stream of the vendor's makes no callback.                    *)
LifeInv ==
    /\ mStream = "closed" => registered = {} /\ delivering = {}
    /\ mStopWriteThread /\ call # "closing" => mStream = "closed"
    /\ call \in {"closing", "joining"} => mStopWriteThread
    /\ object = "gone" => /\ mStopWriteThread /\ call = "none"
                          /\ thread \in {"none", "exited"}

LEMMA LifeInit == Init => LifeInv
BY DEF Init, LifeInv

LEMMA LifeStep == LifeInv /\ [Next]_vars => LifeInv'
<1> SUFFICES ASSUME LifeInv, [Next]_vars PROVE LifeInv'
  OBVIOUS
<1> USE DEF LifeInv
<1>1. CASE ClientThread
  BY <1>1 DEF ClientThread, SendCommand, SendData, WakeThread, ReadStatus, ClientStep, threadVars,
              streamVars, objectVars, callbackVars
<1>2. CASE ThreadLoop \/ WaitReturnsWithoutFlag
  <2>1. thread \notin {"none", "exited"} /\ ThreadStep
    BY <1>2 DEF ThreadLoop, WaitReturnsWithoutFlag, CheckStop, WaitReturns, ReadCommand,
                VendorWrites, VendorAnswers, WriteStatus, WakeClient
  <2> QED BY <2>1 DEF ThreadStep, objectVars, callbackVars
<1>3. CASE PrepareForWriting
  BY <1>3 DEF PrepareForWriting, CallMade, streamVars, objectVars, callbackVars
<1>4. CASE \E kind \in CallbackKinds : SetCallback(kind)
  BY <1>4 DEF SetCallback, CallMade, streamVars, objectVars, threadVars
<1>5. CASE Close
  BY <1>5 DEF Close, CallMade, StopThread, streamVars, threadVars, callbackVars
<1>6. CASE VendorStopsCallbacks
  BY <1>6 DEF VendorStopsCallbacks, streamVars, threadVars, objectVars
<1>7. CASE CloseReturns
  BY <1>7 DEF CloseReturns, threadVars, callbackVars
<1>8. CASE Destroy
  BY <1>8 DEF Destroy, CallMade, StopThread, streamVars, threadVars, callbackVars
<1>9. CASE Destroyed
  BY <1>9 DEF Destroyed, threadVars, streamVars, callbackVars
<1>10. CASE Callbacks
  BY <1>10 DEF Callbacks, CallbackEntered, CallbackReturns, streamVars, threadVars, objectVars
<1>11. CASE UNCHANGED vars
  BY <1>11 DEF vars, streamVars, threadVars, objectVars, callbackVars
<1> QED BY <1>1, <1>2, <1>3, <1>4, <1>5, <1>6, <1>7, <1>8, <1>9, <1>10, <1>11 DEF Next, Binder

(* No thread runs, and the vendor makes no callback, on a stream that is     *)
(* gone.                                                                     *)
THEOREM OutlivesItsThreadsAlways == Spec => []OutlivesItsThreads
<1>1. LifeInv => OutlivesItsThreads
  BY DEF LifeInv, OutlivesItsThreads
<1> QED BY LifeInit, LifeStep, <1>1, PTL DEF Spec

-----------------------------------------------------------------------------
(* The samples.  A command and its status are matched even after close, when *)
(* the thread may serve a command that was not announced yet, but no other   *)
(* after it.  What has been played and not yet confirmed is in the status    *)
(* that is being made or waits, and what is in the data queue goes on where  *)
(* the client was told it is, unless the stream is closed.                   *)
RunOf(n) == [i \in 1..n |-> sent + i]

(* What a WRITE that is on its way has in the data queue. *)
Queued ==
    IF client \in {"waking", "waiting"} /\ command = "WRITE"
    THEN \E n \in 0..QueueSize : mDataMQ = RunOf(n)
    ELSE mDataMQ = <<>>

Unserved ==
    /\ mCommandMQ = IF client = "ready" THEN <<>> ELSE <<command>>
    /\ Quiet /\ thread \in {"none", "checking", "waiting", "reading", "exited"}
    /\ Len(played) = sent
    /\ mCommandMQ # <<>> \/ ~mStopWriteThread => Queued

ServedNow == client # "ready" /\ mCommandMQ = <<>> /\ mStatus.replyTo = command

Reported ==
    Len(played) = sent + IF command = "WRITE" /\ mStatus.retval = "OK" THEN mStatus.written ELSE 0

BeingWritten ==
    /\ thread = "writing" /\ command = "WRITE" /\ mStatus.retval = "OK"
    /\ Len(played) = sent
    /\ \E n \in 0..QueueSize : mBuffer = RunOf(n)

BeingAsked == thread = "asking" /\ command # "WRITE" /\ Len(played) = sent

BeingServed ==
    ServedNow /\ Quiet /\ (BeingWritten \/ BeingAsked \/ (thread = "replying" /\ Reported))

StatusSent ==
    /\ ServedNow /\ Reported /\ mStatusMQ = <<mStatus>>
    /\ IF "NOT_FULL" \in flags THEN thread \in {"checking", "waiting", "reading", "exited"}
       ELSE thread = "waking"

(* The inductive invariant of the samples. *)
SamplesInv ==
    /\ sent \in Nat /\ mStatus.written \in Nat /\ played \in Seq(Nat)
    /\ client = "filling" => command = "WRITE"
    /\ Unserved \/ BeingServed \/ StatusSent
    /\ ~mStopWriteThread /\ ~Unserved => mDataMQ = <<>>

AbstractNext == [Transfer!Next]_<<played, sent>>

LEMMA SamplesInit == Init => SamplesInv /\ Transfer!Init
BY DEF Init, SamplesInv, Unserved, Queued, Quiet, NoStatus, Transfer!Init

(* A step of another actor, of the client before it reads the status and of  *)
(* the thread's loop around the commands moves no sample.                    *)
LEMMA ClientSamples ==
    ProtocolInv /\ SamplesInv /\ ClientThread => SamplesInv' /\ AbstractNext
<1> SUFFICES ASSUME ProtocolInv, SamplesInv, ClientThread PROVE SamplesInv' /\ AbstractNext
  OBVIOUS
<1> USE DEF ClientStep, threadVars, streamVars, objectVars
<1>1. ASSUME NEW c \in Commands, SendCommand(c) PROVE SamplesInv' /\ AbstractNext
  <2>1. Unserved
    BY <1>1 DEF SendCommand, ClientMaySend, SamplesInv, BeingServed, StatusSent, ServedNow
  <2>2. Unserved' /\ UNCHANGED <<sent, mStatus, played>>
    BY <1>1, <2>1 DEF SendCommand, ClientMaySend, Unserved, Queued, Quiet
  <2> QED BY <1>1, <2>2 DEF SendCommand, SamplesInv, AbstractNext
<1>2. CASE SendData
  <2>1. PICK n \in 1..(QueueSize - Len(mDataMQ)) :
            mDataMQ' = mDataMQ \o [i \in 1..n |-> sent + i]
    BY <1>2 DEF SendData
  <2>2. UNCHANGED <<sent, mStatus, played>>
    BY <1>2 DEF SendData
  <2>3. CASE Unserved
    <3>1. mDataMQ = <<>>
      BY <1>2, <2>3 DEF SendData, Unserved, Queued
    <3>2. mDataMQ' = RunOf(n)' /\ n \in 0..QueueSize
      BY <2>1, <2>2, <3>1, ConstantsAssumption DEF RunOf, SamplesInv
    <3>3. Unserved'
      BY <1>2, <2>3, <3>1, <3>2 DEF SendData, Unserved, Queued, Quiet, SamplesInv
    <3> QED BY <1>2, <2>2, <3>3 DEF SendData, SamplesInv, AbstractNext
  <2>4. CASE mStopWriteThread /\ (BeingServed \/ StatusSent)
    BY <1>2, <2>2, <2>4 DEF SendData, SamplesInv, BeingServed, StatusSent, BeingWritten, BeingAsked,
                            ServedNow, Quiet, Reported, RunOf, AbstractNext
  <2>5. ~mStopWriteThread => mCommandMQ = <<command>>
    BY <1>2 DEF SendData, ProtocolInv, NotAnnounced, Announced, Served, Answered
  <2>6. ~mStopWriteThread => ~BeingServed /\ ~StatusSent
    BY <2>5, SMTT(30) DEF BeingServed, StatusSent, ServedNow
  <2> QED BY <2>3, <2>4, <2>6 DEF SamplesInv
<1>3. CASE WakeThread
  BY <1>3 DEF WakeThread, SamplesInv, Unserved, BeingServed, StatusSent, BeingWritten, BeingAsked,
              ServedNow, Quiet, Reported, RunOf, Queued, AbstractNext
<1>4. CASE ReadStatus
  <2>1. StatusSent
    BY <1>4 DEF ReadStatus, SamplesInv, Unserved, BeingServed, Quiet
  <2>2. sent' = Len(played) /\ UNCHANGED played
    BY <1>4, <2>1 DEF ReadStatus, StatusSent, ServedNow, Reported, SamplesInv
  <2>3. AbstractNext
    BY <2>2 DEF AbstractNext, Transfer!Next, Transfer!Confirm
  <2>4. Unserved' /\ sent' \in Nat /\ UNCHANGED mStatus
    BY <1>4, <2>1, <2>2 DEF ReadStatus, StatusSent, ServedNow, Unserved, Queued, Quiet, SamplesInv,
                            ProtocolInv, NotAnnounced, Announced, Served, Answered
  <2> QED BY <1>4, <2>2, <2>3, <2>4 DEF ReadStatus, SamplesInv
<1> QED BY <1>1, <1>2, <1>3, <1>4 DEF ClientThread

LEMMA ThreadSamples ==
    ProtocolInv /\ SamplesInv /\ (ThreadLoop \/ WaitReturnsWithoutFlag)
        => SamplesInv' /\ AbstractNext
<1> SUFFICES ASSUME ProtocolInv, SamplesInv, ThreadLoop \/ WaitReturnsWithoutFlag
             PROVE  SamplesInv' /\ AbstractNext
  OBVIOUS
<1> USE DEF ThreadStep, objectVars, clientVars
<1>1. CASE CheckStop \/ WaitReturns \/ WaitReturnsWithoutFlag \/ WakeClient
  BY <1>1 DEF CheckStop, WaitReturns, WaitReturnsWithoutFlag, WakeClient, SamplesInv, Unserved,
              BeingServed, StatusSent, BeingWritten, BeingAsked, ServedNow, Quiet, Reported, RunOf,
              Queued, AbstractNext
<1>2. CASE ReadCommand
  <2>1. /\ UNCHANGED <<played, sent, client, command, mStopWriteThread, mStatusMQ, flags>>
        /\ mCommandMQ' = <<>>
    BY <1>2 DEF ReadCommand
  <2>2. CASE CommandRead
    <3>1. Unserved /\ client # "ready" /\ Received = command
      BY <1>2, <2>2 DEF ReadCommand, CommandRead, SamplesInv, BeingServed, StatusSent, Unserved,
                        BeingWritten, BeingAsked, ServedNow, Received
    <3>2. /\ mStatus' = [replyTo |-> command, written |-> 0,
                         retval |-> IF command = "UNKNOWN" THEN "NOT_SUPPORTED" ELSE "OK"]
          /\ thread' = CASE command = "WRITE"   -> "writing"
                         [] command = "UNKNOWN" -> "replying"
                         [] OTHER               -> "asking"
          /\ IF command = "WRITE" THEN TakeData ELSE UNCHANGED <<mBuffer, mDataMQ>>
      BY <1>2, <2>2, <3>1 DEF ReadCommand
    <3>3. Queued /\ Quiet /\ Len(played) = sent
      BY <2>2, <3>1 DEF Unserved, CommandRead
    <3>4. mDataMQ' = <<>>
      BY <3>2, <3>3 DEF TakeData, Queued
    <3>5. CASE command = "WRITE"
      <4>1. \E n \in 0..QueueSize : mBuffer' = RunOf(n)
        <5>1. \E n \in 0..QueueSize : mDataMQ = RunOf(n)
          <6>1. CASE mDataMQ = <<>>
            <7>1. <<>> = RunOf(0) /\ 0 \in 0..QueueSize
              BY ConstantsAssumption DEF RunOf
            <7> QED BY <6>1, <7>1
          <6> QED BY <3>3, <3>5, <6>1 DEF Queued
        <5> QED BY <3>2, <3>5, <5>1 DEF TakeData
      <4> QED BY <2>1, <3>1, <3>2, <3>3, <3>4, <3>5, <4>1
              DEF SamplesInv, BeingServed, BeingWritten, ServedNow, Quiet, RunOf, AbstractNext
    <3>6. CASE command # "WRITE"
      BY <2>1, <3>1, <3>2, <3>3, <3>4, <3>6
         DEF SamplesInv, BeingServed, BeingAsked, ServedNow, Quiet, Reported, AbstractNext
    <3> QED BY <3>5, <3>6
  <2>3. CASE ~CommandRead
    BY <1>2, <2>3 DEF ReadCommand, CommandRead, SamplesInv, Unserved, BeingServed, StatusSent,
                      BeingWritten, BeingAsked, ServedNow, Quiet, Reported, Queued, RunOf,
                      AbstractNext
  <2> QED BY <2>2, <2>3
<1>3. CASE VendorWrites
  <2>1. BeingWritten /\ ServedNow /\ Quiet
    BY <1>3 DEF VendorWrites, SamplesInv, Unserved, BeingServed, StatusSent, BeingAsked
  <2>2. UNCHANGED <<sent, client, command, mStopWriteThread, mCommandMQ, mDataMQ, mStatusMQ, flags>>
        /\ thread' = "replying"
    BY <1>3 DEF VendorWrites
  <2>3. CASE UNCHANGED played /\ mStatus' = [mStatus EXCEPT !.retval = "INVALID_STATE"]
    BY <2>1, <2>2, <2>3 DEF SamplesInv, BeingWritten, BeingServed, ServedNow, Quiet, Reported,
                            ProtocolInv, StatusRecord, AbstractNext, Unserved
  <2>4. ASSUME NEW n \in 0..Len(mBuffer), played' = played \o SubSeq(mBuffer, 1, n),
               mStatus' = [mStatus EXCEPT !.written = n]
        PROVE  SamplesInv' /\ AbstractNext
    <3>1. PICK m \in 0..QueueSize : mBuffer = RunOf(m)
      BY <2>1 DEF BeingWritten
    <3>2. n \in 0..m /\ n \in Nat /\ SubSeq(mBuffer, 1, n) = RunOf(n)
      BY <3>1, ConstantsAssumption DEF RunOf, SamplesInv
    <3>3. RunOf(n) \in Seq(Nat) /\ Len(RunOf(n)) = n
      BY <3>2 DEF RunOf, SamplesInv
    <3>4. played' \in Seq(Nat) /\ Len(played') = sent + n
      BY <2>1, <2>4, <3>2, <3>3 DEF SamplesInv, BeingWritten
    <3>5. mStatus'.written = n /\ mStatus'.retval = mStatus.retval
          /\ mStatus'.replyTo = mStatus.replyTo
      BY <2>4 DEF ProtocolInv, StatusRecord
    <3>6. SamplesInv'
      BY <2>1, <2>2, <3>2, <3>4, <3>5
         DEF SamplesInv, BeingServed, BeingWritten, ServedNow, Quiet, Reported, Unserved
    <3>7. CASE n = 0
      <4>1. RunOf(0) = <<>>
        BY DEF RunOf
      <4>2. played' = played
        BY <2>4, <3>2, <3>7, <4>1 DEF SamplesInv
      <4> QED BY <2>2, <3>6, <4>2 DEF AbstractNext
    <3>8. CASE n # 0
      <4>1. n \in 1..QueueSize
        BY <3>2, <3>8, ConstantsAssumption
      <4>2. played' = played \o [i \in 1..n |-> Len(played) + i] /\ sent = Len(played)
        BY <2>1, <2>4, <3>2 DEF RunOf, BeingWritten
      <4> QED BY <2>2, <3>6, <4>1, <4>2 DEF AbstractNext, Transfer!Next, Transfer!Take
    <3> QED BY <3>7, <3>8
  <2> QED BY <1>3, <2>3, <2>4 DEF VendorWrites
<1>4. CASE VendorAnswers
  BY <1>4 DEF VendorAnswers, SamplesInv, Unserved, BeingServed, StatusSent, BeingWritten,
              BeingAsked, ServedNow, Quiet, Reported, ProtocolInv, StatusRecord, AbstractNext
<1>5. CASE WriteStatus
  BY <1>5 DEF WriteStatus, SamplesInv, Unserved, BeingServed, StatusSent, BeingWritten,
              BeingAsked, ServedNow, Quiet, Reported, AbstractNext
<1> QED BY <1>1, <1>2, <1>3, <1>4, <1>5 DEF ThreadLoop

LEMMA SamplesStep == ProtocolInv /\ SamplesInv /\ [Next]_vars => SamplesInv' /\ AbstractNext
<1> SUFFICES ASSUME ProtocolInv, SamplesInv, [Next]_vars PROVE SamplesInv' /\ AbstractNext
  OBVIOUS
<1> USE DEF SamplesInv, Unserved, BeingServed, StatusSent, BeingWritten, BeingAsked, ServedNow,
            Quiet, Reported, RunOf, Queued, AbstractNext
<1>1. CASE PrepareForWriting
  BY <1>1 DEF PrepareForWriting, ProtocolInv, streamVars, objectVars, clientVars
<1>2. CASE Close \/ Destroy
  BY <1>2 DEF Close, Destroy, StopThread, threadVars, streamVars, clientVars
<1>3. CASE UNCHANGED <<queueVars, threadVars, played, mStopWriteThread, clientVars>>
  BY <1>3 DEF queueVars, threadVars, clientVars
<1>4. ASSUME NEW kind \in CallbackKinds,
             SetCallback(kind) \/ CallbackEntered(kind) \/ CallbackReturns(kind)
      PROVE  SamplesInv' /\ AbstractNext
  BY <1>3, <1>4 DEF SetCallback, CallbackEntered, CallbackReturns, streamVars, objectVars
<1>5. CASE VendorStopsCallbacks \/ CloseReturns \/ Destroyed \/ UNCHANGED vars
  BY <1>3, <1>5 DEF VendorStopsCallbacks, CloseReturns, Destroyed, vars, streamVars, objectVars
<1> QED BY <1>1, <1>2, <1>4, <1>5, ClientSamples, ThreadSamples DEF Next, Binder, Callbacks

(* The stream implements AudioTransfer: whatever the sizes, and whenever it  *)
(* is closed, the vendor's stream gets the samples in order, none twice and  *)
(* none left out, and the client counts what was accepted before it goes on. *)
THEOREM SamplesAlwaysTransferred == Spec => SamplesTransferred
<1>1. ProtocolInv /\ SamplesInv /\ [Next]_vars => [Transfer!Next]_<<played, sent>>
  BY SamplesStep DEF AbstractNext
<1> QED BY ProtocolInit, ProtocolStep, SamplesInit, SamplesStep, <1>1, PTL
        DEF Spec, SamplesTransferred, Transfer!Spec
=============================================================================
