---------------------------- MODULE StreamInProofs ----------------------------
(***************************************************************************)
(* The protocol and the samples of the input stream, proved for any number *)
(* of samples and commands and any size of the queues.                     *)
(***************************************************************************)
EXTENDS StreamIn, SequenceTheorems, TLAPS

-----------------------------------------------------------------------------
(* Until the stream is closed the client and the ReadThread take turns: a    *)
(* command is on its way, being served, or answered, and the queues and the  *)
(* bits are those of that phase and no other.                                *)
Quiet == mStatusMQ = <<>> /\ "NOT_EMPTY" \notin flags

Asleep == thread \in {"none", "checking", "waiting"}

Pending == \E c \in Parameters : c.command = command /\ mCommandMQ = <<c>>

Taken == mCommandMQ = <<>> /\ mStatus.replyTo = command /\ "NOT_FULL" \notin flags

NotAnnounced ==
    /\ client \in {"ready", "waking"}
    /\ Quiet /\ Asleep /\ "NOT_FULL" \notin flags
    /\ IF client = "ready" THEN mCommandMQ = <<>> ELSE Pending

Announced ==
    /\ client = "waiting" /\ Quiet /\ Pending
    /\ IF "NOT_FULL" \in flags THEN Asleep ELSE thread = "taking"

Served ==
    client = "waiting" /\ Taken /\ Quiet /\ thread \in {"reading", "asking", "replying"}

Answered ==
    /\ client = "waiting" /\ Taken /\ mStatusMQ = <<mStatus>>
    /\ IF "NOT_EMPTY" \in flags THEN Asleep ELSE thread = "waking"

StatusRecord ==
    mStatus = [replyTo |-> mStatus.replyTo, retval |-> mStatus.retval, read |-> mStatus.read]

(* The inductive invariant of the protocol. *)
ProtocolInv ==
    /\ StatusRecord
    /\ prepared <=> thread # "none"
    /\ ~mStopReadThread => NotAnnounced \/ Announced \/ Served \/ Answered

LEMMA ProtocolInit == Init => ProtocolInv
BY DEF Init, ProtocolInv, StatusRecord, NotAnnounced, Quiet, Asleep

LEMMA ClientKeepsProtocol == ProtocolInv /\ ClientThread => ProtocolInv'
<1> SUFFICES ASSUME ProtocolInv, ClientThread PROVE ProtocolInv'
  OBVIOUS
<1> USE DEF ProtocolInv, StatusRecord, NotAnnounced, Announced, Served, Answered, Quiet, Asleep,
            Taken, Pending, ClientStep, threadVars, objectVars
<1>1. CASE \E c \in Parameters : SendCommand(c)
  BY <1>1 DEF SendCommand
<1>2. CASE WakeThread
  BY <1>2 DEF WakeThread
<1>3. CASE ReadStatus
  BY <1>3 DEF ReadStatus
<1> QED BY <1>1, <1>2, <1>3 DEF ClientThread

LEMMA ThreadKeepsProtocol ==
    ProtocolInv /\ (ThreadLoop \/ WaitReturnsWithoutFlag) => ProtocolInv'
<1> SUFFICES ASSUME ProtocolInv, ThreadLoop \/ WaitReturnsWithoutFlag PROVE ProtocolInv'
  OBVIOUS
<1> USE DEF ProtocolInv, StatusRecord, NotAnnounced, Announced, Served, Answered, Quiet, Asleep,
            Taken, Pending, ThreadStep, objectVars, clientVars
<1>1. CASE CheckStop
  BY <1>1 DEF CheckStop
<1>2. CASE WaitReturns
  BY <1>2 DEF WaitReturns
<1>3. CASE ReadCommand
  <2>1. CASE CommandRead /\ ~mStopReadThread
    <3>1. PICK c \in Parameters : c.command = command /\ mCommandMQ = <<c>>
      BY <1>3, <2>1 DEF ReadCommand, CommandRead
    <3>2. Received = c
      BY <3>1 DEF Received
    <3> QED BY <1>3, <2>1, <3>1, <3>2 DEF ReadCommand
  <2>2. CASE mStopReadThread
    BY <1>3, <2>2 DEF ReadCommand, CommandRead
  <2>3. CASE ~CommandRead /\ ~mStopReadThread
    BY <1>3, <2>3 DEF ReadCommand, CommandRead
  <2> QED BY <2>1, <2>2, <2>3
<1>4. CASE VendorReads
  BY <1>4 DEF VendorReads
<1>5. CASE VendorAnswers
  BY <1>5 DEF VendorAnswers
<1>6. CASE WriteStatus
  BY <1>6 DEF WriteStatus
<1>7. CASE WakeClient
  BY <1>7 DEF WakeClient
<1>8. CASE WaitReturnsWithoutFlag
  BY <1>8 DEF WaitReturnsWithoutFlag
<1> QED BY <1>1, <1>2, <1>3, <1>4, <1>5, <1>6, <1>7, <1>8 DEF ThreadLoop

LEMMA ProtocolStep == ProtocolInv /\ [Next]_vars => ProtocolInv'
<1> SUFFICES ASSUME ProtocolInv, [Next]_vars PROVE ProtocolInv'
  OBVIOUS
<1> USE DEF ProtocolInv, StatusRecord, NotAnnounced, Announced, Served, Answered, Quiet, Asleep,
            Taken, Pending
<1>1. CASE PrepareForReading
  BY <1>1 DEF PrepareForReading, objectVars, clientVars
<1>2. CASE Close \/ Destroy
  BY <1>2 DEF Close, Destroy, StopThread, threadVars, clientVars
<1>3. CASE UNCHANGED <<queueVars, threadVars, mStopReadThread, clientVars>>
  BY <1>3 DEF queueVars, threadVars, clientVars
<1>4. CASE Destroyed \/ UNCHANGED vars
  BY <1>3, <1>4 DEF Destroyed, vars, objectVars
<1> QED BY <1>1, <1>2, <1>4, ClientKeepsProtocol, ThreadKeepsProtocol DEF Next, Binder

(* A command of the client gets exactly one status, its own, until close     *)
(* (StreamIn.cpp ReadThread::threadLoop), whatever the sizes.                *)
THEOREM OneReplyAlways == Spec => []OneReplyPerCommand
<1>1. ProtocolInv => OneReplyPerCommand
  BY DEF ProtocolInv, NotAnnounced, Announced, Served, Answered, Quiet, Asleep, Taken,
         OneReplyPerCommand
<1> QED BY ProtocolInit, ProtocolStep, <1>1, PTL DEF Spec

-----------------------------------------------------------------------------
(* The samples.  What the client was not told of yet is in the status that   *)
(* is being made or waits; a command and its status are matched even after   *)
(* close, when the thread may serve a command that was not announced yet,    *)
(* but no other after it.                                                    *)
Unserved ==
    /\ IF client = "ready" THEN mCommandMQ = <<>> ELSE Pending
    /\ Quiet /\ thread \in {"none", "checking", "waiting", "taking", "exited"}
    /\ captured = told

ServedNow == client # "ready" /\ mCommandMQ = <<>> /\ mStatus.replyTo = command

Reported ==
    captured = told + IF command = "READ" /\ mStatus.retval = "OK" THEN mStatus.read ELSE 0

BeingRead ==
    thread = "reading" /\ command = "READ" /\ mStatus.retval = "OK" /\ captured = told

BeingAsked == thread = "asking" /\ command # "READ" /\ captured = told

BeingServed ==
    ServedNow /\ Quiet /\ (BeingRead \/ BeingAsked \/ (thread = "replying" /\ Reported))

StatusSent ==
    /\ ServedNow /\ Reported /\ mStatusMQ = <<mStatus>>
    /\ IF "NOT_EMPTY" \in flags THEN thread \in {"checking", "waiting", "taking", "exited"}
       ELSE thread = "waking"

SampleTypes ==
    /\ told \in Nat /\ mStatus.read \in Nat /\ mParameters \in Parameters
    /\ received \in Seq(Nat) /\ mDataMQ \in Seq(Nat) /\ Len(mDataMQ) <= QueueSize
    /\ captured = Len(received \o mDataMQ)

(* The inductive invariant of the samples. *)
SamplesInv == SampleTypes /\ (Unserved \/ BeingServed \/ StatusSent)

AbstractNext == [Transfer!Next]_<<received \o mDataMQ, told>>

LEMMA SamplesInit == Init => SamplesInv /\ Transfer!Init
BY ConstantsAssumption
   DEF Init, SamplesInv, SampleTypes, Unserved, Quiet, NoCommand, Parameters, Transfer!Init

LEMMA SamplesAssociative ==
    ASSUME NEW r \in Seq(Nat), NEW s \in Seq(Nat), NEW t \in Seq(Nat)
    PROVE  (r \o s) \o t = r \o (s \o t)
<1>1. /\ Len((r \o s) \o t) = Len(r \o (s \o t))
      /\ (r \o s) \o t \in Seq(Nat) /\ r \o (s \o t) \in Seq(Nat)
  OBVIOUS
<1>2. \A i \in 1..Len((r \o s) \o t) : ((r \o s) \o t)[i] = (r \o (s \o t))[i]
  OBVIOUS
<1> QED BY <1>1, <1>2, SeqEqual

(* The client takes samples from the front of the data queue, which moves    *)
(* none of those that the two of them hold.                                  *)
LEMMA SplitQueue ==
    ASSUME NEW have \in Seq(Nat), NEW queue \in Seq(Nat), NEW n \in 0..Len(queue)
    PROVE  /\ SubSeq(queue, 1, n) \in Seq(Nat) /\ SubSeq(queue, n + 1, Len(queue)) \in Seq(Nat)
           /\ Len(SubSeq(queue, n + 1, Len(queue))) <= Len(queue)
           /\ (have \o SubSeq(queue, 1, n)) \o SubSeq(queue, n + 1, Len(queue)) = have \o queue
<1>1. SubSeq(queue, 1, n) \in Seq(Nat) /\ SubSeq(queue, n + 1, Len(queue)) \in Seq(Nat)
      /\ Len(SubSeq(queue, n + 1, Len(queue))) <= Len(queue)
  OBVIOUS
<1>2. SubSeq(queue, 1, n) \o SubSeq(queue, n + 1, Len(queue)) = SubSeq(queue, 1, Len(queue))
  <2>1. Len(queue) \in Nat /\ 1 \in 1..Len(queue) + 1 /\ n \in 1 - 1..Len(queue)
        /\ Len(queue) \in n..Len(queue)
    OBVIOUS
  <2> QED BY <2>1, ConcatAdjacentSubSeq
<1>3. SubSeq(queue, 1, Len(queue)) = queue
  BY SubSeqFull
<1>4. (have \o SubSeq(queue, 1, n)) \o SubSeq(queue, n + 1, Len(queue))
        = have \o (SubSeq(queue, 1, n) \o SubSeq(queue, n + 1, Len(queue)))
  BY <1>1, SamplesAssociative
<1> QED BY <1>1, <1>2, <1>3, <1>4

LEMMA ClientSamples ==
    ProtocolInv /\ SamplesInv /\ ClientThread => SamplesInv' /\ AbstractNext
<1> SUFFICES ASSUME ProtocolInv, SamplesInv, ClientThread PROVE SamplesInv' /\ AbstractNext
  OBVIOUS
<1> USE DEF ClientStep, threadVars, streamVars, objectVars
<1>1. ASSUME NEW c \in Parameters, SendCommand(c) PROVE SamplesInv' /\ AbstractNext
  BY <1>1 DEF SendCommand, SamplesInv, SampleTypes, Unserved, BeingServed, StatusSent, ServedNow,
              Pending, Quiet, AbstractNext
<1>2. CASE WakeThread
  BY <1>2 DEF WakeThread, SamplesInv, SampleTypes, Unserved, BeingServed, StatusSent, BeingRead,
              BeingAsked, ServedNow, Pending, Quiet, Reported, AbstractNext
<1>3. CASE ReadStatus
  <2>1. StatusSent /\ SampleTypes
    BY <1>3 DEF ReadStatus, SamplesInv, Unserved, BeingServed, Quiet
  <2>2. told' = captured /\ UNCHANGED <<captured, mParameters, mStatus>>
    BY <1>3, <2>1 DEF ReadStatus, StatusSent, ServedNow, Reported, SampleTypes
  <2>3. SampleTypes' /\ UNCHANGED (received \o mDataMQ)
    <3>1. CASE UNCHANGED <<received, mDataMQ>>
      BY <2>1, <2>2, <3>1 DEF SampleTypes
    <3>2. ASSUME NEW n \in 0..Len(mDataMQ), received' = received \o SubSeq(mDataMQ, 1, n),
                 mDataMQ' = SubSeq(mDataMQ, n + 1, Len(mDataMQ))
          PROVE  SampleTypes' /\ UNCHANGED (received \o mDataMQ)
      <4>1. mDataMQ \in Seq(Nat) /\ received \in Seq(Nat)
        BY <2>1 DEF SampleTypes
      <4>2. /\ SubSeq(mDataMQ, 1, n) \in Seq(Nat) /\ mDataMQ' \in Seq(Nat)
            /\ Len(mDataMQ') <= Len(mDataMQ) /\ received' \o mDataMQ' = received \o mDataMQ
        BY <3>2, <4>1, SplitQueue
      <4>3. received' \in Seq(Nat)
        BY <3>2, <4>1, <4>2
      <4> QED BY <2>1, <2>2, <4>1, <4>2, <4>3, ConstantsAssumption DEF SampleTypes
    <3> QED BY <1>3, <3>1, <3>2 DEF ReadStatus
  <2>4. Unserved'
    BY <1>3, <2>1, <2>2 DEF ReadStatus, StatusSent, ServedNow, Unserved, Quiet
  <2> QED BY <2>1, <2>2, <2>3, <2>4
          DEF SamplesInv, SampleTypes, AbstractNext, Transfer!Next, Transfer!Confirm
<1> QED BY <1>1, <1>2, <1>3 DEF ClientThread

LEMMA ThreadSamples ==
    ProtocolInv /\ SamplesInv /\ (ThreadLoop \/ WaitReturnsWithoutFlag)
        => SamplesInv' /\ AbstractNext
<1> SUFFICES ASSUME ProtocolInv, SamplesInv, ThreadLoop \/ WaitReturnsWithoutFlag
             PROVE  SamplesInv' /\ AbstractNext
  OBVIOUS
<1> USE DEF ThreadStep, objectVars, clientVars
<1>1. CASE CheckStop \/ WaitReturns \/ WaitReturnsWithoutFlag \/ WakeClient
  BY <1>1 DEF CheckStop, WaitReturns, WaitReturnsWithoutFlag, WakeClient, SamplesInv, SampleTypes,
              Unserved, BeingServed, StatusSent, BeingRead, BeingAsked, ServedNow, Pending, Quiet,
              Reported, AbstractNext
<1>2. CASE ReadCommand
  <2>1. /\ UNCHANGED <<captured, told, received, mDataMQ, client, command, mStatusMQ, flags>>
        /\ mCommandMQ' = <<>>
    BY <1>2 DEF ReadCommand
  <2>2. CASE CommandRead
    <3>1. Unserved /\ client # "ready"
      BY <1>2, <2>2 DEF ReadCommand, CommandRead, SamplesInv, BeingServed, StatusSent, Unserved,
                        BeingRead, BeingAsked, ServedNow
    <3>2. PICK c \in Parameters : c.command = command /\ mCommandMQ = <<c>>
      BY <3>1 DEF Unserved, Pending
    <3>3. Received = c
      BY <3>2 DEF Received
    <3>4. /\ mStatus'.replyTo = command /\ mStatus'.read = mStatus.read
          /\ mStatus'.retval = IF command = "UNKNOWN" THEN "NOT_SUPPORTED" ELSE "OK"
          /\ mParameters' = c
          /\ thread' = CASE command = "READ"    -> "reading"
                         [] command = "UNKNOWN" -> "replying"
                         [] OTHER               -> "asking"
      BY <1>2, <2>2, <3>2, <3>3 DEF ReadCommand, ProtocolInv, StatusRecord
    <3> QED BY <2>1, <3>1, <3>2, <3>4
            DEF SamplesInv, SampleTypes, Unserved, BeingServed, BeingRead, BeingAsked, ServedNow,
                Quiet, Reported, AbstractNext
  <2>3. CASE ~CommandRead
    BY <1>2, <2>3 DEF ReadCommand, CommandRead, SamplesInv, SampleTypes, Unserved, BeingServed,
                      StatusSent, BeingRead, BeingAsked, ServedNow, Pending, Quiet, Reported,
                      AbstractNext
  <2> QED BY <2>2, <2>3
<1>3. CASE VendorReads
  <2>1. BeingRead /\ ServedNow /\ Quiet /\ SampleTypes
    BY <1>3 DEF VendorReads, SamplesInv, Unserved, BeingServed, StatusSent, BeingAsked
  <2>2. UNCHANGED <<told, received, client, command, mParameters, mCommandMQ, mStatusMQ, flags>>
        /\ thread' = "replying"
    BY <1>3 DEF VendorReads
  <2>3. CASE UNCHANGED <<captured, mDataMQ>>
             /\ mStatus' = [mStatus EXCEPT !.retval = "INVALID_STATE"]
    <3>1. /\ mStatus'.read = mStatus.read /\ mStatus'.retval = "INVALID_STATE"
          /\ mStatus'.replyTo = mStatus.replyTo
      BY <2>3 DEF ProtocolInv, StatusRecord
    <3>2. SampleTypes' /\ AbstractNext
      BY <2>1, <2>2, <2>3, <3>1 DEF SampleTypes, AbstractNext
    <3>3. BeingServed'
      <4>1. captured' = told' /\ captured' = told' + 0
        <5>1. told \in Nat
          BY <2>1 DEF SampleTypes
        <5>2. captured = told
          BY <2>1 DEF BeingRead
        <5> QED BY <2>2, <2>3, <5>1, <5>2
      <4>2. Reported' /\ ServedNow'
        BY <2>1, <2>2, <3>1, <4>1 DEF ServedNow, Reported
      <4> QED BY <2>1, <2>2, <4>2 DEF BeingServed, Quiet
    <3> QED BY <3>2, <3>3 DEF SamplesInv
  <2>4. ASSUME NEW n \in 0..RequestedToRead, captured' = captured + n,
               mStatus' = [mStatus EXCEPT !.read = n],
               mDataMQ' = IF Len(mDataMQ) + n <= QueueSize
                          THEN mDataMQ \o [i \in 1..n |-> captured + i] ELSE mDataMQ
        PROVE  SamplesInv' /\ AbstractNext
    <3> DEFINE new == [i \in 1..n |-> captured + i]
    <3>1. n \in Nat /\ Len(mDataMQ) + n <= QueueSize
      BY <2>1, ConstantsAssumption DEF RequestedToRead, SampleTypes, Parameters
    <3>2. new \in Seq(Nat) /\ Len(new) = n
      BY <2>1, <3>1 DEF SampleTypes
    <3>3. mDataMQ' = mDataMQ \o new
      BY <2>4, <3>1
    <3>4. /\ mDataMQ' \in Seq(Nat) /\ Len(mDataMQ') <= QueueSize
          /\ received \o mDataMQ' = (received \o mDataMQ) \o new
      <4>1. mDataMQ \in Seq(Nat) /\ received \in Seq(Nat)
        BY <2>1 DEF SampleTypes
      <4>2. Len(mDataMQ \o new) = Len(mDataMQ) + n /\ mDataMQ \o new \in Seq(Nat)
        BY <3>2, <4>1
      <4>3. received \o (mDataMQ \o new) = (received \o mDataMQ) \o new
        BY <3>2, <4>1, SamplesAssociative
      <4> QED BY <3>1, <3>3, <4>2, <4>3
    <3>5. captured' = Len(received \o mDataMQ')
      BY <2>1, <2>4, <3>1, <3>2, <3>4 DEF SampleTypes
    <3>6. mStatus'.read = n /\ mStatus'.retval = mStatus.retval
          /\ mStatus'.replyTo = mStatus.replyTo
      BY <2>4 DEF ProtocolInv, StatusRecord
    <3>7. SamplesInv'
      BY <2>1, <2>2, <2>4, <3>1, <3>4, <3>5, <3>6
         DEF SamplesInv, SampleTypes, BeingServed, BeingRead, ServedNow, Quiet, Reported
    <3>8. CASE n = 0
      <4>1. mDataMQ' = mDataMQ
        BY <2>1, <3>2, <3>3, <3>8 DEF SampleTypes
      <4> QED BY <2>2, <3>7, <4>1 DEF AbstractNext
    <3>9. CASE n # 0
      <4>1. n \in 1..QueueSize
        BY <2>1, <3>1, <3>9, ConstantsAssumption DEF SampleTypes
      <4>2. told = Len(received \o mDataMQ) /\ captured = Len(received \o mDataMQ)
        BY <2>1 DEF SampleTypes, BeingRead
      <4>3. received' \o mDataMQ'
              = (received \o mDataMQ) \o [i \in 1..n |-> Len(received \o mDataMQ) + i]
        BY <2>2, <3>4, <4>2
      <4> QED BY <2>2, <3>7, <4>1, <4>2, <4>3 DEF AbstractNext, Transfer!Next, Transfer!Take
    <3> QED BY <3>8, <3>9
  <2> QED BY <1>3, <2>3, <2>4 DEF VendorReads
<1>4. CASE VendorAnswers
  BY <1>4 DEF VendorAnswers, SamplesInv, SampleTypes, Unserved, BeingServed, StatusSent, BeingRead,
              BeingAsked, ServedNow, Quiet, Reported, ProtocolInv, StatusRecord, AbstractNext
<1>5. CASE WriteStatus
  BY <1>5 DEF WriteStatus, SamplesInv, SampleTypes, Unserved, BeingServed, StatusSent, BeingRead,
              BeingAsked, ServedNow, Quiet, Reported, AbstractNext
<1> QED BY <1>1, <1>2, <1>3, <1>4, <1>5 DEF ThreadLoop

LEMMA SamplesStep == ProtocolInv /\ SamplesInv /\ [Next]_vars => SamplesInv' /\ AbstractNext
<1> SUFFICES ASSUME ProtocolInv, SamplesInv, [Next]_vars PROVE SamplesInv' /\ AbstractNext
  OBVIOUS
<1> USE DEF SamplesInv, SampleTypes, Unserved, BeingServed, StatusSent, BeingRead, BeingAsked,
            ServedNow, Pending, Quiet, Reported, AbstractNext
<1>1. CASE PrepareForReading
  BY <1>1 DEF PrepareForReading, ProtocolInv, streamVars, objectVars, clientVars
<1>2. CASE Close
  BY <1>2 DEF Close, StopThread, threadVars, clientVars
<1>3. CASE Destroyed \/ UNCHANGED vars
  BY <1>3 DEF Destroyed, vars, queueVars, threadVars, streamVars, clientVars, objectVars
<1>4. CASE Destroy
  BY <1>4 DEF Destroy, StopThread, threadVars, clientVars
<1> QED BY <1>1, <1>2, <1>3, <1>4, ClientSamples, ThreadSamples DEF Next, Binder

(* The stream implements AudioTransfer: whatever the sizes, however much the *)
(* client leaves in the data queue, and whenever the stream is closed, the   *)
(* samples the vendor's stream captured reach the client in order, none      *)
(* twice and none left out, and it is told how many there are before more    *)
(* are captured.                                                             *)
THEOREM SamplesAlwaysTransferred == Spec => SamplesTransferred
<1>1. SamplesInv /\ ProtocolInv /\ [Next]_vars => [Transfer!Next]_<<received \o mDataMQ, told>>
  BY SamplesStep DEF AbstractNext
<1> QED BY ProtocolInit, ProtocolStep, SamplesInit, SamplesStep, <1>1, PTL
        DEF Spec, SamplesTransferred, Transfer!Spec
=============================================================================
