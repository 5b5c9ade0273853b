---------------------------- MODULE EncoderFeed -----------------------------
(***************************************************************************)
(* What the buffer source promises the encoder: in each session it is fed  *)
(* a stream of frames, each newer than the one before or a repeat of it at *)
(* a later time, with at most MaxRepeats repeats of a frame, and the       *)
(* stream may be ended, once, by an entry that nothing follows.            *)
(***************************************************************************)
EXTENDS Integers, Sequences, FiniteSets

CONSTANTS
    Frames,      \* frame numbers, in the order the producer makes them
    Times,       \* encoding times
    MaxRepeats,  \* bound on the repeats of one frame
    EndOfStream  \* the entry that ends a stream

VARIABLE stream  \* what the encoder was fed in this session

Last == stream[Len(stream)]

Open == stream # <<>> => Last # EndOfStream

TimesFed(b) == Cardinality({i \in DOMAIN stream : stream[i].buf = b})

Init == stream = <<>>

(* A frame newer than everything in the stream. *)
FeedFrame(b, t) ==
    /\ Open
    /\ stream # <<>> => b > Last.buf /\ t > Last.ts
    /\ stream' = Append(stream, [buf |-> b, ts |-> t])

(* The last frame once more, at a later time. *)
FeedRepeat(t) ==
    /\ stream # <<>> /\ Open
    /\ TimesFed(Last.buf) <= MaxRepeats
    /\ t > Last.ts
    /\ stream' = Append(stream, [Last EXCEPT !.ts = t])

End == Open /\ stream' = Append(stream, EndOfStream)

NewSession == stream' = <<>>

Next ==
    \/ \E b \in Frames, t \in Times : FeedFrame(b, t)
    \/ \E t \in Times : FeedRepeat(t)
    \/ End
    \/ NewSession

Spec == Init /\ [][Next]_stream

=============================================================================
