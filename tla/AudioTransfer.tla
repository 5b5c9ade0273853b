--------------------------- MODULE AudioTransfer ----------------------------
(***************************************************************************)
(* What a message queue stream promises about its samples, whichever way   *)
(* they go: the receiver gets them in order, none twice and none left out, *)
(* in batches, and a batch is confirmed before the next one is taken.      *)
(* Samples are numbered from 1.                                            *)
(***************************************************************************)
EXTENDS Naturals, Sequences

CONSTANT MaxBatch

VARIABLES
    taken,      \* the samples the receiver has, in order
    confirmed   \* how many of them the other side knows to have arrived

Init == taken = <<>> /\ confirmed = 0

Take ==
    /\ confirmed = Len(taken)
    /\ \E n \in 1..MaxBatch : taken' = taken \o [i \in 1..n |-> Len(taken) + i]
    /\ UNCHANGED confirmed

Confirm ==
    /\ confirmed # Len(taken)
    /\ confirmed' = Len(taken)
    /\ UNCHANGED taken

Next == Take \/ Confirm

Spec == Init /\ [][Next]_<<taken, confirmed>>

=============================================================================
