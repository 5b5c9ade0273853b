--------------------------- MODULE MCFrameTiming ----------------------------
(* Small instance: twelve time units to the second and one unit of jitter. *)
(* The rates give the intervals 4, 3 and 2 (throttling), 1 (as small as    *)
(* the jitter), 0 (a rate above the clock) and -1 (dropping disabled).     *)
(* The configurations are slow motion with a capture interval that is a    *)
(* whole number of units and with one that is not, a time lapse, and one   *)
(* that is neither.                                                        *)
EXTENDS FrameTiming

MCRates == {-1, 0, 3, 4, 6, 12, 24}
MCFrameTimes == 1..12
MCConfigs == {<<1, 3>>, <<2, 5>>, <<5, 1>>, <<2, 3>>}
MCOffsets == {-1}
=============================================================================
