---------------------------- MODULE MCVendorAudio ----------------------------
(* A library of two sites, two threads, and lists of parameters and of sinks *)
(* that combine what is treated specially with what is not.                  *)
EXTENDS VendorAudio
LOCAL INSTANCE TLC

P(key, value) == [key |-> key, value |-> value]

Lists == {<<P("bt_wbs", "on")>>,
          <<P("bt_wbs", "on"), P("rotation", "270"), P("bt_wbs", "off")>>,
          <<P("rotation", "180"), P("rotation", "45"), P("tty_mode", "tty_vco")>>}

Sinks == {<<"SPEAKER", "SCO_HEADSET">>, <<"SCO", "OTHER">>, <<"SCO_CARKIT", "MIX", "SPEAKER">>}

Interchangeable == Permutations(Threads)

=============================================================================
