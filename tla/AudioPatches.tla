---------------------------- MODULE AudioPatches -----------------------------
(***************************************************************************)
(* The audio patches of the device (audio/impl/Device.cpp): the client     *)
(* creates, updates and releases routes by handle, the vendor's device     *)
(* keeps them, and what lies between rewrites the sinks, because the       *)
(* vendor's device goes silent on a patch to the speaker and Bluetooth SCO *)
(* at once.  That is so in the build that ships, of version 6.0; a build   *)
(* of version 7 or later would pass the sinks on as they are.              *)
(***************************************************************************)
EXTENDS Naturals, FiniteSetsExt

CONSTANTS
    PatchHandles,   \* the handles the vendor's device gives; 0 is none
    SinkLists       \* the lists of sinks the client asks for

ASSUME PatchesAssumption == 0 \notin PatchHandles

VARIABLES
    vendorPatches,  \* the sinks of each patch the vendor's device has
    clientPatches   \* those the client asked for, of the patches it has

patchVars == <<vendorPatches, clientPatches>>

-----------------------------------------------------------------------------
(* Ports are the sinks of a patch: devices and, for recording, mixes.  A list *)
(* of them maps the places in the client's list to the ports, in that order;  *)
(* what is dropped from it leaves its place empty.                            *)
ScoSinks == {"SCO", "SCO_HEADSET", "SCO_CARKIT"}
Ports    == ScoSinks \cup {"SPEAKER", "OTHER", "MIX"}

Has(ports, kinds) == \E i \in DOMAIN ports : ports[i] \in kinds

WithoutSco(ports) == Restrict(ports, {i \in DOMAIN ports : ports[i] \notin ScoSinks})

(* Mutant of DropScoSinksWhenPairedWithSpeaker: a headset is not taken for    *)
(* a SCO sink when they are looked for.                                       *)
DropPlainScoSinks(ports) ==
    IF Has(ports, {"SPEAKER"}) /\ Has(ports, {"SCO"}) THEN WithoutSco(ports) ELSE ports

DropScoSinksWhenPairedWithSpeaker(ports) ==
    IF Has(ports, {"SPEAKER"}) /\ Has(ports, ScoSinks) THEN WithoutSco(ports) ELSE ports

Made(patches, handle, sinks) ==
    [h \in DOMAIN patches \cup {handle} |-> IF h = handle THEN sinks ELSE patches[h]]

(* createOrUpdateAudioPatch for a handle, or 0, if the conversions and the    *)
(* vendor's device succeed; the vendor's device gives a new patch a handle    *)
(* of its own.  What fails answers the handle it was called with and changes  *)
(* nothing.                                                                   *)
CreateOrUpdateAudioPatch(handle, sinks) ==
    \E h \in PatchHandles :
        /\ IF handle = 0 THEN h \notin DOMAIN vendorPatches ELSE h = handle
        /\ vendorPatches' = Made(vendorPatches, h, DropScoSinksWhenPairedWithSpeaker(sinks))
        /\ clientPatches' = Made(clientPatches, h, sinks)

CreateAudioPatch(sinks) == CreateOrUpdateAudioPatch(0, sinks)

(* updateAudioPatch of a patch the client has; without one it is refused. *)
UpdateAudioPatch(handle, sinks) ==
    /\ handle # 0 /\ handle \in DOMAIN clientPatches
    /\ CreateOrUpdateAudioPatch(handle, sinks)

(* releaseAudioPatch, if the vendor's device succeeds. *)
ReleaseAudioPatch(handle) ==
    /\ handle \in DOMAIN clientPatches
    /\ vendorPatches' = Restrict(vendorPatches, DOMAIN vendorPatches \ {handle})
    /\ clientPatches' = Restrict(clientPatches, DOMAIN clientPatches \ {handle})

PatchesInit == vendorPatches = <<>> /\ clientPatches = <<>>

PatchesNext ==
    \/ \E sinks \in SinkLists :
         \/ CreateAudioPatch(sinks)
         \/ \E h \in DOMAIN clientPatches : UpdateAudioPatch(h, sinks)
    \/ \E h \in DOMAIN clientPatches : ReleaseAudioPatch(h)

-----------------------------------------------------------------------------
(* "The vendor blob merges multi-device sinks into a single internal mask    *)
(* and produces the invalid combo": no patch, created or updated, ever has   *)
(* the speaker and a SCO sink, and still it plays wherever the client asked  *)
(* for, in its order, but for that.                                          *)
PatchesMatch ==
    /\ DOMAIN vendorPatches = DOMAIN clientPatches
    /\ \A h \in DOMAIN vendorPatches :
         LET made == vendorPatches[h]  asked == clientPatches[h] IN
         /\ ~(Has(made, {"SPEAKER"}) /\ Has(made, ScoSinks))
         /\ WithoutSco(made) = WithoutSco(asked)
         /\ Has(asked, {"SPEAKER"}) \/ made = asked

=============================================================================
