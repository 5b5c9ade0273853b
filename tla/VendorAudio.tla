----------------------------- MODULE VendorAudio -----------------------------
(***************************************************************************)
(* The vendor's audio library from the build to its use: it is extracted   *)
(* and fixed (BlobFixup), DevicesFactory.cpp loads what came of that, and  *)
(* the device that is opened is told parameters and patches.  Whether the  *)
(* library was fixed decides which key it takes the codec of a Bluetooth   *)
(* call from.                                                              *)
(***************************************************************************)
EXTENDS BlobFixup, AudioParameters, AudioPatches

VARIABLES
    opened      \* what openDevice answered; "" before it is called

vendorAudioVars == <<fixupVars, parameterVars, patchVars, opened>>

-----------------------------------------------------------------------------
(* openDevice, by what loadAudioInterface answers. *)
OpenDeviceResult(status) ==
    CASE status = "OK"     -> "OK"
      [] status = "EINVAL" -> "NOT_INITIALIZED"
      [] OTHER             -> "INVALID_ARGUMENTS"

(* What loadAudioInterface may answer.  A library that is not whole is not    *)
(* loaded; one that is may fail to open, or open a device of a version that   *)
(* is too old, which is closed again and answered as EINVAL.                  *)
LoadAudioInterface == {"EINVAL", "other"} \cup (IF Whole(file) THEN {"OK"} ELSE {})

(* The library is not fixed any more once it is in use. *)
OpenDevice ==
    /\ opened = "" /\ library = "audio" /\ ~Running
    /\ \E status \in LoadAudioInterface : opened' = OpenDeviceResult(status)
    /\ reads' = IF file = Fixed THEN "bt_wbs" ELSE "g_sco_samplerate"
    /\ UNCHANGED <<fixupVars, wideband, told, mixerVars, callVars, askedVars, sets, patchVars>>

Init ==
    /\ FixupInit /\ ParametersInit /\ PatchesInit
    /\ reads = "g_sco_samplerate" /\ opened = ""

Next ==
    \/ opened = "" /\ Fixup /\ UNCHANGED <<parameterVars, patchVars, opened>>
    \/ OpenDevice
    \/ opened = "OK" /\ ParametersNext /\ UNCHANGED <<fixupVars, patchVars, opened>>
    \/ /\ opened = "OK" /\ BeginSet /\ PatchesNext
       /\ UNCHANGED <<fixupVars, vendorVars, mixerVars, callVars, askedVars, opened>>

Spec == Init /\ [][Next]_vendorAudioVars

=============================================================================
