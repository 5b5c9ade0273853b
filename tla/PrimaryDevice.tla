----------------------------- MODULE PrimaryDevice ----------------------------
(***************************************************************************)
(* The primary audio device (audio/impl/PrimaryDevice.cpp): an AudioDevice *)
(* whose setMode tells the vendor's device, before it changes the mode,    *)
(* which SIM is in a call.  It learns that from two properties the radio   *)
(* sets, and for IN_CALL it polls them, keeping the binder thread, until   *)
(* one of the SIMs reports a call.                                         *)
(***************************************************************************)
EXTENDS AudioDevice, Sequences

CONSTANTS
    MaxModes,    \* bound on the calls of setMode
    MaxChanges   \* bound on the changes of the properties

ASSUME PrimaryAssumption == MaxModes \in Nat /\ MaxChanges \in Nat

VARIABLES
    ongoing,    \* vendor.calls.ongoing0 and 1; "" while not set
    setMode,    \* each thread: where it is in setMode
    mode,       \* each thread: the argument of setMode
    simSlot,    \* each thread: simSlot1 and simSlot2, as read last
    vendor,     \* the call state and SIM the vendor's device was told; 0: none
    modes, changes

callVars == <<setMode, mode, simSlot, vendor, modes>>

primaryVars == <<vars, ongoing, callVars, changes>>

-----------------------------------------------------------------------------
Slots == {1, 2}

(* The modes the client may set; RINGTONE, IN_COMMUNICATION and CALL_SCREEN   *)
(* are treated like NORMAL.                                                   *)
Modes == {"NORMAL", "IN_CALL"}

Setting(t) == setMode[t] # "idle"

Idle(t) == ~Setting(t) /\ step[t] = "idle"

Proceed(t, next) == setMode' = [setMode EXCEPT ![t] = next]

(* A call of setMode, of a device that is neither closed nor gone; m may be   *)
(* "invalid", for the reserved values.                                        *)
SetMode(t, m) ==
    /\ Idle(t) /\ Serves(t) /\ ~mIsClosed
    /\ modes < MaxModes
    /\ modes' = modes + 1
    /\ mode' = [mode EXCEPT ![t] = m]
    /\ Proceed(t, "read1")
    /\ UNCHANGED <<simSlot, vendor>>

(* property_get *)
ReadSlot(t, slot) ==
    /\ simSlot' = [simSlot EXCEPT ![t][slot] = ongoing[slot]]
    /\ UNCHANGED <<mode, vendor, modes>>

ReadSlot1(t) == setMode[t] = "read1" /\ ReadSlot(t, 1) /\ Proceed(t, "read2")

ReadSlot2(t) == setMode[t] = "read2" /\ ReadSlot(t, 2) /\ Proceed(t, "decide")

(* Mutant of MustWait: nobody waits. *)
MustWaitNever(t) == FALSE

MustWait(t) == mode[t] = "IN_CALL" /\ \A slot \in Slots : simSlot[t][slot] = "0"

(* Mutant of Wait: the properties are not read again. *)
WaitWithoutReading(t) ==
    /\ setMode[t] = "decide" /\ MustWait(t)
    /\ UNCHANGED callVars

(* Another round of the loop. *)
Wait(t) ==
    /\ setMode[t] = "decide" /\ MustWait(t)
    /\ Proceed(t, "read1")
    /\ UNCHANGED <<mode, simSlot, vendor, modes>>

(* halSetParameters; nothing is said if a property was not set. *)
CallParameters(t) ==
    IF simSlot[t][1] = "1" THEN [vendor EXCEPT !.callState = 2, !.simSlot = 1]
    ELSE IF simSlot[t][2] = "1" THEN [vendor EXCEPT !.callState = 2, !.simSlot = 2]
    ELSE IF simSlot[t] = <<"0", "0">> THEN [vendor EXCEPT !.callState = 1]
    ELSE vendor

SetCallParameters(t) ==
    /\ setMode[t] = "decide" /\ ~MustWait(t)
    /\ vendor' = CallParameters(t)
    /\ Proceed(t, IF mode[t] \in Modes THEN "set" ELSE "idle")
    /\ UNCHANGED <<mode, simSlot, modes>>

(* set_mode of the vendor's device; what it answers changes nothing here. *)
SetVendorMode(t) ==
    /\ setMode[t] = "set"
    /\ Proceed(t, "idle")
    /\ UNCHANGED <<mode, simSlot, vendor, modes>>

SetModeStep(t) ==
    \/ ReadSlot1(t) \/ ReadSlot2(t) \/ Wait(t)
    \/ SetCallParameters(t) \/ SetVendorMode(t)

(* The radio, whose properties are 0 or 1 once they are set. *)
ReportCall(slot, value) ==
    /\ ongoing[slot] # value /\ changes < MaxChanges
    /\ ongoing' = [ongoing EXCEPT ![slot] = value]
    /\ changes' = changes + 1
    /\ UNCHANGED <<vars, callVars>>

-----------------------------------------------------------------------------
PrimaryInit ==
    /\ Init
    /\ \E value \in {"", "0"} : ongoing = [slot \in Slots |-> value]
    /\ setMode = [t \in Threads |-> "idle"]
    /\ mode = [t \in Threads |-> "NORMAL"]
    /\ simSlot = [t \in Threads |-> <<"", "">>]
    /\ vendor = [callState |-> 0, simSlot |-> 0]
    /\ modes = 0 /\ changes = 0

(* A thread in setMode serves no other call, and one that holds the device    *)
(* keeps it alive.                                                            *)
DeviceCall == \E t \in Threads : ~Setting(t) /\ Call(t)

DropDevice == (\A t \in Threads : ~Setting(t)) /\ DestroyDevice

PrimaryNext ==
    \/ (DeviceCall \/ DropDevice) /\ UNCHANGED <<ongoing, callVars, changes>>
    \/ \E t \in Threads :
         /\ SetModeStep(t) \/ \E m \in Modes \cup {"invalid"} : SetMode(t, m)
         /\ UNCHANGED <<vars, ongoing, changes>>
    \/ \E slot \in Slots, value \in {"0", "1"} : ReportCall(slot, value)

PrimarySpec == PrimaryInit /\ [][PrimaryNext]_primaryVars

(* A thread in setMode goes on; nobody has to call, and no SIM to connect. *)
FairPrimarySpec ==
    /\ PrimarySpec
    /\ \A t \in Threads :
         WF_primaryVars(SetModeStep(t) /\ UNCHANGED <<vars, ongoing, changes>>)

-----------------------------------------------------------------------------
(* Properties. *)

(* Before setMode puts the vendor's device in a call, and as long as no other *)
(* mode is asked for, the vendor's device knows of an active call, in the SIM *)
(* that reported it, provided the properties were set when setMode read them. *)
(* For calls of setMode made one after another.                               *)
PropertiesSet(t) == \A slot \in Slots : simSlot[t][slot] # ""

InCallIsActive ==
    \A t \in Threads :
        setMode[t] \in {"set", "idle"} /\ mode[t] = "IN_CALL" /\ PropertiesSet(t) =>
            vendor.callState = 2 /\ simSlot[t][vendor.simSlot] = "1"

(* setMode returns, except for IN_CALL while no SIM reports a call: a call   *)
(* that stays is noticed at last, however late it is reported.               *)
SetModeReturns ==
    \A t \in Threads :
        /\ (Setting(t) /\ mode[t] # "IN_CALL") ~> ~Setting(t)
        /\ \A slot \in Slots : <>[](ongoing[slot] = "1") => (Setting(t) ~> ~Setting(t))

=============================================================================
