--------------------------- MODULE AudioParameters ---------------------------
(***************************************************************************)
(* The parameters of the audio device and of its streams: the typed calls  *)
(* of PrimaryDevice.cpp, Device.cpp and Stream.cpp, and the free form      *)
(* setParameters, all turned into key=value pairs for the vendor's device  *)
(* or stream by ParametersUtil.cpp.  Two keys are special in setParameters:*)
(* the codec of a Bluetooth call, bt_wbs, is sent as a sample rate, too,   *)
(* which is what the vendor's own library understands; and the rotation of *)
(* the screen never reaches the vendor but sets four controls of the sound *)
(* card's mixer, one after another and without a lock.  Calls come on      *)
(* several threads: those of the device on one, a stream's on the stream's.*)
(*                                                                         *)
(* The vendor's device and streams remember what they are told and answer  *)
(* with it; but for the codec of a call the device answers with the state  *)
(* of its own flag, under the one key its library knows.                   *)
(***************************************************************************)
EXTENDS Integers, Sequences, FiniteSetsExt

CONSTANTS
    Threads,        \* the binder threads that serve calls
    ParameterLists, \* the lists of parameters setParameters is called with
    Flags,          \* the flags that are set
    MaxSets         \* bound on the calls that change something

(* The keys of the parameters that are on or off: setBtScoNrecEnabled,        *)
(* setBtScoWidebandEnabled, setHacEnabled, setBtHfpEnabled, setScreenState.   *)
FlagKeys == {"bt_headset_nrec", "bt_wbs", "HACSetting", "hfp_enable", "screen_state"}

ASSUME ParametersAssumption == Threads # {} /\ MaxSets \in Nat /\ Flags \subseteq FlagKeys

(* A list gives flags and the mode of a teletypewriter values they can have,  *)
(* and leaves g_sco_samplerate, a key of the vendor's own, to the code.       *)
ASSUME ListsAssumption ==
    \A list \in ParameterLists :
        /\ list \in Seq([key : STRING, value : STRING])
        /\ \A i \in DOMAIN list :
             /\ list[i].key # "g_sco_samplerate"
             /\ list[i].key \in FlagKeys => list[i].value \in {"on", "off"}
             /\ list[i].key = "tty_mode" =>
                  list[i].value \in {"tty_off", "tty_vco", "tty_hco", "tty_full"}

VARIABLES
    reads,      \* the key the vendor's library takes the codec from
    wideband,   \* its flag: Bluetooth calls run at 16 kHz
    told,       \* what the vendor's device, and stream, were told, by key
    positions,  \* the slot of each speaker, in the mixer
    call,       \* each thread: its call of setParameters
    done,       \* each: the controls it has set for a rotation; -1 if it sets none
    asked,      \* what the client asked of each for last, by key
    byList,     \* whether it last set bt_wbs by setParameters
    turned,     \* the rotation set last; "unknown" if the controls may be mixed
    sets

vendorVars == <<reads, wideband, told>>
callVars   == <<call, done>>
mixerVars  == <<positions, turned>>
askedVars  == <<asked, byList>>

parameterVars == <<vendorVars, mixerVars, callVars, askedVars, sets>>

-----------------------------------------------------------------------------
Targets == {"device", "stream"}

NoCall == [active |-> FALSE, target |-> "device", params |-> <<>>, rotations |-> <<>>]

BeginSet == sets < MaxSets /\ sets' = sets + 1

(* AudioParameter: a map of values by key; what is added replaces.            *)
Param(key, value) == [k \in {key} |-> value]

With(old, new) ==
    [k \in DOMAIN old \cup DOMAIN new |-> IF k \in DOMAIN new THEN new[k] ELSE old[k]]

-----------------------------------------------------------------------------
(* The vendor's device and stream. *)

(* What the library makes of the codec: bt_wbs is on or off, g_sco_samplerate *)
(* a number.                                                                  *)
Wideband(params) ==
    IF reads = "bt_wbs" THEN params[reads] = "on" ELSE params[reads] = "16000"

(* setParams, when the vendor accepts; it may also refuse all of them.        *)
SetParams(target, params) ==
    /\ told' = [told EXCEPT ![target] = With(@, params)]
    /\ wideband' = IF target = "device" /\ reads \in DOMAIN params
                   THEN Wideband(params) ELSE wideband
    /\ UNCHANGED reads

(* The keys a library may know the codec by, and how it writes its flag under *)
(* the one it does: as the same key is set.                                   *)
CodecKeys == {"bt_wbs", "g_sco_samplerate"}

CodecState ==
    CASE reads = "bt_wbs" -> IF wideband THEN "on" ELSE "off"
      [] OTHER            -> IF wideband THEN "16000" ELSE "8000"

(* getParameters of a stream, and of the device.  A library that was not      *)
(* patched answers nothing under bt_wbs, whatever it was told.                *)
Answers(target) ==
    IF target = "stream" THEN told[target]
    ELSE With(Restrict(told[target], DOMAIN told[target] \ CodecKeys), Param(reads, CodecState))

-----------------------------------------------------------------------------
(* The typed setters: what is sent for an argument.  An argument there is no  *)
(* value for is refused before the vendor hears of it.                        *)

Value(key, argument, value) == [key |-> key, argument |-> argument, value |-> value]

(* setParam of a flag. *)
FlagValues ==
    {Value(key, flag, IF flag THEN "on" ELSE "off") : key \in Flags, flag \in BOOLEAN}

(* Mutant of TtyModeFromHIDL: VCO and HCO are sent the wrong way round. *)
TtyModeFromHIDLSwapped(mode) ==
    CASE mode = "OFF" -> "tty_off"
      [] mode = "VCO" -> "tty_hco"
      [] mode = "HCO" -> "tty_vco"
      [] OTHER        -> "tty_full"

TtyModes == {"OFF", "VCO", "HCO", "FULL"}

(* convertTtyModeFromHIDL; modes it does not know are refused. *)
TtyModeFromHIDL(mode) ==
    CASE mode = "OFF" -> "tty_off"
      [] mode = "VCO" -> "tty_vco"
      [] mode = "HCO" -> "tty_hco"
      [] OTHER        -> "tty_full"

TtyValues == {Value("tty_mode", mode, TtyModeFromHIDL(mode)) : mode \in TtyModes}

(* setBtHfpVolume, of some volumes in thirtieths, rounded onto 0..15. *)
HfpVolumes == {Value("hfp_volume", v, (v + 1) \div 2) : v \in {1, 30}}

(* updateRotation, of some quarter turns; the mixer is left alone. *)
RotationValues == {Value("rotation", q, 90 * q) : q \in {0, 3}}

(* setBtScoHeadsetDebugName and setBtHfpSampleRate, of some value. *)
PlainValues == {Value(key, 1, 1) : key \in {"bt_headset_name", "hfp_set_sampling_rate"}}

DeviceValues ==
    FlagValues \cup TtyValues \cup HfpVolumes \cup RotationValues \cup PlainValues

(* Stream's setSampleRate, setChannelMask and setFormat, of some number. *)
StreamValues == {Value(key, 1, 1) : key \in {"sampling_rate", "channels", "format"}}

SetParam(target, v) ==
    /\ BeginSet
    /\ SetParams(target, Param(v.key, v.value))
    /\ asked' = [asked EXCEPT ![target] = With(@, Param(v.key, v.argument))]
    /\ byList' = (byList /\ v.key # "bt_wbs")
    /\ UNCHANGED <<mixerVars, callVars>>

(* setParam of an address, here of one: the vendor gets its type by the key,  *)
(* and the address itself, which has the form of parameters.                  *)
Addresses == {[type |-> "USB", address |-> [card |-> "1"]]}

SetParamOfAddress(target, key, address) ==
    /\ BeginSet
    /\ SetParams(target, With(address.address, Param(key, address.type)))
    /\ asked' = [asked EXCEPT ![target] = With(@, Param(key, address.type))]
    /\ UNCHANGED <<byList, mixerVars, callVars>>

(* Stream's setDevices: of several devices it is refused, of none the routing *)
(* is told to be none.                                                        *)
SetDevices(devices) ==
    /\ Len(devices) <= 1
    /\ SetParamOfAddress("stream", "routing",
           IF devices = <<>> THEN [type |-> "NONE", address |-> <<>>] ELSE devices[1])

(* Device's setConnectedState. *)
SetConnectedState(address, connected) ==
    SetParamOfAddress("device", IF connected THEN "connect" ELSE "disconnect", address)

-----------------------------------------------------------------------------
(* setParameters *)

(* Mutant of Collect: the sample rate of the codec is not told. *)
CollectAsItIs(p) == IF p.key = "rotation" THEN <<>> ELSE Param(p.key, p.value)

(* What the vendor is to be told because of one parameter. *)
Collect(p) ==
    CASE p.key = "rotation" -> <<>>
      [] p.key = "bt_wbs"   ->
             With(Param("g_sco_samplerate", IF p.value = "on" THEN "16000" ELSE "8000"),
                  Param(p.key, p.value))
      [] OTHER              -> Param(p.key, p.value)

(* What it is to be told because of all of them: the last one of a key wins.  *)
Collected(list) ==
    [key \in UNION {DOMAIN Collect(list[i]) : i \in DOMAIN list} |->
        Collect(list[Max({i \in DOMAIN list : key \in DOMAIN Collect(list[i])})])[key]]

Rotations == {"0", "90", "180", "270"}

(* A call begins.  The rotations are set as the list is gone through, the    *)
(* vendor is told all the rest at its end; a rotation that is none of the    *)
(* four is passed over.                                                      *)
SetParameters(t, target, list) ==
    /\ ~call[t].active
    /\ BeginSet
    /\ LET turns == {i \in DOMAIN list : list[i].key = "rotation" /\ list[i].value \in Rotations}
       IN call' = [call EXCEPT ![t] =
                      [active |-> TRUE, target |-> target, params |-> Collected(list),
                       rotations |-> [i \in turns |-> list[i].value]]]
    /\ UNCHANGED <<vendorVars, mixerVars, done, askedVars>>

(* The rotations of a call that are still to be set, by their place in the   *)
(* list, the one that is next, and those after it.                            *)
Turning(t) == call[t].active /\ DOMAIN call[t].rotations # {}

Rotation(rotations) == rotations[Min(DOMAIN rotations)]

Later(rotations) == Restrict(rotations, DOMAIN rotations \ {Min(DOMAIN rotations)})

(* mixer_open fails ... *)
MixerNotOpened(t) ==
    /\ Turning(t) /\ done[t] = -1
    /\ call' = [call EXCEPT ![t].rotations = Later(@)]
    /\ UNCHANGED <<vendorVars, mixerVars, done, askedVars, sets>>

(* ... or the controls are set, one by one.  (For the properties: what two    *)
(* threads set at the same time is mixed.)                                    *)
MixerOpened(t) ==
    /\ Turning(t) /\ done[t] = -1
    /\ done' = [done EXCEPT ![t] = 0]
    /\ turned' = IF \E u \in Threads \ {t} : done[u] >= 0
                 THEN "unknown" ELSE Rotation(call[t].rotations)
    /\ UNCHANGED <<vendorVars, positions, call, askedVars, sets>>

Speakers == <<"FL", "FR", "RL", "RR">>

(* Mutant of SlotPositions: 90 and 270 are swapped. *)
SlotPositionsTurnedBack(rotation) ==
    CASE rotation = "0"   -> <<0, 1, 0, 1>>
      [] rotation = "270" -> <<1, 1, 0, 0>>
      [] rotation = "180" -> <<1, 0, 1, 0>>
      [] OTHER            -> <<0, 0, 1, 1>>

SlotPositions(rotation) ==
    CASE rotation = "0"   -> <<0, 1, 0, 1>>
      [] rotation = "90"  -> <<1, 1, 0, 0>>
      [] rotation = "180" -> <<1, 0, 1, 0>>
      [] OTHER            -> <<0, 0, 1, 1>>

(* setMixerValueByName: a control that is missing or refuses the value keeps  *)
(* its slot, and the next ones are set all the same.                          *)
SetMixerValue(t) ==
    LET n == done[t] + 1  rotation == Rotation(call[t].rotations) IN
    /\ done[t] >= 0
    /\ \/ /\ positions' = [positions EXCEPT ![n] = SlotPositions(rotation)[n]]
          /\ UNCHANGED turned
       \/ UNCHANGED positions /\ turned' = "unknown"
    /\ IF n < Len(Speakers)
       THEN done' = [done EXCEPT ![t] = n] /\ UNCHANGED call
       ELSE /\ done' = [done EXCEPT ![t] = -1]
            /\ call' = [call EXCEPT ![t].rotations = Later(@)]
    /\ UNCHANGED <<vendorVars, askedVars, sets>>

(* convertTtyModeToHIDL *)
TtyModeToHIDL(value) ==
    CASE value = "tty_off"  -> "OFF"
      [] value = "tty_vco"  -> "VCO"
      [] value = "tty_hco"  -> "HCO"
      [] value = "tty_full" -> "FULL"
      [] OTHER              -> "INVALID"

(* What a client asks for that sends these values: for a flag or a mode the   *)
(* argument a typed call has for it.                                          *)
Asked(params) ==
    [key \in DOMAIN params |->
        IF key \in FlagKeys THEN params[key] = "on"
        ELSE IF key = "tty_mode" THEN TtyModeToHIDL(params[key]) ELSE params[key]]

(* setParams, at the end; the vendor accepts or refuses. *)
SetCollectedParams(t) ==
    LET c == call[t] IN
    /\ c.active /\ DOMAIN c.rotations = {}
    /\ \/ /\ SetParams(c.target, c.params)
          /\ asked' = [asked EXCEPT ![c.target] = With(@, Asked(c.params))]
          /\ byList' = (byList \/ (c.target = "device" /\ "bt_wbs" \in DOMAIN c.params))
       \/ UNCHANGED <<vendorVars, askedVars>>
    /\ call' = [call EXCEPT ![t] = NoCall]
    /\ UNCHANGED <<mixerVars, done, sets>>

-----------------------------------------------------------------------------
(* The getters, which change nothing. *)

(* getHalStatusToResult, of what AudioParameter::get and getInt return. *)
GetHalStatusToResult(status) ==
    CASE status = "OK"        -> "OK"
      [] status = "BAD_VALUE" -> "NOT_SUPPORTED"
      [] OTHER                -> "INVALID_ARGUMENTS"

(* getParam *)
GetParam(target, key) ==
    LET values == Answers(target) IN
    [result |-> GetHalStatusToResult(IF key \in DOMAIN values THEN "OK" ELSE "BAD_VALUE"),
     value  |-> IF key \in DOMAIN values THEN values[key] ELSE ""]

(* getParam of a flag; what is not off is on. *)
GetFlag(target, key) ==
    LET p == GetParam(target, key) IN
    [result |-> IF p.result = "OK" /\ p.value = "" THEN "NOT_SUPPORTED" ELSE p.result,
     value  |-> p.result = "OK" /\ p.value # "" /\ p.value # "off"]

GetTtyMode ==
    LET p == GetParam("device", "tty_mode")  mode == TtyModeToHIDL(p.value) IN
    IF p.result # "OK" THEN [result |-> p.result, value |-> "OFF"]
    ELSE IF mode = "INVALID" THEN [result |-> "INVALID_STATE", value |-> "OFF"]
    ELSE [result |-> "OK", value |-> mode]

(* Stream's getDevices *)
GetDevices == GetParam("stream", "routing")

(* getParameters: all that the vendor knows of the keys. *)
GetParameters(target, keys) ==
    LET found == Restrict(Answers(target), keys \cap DOMAIN Answers(target)) IN
    [result |-> IF keys = {} \/ found # <<>> THEN "OK" ELSE "NOT_SUPPORTED", values |-> found]

-----------------------------------------------------------------------------
ParametersInit ==
    /\ reads \in {"bt_wbs", "g_sco_samplerate"} /\ wideband = FALSE
    /\ told = [target \in Targets |-> <<>>]
    /\ positions = SlotPositions("0") /\ turned = "0"
    /\ call = [t \in Threads |-> NoCall] /\ done = [t \in Threads |-> -1]
    /\ asked = [target \in Targets |-> <<>>] /\ byList = FALSE
    /\ sets = 0

ParametersNext ==
    \/ \E v \in DeviceValues : SetParam("device", v)
    \/ \E v \in StreamValues : SetParam("stream", v)
    \/ \E address \in Addresses :
         \/ SetDevices(<<address>>)
         \/ \E connected \in BOOLEAN : SetConnectedState(address, connected)
    \/ SetDevices(<<>>)
    \/ \E t \in Threads :
         \/ \E target \in Targets, list \in ParameterLists : SetParameters(t, target, list)
         \/ MixerNotOpened(t) \/ MixerOpened(t) \/ SetMixerValue(t)
         \/ SetCollectedParams(t)

-----------------------------------------------------------------------------
(* Properties. *)

(* The vendor's flag follows the codec that was negotiated, whichever        *)
(* library is installed: "the flag tracks the codec negotiated by the        *)
(* Bluetooth stack dynamically".  Of the two calls that set it only          *)
(* setParameters reaches the library that was not patched.                   *)
WidebandFollowsCodec ==
    "bt_wbs" \in DOMAIN asked["device"] /\ (reads = "bt_wbs" \/ byList) =>
        wideband = asked["device"]["bt_wbs"]

(* An unpatched library has no bt_wbs to read: getBtScoWidebandEnabled is not *)
(* supported with it, whatever was set.                                       *)
Readable(key) == key \in Flags /\ (key = "bt_wbs" => reads = "bt_wbs")

(* What was set by one call is what another reads back, through both         *)
(* conversions and whichever way it was set, the codec of a call from the    *)
(* flag that follows it; but for the codec with an unpatched library.        *)
ReadsBack ==
    /\ \A key \in DOMAIN asked["device"] : Readable(key) =>
          GetFlag("device", key) = [result |-> "OK", value |-> asked["device"][key]]
    /\ "tty_mode" \in DOMAIN asked["device"] =>
          GetTtyMode = [result |-> "OK", value |-> asked["device"]["tty_mode"]]
    /\ "routing" \in DOMAIN asked["stream"] =>
          GetDevices = [result |-> "OK", value |-> asked["stream"]["routing"]]

(* The speakers stand in a ring around the screen and the sound turns with   *)
(* it: a quarter turn gives each speaker the channel of the next one, and    *)
(* upright the left ones have slot 0.  So it is whenever no call sets the    *)
(* controls, unless one of them failed or two calls set them at once.        *)
Ring == <<1, 2, 4, 3>>  \* FL, FR, RR, RL

QuarterTurns == [rotation \in Rotations |->
    CASE rotation = "0" -> 0 [] rotation = "90" -> 1 [] rotation = "180" -> 2 [] OTHER -> 3]

Upright == [i \in 1..4 |-> IF Speakers[i] \in {"FL", "RL"} THEN 0 ELSE 1]

SoundTurnsWithScreen ==
    (\A t \in Threads : done[t] = -1) /\ turned # "unknown" =>
        \A i \in 0..3 :
            positions[Ring[i + 1]] = Upright[Ring[((i + QuarterTurns[turned]) % 4) + 1]]

=============================================================================
