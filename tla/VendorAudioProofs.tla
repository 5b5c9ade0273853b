-------------------------- MODULE VendorAudioProofs ---------------------------
(***************************************************************************)
(* The vendor's audio library, proved for any number of sites, threads,    *)
(* lists of parameters, handles and sinks: no library is ever half         *)
(* patched; what it is told when it is in use is what the client asked     *)
(* for, and the screen, the codec and the sinks are treated as they must.  *)
(*                                                                         *)
(* The library: the site bytes of the data a script is about to write are  *)
(* all new; so what it has written is the fixed library or lacks the rest. *)
(* And what it found before it checked the sites is what is in the file.   *)
(***************************************************************************)
EXTENDS VendorAudio, TLAPS, WellFoundedInduction


Steps == {"none", "extracted", "patch", "open", "write", "done", "failed"}

(* A library or a prefix of one. *)
Shaped(f) ==
    /\ f \in Seq(Bytes \cup {Rest}) /\ Len(f) <= Sites + 1
    /\ \A i \in DOMAIN f : i = Sites + 1 => f[i] = Rest

Replaced(f) == \A i \in DOMAIN f : i <= Sites => f[i] = "new"

NeverHalf(f) == Whole(f) => f = Fixed \/ \A i \in 1..Sites : f[i] # "new"

(* The inductive invariant. *)
FixupInv ==
    /\ Shaped(file) /\ Shaped(data) /\ script \in Steps
    /\ script = "patch" => data = file
    /\ script \in {"open", "write"} => Replaced(data)
    /\ NeverHalf(file)

-----------------------------------------------------------------------------
(* A library of known sites is one. *)
LEMMA LibraryShaped ==
    ASSUME NEW b \in [1..Sites -> Bytes]
    PROVE  Shaped(Library(b)) /\ Whole(Library(b))
BY SitesAssumption DEF Shaped, Library, Whole, Bytes, Rest

(* A whole file whose sites are all replaced is the fixed library.           *)
LEMMA ReplacedIsFixed ==
    ASSUME NEW f, Shaped(f), Replaced(f), Whole(f)
    PROVE  f = Fixed
<1>1. DOMAIN f = 1..(Sites + 1) /\ f = [i \in 1..(Sites + 1) |-> f[i]]
  BY SitesAssumption DEF Shaped, Whole
<1>2. ASSUME NEW i \in 1..(Sites + 1)
      PROVE  f[i] = IF i \in 1..Sites THEN "new" ELSE Rest
  <2>1. i \in DOMAIN f /\ (i \in 1..Sites <=> i <= Sites) /\ (i \notin 1..Sites => i = Sites + 1)
    BY <1>1, SitesAssumption
  <2>2. (i <= Sites => f[i] = "new") /\ (i = Sites + 1 => f[i] = Rest)
    BY <2>1 DEF Shaped, Replaced
  <2> QED BY <2>1, <2>2
<1>3. Fixed = [i \in 1..(Sites + 1) |-> IF i \in 1..Sites THEN "new" ELSE Rest]
  BY SitesAssumption DEF Fixed, Library
<1> QED BY <1>1, <1>2, <1>3

(* What was written so far has the shape of the data, and is whole only if   *)
(* it is all of it.                                                          *)
LEMMA PrefixShaped ==
    ASSUME NEW f, Shaped(f), NEW n \in 1..Len(f)
    PROVE  /\ Shaped(SubSeq(f, 1, n))
           /\ Replaced(f) => NeverHalf(SubSeq(f, 1, n))
<1> DEFINE g == SubSeq(f, 1, n)
<1>1. /\ g \in Seq(Bytes \cup {Rest}) /\ Len(g) = n /\ DOMAIN g = 1..n
      /\ \A i \in 1..n : g[i] = f[i] /\ i \in DOMAIN f
  BY DEF Shaped
<1>2. Shaped(g)
  BY <1>1, SitesAssumption DEF Shaped
<1>3. ASSUME Replaced(f), Whole(g) PROVE g = Fixed
  <2>1. Replaced(g)
    BY <1>1, <1>3 DEF Replaced
  <2> QED BY <1>2, <1>3, <2>1, ReplacedIsFixed
<1> QED BY <1>2, <1>3 DEF NeverHalf

-----------------------------------------------------------------------------
LEMMA FixupInitEstablishes == FixupInit => FixupInv
BY SitesAssumption DEF FixupInit, FixupInv, Shaped, Steps, NeverHalf, Whole

LEMMA FixupPreserves == FixupInv /\ [Fixup]_fixupVars => FixupInv'
<1> SUFFICES ASSUME FixupInv, [Fixup]_fixupVars PROVE FixupInv'
  OBVIOUS
<1> USE SitesAssumption
<1>1. CASE Extract
  <2>1. PICK site \in 0..Sites :
            file' = Library([i \in 1..Sites |-> IF i = site THEN "other" ELSE "old"])
    BY <1>1 DEF Extract
  <2> DEFINE b == [i \in 1..Sites |-> IF i = site THEN "other" ELSE "old"]
  <2>2. b \in [1..Sites -> Bytes]
    BY DEF Bytes
  <2>3. Shaped(file')
    BY <2>1, <2>2, LibraryShaped
  <2>4. \A i \in 1..Sites : file'[i] # "new"
    BY <2>1 DEF Library
  <2>5. script' = "extracted" /\ data' = data
    BY <1>1 DEF Extract
  <2> QED BY <2>3, <2>4, <2>5 DEF FixupInv, NeverHalf, Steps, Shaped
<1>2. CASE StartFixup
  BY <1>2 DEF StartFixup, FixupInv, Shaped, Steps, NeverHalf, Whole
<1>3. CASE Refuse
  BY <1>3 DEF Refuse, FixupInv, Shaped, Steps, NeverHalf, Whole
<1>4. CASE Patch
  <2>1. /\ data' = [i \in DOMAIN data |-> IF At(data, i) = "old" THEN "new" ELSE data[i]]
        /\ script' = "open" /\ file' = file
        /\ \A i \in 1..Sites : Accepted(i)
    BY <1>4 DEF Patch
  <2>2. DOMAIN data = 1..Len(data) /\ Len(data) \in Nat /\ Shaped(data)
    BY DEF FixupInv, Shaped
  <2>3. \A i \in DOMAIN data : data'[i] \in Bytes \cup {Rest}
    BY <2>1, <2>2 DEF Shaped, Bytes
  <2>4. data' \in Seq(Bytes \cup {Rest}) /\ Len(data') = Len(data) /\ DOMAIN data' = DOMAIN data
    BY <2>1, <2>2, <2>3
  <2>5. Shaped(data')
    BY <2>1, <2>2, <2>4 DEF Shaped, At, Rest
  <2>6. Replaced(data')
    BY <2>1, <2>2, <2>4 DEF Replaced, Accepted, At
  <2> QED BY <2>1, <2>5, <2>6 DEF FixupInv, Steps, NeverHalf, Whole, Shaped
<1>5. CASE Truncate
  BY <1>5 DEF Truncate, FixupInv, Shaped, Steps, NeverHalf, Whole
<1>6. CASE Write
  <2>1. PICK n \in 1..Len(data) : file' = SubSeq(data, 1, n)
    BY <1>6 DEF Write
  <2>2. Shaped(data) /\ Replaced(data) /\ script = "write"
    BY <1>6 DEF Write, FixupInv
  <2>3. Shaped(file') /\ NeverHalf(file')
    BY <2>1, <2>2, PrefixShaped
  <2>4. \/ script' = "done" /\ data' = <<>>
        \/ script' = script /\ data' = data
    BY <1>6 DEF Write
  <2>5. Shaped(<<>>)
    BY DEF Shaped
  <2> QED BY <2>2, <2>3, <2>4, <2>5 DEF FixupInv, Steps
<1>7. CASE Interrupt
  BY <1>7 DEF Interrupt, FixupInv, Shaped, Steps, NeverHalf, Whole
<1>8. CASE UNCHANGED fixupVars
  BY <1>8 DEF fixupVars, FixupInv, Shaped, NeverHalf, Whole, Replaced
<1> QED BY <1>1, <1>2, <1>3, <1>4, <1>5, <1>6, <1>7, <1>8 DEF Fixup

(* However often the fixup is run, and wherever it is interrupted, a whole   *)
(* library is as it was extracted or entirely fixed.                         *)
THEOREM NoLibraryHalfPatched == FixupSpec => []NeverHalfPatched
<1>1. FixupInv => NeverHalfPatched
  BY DEF FixupInv, NeverHalf, NeverHalfPatched
<1> QED BY FixupInitEstablishes, FixupPreserves, <1>1, PTL DEF FixupSpec

-----------------------------------------------------------------------------
(* Sets of numbers. *)

(* Every set of naturals that is not empty has a least element. *)
LEMMA LeastNatural ==
    ASSUME NEW S \in SUBSET Nat, S # {}
    PROVE  \E n \in S : \A m \in S : n <= m
<1>1. PICK n \in S : \A m \in S : <<m, n>> \notin OpToRel(<, Nat)
  BY WFMin, NatLessThanWellFounded, Zenon
<1>2. \A m \in S : ~(m < n)
  BY <1>1, Zenon DEF OpToRel
<1> QED BY <1>2

LEMMA MinIsElement ==
    ASSUME NEW S \in SUBSET Nat, S # {}
    PROVE  Min(S) \in S
BY LeastNatural DEF Min

LEMMA MaxIsElement ==
    ASSUME NEW n \in Nat, NEW S \in SUBSET (1..n), S # {}
    PROVE  Max(S) \in S
<1> DEFINE T == {n - i : i \in S}
<1>1. T \in SUBSET Nat /\ T # {}
  <2>1. \A i \in S : i \in 1..n /\ n - i \in Nat
    OBVIOUS
  <2> QED BY <2>1
<1>2. PICK k \in T : \A m \in T : k <= m
  BY <1>1, LeastNatural
<1>3. PICK x \in S : k = n - x
  BY <1>2
<1>4. ASSUME NEW y \in S PROVE x >= y
  <2>1. n - y \in T /\ x \in 1..n /\ y \in 1..n
    OBVIOUS
  <2>2. n - x <= n - y
    BY <1>2, <1>3, <2>1
  <2> QED BY <2>1, <2>2
<1> QED BY <1>4 DEF Max

-----------------------------------------------------------------------------
(* What a list of parameters makes the vendor be told. *)

(* The codec comes twice, for either library, or not at all. *)
CodecPaired(params) ==
    /\ "bt_wbs" \in DOMAIN params <=> "g_sco_samplerate" \in DOMAIN params
    /\ "bt_wbs" \in DOMAIN params =>
         (params["g_sco_samplerate"] = "16000" <=> params["bt_wbs"] = "on")

TtyWords == {"tty_off", "tty_vco", "tty_hco", "tty_full"}

Regular(params) ==
    /\ \A key \in FlagKeys \cap DOMAIN params : params[key] \in {"on", "off"}
    /\ "tty_mode" \in DOMAIN params => params["tty_mode"] \in TtyWords

(* Each value comes from one parameter of the list, and the two values of    *)
(* the codec from the same one.                                              *)
LEMMA CollectedRegular ==
    ASSUME NEW list \in ParameterLists
    PROVE  CodecPaired(Collected(list)) /\ Regular(Collected(list))
<1> DEFINE params == Collected(list)
           At2(key) == {i \in DOMAIN list : key \in DOMAIN Collect(list[i])}
           last(key) == Max(At2(key))
<1>1. /\ DOMAIN list = 1..Len(list) /\ Len(list) \in Nat
      /\ \A i \in DOMAIN list :
           /\ list[i].key # "g_sco_samplerate"
           /\ list[i].key \in FlagKeys => list[i].value \in {"on", "off"}
           /\ list[i].key = "tty_mode" => list[i].value \in TtyWords
  BY ListsAssumption DEF TtyWords
<1>2. ASSUME NEW i \in DOMAIN list
      PROVE  /\ list[i].key = "rotation" => DOMAIN Collect(list[i]) = {}
             /\ list[i].key = "bt_wbs" =>
                  /\ DOMAIN Collect(list[i]) = {"g_sco_samplerate", "bt_wbs"}
                  /\ Collect(list[i])["bt_wbs"] = list[i].value
                  /\ Collect(list[i])["g_sco_samplerate"]
                       = IF list[i].value = "on" THEN "16000" ELSE "8000"
             /\ list[i].key \notin {"rotation", "bt_wbs"} =>
                  /\ DOMAIN Collect(list[i]) = {list[i].key}
                  /\ Collect(list[i])[list[i].key] = list[i].value
  BY DEF Collect, With, Param
<1>3. DOMAIN params = UNION {DOMAIN Collect(list[i]) : i \in DOMAIN list}
  BY DEF Collected
<1>4. ASSUME NEW key \in DOMAIN params
      PROVE  /\ last(key) \in DOMAIN list /\ key \in DOMAIN Collect(list[last(key)])
             /\ params[key] = Collect(list[last(key)])[key]
  <2>1. At2(key) # {} /\ At2(key) \in SUBSET (1..Len(list))
    BY <1>1, <1>3
  <2>2. last(key) \in At2(key)
    BY <1>1, <2>1, MaxIsElement
  <2>3. params[key] = Collect(list[last(key)])[key]
    BY <1>3 DEF Collected
  <2> QED BY <2>2, <2>3
<1>5. ASSUME NEW key \in DOMAIN params, key # "g_sco_samplerate"
      PROVE  /\ last(key) \in DOMAIN list /\ list[last(key)].key = key
             /\ params[key] = list[last(key)].value
  <2> DEFINE i == last(key)
  <2>1. i \in DOMAIN list /\ key \in DOMAIN Collect(list[i]) /\ params[key] = Collect(list[i])[key]
    BY <1>4
  <2> HIDE DEF i, params
  <2>2. list[i].key = key
    BY <1>2, <1>5, <2>1
  <2>3. params[key] = list[i].value
    BY <1>2, <1>5, <2>1, <2>2
  <2> QED BY <2>1, <2>2, <2>3 DEF i
<1>6. At2("bt_wbs") = At2("g_sco_samplerate")
  BY <1>1, <1>2
<1>7. "bt_wbs" \in DOMAIN params <=> "g_sco_samplerate" \in DOMAIN params
  BY <1>3, <1>6
<1>8. CodecPaired(params)
  <2> SUFFICES ASSUME "bt_wbs" \in DOMAIN params
               PROVE  params["g_sco_samplerate"] = "16000" <=> params["bt_wbs"] = "on"
    BY <1>7 DEF CodecPaired
  <2> DEFINE i == last("bt_wbs")
  <2>1. i \in DOMAIN list /\ list[i].key = "bt_wbs" /\ params["bt_wbs"] = list[i].value
    BY <1>5
  <2>2. params["g_sco_samplerate"] = Collect(list[i])["g_sco_samplerate"]
    BY <1>4, <1>6, <1>7
  <2> HIDE DEF i, params
  <2>3. params["g_sco_samplerate"] = IF list[i].value = "on" THEN "16000" ELSE "8000"
    BY <1>2, <2>1, <2>2
  <2> QED BY <2>1, <2>3
<1>9. Regular(params)
  <2>1. "g_sco_samplerate" \notin FlagKeys
    BY DEF FlagKeys
  <2>2. ASSUME NEW key \in FlagKeys \cap DOMAIN params PROVE params[key] \in {"on", "off"}
    BY <1>1, <1>5, <2>1, <2>2
  <2>3. ASSUME "tty_mode" \in DOMAIN params PROVE params["tty_mode"] \in TtyWords
    BY <1>1, <1>5, <2>3
  <2> QED BY <2>2, <2>3 DEF Regular
<1> QED BY <1>8, <1>9 DEF params

-----------------------------------------------------------------------------
(* What was told, and what was asked for. *)

(* The value of a key that stands for the argument of the call that set it.  *)
Stands(key, value, argument) ==
    /\ key \in FlagKeys => /\ value \in {"on", "off"} /\ argument \in BOOLEAN
                           /\ argument <=> value = "on"
    /\ key = "tty_mode" => value \in TtyWords /\ argument = TtyModeToHIDL(value)
    /\ key = "routing" => argument = value

ReadKeys == FlagKeys \cup {"tty_mode", "routing"}

Agrees(params, means) ==
    \A key \in ReadKeys :
        /\ key \in DOMAIN params <=> key \in DOMAIN means
        /\ key \in DOMAIN means => Stands(key, params[key], means[key])

VendorTypes ==
    /\ reads \in {"bt_wbs", "g_sco_samplerate"}
    /\ wideband \in BOOLEAN /\ byList \in BOOLEAN
    /\ told = [target \in Targets |-> told[target]]
    /\ asked = [target \in Targets |-> asked[target]]

CodecInv ==
    "bt_wbs" \in DOMAIN asked["device"] /\ (reads = "bt_wbs" \/ byList) =>
        (wideband <=> told["device"]["bt_wbs"] = "on")

ToldInv ==
    /\ VendorTypes /\ CodecInv
    /\ \A target \in Targets : Agrees(told[target], asked[target])

LEMMA AgreesWith ==
    ASSUME NEW params, NEW means, Agrees(params, means),
           NEW params2, NEW means2, Agrees(params2, means2)
    PROVE  Agrees(With(params, params2), With(means, means2))
<1> SUFFICES ASSUME NEW key \in ReadKeys
             PROVE  /\ key \in DOMAIN With(params, params2) <=> key \in DOMAIN With(means, means2)
                    /\ key \in DOMAIN With(means, means2) =>
                         Stands(key, With(params, params2)[key], With(means, means2)[key])
  BY DEF Agrees
<1>1. /\ key \in DOMAIN params <=> key \in DOMAIN means
      /\ key \in DOMAIN means => Stands(key, params[key], means[key])
      /\ key \in DOMAIN params2 <=> key \in DOMAIN means2
      /\ key \in DOMAIN means2 => Stands(key, params2[key], means2[key])
  BY DEF Agrees
<1>2. CASE key \in DOMAIN means2
  BY <1>1, <1>2 DEF With
<1>3. CASE key \notin DOMAIN means2
  BY <1>1, <1>3 DEF With
<1> QED BY <1>2, <1>3

(* Telling the vendor what stands for what is asked keeps them in agreement; *)
(* the codec, too, when both values come or the other way is not relied on.  *)
LEMMA TellingKeeps ==
    ASSUME ToldInv, NEW target \in Targets, NEW params, NEW means, Agrees(params, means),
           SetParams(target, params),
           asked' = [asked EXCEPT ![target] = With(@, means)],
           byList' \in BOOLEAN,
           target # "device" \/ "bt_wbs" \notin DOMAIN params => (byList' => byList),
           target = "device" /\ "bt_wbs" \notin DOMAIN params =>
               "g_sco_samplerate" \notin DOMAIN params,
           target = "device" /\ "bt_wbs" \in DOMAIN params /\ byList' => CodecPaired(params)
    PROVE  ToldInv'
<1>1. /\ told'[target] = With(told[target], params)
      /\ asked'[target] = With(asked[target], means)
      /\ \A other \in Targets \ {target} : told'[other] = told[other] /\ asked'[other] = asked[other]
      /\ told' = [other \in Targets |-> told'[other]]
      /\ asked' = [other \in Targets |-> asked'[other]]
  BY DEF ToldInv, VendorTypes, SetParams
<1>2. /\ reads' = reads
      /\ wideband' = IF target = "device" /\ reads \in DOMAIN params THEN Wideband(params) ELSE wideband
  BY DEF SetParams
<1>3. VendorTypes'
  BY <1>1, <1>2 DEF ToldInv, VendorTypes, Wideband
<1>4. \A other \in Targets : Agrees(told'[other], asked'[other])
  BY <1>1, AgreesWith DEF ToldInv
<1>5. CodecInv'
  <2>1. CASE target # "device"
    BY <1>1, <1>2, <2>1 DEF ToldInv, VendorTypes, CodecInv, Targets
  <2>2. CASE target = "device" /\ "bt_wbs" \notin DOMAIN params
    <3>1. "bt_wbs" \notin DOMAIN means
      BY <2>2 DEF Agrees, ReadKeys, FlagKeys
    <3>2. "bt_wbs" \in DOMAIN asked'["device"] => "bt_wbs" \in DOMAIN asked["device"]
      BY <1>1, <2>2, <3>1 DEF With
    <3>3. "bt_wbs" \in DOMAIN asked["device"] => "bt_wbs" \in DOMAIN told["device"]
      BY DEF ToldInv, Agrees, ReadKeys, FlagKeys, Targets
    <3>4. "bt_wbs" \in DOMAIN told["device"] => told'["device"]["bt_wbs"] = told["device"]["bt_wbs"]
      BY <1>1, <2>2 DEF With
    <3>5. wideband' = wideband
      BY <1>2, <2>2 DEF ToldInv, VendorTypes
    <3> QED BY <1>2, <2>2, <3>2, <3>3, <3>4, <3>5 DEF ToldInv, VendorTypes, CodecInv
  <2>3. CASE target = "device" /\ "bt_wbs" \in DOMAIN params
    <3>1. told'["device"]["bt_wbs"] = params["bt_wbs"]
      BY <1>1, <2>3 DEF With
    <3>2. CASE reads = "bt_wbs"
      BY <1>2, <2>3, <3>1, <3>2 DEF CodecInv, Wideband
    <3>3. CASE reads # "bt_wbs" /\ byList'
      <4>1. reads = "g_sco_samplerate"
        BY <3>3 DEF ToldInv, VendorTypes
      <4>2. /\ "g_sco_samplerate" \in DOMAIN params
            /\ params["g_sco_samplerate"] = "16000" <=> params["bt_wbs"] = "on"
        BY <2>3, <3>3 DEF CodecPaired
      <4> QED BY <1>2, <2>3, <3>1, <4>1, <4>2 DEF CodecInv, Wideband
    <3>4. CASE reads # "bt_wbs" /\ ~byList'
      BY <1>2, <3>4 DEF CodecInv
    <3> QED BY <3>2, <3>3, <3>4
  <2> QED BY <2>1, <2>2, <2>3
<1> QED BY <1>3, <1>4, <1>5 DEF ToldInv

(* What a list sends stands for what it asks for. *)
LEMMA ListsAgree ==
    ASSUME NEW params, Regular(params)
    PROVE  Agrees(params, Asked(params))
<1> SUFFICES ASSUME NEW key \in ReadKeys, key \in DOMAIN params
             PROVE  Stands(key, params[key], Asked(params)[key])
  BY DEF Agrees, Asked
<1>1. CASE key \in FlagKeys
  BY <1>1 DEF Stands, Asked, Regular, FlagKeys
<1>2. CASE key = "tty_mode"
  BY <1>2 DEF Stands, Asked, Regular, FlagKeys
<1>3. CASE key = "routing"
  BY <1>3 DEF Stands, Asked, FlagKeys
<1> QED BY <1>1, <1>2, <1>3 DEF ReadKeys

(* So does what a typed call sends. *)
LEMMA ValuesAgree ==
    ASSUME NEW v \in DeviceValues \cup StreamValues
    PROVE  Agrees(Param(v.key, v.value), Param(v.key, v.argument))
<1>1. Stands(v.key, v.value, v.argument)
  <2>1. CASE v \in FlagValues
    <3>1. PICK key \in Flags, flag \in BOOLEAN : v = Value(key, flag, IF flag THEN "on" ELSE "off")
      BY <2>1 DEF FlagValues
    <3>2. key \in FlagKeys
      BY ParametersAssumption
    <3>3. v.key = key /\ v.argument = flag /\ v.value = IF flag THEN "on" ELSE "off"
      BY <3>1 DEF Value
    <3> QED BY <3>2, <3>3 DEF Stands, FlagKeys
  <2>2. CASE v \in TtyValues
    BY <2>2 DEF TtyValues, TtyModes, Value, Stands, FlagKeys, TtyWords, TtyModeFromHIDL, TtyModeToHIDL
  <2>3. CASE v \in HfpVolumes
    BY <2>3 DEF HfpVolumes, Value, Stands, FlagKeys
  <2>4. CASE v \in RotationValues
    BY <2>4 DEF RotationValues, Value, Stands, FlagKeys
  <2>5. CASE v \in PlainValues \cup StreamValues
    BY <2>5 DEF PlainValues, StreamValues, Value, Stands, FlagKeys
  <2> QED BY <2>1, <2>2, <2>3, <2>4, <2>5 DEF DeviceValues
<1> QED BY <1>1 DEF Agrees, Param

-----------------------------------------------------------------------------
(* The calls of setParameters, and the mixer. *)

WellFormed(c) ==
    /\ c = [active |-> c.active, target |-> c.target, params |-> c.params,
            rotations |-> c.rotations]
    /\ c.target \in Targets
    /\ DOMAIN c.rotations \in SUBSET Nat
    /\ \A i \in DOMAIN c.rotations : c.rotations[i] \in Rotations
    /\ CodecPaired(c.params) /\ Regular(c.params)

CallInv ==
    /\ call = [t \in Threads |-> call[t]]
    /\ \A t \in Threads : WellFormed(call[t])

(* A thread that sets the controls has a rotation to set.  Unless something  *)
(* went wrong one at most sets them, and those it has set are as the         *)
(* rotation says; with none all of them are.                                 *)
MixerInv ==
    /\ positions = [n \in 1..4 |-> positions[n]]
    /\ turned \in Rotations \cup {"unknown"}
    /\ done \in [Threads -> -1..3]
    /\ \A t \in Threads : done[t] >= 0 => Turning(t)
    /\ turned # "unknown" =>
         /\ \A t, u \in Threads : done[t] >= 0 /\ done[u] >= 0 => t = u
         /\ (\A t \in Threads : done[t] = -1) => positions = SlotPositions(turned)
         /\ \A t \in Threads : done[t] >= 0 =>
              /\ Rotation(call[t].rotations) = turned
              /\ \A n \in 1..done[t] : positions[n] = SlotPositions(turned)[n]

LEMMA RotationsFollow ==
    ASSUME NEW c, WellFormed(c), DOMAIN c.rotations # {}
    PROVE  /\ Rotation(c.rotations) \in Rotations
           /\ WellFormed([c EXCEPT !.rotations = Later(@)])
<1>1. Min(DOMAIN c.rotations) \in DOMAIN c.rotations
  BY MinIsElement DEF WellFormed
<1>2. Rotation(c.rotations) \in Rotations
  BY <1>1 DEF Rotation, WellFormed
<1>3. /\ DOMAIN Later(c.rotations) \in SUBSET Nat
      /\ \A i \in DOMAIN Later(c.rotations) : Later(c.rotations)[i] \in Rotations
  BY DEF Later, Restrict, WellFormed
<1>4. WellFormed([active |-> c.active, target |-> c.target, params |-> c.params,
                  rotations |-> Later(c.rotations)])
  BY <1>3 DEF WellFormed
<1>5. [c EXCEPT !.rotations = Later(@)]
           = [active |-> c.active, target |-> c.target, params |-> c.params,
              rotations |-> Later(c.rotations)]
  <2>1. PICK active, target, params, rotations :
            c = [active |-> active, target |-> target, params |-> params,
                 rotations |-> rotations]
    BY DEF WellFormed
  <2>2. c \in [active : {active}, target : {target}, params : {params}, rotations : {rotations}]
    BY <2>1
  <2> QED BY <2>2
<1> QED BY <1>2, <1>4, <1>5

LEMMA NoCallWellFormed == WellFormed(NoCall)
<1>1. DOMAIN <<>> = {}
  OBVIOUS
<1> QED BY <1>1 DEF NoCall, WellFormed, CodecPaired, Regular, FlagKeys, Targets

(* The slots of a rotation are four numbers. *)
LEMMA SlotsAreFour ==
    ASSUME NEW rotation
    PROVE  SlotPositions(rotation) = [n \in 1..4 |-> SlotPositions(rotation)[n]]
BY DEF SlotPositions

(* What a call becomes as its steps are taken. *)
LEMMA CallsChange ==
    ASSUME CallInv, NEW t \in Threads, NEW c, WellFormed(c), call' = [call EXCEPT ![t] = c]
    PROVE  /\ CallInv' /\ call'[t] = c
           /\ \A u \in Threads : u # t => call'[u] = call[u] /\ (Turning(u)' <=> Turning(u))
<1>1. call'[t] = c /\ \A u \in Threads : u # t => call'[u] = call[u]
  BY DEF CallInv
<1>2. CallInv'
  BY <1>1 DEF CallInv
<1> QED BY <1>1, <1>2 DEF Turning

LEMMA CallsBegin ==
    ASSUME CallInv, MixerInv, NEW t \in Threads, NEW target \in Targets,
           NEW list \in ParameterLists, SetParameters(t, target, list)
    PROVE  CallInv' /\ MixerInv'
<1> DEFINE turns == {i \in DOMAIN list : list[i].key = "rotation" /\ list[i].value \in Rotations}
           c == [active |-> TRUE, target |-> target, params |-> Collected(list),
                 rotations |-> [i \in turns |-> list[i].value]]
<1>1. call' = [call EXCEPT ![t] = c] /\ ~call[t].active /\ UNCHANGED <<mixerVars, done>>
  BY DEF SetParameters
<1>2. DOMAIN list \in SUBSET Nat
  BY ListsAssumption
<1>3. WellFormed(c)
  BY <1>2, CollectedRegular DEF WellFormed
<1> HIDE DEF c
<1>4. CallInv' /\ \A u \in Threads : u # t => call'[u] = call[u] /\ (Turning(u)' <=> Turning(u))
  BY <1>1, <1>3, CallsChange
<1>5. ~(done[t] >= 0)
  BY <1>1 DEF MixerInv, Turning
<1> QED BY <1>1, <1>4, <1>5 DEF MixerInv, mixerVars

LEMMA MixerMayFail ==
    ASSUME CallInv, MixerInv, NEW t \in Threads, MixerNotOpened(t)
    PROVE  CallInv' /\ MixerInv'
<1> DEFINE c == [call[t] EXCEPT !.rotations = Later(@)]
<1>1. /\ call' = [call EXCEPT ![t] = c] /\ DOMAIN call[t].rotations # {}
      /\ done[t] = -1 /\ UNCHANGED <<mixerVars, done>>
  BY DEF MixerNotOpened, Turning
<1>2. WellFormed(c)
  BY <1>1, RotationsFollow DEF CallInv
<1> HIDE DEF c
<1>3. CallInv' /\ \A u \in Threads : u # t => call'[u] = call[u] /\ (Turning(u)' <=> Turning(u))
  BY <1>1, <1>2, CallsChange
<1> QED BY <1>1, <1>3 DEF MixerInv, mixerVars

LEMMA MixerOpens ==
    ASSUME CallInv, MixerInv, NEW t \in Threads, MixerOpened(t)
    PROVE  CallInv' /\ MixerInv'
<1>1. /\ done' = [done EXCEPT ![t] = 0] /\ Turning(t) /\ done[t] = -1
      /\ turned' = IF \E u \in Threads \ {t} : done[u] >= 0 THEN "unknown"
                   ELSE Rotation(call[t].rotations)
      /\ positions' = positions /\ call' = call
  BY DEF MixerOpened
<1>2. Rotation(call[t].rotations) \in Rotations
  BY <1>1, RotationsFollow DEF CallInv, Turning
<1>3. /\ done' \in [Threads -> -1..3] /\ done'[t] = 0
      /\ \A u \in Threads : u # t => done'[u] = done[u]
  BY <1>1 DEF MixerInv
<1>4. \A u \in Threads : Turning(u)' <=> Turning(u)
  BY <1>1 DEF Turning
<1>5. CallInv'
  BY <1>1 DEF CallInv
<1>6. CASE \E u \in Threads \ {t} : done[u] >= 0
  BY <1>1, <1>3, <1>4, <1>5, <1>6 DEF MixerInv
<1>7. CASE ~\E u \in Threads \ {t} : done[u] >= 0
  <2>1. turned' = Rotation(call[t].rotations) /\ 1..done'[t] = {}
    BY <1>1, <1>3, <1>7
  <2>2. \A u \in Threads : done'[u] >= 0 => u = t
    BY <1>3, <1>7
  <2>3. ~\A u \in Threads : done'[u] = -1
    BY <1>3
  <2> QED BY <1>1, <1>2, <1>3, <1>4, <1>5, <2>1, <2>2, <2>3 DEF MixerInv
<1> QED BY <1>6, <1>7

LEMMA SlotsAreSet ==
    ASSUME CallInv, MixerInv, NEW t \in Threads, SetMixerValue(t)
    PROVE  CallInv' /\ MixerInv'
<1> DEFINE n == done[t] + 1
           rotation == Rotation(call[t].rotations)
<1>1. /\ done[t] \in 0..3 /\ Turning(t) /\ DOMAIN call[t].rotations # {} /\ n \in 1..4
      /\ WellFormed(call[t])
  BY DEF SetMixerValue, MixerInv, Turning, CallInv
<1>2. Len(Speakers) = 4
  BY DEF Speakers
<1>3. \/ /\ positions' = [positions EXCEPT ![n] = SlotPositions(rotation)[n]]
         /\ turned' = turned
      \/ positions' = positions /\ turned' = "unknown"
  BY DEF SetMixerValue
<1>4. positions' = [k \in 1..4 |-> positions'[k]] /\ turned' \in Rotations \cup {"unknown"}
  BY <1>3 DEF MixerInv
<1>5. ASSUME turned' # "unknown"
      PROVE  /\ turned' = turned /\ turned = rotation
             /\ \A k \in 1..n : positions'[k] = SlotPositions(turned)[k]
             /\ \A u \in Threads : u # t => ~(done[u] >= 0)
  BY <1>1, <1>3, <1>5 DEF MixerInv
<1>6. CASE n < 4
  <2>1. done' = [done EXCEPT ![t] = n] /\ call' = call
    BY <1>2, <1>6 DEF SetMixerValue
  <2>2. /\ done' \in [Threads -> -1..3] /\ done'[t] = n
        /\ \A u \in Threads : u # t => done'[u] = done[u]
    BY <1>1, <1>6, <2>1 DEF MixerInv
  <2>3. \A u \in Threads : Turning(u)' <=> Turning(u)
    BY <2>1 DEF Turning
  <2>4. \A u \in Threads : done'[u] >= 0 => Turning(u)'
    BY <1>1, <2>2, <2>3 DEF MixerInv
  <2>5. ASSUME turned' # "unknown"
        PROVE  /\ \A u \in Threads : done'[u] >= 0 => u = t
               /\ ~\A u \in Threads : done'[u] = -1
    BY <1>1, <1>5, <2>2, <2>5
  <2>6. CallInv'
    BY <2>1 DEF CallInv
  <2> QED BY <1>4, <1>5, <2>1, <2>2, <2>4, <2>5, <2>6 DEF MixerInv
<1>7. CASE n = 4
  <2> DEFINE c == [call[t] EXCEPT !.rotations = Later(@)]
  <2>1. done' = [done EXCEPT ![t] = -1] /\ call' = [call EXCEPT ![t] = c]
    BY <1>2, <1>7 DEF SetMixerValue
  <2>2. WellFormed(c)
    BY <1>1, RotationsFollow
  <2> HIDE DEF c
  <2>3. CallInv' /\ \A u \in Threads : u # t => call'[u] = call[u] /\ (Turning(u)' <=> Turning(u))
    BY <2>1, <2>2, CallsChange
  <2>4. /\ done' \in [Threads -> -1..3] /\ done'[t] = -1
        /\ \A u \in Threads : u # t => done'[u] = done[u]
    BY <2>1 DEF MixerInv
  <2>5. \A u \in Threads : done'[u] >= 0 => Turning(u)'
    BY <2>3, <2>4 DEF MixerInv
  <2>6. ASSUME turned' # "unknown"
        PROVE  /\ \A u \in Threads : ~(done'[u] >= 0)
               /\ positions' = SlotPositions(turned')
    <3>1. \A k \in 1..4 : positions'[k] = SlotPositions(turned')[k]
      BY <1>5, <1>7, <2>6
    <3> QED BY <1>4, <1>5, <2>4, <2>6, <3>1, SlotsAreFour
  <2> QED BY <1>4, <2>3, <2>4, <2>5, <2>6 DEF MixerInv
<1> QED BY <1>1, <1>6, <1>7

LEMMA CallsEnd ==
    ASSUME CallInv, MixerInv, ToldInv, NEW t \in Threads, SetCollectedParams(t)
    PROVE  CallInv' /\ MixerInv' /\ ToldInv'
<1>1. /\ call' = [call EXCEPT ![t] = NoCall] /\ UNCHANGED <<mixerVars, done>>
      /\ DOMAIN call[t].rotations = {}
  BY DEF SetCollectedParams
<1>2. CallInv' /\ \A u \in Threads : u # t => call'[u] = call[u] /\ (Turning(u)' <=> Turning(u))
  BY <1>1, NoCallWellFormed, CallsChange
<1>3. ~(done[t] >= 0)
  BY <1>1 DEF MixerInv, Turning
<1>4. MixerInv'
  BY <1>1, <1>2, <1>3 DEF MixerInv, mixerVars
<1>5. ToldInv'
  <2> DEFINE target == call[t].target
             params == call[t].params
  <2>1. target \in Targets /\ CodecPaired(params) /\ Regular(params)
    BY DEF CallInv, WellFormed
  <2>2. Agrees(params, Asked(params))
    BY <2>1, ListsAgree
  <2>3. CASE /\ SetParams(target, params)
             /\ asked' = [asked EXCEPT ![target] = With(@, Asked(params))]
             /\ byList' = (byList \/ (target = "device" /\ "bt_wbs" \in DOMAIN params))
    <3>1. byList' \in BOOLEAN
      BY <2>3 DEF ToldInv, VendorTypes
    <3>2. target # "device" \/ "bt_wbs" \notin DOMAIN params => (byList' => byList)
      BY <2>3
    <3> HIDE DEF target, params
    <3> QED BY <2>1, <2>2, <2>3, <3>1, <3>2, TellingKeeps DEF CodecPaired
  <2>4. CASE UNCHANGED <<vendorVars, askedVars>>
    BY <2>4 DEF vendorVars, askedVars, ToldInv, VendorTypes, CodecInv
  <2> QED BY <2>3, <2>4 DEF SetCollectedParams
<1> QED BY <1>2, <1>4, <1>5

LEMMA TypedCallsTell ==
    ASSUME ToldInv, NEW target \in Targets, NEW v \in DeviceValues \cup StreamValues,
           SetParam(target, v)
    PROVE  ToldInv'
<1> DEFINE params == Param(v.key, v.value)
           means == Param(v.key, v.argument)
<1>1. /\ SetParams(target, params) /\ asked' = [asked EXCEPT ![target] = With(@, means)]
      /\ byList' = (byList /\ v.key # "bt_wbs")
  BY DEF SetParam
<1>2. Agrees(params, means)
  BY ValuesAgree
<1>3. v.key # "g_sco_samplerate"
  BY ParametersAssumption
     DEF DeviceValues, FlagValues, TtyValues, HfpVolumes, RotationValues, PlainValues,
         StreamValues, Value, FlagKeys
<1>4. DOMAIN params = {v.key}
  BY DEF Param
<1>5. byList' \in BOOLEAN /\ (byList' => byList) /\ (byList' => v.key # "bt_wbs")
  BY <1>1 DEF ToldInv, VendorTypes
<1> HIDE DEF params, means
<1> QED BY <1>1, <1>2, <1>3, <1>4, <1>5, TellingKeeps

LEMMA AddressesTell ==
    ASSUME ToldInv, NEW target \in Targets, NEW key \in {"routing", "connect", "disconnect"},
           NEW address \in Addresses \cup {[type |-> "NONE", address |-> <<>>]},
           SetParamOfAddress(target, key, address)
    PROVE  ToldInv'
<1> DEFINE params == With(address.address, Param(key, address.type))
           means == Param(key, address.type)
<1>1. /\ SetParams(target, params) /\ asked' = [asked EXCEPT ![target] = With(@, means)]
      /\ byList' = byList
  BY DEF SetParamOfAddress
<1>2. DOMAIN address.address \subseteq {"card"}
  <2>1. DOMAIN <<>> = {}
    OBVIOUS
  <2> QED BY <2>1 DEF Addresses
<1>3. /\ DOMAIN params \subseteq {"card", key} /\ key \in DOMAIN params
      /\ params[key] = address.type
  BY <1>2 DEF With, Param
<1>4. DOMAIN means = {key} /\ means[key] = address.type
  BY DEF Param
<1>5. byList' \in BOOLEAN /\ (byList' => byList)
  BY <1>1 DEF ToldInv, VendorTypes
<1> HIDE DEF params, means
<1>6. Agrees(params, means)
  BY <1>3, <1>4 DEF Agrees, ReadKeys, FlagKeys, Stands
<1>7. "bt_wbs" \notin DOMAIN params /\ "g_sco_samplerate" \notin DOMAIN params
  BY <1>3
<1> QED BY <1>1, <1>5, <1>6, <1>7, TellingKeeps

-----------------------------------------------------------------------------
(* The patches. *)

(* What is dropped from a list leaves the rest of it where it is. *)
LEMMA DroppedSinks ==
    ASSUME NEW sinks
    PROVE  LET made == DropScoSinksWhenPairedWithSpeaker(sinks) IN
           /\ ~(Has(made, {"SPEAKER"}) /\ Has(made, ScoSinks))
           /\ WithoutSco(made) = WithoutSco(sinks)
           /\ Has(sinks, {"SPEAKER"}) \/ made = sinks
<1>1. ~Has(WithoutSco(sinks), ScoSinks)
  BY DEF Has, WithoutSco, Restrict
<1>2. WithoutSco(WithoutSco(sinks)) = WithoutSco(sinks)
  BY DEF WithoutSco, Restrict
<1> QED BY <1>1, <1>2 DEF DropScoSinksWhenPairedWithSpeaker

LEMMA PatchesStillMatch ==
    ASSUME PatchesMatch, PatchesNext
    PROVE  PatchesMatch'
<1>1. ASSUME NEW handle, NEW sinks, CreateOrUpdateAudioPatch(handle, sinks)
      PROVE  PatchesMatch'
  <2>1. PICK h \in PatchHandles :
          /\ vendorPatches' = Made(vendorPatches, h, DropScoSinksWhenPairedWithSpeaker(sinks))
          /\ clientPatches' = Made(clientPatches, h, sinks)
    BY <1>1 DEF CreateOrUpdateAudioPatch
  <2>2. ASSUME NEW g \in DOMAIN vendorPatches'
        PROVE  LET made == vendorPatches'[g]  wanted == clientPatches'[g] IN
               /\ ~(Has(made, {"SPEAKER"}) /\ Has(made, ScoSinks))
               /\ WithoutSco(made) = WithoutSco(wanted)
               /\ Has(wanted, {"SPEAKER"}) \/ made = wanted
    <3>1. CASE g = h
      BY <2>1, <3>1, DroppedSinks DEF Made, PatchesMatch
    <3>2. CASE g # h
      <4>1. /\ g \in DOMAIN vendorPatches /\ g \in DOMAIN clientPatches
            /\ vendorPatches'[g] = vendorPatches[g] /\ clientPatches'[g] = clientPatches[g]
        BY <2>1, <2>2, <3>2 DEF Made, PatchesMatch
      <4> QED BY <4>1 DEF PatchesMatch
    <3> QED BY <3>1, <3>2
  <2>3. DOMAIN vendorPatches' = DOMAIN clientPatches'
    BY <2>1 DEF Made, PatchesMatch
  <2> QED BY <2>2, <2>3 DEF PatchesMatch
<1>2. ASSUME NEW handle, ReleaseAudioPatch(handle)
      PROVE  PatchesMatch'
  BY <1>2 DEF ReleaseAudioPatch, PatchesMatch, Restrict
<1> QED BY <1>1, <1>2 DEF PatchesNext, CreateAudioPatch, UpdateAudioPatch

-----------------------------------------------------------------------------
(* The library in use. *)

(* The inductive invariant.  Nothing is asked before the library is loaded,  *)
(* which decides the key it takes the codec from.                            *)
IInv ==
    /\ FixupInv /\ ToldInv /\ CallInv /\ MixerInv /\ PatchesMatch
    /\ opened = "" => DOMAIN asked["device"] = {}

LEMMA InitEstablishes == Init => IInv
<1> SUFFICES ASSUME Init PROVE IInv
  OBVIOUS
<1>1. DOMAIN <<>> = {}
  OBVIOUS
<1>2. FixupInv
  BY FixupInitEstablishes DEF Init
<1>3. ToldInv
  BY <1>1 DEF Init, ParametersInit, ToldInv, VendorTypes, CodecInv, Agrees, Targets
<1>4. CallInv
  BY NoCallWellFormed DEF Init, ParametersInit, CallInv
<1>5. MixerInv
  <2>1. /\ positions = SlotPositions("0") /\ turned = "0"
        /\ done = [t \in Threads |-> -1]
    BY DEF Init, ParametersInit
  <2>2. positions = [n \in 1..4 |-> positions[n]]
    BY <2>1, SlotsAreFour
  <2>3. done \in [Threads -> -1..3] /\ \A t \in Threads : ~(done[t] >= 0)
    BY <2>1
  <2> QED BY <2>1, <2>2, <2>3 DEF MixerInv, Rotations
<1>6. PatchesMatch
  BY <1>1 DEF Init, PatchesInit, PatchesMatch
<1>7. DOMAIN asked["device"] = {}
  BY <1>1 DEF Init, ParametersInit, Targets
<1> QED BY <1>2, <1>3, <1>4, <1>5, <1>6, <1>7 DEF IInv

LEMMA ParametersPreserve ==
    ASSUME ToldInv, CallInv, MixerInv, ParametersNext
    PROVE  ToldInv' /\ CallInv' /\ MixerInv'
<1>1. ASSUME UNCHANGED <<mixerVars, callVars>> PROVE CallInv' /\ MixerInv'
  BY <1>1 DEF mixerVars, callVars, CallInv, MixerInv, Turning
<1>2. ASSUME UNCHANGED <<vendorVars, askedVars>> PROVE ToldInv'
  BY <1>2 DEF vendorVars, askedVars, ToldInv, VendorTypes, CodecInv
<1>3. ASSUME NEW target \in Targets, NEW v \in DeviceValues \cup StreamValues, SetParam(target, v)
      PROVE  ToldInv' /\ CallInv' /\ MixerInv'
  BY <1>1, <1>3, TypedCallsTell DEF SetParam
<1>4. ASSUME NEW target \in Targets, NEW key \in {"routing", "connect", "disconnect"},
             NEW address \in Addresses \cup {[type |-> "NONE", address |-> <<>>]},
             SetParamOfAddress(target, key, address)
      PROVE  ToldInv' /\ CallInv' /\ MixerInv'
  BY <1>1, <1>4, AddressesTell DEF SetParamOfAddress
<1>5. ASSUME NEW t \in Threads, NEW target \in Targets, NEW list \in ParameterLists,
             SetParameters(t, target, list)
      PROVE  ToldInv' /\ CallInv' /\ MixerInv'
  BY <1>2, <1>5, CallsBegin DEF SetParameters
<1>6. ASSUME NEW t \in Threads, MixerNotOpened(t) \/ MixerOpened(t) \/ SetMixerValue(t)
      PROVE  ToldInv' /\ CallInv' /\ MixerInv'
  <2>1. UNCHANGED <<vendorVars, askedVars>>
    BY <1>6 DEF MixerNotOpened, MixerOpened, SetMixerValue
  <2> QED BY <1>2, <1>6, <2>1, MixerMayFail, MixerOpens, SlotsAreSet
<1>7. "device" \in Targets /\ "stream" \in Targets
  BY DEF Targets
<1>8. ASSUME NEW devices, SetDevices(devices), devices = <<>> \/ devices[1] \in Addresses
      PROVE  ToldInv' /\ CallInv' /\ MixerInv'
  BY <1>4, <1>7, <1>8 DEF SetDevices
<1>9. ASSUME NEW address \in Addresses, NEW connected \in BOOLEAN,
             SetConnectedState(address, connected)
      PROVE  ToldInv' /\ CallInv' /\ MixerInv'
  BY <1>4, <1>7, <1>9 DEF SetConnectedState
<1>10. \A address \in Addresses : <<address>>[1] \in Addresses
  OBVIOUS
<1> QED BY <1>3, <1>5, <1>6, <1>7, <1>8, <1>9, <1>10, CallsEnd DEF ParametersNext

LEMMA StepPreserves == IInv /\ [Next]_vendorAudioVars => IInv'
<1> SUFFICES ASSUME IInv, [Next]_vendorAudioVars PROVE IInv'
  OBVIOUS
<1>1. ASSUME UNCHANGED parameterVars PROVE ToldInv' /\ CallInv' /\ MixerInv'
  BY <1>1 DEF IInv, parameterVars, vendorVars, mixerVars, callVars, askedVars,
              ToldInv, VendorTypes, CodecInv, CallInv, MixerInv, Turning
<1>2. ASSUME UNCHANGED patchVars PROVE PatchesMatch'
  BY <1>2 DEF IInv, patchVars, PatchesMatch
<1>3. ASSUME UNCHANGED fixupVars PROVE FixupInv'
  BY <1>3, FixupPreserves DEF IInv
<1>4. CASE opened = "" /\ Fixup /\ UNCHANGED <<parameterVars, patchVars, opened>>
  <2>1. FixupInv'
    BY <1>4, FixupPreserves DEF IInv
  <2>2. asked' = asked /\ opened' = opened
    BY <1>4 DEF parameterVars, askedVars
  <2> QED BY <1>1, <1>2, <1>4, <2>1, <2>2 DEF IInv
<1>5. CASE OpenDevice
  <2>1. /\ UNCHANGED <<fixupVars, patchVars, callVars, mixerVars, wideband, told, asked, byList>>
        /\ reads' \in {"bt_wbs", "g_sco_samplerate"} /\ DOMAIN asked["device"] = {}
    BY <1>5 DEF OpenDevice, askedVars, IInv
  <2>2. ToldInv'
    BY <2>1 DEF IInv, ToldInv, VendorTypes, CodecInv
  <2>3. CallInv' /\ MixerInv'
    BY <2>1 DEF IInv, callVars, mixerVars, CallInv, MixerInv, Turning
  <2>4. DOMAIN asked'["device"] = {}
    BY <2>1
  <2> QED BY <1>2, <1>3, <2>1, <2>2, <2>3, <2>4 DEF IInv
<1>6. CASE opened = "OK" /\ ParametersNext /\ UNCHANGED <<fixupVars, patchVars, opened>>
  BY <1>2, <1>3, <1>6, ParametersPreserve DEF IInv
<1>7. CASE /\ opened = "OK" /\ BeginSet /\ PatchesNext
           /\ UNCHANGED <<fixupVars, vendorVars, mixerVars, callVars, askedVars, opened>>
  <2>1. ToldInv' /\ CallInv' /\ MixerInv'
    BY <1>7 DEF IInv, vendorVars, mixerVars, callVars, askedVars,
                ToldInv, VendorTypes, CodecInv, CallInv, MixerInv, Turning
  <2> QED BY <1>3, <1>7, <2>1, PatchesStillMatch DEF IInv
<1>8. CASE UNCHANGED vendorAudioVars
  <2>1. UNCHANGED <<fixupVars, parameterVars, patchVars, opened, asked>>
    BY <1>8 DEF vendorAudioVars, parameterVars, askedVars
  <2> QED BY <1>1, <1>2, <1>3, <2>1 DEF IInv
<1> QED BY <1>4, <1>5, <1>6, <1>7, <1>8 DEF Next

LEMMA InvariantHolds == Spec => []IInv
BY InitEstablishes, StepPreserves, PTL DEF Spec

(* Nor is the library half patched that is used. *)
THEOREM UsedLibraryNotHalfPatched == Spec => []NeverHalfPatched
<1>1. IInv => NeverHalfPatched
  BY DEF IInv, FixupInv, NeverHalf, NeverHalfPatched
<1> QED BY InvariantHolds, <1>1, PTL

(* Whatever lists are set, with either library: the flag of a Bluetooth call *)
(* is that of the codec asked for last, unless an unpatched library was told *)
(* of it by setBtScoWidebandEnabled, which it does not understand.           *)
THEOREM WidebandAlwaysFollows == Spec => []WidebandFollowsCodec
<1>1. IInv => WidebandFollowsCodec
  <2> SUFFICES ASSUME IInv, "bt_wbs" \in DOMAIN asked["device"], reads = "bt_wbs" \/ byList
               PROVE  wideband = asked["device"]["bt_wbs"]
    BY DEF WidebandFollowsCodec
  <2>1. wideband \in BOOLEAN /\ (wideband <=> told["device"]["bt_wbs"] = "on")
    BY DEF IInv, ToldInv, VendorTypes, CodecInv
  <2>2. Stands("bt_wbs", told["device"]["bt_wbs"], asked["device"]["bt_wbs"])
    BY DEF IInv, ToldInv, Agrees, ReadKeys, FlagKeys, Targets
  <2>3. /\ asked["device"]["bt_wbs"] \in BOOLEAN
        /\ asked["device"]["bt_wbs"] <=> told["device"]["bt_wbs"] = "on"
    BY <2>2 DEF Stands, FlagKeys
  <2> QED BY <2>1, <2>3
<1> QED BY InvariantHolds, <1>1, PTL

(* The vendor answers with what it was told, of every key the getters ask    *)
(* for that it knows.                                                        *)
LEMMA AnswersWhatItWasTold ==
    ASSUME IInv, NEW target \in Targets, NEW key \in ReadKeys, key \in DOMAIN told[target],
           key = "bt_wbs" => key \in DOMAIN asked[target] /\ target = "device" /\ reads = "bt_wbs"
    PROVE  key \in DOMAIN Answers(target) /\ Answers(target)[key] = told[target][key]
<1>1. CASE target = "stream"
  BY <1>1 DEF Answers
<1> DEFINE kept == Restrict(told["device"], DOMAIN told["device"] \ CodecKeys)
<1>2. Answers("device") = With(kept, Param(reads, CodecState))
  BY DEF Answers
<1>3. reads \in CodecKeys
  BY DEF IInv, ToldInv, VendorTypes, CodecKeys
<1>4. CASE target = "device" /\ key # "bt_wbs"
  <2>1. key \notin CodecKeys
    BY <1>4 DEF CodecKeys, ReadKeys, FlagKeys
  <2>2. key \in DOMAIN kept /\ kept[key] = told["device"][key]
    BY <1>4, <2>1 DEF Restrict
  <2>3. key # reads
    BY <1>3, <2>1
  <2> HIDE DEF kept
  <2> QED BY <1>2, <1>4, <2>2, <2>3 DEF With, Param
<1>5. CASE target = "device" /\ key = "bt_wbs"
  <2>1. Stands(key, told["device"][key], asked["device"][key])
    BY <1>5 DEF IInv, ToldInv, Agrees
  <2>2. told["device"][key] \in {"on", "off"}
    BY <1>5, <2>1 DEF Stands, FlagKeys
  <2>3. wideband <=> told["device"][key] = "on"
    BY <1>5 DEF IInv, ToldInv, CodecInv
  <2>4. CodecState = told["device"][key]
    BY <1>5, <2>2, <2>3 DEF CodecState
  <2> HIDE DEF kept
  <2> QED BY <1>2, <1>5, <2>4 DEF With, Param
<1> QED BY <1>1, <1>4, <1>5 DEF Targets

(* For any flags and lists, what is set is what is read back; the codec of a *)
(* call only from a patched library, and there from the flag that follows it.*)
THEOREM AlwaysReadsBack == Spec => []ReadsBack
<1>1. IInv => ReadsBack
  <2> SUFFICES ASSUME IInv PROVE ReadsBack
    OBVIOUS
  <2>1. ASSUME NEW target \in Targets, NEW key \in ReadKeys, key \in DOMAIN asked[target],
               key = "bt_wbs" => target = "device" /\ reads = "bt_wbs"
        PROVE  /\ Stands(key, told[target][key], asked[target][key])
               /\ GetParam(target, key) = [result |-> "OK", value |-> told[target][key]]
    <3>1. key \in DOMAIN told[target] /\ Stands(key, told[target][key], asked[target][key])
      BY <2>1 DEF IInv, ToldInv, Agrees
    <3>2. key \in DOMAIN Answers(target) /\ Answers(target)[key] = told[target][key]
      BY <2>1, <3>1, AnswersWhatItWasTold
    <3> QED BY <3>1, <3>2 DEF GetParam, GetHalStatusToResult
  <2>2. ASSUME NEW key \in DOMAIN asked["device"], Readable(key)
        PROVE  GetFlag("device", key) = [result |-> "OK", value |-> asked["device"][key]]
    <3> DEFINE word == told["device"][key]
               argument == asked["device"][key]
    <3>1. key \in FlagKeys
      BY <2>2, ParametersAssumption DEF Readable
    <3>2. /\ GetParam("device", key) = [result |-> "OK", value |-> word]
          /\ Stands(key, word, argument)
      BY <2>1, <2>2, <3>1 DEF ReadKeys, Targets, Readable
    <3>3. word \in {"on", "off"} /\ argument \in BOOLEAN /\ (argument <=> word = "on")
      BY <3>1, <3>2 DEF Stands
    <3> HIDE DEF word, argument
    <3>6. /\ GetParam("device", key).result = "OK" /\ GetParam("device", key).value = word
          /\ ~(word = "")
      <4>1. word \in {"on", "off"}
        BY <3>3
      <4>2. GetParam("device", key) = [result |-> "OK", value |-> word]
        BY <3>2
      <4>3. GetParam("device", key).result = "OK" /\ GetParam("device", key).value = word
        BY <4>2
      <4>4. "" \notin {"on", "off"}
        OBVIOUS
      <4> QED BY <4>1, <4>3, <4>4
    <3>4. GetFlag("device", key) = [result |-> "OK", value |-> word # "" /\ word # "off"]
      BY <3>6, Zenon DEF GetFlag
    <3>5. (word # "" /\ word # "off") = argument
      BY <3>3
    <3> QED BY <3>4, <3>5 DEF argument
  <2>3. ASSUME "tty_mode" \in DOMAIN asked["device"]
        PROVE  GetTtyMode = [result |-> "OK", value |-> asked["device"]["tty_mode"]]
    <3>1. /\ GetParam("device", "tty_mode") = [result |-> "OK", value |-> told["device"]["tty_mode"]]
          /\ told["device"]["tty_mode"] \in TtyWords
          /\ asked["device"]["tty_mode"] = TtyModeToHIDL(told["device"]["tty_mode"])
      BY <2>1, <2>3 DEF ReadKeys, Targets, Stands
    <3>2. TtyModeToHIDL(told["device"]["tty_mode"]) # "INVALID"
      BY <3>1 DEF TtyWords, TtyModeToHIDL
    <3> QED BY <3>1, <3>2 DEF GetTtyMode
  <2>4. ASSUME "routing" \in DOMAIN asked["stream"]
        PROVE  GetDevices = [result |-> "OK", value |-> asked["stream"]["routing"]]
    BY <2>1, <2>4 DEF ReadKeys, Targets, Stands, GetDevices
  <2> QED BY <2>2, <2>3, <2>4 DEF ReadsBack
<1> QED BY InvariantHolds, <1>1, PTL

(* For any number of threads: unless a control failed or two threads set     *)
(* them at once the sound is turned as the screen whenever none sets them.   *)
THEOREM SoundAlwaysTurns == Spec => []SoundTurnsWithScreen
<1>1. ASSUME NEW rotation \in Rotations, NEW i \in 0..3
      PROVE  SlotPositions(rotation)[Ring[i + 1]]
               = Upright[Ring[((i + QuarterTurns[rotation]) % 4) + 1]]
  <2>1. Ring[1] = 1 /\ Ring[2] = 2 /\ Ring[3] = 4 /\ Ring[4] = 3
    BY DEF Ring
  <2>2. Upright[1] = 0 /\ Upright[2] = 1 /\ Upright[3] = 0 /\ Upright[4] = 1
    BY DEF Upright, Speakers
  <2>3. i = 0 \/ i = 1 \/ i = 2 \/ i = 3
    OBVIOUS
  <2> HIDE DEF Ring, Upright
  <2>8. /\ 0 % 4 = 0 /\ 1 % 4 = 1 /\ 2 % 4 = 2 /\ 3 % 4 = 3
        /\ 4 % 4 = 0 /\ 5 % 4 = 1 /\ 6 % 4 = 2
    OBVIOUS
  <2>4. CASE rotation = "0"
    BY <2>1, <2>2, <2>3, <2>4, <2>8 DEF SlotPositions, QuarterTurns, Rotations
  <2>5. CASE rotation = "90"
    <3>1. QuarterTurns["90"] = 1 /\ SlotPositions("90") = <<1, 1, 0, 0>>
      BY DEF SlotPositions, QuarterTurns, Rotations
    <3> QED BY <2>1, <2>2, <2>3, <2>5, <2>8, <3>1
  <2>6. CASE rotation = "180"
    BY <2>1, <2>2, <2>3, <2>6, <2>8 DEF SlotPositions, QuarterTurns, Rotations
  <2>7. CASE rotation = "270"
    BY <2>1, <2>2, <2>3, <2>7, <2>8 DEF SlotPositions, QuarterTurns, Rotations
  <2> QED BY <2>4, <2>5, <2>6, <2>7 DEF Rotations
<1>2. IInv => SoundTurnsWithScreen
  BY <1>1 DEF IInv, MixerInv, SoundTurnsWithScreen
<1> QED BY InvariantHolds, <1>2, PTL

(* For any handles and lists of sinks, created and updated in any order, the *)
(* patches of the vendor's device are those asked for without the bad pair.  *)
THEOREM PatchesAlwaysMatch == Spec => []PatchesMatch
<1>1. IInv => PatchesMatch
  BY DEF IInv
<1> QED BY InvariantHolds, <1>1, PTL

=============================================================================
