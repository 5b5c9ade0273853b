----------------------------- MODULE GpuStrategy -----------------------------
(***************************************************************************)
(* The composition strategy of the display extension (sdmext_stub): for    *)
(* each frame the display core starts it, asks it for a strategy and sends *)
(* what it planned to the panel.  The strategy has the GPU compose all     *)
(* layers into one target, which it places on the panel.  It writes into   *)
(* structures of the core that live from frame to frame and are emptied    *)
(* only by a flush, so whatever it does not clear is there again.          *)
(*                                                                         *)
(* Sizes are in units small enough that scaling is exact.                  *)
(***************************************************************************)
EXTENDS Integers, Sequences, FiniteSets

CONSTANTS
    PanelOrientations,  \* the flips of the panel: records of two booleans
    MixerSizes,         \* the sizes of the mixer, <<width, height>>
    FbSizes,            \* those of the framebuffer the GPU composes into
    MaxAppLayers,       \* bound on the layers of a frame
    MaxFrames           \* bound on the frames

ASSUME SizesAssumption ==
    /\ MaxAppLayers \in Nat /\ MaxFrames \in Nat
    /\ PanelOrientations \subseteq [horizontal : BOOLEAN, vertical : BOOLEAN]
    /\ \A size \in MixerSizes \cup FbSizes : /\ DOMAIN size = 1..2
                                           /\ size[1] \in Nat \ {0} /\ size[2] \in Nat \ {0}
    /\ \A m \in MixerSizes, f \in FbSizes : m[1] % f[1] = 0 /\ m[2] % f[2] = 0

VARIABLES
    config,         \* hw_panel_info_, mixer_attributes_, fb_config_
    gpuDisabled,    \* disable_gpu_comp_
    hwLayers, index, roiIndex, primaries,   \* the lists of HWLayersInfo
    qos,            \* whether bandwidth and clock are voted for
    frame,          \* the number of the frame
    stack,          \* its layers: compositions, how many are wide, the target, if any
    phase           \* "idle", "built", "started" or "planned"

infoVars  == <<hwLayers, index, roiIndex, primaries>>
frameVars == <<frame, stack, phase>>

vars == <<config, gpuDisabled, infoVars, qos, frameVars>>

-----------------------------------------------------------------------------
Rects(size) ==
    {r \in [left : 0..size[1], top : 0..size[2], right : 0..size[1], bottom : 0..size[2]] :
        r.left < r.right /\ r.top < r.bottom}

NoTarget == [present |-> FALSE]

Unflipped == [horizontal |-> FALSE, vertical |-> FALSE]

AppLayers == Len(stack.compositions)

(* BuildLayerStackStats puts the target behind the application's layers, and  *)
(* 0 is the index of none.                                                    *)
GpuTargetIndex == IF stack.target.present THEN AppLayers ELSE 0

(* The display core brings the layers of a frame and a target it does not     *)
(* flip, and appends the primaries of the wide ones; in place of them an      *)
(* entry has the frame's number.                                              *)
BuildFrame ==
    /\ phase = "idle" /\ frame < MaxFrames
    /\ frame' = frame + 1 /\ phase' = "built"
    /\ \E n \in 0..MaxAppLayers :
       \E wide \in 0..n :
       \E target \in {NoTarget} \cup
                      [present : {TRUE}, dst : Rects(config.fb), flip : {Unflipped}] :
            /\ stack' = [compositions |-> [i \in 1..n |-> "SDE"],
                         wide |-> wide, target |-> target]
            /\ primaries' = primaries \o [i \in 1..wide |-> frame + 1]
    /\ UNCHANGED <<config, gpuDisabled, hwLayers, index, roiIndex, qos>>

-----------------------------------------------------------------------------
(* Mutant of Trim: the newest entries are dropped. *)
TrimNewest(entries, n) == SubSeq(entries, 1, IF Len(entries) > n THEN n ELSE Len(entries))

(* The oldest entries are dropped until there are not more than n. *)
Trim(entries, n) ==
    SubSeq(entries, IF Len(entries) > n THEN Len(entries) - n + 1 ELSE 1, Len(entries))

(* Mutant of Start: the layers of the last frame are not cleared. *)
StartKeepsLayers ==
    /\ phase = "built"
    /\ primaries' = Trim(primaries, AppLayers)
    /\ phase' = "started"
    /\ UNCHANGED <<hwLayers, index, roiIndex, config, gpuDisabled, qos, frame, stack>>

Start ==
    /\ phase = "built"
    /\ hwLayers' = <<>> /\ index' = <<>> /\ roiIndex' = <<>>
    /\ primaries' = Trim(primaries, AppLayers)
    /\ phase' = "started"
    /\ UNCHANGED <<config, gpuDisabled, qos, frame, stack>>

(* TransformHV: mirrored within the domain. *)
TransformHV(size, r, flip) ==
    [left   |-> IF flip.horizontal THEN size[1] - r.right ELSE r.left,
     right  |-> IF flip.horizontal THEN size[1] - r.left ELSE r.right,
     top    |-> IF flip.vertical THEN size[2] - r.bottom ELSE r.top,
     bottom |-> IF flip.vertical THEN size[2] - r.top ELSE r.bottom]

(* MapRect *)
MapRect(from, to, r) ==
    [left |-> (r.left * to[1]) \div from[1], right  |-> (r.right * to[1]) \div from[1],
     top  |-> (r.top * to[2]) \div from[2],  bottom |-> (r.bottom * to[2]) \div from[2]]

(* The flips of the target, once those of the panel are added. *)
Flip(target) ==
    [horizontal |-> target.flip.horizontal # config.panel.horizontal,
     vertical   |-> target.flip.vertical # config.panel.vertical]

(* Mutant of Place: it is scaled first, and mirrored in the framebuffer. *)
PlaceScaledFirst(target) ==
    TransformHV(config.fb, MapRect(config.fb, config.mixer, target.dst), Flip(target))

(* Where the target goes on the panel. *)
Place(target) ==
    MapRect(config.fb, config.mixer, TransformHV(config.fb, target.dst, Flip(target)))

(* GetNextStrategy *)
GetNextStrategy ==
    /\ phase = "started"
    /\ ~gpuDisabled /\ GpuTargetIndex # 0
    /\ stack' = [stack EXCEPT !.compositions = [i \in DOMAIN @ |-> "GPU"]]
    /\ index' = Append(index, GpuTargetIndex)
    /\ roiIndex' = Append(roiIndex, 0)
    /\ hwLayers' = Append(hwLayers, [dst |-> Place(stack.target), flip |-> Flip(stack.target)])
    /\ qos' = TRUE
    /\ phase' = "planned"
    /\ UNCHANGED <<config, gpuDisabled, primaries, frame>>

(* kErrorNotSupported: the core has no other strategy and drops the frame. *)
NotSupported ==
    /\ phase = "started"
    /\ gpuDisabled \/ GpuTargetIndex = 0
    /\ phase' = "idle"
    /\ UNCHANGED <<config, gpuDisabled, infoVars, qos, frame, stack>>

(* SetCompositionState of the GPU, like Reconfigure between frames. *)
SetCompositionState ==
    /\ phase = "idle"
    /\ gpuDisabled' = ~gpuDisabled
    /\ UNCHANGED <<config, infoVars, qos, frameVars>>

(* Reconfigure *)
Reconfigure ==
    /\ phase = "idle"
    /\ config' \in [panel : PanelOrientations, mixer : MixerSizes, fb : FbSizes]
    /\ UNCHANGED <<gpuDisabled, infoVars, qos, frameVars>>

(* The core sends the frame to the panel; the votes are gone. *)
Commit ==
    /\ phase = "planned"
    /\ phase' = "idle" /\ qos' = FALSE
    /\ UNCHANGED <<config, gpuDisabled, infoVars, frame, stack>>

(* Flush or PowerOff, by the core. *)
Flush ==
    /\ phase = "idle"
    /\ hwLayers' = <<>> /\ index' = <<>> /\ roiIndex' = <<>> /\ primaries' = <<>>
    /\ qos' = FALSE
    /\ UNCHANGED <<config, gpuDisabled, frameVars>>

-----------------------------------------------------------------------------
Init ==
    /\ config \in [panel : PanelOrientations, mixer : MixerSizes, fb : FbSizes]
    /\ gpuDisabled = FALSE
    /\ hwLayers = <<>> /\ index = <<>> /\ roiIndex = <<>> /\ primaries = <<>>
    /\ qos = FALSE
    /\ frame = 0 /\ phase = "idle"
    /\ stack = [compositions |-> <<>>, wide |-> 0, target |-> NoTarget]

Next ==
    \/ BuildFrame \/ Start \/ GetNextStrategy \/ NotSupported \/ Commit
    \/ SetCompositionState \/ Reconfigure \/ Flush

Spec == Init /\ [][Next]_vars

-----------------------------------------------------------------------------
(* Properties. *)

(* "hw_layers would accumulate forever": a frame that goes to the panel has  *)
(* one layer, the target of this frame, in all three lists, every layer of   *)
(* the application composed into it by the GPU, and the votes without which  *)
(* "the SDE pipe starves".                                                   *)
FrameComplete ==
    phase = "planned" =>
        /\ Len(hwLayers) = 1 /\ index = <<AppLayers>> /\ roiIndex = <<0>>
        /\ \A i \in DOMAIN stack.compositions : stack.compositions[i] = "GPU"
        /\ qos

(* The panel shows each point of the framebuffer where it is meant to be:    *)
(* mounted as it is, a cell of the mixer belongs to the target exactly if    *)
(* the cell of the framebuffer does that lies there once the picture is      *)
(* mirrored.                                                                 *)
Covers(r, x, y) == r.left <= x /\ x < r.right /\ r.top <= y /\ y < r.bottom

Origin(x, n, m, flipped) ==
    LET at == (x * n) \div m IN IF flipped THEN n - 1 - at ELSE at

ShownWhereMeant ==
    phase = "planned" =>
        \A x \in 0..(config.mixer[1] - 1), y \in 0..(config.mixer[2] - 1) :
            Covers(Head(hwLayers).dst, x, y) <=>
                Covers(stack.target.dst,
                       Origin(x, config.fb[1], config.mixer[1], config.panel.horizontal),
                       Origin(y, config.fb[2], config.mixer[2], config.panel.vertical))

(* "Keep the entries of the current frame": the primaries are bounded by the *)
(* layers of the frame, however many frames came before, and none of this    *)
(* frame's is lost.                                                          *)
PrimariesKept ==
    phase \in {"started", "planned"} =>
        /\ Len(primaries) <= AppLayers
        /\ Cardinality({i \in DOMAIN primaries : primaries[i] = frame}) = stack.wide

=============================================================================
