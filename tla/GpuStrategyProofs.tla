-------------------------- MODULE GpuStrategyProofs --------------------------
(***************************************************************************)
(* That each frame which goes to the panel is complete and has nothing of  *)
(* an earlier one, that it is shown where it is meant to be, and that the  *)
(* primaries stay bounded, proved for any number of frames and layers and  *)
(* for any sizes.  The invariant says what Start is for: when it has run   *)
(* the three lists are empty, whatever they held; and the primaries of the *)
(* frame are the last of their list, which is why the oldest are dropped.  *)
(***************************************************************************)
EXTENDS GpuStrategy, FiniteSetTheorems, TLAPS

ListsEmpty == hwLayers = <<>> /\ index = <<>> /\ roiIndex = <<>>

StackOK ==
    stack \in [compositions : Seq({"SDE", "GPU"}), wide : Nat, target : {stack.target}]

ConfigOK == config \in [panel : PanelOrientations, mixer : MixerSizes, fb : FbSizes]

(* The target of a frame lies in the framebuffer, and is placed on the panel *)
(* as the panel was when it was planned.                                     *)
TargetInv ==
    /\ phase # "idle" => stack.target \in
           {NoTarget} \cup [present : {TRUE}, dst : Rects(config.fb), flip : {Unflipped}]
    /\ phase = "planned" => stack.target # NoTarget /\ Head(hwLayers).dst = Place(stack.target)

(* The entries of the frame are the last ones, and not more than its layers. *)
PrimariesInv ==
    /\ primaries \in Seq(Nat) /\ frame \in Nat
    /\ \A i \in 1..Len(primaries) : primaries[i] <= frame
    /\ phase # "idle" =>
         /\ stack.wide <= AppLayers /\ stack.wide <= Len(primaries)
         /\ \A i \in 1..Len(primaries) :
               primaries[i] = frame <=> i > Len(primaries) - stack.wide
    /\ phase \in {"started", "planned"} => Len(primaries) <= AppLayers

(* The inductive invariant. *)
IInv ==
    /\ StackOK /\ ConfigOK
    /\ phase = "started" => ListsEmpty
    /\ FrameComplete /\ TargetInv /\ PrimariesInv

-----------------------------------------------------------------------------
(* Scaling by a whole factor. *)

LEMMA QuotientAndRest ==
    ASSUME NEW x \in Int, NEW k \in Nat \ {0}
    PROVE  x \div k \in Int /\ x % k \in 0..(k - 1) /\ x = k * (x \div k) + (x % k)
OBVIOUS

LEMMA DivisionIsUnique ==
    ASSUME NEW m \in Nat \ {0}, NEW q \in Int, NEW r \in Nat, r < m
    PROVE  (m * q + r) \div m = q
<1> DEFINE a == m * q + r
           d == a \div m
           e == a % m
<1>1. a \in Int /\ d \in Int /\ e \in 0..(m - 1) /\ a = m * d + e
  OBVIOUS
<1>2. CASE d <= q - 1
  <2>1. m * d <= m * (q - 1)
    BY <1>1, <1>2
  <2> QED BY <1>1, <2>1
<1>3. CASE d >= q + 1
  <2>1. m * d >= m * (q + 1)
    BY <1>1, <1>3
  <2> QED BY <1>1, <2>1
<1> QED BY <1>1, <1>2, <1>3

(* k cells of the mixer lie over one of the framebuffer. *)
LEMMA CellOfPoint ==
    ASSUME NEW k \in Nat \ {0}, NEW x \in Nat, NEW a \in Int
    PROVE  a * k <= x <=> a <= x \div k
<1> DEFINE q == x \div k
<1>1. q \in Int /\ k * q <= x /\ x < k * q + k
  OBVIOUS
<1> HIDE DEF q
<1>2. CASE a <= q
  <2>1. a * k <= k * q
    BY <1>1, <1>2
  <2> QED BY <1>1, <1>2, <2>1 DEF q
<1>3. CASE a >= q + 1
  <2>1. a * k >= k * (q + 1)
    BY <1>1, <1>3
  <2> QED BY <1>1, <1>3, <2>1 DEF q
<1> QED BY <1>1, <1>2, <1>3

LEMMA WholeFactor ==
    ASSUME NEW n \in Nat \ {0}, NEW m \in Nat \ {0}, m % n = 0
    PROVE  \E k \in Nat \ {0} : m = n * k
<1> DEFINE k == m \div n
<1>1. k \in Int /\ m = n * k
  BY QuotientAndRest
<1> HIDE DEF k
<1>2. CASE k <= 0
  <2>1. n * k <= 0
    BY <1>1, <1>2
  <2> QED BY <1>1, <2>1
<1> QED BY <1>1, <1>2

(* In one dimension: what is mirrored in the framebuffer and then scaled is  *)
(* shown by the cells whose origin lies in it.                               *)
LEMMA ShownInOneDimension ==
    ASSUME NEW n \in Nat \ {0}, NEW k \in Nat \ {0}, NEW m, m = n * k,
           NEW left \in 0..n, NEW right \in 0..n, NEW x \in 0..(m - 1), NEW flipped \in BOOLEAN
    PROVE  LET first == IF flipped THEN n - right ELSE left
               last  == IF flipped THEN n - left ELSE right
           IN  (first * m) \div n <= x /\ x < (last * m) \div n <=>
                   left <= Origin(x, n, m, flipped) /\ Origin(x, n, m, flipped) < right
<1> DEFINE q == x \div k
<1>1. m \in Nat \ {0}
  OBVIOUS
<1>2. ASSUME NEW a \in 0..n PROVE (a * m) \div n = a * k /\ a * k \in Int
  <2> DEFINE b == a * k
  <2>1. a * m = n * b + 0 /\ b \in Int
    BY <1>1
  <2> HIDE DEF b
  <2>2. (n * b + 0) \div n = b
    BY <2>1, DivisionIsUnique
  <2> QED BY <2>1, <2>2 DEF b
<1>3. q \in Nat /\ q < n /\ x = k * q + (x % k) /\ x % k \in 0..(k - 1)
  <2>1. q \in Int /\ x = k * q + (x % k) /\ x % k \in 0..(k - 1)
    <3>1. x \in Int
      OBVIOUS
    <3> QED BY <1>1, <3>1, QuotientAndRest
  <2>2. 0 <= q
    <3>1. 0 * k <= x
      BY <1>1
    <3> QED BY <1>1, <3>1, CellOfPoint
  <2>3. ~(n <= q)
    <3>1. ~(n * k <= x)
      BY <1>1
    <3> QED BY <1>1, <3>1, CellOfPoint
  <2> QED BY <2>1, <2>2, <2>3
<1>4. (x * n) \div m = q
  <2> DEFINE r == (x % k) * n
  <2>1. r \in Nat /\ r < k * n
    <3>1. (x % k) + 1 <= k /\ x % k \in Nat
      BY <1>1, <1>3
    <3>2. ((x % k) + 1) * n <= k * n /\ 0 <= (x % k) * n
      BY <1>1, <3>1
    <3> QED BY <1>1, <3>1, <3>2
  <2>2. x * n = m * q + r
    <3> DEFINE s == x % k
    <3>1. s \in Int /\ q \in Int /\ x = k * q + s
      BY <1>1, <1>3
    <3> HIDE DEF s, q
    <3>2. (k * q + s) * n = (n * k) * q + s * n
      BY <1>1, <3>1
    <3> QED BY <1>1, <3>1, <3>2 DEF s
  <2> HIDE DEF r
  <2> QED BY <1>1, <1>3, <2>1, <2>2, DivisionIsUnique
<1> HIDE DEF q
<1>5. ASSUME NEW a \in 0..n PROVE a * k <= x <=> a <= q
  BY <1>1, CellOfPoint DEF q
<1>6. CASE flipped
  <2>1. /\ n - right \in 0..n /\ n - left \in 0..n
        /\ Origin(x, n, m, flipped) = n - 1 - q
    BY <1>4, <1>6 DEF Origin
  <2>2. /\ ((n - right) * m) \div n = (n - right) * k /\ (n - right) * k \in Int
        /\ ((n - left) * m) \div n = (n - left) * k /\ (n - left) * k \in Int
    BY <1>2, <2>1
  <2>3. (n - right) * k <= x <=> n - right <= q
    BY <1>5, <2>1
  <2>4. (n - left) * k <= x <=> n - left <= q
    BY <1>5, <2>1
  <2>5. n - right <= q <=> n - 1 - q < right
    BY <1>3
  <2>6. ~(n - left <= q) <=> left <= n - 1 - q
    BY <1>3
  <2>7. x < (n - left) * k <=> ~((n - left) * k <= x)
    BY <2>2
  <2> QED BY <1>6, <2>1, <2>2, <2>3, <2>4, <2>5, <2>6, <2>7
<1>7. CASE ~flipped
  <2>1. Origin(x, n, m, flipped) = q
    BY <1>4, <1>7 DEF Origin
  <2>2. /\ (left * m) \div n = left * k /\ left * k \in Int
        /\ (right * m) \div n = right * k /\ right * k \in Int
    BY <1>2
  <2>3. /\ left * k <= x <=> left <= q
        /\ right * k <= x <=> right <= q
    BY <1>5
  <2>4. x < right * k <=> ~(right * k <= x)
    BY <2>2
  <2>5. q < right <=> ~(right <= q)
    BY <1>3
  <2> QED BY <1>7, <2>1, <2>2, <2>3, <2>4, <2>5
<1> QED BY <1>6, <1>7

-----------------------------------------------------------------------------
LEMMA InitEstablishes == Init => IInv
BY DEF Init, IInv, StackOK, ConfigOK, FrameComplete, TargetInv, PrimariesInv

(* What a step that leaves the lists and the frame alone keeps. *)
LEMMA FrameStays ==
    ASSUME IInv, UNCHANGED <<config, infoVars, frameVars, qos>>
    PROVE  IInv'
BY DEF infoVars, frameVars, IInv, StackOK, ConfigOK, ListsEmpty, FrameComplete, AppLayers,
       TargetInv, Place, Flip, PrimariesInv

(* Nothing but the primaries of older frames matters between two of them. *)
LEMMA IdlePreserves ==
    ASSUME IInv, phase' = "idle", UNCHANGED <<stack, frame>>, ConfigOK', primaries' \in {primaries, <<>>}
    PROVE  IInv'
<1>1. CASE primaries' = primaries
  BY <1>1 DEF IInv, PrimariesInv, StackOK, FrameComplete, TargetInv
<1>2. CASE primaries' = <<>>
  <2>1. primaries' \in Seq(Nat) /\ 1..Len(primaries') = {}
    BY <1>2
  <2>2. PrimariesInv'
    BY <2>1 DEF IInv, PrimariesInv
  <2> QED BY <2>2 DEF IInv, StackOK, FrameComplete, TargetInv
<1> QED BY <1>1, <1>2

LEMMA BuildPreserves == IInv /\ BuildFrame => IInv'
<1> SUFFICES ASSUME IInv, BuildFrame PROVE IInv'
  OBVIOUS
<1>0. PICK n \in 0..MaxAppLayers :
        \E wide \in 0..n :
        \E target \in {NoTarget} \cup
                       [present : {TRUE}, dst : Rects(config.fb), flip : {Unflipped}] :
        /\ stack' = [compositions |-> [i \in 1..n |-> "SDE"], wide |-> wide, target |-> target]
        /\ primaries' = primaries \o [i \in 1..wide |-> frame + 1]
  BY DEF BuildFrame
<1>1. PICK wide \in 0..n,
           target \in {NoTarget} \cup
                        [present : {TRUE}, dst : Rects(config.fb), flip : {Unflipped}] :
        /\ stack' = [compositions |-> [i \in 1..n |-> "SDE"], wide |-> wide, target |-> target]
        /\ primaries' = primaries \o [i \in 1..wide |-> frame + 1]
  BY <1>0
<1>2. n \in Nat /\ wide \in Nat /\ wide <= n
  BY SizesAssumption
<1>3. [i \in 1..n |-> "SDE"] \in Seq({"SDE", "GPU"}) /\ Len([i \in 1..n |-> "SDE"]) = n
  BY <1>2
<1>4. StackOK' /\ AppLayers' = n /\ stack'.wide = wide /\ stack'.target = target
  BY <1>1, <1>2, <1>3 DEF StackOK, AppLayers
<1>5. /\ frame' = frame + 1 /\ phase' = "built" /\ frame \in Nat
      /\ UNCHANGED <<config, hwLayers, index, roiIndex, qos>>
  BY DEF BuildFrame, IInv, PrimariesInv
<1>6. PrimariesInv'
  <2> DEFINE new == [i \in 1..wide |-> frame + 1]
  <2>1. new \in Seq(Nat) /\ Len(new) = wide /\ \A i \in 1..wide : new[i] = frame + 1
    BY <1>2, <1>5
  <2>2. primaries \in Seq(Nat) /\ \A i \in 1..Len(primaries) : primaries[i] <= frame
    BY DEF IInv, PrimariesInv
  <2> HIDE DEF new
  <2>3. /\ primaries' = primaries \o new /\ primaries' \in Seq(Nat)
        /\ Len(primaries') = Len(primaries) + wide
        /\ \A i \in 1..Len(primaries') :
             primaries'[i] = IF i <= Len(primaries) THEN primaries[i] ELSE new[i - Len(primaries)]
    BY <1>1, <2>1, <2>2 DEF new
  <2>4. ASSUME NEW i \in 1..Len(primaries')
        PROVE  /\ i <= Len(primaries) => primaries'[i] <= frame /\ primaries'[i] \in Nat
               /\ i > Len(primaries) => primaries'[i] = frame + 1
    <3>1. CASE i <= Len(primaries)
      BY <2>2, <2>3, <3>1
    <3>2. CASE i > Len(primaries)
      <4>1. i - Len(primaries) \in 1..wide
        BY <1>2, <2>2, <2>3, <3>2
      <4> QED BY <2>1, <2>3, <3>2, <4>1
    <3> QED BY <2>2, <2>3, <3>1, <3>2
  <2>5. Len(primaries) \in Nat /\ Len(primaries') - wide = Len(primaries)
    BY <1>2, <2>2, <2>3
  <2>6. ASSUME NEW i \in 1..Len(primaries')
        PROVE  /\ primaries'[i] <= frame'
               /\ primaries'[i] = frame' <=> i > Len(primaries') - stack'.wide
    BY <1>4, <1>5, <2>2, <2>4, <2>5
  <2>7. stack'.wide <= AppLayers' /\ stack'.wide <= Len(primaries')
    BY <1>2, <1>4, <2>2, <2>3
  <2> QED BY <1>5, <2>3, <2>6, <2>7 DEF PrimariesInv
<1>7. TargetInv'
  BY <1>1, <1>4, <1>5 DEF TargetInv
<1> QED BY <1>4, <1>5, <1>6, <1>7 DEF IInv, ConfigOK, FrameComplete

(* Start drops older entries only: those of the frame are not more than n.  *)
LEMMA TrimKeepsLast ==
    ASSUME NEW s \in Seq(Nat), NEW n \in Nat
    PROVE  LET t == Trim(s, n)
               cut == Len(s) - Len(t)
           IN  /\ t \in Seq(Nat) /\ Len(t) = (IF Len(s) > n THEN n ELSE Len(s))
               /\ \A i \in 1..Len(t) : t[i] = s[i + cut] /\ i + cut \in 1..Len(s)
<1> DEFINE first == IF Len(s) > n THEN Len(s) - n + 1 ELSE 1
<1>1. first \in 1..(Len(s) + 1) /\ Trim(s, n) = SubSeq(s, first, Len(s)) /\ Len(s) \in Nat
  BY DEF Trim
<1> HIDE DEF first
<1>2. /\ SubSeq(s, first, Len(s)) \in Seq(Nat) /\ Len(SubSeq(s, first, Len(s))) = Len(s) - first + 1
      /\ \A i \in 1..(Len(s) - first + 1) : SubSeq(s, first, Len(s))[i] = s[first + i - 1]
  BY <1>1, SMTT(30)
<1>3. Len(s) - first + 1 = IF Len(s) > n THEN n ELSE Len(s)
  BY <1>1 DEF first
<1> QED BY <1>1, <1>2, <1>3

LEMMA StartPreserves == IInv /\ Start => IInv'
<1> SUFFICES ASSUME IInv, Start PROVE IInv'
  OBVIOUS
<1>1. /\ phase = "built" /\ phase' = "started" /\ ListsEmpty'
      /\ primaries' = Trim(primaries, AppLayers) /\ UNCHANGED <<stack, frame, config, qos>>
  BY DEF Start, ListsEmpty
<1>2. AppLayers' = AppLayers /\ AppLayers \in Nat /\ stack.wide \in Nat
  BY <1>1 DEF AppLayers, IInv, StackOK
<1>3. /\ primaries \in Seq(Nat) /\ frame \in Nat
      /\ \A i \in 1..Len(primaries) : primaries[i] <= frame
      /\ stack.wide <= AppLayers /\ stack.wide <= Len(primaries)
      /\ \A i \in 1..Len(primaries) : primaries[i] = frame <=> i > Len(primaries) - stack.wide
  BY <1>1 DEF IInv, PrimariesInv
<1> DEFINE kept == Trim(primaries, AppLayers)
           cut == Len(primaries) - Len(kept)
<1>4. /\ kept \in Seq(Nat) /\ Len(kept) <= AppLayers /\ stack.wide <= Len(kept)
      /\ \A i \in 1..Len(kept) : kept[i] = primaries[i + cut] /\ i + cut \in 1..Len(primaries)
  BY <1>2, <1>3, TrimKeepsLast
<1> HIDE DEF kept
<1>5. PrimariesInv'
  <2>1. ASSUME NEW i \in 1..Len(kept)
        PROVE  kept[i] <= frame /\ (kept[i] = frame <=> i > Len(kept) - stack.wide)
    <3>1. i + cut > Len(primaries) - stack.wide <=> i > Len(kept) - stack.wide
      BY <1>2, <1>3, <1>4, SMTT(30)
    <3> QED BY <1>3, <1>4, <3>1
  <2> QED BY <1>1, <1>2, <1>3, <1>4, <2>1 DEF PrimariesInv, kept
<1> QED BY <1>1, <1>5 DEF IInv, StackOK, ConfigOK, FrameComplete, TargetInv

(* The one step that completes a frame. *)
LEMMA PlanPreserves == IInv /\ GetNextStrategy => IInv'
<1> SUFFICES ASSUME IInv, GetNextStrategy PROVE IInv'
  OBVIOUS
<1> DEFINE composed == [i \in DOMAIN stack.compositions |-> "GPU"]
           l == [dst |-> Place(stack.target), flip |-> Flip(stack.target)]
<1>1. /\ phase = "started" /\ ListsEmpty
      /\ stack' = [stack EXCEPT !.compositions = composed]
      /\ index' = Append(index, GpuTargetIndex) /\ roiIndex' = Append(roiIndex, 0)
      /\ qos' = TRUE /\ phase' = "planned" /\ GpuTargetIndex # 0
      /\ hwLayers' = Append(hwLayers, l)
      /\ UNCHANGED <<config, primaries, frame>>
  BY DEF GetNextStrategy, IInv
<1>2. stack.compositions \in Seq({"SDE", "GPU"})
  BY DEF IInv, StackOK
<1>3. composed \in Seq({"SDE", "GPU"}) /\ Len(composed) = Len(stack.compositions)
  BY <1>2
<1>4. /\ stack'.compositions = composed /\ StackOK'
      /\ stack'.wide = stack.wide /\ stack'.target = stack.target
  BY <1>1, <1>3 DEF IInv, StackOK
<1>5. GpuTargetIndex = AppLayers /\ AppLayers' = AppLayers
  BY <1>1, <1>3, <1>4 DEF GpuTargetIndex, AppLayers
<1>6. Len(hwLayers') = 1 /\ index' = <<AppLayers>> /\ roiIndex' = <<0>> /\ Head(hwLayers') = l
  BY <1>1, <1>5 DEF ListsEmpty
<1>7. stack.target # NoTarget
  BY <1>1 DEF GpuTargetIndex, NoTarget
<1>8. Place(stack.target)' = Place(stack.target)
  BY <1>1, <1>4 DEF Place, Flip
<1>9. l.dst = Place(stack.target)
  OBVIOUS
<1> HIDE DEF l, composed
<1>10. TargetInv'
  BY <1>1, <1>4, <1>6, <1>7, <1>8, <1>9 DEF IInv, TargetInv
<1>11. PrimariesInv'
  BY <1>1, <1>4, <1>5 DEF IInv, PrimariesInv
<1>12. FrameComplete'
  BY <1>1, <1>4, <1>5, <1>6 DEF FrameComplete, composed
<1> QED BY <1>1, <1>4, <1>10, <1>11, <1>12 DEF IInv, ConfigOK

LEMMA StepPreserves == IInv /\ [Next]_vars => IInv'
<1> SUFFICES ASSUME IInv, [Next]_vars PROVE IInv'
  OBVIOUS
<1>1. CASE BuildFrame \/ Start \/ GetNextStrategy
  BY <1>1, BuildPreserves, StartPreserves, PlanPreserves
<1>2. CASE NotSupported \/ Commit \/ SetCompositionState \/ Flush
  BY <1>2, IdlePreserves
     DEF NotSupported, Commit, SetCompositionState, Flush, infoVars, frameVars, IInv, ConfigOK
<1>3. CASE Reconfigure
  BY <1>3, IdlePreserves DEF Reconfigure, infoVars, frameVars, ConfigOK
<1>4. CASE UNCHANGED vars
  BY <1>4, FrameStays DEF vars
<1> QED BY <1>1, <1>2, <1>3, <1>4 DEF Next

LEMMA InvariantHolds == Spec => []IInv
BY InitEstablishes, StepPreserves, PTL DEF Spec

(* Every frame that is planned has exactly its own target in all lists, its  *)
(* layers composed by the GPU, and the votes.                                *)
THEOREM FramesAlwaysComplete == Spec => []FrameComplete
<1>1. IInv => FrameComplete
  BY DEF IInv
<1> QED BY InvariantHolds, <1>1, PTL

(* However many frames came before, the list of the primaries is not longer  *)
(* than the frame has layers and still has all of its own.                   *)
THEOREM PrimariesAlwaysKept == Spec => []PrimariesKept
<1>1. IInv => PrimariesKept
  <2> SUFFICES ASSUME IInv, phase \in {"started", "planned"}
               PROVE  /\ Len(primaries) <= AppLayers
                      /\ Cardinality({i \in DOMAIN primaries : primaries[i] = frame}) = stack.wide
    BY DEF PrimariesKept
  <2>1. /\ primaries \in Seq(Nat) /\ stack.wide \in Nat /\ stack.wide <= Len(primaries)
        /\ \A i \in 1..Len(primaries) : primaries[i] = frame <=> i > Len(primaries) - stack.wide
        /\ Len(primaries) <= AppLayers
    BY DEF IInv, PrimariesInv, StackOK
  <2> DEFINE a == Len(primaries) - stack.wide + 1
             b == Len(primaries)
  <2>2. {i \in DOMAIN primaries : primaries[i] = frame} = a..b
    <3>1. DOMAIN primaries = 1..Len(primaries) /\ Len(primaries) \in Nat
      BY <2>1
    <3>2. \A i : i \in a..b => i \in 1..Len(primaries) /\ i > Len(primaries) - stack.wide
      BY <2>1, <3>1
    <3>3. \A i \in 1..Len(primaries) : i > Len(primaries) - stack.wide => i \in a..b
      BY <2>1, <3>1
    <3> HIDE DEF a, b
    <3> QED BY <2>1, <3>1, <3>2, <3>3
  <2>3. a \in Int /\ b \in Int /\ (a > b => stack.wide = 0) /\ b - a + 1 = stack.wide
    BY <2>1
  <2> HIDE DEF a, b
  <2>4. Cardinality(a..b) = stack.wide
    BY <2>3, FS_Interval
  <2> QED BY <2>1, <2>2, <2>4
<1> QED BY InvariantHolds, <1>1, PTL

(* For panels and framebuffers of any size, if one is a multiple of the      *)
(* other, and in every orientation: the target is shown where it is meant.   *)
THEOREM AlwaysShownWhereMeant == Spec => []ShownWhereMeant
<1>1. IInv => ShownWhereMeant
  <2> SUFFICES ASSUME IInv, phase = "planned",
                      NEW x \in 0..(config.mixer[1] - 1), NEW y \in 0..(config.mixer[2] - 1)
               PROVE  Covers(Head(hwLayers).dst, x, y) <=>
                        Covers(stack.target.dst,
                               Origin(x, config.fb[1], config.mixer[1], config.panel.horizontal),
                               Origin(y, config.fb[2], config.mixer[2], config.panel.vertical))
    BY DEF ShownWhereMeant
  <2> DEFINE d == stack.target.dst
             n == config.fb
             m == config.mixer
             panel == config.panel
  <2>1. /\ panel \in [horizontal : BOOLEAN, vertical : BOOLEAN]
        /\ n[1] \in Nat \ {0} /\ n[2] \in Nat \ {0} /\ m[1] \in Nat \ {0} /\ m[2] \in Nat \ {0}
        /\ m[1] % n[1] = 0 /\ m[2] % n[2] = 0
    BY SizesAssumption DEF IInv, ConfigOK
  <2>2. /\ stack.target \in [present : {TRUE}, dst : Rects(n), flip : {Unflipped}]
        /\ Head(hwLayers).dst = Place(stack.target)
    BY DEF IInv, TargetInv
  <2>3. /\ d.left \in 0..n[1] /\ d.right \in 0..n[1] /\ d.top \in 0..n[2] /\ d.bottom \in 0..n[2]
        /\ stack.target.flip = Unflipped
    BY <2>2 DEF Rects
  <2>4. /\ Flip(stack.target).horizontal <=> panel.horizontal
        /\ Flip(stack.target).vertical <=> panel.vertical
    <3>1. /\ panel.horizontal = TRUE \/ panel.horizontal = FALSE
          /\ panel.vertical = TRUE \/ panel.vertical = FALSE
      BY <2>1
    <3>2. stack.target.flip.horizontal = FALSE /\ stack.target.flip.vertical = FALSE
      BY <2>3 DEF Unflipped
    <3> QED BY <3>1, <3>2 DEF Flip
  <2>5. PICK h \in BOOLEAN, v \in BOOLEAN : panel.horizontal = h /\ panel.vertical = v
    BY <2>1
  <2> DEFINE left   == IF h THEN n[1] - d.right ELSE d.left
             right  == IF h THEN n[1] - d.left ELSE d.right
             top    == IF v THEN n[2] - d.bottom ELSE d.top
             bottom == IF v THEN n[2] - d.top ELSE d.bottom
  <2>6. /\ Head(hwLayers).dst.left = (left * m[1]) \div n[1]
        /\ Head(hwLayers).dst.right = (right * m[1]) \div n[1]
        /\ Head(hwLayers).dst.top = (top * m[2]) \div n[2]
        /\ Head(hwLayers).dst.bottom = (bottom * m[2]) \div n[2]
    BY <2>2, <2>4, <2>5 DEF Place, MapRect, TransformHV
  <2>7. x \in 0..(m[1] - 1) /\ y \in 0..(m[2] - 1)
    OBVIOUS
  <2> HIDE DEF d, n, m, panel
  <2>10. PICK k1 \in Nat \ {0}, k2 \in Nat \ {0} : m[1] = n[1] * k1 /\ m[2] = n[2] * k2
    <3>1. PICK a \in Nat \ {0}, b \in Nat \ {0} : a = n[1] /\ b = m[1] /\ b % a = 0
      BY <2>1
    <3>2. PICK a2 \in Nat \ {0}, b2 \in Nat \ {0} : a2 = n[2] /\ b2 = m[2] /\ b2 % a2 = 0
      BY <2>1
    <3>3. \E k \in Nat \ {0} : b = a * k
      BY <3>1, WholeFactor
    <3>4. \E k \in Nat \ {0} : b2 = a2 * k
      BY <3>2, WholeFactor
    <3> QED BY <3>1, <3>2, <3>3, <3>4
  <2>8. (left * m[1]) \div n[1] <= x /\ x < (right * m[1]) \div n[1] <=>
             d.left <= Origin(x, n[1], m[1], h) /\ Origin(x, n[1], m[1], h) < d.right
    <3>1. PICK w \in Nat \ {0}, s \in Int, low \in Int, high \in Int, z \in Int :
              w = n[1] /\ s = m[1] /\ low = d.left /\ high = d.right /\ z = x
      BY <2>1, <2>3, <2>7, SMTT(30)
    <3>2. low \in 0..w /\ high \in 0..w /\ z \in 0..(s - 1) /\ s = w * k1
      BY <2>3, <2>7, <2>10, <3>1
    <3>3. ((IF h THEN w - high ELSE low) * s) \div w <= z
              /\ z < ((IF h THEN w - low ELSE high) * s) \div w <=>
             low <= Origin(z, w, s, h) /\ Origin(z, w, s, h) < high
      BY <3>2, ShownInOneDimension
    <3> QED BY <3>1, <3>3
  <2>9. (top * m[2]) \div n[2] <= y /\ y < (bottom * m[2]) \div n[2] <=>
             d.top <= Origin(y, n[2], m[2], v) /\ Origin(y, n[2], m[2], v) < d.bottom
    <3>1. PICK w \in Nat \ {0}, s \in Int, low \in Int, high \in Int, z \in Int :
              w = n[2] /\ s = m[2] /\ low = d.top /\ high = d.bottom /\ z = y
      BY <2>1, <2>3, <2>7, SMTT(30)
    <3>2. low \in 0..w /\ high \in 0..w /\ z \in 0..(s - 1) /\ s = w * k2
      BY <2>3, <2>7, <2>10, <3>1
    <3>3. ((IF v THEN w - high ELSE low) * s) \div w <= z
              /\ z < ((IF v THEN w - low ELSE high) * s) \div w <=>
             low <= Origin(z, w, s, v) /\ Origin(z, w, s, v) < high
      BY <3>2, ShownInOneDimension
    <3> QED BY <3>1, <3>3
  <2> HIDE DEF left, right, top, bottom
  <2> QED BY <2>5, <2>6, <2>8, <2>9 DEF Covers, d, n, m, panel
<1> QED BY InvariantHolds, <1>1, PTL

=============================================================================
