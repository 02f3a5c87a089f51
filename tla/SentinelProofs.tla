---------------------------- MODULE SentinelProofs ----------------------------
(***************************************************************************)
(* What the display diagnostics of Sentinel may be trusted with, proved    *)
(* for any set of sampled cells.                                           *)
(*                                                                         *)
(* Each arm is annotated like a program: in front of every step stands a   *)
(* phase, which says what disturbs the oracles and what the maps so far    *)
(* know.  QuietRule and MapRule say which steps lead where, Path that a    *)
(* sequence of steps does, and the invariant that the phase in front of    *)
(* the steps still to come holds.                                          *)
(***************************************************************************)
EXTENDS Sentinel, FiniteSetTheorems, SequenceTheorems, TLAPS

--------------------------------------------------------------------------------
(* Steps, arms and phases.                                                    *)

Pictures == {"host", "blank", "text", "bitmap"}
Traffic == {"idle", "read", "write", "none", "pulses", "scrub"}

Step ==
    [do : {"mode"}, state : Pictures]
      \union [do : {"prefill", "verified", "capture"}, slot : Slots]
      \union [do : {"target", "threefold", "raster", "start", "stop", "repair",
                    "judge", "persistent"}]
      \union [do : {"compare"}, before : Slots, after : Slots]
      \union [do : {"expose"}, op : Traffic]
      \union [do : {"point"}, point : {"configured", "475", "swept"}]
      \union [do : {"bias"}, by : {0, 1}]
      \union [do : {"rw"}, driven : BOOLEAN]

Kinds(d) ==
    CASE d = "address" -> {"immediate", "map", "ladder"}
      [] d = "row" -> {"write", "retention"}
      [] d = "fetch" -> {"fetch", "retention"}
      [] d = "baGuard" -> {"plain", "biased"}
      [] d \in RefreshKinds -> {"control"} \union RefreshKinds
      [] OTHER -> {"all"}

ArmsOf(d) ==
    [state : Pictures, op : {"idle", "read", "write", "none"},
     salt : Nat, kind : Kinds(d) \union {"end"}]

\* What disturbs the oracles: nothing, the picture only, or one thing besides.
QuietPhases == {"open", "quiet", "biased", "driven", "served", "swept"}
\* What the maps know.
MapPhases ==
    {"any", "start", "dark", "seeded", "based", "exposed", "read", "kept", "told",
     "tripled", "struck", "one", "two", "three", "level", "repaired", "rechecked"}

Neutral == {"mode", "raster", "point", "bias", "rw", "start", "stop", "judge"}

\* The map before the exposure and the first after it.
BaseSlot(d) == IF d \in {"access", "display", "fetch", "persistence"} THEN 1 ELSE 0
LastSlot(d) == CASE d \in {"access", "display"} -> 0
                 [] d \in {"fetch", "persistence"} -> 2
                 [] d = "address" -> 3
                 [] OTHER -> 1
Complemented(d) == d \in {"fetch", "persistence", "boundary"} \union RefreshKinds

QuietRule(d, p, s, r) ==
    \/ s.do = "mode" /\ p \in {"open", "quiet"}
         /\ (r = "open" \/ (r = "quiet" /\ s.state = "blank"))
    \/ s.do = "bias" /\ p \in {"open", "biased"}
         /\ r = IF s.by = 0 THEN "open" ELSE "biased"
    \/ s.do = "rw" /\ p \in {"open", "driven"}
         /\ r = IF s.driven THEN "driven" ELSE "open"
    \/ s.do = "start" /\ p = "open" /\ r = "served"
    \/ s.do = "stop" /\ ((p = "served" /\ r = "open") \/ (p = "quiet" /\ r = "quiet"))
    \/ s.do = "point" /\ d = "timing" /\ p \in {"quiet", "swept"}
         /\ r = IF s.point = "configured" THEN "quiet" ELSE "swept"
    \/ s.do \in Oracles /\ r = p
         /\ (p = "quiet" \/ (d = "access" /\ p = "open")
               \/ (p = "swept" /\ d = "timing" /\ s.do = "capture"))
    \/ s.do \in {"raster", "judge", "expose", "compare", "persistent"} /\ r = p

MapRule(d, p, s, r) ==
    \/ r = "any"
    \/ s.do \in Neutral /\ r = p
    \/ s.do = "prefill" /\ p = "start" /\ r \in {"start", "dark"}
    \/ s.do = "target" /\ (p = "dark" \/ (p = "start" /\ ~Complemented(d))) /\ r = "seeded"
    \/ s.do = "verified" /\ p = "start" /\ d = "row" /\ s.slot = BaseSlot(d) /\ r = "based"
    \/ s.do = "threefold" /\ p = "start" /\ r = "tripled"
    \/ s.do = "expose" /\ p = "based" /\ r = "exposed"
    \/ s.do = "expose" /\ p = "tripled" /\ s.op # "scrub" /\ r = "struck"
    \/ s.do = "repair" /\ p = "level" /\ r = "repaired"
    \/ s.do = "persistent" /\ p = "three" /\ d = "baGuard" /\ r = "told"
    \/ /\ s.do = "capture"
       /\ \/ p = "seeded" /\ r = IF s.slot = BaseSlot(d) THEN "based" ELSE "seeded"
          \/ p = "based" /\ s.slot # BaseSlot(d) /\ r = "based"
          \/ p \in {"based", "exposed"} /\ s.slot = LastSlot(d) /\ r \in {"read", "kept"}
          \/ p \in {"read", "kept"} /\ s.slot \notin {BaseSlot(d), LastSlot(d)} /\ r = p
          \/ p = "told" /\ ~Complemented(d) /\ r = "told"
          \/ s.slot = 0 /\ r = "level"
          \/ p = "level" /\ s.slot # 0 /\ r = "level"
          \/ p = "repaired" /\ s.slot = 5 /\ r = "rechecked"
          \/ d = "baGuard" /\ p = "struck" /\ s.slot = 3 /\ r = "one"
          \/ d = "baGuard" /\ p = "one" /\ s.slot = 4 /\ r = "two"
          \/ d = "baGuard" /\ p = "two" /\ s.slot = 5 /\ r = "three"
    \/ /\ s.do = "compare"
       /\ \/ p = "read" /\ d # "baGuard" /\ r = "told"
               /\ s.before = BaseSlot(d) /\ s.after = LastSlot(d)
          \/ p \in {"told", "kept", "level", "rechecked"} /\ r = p
          \/ p = "read" /\ r = "kept"

Allowed(d, p, s, r) == QuietRule(d, p[1], s, r[1]) /\ MapRule(d, p[2], s, r[2])

Phases == QuietPhases \X MapPhases

\* The steps q lead from phase p to phase e.
Path(d, q, p, e) ==
    \E h \in [1 .. Len(q) + 1 -> Phases] :
        /\ h[1] = p /\ h[Len(q) + 1] = e
        /\ \A i \in 1 .. Len(q) : Allowed(d, h[i], q[i], h[i + 1])

\* Where an arm must end.
QuietEnd(d, k) == IF d = "access" \/ k = "none" THEN "open" ELSE "quiet"
MapEnd(d, k) ==
    IF k \in {"none", "end"} THEN "any"
    ELSE CASE d \in {"access", "display", "boundary", "baGuard"} \union RefreshKinds -> "told"
           [] d \in {"fetch", "persistence"} -> "kept"
           [] d = "row" /\ k = "retention" -> "kept"
           [] d = "address" /\ k = "ladder" -> "kept"
           [] d = "timing" -> "rechecked"
           [] OTHER -> "any"
Ending(d, k) == <<QuietEnd(d, k), MapEnd(d, k)>>

--------------------------------------------------------------------------------
(* What the phases say.                                                       *)

Stopped == ~core3.requested /\ ~core3.active /\ ~core3.continuous

QuietHolds(p) ==
    /\ p \in {"quiet", "swept"} => vic = "blank"
    /\ p # "biased" => bus.bias = 0
    /\ p # "driven" => ~bus.rw
    /\ p # "served" => Stopped
    /\ p # "swept" => bus.point = "configured"
    /\ p = "swept" => diag = "timing"

Current(s) == \A c \in Trusted : c \in map[s] <=> mem[c] # "target"
Differs(s) ==
    \A c \in Trusted :
        /\ c \in fault.hit <=> c \notin map[s] /\ mem[c] # "target"
        /\ c \in fault.mended <=> c \in map[s] /\ mem[c] = "target"
Fresh == report = <<>> /\ fault.hit = {} /\ fault.mended = {}
Shown == Complemented(diag) => fault.lost \cap Trusted \subseteq map[BaseSlot(diag)]
Told ==
    /\ Len(report) >= 1
    /\ report[1].added \cap Trusted = fault.hit \cap Trusted
    /\ report[1].removed \cap Trusted = fault.mended \cap Trusted
    /\ diag = "baGuard" => report[1].added \subseteq fault.hit
\* A cell that no base map shows, and that was not hit, is right.
Sure == \A c \in Cells : c \notin BaseAny /\ c \notin fault.hit => mem[c] = "target"
\* What a cell costs that is shown wrong nevertheless.
Costs(slots, n) ==
    \A c \in Cells : (c \notin BaseAny /\ c \notin fault.hit /\ \A s \in slots : c \in map[s])
        => fault.left + n <= MaxFaults
Struck ==
    /\ report = <<>> /\ fault.mended = {} /\ Sure
    /\ \A c \in Trusted : c \in fault.hit <=> c \notin BaseAny /\ mem[c] # "target"

MapHolds(p) ==
    CASE p = "any" -> TRUE
      [] p = "start" -> Fresh
      [] p = "dark" -> /\ Fresh
                       /\ \A c \in Trusted : mem[c] # "target" \/ fault.left = 0
      [] p = "seeded" -> /\ Fresh
                         /\ Complemented(diag) =>
                              \A c \in fault.lost \cap Trusted : mem[c] # "target"
      [] p = "based" -> Fresh /\ Current(BaseSlot(diag)) /\ Shown
      [] p = "exposed" -> report = <<>> /\ Differs(BaseSlot(diag)) /\ Shown
      [] p = "read" -> /\ report = <<>> /\ Differs(BaseSlot(diag)) /\ Shown
                       /\ Current(LastSlot(diag))
      [] p = "kept" -> Differs(BaseSlot(diag)) /\ Shown /\ Current(LastSlot(diag))
      [] p = "told" -> Told /\ Shown
      [] p = "tripled" -> /\ Fresh /\ Sure
                          /\ \A c \in Trusted : c \in BaseAny <=> mem[c] # "target"
      [] p = "struck" -> Struck
      [] p = "one" -> Struck /\ Costs({3}, 1) /\ Current(3)
      [] p = "two" -> Struck /\ Costs({3, 4}, 2) /\ Current(3) /\ Current(4)
      [] p = "three" -> Struck /\ Costs({3, 4, 5}, 3) /\ Current(3) /\ Current(4) /\ Current(5)
      [] p = "level" -> Current(0)
      [] p = "repaired" -> \A c \in Trusted : mem[c] # "target" => c \in fault.lost
      [] p = "rechecked" -> map[5] \cap Trusted \subseteq fault.lost

--------------------------------------------------------------------------------
(* The invariant.                                                             *)

TypeInv ==
    /\ diag \in Diagnostics
    /\ arms \in Seq(ArmsOf(diag))
    /\ arm.kind \in Kinds(diag) \union {"none", "end"}
    /\ steps \in Seq(Step)
    /\ tries \in Nat
    /\ mem \in [Cells -> {"wrong", "complement", "target"}]
    /\ bus = [point |-> bus.point, bias |-> bus.bias, rw |-> bus.rw]
    /\ core3 \in [requested : BOOLEAN, active : BOOLEAN, continuous : BOOLEAN]
    /\ map \in [Slots -> SUBSET Cells]
    /\ report \in Seq([added : SUBSET Cells, removed : SUBSET Cells])
    /\ fault \in [lost : SUBSET Cells, hit : SUBSET Cells, mended : SUBSET Cells,
                  misread : SUBSET Cells, left : Nat]

\* A failed attempt costs a fault.
CostInv == fault.left + tries <= MaxFaults

\* The first arm is still to come.
FirstInv ==
    arm.kind = "none" =>
        steps = <<>> /\ arms # <<>> /\ Head(arms).kind \notin {"end", "ladder"}

PhaseInv ==
    \E p \in Phases :
        /\ QuietHolds(p[1]) /\ MapHolds(p[2])
        /\ Path(diag, steps, p, Ending(diag, arm.kind))

SentinelInv == TypeInv /\ CostInv /\ FirstInv /\ PhaseInv

--------------------------------------------------------------------------------
(* Paths.                                                                     *)

\* The end of a path is where it ends.
LEMMA PathNil ==
    ASSUME NEW d, NEW p \in Phases, NEW e
    PROVE  Path(d, <<>>, p, e) <=> p = e
<1>1. ASSUME p = e PROVE Path(d, <<>>, p, e)
  <2> DEFINE h == [i \in 1 .. 1 |-> p]
  <2>1. h \in [1 .. Len(<<>>) + 1 -> Phases] /\ h[1] = p /\ h[Len(<<>>) + 1] = e
    BY <1>1
  <2> HIDE DEF h
  <2> QED BY <2>1 DEF Path
<1>2. ASSUME Path(d, <<>>, p, e) PROVE p = e
  BY <1>2 DEF Path
<1> QED BY <1>1, <1>2

\* The first step leads to a phase from which the others go on.
LEMMA PathPop ==
    ASSUME NEW d, NEW q \in Seq(Step), q # <<>>, NEW p, NEW e, Path(d, q, p, e)
    PROVE  \E r \in Phases : Allowed(d, p, Head(q), r) /\ Path(d, Tail(q), r, e)
<1>1. PICK h \in [1 .. Len(q) + 1 -> Phases] :
        /\ h[1] = p /\ h[Len(q) + 1] = e
        /\ \A i \in 1 .. Len(q) : Allowed(d, h[i], q[i], h[i + 1])
  BY DEF Path
<1>2. /\ Len(q) \in Nat /\ Len(q) > 0 /\ Head(q) = q[1]
      /\ Tail(q) \in Seq(Step) /\ Len(Tail(q)) = Len(q) - 1
      /\ \A i \in 1 .. Len(q) - 1 : Tail(q)[i] = q[i + 1]
  OBVIOUS
<1> DEFINE g == [i \in 1 .. Len(q) |-> h[i + 1]]
<1>3. g \in [1 .. Len(Tail(q)) + 1 -> Phases]
  BY <1>2
<1>4. g[1] = h[2] /\ g[Len(Tail(q)) + 1] = e
  BY <1>1, <1>2
<1>5. \A i \in 1 .. Len(Tail(q)) : Allowed(d, g[i], Tail(q)[i], g[i + 1])
  <2> TAKE i \in 1 .. Len(Tail(q))
  <2>1. i + 1 \in 1 .. Len(q) /\ g[i] = h[i + 1] /\ g[i + 1] = h[i + 1 + 1]
    BY <1>2
  <2> QED BY <1>1, <1>2, <2>1
<1> HIDE DEF g
<1>6. Path(d, Tail(q), h[2], e)
  BY <1>3, <1>4, <1>5 DEF Path
<1>7. h[2] \in Phases /\ Allowed(d, p, Head(q), h[2])
  <2>1. 1 \in 1 .. Len(q) /\ 2 \in 1 .. Len(q) + 1 /\ 1 + 1 = 2
    BY <1>2
  <2> QED BY <1>1, <1>2, <2>1
<1> QED BY <1>6, <1>7

\* And back.
LEMMA PathPush ==
    ASSUME NEW d, NEW q \in Seq(Step), q # <<>>, NEW p \in Phases, NEW r, NEW e,
           Allowed(d, p, Head(q), r), Path(d, Tail(q), r, e)
    PROVE  Path(d, q, p, e)
<1>1. PICK h \in [1 .. Len(Tail(q)) + 1 -> Phases] :
        /\ h[1] = r /\ h[Len(Tail(q)) + 1] = e
        /\ \A i \in 1 .. Len(Tail(q)) : Allowed(d, h[i], Tail(q)[i], h[i + 1])
  BY DEF Path
<1>2. /\ Len(q) \in Nat /\ Len(q) > 0 /\ Head(q) = q[1]
      /\ Tail(q) \in Seq(Step) /\ Len(Tail(q)) = Len(q) - 1
      /\ \A i \in 1 .. Len(q) - 1 : Tail(q)[i] = q[i + 1]
  OBVIOUS
<1> DEFINE g == [i \in 1 .. Len(q) + 1 |-> IF i = 1 THEN p ELSE h[i - 1]]
<1>3. g \in [1 .. Len(q) + 1 -> Phases] /\ g[1] = p /\ g[Len(q) + 1] = e
  BY <1>1, <1>2
<1>4. ASSUME NEW i \in 1 .. Len(q) PROVE Allowed(d, g[i], q[i], g[i + 1])
  <2>1. CASE i = 1
    <3>1. g[i] = p /\ g[i + 1] = r /\ q[i] = Head(q)
      BY <1>1, <1>2, <2>1
    <3> QED BY <3>1
  <2>2. CASE i # 1
    <3> DEFINE j == i - 1
    <3>1. j \in 1 .. Len(Tail(q)) /\ q[i] = Tail(q)[j] /\ g[i] = h[j] /\ g[i + 1] = h[j + 1]
      BY <1>2, <2>2
    <3> QED BY <1>1, <3>1
  <2> QED BY <2>1, <2>2
<1> HIDE DEF g
<1> QED BY <1>3, <1>4 DEF Path

\* Two paths make one.
LEMMA PathCat ==
    ASSUME NEW d, NEW q \in Seq(Step), NEW s \in Seq(Step), NEW p, NEW r, NEW e,
           Path(d, q, p, r), Path(d, s, r, e)
    PROVE  Path(d, q \o s, p, e)
<1>1. PICK h \in [1 .. Len(q) + 1 -> Phases] :
        /\ h[1] = p /\ h[Len(q) + 1] = r
        /\ \A i \in 1 .. Len(q) : Allowed(d, h[i], q[i], h[i + 1])
  BY DEF Path
<1>2. PICK k \in [1 .. Len(s) + 1 -> Phases] :
        /\ k[1] = r /\ k[Len(s) + 1] = e
        /\ \A i \in 1 .. Len(s) : Allowed(d, k[i], s[i], k[i + 1])
  BY DEF Path
<1>3. /\ Len(q) \in Nat /\ Len(s) \in Nat
      /\ q \o s \in Seq(Step) /\ Len(q \o s) = Len(q) + Len(s)
      /\ \A i \in 1 .. Len(q) : (q \o s)[i] = q[i]
      /\ \A i \in 1 .. Len(s) : (q \o s)[Len(q) + i] = s[i]
  OBVIOUS
<1> DEFINE g == [i \in 1 .. Len(q) + Len(s) + 1 |->
                   IF i <= Len(q) THEN h[i] ELSE k[i - Len(q)]]
<1>4. g \in [1 .. Len(q \o s) + 1 -> Phases]
  BY <1>3
<1>5. g[1] = p /\ g[Len(q \o s) + 1] = e
  <2>1. g[Len(q \o s) + 1] = k[Len(s) + 1]
    BY <1>3
  <2>2. CASE Len(q) = 0
    BY <1>1, <1>2, <1>3, <2>1, <2>2
  <2>3. CASE Len(q) # 0
    BY <1>1, <1>2, <1>3, <2>1, <2>3
  <2> QED BY <2>2, <2>3
<1>6. ASSUME NEW i \in 1 .. Len(q \o s)
      PROVE  Allowed(d, g[i], (q \o s)[i], g[i + 1])
  <2>1. CASE i < Len(q)
    <3>1. g[i] = h[i] /\ g[i + 1] = h[i + 1] /\ (q \o s)[i] = q[i] /\ i \in 1 .. Len(q)
      BY <1>3, <2>1
    <3> QED BY <1>1, <3>1
  <2>2. CASE i = Len(q)
    <3>1. g[i] = h[i] /\ g[i + 1] = k[1] /\ (q \o s)[i] = q[i] /\ i \in 1 .. Len(q)
      BY <1>3, <2>2
    <3> QED BY <1>1, <1>2, <3>1, <2>2
  <2>3. CASE i > Len(q)
    <3> DEFINE j == i - Len(q)
    <3>1. j \in 1 .. Len(s) /\ i = Len(q) + j
      BY <1>3, <2>3
    <3>2. g[i] = k[j] /\ g[i + 1] = k[j + 1] /\ (q \o s)[i] = s[j]
      BY <1>3, <2>3, <3>1
    <3> QED BY <1>2, <3>1, <3>2
  <2> QED BY <1>3, <2>1, <2>2, <2>3
<1> HIDE DEF g
<1> QED BY <1>4, <1>5, <1>6 DEF Path

--------------------------------------------------------------------------------
(* The programs: each arm is a path from its start to its end.                *)

\* The steps are steps.
LEMMA StepTypes ==
    /\ \A x \in Pictures : Mode(x) \in Step
    /\ \A x \in Traffic : Expose(x) \in Step
    /\ \A x \in {"configured", "475", "swept"} : SetPoint(x) \in Step
    /\ \A s \in Slots : Prefill(s) \in Step /\ Verified(s) \in Step /\ Capture(s) \in Step
    /\ \A b, a \in Slots : Compare(b, a) \in Step
    /\ \A b \in {0, 1} : Bias(b) \in Step
    /\ \A b \in BOOLEAN : Hold(b) \in Step
    /\ {Target, Threefold, Raster, Start, Stop, Repair, Judge, PersistentOnly} \subseteq Step
BY DEF Step, Mode, Expose, SetPoint, Prefill, Verified, Capture, Compare, Bias, Hold, Target,
       Threefold, Raster, Start, Stop, Repair, Judge, PersistentOnly

\* There are six maps.
LEMMA SlotTypes == {0, 1, 2, 3, 4, 5} \subseteq Slots
BY DEF Slots

\* An annotation is a path.
LEMMA PathOf ==
    ASSUME NEW d, NEW q, NEW n \in Nat, Len(q) = n, NEW h \in [1 .. n + 1 -> Phases],
           NEW p, NEW e, h[1] = p, h[n + 1] = e,
           \A i \in 1 .. n : Allowed(d, h[i], q[i], h[i + 1])
    PROVE  Path(d, q, p, e)
BY DEF Path

\* runAccessSentinelDiagnostic: the picture stays on.
LEMMA AccessPath ==
    ASSUME NEW a, a.state \in Pictures, a.op \in Traffic
    PROVE  /\ AccessSteps(a) \in Seq(Step)
           /\ Path("access", AccessSteps(a), <<"open", "start">>, <<"open", "told">>)
<1> DEFINE h == <<<<"open", "start">>, <<"open", "seeded">>, <<"open", "seeded">>,
                <<"open", "based">>, <<"open", "exposed">>, <<"open", "read">>,
                <<"open", "told">>, <<"open", "told">>, <<"open", "told">>>>
<1>1. AccessSteps(a) \in Seq(Step)
  <2>1. /\ Target \in Step
        /\ Capture(0) \in Step
        /\ Capture(1) \in Step
        /\ Expose(a.op) \in Step
        /\ Compare(1, 0) \in Step
        /\ Compare(0, 1) \in Step
    BY StepTypes, SlotTypes DEF Pictures, Traffic
  <2> QED BY <2>1 DEF AccessSteps
<1>2. Len(AccessSteps(a)) = 8
  BY DEF AccessSteps
<1>3. h \in [1 .. 8 + 1 -> Phases]
  BY DEF Phases, QuietPhases, MapPhases
<1>4. ASSUME NEW i \in 1 .. 8 PROVE Allowed("access", h[i], AccessSteps(a)[i], h[i + 1])
  BY DEF AccessSteps, Target, Capture, Compare, Expose, Allowed, QuietRule, MapRule,
         Neutral, Oracles, BaseSlot, LastSlot, Complemented, RefreshKinds
<1>5. h[1] = <<"open", "start">> /\ h[8 + 1] = <<"open", "told">>
  OBVIOUS
<1> HIDE DEF h
<1> QED BY <1>1, <1>2, <1>3, <1>4, <1>5, PathOf

\* runDisplaySentinelDiagnostic.
LEMMA DisplayPath ==
    ASSUME NEW a, a.state \in Pictures, a.op \in Traffic
    PROVE  /\ DisplaySteps(a) \in Seq(Step)
           /\ Path("display", DisplaySteps(a), <<"open", "start">>, <<"quiet", "told">>)
<1> DEFINE h == <<<<"open", "start">>, <<"quiet", "start">>, <<"quiet", "seeded">>,
                <<"quiet", "seeded">>, <<"quiet", "based">>, <<"open", "based">>,
                <<"open", "exposed">>, <<"quiet", "exposed">>, <<"quiet", "read">>,
                <<"quiet", "told">>, <<"quiet", "told">>, <<"quiet", "told">>,
                <<"quiet", "told">>, <<"quiet", "told">>>>
<1>1. DisplaySteps(a) \in Seq(Step)
  <2>1. /\ Mode("blank") \in Step
        /\ Target \in Step
        /\ Capture(0) \in Step
        /\ Capture(1) \in Step
        /\ Mode(a.state) \in Step
        /\ Expose(a.op) \in Step
        /\ Compare(1, 0) \in Step
        /\ Compare(0, 1) \in Step
    BY StepTypes, SlotTypes DEF Pictures, Traffic
  <2> QED BY <2>1 DEF DisplaySteps
<1>2. Len(DisplaySteps(a)) = 13
  BY DEF DisplaySteps
<1>3. h \in [1 .. 13 + 1 -> Phases]
  BY DEF Phases, QuietPhases, MapPhases
<1>4. ASSUME NEW i \in 1 .. 13 PROVE Allowed("display", h[i], DisplaySteps(a)[i], h[i + 1])
  BY DEF DisplaySteps, Mode, Target, Capture, Compare, Expose, Allowed, QuietRule,
         MapRule, Neutral, Oracles, BaseSlot, LastSlot, Complemented, RefreshKinds
<1>5. h[1] = <<"open", "start">> /\ h[13 + 1] = <<"quiet", "told">>
  OBVIOUS
<1> HIDE DEF h
<1> QED BY <1>1, <1>2, <1>3, <1>4, <1>5, PathOf

\* The address diagnostic, which promises nothing of its immediate reads.
LEMMA ImmediatePath ==
    ASSUME NEW a, a.kind = "immediate"
    PROVE  /\ AddressSteps(a) \in Seq(Step)
           /\ Path("address", AddressSteps(a), <<"open", "start">>, <<"quiet", "any">>)
<1> DEFINE h == <<<<"open", "start">>, <<"quiet", "any">>, <<"quiet", "any">>,
                <<"quiet", "any">>, <<"quiet", "any">>, <<"quiet", "any">>,
                <<"quiet", "any">>>>
<1>1. AddressSteps(a) \in Seq(Step)
  <2>1. /\ Mode("blank") \in Step
        /\ Target \in Step
        /\ Capture(0) \in Step
        /\ Capture(1) \in Step
        /\ Capture(2) \in Step
        /\ Judge \in Step
    BY StepTypes, SlotTypes DEF Pictures, Traffic
  <2> QED BY <2>1 DEF AddressSteps
<1>2. Len(AddressSteps(a)) = 6
  BY DEF AddressSteps
<1>3. h \in [1 .. 6 + 1 -> Phases]
  BY DEF Phases, QuietPhases, MapPhases
<1>4. ASSUME NEW i \in 1 .. 6 PROVE Allowed("address", h[i], AddressSteps(a)[i], h[i + 1])
  BY DEF AddressSteps, Mode, Target, Capture, Judge, Allowed, QuietRule, MapRule,
         Neutral, Oracles, BaseSlot, LastSlot, Complemented, RefreshKinds
<1>5. h[1] = <<"open", "start">> /\ h[6 + 1] = <<"quiet", "any">>
  OBVIOUS
<1> HIDE DEF h
<1> QED BY <1>1, <1>2, <1>3, <1>4, <1>5, PathOf

\* Its whole maps.
LEMMA AddressMapPath ==
    ASSUME NEW a, a.kind = "map"
    PROVE  /\ AddressSteps(a) \in Seq(Step)
           /\ Path("address", AddressSteps(a), <<"open", "start">>, <<"quiet", "any">>)
<1> DEFINE h == <<<<"open", "start">>, <<"quiet", "any">>, <<"quiet", "any">>,
                <<"quiet", "any">>>>
<1>1. AddressSteps(a) \in Seq(Step)
  <2>1. /\ Mode("blank") \in Step
        /\ Target \in Step
        /\ Capture(0) \in Step
    BY StepTypes, SlotTypes DEF Pictures, Traffic
  <2> QED BY <2>1 DEF AddressSteps
<1>2. Len(AddressSteps(a)) = 3
  BY DEF AddressSteps
<1>3. h \in [1 .. 3 + 1 -> Phases]
  BY DEF Phases, QuietPhases, MapPhases
<1>4. ASSUME NEW i \in 1 .. 3 PROVE Allowed("address", h[i], AddressSteps(a)[i], h[i + 1])
  BY DEF AddressSteps, Mode, Target, Capture, Allowed, QuietRule, MapRule, Neutral,
         Oracles, BaseSlot, LastSlot, Complemented, RefreshKinds
<1>5. h[1] = <<"open", "start">> /\ h[3 + 1] = <<"quiet", "any">>
  OBVIOUS
<1> HIDE DEF h
<1> QED BY <1>1, <1>2, <1>3, <1>4, <1>5, PathOf

\* Its ladder of delays.
LEMMA LadderPath ==
    ASSUME NEW a, a.kind = "ladder"
    PROVE  /\ AddressSteps(a) \in Seq(Step)
           /\ Path("address", AddressSteps(a), <<"open", "start">>, <<"quiet", "kept">>)
<1> DEFINE h == <<<<"open", "start">>, <<"quiet", "start">>, <<"quiet", "seeded">>,
                <<"quiet", "based">>, <<"quiet", "based">>, <<"quiet", "based">>,
                <<"quiet", "exposed">>, <<"quiet", "kept">>, <<"quiet", "kept">>,
                <<"quiet", "kept">>>>
<1>1. AddressSteps(a) \in Seq(Step)
  <2>1. /\ Mode("blank") \in Step
        /\ Target \in Step
        /\ Capture(0) \in Step
        /\ Capture(1) \in Step
        /\ Capture(2) \in Step
        /\ Expose("idle") \in Step
        /\ Capture(3) \in Step
        /\ Capture(4) \in Step
        /\ Capture(5) \in Step
    BY StepTypes, SlotTypes DEF Pictures, Traffic
  <2> QED BY <2>1 DEF AddressSteps
<1>2. Len(AddressSteps(a)) = 9
  BY DEF AddressSteps
<1>3. h \in [1 .. 9 + 1 -> Phases]
  BY DEF Phases, QuietPhases, MapPhases
<1>4. ASSUME NEW i \in 1 .. 9 PROVE Allowed("address", h[i], AddressSteps(a)[i], h[i + 1])
  BY DEF AddressSteps, Mode, Target, Capture, Expose, Allowed, QuietRule, MapRule,
         Neutral, Oracles, BaseSlot, LastSlot, Complemented, RefreshKinds
<1>5. h[1] = <<"open", "start">> /\ h[9 + 1] = <<"quiet", "kept">>
  OBVIOUS
<1> HIDE DEF h
<1> QED BY <1>1, <1>2, <1>3, <1>4, <1>5, PathOf

\* The row diagnostic: its write maps.
LEMMA RowWritePath ==
    ASSUME NEW a, a.kind = "write"
    PROVE  /\ RowSteps(a) \in Seq(Step)
           /\ Path("row", RowSteps(a), <<"open", "start">>, <<"quiet", "any">>)
<1> DEFINE h == <<<<"open", "start">>, <<"quiet", "any">>, <<"quiet", "any">>,
                <<"quiet", "any">>, <<"quiet", "any">>>>
<1>1. RowSteps(a) \in Seq(Step)
  <2>1. /\ Mode("blank") \in Step
        /\ Prefill(0) \in Step
        /\ Target \in Step
        /\ Capture(1) \in Step
    BY StepTypes, SlotTypes DEF Pictures, Traffic
  <2> QED BY <2>1 DEF RowSteps
<1>2. Len(RowSteps(a)) = 4
  BY DEF RowSteps
<1>3. h \in [1 .. 4 + 1 -> Phases]
  BY DEF Phases, QuietPhases, MapPhases
<1>4. ASSUME NEW i \in 1 .. 4 PROVE Allowed("row", h[i], RowSteps(a)[i], h[i + 1])
  BY DEF RowSteps, Mode, Prefill, Target, Capture, Allowed, QuietRule, MapRule,
         Neutral, Oracles, BaseSlot, LastSlot, Complemented, RefreshKinds
<1>5. h[1] = <<"open", "start">> /\ h[4 + 1] = <<"quiet", "any">>
  OBVIOUS
<1> HIDE DEF h
<1> QED BY <1>1, <1>2, <1>3, <1>4, <1>5, PathOf

\* And its retention arms.
LEMMA RowRetentionPath ==
    ASSUME NEW a, a.kind = "retention"
    PROVE  /\ RowSteps(a) \in Seq(Step)
           /\ Path("row", RowSteps(a), <<"open", "start">>, <<"quiet", "kept">>)
<1> DEFINE h == <<<<"open", "start">>, <<"quiet", "start">>, <<"quiet", "based">>,
                <<"quiet", "exposed">>, <<"quiet", "kept">>>>
<1>1. RowSteps(a) \in Seq(Step)
  <2>1. /\ Mode("blank") \in Step
        /\ Verified(0) \in Step
        /\ Expose("idle") \in Step
        /\ Capture(1) \in Step
    BY StepTypes, SlotTypes DEF Pictures, Traffic
  <2> QED BY <2>1 DEF RowSteps
<1>2. Len(RowSteps(a)) = 4
  BY DEF RowSteps
<1>3. h \in [1 .. 4 + 1 -> Phases]
  BY DEF Phases, QuietPhases, MapPhases
<1>4. ASSUME NEW i \in 1 .. 4 PROVE Allowed("row", h[i], RowSteps(a)[i], h[i + 1])
  BY DEF RowSteps, Mode, Verified, Capture, Expose, Allowed, QuietRule, MapRule,
         Neutral, Oracles, BaseSlot, LastSlot, Complemented, RefreshKinds
<1>5. h[1] = <<"open", "start">> /\ h[4 + 1] = <<"quiet", "kept">>
  OBVIOUS
<1> HIDE DEF h
<1> QED BY <1>1, <1>2, <1>3, <1>4, <1>5, PathOf

\* runDisplayPersistenceDiagnostic.
LEMMA PersistencePath ==
    ASSUME NEW a, a.state \in Pictures, a.op \in Traffic
    PROVE  /\ PersistenceSteps(a) \in Seq(Step)
           /\ Path("persistence", PersistenceSteps(a), <<"open", "start">>, <<"quiet", "kept">>)
<1> DEFINE h == <<<<"open", "start">>, <<"quiet", "start">>, <<"quiet", "dark">>,
                <<"quiet", "seeded">>, <<"quiet", "based">>, <<"open", "based">>,
                <<"open", "exposed">>, <<"quiet", "exposed">>, <<"quiet", "kept">>,
                <<"quiet", "kept">>, <<"quiet", "kept">>, <<"quiet", "kept">>,
                <<"quiet", "kept">>>>
<1>1. PersistenceSteps(a) \in Seq(Step)
  <2>1. /\ Mode("blank") \in Step
        /\ Prefill(0) \in Step
        /\ Target \in Step
        /\ Capture(1) \in Step
        /\ Mode(a.state) \in Step
        /\ Expose(a.op) \in Step
        /\ Capture(2) \in Step
        /\ Capture(3) \in Step
        /\ Capture(4) \in Step
        /\ Compare(2, 3) \in Step
        /\ Compare(3, 4) \in Step
    BY StepTypes, SlotTypes DEF Pictures, Traffic
  <2> QED BY <2>1 DEF PersistenceSteps
<1>2. Len(PersistenceSteps(a)) = 12
  BY DEF PersistenceSteps
<1>3. h \in [1 .. 12 + 1 -> Phases]
  BY DEF Phases, QuietPhases, MapPhases
<1>4. ASSUME NEW i \in 1 .. 12 PROVE Allowed("persistence", h[i], PersistenceSteps(a)[i], h[i + 1])
  BY DEF PersistenceSteps, Mode, Prefill, Target, Capture, Compare, Expose, Allowed,
         QuietRule, MapRule, Neutral, Oracles, BaseSlot, LastSlot, Complemented,
         RefreshKinds
<1>5. h[1] = <<"open", "start">> /\ h[12 + 1] = <<"quiet", "kept">>
  OBVIOUS
<1> HIDE DEF h
<1> QED BY <1>1, <1>2, <1>3, <1>4, <1>5, PathOf

\* The fetch diagnostic seeds,
LEMMA FetchSeedPath ==
    LET q == <<Mode("blank"), Prefill(0), Target, Capture(1)>>
           IN  q \in Seq(Step) /\ Path("fetch", q, <<"open", "start">>, <<"quiet", "based">>)
<1> DEFINE q == <<Mode("blank"), Prefill(0), Target, Capture(1)>>
<1> DEFINE h == <<<<"open", "start">>, <<"quiet", "start">>, <<"quiet", "dark">>,
                <<"quiet", "seeded">>, <<"quiet", "based">>>>
<1>1. q \in Seq(Step)
  <2>1. /\ Mode("blank") \in Step
        /\ Prefill(0) \in Step
        /\ Target \in Step
        /\ Capture(1) \in Step
    BY StepTypes, SlotTypes DEF Pictures, Traffic
  <2> QED BY <2>1
<1>2. Len(q) = 4
  OBVIOUS
<1>3. h \in [1 .. 4 + 1 -> Phases]
  BY DEF Phases, QuietPhases, MapPhases
<1>4. ASSUME NEW i \in 1 .. 4 PROVE Allowed("fetch", h[i], q[i], h[i + 1])
  BY DEF Mode, Prefill, Target, Capture, Allowed, QuietRule, MapRule, Neutral,
         Oracles, BaseSlot, LastSlot, Complemented, RefreshKinds
<1>5. h[1] = <<"open", "start">> /\ h[4 + 1] = <<"quiet", "based">>
  OBVIOUS
<1> HIDE DEF h, q
<1>6. q \in Seq(Step) /\ Path("fetch", q, <<"open", "start">>, <<"quiet", "based">>)
  BY <1>1, <1>2, <1>3, <1>4, <1>5, PathOf
<1> QED BY <1>6 DEF q

\* waits,
LEMMA FetchIdlePath ==
    LET q == <<Expose("idle")>>
           IN  q \in Seq(Step) /\ Path("fetch", q, <<"quiet", "based">>, <<"quiet", "exposed">>)
<1> DEFINE q == <<Expose("idle")>>
<1> DEFINE h == <<<<"quiet", "based">>, <<"quiet", "exposed">>>>
<1>1. q \in Seq(Step)
  <2>1. /\ Expose("idle") \in Step
    BY StepTypes, SlotTypes DEF Pictures, Traffic
  <2> QED BY <2>1
<1>2. Len(q) = 1
  OBVIOUS
<1>3. h \in [1 .. 1 + 1 -> Phases]
  BY DEF Phases, QuietPhases, MapPhases
<1>4. ASSUME NEW i \in 1 .. 1 PROVE Allowed("fetch", h[i], q[i], h[i + 1])
  BY DEF Expose, Allowed, QuietRule, MapRule, Neutral, Oracles, BaseSlot, LastSlot,
         Complemented, RefreshKinds
<1>5. h[1] = <<"quiet", "based">> /\ h[1 + 1] = <<"quiet", "exposed">>
  OBVIOUS
<1> HIDE DEF h, q
<1>6. q \in Seq(Step) /\ Path("fetch", q, <<"quiet", "based">>, <<"quiet", "exposed">>)
  BY <1>1, <1>2, <1>3, <1>4, <1>5, PathOf
<1> QED BY <1>6 DEF q

\* or exposes,
LEMMA FetchExposePath ==
    ASSUME NEW a, a.state \in Pictures, a.op \in Traffic
    PROVE  LET q == <<Mode(a.state), Expose(a.op), Mode("blank")>>
           IN  q \in Seq(Step) /\ Path("fetch", q, <<"quiet", "based">>, <<"quiet", "exposed">>)
<1> DEFINE q == <<Mode(a.state), Expose(a.op), Mode("blank")>>
<1> DEFINE h == <<<<"quiet", "based">>, <<"open", "based">>, <<"open", "exposed">>,
                <<"quiet", "exposed">>>>
<1>1. q \in Seq(Step)
  <2>1. /\ Mode(a.state) \in Step
        /\ Expose(a.op) \in Step
        /\ Mode("blank") \in Step
    BY StepTypes, SlotTypes DEF Pictures, Traffic
  <2> QED BY <2>1
<1>2. Len(q) = 3
  OBVIOUS
<1>3. h \in [1 .. 3 + 1 -> Phases]
  BY DEF Phases, QuietPhases, MapPhases
<1>4. ASSUME NEW i \in 1 .. 3 PROVE Allowed("fetch", h[i], q[i], h[i + 1])
  BY DEF Mode, Expose, Allowed, QuietRule, MapRule, Neutral, Oracles, BaseSlot,
         LastSlot, Complemented, RefreshKinds
<1>5. h[1] = <<"quiet", "based">> /\ h[3 + 1] = <<"quiet", "exposed">>
  OBVIOUS
<1> HIDE DEF h, q
<1>6. q \in Seq(Step) /\ Path("fetch", q, <<"quiet", "based">>, <<"quiet", "exposed">>)
  BY <1>1, <1>2, <1>3, <1>4, <1>5, PathOf
<1> QED BY <1>6 DEF q

\* and reads back.
LEMMA FetchReadPath ==
    LET q == <<Capture(2)>>
           IN  q \in Seq(Step) /\ Path("fetch", q, <<"quiet", "exposed">>, <<"quiet", "kept">>)
<1> DEFINE q == <<Capture(2)>>
<1> DEFINE h == <<<<"quiet", "exposed">>, <<"quiet", "kept">>>>
<1>1. q \in Seq(Step)
  <2>1. /\ Capture(2) \in Step
    BY StepTypes, SlotTypes DEF Pictures, Traffic
  <2> QED BY <2>1
<1>2. Len(q) = 1
  OBVIOUS
<1>3. h \in [1 .. 1 + 1 -> Phases]
  BY DEF Phases, QuietPhases, MapPhases
<1>4. ASSUME NEW i \in 1 .. 1 PROVE Allowed("fetch", h[i], q[i], h[i + 1])
  BY DEF Capture, Allowed, QuietRule, MapRule, Neutral, Oracles, BaseSlot, LastSlot,
         Complemented, RefreshKinds
<1>5. h[1] = <<"quiet", "exposed">> /\ h[1 + 1] = <<"quiet", "kept">>
  OBVIOUS
<1> HIDE DEF h, q
<1>6. q \in Seq(Step) /\ Path("fetch", q, <<"quiet", "exposed">>, <<"quiet", "kept">>)
  BY <1>1, <1>2, <1>3, <1>4, <1>5, PathOf
<1> QED BY <1>6 DEF q

\* The timing diagnostic seeds and exposes,
LEMMA TimingSeedPath ==
    ASSUME NEW a, a.state \in Pictures, a.op \in Traffic
    PROVE  LET q == <<Mode("blank"), SetPoint("configured"), Prefill(5), Target,
                  Capture(5), Mode(a.state), Expose(a.op), Mode("blank")>>
           IN  q \in Seq(Step) /\ Path("timing", q, <<"open", "start">>, <<"quiet", "any">>)
<1> DEFINE q == <<Mode("blank"), SetPoint("configured"), Prefill(5), Target,
                Capture(5), Mode(a.state), Expose(a.op), Mode("blank")>>
<1> DEFINE h == <<<<"open", "start">>, <<"quiet", "any">>, <<"quiet", "any">>,
                <<"quiet", "any">>, <<"quiet", "any">>, <<"quiet", "any">>,
                <<"open", "any">>, <<"open", "any">>, <<"quiet", "any">>>>
<1>1. q \in Seq(Step)
  <2>1. /\ Mode("blank") \in Step
        /\ SetPoint("configured") \in Step
        /\ Prefill(5) \in Step
        /\ Target \in Step
        /\ Capture(5) \in Step
        /\ Mode(a.state) \in Step
        /\ Expose(a.op) \in Step
    BY StepTypes, SlotTypes DEF Pictures, Traffic
  <2> QED BY <2>1
<1>2. Len(q) = 8
  OBVIOUS
<1>3. h \in [1 .. 8 + 1 -> Phases]
  BY DEF Phases, QuietPhases, MapPhases
<1>4. ASSUME NEW i \in 1 .. 8 PROVE Allowed("timing", h[i], q[i], h[i + 1])
  BY DEF Mode, Prefill, Target, Capture, Expose, SetPoint, Allowed, QuietRule,
         MapRule, Neutral, Oracles, BaseSlot, LastSlot, Complemented, RefreshKinds
<1>5. h[1] = <<"open", "start">> /\ h[8 + 1] = <<"quiet", "any">>
  OBVIOUS
<1> HIDE DEF h, q
<1>6. q \in Seq(Step) /\ Path("timing", q, <<"open", "start">>, <<"quiet", "any">>)
  BY <1>1, <1>2, <1>3, <1>4, <1>5, PathOf
<1> QED BY <1>6 DEF q

\* sweeps the sample point,
LEMMA TimingSweepPath ==
    LET q == <<SetPoint("475"), Capture(0), Compare(0, 0), SetPoint("swept"),
                  Capture(1), Compare(0, 1), SetPoint("475"), Capture(2),
                  Compare(0, 2)>>
           IN  q \in Seq(Step) /\ Path("timing", q, <<"quiet", "any">>, <<"swept", "level">>)
<1> DEFINE q == <<SetPoint("475"), Capture(0), Compare(0, 0), SetPoint("swept"),
                Capture(1), Compare(0, 1), SetPoint("475"), Capture(2),
                Compare(0, 2)>>
<1> DEFINE h == <<<<"quiet", "any">>, <<"swept", "any">>, <<"swept", "level">>,
                <<"swept", "level">>, <<"swept", "level">>, <<"swept", "level">>,
                <<"swept", "level">>, <<"swept", "level">>, <<"swept", "level">>,
                <<"swept", "level">>>>
<1>1. q \in Seq(Step)
  <2>1. /\ SetPoint("475") \in Step
        /\ Capture(0) \in Step
        /\ Compare(0, 0) \in Step
        /\ SetPoint("swept") \in Step
        /\ Capture(1) \in Step
        /\ Compare(0, 1) \in Step
        /\ Capture(2) \in Step
        /\ Compare(0, 2) \in Step
    BY StepTypes, SlotTypes DEF Pictures, Traffic
  <2> QED BY <2>1
<1>2. Len(q) = 9
  OBVIOUS
<1>3. h \in [1 .. 9 + 1 -> Phases]
  BY DEF Phases, QuietPhases, MapPhases
<1>4. ASSUME NEW i \in 1 .. 9 PROVE Allowed("timing", h[i], q[i], h[i + 1])
  BY DEF Capture, Compare, SetPoint, Allowed, QuietRule, MapRule, Neutral, Oracles,
         BaseSlot, LastSlot, Complemented, RefreshKinds
<1>5. h[1] = <<"quiet", "any">> /\ h[9 + 1] = <<"swept", "level">>
  OBVIOUS
<1> HIDE DEF h, q
<1>6. q \in Seq(Step) /\ Path("timing", q, <<"quiet", "any">>, <<"swept", "level">>)
  BY <1>1, <1>2, <1>3, <1>4, <1>5, PathOf
<1> QED BY <1>6 DEF q

\* and repairs.
LEMMA TimingRepairPath ==
    LET q == <<SetPoint("configured"), Repair, Capture(5), Compare(0, 5)>>
           IN  q \in Seq(Step) /\ Path("timing", q, <<"swept", "level">>, <<"quiet", "rechecked">>)
<1> DEFINE q == <<SetPoint("configured"), Repair, Capture(5), Compare(0, 5)>>
<1> DEFINE h == <<<<"swept", "level">>, <<"quiet", "level">>,
                <<"quiet", "repaired">>, <<"quiet", "rechecked">>,
                <<"quiet", "rechecked">>>>
<1>1. q \in Seq(Step)
  <2>1. /\ SetPoint("configured") \in Step
        /\ Repair \in Step
        /\ Capture(5) \in Step
        /\ Compare(0, 5) \in Step
    BY StepTypes, SlotTypes DEF Pictures, Traffic
  <2> QED BY <2>1
<1>2. Len(q) = 4
  OBVIOUS
<1>3. h \in [1 .. 4 + 1 -> Phases]
  BY DEF Phases, QuietPhases, MapPhases
<1>4. ASSUME NEW i \in 1 .. 4 PROVE Allowed("timing", h[i], q[i], h[i + 1])
  BY DEF Capture, Compare, SetPoint, Repair, Allowed, QuietRule, MapRule, Neutral,
         Oracles, BaseSlot, LastSlot, Complemented, RefreshKinds
<1>5. h[1] = <<"swept", "level">> /\ h[4 + 1] = <<"quiet", "rechecked">>
  OBVIOUS
<1> HIDE DEF h, q
<1>6. q \in Seq(Step) /\ Path("timing", q, <<"swept", "level">>, <<"quiet", "rechecked">>)
  BY <1>1, <1>2, <1>3, <1>4, <1>5, PathOf
<1> QED BY <1>6 DEF q

\* The boundary and refresh diagnostics seed and switch the picture on,
LEMMA TransitionSeedPath ==
    ASSUME NEW a, a.state \in Pictures, a.op \in Traffic,
           NEW d \in {"boundary"} \union RefreshKinds
    PROVE  LET q == <<Mode("blank"), Prefill(0), Target, Capture(0), Raster,
                  Mode(a.state)>>
           IN  q \in Seq(Step) /\ Path(d, q, <<"open", "start">>, <<"open", "based">>)
<1> DEFINE q == <<Mode("blank"), Prefill(0), Target, Capture(0), Raster,
                Mode(a.state)>>
<1> DEFINE h == <<<<"open", "start">>, <<"quiet", "start">>, <<"quiet", "dark">>,
                <<"quiet", "seeded">>, <<"quiet", "based">>, <<"quiet", "based">>,
                <<"open", "based">>>>
<1>1. q \in Seq(Step)
  <2>1. /\ Mode("blank") \in Step
        /\ Prefill(0) \in Step
        /\ Target \in Step
        /\ Capture(0) \in Step
        /\ Raster \in Step
        /\ Mode(a.state) \in Step
    BY StepTypes, SlotTypes DEF Pictures, Traffic
  <2> QED BY <2>1
<1>2. Len(q) = 6
  OBVIOUS
<1>3. h \in [1 .. 6 + 1 -> Phases]
  BY DEF Phases, QuietPhases, MapPhases
<1>4. ASSUME NEW i \in 1 .. 6 PROVE Allowed(d, h[i], q[i], h[i + 1])
  BY DEF Mode, Prefill, Target, Capture, Raster, Allowed, QuietRule, MapRule,
         Neutral, Oracles, BaseSlot, LastSlot, Complemented, RefreshKinds
<1>5. h[1] = <<"open", "start">> /\ h[6 + 1] = <<"open", "based">>
  OBVIOUS
<1> HIDE DEF h, q
<1>6. q \in Seq(Step) /\ Path(d, q, <<"open", "start">>, <<"open", "based">>)
  BY <1>1, <1>2, <1>3, <1>4, <1>5, PathOf
<1> QED BY <1>6 DEF q

\* expose,
LEMMA BoundaryExposePath ==
    LET q == <<Expose("idle"), Raster>>
           IN  q \in Seq(Step) /\ Path("boundary", q, <<"open", "based">>, <<"open", "exposed">>)
<1> DEFINE q == <<Expose("idle"), Raster>>
<1> DEFINE h == <<<<"open", "based">>, <<"open", "exposed">>, <<"open", "exposed">>>>
<1>1. q \in Seq(Step)
  <2>1. /\ Expose("idle") \in Step
        /\ Raster \in Step
    BY StepTypes, SlotTypes DEF Pictures, Traffic
  <2> QED BY <2>1
<1>2. Len(q) = 2
  OBVIOUS
<1>3. h \in [1 .. 2 + 1 -> Phases]
  BY DEF Phases, QuietPhases, MapPhases
<1>4. ASSUME NEW i \in 1 .. 2 PROVE Allowed("boundary", h[i], q[i], h[i + 1])
  BY DEF Expose, Raster, Allowed, QuietRule, MapRule, Neutral, Oracles, BaseSlot,
         LastSlot, Complemented, RefreshKinds
<1>5. h[1] = <<"open", "based">> /\ h[2 + 1] = <<"open", "exposed">>
  OBVIOUS
<1> HIDE DEF h, q
<1>6. q \in Seq(Step) /\ Path("boundary", q, <<"open", "based">>, <<"open", "exposed">>)
  BY <1>1, <1>2, <1>3, <1>4, <1>5, PathOf
<1> QED BY <1>6 DEF q

\* and read back, without an exposure.
LEMMA BoundaryReadBasedPath ==
    LET q == <<Mode("blank"), Capture(1), Compare(0, 1)>>
           IN  q \in Seq(Step) /\ Path("boundary", q, <<"open", "based">>, <<"quiet", "told">>)
<1> DEFINE q == <<Mode("blank"), Capture(1), Compare(0, 1)>>
<1> DEFINE h == <<<<"open", "based">>, <<"quiet", "based">>, <<"quiet", "read">>,
                <<"quiet", "told">>>>
<1>1. q \in Seq(Step)
  <2>1. /\ Mode("blank") \in Step
        /\ Capture(1) \in Step
        /\ Compare(0, 1) \in Step
    BY StepTypes, SlotTypes DEF Pictures, Traffic
  <2> QED BY <2>1
<1>2. Len(q) = 3
  OBVIOUS
<1>3. h \in [1 .. 3 + 1 -> Phases]
  BY DEF Phases, QuietPhases, MapPhases
<1>4. ASSUME NEW i \in 1 .. 3 PROVE Allowed("boundary", h[i], q[i], h[i + 1])
  BY DEF Mode, Capture, Compare, Allowed, QuietRule, MapRule, Neutral, Oracles,
         BaseSlot, LastSlot, Complemented, RefreshKinds
<1>5. h[1] = <<"open", "based">> /\ h[3 + 1] = <<"quiet", "told">>
  OBVIOUS
<1> HIDE DEF h, q
<1>6. q \in Seq(Step) /\ Path("boundary", q, <<"open", "based">>, <<"quiet", "told">>)
  BY <1>1, <1>2, <1>3, <1>4, <1>5, PathOf
<1> QED BY <1>6 DEF q

\* and read back, after one.
LEMMA BoundaryReadExposedPath ==
    LET q == <<Mode("blank"), Capture(1), Compare(0, 1)>>
           IN  q \in Seq(Step) /\ Path("boundary", q, <<"open", "exposed">>, <<"quiet", "told">>)
<1> DEFINE q == <<Mode("blank"), Capture(1), Compare(0, 1)>>
<1> DEFINE h == <<<<"open", "exposed">>, <<"quiet", "exposed">>,
                <<"quiet", "read">>, <<"quiet", "told">>>>
<1>1. q \in Seq(Step)
  <2>1. /\ Mode("blank") \in Step
        /\ Capture(1) \in Step
        /\ Compare(0, 1) \in Step
    BY StepTypes, SlotTypes DEF Pictures, Traffic
  <2> QED BY <2>1
<1>2. Len(q) = 3
  OBVIOUS
<1>3. h \in [1 .. 3 + 1 -> Phases]
  BY DEF Phases, QuietPhases, MapPhases
<1>4. ASSUME NEW i \in 1 .. 3 PROVE Allowed("boundary", h[i], q[i], h[i + 1])
  BY DEF Mode, Capture, Compare, Allowed, QuietRule, MapRule, Neutral, Oracles,
         BaseSlot, LastSlot, Complemented, RefreshKinds
<1>5. h[1] = <<"open", "exposed">> /\ h[3 + 1] = <<"quiet", "told">>
  OBVIOUS
<1> HIDE DEF h, q
<1>6. q \in Seq(Step) /\ Path("boundary", q, <<"open", "exposed">>, <<"quiet", "told">>)
  BY <1>1, <1>2, <1>3, <1>4, <1>5, PathOf
<1> QED BY <1>6 DEF q

\* The refresh diagnostics read back.
LEMMA RefreshReadPath ==
    ASSUME NEW d \in RefreshKinds
    PROVE  LET q == <<Raster, Mode("blank"), Capture(1), Compare(0, 1)>>
           IN  q \in Seq(Step) /\ Path(d, q, <<"open", "exposed">>, <<"quiet", "told">>)
<1> DEFINE q == <<Raster, Mode("blank"), Capture(1), Compare(0, 1)>>
<1> DEFINE h == <<<<"open", "exposed">>, <<"open", "exposed">>,
                <<"quiet", "exposed">>, <<"quiet", "read">>, <<"quiet", "told">>>>
<1>1. q \in Seq(Step)
  <2>1. /\ Raster \in Step
        /\ Mode("blank") \in Step
        /\ Capture(1) \in Step
        /\ Compare(0, 1) \in Step
    BY StepTypes, SlotTypes DEF Pictures, Traffic
  <2> QED BY <2>1
<1>2. Len(q) = 4
  OBVIOUS
<1>3. h \in [1 .. 4 + 1 -> Phases]
  BY DEF Phases, QuietPhases, MapPhases
<1>4. ASSUME NEW i \in 1 .. 4 PROVE Allowed(d, h[i], q[i], h[i + 1])
  BY DEF Mode, Capture, Compare, Raster, Allowed, QuietRule, MapRule, Neutral,
         Oracles, BaseSlot, LastSlot, Complemented, RefreshKinds
<1>5. h[1] = <<"open", "exposed">> /\ h[4 + 1] = <<"quiet", "told">>
  OBVIOUS
<1> HIDE DEF h, q
<1>6. q \in Seq(Step) /\ Path(d, q, <<"open", "exposed">>, <<"quiet", "told">>)
  BY <1>1, <1>2, <1>3, <1>4, <1>5, PathOf
<1> QED BY <1>6 DEF q

\* An intervention: Control.
LEMMA ControlPath ==
    ASSUME NEW k, k = "control", NEW d \in RefreshKinds
    PROVE  /\ Intervention(k) \in Seq(Step)
           /\ Path(d, Intervention(k), <<"open", "based">>, <<"open", "exposed">>)
<1> DEFINE h == <<<<"open", "based">>, <<"open", "exposed">>>>
<1>1. Intervention(k) \in Seq(Step)
  <2>1. /\ Expose("idle") \in Step
    BY StepTypes, SlotTypes DEF Pictures, Traffic
  <2> QED BY <2>1 DEF Intervention
<1>2. Len(Intervention(k)) = 1
  BY DEF Intervention
<1>3. h \in [1 .. 1 + 1 -> Phases]
  BY DEF Phases, QuietPhases, MapPhases
<1>4. ASSUME NEW i \in 1 .. 1 PROVE Allowed(d, h[i], Intervention(k)[i], h[i + 1])
  BY DEF Intervention, Expose, Allowed, QuietRule, MapRule, Neutral, Oracles,
         BaseSlot, LastSlot, Complemented, RefreshKinds
<1>5. h[1] = <<"open", "based">> /\ h[1 + 1] = <<"open", "exposed">>
  OBVIOUS
<1> HIDE DEF h
<1> QED BY <1>1, <1>2, <1>3, <1>4, <1>5, PathOf

\* An intervention: Core3.
LEMMA Core3Path ==
    ASSUME NEW k, k = "core3", NEW d \in RefreshKinds
    PROVE  /\ Intervention(k) \in Seq(Step)
           /\ Path(d, Intervention(k), <<"open", "based">>, <<"open", "exposed">>)
<1> DEFINE h == <<<<"open", "based">>, <<"served", "based">>,
                <<"served", "exposed">>, <<"open", "exposed">>>>
<1>1. Intervention(k) \in Seq(Step)
  <2>1. /\ Start \in Step
        /\ Expose("pulses") \in Step
        /\ Stop \in Step
    BY StepTypes, SlotTypes DEF Pictures, Traffic
  <2> QED BY <2>1 DEF Intervention
<1>2. Len(Intervention(k)) = 3
  BY DEF Intervention
<1>3. h \in [1 .. 3 + 1 -> Phases]
  BY DEF Phases, QuietPhases, MapPhases
<1>4. ASSUME NEW i \in 1 .. 3 PROVE Allowed(d, h[i], Intervention(k)[i], h[i + 1])
  BY DEF Intervention, Expose, Start, Stop, Allowed, QuietRule, MapRule, Neutral,
         Oracles, BaseSlot, LastSlot, Complemented, RefreshKinds
<1>5. h[1] = <<"open", "based">> /\ h[3 + 1] = <<"open", "exposed">>
  OBVIOUS
<1> HIDE DEF h
<1> QED BY <1>1, <1>2, <1>3, <1>4, <1>5, PathOf

\* An intervention: Core0.
LEMMA Core0Path ==
    ASSUME NEW k, k = "core0", NEW d \in RefreshKinds
    PROVE  /\ Intervention(k) \in Seq(Step)
           /\ Path(d, Intervention(k), <<"open", "based">>, <<"open", "exposed">>)
<1> DEFINE h == <<<<"open", "based">>, <<"open", "exposed">>>>
<1>1. Intervention(k) \in Seq(Step)
  <2>1. /\ Expose("pulses") \in Step
    BY StepTypes, SlotTypes DEF Pictures, Traffic
  <2> QED BY <2>1 DEF Intervention
<1>2. Len(Intervention(k)) = 1
  BY DEF Intervention
<1>3. h \in [1 .. 1 + 1 -> Phases]
  BY DEF Phases, QuietPhases, MapPhases
<1>4. ASSUME NEW i \in 1 .. 1 PROVE Allowed(d, h[i], Intervention(k)[i], h[i + 1])
  BY DEF Intervention, Expose, Allowed, QuietRule, MapRule, Neutral, Oracles,
         BaseSlot, LastSlot, Complemented, RefreshKinds
<1>5. h[1] = <<"open", "based">> /\ h[1 + 1] = <<"open", "exposed">>
  OBVIOUS
<1> HIDE DEF h
<1> QED BY <1>1, <1>2, <1>3, <1>4, <1>5, PathOf

\* An intervention: RW.
LEMMA RWPath ==
    ASSUME NEW k, k = "rw", NEW d \in RefreshKinds
    PROVE  /\ Intervention(k) \in Seq(Step)
           /\ Path(d, Intervention(k), <<"open", "based">>, <<"open", "exposed">>)
<1> DEFINE h == <<<<"open", "based">>, <<"driven", "based">>,
                <<"driven", "exposed">>, <<"open", "exposed">>>>
<1>1. Intervention(k) \in Seq(Step)
  <2>1. /\ Hold(TRUE) \in Step
        /\ Expose("idle") \in Step
        /\ Hold(FALSE) \in Step
    BY DEF Step, Hold, Expose, Traffic
  <2> QED BY <2>1 DEF Intervention, Hold
<1>2. Len(Intervention(k)) = 3
  BY DEF Intervention
<1>3. h \in [1 .. 3 + 1 -> Phases]
  BY DEF Phases, QuietPhases, MapPhases
<1>4. ASSUME NEW i \in 1 .. 3 PROVE Allowed(d, h[i], Intervention(k)[i], h[i + 1])
  BY DEF Intervention, Expose, Hold, Allowed, QuietRule, MapRule, Neutral, Oracles,
         BaseSlot, LastSlot, Complemented, RefreshKinds
<1>5. h[1] = <<"open", "based">> /\ h[3 + 1] = <<"open", "exposed">>
  OBVIOUS
<1> HIDE DEF h
<1> QED BY <1>1, <1>2, <1>3, <1>4, <1>5, PathOf

\* An intervention: Scrub.
LEMMA ScrubPath ==
    ASSUME NEW k, k = "scrub", NEW d \in RefreshKinds
    PROVE  /\ Intervention(k) \in Seq(Step)
           /\ Path(d, Intervention(k), <<"open", "based">>, <<"open", "exposed">>)
<1> DEFINE h == <<<<"open", "based">>, <<"open", "exposed">>>>
<1>1. Intervention(k) \in Seq(Step)
  <2>1. /\ Expose("scrub") \in Step
    BY StepTypes, SlotTypes DEF Pictures, Traffic
  <2> QED BY <2>1 DEF Intervention
<1>2. Len(Intervention(k)) = 1
  BY DEF Intervention
<1>3. h \in [1 .. 1 + 1 -> Phases]
  BY DEF Phases, QuietPhases, MapPhases
<1>4. ASSUME NEW i \in 1 .. 1 PROVE Allowed(d, h[i], Intervention(k)[i], h[i + 1])
  BY DEF Intervention, Expose, Allowed, QuietRule, MapRule, Neutral, Oracles,
         BaseSlot, LastSlot, Complemented, RefreshKinds
<1>5. h[1] = <<"open", "based">> /\ h[1 + 1] = <<"open", "exposed">>
  OBVIOUS
<1> HIDE DEF h
<1> QED BY <1>1, <1>2, <1>3, <1>4, <1>5, PathOf

\* The BA guard seeds,
LEMMA BAGuardSeedPath ==
    ASSUME NEW a, a.state \in Pictures, a.op \in Traffic
    PROVE  LET q == <<Mode("blank"), Prefill(0), Threefold, Mode(a.state)>>
           IN  q \in Seq(Step) /\ Path("baGuard", q, <<"open", "start">>, <<"open", "tripled">>)
<1> DEFINE q == <<Mode("blank"), Prefill(0), Threefold, Mode(a.state)>>
<1> DEFINE h == <<<<"open", "start">>, <<"quiet", "start">>, <<"quiet", "start">>,
                <<"quiet", "tripled">>, <<"open", "tripled">>>>
<1>1. q \in Seq(Step)
  <2>1. /\ Mode("blank") \in Step
        /\ Prefill(0) \in Step
        /\ Threefold \in Step
        /\ Mode(a.state) \in Step
    BY StepTypes, SlotTypes DEF Pictures, Traffic
  <2> QED BY <2>1
<1>2. Len(q) = 4
  OBVIOUS
<1>3. h \in [1 .. 4 + 1 -> Phases]
  BY DEF Phases, QuietPhases, MapPhases
<1>4. ASSUME NEW i \in 1 .. 4 PROVE Allowed("baGuard", h[i], q[i], h[i + 1])
  BY DEF Mode, Prefill, Threefold, Allowed, QuietRule, MapRule, Neutral, Oracles,
         BaseSlot, LastSlot, Complemented, RefreshKinds
<1>5. h[1] = <<"open", "start">> /\ h[4 + 1] = <<"open", "tripled">>
  OBVIOUS
<1> HIDE DEF h, q
<1>6. q \in Seq(Step) /\ Path("baGuard", q, <<"open", "start">>, <<"open", "tripled">>)
  BY <1>1, <1>2, <1>3, <1>4, <1>5, PathOf
<1> QED BY <1>6 DEF q

\* biases its writes,
LEMMA BAGuardBiasPath ==
    LET q == <<Bias(1)>>
           IN  q \in Seq(Step) /\ Path("baGuard", q, <<"open", "tripled">>, <<"biased", "tripled">>)
<1> DEFINE q == <<Bias(1)>>
<1> DEFINE h == <<<<"open", "tripled">>, <<"biased", "tripled">>>>
<1>1. q \in Seq(Step)
  <2>1. /\ Bias(1) \in Step
    BY StepTypes, SlotTypes DEF Pictures, Traffic
  <2> QED BY <2>1
<1>2. Len(q) = 1
  OBVIOUS
<1>3. h \in [1 .. 1 + 1 -> Phases]
  BY DEF Phases, QuietPhases, MapPhases
<1>4. ASSUME NEW i \in 1 .. 1 PROVE Allowed("baGuard", h[i], q[i], h[i + 1])
  BY DEF Bias, Allowed, QuietRule, MapRule, Neutral, Oracles, BaseSlot, LastSlot,
         Complemented, RefreshKinds
<1>5. h[1] = <<"open", "tripled">> /\ h[1 + 1] = <<"biased", "tripled">>
  OBVIOUS
<1> HIDE DEF h, q
<1>6. q \in Seq(Step) /\ Path("baGuard", q, <<"open", "tripled">>, <<"biased", "tripled">>)
  BY <1>1, <1>2, <1>3, <1>4, <1>5, PathOf
<1> QED BY <1>6 DEF q

\* exposes and reads back.
LEMMA BAGuardOpenPath ==
    ASSUME NEW a, a.state \in Pictures, a.op \in Traffic, a.op # "scrub"
    PROVE  LET q == <<Expose(a.op), Bias(0), Mode("blank"), Capture(3), Capture(4),
                  Capture(5), PersistentOnly>>
           IN  q \in Seq(Step) /\ Path("baGuard", q, <<"open", "tripled">>, <<"quiet", "told">>)
<1> DEFINE q == <<Expose(a.op), Bias(0), Mode("blank"), Capture(3), Capture(4),
                Capture(5), PersistentOnly>>
<1> DEFINE h == <<<<"open", "tripled">>, <<"open", "struck">>, <<"open", "struck">>,
                <<"quiet", "struck">>, <<"quiet", "one">>, <<"quiet", "two">>,
                <<"quiet", "three">>, <<"quiet", "told">>>>
<1>1. q \in Seq(Step)
  <2>1. /\ Expose(a.op) \in Step
        /\ Bias(0) \in Step
        /\ Mode("blank") \in Step
        /\ Capture(3) \in Step
        /\ Capture(4) \in Step
        /\ Capture(5) \in Step
        /\ PersistentOnly \in Step
    BY StepTypes, SlotTypes DEF Pictures, Traffic
  <2> QED BY <2>1
<1>2. Len(q) = 7
  OBVIOUS
<1>3. h \in [1 .. 7 + 1 -> Phases]
  BY DEF Phases, QuietPhases, MapPhases
<1>4. ASSUME NEW i \in 1 .. 7 PROVE Allowed("baGuard", h[i], q[i], h[i + 1])
  BY DEF Mode, Capture, Expose, Bias, PersistentOnly, Allowed, QuietRule, MapRule,
         Neutral, Oracles, BaseSlot, LastSlot, Complemented, RefreshKinds
<1>5. h[1] = <<"open", "tripled">> /\ h[7 + 1] = <<"quiet", "told">>
  OBVIOUS
<1> HIDE DEF h, q
<1>6. q \in Seq(Step) /\ Path("baGuard", q, <<"open", "tripled">>, <<"quiet", "told">>)
  BY <1>1, <1>2, <1>3, <1>4, <1>5, PathOf
<1> QED BY <1>6 DEF q

\* exposes and reads back.
LEMMA BAGuardBiasedPath ==
    ASSUME NEW a, a.state \in Pictures, a.op \in Traffic, a.op # "scrub"
    PROVE  LET q == <<Expose(a.op), Bias(0), Mode("blank"), Capture(3), Capture(4),
                  Capture(5), PersistentOnly>>
           IN  q \in Seq(Step) /\ Path("baGuard", q, <<"biased", "tripled">>, <<"quiet", "told">>)
<1> DEFINE q == <<Expose(a.op), Bias(0), Mode("blank"), Capture(3), Capture(4),
                Capture(5), PersistentOnly>>
<1> DEFINE h == <<<<"biased", "tripled">>, <<"biased", "struck">>,
                <<"open", "struck">>, <<"quiet", "struck">>, <<"quiet", "one">>,
                <<"quiet", "two">>, <<"quiet", "three">>, <<"quiet", "told">>>>
<1>1. q \in Seq(Step)
  <2>1. /\ Expose(a.op) \in Step
        /\ Bias(0) \in Step
        /\ Mode("blank") \in Step
        /\ Capture(3) \in Step
        /\ Capture(4) \in Step
        /\ Capture(5) \in Step
        /\ PersistentOnly \in Step
    BY StepTypes, SlotTypes DEF Pictures, Traffic
  <2> QED BY <2>1
<1>2. Len(q) = 7
  OBVIOUS
<1>3. h \in [1 .. 7 + 1 -> Phases]
  BY DEF Phases, QuietPhases, MapPhases
<1>4. ASSUME NEW i \in 1 .. 7 PROVE Allowed("baGuard", h[i], q[i], h[i + 1])
  BY DEF Mode, Capture, Expose, Bias, PersistentOnly, Allowed, QuietRule, MapRule,
         Neutral, Oracles, BaseSlot, LastSlot, Complemented, RefreshKinds
<1>5. h[1] = <<"biased", "tripled">> /\ h[7 + 1] = <<"quiet", "told">>
  OBVIOUS
<1> HIDE DEF h, q
<1>6. q \in Seq(Step) /\ Path("baGuard", q, <<"biased", "tripled">>, <<"quiet", "told">>)
  BY <1>1, <1>2, <1>3, <1>4, <1>5, PathOf
<1> QED BY <1>6 DEF q

\* Before they return: the timing diagnostic,
LEMMA TimingEndPath ==
    LET q == <<SetPoint("configured")>>
           IN  q \in Seq(Step) /\ Path("timing", q, <<"quiet", "any">>, <<"quiet", "any">>)
<1> DEFINE q == <<SetPoint("configured")>>
<1> DEFINE h == <<<<"quiet", "any">>, <<"quiet", "any">>>>
<1>1. q \in Seq(Step)
  <2>1. /\ SetPoint("configured") \in Step
    BY StepTypes, SlotTypes DEF Pictures, Traffic
  <2> QED BY <2>1
<1>2. Len(q) = 1
  OBVIOUS
<1>3. h \in [1 .. 1 + 1 -> Phases]
  BY DEF Phases, QuietPhases, MapPhases
<1>4. ASSUME NEW i \in 1 .. 1 PROVE Allowed("timing", h[i], q[i], h[i + 1])
  BY DEF SetPoint, Allowed, QuietRule, MapRule, Neutral, Oracles, BaseSlot,
         LastSlot, Complemented, RefreshKinds
<1>5. h[1] = <<"quiet", "any">> /\ h[1 + 1] = <<"quiet", "any">>
  OBVIOUS
<1> HIDE DEF h, q
<1>6. q \in Seq(Step) /\ Path("timing", q, <<"quiet", "any">>, <<"quiet", "any">>)
  BY <1>1, <1>2, <1>3, <1>4, <1>5, PathOf
<1> QED BY <1>6 DEF q

\* the BA guard,
LEMMA BAGuardEndPath ==
    LET q == <<Mode("blank")>>
           IN  q \in Seq(Step) /\ Path("baGuard", q, <<"quiet", "any">>, <<"quiet", "any">>)
<1> DEFINE q == <<Mode("blank")>>
<1> DEFINE h == <<<<"quiet", "any">>, <<"quiet", "any">>>>
<1>1. q \in Seq(Step)
  <2>1. /\ Mode("blank") \in Step
    BY StepTypes, SlotTypes DEF Pictures, Traffic
  <2> QED BY <2>1
<1>2. Len(q) = 1
  OBVIOUS
<1>3. h \in [1 .. 1 + 1 -> Phases]
  BY DEF Phases, QuietPhases, MapPhases
<1>4. ASSUME NEW i \in 1 .. 1 PROVE Allowed("baGuard", h[i], q[i], h[i + 1])
  BY DEF Mode, Allowed, QuietRule, MapRule, Neutral, Oracles, BaseSlot, LastSlot,
         Complemented, RefreshKinds
<1>5. h[1] = <<"quiet", "any">> /\ h[1 + 1] = <<"quiet", "any">>
  OBVIOUS
<1> HIDE DEF h, q
<1>6. q \in Seq(Step) /\ Path("baGuard", q, <<"quiet", "any">>, <<"quiet", "any">>)
  BY <1>1, <1>2, <1>3, <1>4, <1>5, PathOf
<1> QED BY <1>6 DEF q

\* the refresh diagnostics.
LEMMA RefreshEndPath ==
    ASSUME NEW d \in RefreshKinds
    PROVE  LET q == <<Stop>>
           IN  q \in Seq(Step) /\ Path(d, q, <<"quiet", "any">>, <<"quiet", "any">>)
<1> DEFINE q == <<Stop>>
<1> DEFINE h == <<<<"quiet", "any">>, <<"quiet", "any">>>>
<1>1. q \in Seq(Step)
  <2>1. /\ Stop \in Step
    BY StepTypes, SlotTypes DEF Pictures, Traffic
  <2> QED BY <2>1
<1>2. Len(q) = 1
  OBVIOUS
<1>3. h \in [1 .. 1 + 1 -> Phases]
  BY DEF Phases, QuietPhases, MapPhases
<1>4. ASSUME NEW i \in 1 .. 1 PROVE Allowed(d, h[i], q[i], h[i + 1])
  BY DEF Stop, Allowed, QuietRule, MapRule, Neutral, Oracles, BaseSlot, LastSlot,
         Complemented, RefreshKinds
<1>5. h[1] = <<"quiet", "any">> /\ h[1 + 1] = <<"quiet", "any">>
  OBVIOUS
<1> HIDE DEF h, q
<1>6. q \in Seq(Step) /\ Path(d, q, <<"quiet", "any">>, <<"quiet", "any">>)
  BY <1>1, <1>2, <1>3, <1>4, <1>5, PathOf
<1> QED BY <1>6 DEF q

\* The fetch diagnostic.
LEMMA FetchPath ==
    ASSUME NEW a, a.state \in Pictures, a.op \in Traffic
    PROVE  /\ FetchSteps(a) \in Seq(Step)
           /\ Path("fetch", FetchSteps(a), <<"open", "start">>, <<"quiet", "kept">>)
<1> DEFINE A == <<Mode("blank"), Prefill(0), Target, Capture(1)>>
           B == IF a.kind = "retention" THEN <<Expose("idle")>>
                ELSE <<Mode(a.state), Expose(a.op), Mode("blank")>>
           C == <<Capture(2)>>
<1>1. A \in Seq(Step) /\ Path("fetch", A, <<"open", "start">>, <<"quiet", "based">>)
  BY FetchSeedPath
<1>2. B \in Seq(Step) /\ Path("fetch", B, <<"quiet", "based">>, <<"quiet", "exposed">>)
  BY FetchIdlePath, FetchExposePath
<1>3. C \in Seq(Step) /\ Path("fetch", C, <<"quiet", "exposed">>, <<"quiet", "kept">>)
  BY FetchReadPath
<1>4. FetchSteps(a) = (A \o B) \o C
  BY DEF FetchSteps
<1> HIDE DEF A, B, C
<1>5. A \o B \in Seq(Step) /\ (A \o B) \o C \in Seq(Step)
  BY <1>1, <1>2, <1>3
<1>6. Path("fetch", A \o B, <<"open", "start">>, <<"quiet", "exposed">>)
  BY <1>1, <1>2, PathCat
<1>7. Path("fetch", (A \o B) \o C, <<"open", "start">>, <<"quiet", "kept">>)
  BY <1>3, <1>5, <1>6, PathCat
<1> QED BY <1>4, <1>5, <1>7

\* The timing diagnostic.
LEMMA TimingPath ==
    ASSUME NEW a, a.state \in Pictures, a.op \in Traffic
    PROVE  /\ TimingSteps(a) \in Seq(Step)
           /\ Path("timing", TimingSteps(a), <<"open", "start">>, <<"quiet", "rechecked">>)
<1> DEFINE A == <<Mode("blank"), SetPoint("configured"), Prefill(5), Target, Capture(5),
                  Mode(a.state), Expose(a.op), Mode("blank")>>
           B == <<SetPoint("475"), Capture(0), Compare(0, 0),
                  SetPoint("swept"), Capture(1), Compare(0, 1),
                  SetPoint("475"), Capture(2), Compare(0, 2)>>
           C == <<SetPoint("configured"), Repair, Capture(5), Compare(0, 5)>>
<1>1. A \in Seq(Step) /\ Path("timing", A, <<"open", "start">>, <<"quiet", "any">>)
  BY TimingSeedPath
<1>2. B \in Seq(Step) /\ Path("timing", B, <<"quiet", "any">>, <<"swept", "level">>)
  BY TimingSweepPath
<1>3. C \in Seq(Step) /\ Path("timing", C, <<"swept", "level">>, <<"quiet", "rechecked">>)
  BY TimingRepairPath
<1>4. TimingSteps(a) = (A \o B) \o C
  BY DEF TimingSteps
<1> HIDE DEF A, B, C
<1>5. A \o B \in Seq(Step) /\ (A \o B) \o C \in Seq(Step)
  BY <1>1, <1>2, <1>3
<1>6. Path("timing", A \o B, <<"open", "start">>, <<"swept", "level">>)
  BY <1>1, <1>2, PathCat
<1>7. Path("timing", (A \o B) \o C, <<"open", "start">>, <<"quiet", "rechecked">>)
  BY <1>3, <1>5, <1>6, PathCat
<1> QED BY <1>4, <1>5, <1>7

\* The boundary diagnostic: an arm without an exposure compares as well.
LEMMA BoundaryPath ==
    ASSUME NEW a, a.state \in Pictures, a.op \in Traffic
    PROVE  /\ BoundarySteps(a) \in Seq(Step)
           /\ Path("boundary", BoundarySteps(a), <<"open", "start">>, <<"quiet", "told">>)
<1> DEFINE A == <<Mode("blank"), Prefill(0), Target, Capture(0), Raster, Mode(a.state)>>
           B == IF a.op = "none" THEN <<>> ELSE <<Expose("idle"), Raster>>
           C == <<Mode("blank"), Capture(1), Compare(0, 1)>>
           m == IF a.op = "none" THEN "based" ELSE "exposed"
<1>1. A \in Seq(Step) /\ Path("boundary", A, <<"open", "start">>, <<"open", "based">>)
  BY TransitionSeedPath
<1>2. B \in Seq(Step) /\ Path("boundary", B, <<"open", "based">>, <<"open", m>>)
  <2>1. <<"open", "based">> \in Phases
    BY DEF Phases, QuietPhases, MapPhases
  <2> QED BY <2>1, BoundaryExposePath, PathNil
<1>3. C \in Seq(Step) /\ Path("boundary", C, <<"open", m>>, <<"quiet", "told">>)
  BY BoundaryReadBasedPath, BoundaryReadExposedPath
<1>4. BoundarySteps(a) = (A \o B) \o C
  BY DEF BoundarySteps
<1> HIDE DEF A, B, C, m
<1>5. A \o B \in Seq(Step) /\ (A \o B) \o C \in Seq(Step)
  BY <1>1, <1>2, <1>3
<1>6. Path("boundary", A \o B, <<"open", "start">>, <<"open", m>>)
  BY <1>1, <1>2, PathCat
<1>7. Path("boundary", (A \o B) \o C, <<"open", "start">>, <<"quiet", "told">>)
  BY <1>3, <1>5, <1>6, PathCat
<1> QED BY <1>4, <1>5, <1>7

\* The four refresh diagnostics, with every intervention.
LEMMA RefreshPath ==
    ASSUME NEW d \in RefreshKinds, NEW a, a.state \in Pictures, a.op \in Traffic,
           a.kind \in {"control"} \union RefreshKinds
    PROVE  /\ RefreshSteps(a) \in Seq(Step)
           /\ Path(d, RefreshSteps(a), <<"open", "start">>, <<"quiet", "told">>)
<1> DEFINE A == <<Mode("blank"), Prefill(0), Target, Capture(0), Raster, Mode(a.state)>>
           B == Intervention(a.kind)
           C == <<Raster, Mode("blank"), Capture(1), Compare(0, 1)>>
<1>1. A \in Seq(Step) /\ Path(d, A, <<"open", "start">>, <<"open", "based">>)
  BY TransitionSeedPath
<1>2. B \in Seq(Step) /\ Path(d, B, <<"open", "based">>, <<"open", "exposed">>)
  <2>1. a.kind \in {"control", "core3", "core0", "rw", "scrub"}
    BY DEF RefreshKinds
  <2> QED BY <2>1, ControlPath, Core3Path, Core0Path, RWPath, ScrubPath
<1>3. C \in Seq(Step) /\ Path(d, C, <<"open", "exposed">>, <<"quiet", "told">>)
  BY RefreshReadPath
<1>4. RefreshSteps(a) = (A \o B) \o C
  BY DEF RefreshSteps
<1> HIDE DEF A, B, C
<1>5. A \o B \in Seq(Step) /\ (A \o B) \o C \in Seq(Step)
  BY <1>1, <1>2, <1>3
<1>6. Path(d, A \o B, <<"open", "start">>, <<"open", "exposed">>)
  BY <1>1, <1>2, PathCat
<1>7. Path(d, (A \o B) \o C, <<"open", "start">>, <<"quiet", "told">>)
  BY <1>3, <1>5, <1>6, PathCat
<1> QED BY <1>4, <1>5, <1>7

\* The BA guard.
LEMMA BAGuardPath ==
    ASSUME NEW a, a.state \in Pictures, a.op \in Traffic, a.op # "scrub"
    PROVE  /\ BAGuardSteps(a) \in Seq(Step)
           /\ Path("baGuard", BAGuardSteps(a), <<"open", "start">>, <<"quiet", "told">>)
<1> DEFINE A == <<Mode("blank"), Prefill(0), Threefold, Mode(a.state)>>
           B == IF a.kind = "biased" THEN <<Bias(1)>> ELSE <<>>
           C == <<Expose(a.op), Bias(0), Mode("blank"),
                  Capture(3), Capture(4), Capture(5), PersistentOnly>>
           m == IF a.kind = "biased" THEN "biased" ELSE "open"
<1>1. A \in Seq(Step) /\ Path("baGuard", A, <<"open", "start">>, <<"open", "tripled">>)
  BY BAGuardSeedPath
<1>2. B \in Seq(Step) /\ Path("baGuard", B, <<"open", "tripled">>, <<m, "tripled">>)
  <2>1. <<"open", "tripled">> \in Phases
    BY DEF Phases, QuietPhases, MapPhases
  <2> QED BY <2>1, BAGuardBiasPath, PathNil
<1>3. C \in Seq(Step) /\ Path("baGuard", C, <<m, "tripled">>, <<"quiet", "told">>)
  BY BAGuardOpenPath, BAGuardBiasedPath
<1>4. BAGuardSteps(a) = (A \o B) \o C
  BY DEF BAGuardSteps
<1> HIDE DEF A, B, C, m
<1>5. A \o B \in Seq(Step) /\ (A \o B) \o C \in Seq(Step)
  BY <1>1, <1>2, <1>3
<1>6. Path("baGuard", A \o B, <<"open", "start">>, <<m, "tripled">>)
  BY <1>1, <1>2, PathCat
<1>7. Path("baGuard", (A \o B) \o C, <<"open", "start">>, <<"quiet", "told">>)
  BY <1>3, <1>5, <1>6, PathCat
<1> QED BY <1>4, <1>5, <1>7

\* There are thirteen diagnostics.
LEMMA DiagnosticNames ==
    Diagnostics = {"access", "display", "address", "row", "fetch", "persistence", "timing",
                   "boundary", "core3", "core0", "rw", "scrub", "baGuard"}
BY DEF Diagnostics, Plan

\* The phase an arm starts in.
Beginning(d, k) == IF k = "end" THEN <<QuietEnd(d, k), "any">> ELSE <<"open", "start">>

\* Every arm of every diagnostic leads from its start to its end.
LEMMA ArmPath ==
    ASSUME diag \in Diagnostics, NEW a \in ArmsOf(diag)
    PROVE  /\ StepsOf(a) \in Seq(Step)
           /\ Path(diag, StepsOf(a), Beginning(diag, a.kind), Ending(diag, a.kind))
<1>1. a.state \in Pictures /\ a.op \in {"idle", "read", "write", "none"}
        /\ a.kind \in Kinds(diag) \union {"end"}
  BY DEF ArmsOf
<1>2. a.op \in Traffic /\ a.op # "scrub"
  BY <1>1 DEF Traffic
<1>3. CASE a.kind = "end"
  <2>1. StepsOf(a) = EndSteps
    BY <1>3 DEF StepsOf, RefreshKinds
  <2>2. CASE diag \in {"access", "display", "address", "row", "fetch", "persistence", "boundary"}
    <3>1. EndSteps = <<>>
      BY <2>2 DEF EndSteps, RefreshKinds
    <3>2. Beginning(diag, a.kind) = Ending(diag, a.kind) /\ Beginning(diag, a.kind) \in Phases
      BY <1>3 DEF Beginning, Ending, QuietEnd, MapEnd, Phases, QuietPhases, MapPhases
    <3> QED BY <2>1, <3>1, <3>2, PathNil
  <2>3. CASE diag = "timing"
    <3>1. EndSteps = <<SetPoint("configured")>> /\ Beginning(diag, a.kind) = <<"quiet", "any">>
            /\ Ending(diag, a.kind) = <<"quiet", "any">>
      BY <1>3, <2>3 DEF EndSteps, Beginning, Ending, QuietEnd, MapEnd, RefreshKinds
    <3> QED BY <2>1, <2>3, <3>1, TimingEndPath
  <2>4. CASE diag = "baGuard"
    <3>1. EndSteps = <<Mode("blank")>> /\ Beginning(diag, a.kind) = <<"quiet", "any">>
            /\ Ending(diag, a.kind) = <<"quiet", "any">>
      BY <1>3, <2>4 DEF EndSteps, Beginning, Ending, QuietEnd, MapEnd, RefreshKinds
    <3> QED BY <2>1, <2>4, <3>1, BAGuardEndPath
  <2>5. CASE diag \in RefreshKinds
    <3>1. EndSteps = <<Stop>> /\ Beginning(diag, a.kind) = <<"quiet", "any">>
            /\ Ending(diag, a.kind) = <<"quiet", "any">>
      BY <1>3, <2>5 DEF EndSteps, Beginning, Ending, QuietEnd, MapEnd, RefreshKinds
    <3> QED BY <2>1, <2>5, <3>1, RefreshEndPath
  <2> QED BY <2>2, <2>3, <2>4, <2>5, DiagnosticNames DEF RefreshKinds
<1>4. CASE a.kind # "end"
  <2>1. Beginning(diag, a.kind) = <<"open", "start">> /\ a.kind \in Kinds(diag)
    BY <1>1, <1>4 DEF Beginning
  <2>2. CASE diag = "access"
    <3>1. Ending(diag, a.kind) = <<"open", "told">>
      BY <1>4, <2>1, <2>2 DEF Ending, QuietEnd, MapEnd, Kinds, RefreshKinds
    <3> QED BY <1>1, <1>2, <1>4, <2>1, <2>2, <3>1, AccessPath DEF StepsOf, RefreshKinds
  <2>3. CASE diag = "display"
    <3>1. Ending(diag, a.kind) = <<"quiet", "told">>
      BY <1>4, <2>1, <2>3 DEF Ending, QuietEnd, MapEnd, Kinds, RefreshKinds
    <3> QED BY <1>1, <1>2, <1>4, <2>1, <2>3, <3>1, DisplayPath DEF StepsOf, RefreshKinds
  <2>4. CASE diag = "address"
    <3>1. a.kind \in {"immediate", "map", "ladder"} /\ StepsOf(a) = AddressSteps(a)
      BY <1>4, <2>1, <2>4 DEF Kinds, StepsOf, RefreshKinds
    <3>2. Ending(diag, a.kind) = <<"quiet", IF a.kind = "ladder" THEN "kept" ELSE "any">>
      BY <2>4, <3>1 DEF Ending, QuietEnd, MapEnd, RefreshKinds
    <3> QED BY <2>1, <2>4, <3>1, <3>2, ImmediatePath, AddressMapPath, LadderPath
  <2>5. CASE diag = "row"
    <3>1. a.kind \in {"write", "retention"} /\ StepsOf(a) = RowSteps(a)
      BY <1>4, <2>1, <2>5 DEF Kinds, StepsOf, RefreshKinds
    <3>2. Ending(diag, a.kind) = <<"quiet", IF a.kind = "retention" THEN "kept" ELSE "any">>
      BY <2>5, <3>1 DEF Ending, QuietEnd, MapEnd, RefreshKinds
    <3> QED BY <2>1, <2>5, <3>1, <3>2, RowWritePath, RowRetentionPath
  <2>6. CASE diag = "fetch"
    <3>1. Ending(diag, a.kind) = <<"quiet", "kept">>
      BY <1>4, <2>1, <2>6 DEF Ending, QuietEnd, MapEnd, Kinds, RefreshKinds
    <3> QED BY <1>1, <1>2, <1>4, <2>1, <2>6, <3>1, FetchPath DEF StepsOf, RefreshKinds
  <2>7. CASE diag = "persistence"
    <3>1. Ending(diag, a.kind) = <<"quiet", "kept">>
      BY <1>4, <2>1, <2>7 DEF Ending, QuietEnd, MapEnd, Kinds, RefreshKinds
    <3> QED BY <1>1, <1>2, <1>4, <2>1, <2>7, <3>1, PersistencePath DEF StepsOf, RefreshKinds
  <2>8. CASE diag = "timing"
    <3>1. Ending(diag, a.kind) = <<"quiet", "rechecked">>
      BY <1>4, <2>1, <2>8 DEF Ending, QuietEnd, MapEnd, Kinds, RefreshKinds
    <3> QED BY <1>1, <1>2, <1>4, <2>1, <2>8, <3>1, TimingPath DEF StepsOf, RefreshKinds
  <2>9. CASE diag = "boundary"
    <3>1. Ending(diag, a.kind) = <<"quiet", "told">>
      BY <1>4, <2>1, <2>9 DEF Ending, QuietEnd, MapEnd, Kinds, RefreshKinds
    <3> QED BY <1>1, <1>2, <1>4, <2>1, <2>9, <3>1, BoundaryPath DEF StepsOf, RefreshKinds
  <2>10. CASE diag = "baGuard"
    <3>1. Ending(diag, a.kind) = <<"quiet", "told">>
      BY <1>4, <2>1, <2>10 DEF Ending, QuietEnd, MapEnd, Kinds, RefreshKinds
    <3> QED BY <1>1, <1>2, <1>4, <2>1, <2>10, <3>1, BAGuardPath DEF StepsOf, RefreshKinds
  <2>11. CASE diag \in RefreshKinds
    <3>1. a.kind \in {"control"} \union RefreshKinds /\ StepsOf(a) = RefreshSteps(a)
      BY <1>4, <2>1, <2>11 DEF Kinds, StepsOf, RefreshKinds
    <3>2. Ending(diag, a.kind) = <<"quiet", "told">>
      BY <2>11, <3>1 DEF Ending, QuietEnd, MapEnd, RefreshKinds
    <3> QED BY <1>1, <1>2, <2>1, <2>11, <3>1, <3>2, RefreshPath
  <2> QED BY <2>2, <2>3, <2>4, <2>5, <2>6, <2>7, <2>8, <2>9, <2>10, <2>11, DiagnosticNames
          DEF RefreshKinds
<1> QED BY <1>3, <1>4

\* Arms as a function.
LEMMA ArmSeq ==
    ASSUME NEW S, NEW n \in Nat, n > 0, NEW f \in [1 .. n -> S]
    PROVE  f \in Seq(S) /\ f # <<>> /\ Head(f) = f[1] /\ Len(f) = n
OBVIOUS

\* Arms after arms.
LEMMA ArmCat ==
    ASSUME NEW S, NEW s \in Seq(S), NEW t \in Seq(S), s # <<>>
    PROVE  s \o t \in Seq(S) /\ s \o t # <<>> /\ Head(s \o t) = Head(s)
OBVIOUS

\* The arms of a diagnostic are of its kinds, and the first is neither the end nor
\* the ladder.
LEMMA PlanArms ==
    ASSUME NEW d \in Diagnostics
    PROVE  /\ Plan[d] \in Seq(ArmsOf(d)) /\ Plan[d] # <<>>
           /\ Head(Plan[d]).kind \notin {"end", "ladder", "none"}
<1>1. CASE d = "access"
  <2>1. Plan[d] = AccessArms
    BY <1>1 DEF Plan
  <2>2. AccessArms \in [1 .. 3 -> ArmsOf(d)] /\ AccessArms[1].kind = "all"
    BY <1>1 DEF AccessArms, Arm, Ops, ArmsOf, Kinds, RefreshKinds, Pictures
  <2>3. 3 \in Nat /\ 3 > 0
    OBVIOUS
  <2>4. AccessArms \in Seq(ArmsOf(d)) /\ AccessArms # <<>> /\ Head(AccessArms) = AccessArms[1]
    BY <2>2, <2>3, ArmSeq, Zenon
  <2> QED BY <2>1, <2>2, <2>4
<1>2. CASE d = "display"
  <2> DEFINE s == [i \in 1 .. 3 |-> Arm("bitmap", Ops[i], 0, "all")]
             t == [i \in 1 .. 2 |-> Arm("blank", Ops[i + 1], 0, "all")]
  <2>1. Plan[d] = s \o t
    BY <1>2 DEF Plan, DisplayArms
  <2>2. s \in [1 .. 3 -> ArmsOf(d)] /\ t \in [1 .. 2 -> ArmsOf(d)] /\ s[1].kind = "all"
    BY <1>2 DEF Arm, Ops, ArmsOf, Kinds, RefreshKinds, Pictures
  <2> HIDE DEF s, t
  <2>3. s \in Seq(ArmsOf(d)) /\ t \in Seq(ArmsOf(d)) /\ s # <<>> /\ Head(s) = s[1]
    <3>1. 2 \in Nat /\ 2 > 0 /\ 3 \in Nat /\ 3 > 0 /\ 9 \in Nat /\ 9 > 0
      OBVIOUS
    <3> QED BY <2>2, <3>1, ArmSeq, Zenon
  <2> QED BY <2>1, <2>2, <2>3, ArmCat
<1>3. CASE d = "address"
  <2>1. Plan[d] = AddressArms
    BY <1>3 DEF Plan
  <2> QED BY <2>1, <1>3 DEF AddressArms, Arm, Ops, ArmsOf, Kinds, RefreshKinds, Pictures
<1>4. CASE d = "row"
  <2>1. Plan[d] = RowArms
    BY <1>4 DEF Plan
  <2> QED BY <2>1, <1>4 DEF RowArms, Arm, Ops, ArmsOf, Kinds, RefreshKinds, Pictures
<1>5. CASE d = "fetch"
  <2> DEFINE states == <<"blank", "bitmap", "text">>
             s == [i \in 1 .. 9 |-> Arm(states[((i - 1) % 3) + 1],
                                        Ops[((i - 1) \div 3) + 1], i, "fetch")]
             t == <<Arm("blank", "idle", 10, "retention")>>
  <2>1. Plan[d] = s \o t
    BY <1>5 DEF Plan, FetchArms
  <2>2. s \in [1 .. 9 -> ArmsOf(d)]
    <3> SUFFICES ASSUME NEW i \in 1 .. 9
                 PROVE  Arm(states[((i - 1) % 3) + 1], Ops[((i - 1) \div 3) + 1], i, "fetch")
                          \in ArmsOf(d)
      OBVIOUS
    <3>1. ((i - 1) % 3) + 1 \in 1 .. 3 /\ ((i - 1) \div 3) + 1 \in 1 .. 3
      OBVIOUS
    <3>2. \A j \in 1 .. 3 : states[j] \in Pictures /\ Ops[j] \in {"idle", "read", "write", "none"}
      BY DEF Ops, Pictures
    <3> DEFINE x == states[((i - 1) % 3) + 1]
               y == Ops[((i - 1) \div 3) + 1]
    <3>3. x \in Pictures /\ y \in {"idle", "read", "write", "none"}
      BY <3>1, <3>2
    <3> HIDE DEF x, y
    <3>4. Arm(x, y, i, "fetch") \in ArmsOf(d)
      BY <1>5, <3>3 DEF Arm, ArmsOf, Kinds, RefreshKinds
    <3> QED BY <3>4 DEF x, y
  <2>3. t \in Seq(ArmsOf(d)) /\ s[1].kind = "fetch"
    BY <1>5 DEF Arm, Ops, ArmsOf, Kinds, RefreshKinds, Pictures
  <2> HIDE DEF s, t
  <2>4. s \in Seq(ArmsOf(d)) /\ s # <<>> /\ Head(s) = s[1]
    <3>1. 2 \in Nat /\ 2 > 0 /\ 3 \in Nat /\ 3 > 0 /\ 9 \in Nat /\ 9 > 0
      OBVIOUS
    <3> QED BY <2>2, <3>1, ArmSeq, Zenon
  <2> QED BY <2>1, <2>3, <2>4, ArmCat
<1>6. CASE d \in {"persistence", "timing"}
  <2>1. Plan[d] = PersistenceArms
    BY <1>6 DEF Plan, TimingArms
  <2>2. PersistenceArms \in [1 .. 6 -> ArmsOf(d)] /\ PersistenceArms[1].kind = "all"
    <3> DEFINE ops == <<"read", "idle", "write">>
    <3>1. \A i \in 1 .. 6 : Arm(IF i % 2 = 1 THEN "text" ELSE "bitmap",
                                 ops[((i - 1) % 3) + 1], i, "all") \in ArmsOf(d)
      <4> TAKE i \in 1 .. 6
      <4>1. ((i - 1) % 3) + 1 \in 1 .. 3
        OBVIOUS
      <4>2. \A j \in 1 .. 3 : ops[j] \in {"idle", "read", "write", "none"}
        OBVIOUS
      <4> QED BY <1>6, <4>1, <4>2 DEF Arm, ArmsOf, Kinds, RefreshKinds, Pictures
    <3> QED BY <3>1 DEF PersistenceArms, Arm
  <2>3. 6 \in Nat /\ 6 > 0
    OBVIOUS
  <2>4. PersistenceArms \in Seq(ArmsOf(d)) /\ PersistenceArms # <<>>
          /\ Head(PersistenceArms) = PersistenceArms[1]
    BY <2>2, <2>3, ArmSeq, Zenon
  <2> QED BY <2>1, <2>2, <2>4
<1>7. CASE d = "boundary"
  <2>1. Plan[d] = BoundaryArms
    BY <1>7 DEF Plan
  <2> QED BY <2>1, <1>7 DEF BoundaryArms, Arm, Ops, ArmsOf, Kinds, RefreshKinds, Pictures
<1>8. CASE d = "baGuard"
  <2>1. Plan[d] = BAGuardArms
    BY <1>8 DEF Plan
  <2> QED BY <2>1, <1>8 DEF BAGuardArms, Arm, Ops, ArmsOf, Kinds, RefreshKinds, Pictures
<1>9. CASE d \in RefreshKinds
  <2>1. Plan[d] = RefreshArms(d)
    BY <1>9 DEF Plan, RefreshKinds
  <2> QED BY <2>1, <1>9 DEF RefreshArms, Arm, Ops, ArmsOf, Kinds, RefreshKinds, Pictures
<1> QED BY <1>1, <1>2, <1>3, <1>4, <1>5, <1>6, <1>7, <1>8, <1>9, DiagnosticNames DEF RefreshKinds

--------------------------------------------------------------------------------
(* Counting.                                                                  *)

\* Sets of cells are finite.
LEMMA CellSets ==
    ASSUME NEW s \in SUBSET Cells
    PROVE  /\ IsFiniteSet(s) /\ Cardinality(s) \in Nat
           /\ s # {} => Cardinality(s) >= 1
           /\ \A c \in s : Cardinality(s) >= 1
<1>1. IsFiniteSet(s)
  BY FaultAssumption, FS_Subset
<1>2. Cardinality(s) \in Nat /\ (Cardinality(s) = 0 <=> s = {})
  BY <1>1, FS_CardinalityType, FS_EmptySet
<1> QED BY <1>1, <1>2

\* What is charged for a misreading.
LEMMA Charges ==
    ASSUME NEW s \in SUBSET Cells
    PROVE  /\ Charge(s) \in Nat
           /\ bus.point = "configured" => Charge(s) = Cardinality(s)
BY CellSets DEF Charge

--------------------------------------------------------------------------------
(* Steps and phases.                                                          *)

\* What stands at the head of the steps.
LEMMA HeadStep ==
    ASSUME TypeInv, steps # <<>>
    PROVE  /\ Head(steps) \in Step /\ Tail(steps) \in Seq(Step)
           /\ Head(steps).do \in {"prefill", "verified", "capture"} => Head(steps).slot \in Slots
           /\ Head(steps).do = "compare" =>
                Head(steps).before \in Slots /\ Head(steps).after \in Slots
<1>1. Head(steps) \in Step /\ Tail(steps) \in Seq(Step)
  BY DEF TypeInv
<1> QED BY <1>1 DEF Step

\* The phase in front of the head and the one behind it.
LEMMA StepPhase ==
    ASSUME SentinelInv, steps # <<>>
    PROVE  \E p \in Phases, r \in Phases :
             /\ QuietHolds(p[1]) /\ MapHolds(p[2])
             /\ QuietRule(diag, p[1], Head(steps), r[1])
             /\ MapRule(diag, p[2], Head(steps), r[2])
             /\ Path(diag, Tail(steps), r, Ending(diag, arm.kind))
<1>1. PICK p \in Phases : /\ QuietHolds(p[1]) /\ MapHolds(p[2])
                          /\ Path(diag, steps, p, Ending(diag, arm.kind))
  BY DEF SentinelInv, PhaseInv
<1>2. steps \in Seq(Step)
  BY DEF SentinelInv, TypeInv
<1>3. PICK r \in Phases : /\ Allowed(diag, p, Head(steps), r)
                          /\ Path(diag, Tail(steps), r, Ending(diag, arm.kind))
  BY <1>1, <1>2, PathPop
<1> QED BY <1>1, <1>3 DEF Allowed

\* A step that is done.
LEMMA Popped ==
    ASSUME SentinelInv, steps # <<>>, Pop, UNCHANGED <<diag, arms, arm>>,
           NEW r \in Phases, Path(diag, Tail(steps), r, Ending(diag, arm.kind)),
           QuietHolds(r[1])', MapHolds(r[2])'
    PROVE  FirstInv' /\ PhaseInv'
<1>1. steps' = Tail(steps) /\ diag' = diag /\ arm' = arm
  BY DEF Pop
<1>2. Path(diag, steps, r, Ending(diag, arm.kind))'
  BY <1>1
<1>3. PhaseInv'
  BY <1>2 DEF PhaseInv
<1>4. FirstInv'
  BY <1>1 DEF SentinelInv, FirstInv
<1> QED BY <1>3, <1>4

\* A step that is tried again.
LEMMA Retried ==
    ASSUME SentinelInv, steps # <<>>, UNCHANGED <<diag, arms, arm, steps>>,
           NEW p \in Phases, NEW r \in Phases,
           Path(diag, Tail(steps), r, Ending(diag, arm.kind)),
           QuietRule(diag, p[1], Head(steps), r[1]), MapRule(diag, p[2], Head(steps), r[2]),
           QuietHolds(p[1])', MapHolds(p[2])' \/ r[2] = "any"
    PROVE  FirstInv' /\ PhaseInv'
<1>1. steps \in Seq(Step) /\ p[1] \in QuietPhases /\ p[2] \in MapPhases
  BY DEF SentinelInv, TypeInv, Phases
<1>2. PICK x \in Phases : x[1] = p[1] /\ MapHolds(x[2])' /\ MapRule(diag, x[2], Head(steps), r[2])
  <2>1. CASE MapHolds(p[2])'
    BY <2>1
  <2>2. CASE r[2] = "any"
    <3> DEFINE x == <<p[1], "any">>
    <3>1. x \in Phases /\ x[1] = p[1] /\ x[2] = "any"
      BY <1>1 DEF Phases, MapPhases
    <3>2. MapHolds("any")' /\ MapRule(diag, "any", Head(steps), r[2])
      BY <2>2 DEF MapHolds, MapRule
    <3> QED BY <3>1, <3>2
  <2> QED BY <2>1, <2>2
<1>3. Path(diag, steps, x, Ending(diag, arm.kind))
  BY <1>1, <1>2, PathPush DEF Allowed
<1>4. Path(diag, steps, x, Ending(diag, arm.kind))'
  BY <1>3
<1>5. QuietHolds(x[1])'
  BY <1>2
<1>6. PhaseInv'
  BY <1>2, <1>4, <1>5 DEF PhaseInv
<1>7. FirstInv'
  BY DEF SentinelInv, FirstInv
<1> QED BY <1>6, <1>7

\* Where a step does not touch the picture, the bus or core 3.
LEMMA QuietKept ==
    ASSUME UNCHANGED <<vic, bus, core3, diag>>, NEW x, QuietHolds(x)
    PROVE  QuietHolds(x)'
BY DEF QuietHolds, Stopped

\* Where a step does not touch the evidence.
LEMMA MapKept ==
    ASSUME UNCHANGED <<mem, map, report, fault, diag>>, NEW x, MapHolds(x)
    PROVE  MapHolds(x)'
BY DEF MapHolds, Fresh, Trusted, Shown, Current, Differs, Told, Sure, Struck, Costs, BaseAny

--------------------------------------------------------------------------------
(* The actions.                                                               *)

\* Nothing has happened yet.
LEMMA InitInv == Init => SentinelInv
<1> SUFFICES ASSUME Init PROVE SentinelInv
  OBVIOUS
<1> USE DEF Init
<1>1. Plan[diag] \in Seq(ArmsOf(diag)) /\ Plan[diag] # <<>>
        /\ Head(Plan[diag]).kind \notin {"end", "ladder", "none"}
  BY PlanArms
<1>2. End \in ArmsOf(diag)
  BY DEF End, Arm, ArmsOf, Pictures
<1>3. arms \in Seq(ArmsOf(diag)) /\ arms # <<>> /\ Head(arms) = Head(Plan[diag])
  BY <1>1, <1>2
<1>4. arm.kind = "none" /\ steps = <<>> /\ steps \in Seq(Step)
  BY DEF Arm
<1>5. TypeInv
  <2>1. MaxFaults \in Nat
    BY FaultAssumption
  <2>2. map \in [Slots -> SUBSET Cells] /\ report \in Seq([added : SUBSET Cells, removed : SUBSET Cells])
    BY DEF NoMap
  <2>3. fault \in [lost : SUBSET Cells, hit : SUBSET Cells, mended : SUBSET Cells,
                   misread : SUBSET Cells, left : Nat]
    BY <2>1 DEF NoFault
  <2>4. mem \in [Cells -> {"wrong", "complement", "target"}]
    OBVIOUS
  <2> QED BY <1>3, <1>4, <2>2, <2>3, <2>4 DEF TypeInv
<1>6. CostInv
  BY FaultAssumption DEF CostInv, NoFault
<1>7. FirstInv
  BY <1>1, <1>3 DEF FirstInv
<1>8. PhaseInv
  <2>1. <<"open", "any">> \in Phases
    BY DEF Phases, QuietPhases, MapPhases
  <2>2. Ending(diag, arm.kind) = <<"open", "any">>
    BY <1>4 DEF Ending, QuietEnd, MapEnd
  <2>3. Path(diag, steps, <<"open", "any">>, Ending(diag, arm.kind))
    BY <1>4, <2>1, <2>2, PathNil
  <2>4. QuietHolds("open") /\ MapHolds("any")
    BY DEF QuietHolds, MapHolds, Stopped
  <2> QED BY <2>1, <2>3, <2>4 DEF PhaseInv
<1> QED BY <1>5, <1>6, <1>7, <1>8 DEF SentinelInv

\* An arm begins with its maps empty, from where the last one ended.
LEMMA NextArmInv == SentinelInv /\ NextArm => SentinelInv'
<1> SUFFICES ASSUME SentinelInv, NextArm PROVE SentinelInv'
  OBVIOUS
<1> USE DEF SentinelInv, NextArm
<1>1. diag \in Diagnostics /\ Head(arms) \in ArmsOf(diag) /\ arms' \in Seq(ArmsOf(diag))
        /\ diag' = diag /\ steps = <<>>
  BY DEF TypeInv
<1>2. PICK p \in Phases : /\ QuietHolds(p[1]) /\ MapHolds(p[2])
                          /\ Path(diag, <<>>, p, Ending(diag, arm.kind))
  BY <1>1 DEF PhaseInv
<1>3. p = Ending(diag, arm.kind)
  BY <1>2, PathNil
<1>4. CASE Head(arms).kind = "ladder" /\ ~clean
  <2>1. UNCHANGED <<arm, steps, mem, map, report, fault, vic, bus, core3, diag>> /\ tries' = 0
    BY <1>4
  <2>2. TypeInv'
    BY <1>1, <2>1 DEF TypeInv
  <2>3. CostInv'
    BY <2>1, FaultAssumption DEF CostInv, TypeInv
  <2>4. FirstInv'
    BY <1>4, <2>1 DEF FirstInv
  <2>5. PhaseInv'
    <3>1. QuietHolds(p[1])' /\ MapHolds(p[2])'
      BY <1>2, <2>1, QuietKept, MapKept
    <3>2. Path(diag, steps, p, Ending(diag, arm.kind))'
      BY <1>1, <1>2, <2>1
    <3> QED BY <3>1, <3>2 DEF PhaseInv
  <2> QED BY <2>2, <2>3, <2>4, <2>5
<1>5. CASE ~(Head(arms).kind = "ladder" /\ ~clean)
  <2>1. PICK a \in ArmsOf(diag) : a = Head(arms)
    BY <1>1
  <2>2. /\ arm' = a /\ steps' = StepsOf(a)
        /\ mem' = IF a.salt = arm.salt THEN mem ELSE [c \in Cells |-> "wrong"]
        /\ map' = NoMap /\ report' = <<>> /\ fault' = NoFault(fault.left) /\ tries' = 0
        /\ UNCHANGED <<diag, vic, bus, core3>>
    BY <1>5, <2>1
  <2>3. a.kind \in Kinds(diag) \union {"end"} /\ "none" \notin Kinds(diag)
    BY <2>1 DEF ArmsOf, Kinds, RefreshKinds
  <2>4. /\ StepsOf(a) \in Seq(Step)
        /\ Path(diag, StepsOf(a), Beginning(diag, a.kind), Ending(diag, a.kind))
    BY <1>1, ArmPath
  <2>5. fault.left \in Nat
    BY DEF TypeInv
  <2>6. TypeInv'
    <3>1. map' \in [Slots -> SUBSET Cells]
            /\ report' \in Seq([added : SUBSET Cells, removed : SUBSET Cells])
      BY <2>2 DEF NoMap
    <3>2. fault' \in [lost : SUBSET Cells, hit : SUBSET Cells, mended : SUBSET Cells,
                      misread : SUBSET Cells, left : Nat]
      BY <2>2, <2>5 DEF NoFault
    <3>3. mem' \in [Cells -> {"wrong", "complement", "target"}]
      BY <2>2 DEF TypeInv
    <3> QED BY <1>1, <2>2, <2>3, <2>4, <3>1, <3>2, <3>3 DEF TypeInv
  <2>7. CostInv'
    BY <2>2, <2>5, FaultAssumption DEF CostInv, TypeInv, NoFault
  <2>8. FirstInv'
    BY <2>2, <2>3 DEF FirstInv
  <2>9. PhaseInv'
    <3>1. PICK b \in Phases : b = Beginning(diag, a.kind)
      BY DEF Beginning, QuietEnd, Phases, QuietPhases, MapPhases
    <3>2. Path(diag, steps, b, Ending(diag, arm.kind))'
      BY <2>2, <2>4, <3>1
    <3>3. QuietHolds(b[1])
      <4>1. CASE a.kind = "end"
        <5>1. arm.kind # "none"
          BY <1>1, <2>1, <4>1 DEF FirstInv
        <5>2. p[1] = b[1]
          BY <1>3, <3>1, <4>1, <5>1 DEF Beginning, Ending, QuietEnd
        <5> QED BY <1>2, <5>2
      <4>2. CASE a.kind # "end"
        <5>1. p[1] \in {"open", "quiet"} /\ b[1] = "open"
          BY <1>3, <3>1, <4>2 DEF Beginning, Ending, QuietEnd
        <5> QED BY <1>2, <5>1 DEF QuietHolds
      <4> QED BY <4>1, <4>2
    <3>4. QuietHolds(b[1])'
      BY <2>2, <3>3, QuietKept
    <3>5. MapHolds(b[2])'
      <4>1. b[2] \in {"any", "start"}
        BY <3>1 DEF Beginning
      <4> QED BY <2>2, <4>1 DEF MapHolds, Fresh, NoFault
    <3> QED BY <3>2, <3>4, <3>5 DEF PhaseInv
  <2> QED BY <2>6, <2>7, <2>8, <2>9
<1> QED BY <1>4, <1>5

\* A step that leaves the evidence alone.
LEMMA Untouched ==
    ASSUME SentinelInv, steps # <<>>, Pop, UNCHANGED <<diag, arms, arm, mem, map, report, fault>>,
           (bus = [point |-> bus.point, bias |-> bus.bias, rw |-> bus.rw])',
           (core3 \in [requested : BOOLEAN, active : BOOLEAN, continuous : BOOLEAN])',
           Head(steps).do \in Neutral,
           \A p, r \in QuietPhases :
             QuietHolds(p) /\ QuietRule(diag, p, Head(steps), r) => QuietHolds(r)'
    PROVE  SentinelInv'
<1>1. PICK p \in Phases, r \in Phases :
         /\ QuietHolds(p[1]) /\ MapHolds(p[2])
         /\ QuietRule(diag, p[1], Head(steps), r[1])
         /\ MapRule(diag, p[2], Head(steps), r[2])
         /\ Path(diag, Tail(steps), r, Ending(diag, arm.kind))
  BY StepPhase
<1>2. p[1] \in QuietPhases /\ r[1] \in QuietPhases
  BY DEF Phases
<1>3. QuietHolds(r[1])'
  BY <1>1, <1>2
<1>4. r[2] = "any" \/ r[2] = p[2]
  BY <1>1 DEF MapRule, Neutral
<1>5. MapHolds(r[2])
  BY <1>1, <1>4 DEF MapHolds
<1>6. MapHolds(r[2])'
  BY <1>5, MapKept
<1>7. FirstInv' /\ PhaseInv'
  BY <1>1, <1>3, <1>6, Popped
<1>8. TypeInv'
  <2>1. (steps \in Seq(Step))' /\ tries' = 0
    BY HeadStep DEF SentinelInv, Pop
  <2>2. TypeInv
    BY DEF SentinelInv
  <2> QED BY <2>1, <2>2 DEF TypeInv
<1>9. CostInv'
  BY FaultAssumption DEF SentinelInv, CostInv, TypeInv, Pop
<1> QED BY <1>7, <1>8, <1>9 DEF SentinelInv

\* $D011.
LEMMA SetModeInv == SentinelInv /\ SetMode => SentinelInv'
<1> SUFFICES ASSUME SentinelInv, SetMode PROVE SentinelInv'
  OBVIOUS
<1>1. steps # <<>> /\ Head(steps).do = "mode" /\ Pop /\ vic' = Head(steps).state
        /\ UNCHANGED <<diag, arms, arm, mem, bus, core3, map, report, fault>>
  BY DEF SetMode, At
<1>2. bus = [point |-> bus.point, bias |-> bus.bias, rw |-> bus.rw]
        /\ core3 \in [requested : BOOLEAN, active : BOOLEAN, continuous : BOOLEAN]
  BY DEF SentinelInv, TypeInv
<1>3. ASSUME NEW p \in QuietPhases, NEW r \in QuietPhases,
             QuietHolds(p), QuietRule(diag, p, Head(steps), r)
      PROVE  QuietHolds(r)'
  <2>1. p \in {"open", "quiet"} /\ (r = "open" \/ (r = "quiet" /\ Head(steps).state = "blank"))
    BY <1>1, <1>3 DEF QuietRule, Oracles
  <2> QED BY <1>1, <1>3, <2>1 DEF QuietHolds, Stopped
<1>4. Head(steps).do \in Neutral
  BY <1>1 DEF Neutral
<1> QED BY <1>1, <1>2, <1>3, <1>4, Untouched

\* The raster window.
LEMMA WaitRasterInv == SentinelInv /\ WaitRaster => SentinelInv'
<1> SUFFICES ASSUME SentinelInv, WaitRaster PROVE SentinelInv'
  OBVIOUS
<1>1. steps # <<>> /\ Head(steps).do = "raster" /\ Pop
        /\ UNCHANGED <<diag, arms, arm, mem, vic, bus, core3, map, report, fault>>
  BY DEF WaitRaster, At
<1>2. bus = [point |-> bus.point, bias |-> bus.bias, rw |-> bus.rw]
        /\ core3 \in [requested : BOOLEAN, active : BOOLEAN, continuous : BOOLEAN]
  BY DEF SentinelInv, TypeInv
<1>3. ASSUME NEW p \in QuietPhases, NEW r \in QuietPhases,
             QuietHolds(p), QuietRule(diag, p, Head(steps), r)
      PROVE  QuietHolds(r)'
  <2>1. r = p
    BY <1>1, <1>3 DEF QuietRule, Oracles
  <2> QED BY <1>1, <1>3, <2>1, QuietKept
<1>4. Head(steps).do \in Neutral
  BY <1>1 DEF Neutral
<1> QED BY <1>1, <1>2, <1>3, <1>4, Untouched

\* The verdict on the immediate reads decides only whether the ladder is run.
LEMMA JudgeImmediateInv == SentinelInv /\ JudgeImmediate => SentinelInv'
<1> SUFFICES ASSUME SentinelInv, JudgeImmediate PROVE SentinelInv'
  OBVIOUS
<1>1. steps # <<>> /\ Head(steps).do = "judge" /\ Pop
        /\ UNCHANGED <<diag, arms, arm, mem, vic, bus, core3, map, report, fault>>
  BY DEF JudgeImmediate, At
<1>2. bus = [point |-> bus.point, bias |-> bus.bias, rw |-> bus.rw]
        /\ core3 \in [requested : BOOLEAN, active : BOOLEAN, continuous : BOOLEAN]
  BY DEF SentinelInv, TypeInv
<1>3. ASSUME NEW p \in QuietPhases, NEW r \in QuietPhases,
             QuietHolds(p), QuietRule(diag, p, Head(steps), r)
      PROVE  QuietHolds(r)'
  <2>1. r = p
    BY <1>1, <1>3 DEF QuietRule, Oracles
  <2> QED BY <1>1, <1>3, <2>1, QuietKept
<1>4. Head(steps).do \in Neutral
  BY <1>1 DEF Neutral
<1> QED BY <1>1, <1>2, <1>3, <1>4, Untouched

\* busTiming's point and bias, and R/W.
LEMMA SetBusInv == SentinelInv /\ SetBus => SentinelInv'
<1> SUFFICES ASSUME SentinelInv, SetBus PROVE SentinelInv'
  OBVIOUS
<1>1. steps # <<>> /\ Pop
        /\ UNCHANGED <<diag, arms, arm, mem, vic, core3, map, report, fault>>
  BY DEF SetBus, At
<1>2. bus = [point |-> bus.point, bias |-> bus.bias, rw |-> bus.rw]
        /\ core3 \in [requested : BOOLEAN, active : BOOLEAN, continuous : BOOLEAN]
  BY DEF SentinelInv, TypeInv
<1>3. CASE At("point") /\ bus' = [bus EXCEPT !.point = Head(steps).point]
  <2>1. /\ Head(steps).do = "point" /\ bus'.point = Head(steps).point
        /\ bus'.bias = bus.bias /\ bus'.rw = bus.rw
        /\ (bus = [point |-> bus.point, bias |-> bus.bias, rw |-> bus.rw])'
    BY <1>2, <1>3 DEF At
  <2>2. ASSUME NEW p \in QuietPhases, NEW r \in QuietPhases,
               QuietHolds(p), QuietRule(diag, p, Head(steps), r)
        PROVE  QuietHolds(r)'
    <3>1. diag = "timing" /\ p \in {"quiet", "swept"}
            /\ r = IF Head(steps).point = "configured" THEN "quiet" ELSE "swept"
      BY <2>1, <2>2 DEF QuietRule, Oracles
    <3> QED BY <1>1, <2>1, <2>2, <3>1 DEF QuietHolds, Stopped
  <2>3. Head(steps).do \in Neutral
    BY <2>1 DEF Neutral
  <2> QED BY <1>1, <1>2, <2>1, <2>2, <2>3, Untouched
<1>4. CASE At("bias") /\ bus' = [bus EXCEPT !.bias = Head(steps).by]
  <2>1. /\ Head(steps).do = "bias" /\ bus'.bias = Head(steps).by
        /\ bus'.point = bus.point /\ bus'.rw = bus.rw
        /\ (bus = [point |-> bus.point, bias |-> bus.bias, rw |-> bus.rw])'
    BY <1>2, <1>4 DEF At
  <2>2. ASSUME NEW p \in QuietPhases, NEW r \in QuietPhases,
               QuietHolds(p), QuietRule(diag, p, Head(steps), r)
        PROVE  QuietHolds(r)'
    <3>1. p \in {"open", "biased"} /\ r = IF Head(steps).by = 0 THEN "open" ELSE "biased"
      BY <2>1, <2>2 DEF QuietRule, Oracles
    <3> QED BY <1>1, <2>1, <2>2, <3>1 DEF QuietHolds, Stopped
  <2>3. Head(steps).do \in Neutral
    BY <2>1 DEF Neutral
  <2> QED BY <1>1, <1>2, <2>1, <2>2, <2>3, Untouched
<1>5. CASE At("rw") /\ bus' = [bus EXCEPT !.rw = Head(steps).driven]
  <2>1. /\ Head(steps).do = "rw" /\ bus'.rw = Head(steps).driven
        /\ bus'.point = bus.point /\ bus'.bias = bus.bias
        /\ (bus = [point |-> bus.point, bias |-> bus.bias, rw |-> bus.rw])'
    BY <1>2, <1>5 DEF At
  <2>2. ASSUME NEW p \in QuietPhases, NEW r \in QuietPhases,
               QuietHolds(p), QuietRule(diag, p, Head(steps), r)
        PROVE  QuietHolds(r)'
    <3>1. p \in {"open", "driven"} /\ r = IF Head(steps).driven THEN "driven" ELSE "open"
      BY <2>1, <2>2 DEF QuietRule, Oracles
    <3> QED BY <1>1, <2>1, <2>2, <3>1 DEF QuietHolds, Stopped
  <2>3. Head(steps).do \in Neutral
    BY <2>1 DEF Neutral
  <2> QED BY <1>1, <1>2, <2>1, <2>2, <2>3, Untouched
<1> QED BY <1>3, <1>4, <1>5 DEF SetBus

\* The request to core 3.
LEMMA StartRefreshInv == SentinelInv /\ StartRefresh => SentinelInv'
<1> SUFFICES ASSUME SentinelInv, StartRefresh PROVE SentinelInv'
  OBVIOUS
<1>1. steps # <<>> /\ Head(steps).do = "start" /\ Pop
        /\ core3' = [core3 EXCEPT !.requested = TRUE, !.continuous = TRUE]
        /\ UNCHANGED <<diag, arms, arm, mem, vic, bus, map, report, fault>>
  BY DEF StartRefresh, At
<1>2. bus = [point |-> bus.point, bias |-> bus.bias, rw |-> bus.rw]
        /\ core3 \in [requested : BOOLEAN, active : BOOLEAN, continuous : BOOLEAN]
  BY DEF SentinelInv, TypeInv
<1>3. core3' \in [requested : BOOLEAN, active : BOOLEAN, continuous : BOOLEAN]
  BY <1>1, <1>2
<1>4. ASSUME NEW p \in QuietPhases, NEW r \in QuietPhases,
             QuietHolds(p), QuietRule(diag, p, Head(steps), r)
      PROVE  QuietHolds(r)'
  <2>1. p = "open" /\ r = "served"
    BY <1>1, <1>4 DEF QuietRule, Oracles
  <2> QED BY <1>1, <1>4, <2>1 DEF QuietHolds, Stopped
<1>5. Head(steps).do \in Neutral
  BY <1>1 DEF Neutral
<1> QED BY <1>1, <1>2, <1>3, <1>4, <1>5, Untouched

\* What core 3 does by itself, and the withdrawal of the request.
LEMMA Core3Inv ==
    ASSUME SentinelInv,
           UNCHANGED <<diag, arms, arm, steps, mem, vic, bus, map, report, fault>>,
           tries' = tries, Stopped => Stopped',
           core3' \in [requested : BOOLEAN, active : BOOLEAN, continuous : BOOLEAN]
    PROVE  SentinelInv'
<1>1. PICK p \in Phases : /\ QuietHolds(p[1]) /\ MapHolds(p[2])
                          /\ Path(diag, steps, p, Ending(diag, arm.kind))
  BY DEF SentinelInv, PhaseInv
<1>2. QuietHolds(p[1])' /\ MapHolds(p[2])'
  BY <1>1, MapKept DEF QuietHolds
<1>3. PhaseInv'
  BY <1>1, <1>2 DEF PhaseInv
<1> QED BY <1>3 DEF SentinelInv, TypeInv, CostInv, FirstInv

\* c128RefreshStop.
LEMMA StopRefreshInv == SentinelInv /\ StopRefresh => SentinelInv'
<1> SUFFICES ASSUME SentinelInv, StopRefresh PROVE SentinelInv'
  OBVIOUS
<1>1. steps # <<>> /\ Head(steps).do = "stop"
        /\ UNCHANGED <<diag, arms, arm, mem, vic, bus, map, report, fault>>
  BY DEF StopRefresh, At
<1>2. bus = [point |-> bus.point, bias |-> bus.bias, rw |-> bus.rw]
        /\ core3 \in [requested : BOOLEAN, active : BOOLEAN, continuous : BOOLEAN]
  BY DEF SentinelInv, TypeInv
<1>3. CASE core3.requested
  <2>1. core3' = [core3 EXCEPT !.requested = FALSE] /\ UNCHANGED <<steps, tries>>
    BY <1>3 DEF StopRefresh
  <2>2. core3' \in [requested : BOOLEAN, active : BOOLEAN, continuous : BOOLEAN]
    BY <1>2, <2>1
  <2> QED BY <1>1, <1>3, <2>1, <2>2, Core3Inv DEF Stopped
<1>4. CASE ~core3.requested
  <2>1. ~core3.active /\ core3' = [core3 EXCEPT !.continuous = FALSE] /\ Pop
    BY <1>4 DEF StopRefresh
  <2>2. core3' \in [requested : BOOLEAN, active : BOOLEAN, continuous : BOOLEAN]
          /\ ~core3'.continuous /\ core3'.active = core3.active
          /\ core3'.requested = core3.requested
    BY <1>2, <2>1
  <2>3. Stopped'
    BY <1>4, <2>1, <2>2 DEF Stopped
  <2>4. ASSUME NEW p \in QuietPhases, NEW r \in QuietPhases,
               QuietHolds(p), QuietRule(diag, p, Head(steps), r)
        PROVE  QuietHolds(r)'
    <3>1. (p = "served" /\ r = "open") \/ (p = "quiet" /\ r = "quiet")
      BY <1>1, <2>4 DEF QuietRule, Oracles
    <3> QED BY <1>1, <2>3, <2>4, <3>1 DEF QuietHolds
  <2>5. Head(steps).do \in Neutral
    BY <1>1 DEF Neutral
  <2> QED BY <1>1, <1>2, <2>1, <2>2, <2>4, <2>5, Untouched
<1> QED BY <1>3, <1>4

\* Core 3 takes a request up,
LEMMA Core3TakesInv == SentinelInv /\ Core3Takes => SentinelInv'
<1> SUFFICES ASSUME SentinelInv, Core3Takes PROVE SentinelInv'
  OBVIOUS
<1>1. core3' \in [requested : BOOLEAN, active : BOOLEAN, continuous : BOOLEAN]
  BY DEF SentinelInv, TypeInv, Core3Takes
<1> QED BY <1>1, Core3Inv DEF Core3Takes, Stopped

\* and lets it go.
LEMMA Core3QuitsInv == SentinelInv /\ Core3Quits => SentinelInv'
<1> SUFFICES ASSUME SentinelInv, Core3Quits PROVE SentinelInv'
  OBVIOUS
<1>1. core3' \in [requested : BOOLEAN, active : BOOLEAN, continuous : BOOLEAN]
  BY DEF SentinelInv, TypeInv, Core3Quits
<1> QED BY <1>1, Core3Inv DEF Core3Quits, Stopped

\* An oracle is quiet, and moves nothing.
LEMMA OracleQuiet ==
    ASSUME NEW p, NEW r, NEW s, QuietHolds(p), QuietRule(diag, p, s, r), s.do \in Oracles
    PROVE  /\ r = p
           /\ s.do # "capture" \/ diag # "timing" => bus.point = "configured"
           /\ diag # "access" => Quiet
BY DEF QuietRule, QuietHolds, Oracles, Quiet, Stopped

\* The type of the faults, field by field.
LEMMA FaultFields ==
    ASSUME TypeInv, NEW l \in SUBSET Cells, NEW h \in SUBSET Cells, NEW m \in SUBSET Cells,
           NEW x \in SUBSET Cells, NEW k \in Nat,
           fault' = [fault EXCEPT !.lost = l, !.hit = h, !.mended = m, !.misread = x, !.left = k]
    PROVE  /\ fault' \in [lost : SUBSET Cells, hit : SUBSET Cells, mended : SUBSET Cells,
                          misread : SUBSET Cells, left : Nat]
           /\ fault'.lost = l /\ fault'.hit = h /\ fault'.mended = m
           /\ fault'.misread = x /\ fault'.left = k
<1>1. fault' = [lost |-> l, hit |-> h, mended |-> m, misread |-> x, left |-> k]
  BY DEF TypeInv
<1> QED BY <1>1

\* What a map shows.
LEMMA ReadingShows ==
    ASSUME NEW v, NEW x \in SUBSET Cells, NEW m
    PROVE  /\ Reading(v, x, m) \in SUBSET Cells
           /\ \A c \in Cells : c \notin x => (c \in Reading(v, x, m) <=> m[c] # v)
           /\ \A c \in Cells : c \in Reading(v, x, m) /\ m[c] = v => c \in x
           /\ \A c \in Cells : c \notin Reading(v, x, m) /\ m[c] # v => c \in x
BY DEF Reading, SymDiff

\* A prefill that gave up has used up the faults.
LEMMA PrefillCellsInv == SentinelInv /\ PrefillCells => SentinelInv'
<1> SUFFICES ASSUME SentinelInv, PrefillCells PROVE SentinelInv'
  OBVIOUS
<1>1. /\ steps # <<>> /\ Head(steps).do = "prefill" /\ Head(steps).do \in Oracles
      /\ UNCHANGED <<diag, arms, arm, vic, bus, core3, report, clean>>
  BY DEF PrefillCells, At, Oracles
<1>2. TypeInv /\ CostInv
  BY DEF SentinelInv
<1>3. PICK p \in Phases, r \in Phases :
         /\ QuietHolds(p[1]) /\ MapHolds(p[2])
         /\ QuietRule(diag, p[1], Head(steps), r[1])
         /\ MapRule(diag, p[2], Head(steps), r[2])
         /\ Path(diag, Tail(steps), r, Ending(diag, arm.kind))
  BY <1>1, StepPhase
<1>4. r[1] = p[1] /\ bus.point = "configured" /\ QuietHolds(p[1])'
  BY <1>1, <1>3, OracleQuiet, QuietKept
<1>5. Head(steps).slot \in Slots
  BY <1>1, <1>2, HeadStep
<1>6. PICK lost \in SUBSET Cells, misread \in SUBSET Cells :
         LET m == Seeded("complement", lost)
             n == Cardinality(lost) + Charge(misread)
             errors == Reading("complement", misread, m)
         IN  /\ Affordable(n)
             /\ mem' = m
             /\ map' = [map EXCEPT ![Head(steps).slot] = errors]
             /\ fault' = [fault EXCEPT !.left = @ - n, !.misread = @ \union misread]
             /\ IF errors = {} \/ tries + 1 = Attempts THEN Pop
                ELSE tries' = tries + 1 /\ UNCHANGED steps
  BY DEF PrefillCells
<1> DEFINE errors == Reading("complement", misread, Seeded("complement", lost))
           n == Cardinality(lost) + Cardinality(misread)
<1>7. n \in Nat /\ n = Cardinality(lost) + Charge(misread) /\ n <= fault.left
  BY <1>4, <1>6, CellSets, Charges DEF Affordable
<1>8. /\ mem' = [c \in Cells |-> IF c \in lost THEN mem[c] ELSE "complement"]
      /\ map' = [map EXCEPT ![Head(steps).slot] = errors]
      /\ (IF errors = {} \/ tries + 1 = Attempts THEN Pop
          ELSE tries' = tries + 1 /\ UNCHANGED steps)
  BY <1>6 DEF Seeded
<1>9. /\ fault' \in [lost : SUBSET Cells, hit : SUBSET Cells, mended : SUBSET Cells,
                     misread : SUBSET Cells, left : Nat]
      /\ fault'.hit = fault.hit /\ fault'.mended = fault.mended
      /\ fault'.misread = fault.misread \union misread /\ fault'.left = fault.left - n
  <2>1. fault' = [fault EXCEPT !.left = fault.left - n, !.misread = fault.misread \union misread]
    BY <1>6, <1>7
  <2>2. fault.left \in Nat /\ fault.left - n \in Nat
    BY <1>2, <1>7 DEF TypeInv
  <2>3. /\ fault.lost \in SUBSET Cells /\ fault.hit \in SUBSET Cells
        /\ fault.mended \in SUBSET Cells /\ fault.misread \union misread \in SUBSET Cells
    BY <1>2 DEF TypeInv
  <2> HIDE DEF n
  <2>4. fault' = [fault EXCEPT !.lost = fault.lost, !.hit = fault.hit, !.mended = fault.mended,
                    !.misread = fault.misread \union misread, !.left = fault.left - n]
    BY <1>2, <2>1 DEF TypeInv
  <2> QED BY <1>2, <2>2, <2>3, <2>4, FaultFields
<1>10. errors \in SUBSET Cells /\ (errors # {} => n >= 1)
  <2>1. errors \in SUBSET Cells
    BY ReadingShows
  <2>2. lost = {} /\ misread = {} => errors = {}
    BY DEF Reading, Seeded, SymDiff
  <2> QED BY <2>1, <2>2, CellSets
<1> HIDE DEF errors, n
<1>11. /\ (mem \in [Cells -> {"wrong", "complement", "target"}])'
       /\ (map \in [Slots -> SUBSET Cells])'
  BY <1>2, <1>5, <1>8, <1>10 DEF TypeInv
<1>12. fault.left \in Nat /\ tries \in Nat /\ fault.left + tries <= MaxFaults
         /\ MaxFaults \in Nat /\ Attempts \in Nat /\ MaxFaults <= Attempts
  BY <1>2, FaultAssumption DEF TypeInv, CostInv
<1>13. CASE errors = {} \/ tries + 1 = Attempts
  <2>1. Pop
    BY <1>8, <1>13
  <2>2. TypeInv'
    <3>1. (steps \in Seq(Step))' /\ tries' = 0
      BY <1>1, <1>2, <2>1, HeadStep DEF Pop
    <3> QED BY <1>1, <1>2, <1>9, <1>11, <3>1 DEF TypeInv
  <2>3. CostInv'
    BY <1>7, <1>9, <1>12, <2>1 DEF CostInv, Pop
  <2>4. MapHolds(r[2])'
    <3>1. r[2] = "any" \/ (p[2] = "start" /\ r[2] \in {"start", "dark"})
      BY <1>1, <1>3 DEF MapRule, Neutral
    <3>2. CASE r[2] = "any"
      BY <3>2 DEF MapHolds
    <3>3. CASE p[2] = "start" /\ r[2] \in {"start", "dark"}
      <4>1. Fresh'
        BY <1>1, <1>3, <1>9, <3>3 DEF MapHolds, Fresh
      <4>2. (\A c \in Trusted : mem[c] # "target" \/ fault.left = 0)'
        <5>1. CASE errors = {}
          <6> SUFFICES ASSUME NEW c \in Trusted' PROVE mem'[c] # "target"
            OBVIOUS
          <6>1. c \in Cells /\ c \notin misread
            BY <1>9 DEF Trusted
          <6>2. Seeded("complement", lost)[c] = "complement"
            BY <5>1, <6>1, ReadingShows DEF errors
          <6> QED BY <1>6, <6>2
        <5>2. CASE errors # {}
          <6>1. tries + 1 = Attempts /\ n >= 1
            BY <1>10, <1>13, <5>2
          <6>2. fault'.left = 0
            BY <1>7, <1>9, <1>12, <6>1
          <6> QED BY <6>2
        <5> QED BY <5>1, <5>2
      <4> QED BY <3>3, <4>1, <4>2 DEF MapHolds
    <3> QED BY <3>1, <3>2, <3>3
  <2>5. FirstInv' /\ PhaseInv'
    BY <1>1, <1>3, <1>4, <2>1, <2>4, Popped
  <2> QED BY <2>2, <2>3, <2>5 DEF SentinelInv
<1>14. CASE ~(errors = {} \/ tries + 1 = Attempts)
  <2>1. tries' = tries + 1 /\ steps' = steps
    BY <1>8, <1>14
  <2>2. TypeInv'
    BY <1>1, <1>2, <1>9, <1>11, <1>12, <2>1 DEF TypeInv
  <2>3. CostInv'
    BY <1>7, <1>9, <1>10, <1>12, <1>14, <2>1 DEF CostInv
  <2>4. MapHolds(p[2])' \/ r[2] = "any"
    BY <1>1, <1>3, <1>9 DEF MapRule, Neutral, MapHolds, Fresh
  <2>5. FirstInv' /\ PhaseInv'
    BY <1>1, <1>3, <1>4, <2>1, <2>4, Retried
  <2> QED BY <2>2, <2>3, <2>5 DEF SentinelInv
<1> QED BY <1>13, <1>14

\* A target write that is lost leaves the complement.
LEMMA SeedTargetInv == SentinelInv /\ SeedTarget => SentinelInv'
<1> SUFFICES ASSUME SentinelInv, SeedTarget PROVE SentinelInv'
  OBVIOUS
<1>1. /\ steps # <<>> /\ Head(steps).do = "target" /\ Head(steps).do \in Oracles /\ Pop
      /\ UNCHANGED <<diag, arms, arm, vic, bus, core3, map, report, clean>>
  BY DEF SeedTarget, At, Oracles
<1>2. TypeInv /\ CostInv
  BY DEF SentinelInv
<1>3. PICK p \in Phases, r \in Phases :
         /\ QuietHolds(p[1]) /\ MapHolds(p[2])
         /\ QuietRule(diag, p[1], Head(steps), r[1])
         /\ MapRule(diag, p[2], Head(steps), r[2])
         /\ Path(diag, Tail(steps), r, Ending(diag, arm.kind))
  BY <1>1, StepPhase
<1>4. r[1] = p[1] /\ QuietHolds(p[1])'
  BY <1>1, <1>3, OracleQuiet, QuietKept
<1>5. PICK lost \in SUBSET Cells :
         /\ Affordable(Cardinality(lost))
         /\ mem' = Seeded("target", lost)
         /\ fault' = [fault EXCEPT !.left = @ - Cardinality(lost), !.lost = lost]
  BY DEF SeedTarget
<1>6. /\ Cardinality(lost) \in Nat /\ Cardinality(lost) <= fault.left
      /\ \A c \in lost : Cardinality(lost) >= 1
  BY <1>5, CellSets DEF Affordable
<1>7. mem' = [c \in Cells |-> IF c \in lost THEN mem[c] ELSE "target"]
  BY <1>5 DEF Seeded
<1>8. /\ fault' \in [lost : SUBSET Cells, hit : SUBSET Cells, mended : SUBSET Cells,
                     misread : SUBSET Cells, left : Nat]
      /\ fault'.hit = fault.hit /\ fault'.mended = fault.mended
      /\ fault'.misread = fault.misread /\ fault'.left = fault.left - Cardinality(lost)
      /\ fault'.lost = lost
  <2>1. fault.left - Cardinality(lost) \in Nat /\ fault.hit \in SUBSET Cells
          /\ fault.mended \in SUBSET Cells /\ fault.misread \in SUBSET Cells
    BY <1>2, <1>6 DEF TypeInv
  <2>2. fault' = [fault EXCEPT !.lost = lost, !.hit = fault.hit, !.mended = fault.mended,
                    !.misread = fault.misread, !.left = fault.left - Cardinality(lost)]
    BY <1>2, <1>5 DEF TypeInv
  <2> QED BY <1>2, <2>1, <2>2, FaultFields
<1>9. TypeInv'
  <2>1. (steps \in Seq(Step))' /\ tries' = 0
    BY <1>1, <1>2, HeadStep DEF Pop
  <2>2. (mem \in [Cells -> {"wrong", "complement", "target"}])'
    BY <1>2, <1>7 DEF TypeInv
  <2> QED BY <1>1, <1>2, <1>8, <2>1, <2>2 DEF TypeInv
<1>10. CostInv'
  BY <1>1, <1>2, <1>6, <1>8, FaultAssumption DEF CostInv, Pop, TypeInv
<1>11. MapHolds(r[2])'
  <2>1. \/ r[2] = "any"
        \/ (p[2] = "dark" \/ (p[2] = "start" /\ ~Complemented(diag))) /\ r[2] = "seeded"
    BY <1>1, <1>3 DEF MapRule, Neutral
  <2>2. CASE r[2] = "any"
    BY <2>2 DEF MapHolds
  <2>3. CASE (p[2] = "dark" \/ (p[2] = "start" /\ ~Complemented(diag))) /\ r[2] = "seeded"
    <3>1. Fresh'
      BY <1>1, <1>3, <1>8, <2>3 DEF MapHolds, Fresh
    <3>2. ASSUME Complemented(diag), NEW c \in lost, c \notin fault.misread
          PROVE  mem'[c] # "target"
      <4>1. c \in Trusted /\ fault.left # 0
        BY <1>2, <1>6, <3>2 DEF Trusted, TypeInv
      <4>2. mem[c] # "target"
        BY <1>3, <2>3, <3>2, <4>1 DEF MapHolds
      <4> QED BY <1>7, <3>2, <4>2
    <3>3. (Complemented(diag) => \A c \in fault.lost \cap Trusted : mem[c] # "target")'
      BY <1>1, <1>8, <3>2 DEF Trusted
    <3> QED BY <2>3, <3>1, <3>3 DEF MapHolds
  <2> QED BY <2>1, <2>2, <2>3
<1>12. FirstInv' /\ PhaseInv'
  BY <1>1, <1>3, <1>4, <1>11, Popped
<1> QED BY <1>9, <1>10, <1>12 DEF SentinelInv

\* A verified target is its own baseline.
LEMMA SeedVerifiedInv == SentinelInv /\ SeedVerified => SentinelInv'
<1> SUFFICES ASSUME SentinelInv, SeedVerified PROVE SentinelInv'
  OBVIOUS
<1>1. /\ steps # <<>> /\ Head(steps).do = "verified" /\ Head(steps).do \in Oracles
      /\ UNCHANGED <<diag, arms, arm, vic, bus, core3, report, clean>>
  BY DEF SeedVerified, At, Oracles
<1>2. TypeInv /\ CostInv
  BY DEF SentinelInv
<1>3. PICK p \in Phases, r \in Phases :
         /\ QuietHolds(p[1]) /\ MapHolds(p[2])
         /\ QuietRule(diag, p[1], Head(steps), r[1])
         /\ MapRule(diag, p[2], Head(steps), r[2])
         /\ Path(diag, Tail(steps), r, Ending(diag, arm.kind))
  BY <1>1, StepPhase
<1>4. r[1] = p[1] /\ bus.point = "configured" /\ QuietHolds(p[1])'
  BY <1>1, <1>3, OracleQuiet, QuietKept
<1>5. PICK s \in Slots : s = Head(steps).slot
  BY <1>1, <1>2, HeadStep
<1>6. PICK lost \in SUBSET Cells, misread \in SUBSET Cells :
         LET m == Seeded("target", lost)
             n == Cardinality(lost) + Charge(misread)
             errors == Reading("target", misread, m)
         IN  /\ Affordable(n)
             /\ mem' = m
             /\ map' = [map EXCEPT ![Head(steps).slot] = errors]
             /\ fault' = [fault EXCEPT !.left = @ - n, !.lost = lost,
                                       !.misread = @ \union misread]
             /\ IF errors = {} \/ tries + 1 = Attempts THEN Pop
                ELSE tries' = tries + 1 /\ UNCHANGED steps
  BY DEF SeedVerified
<1> DEFINE errors == Reading("target", misread, Seeded("target", lost))
           n == Cardinality(lost) + Cardinality(misread)
<1>7. n \in Nat /\ n = Cardinality(lost) + Charge(misread) /\ n <= fault.left
  BY <1>4, <1>6, CellSets, Charges DEF Affordable
<1>8. /\ mem' = [c \in Cells |-> IF c \in lost THEN mem[c] ELSE "target"]
      /\ map' = [map EXCEPT ![s] = errors]
      /\ (IF errors = {} \/ tries + 1 = Attempts THEN Pop
          ELSE tries' = tries + 1 /\ UNCHANGED steps)
  BY <1>5, <1>6 DEF Seeded
<1>9. /\ fault' \in [lost : SUBSET Cells, hit : SUBSET Cells, mended : SUBSET Cells,
                     misread : SUBSET Cells, left : Nat]
      /\ fault'.hit = fault.hit /\ fault'.mended = fault.mended
      /\ fault'.misread = fault.misread \union misread /\ fault'.left = fault.left - n
  <2>1. fault' = [fault EXCEPT !.left = fault.left - n, !.lost = lost,
                               !.misread = fault.misread \union misread]
    BY <1>6, <1>7
  <2>2. fault.left \in Nat /\ fault.left - n \in Nat
    BY <1>2, <1>7 DEF TypeInv
  <2>3. /\ fault.hit \in SUBSET Cells
        /\ fault.mended \in SUBSET Cells /\ fault.misread \union misread \in SUBSET Cells
    BY <1>2 DEF TypeInv
  <2> HIDE DEF n
  <2>4. fault' = [fault EXCEPT !.lost = lost, !.hit = fault.hit, !.mended = fault.mended,
                    !.misread = fault.misread \union misread, !.left = fault.left - n]
    BY <1>2, <2>1 DEF TypeInv
  <2> QED BY <1>2, <2>2, <2>3, <2>4, FaultFields
<1>10. errors \in SUBSET Cells /\ (errors # {} => n >= 1)
  <2>1. errors \in SUBSET Cells
    BY ReadingShows
  <2>2. lost = {} /\ misread = {} => errors = {}
    BY DEF Reading, Seeded, SymDiff
  <2> QED BY <2>1, <2>2, CellSets
<1>11. \A c \in Cells \ misread : c \in errors <=> mem'[c] # "target"
  BY <1>6, ReadingShows
<1> HIDE DEF errors, n
<1>12. /\ (mem \in [Cells -> {"wrong", "complement", "target"}])'
       /\ (map \in [Slots -> SUBSET Cells])' /\ map'[s] = errors
  BY <1>2, <1>5, <1>8, <1>10 DEF TypeInv
<1>13. fault.left \in Nat /\ tries \in Nat /\ fault.left + tries <= MaxFaults /\ MaxFaults \in Nat
  BY <1>2, FaultAssumption DEF TypeInv, CostInv
<1>14. CASE errors = {} \/ tries + 1 = Attempts
  <2>1. Pop
    BY <1>8, <1>14
  <2>2. TypeInv'
    <3>1. (steps \in Seq(Step))' /\ tries' = 0
      BY <1>1, <1>2, <2>1, HeadStep DEF Pop
    <3> QED BY <1>1, <1>2, <1>9, <1>12, <3>1 DEF TypeInv
  <2>3. CostInv'
    BY <1>7, <1>9, <1>13, <2>1 DEF CostInv, Pop
  <2>4. MapHolds(r[2])'
    <3>1. \/ r[2] = "any"
          \/ p[2] = "start" /\ diag = "row" /\ s = BaseSlot(diag) /\ r[2] = "based"
      BY <1>1, <1>3, <1>5 DEF MapRule, Neutral
    <3>2. CASE r[2] = "any"
      BY <3>2 DEF MapHolds
    <3>3. CASE p[2] = "start" /\ diag = "row" /\ s = BaseSlot(diag) /\ r[2] = "based"
      <4>1. Fresh'
        BY <1>1, <1>3, <1>9, <3>3 DEF MapHolds, Fresh
      <4>2. Current(BaseSlot(diag))'
        BY <1>1, <1>9, <1>11, <1>12, <3>3 DEF Current, Trusted
      <4>3. Shown'
        BY <1>1, <3>3 DEF Shown, Complemented, RefreshKinds
      <4> QED BY <3>3, <4>1, <4>2, <4>3 DEF MapHolds
    <3> QED BY <3>1, <3>2, <3>3
  <2>5. FirstInv' /\ PhaseInv'
    BY <1>1, <1>3, <1>4, <2>1, <2>4, Popped
  <2> QED BY <2>2, <2>3, <2>5 DEF SentinelInv
<1>15. CASE ~(errors = {} \/ tries + 1 = Attempts)
  <2>1. tries' = tries + 1 /\ steps' = steps
    BY <1>8, <1>15
  <2>2. TypeInv'
    BY <1>1, <1>2, <1>9, <1>12, <1>13, <2>1 DEF TypeInv
  <2>3. CostInv'
    BY <1>7, <1>9, <1>10, <1>13, <1>15, <2>1 DEF CostInv
  <2>4. MapHolds(p[2])' \/ r[2] = "any"
    BY <1>1, <1>3, <1>9 DEF MapRule, Neutral, MapHolds, Fresh
  <2>5. FirstInv' /\ PhaseInv'
    BY <1>1, <1>3, <1>4, <2>1, <2>4, Retried
  <2> QED BY <2>2, <2>3, <2>5 DEF SentinelInv
<1> QED BY <1>14, <1>15

\* Three maps that all misread a cell would cost as many faults as there are readings.
LEMMA SeedThreefoldInv == SentinelInv /\ SeedThreefold => SentinelInv'
<1> SUFFICES ASSUME SentinelInv, SeedThreefold PROVE SentinelInv'
  OBVIOUS
<1>1. /\ steps # <<>> /\ Head(steps).do = "threefold" /\ Head(steps).do \in Oracles
      /\ UNCHANGED <<diag, arms, arm, vic, bus, core3, report, clean>>
  BY DEF SeedThreefold, At, Oracles
<1>2. TypeInv /\ CostInv
  BY DEF SentinelInv
<1>3. PICK p \in Phases, r \in Phases :
         /\ QuietHolds(p[1]) /\ MapHolds(p[2])
         /\ QuietRule(diag, p[1], Head(steps), r[1])
         /\ MapRule(diag, p[2], Head(steps), r[2])
         /\ Path(diag, Tail(steps), r, Ending(diag, arm.kind))
  BY <1>1, StepPhase
<1>4. r[1] = p[1] /\ QuietHolds(p[1])'
  BY <1>1, <1>3, OracleQuiet, QuietKept
<1>5. PICK lost \in SUBSET Cells, misread \in [0..2 -> SUBSET Cells] :
         LET m == Seeded("target", lost)
             n == Cardinality(lost) + Cardinality(misread[0])
                    + Cardinality(misread[1]) + Cardinality(misread[2])
             seen(s) == Reading("target", misread[s], m)
         IN  /\ Affordable(n)
             /\ mem' = m
             /\ map' = [s \in Slots |-> IF s < 3 THEN seen(s) ELSE map[s]]
             /\ fault' = [fault EXCEPT !.left = @ - n, !.lost = lost,
                            !.misread = @ \union misread[0] \union misread[1]
                                          \union misread[2]]
             /\ IF seen(0) \cap seen(1) \cap seen(2) = {} \/ tries + 1 = Attempts
                THEN Pop ELSE tries' = tries + 1 /\ UNCHANGED steps
  BY DEF SeedThreefold
<1> DEFINE m == Seeded("target", lost)
           m0 == misread[0]
           m1 == misread[1]
           m2 == misread[2]
           s0 == Reading("target", m0, m)
           s1 == Reading("target", m1, m)
           s2 == Reading("target", m2, m)
           n == Cardinality(lost) + Cardinality(m0) + Cardinality(m1) + Cardinality(m2)
           misled == fault.misread \union m0 \union m1 \union m2
<1>6. m0 \in SUBSET Cells /\ m1 \in SUBSET Cells /\ m2 \in SUBSET Cells
  OBVIOUS
<1>7. /\ n \in Nat /\ n <= fault.left
      /\ \A c \in Cells : c \in m0 /\ c \in m1 /\ c \in m2 => n >= 3
      /\ ~(lost = {} /\ m0 = {} /\ m1 = {} /\ m2 = {}) => n >= 1
  <2>1. Cardinality(lost) \in Nat /\ Cardinality(m0) \in Nat /\ Cardinality(m1) \in Nat
          /\ Cardinality(m2) \in Nat
    BY <1>6, CellSets
  <2>2. /\ lost # {} => Cardinality(lost) >= 1
        /\ m0 # {} => Cardinality(m0) >= 1
        /\ m1 # {} => Cardinality(m1) >= 1
        /\ m2 # {} => Cardinality(m2) >= 1
    BY <1>6, CellSets
  <2>3. n <= fault.left
    BY <1>5 DEF Affordable
  <2>4. \A c \in Cells : c \in m0 /\ c \in m1 /\ c \in m2 => m0 # {} /\ m1 # {} /\ m2 # {}
    OBVIOUS
  <2> HIDE DEF m0, m1, m2
  <2> QED BY <2>1, <2>2, <2>3, <2>4
<1>8. /\ mem' = [c \in Cells |-> IF c \in lost THEN mem[c] ELSE "target"] /\ mem' = m
      /\ map' = [s \in Slots |-> IF s < 3 THEN Reading("target", misread[s], m) ELSE map[s]]
      /\ (IF s0 \cap s1 \cap s2 = {} \/ tries + 1 = Attempts THEN Pop
          ELSE tries' = tries + 1 /\ UNCHANGED steps)
  BY <1>5 DEF Seeded
<1>9. map'[0] = s0 /\ map'[1] = s1 /\ map'[2] = s2
  BY <1>8 DEF Slots
<1>10. /\ fault' \in [lost : SUBSET Cells, hit : SUBSET Cells, mended : SUBSET Cells,
                      misread : SUBSET Cells, left : Nat]
       /\ fault'.hit = fault.hit /\ fault'.mended = fault.mended
       /\ fault'.misread = misled /\ fault'.left = fault.left - n
  <2>1. fault' = [fault EXCEPT !.left = fault.left - n, !.lost = lost, !.misread = misled]
    BY <1>5
  <2>2. fault.left \in Nat /\ fault.left - n \in Nat
    BY <1>2, <1>7 DEF TypeInv
  <2>3. /\ fault.hit \in SUBSET Cells
        /\ fault.mended \in SUBSET Cells /\ misled \in SUBSET Cells
    BY <1>2, <1>6 DEF TypeInv
  <2> HIDE DEF n, misled
  <2>4. fault' = [fault EXCEPT !.lost = lost, !.hit = fault.hit, !.mended = fault.mended,
                    !.misread = misled, !.left = fault.left - n]
    BY <1>2, <2>1 DEF TypeInv
  <2> QED BY <1>2, <2>2, <2>3, <2>4, FaultFields
<1>11. /\ s0 \in SUBSET Cells /\ s1 \in SUBSET Cells /\ s2 \in SUBSET Cells
       /\ s0 \cap s1 \cap s2 # {} => n >= 1
       /\ \A c \in Cells : c \notin m0 => (c \in s0 <=> m[c] # "target")
       /\ \A c \in Cells : c \notin m1 => (c \in s1 <=> m[c] # "target")
       /\ \A c \in Cells : c \notin m2 => (c \in s2 <=> m[c] # "target")
       /\ \A c \in Cells : c \notin s0 /\ m[c] # "target" => c \in m0
       /\ \A c \in Cells : c \notin s1 /\ m[c] # "target" => c \in m1
       /\ \A c \in Cells : c \notin s2 /\ m[c] # "target" => c \in m2
  <2>1. lost = {} /\ m0 = {} /\ m1 = {} /\ m2 = {} => s0 = {}
    <3> HIDE DEF m0, m1, m2
    <3> QED BY DEF Reading, Seeded, SymDiff
  <2> HIDE DEF m, m0, m1, m2, n
  <2>2. s0 \cap s1 \cap s2 # {} => n >= 1
    BY <1>7, <2>1
  <2> QED BY <1>6, <2>2, ReadingShows
<1>12. (map \in [Slots -> SUBSET Cells])' /\ (mem \in [Cells -> {"wrong", "complement", "target"}])'
  <2>1. \A s \in Slots : s < 3 => s = 0 \/ s = 1 \/ s = 2
    BY DEF Slots
  <2>2. \A s \in Slots : s < 3 => Reading("target", misread[s], m) \in SUBSET Cells
    BY <1>11, <2>1
  <2> QED BY <1>2, <1>8, <2>2 DEF TypeInv
<1>13. fault.left \in Nat /\ tries \in Nat /\ fault.left + tries <= MaxFaults /\ MaxFaults \in 0 .. 2
  BY <1>2, FaultAssumption DEF TypeInv, CostInv
<1> HIDE DEF m, m0, m1, m2, s0, s1, s2, n
<1>14. CASE s0 \cap s1 \cap s2 = {} \/ tries + 1 = Attempts
  <2>1. Pop
    BY <1>8, <1>14
  <2>2. TypeInv'
    <3>1. (steps \in Seq(Step))' /\ tries' = 0
      BY <1>1, <1>2, <2>1, HeadStep DEF Pop
    <3> QED BY <1>1, <1>2, <1>10, <1>12, <3>1 DEF TypeInv
  <2>3. CostInv'
    BY <1>7, <1>10, <1>13, <2>1 DEF CostInv, Pop
  <2>4. MapHolds(r[2])'
    <3>1. r[2] = "any" \/ (p[2] = "start" /\ r[2] = "tripled")
      BY <1>1, <1>3 DEF MapRule, Neutral
    <3>2. CASE r[2] = "any"
      BY <3>2 DEF MapHolds
    <3>3. CASE p[2] = "start" /\ r[2] = "tripled"
      <4>1. Fresh'
        BY <1>1, <1>3, <1>10, <3>3 DEF MapHolds, Fresh
      <4>2. BaseAny' = s0 \union s1 \union s2
        BY <1>9 DEF BaseAny
      <4>3. ASSUME NEW c \in Cells, c \notin s0 \union s1 \union s2 PROVE mem'[c] = "target"
        <5>1. SUFFICES ASSUME m[c] # "target" PROVE FALSE
          BY <1>8
        <5>2. n >= 3
          BY <1>7, <1>11, <4>3, <5>1
        <5> QED BY <1>7, <1>13, <5>2
      <4>4. Sure'
        BY <4>2, <4>3 DEF Sure
      <4>5. (\A c \in Trusted : c \in BaseAny <=> mem[c] # "target")'
        BY <1>8, <1>10, <1>11, <4>2 DEF Trusted
      <4> QED BY <3>3, <4>1, <4>4, <4>5 DEF MapHolds
    <3> QED BY <3>1, <3>2, <3>3
  <2>5. FirstInv' /\ PhaseInv'
    BY <1>1, <1>3, <1>4, <2>1, <2>4, Popped
  <2> QED BY <2>2, <2>3, <2>5 DEF SentinelInv
<1>15. CASE ~(s0 \cap s1 \cap s2 = {} \/ tries + 1 = Attempts)
  <2>1. tries' = tries + 1 /\ steps' = steps
    BY <1>8, <1>15
  <2>2. TypeInv'
    BY <1>1, <1>2, <1>10, <1>12, <1>13, <2>1 DEF TypeInv
  <2>3. CostInv'
    BY <1>7, <1>10, <1>11, <1>13, <1>15, <2>1 DEF CostInv
  <2>4. MapHolds(p[2])' \/ r[2] = "any"
    BY <1>1, <1>3, <1>10 DEF MapRule, Neutral, MapHolds, Fresh
  <2>5. FirstInv' /\ PhaseInv'
    BY <1>1, <1>3, <1>4, <2>1, <2>4, Retried
  <2> QED BY <2>2, <2>3, <2>5 DEF SentinelInv
<1> QED BY <1>14, <1>15

\* A map shows the trusted cells that are wrong, and any other at the cost of a fault.
LEMMA CaptureMapInv == SentinelInv /\ CaptureMap => SentinelInv'
<1> SUFFICES ASSUME SentinelInv, CaptureMap PROVE SentinelInv'
  OBVIOUS
<1>1. /\ steps # <<>> /\ Head(steps).do = "capture" /\ Head(steps).do \in Oracles /\ Pop
      /\ UNCHANGED <<diag, arms, arm, mem, vic, bus, core3, report, clean>>
  BY DEF CaptureMap, At, Oracles
<1>2. TypeInv /\ CostInv
  BY DEF SentinelInv
<1>3. PICK p \in Phases, r \in Phases :
         /\ QuietHolds(p[1]) /\ MapHolds(p[2])
         /\ QuietRule(diag, p[1], Head(steps), r[1])
         /\ MapRule(diag, p[2], Head(steps), r[2])
         /\ Path(diag, Tail(steps), r, Ending(diag, arm.kind))
  BY <1>1, StepPhase
<1>4. r[1] = p[1] /\ QuietHolds(p[1])' /\ (diag = "baGuard" => bus.point = "configured")
  BY <1>1, <1>3, OracleQuiet, QuietKept
<1>5. PICK s \in Slots : s = Head(steps).slot
  BY <1>1, <1>2, HeadStep
<1>6. PICK misread \in SUBSET Cells :
         /\ Affordable(Charge(misread))
         /\ map' = [map EXCEPT ![Head(steps).slot] = Reading("target", misread, mem)]
         /\ fault' = [fault EXCEPT !.left = @ - Charge(misread), !.misread = @ \union misread]
  BY DEF CaptureMap
<1> DEFINE n == Charge(misread)
           seen == Reading("target", misread, mem)
<1>7. /\ n \in Nat /\ n <= fault.left
      /\ diag = "baGuard" => \A c \in misread : n >= 1
  BY <1>4, <1>6, CellSets, Charges DEF Affordable
<1>8. /\ seen \in SUBSET Cells
      /\ \A c \in Cells : c \notin misread => (c \in seen <=> mem[c] # "target")
      /\ \A c \in Cells : c \in seen /\ mem[c] = "target" => c \in misread
  BY ReadingShows
<1>9. /\ fault' \in [lost : SUBSET Cells, hit : SUBSET Cells, mended : SUBSET Cells,
                     misread : SUBSET Cells, left : Nat]
      /\ fault'.lost = fault.lost /\ fault'.hit = fault.hit /\ fault'.mended = fault.mended
      /\ fault'.misread = fault.misread \union misread /\ fault'.left = fault.left - n
  <2>1. fault.left \in Nat /\ fault.left - n \in Nat
    BY <1>2, <1>7 DEF TypeInv
  <2>2. /\ fault.lost \in SUBSET Cells /\ fault.hit \in SUBSET Cells
        /\ fault.mended \in SUBSET Cells /\ fault.misread \union misread \in SUBSET Cells
    BY <1>2 DEF TypeInv
  <2>3. fault' = [fault EXCEPT !.lost = fault.lost, !.hit = fault.hit, !.mended = fault.mended,
                    !.misread = fault.misread \union misread, !.left = fault.left - n]
    BY <1>2, <1>6 DEF TypeInv
  <2> HIDE DEF n
  <2> QED BY <1>2, <2>1, <2>2, <2>3, FaultFields
<1>10. map' = [map EXCEPT ![s] = seen]
  BY <1>5, <1>6
<1> HIDE DEF n, seen
<1>11. /\ (map \in [Slots -> SUBSET Cells])' /\ map'[s] = seen
       /\ \A x \in Slots : x # s => map'[x] = map[x]
  BY <1>2, <1>8, <1>10 DEF TypeInv
<1>12. Trusted' \subseteq Trusted /\ \A c \in Trusted' : c \in Cells /\ c \notin misread
  BY <1>9 DEF Trusted
<1>13. \A c \in Trusted' : c \in map'[s] <=> mem'[c] # "target"
  BY <1>1, <1>8, <1>11, <1>12
<1>14. TypeInv'
  <2>1. (steps \in Seq(Step))' /\ tries' = 0
    BY <1>1, <1>2, HeadStep DEF Pop
  <2> QED BY <1>1, <1>2, <1>9, <1>11, <2>1 DEF TypeInv
<1>15. fault.left \in Nat /\ fault.left <= MaxFaults /\ MaxFaults \in 0 .. 2
  BY <1>2, FaultAssumption DEF TypeInv, CostInv
<1>16. CostInv'
  BY <1>1, <1>7, <1>9, <1>15 DEF CostInv, Pop
<1>17. BaseSlot(diag) \in Slots /\ LastSlot(diag) \in Slots /\ BaseSlot(diag) # LastSlot(diag)
  BY DEF BaseSlot, LastSlot, Slots
<1>18. PICK b \in Slots, t \in Slots : b = BaseSlot(diag) /\ t = LastSlot(diag) /\ b # t
  BY <1>17
<1>19. BaseSlot(diag)' = b /\ LastSlot(diag)' = t /\ Complemented(diag)' = Complemented(diag)
  BY <1>1, <1>18
<1>20. \A x \in Slots : x # s =>
          /\ Current(x) => Current(x)'
          /\ Differs(x) => Differs(x)'
  <2> SUFFICES ASSUME NEW x \in Slots, x # s
               PROVE  (Current(x) => Current(x)') /\ (Differs(x) => Differs(x)')
    OBVIOUS
  <2>1. map'[x] = map[x]
    BY <1>11
  <2> QED BY <1>1, <1>9, <1>12, <2>1 DEF Current, Differs
<1>21. Fresh => Fresh'
  BY <1>1, <1>9 DEF Fresh
<1>22. Shown /\ (b # s \/ ~Complemented(diag)) => Shown'
  BY <1>1, <1>9, <1>11, <1>12, <1>18, <1>19 DEF Shown
<1>23. MapHolds(r[2])'
  <2>1. \/ r[2] = "any"
        \/ p[2] = "seeded" /\ r[2] = IF s = b THEN "based" ELSE "seeded"
        \/ p[2] = "based" /\ s # b /\ r[2] = "based"
        \/ p[2] \in {"based", "exposed"} /\ s = t /\ r[2] \in {"read", "kept"}
        \/ p[2] \in {"read", "kept"} /\ s \notin {b, t} /\ r[2] = p[2]
        \/ p[2] = "told" /\ ~Complemented(diag) /\ r[2] = "told"
        \/ s = 0 /\ r[2] = "level"
        \/ p[2] = "level" /\ s # 0 /\ r[2] = "level"
        \/ p[2] = "repaired" /\ s = 5 /\ r[2] = "rechecked"
        \/ diag = "baGuard" /\ p[2] = "struck" /\ s = 3 /\ r[2] = "one"
        \/ diag = "baGuard" /\ p[2] = "one" /\ s = 4 /\ r[2] = "two"
        \/ diag = "baGuard" /\ p[2] = "two" /\ s = 5 /\ r[2] = "three"
    BY <1>1, <1>3, <1>5, <1>18 DEF MapRule, Neutral
  <2>2. CASE r[2] = "any"
    BY <2>2 DEF MapHolds
  <2>3. CASE p[2] = "seeded" /\ r[2] = IF s = b THEN "based" ELSE "seeded"
    <3>1. Fresh /\ (Complemented(diag) => \A c \in fault.lost \cap Trusted : mem[c] # "target")
      BY <1>3, <2>3 DEF MapHolds
    <3>2. CASE s = b
      <4>1. Current(b)'
        BY <1>13, <3>2 DEF Current
      <4>2. Current(BaseSlot(diag))'
        BY <1>19, <4>1 DEF Current
      <4>3. Shown'
        BY <1>1, <1>9, <1>12, <1>13, <1>19, <3>1, <3>2 DEF Shown
      <4> QED BY <1>21, <2>3, <3>1, <3>2, <4>2, <4>3 DEF MapHolds
    <3>3. CASE s # b
      <4>1. (Complemented(diag) => \A c \in fault.lost \cap Trusted : mem[c] # "target")'
        BY <1>1, <1>9, <1>12, <3>1
      <4> QED BY <1>21, <2>3, <3>1, <3>3, <4>1 DEF MapHolds
    <3> QED BY <3>2, <3>3
  <2>4. CASE p[2] = "based" /\ s # b /\ r[2] = "based"
    <3>1. Fresh /\ Current(b) /\ Shown
      BY <1>3, <1>18, <2>4 DEF MapHolds
    <3>2. Current(b)' /\ Shown' /\ Fresh'
      BY <1>20, <1>21, <1>22, <2>4, <3>1
    <3>3. Current(BaseSlot(diag))'
      BY <1>19, <3>2 DEF Current
    <3> QED BY <2>4, <3>2, <3>3 DEF MapHolds
  <2>5. CASE p[2] \in {"based", "exposed"} /\ s = t /\ r[2] \in {"read", "kept"}
    <3>1. report = <<>> /\ Differs(b) /\ Shown
      <4>1. CASE p[2] = "based"
        <5>1. Fresh /\ Current(b) /\ Shown
          BY <1>3, <1>18, <4>1 DEF MapHolds
        <5> QED BY <5>1 DEF Fresh, Current, Differs
      <4>2. CASE p[2] = "exposed"
        BY <1>3, <1>18, <4>2 DEF MapHolds
      <4> QED BY <2>5, <4>1, <4>2
    <3>2. report' = <<>> /\ Differs(b)' /\ Shown'
      BY <1>1, <1>18, <1>20, <1>22, <2>5, <3>1
    <3>3. Differs(BaseSlot(diag))' /\ Current(LastSlot(diag))'
      BY <1>13, <1>19, <2>5, <3>2 DEF Differs, Current
    <3> QED BY <2>5, <3>2, <3>3 DEF MapHolds
  <2>6. CASE p[2] \in {"read", "kept"} /\ s \notin {b, t} /\ r[2] = p[2]
    <3>1. (p[2] = "read" => report = <<>>) /\ Differs(b) /\ Shown /\ Current(t)
      BY <1>3, <1>18, <2>6 DEF MapHolds
    <3>2. (p[2] = "read" => report' = <<>>) /\ Differs(b)' /\ Shown' /\ Current(t)'
      BY <1>1, <1>20, <1>22, <2>6, <3>1
    <3>3. Differs(BaseSlot(diag))' /\ Current(LastSlot(diag))'
      BY <1>19, <3>2 DEF Differs, Current
    <3> QED BY <2>6, <3>2, <3>3 DEF MapHolds
  <2>7. CASE p[2] = "told" /\ ~Complemented(diag) /\ r[2] = "told"
    <3>1. Told /\ Shown
      BY <1>3, <2>7 DEF MapHolds
    <3>2. Told' /\ Shown'
      BY <1>1, <1>9, <1>12, <1>22, <2>7, <3>1 DEF Told
    <3> QED BY <2>7, <3>2 DEF MapHolds
  <2>8. CASE s = 0 /\ r[2] = "level"
    <3>1. Current(0)'
      BY <1>13, <2>8 DEF Current
    <3> QED BY <2>8, <3>1 DEF MapHolds
  <2>9. CASE p[2] = "level" /\ s # 0 /\ r[2] = "level"
    <3>1. Current(0) /\ 0 \in Slots
      BY <1>3, <2>9 DEF MapHolds, Slots
    <3>2. Current(0)'
      BY <1>20, <2>9, <3>1
    <3> QED BY <2>9, <3>2 DEF MapHolds
  <2>10. CASE p[2] = "repaired" /\ s = 5 /\ r[2] = "rechecked"
    <3>1. \A c \in Trusted : mem[c] # "target" => c \in fault.lost
      BY <1>3, <2>10 DEF MapHolds
    <3>2. (map[5] \cap Trusted \subseteq fault.lost)'
      BY <1>1, <1>9, <1>12, <1>13, <2>10, <3>1
    <3> QED BY <2>10, <3>2 DEF MapHolds
  <2>11. ASSUME diag = "baGuard", s \in {3, 4, 5}, Struck
         PROVE  /\ Struck' /\ BaseAny' = BaseAny
                /\ \A c \in Cells :
                     c \notin BaseAny /\ c \notin fault.hit /\ c \in map'[s] => n >= 1
    <3>1. map'[0] = map[0] /\ map'[1] = map[1] /\ map'[2] = map[2]
      BY <1>11, <2>11 DEF Slots
    <3>2. BaseAny' = BaseAny
      BY <3>1 DEF BaseAny
    <3>3. ASSUME NEW c \in Cells, c \notin BaseAny, c \notin fault.hit, c \in map'[s]
          PROVE  n >= 1
      <4>1. mem[c] = "target"
        BY <2>11, <3>3 DEF Struck, Sure
      <4>2. c \in misread
        BY <1>8, <1>11, <3>3, <4>1
      <4> QED BY <1>7, <2>11, <4>2
    <3>4. Struck'
      BY <1>1, <1>9, <1>12, <2>11, <3>2 DEF Struck, Sure
    <3> QED BY <3>2, <3>3, <3>4
  <2>12. CASE diag = "baGuard" /\ p[2] = "struck" /\ s = 3 /\ r[2] = "one"
    <3>1. Struck
      BY <1>3, <2>12 DEF MapHolds
    <3>2. Costs({3}, 1)'
      BY <1>7, <1>9, <1>15, <2>11, <2>12, <3>1 DEF Costs
    <3>3. Current(3)'
      BY <1>13, <2>12 DEF Current
    <3>4. Struck'
      BY <2>11, <2>12, <3>1
    <3> QED BY <2>12, <3>2, <3>3, <3>4 DEF MapHolds
  <2>13. CASE diag = "baGuard" /\ p[2] = "one" /\ s = 4 /\ r[2] = "two"
    <3>1. Struck /\ Costs({3}, 1) /\ Current(3)
      BY <1>3, <2>13 DEF MapHolds
    <3>2. Costs({3, 4}, 2)'
      <4>1. map'[3] = map[3]
        BY <1>11, <2>13 DEF Slots
      <4> QED BY <1>7, <1>9, <1>15, <2>11, <2>13, <3>1, <4>1 DEF Costs
    <3>3. Current(4)'
      BY <1>13, <2>13 DEF Current
    <3>4. Current(3)'
      BY <1>20, <2>13, <3>1 DEF Slots
    <3>5. Struck'
      BY <2>11, <2>13, <3>1
    <3> QED BY <2>13, <3>2, <3>3, <3>4, <3>5 DEF MapHolds
  <2>14. CASE diag = "baGuard" /\ p[2] = "two" /\ s = 5 /\ r[2] = "three"
    <3>1. Struck /\ Costs({3, 4}, 2) /\ Current(3) /\ Current(4)
      BY <1>3, <2>14 DEF MapHolds
    <3>2. Costs({3, 4, 5}, 3)'
      <4>1. map'[3] = map[3] /\ map'[4] = map[4]
        BY <1>11, <2>14 DEF Slots
      <4>2. BaseAny' = BaseAny /\ fault'.hit = fault.hit
        BY <1>9, <2>11, <2>14, <3>1
      <4>3. ASSUME NEW c \in Cells, c \notin BaseAny, c \notin fault.hit,
                   c \in map'[3], c \in map'[4], c \in map'[5]
            PROVE  fault'.left + 3 <= MaxFaults
        <5>1. n >= 1
          BY <2>11, <2>14, <3>1, <4>3
        <5>2. fault.left + 2 <= MaxFaults
          BY <3>1, <4>1, <4>3 DEF Costs
        <5> QED BY <1>7, <1>9, <1>15, <5>1, <5>2
      <4> QED BY <4>2, <4>3 DEF Costs
    <3>3. Current(5)'
      BY <1>13, <2>14 DEF Current
    <3>4. Current(3)' /\ Current(4)'
      BY <1>20, <2>14, <3>1 DEF Slots
    <3>5. Struck'
      BY <2>11, <2>14, <3>1
    <3> QED BY <2>14, <3>2, <3>3, <3>4, <3>5 DEF MapHolds
  <2> QED BY <2>1, <2>2, <2>3, <2>4, <2>5, <2>6, <2>7, <2>8, <2>9, <2>10, <2>12, <2>13, <2>14
<1>24. FirstInv' /\ PhaseInv'
  BY <1>1, <1>3, <1>4, <1>23, Popped
<1> QED BY <1>14, <1>16, <1>24 DEF SentinelInv

\* A comparison of the first map after with the one before tells the damage.
LEMMA CompareMapsInv == SentinelInv /\ CompareMaps => SentinelInv'
<1> SUFFICES ASSUME SentinelInv, CompareMaps PROVE SentinelInv'
  OBVIOUS
<1>1. /\ steps # <<>> /\ Head(steps).do = "compare" /\ Pop
      /\ UNCHANGED <<diag, arms, arm, mem, vic, bus, core3, map, clean, fault>>
  BY DEF CompareMaps, At
<1>2. TypeInv /\ CostInv
  BY DEF SentinelInv
<1>3. PICK p \in Phases, r \in Phases :
         /\ QuietHolds(p[1]) /\ MapHolds(p[2])
         /\ QuietRule(diag, p[1], Head(steps), r[1])
         /\ MapRule(diag, p[2], Head(steps), r[2])
         /\ Path(diag, Tail(steps), r, Ending(diag, arm.kind))
  BY <1>1, StepPhase
<1>4. r[1] = p[1] /\ QuietHolds(p[1])'
  BY <1>1, <1>3, QuietKept DEF QuietRule, Oracles
<1>5. PICK b \in Slots, t \in Slots : b = Head(steps).before /\ t = Head(steps).after
  BY <1>1, <1>2, HeadStep
<1>6. PICK e \in [added : SUBSET Cells, removed : SUBSET Cells] :
         e.added = map[t] \ map[b] /\ e.removed = map[b] \ map[t]
  <2> DEFINE e == [added |-> map[t] \ map[b], removed |-> map[b] \ map[t]]
  <2>1. e \in [added : SUBSET Cells, removed : SUBSET Cells]
    BY <1>2, <1>5 DEF TypeInv
  <2> QED BY <2>1
<1>7. report' = Append(report, e)
  <2>1. e = [added |-> map[t] \ map[b], removed |-> map[b] \ map[t]]
    BY <1>6
  <2> QED BY <1>5, <2>1 DEF CompareMaps
<1>8. report \in Seq([added : SUBSET Cells, removed : SUBSET Cells])
  BY <1>2 DEF TypeInv
<1>9. /\ report' \in Seq([added : SUBSET Cells, removed : SUBSET Cells])
      /\ Len(report') >= 1
      /\ report = <<>> => report'[1] = e
      /\ Len(report) >= 1 => report'[1] = report[1]
  BY <1>7, <1>8
<1>10. TypeInv'
  <2>1. (steps \in Seq(Step))' /\ tries' = 0
    BY <1>1, <1>2, HeadStep DEF Pop
  <2> QED BY <1>1, <1>2, <1>9, <2>1 DEF TypeInv
<1>11. CostInv'
  BY <1>1, <1>2, FaultAssumption DEF CostInv, Pop, TypeInv
<1>12. MapHolds(r[2])'
  <2>1. \/ r[2] = "any"
        \/ p[2] = "read" /\ diag # "baGuard" /\ r[2] = "told"
             /\ b = BaseSlot(diag) /\ t = LastSlot(diag)
        \/ p[2] \in {"told", "kept", "level", "rechecked"} /\ r[2] = p[2]
        \/ p[2] = "read" /\ r[2] = "kept"
    BY <1>1, <1>3, <1>5 DEF MapRule, Neutral
  <2>2. CASE r[2] = "any"
    BY <2>2 DEF MapHolds
  <2>3. CASE p[2] = "read" /\ diag # "baGuard" /\ r[2] = "told"
               /\ b = BaseSlot(diag) /\ t = LastSlot(diag)
    <3>1. report = <<>> /\ Differs(b) /\ Shown /\ Current(t)
      BY <1>3, <2>3 DEF MapHolds
    <3>2. /\ \A c \in Trusted : c \in fault.hit <=> c \in e.added
          /\ \A c \in Trusted : c \in fault.mended <=> c \in e.removed
      <4>1. Trusted \subseteq Cells /\ map[b] \subseteq Cells /\ map[t] \subseteq Cells
        BY <1>2 DEF Trusted, TypeInv
      <4> QED BY <1>6, <3>1, <4>1 DEF Differs, Current
    <3>3. Told'
      BY <1>1, <1>9, <2>3, <3>1, <3>2 DEF Told, Trusted
    <3>4. Shown'
      BY <1>1, <3>1 DEF Shown, Trusted
    <3> QED BY <2>3, <3>3, <3>4 DEF MapHolds
  <2>4. CASE p[2] = "told" /\ r[2] = "told"
    <3>1. Told /\ Shown
      BY <1>3, <2>4 DEF MapHolds
    <3>2. Told' /\ Shown'
      BY <1>1, <1>9, <3>1 DEF Told, Shown, Trusted
    <3> QED BY <2>4, <3>2 DEF MapHolds
  <2>5. /\ Current(LastSlot(diag)) => Current(LastSlot(diag))'
        /\ Differs(BaseSlot(diag)) => Differs(BaseSlot(diag))'
        /\ Shown => Shown'
        /\ Current(0) => Current(0)'
        /\ map[5] \cap Trusted \subseteq fault.lost =>
             (map[5] \cap Trusted \subseteq fault.lost)'
    BY <1>1 DEF Differs, Current, Shown, Trusted
  <2>6. CASE p[2] \in {"kept", "read"} /\ r[2] = "kept"
    <3>1. Differs(BaseSlot(diag)) /\ Shown /\ Current(LastSlot(diag))
      BY <1>3, <2>6 DEF MapHolds
    <3>2. (Differs(BaseSlot(diag)) /\ Shown /\ Current(LastSlot(diag)))'
      BY <2>5, <3>1
    <3>3. r[2] = "kept"
      BY <2>6
    <3> QED BY <3>2, <3>3 DEF MapHolds
  <2>7. CASE p[2] = "level" /\ r[2] = "level"
    <3>1. Current(0)
      BY <1>3, <2>7 DEF MapHolds
    <3>2. Current(0)' /\ r[2] = "level"
      BY <2>5, <2>7, <3>1
    <3> QED BY <3>2 DEF MapHolds
  <2>8. CASE p[2] = "rechecked" /\ r[2] = "rechecked"
    BY <1>3, <2>5, <2>8 DEF MapHolds
  <2> QED BY <2>1, <2>2, <2>3, <2>4, <2>6, <2>7, <2>8
<1>13. FirstInv' /\ PhaseInv'
  BY <1>1, <1>3, <1>4, <1>12, Popped
<1> QED BY <1>10, <1>11, <1>13 DEF SentinelInv

\* The BA guard's verdict: three wrong readings of a cell that is right are too many.
LEMMA PersistentAddedInv == SentinelInv /\ PersistentAdded => SentinelInv'
<1> SUFFICES ASSUME SentinelInv, PersistentAdded PROVE SentinelInv'
  OBVIOUS
<1>1. /\ steps # <<>> /\ Head(steps).do = "persistent" /\ Pop
      /\ UNCHANGED <<diag, arms, arm, mem, vic, bus, core3, map, clean, fault>>
  BY DEF PersistentAdded, At
<1>2. TypeInv /\ CostInv
  BY DEF SentinelInv
<1>3. PICK p \in Phases, r \in Phases :
         /\ QuietHolds(p[1]) /\ MapHolds(p[2])
         /\ QuietRule(diag, p[1], Head(steps), r[1])
         /\ MapRule(diag, p[2], Head(steps), r[2])
         /\ Path(diag, Tail(steps), r, Ending(diag, arm.kind))
  BY <1>1, StepPhase
<1>4. r[1] = p[1] /\ QuietHolds(p[1])'
  BY <1>1, <1>3, QuietKept DEF QuietRule, Oracles
<1>5. PICK e \in [added : SUBSET Cells, removed : SUBSET Cells] :
         e.added = (map[3] \cap map[4] \cap map[5]) \ BaseAny /\ e.removed = {}
           /\ report' = Append(report, e)
  <2> DEFINE e == [added |-> (map[3] \cap map[4] \cap map[5]) \ BaseAny, removed |-> {}]
  <2>1. e \in [added : SUBSET Cells, removed : SUBSET Cells]
    BY <1>2 DEF TypeInv, Slots
  <2>2. report' = Append(report, e)
    BY DEF PersistentAdded
  <2> QED BY <2>1, <2>2
<1>6. report \in Seq([added : SUBSET Cells, removed : SUBSET Cells])
  BY <1>2 DEF TypeInv
<1>7. /\ report' \in Seq([added : SUBSET Cells, removed : SUBSET Cells])
      /\ Len(report') >= 1 /\ (report = <<>> => report'[1] = e)
  BY <1>5, <1>6
<1>8. TypeInv'
  <2>1. (steps \in Seq(Step))' /\ tries' = 0
    BY <1>1, <1>2, HeadStep DEF Pop
  <2> QED BY <1>1, <1>2, <1>7, <2>1 DEF TypeInv
<1>9. CostInv'
  BY <1>1, <1>2, FaultAssumption DEF CostInv, Pop, TypeInv
<1>10. MapHolds(r[2])'
  <2>1. r[2] = "any" \/ (p[2] = "three" /\ diag = "baGuard" /\ r[2] = "told")
    BY <1>1, <1>3 DEF MapRule, Neutral
  <2>2. CASE r[2] = "any"
    BY <2>2 DEF MapHolds
  <2>3. CASE p[2] = "three" /\ diag = "baGuard" /\ r[2] = "told"
    <3>1. Struck /\ Costs({3, 4, 5}, 3) /\ Current(3) /\ Current(4) /\ Current(5)
      BY <1>3, <2>3 DEF MapHolds
    <3>2. fault.left \in Nat /\ MaxFaults \in 0 .. 2
      BY <1>2, FaultAssumption DEF TypeInv
    <3>3. map[3] \subseteq Cells /\ map[4] \subseteq Cells /\ map[5] \subseteq Cells
      BY <1>2 DEF TypeInv, Slots
    <3>4. e.added \subseteq fault.hit
      <4> SUFFICES ASSUME NEW c \in e.added, c \notin fault.hit PROVE FALSE
        OBVIOUS
      <4>1. c \in Cells /\ c \notin BaseAny /\ \A x \in {3, 4, 5} : c \in map[x]
        BY <1>5, <3>3
      <4>2. fault.left + 3 <= MaxFaults
        BY <3>1, <4>1 DEF Costs
      <4> QED BY <3>2, <4>2
    <3>5. \A c \in Trusted : c \in e.added <=> c \in fault.hit
      BY <1>5, <3>1 DEF Struck, Current
    <3>6. report = <<>> /\ fault.mended = {}
      BY <3>1 DEF Struck
    <3>7. Told'
      BY <1>1, <1>5, <1>7, <3>4, <3>5, <3>6 DEF Told, Trusted
    <3>8. Shown'
      BY <1>1, <2>3 DEF Shown, Complemented, RefreshKinds
    <3> QED BY <2>3, <3>7, <3>8 DEF MapHolds
  <2> QED BY <2>1, <2>2, <2>3
<1>11. FirstInv' /\ PhaseInv'
  BY <1>1, <1>3, <1>4, <1>10, Popped
<1> QED BY <1>8, <1>9, <1>11 DEF SentinelInv

\* The exposure is the only thing that damages the pattern after the baseline.
LEMMA ExposeCellsInv == SentinelInv /\ ExposeCells => SentinelInv'
<1> SUFFICES ASSUME SentinelInv, ExposeCells PROVE SentinelInv'
  OBVIOUS
<1>1. /\ steps # <<>> /\ Head(steps).do = "expose" /\ Pop
      /\ UNCHANGED <<diag, arms, arm, vic, bus, core3, map, report, clean>>
  BY DEF ExposeCells, At
<1>2. TypeInv /\ CostInv
  BY DEF SentinelInv
<1>3. PICK p \in Phases, r \in Phases :
         /\ QuietHolds(p[1]) /\ MapHolds(p[2])
         /\ QuietRule(diag, p[1], Head(steps), r[1])
         /\ MapRule(diag, p[2], Head(steps), r[2])
         /\ Path(diag, Tail(steps), r, Ending(diag, arm.kind))
  BY <1>1, StepPhase
<1>4. r[1] = p[1] /\ QuietHolds(p[1])'
  BY <1>1, <1>3, QuietKept DEF QuietRule, Oracles
<1>5. PICK damaged \in SUBSET Cells, scrubbed \in SUBSET Cells :
         /\ Head(steps).op # "scrub" => scrubbed = {}
         /\ Affordable(Cardinality(damaged))
         /\ mem' = [c \in Cells |-> IF c \in scrubbed THEN "target"
                                    ELSE IF c \in damaged THEN "wrong" ELSE mem[c]]
         /\ fault' = [fault EXCEPT !.left = @ - Cardinality(damaged),
              !.hit = @ \union ((damaged \ scrubbed) \cap {c \in Cells : mem[c] = "target"}),
              !.mended = @ \union {c \in scrubbed : mem[c] # "target"}]
  <2>1. (IF Head(steps).op = "scrub" THEN SUBSET Cells ELSE {{}}) \subseteq SUBSET Cells
    OBVIOUS
  <2> QED BY <2>1 DEF ExposeCells
<1> DEFINE hit == (damaged \ scrubbed) \cap {c \in Cells : mem[c] = "target"}
           mended == {c \in scrubbed : mem[c] # "target"}
<1>6. /\ Cardinality(damaged) \in Nat /\ Cardinality(damaged) <= fault.left
      /\ hit \in SUBSET Cells /\ mended \in SUBSET Cells
      /\ \A c \in Cells : c \in hit <=> c \in damaged /\ c \notin scrubbed /\ mem[c] = "target"
      /\ \A c \in Cells : c \in mended <=> c \in scrubbed /\ mem[c] # "target"
  BY <1>5, CellSets DEF Affordable
<1>7. /\ fault' \in [lost : SUBSET Cells, hit : SUBSET Cells, mended : SUBSET Cells,
                     misread : SUBSET Cells, left : Nat]
      /\ fault'.lost = fault.lost /\ fault'.hit = fault.hit \union hit
      /\ fault'.mended = fault.mended \union mended
      /\ fault'.misread = fault.misread /\ fault'.left = fault.left - Cardinality(damaged)
  <2>1. /\ fault.left - Cardinality(damaged) \in Nat /\ fault.lost \in SUBSET Cells
        /\ fault.hit \union hit \in SUBSET Cells /\ fault.mended \union mended \in SUBSET Cells
        /\ fault.misread \in SUBSET Cells
    BY <1>2, <1>6 DEF TypeInv
  <2>2. fault' = [fault EXCEPT !.left = fault.left - Cardinality(damaged),
                    !.hit = fault.hit \union hit, !.mended = fault.mended \union mended]
    BY <1>5
  <2> HIDE DEF hit, mended
  <2>3. fault' = [fault EXCEPT !.lost = fault.lost, !.hit = fault.hit \union hit,
                    !.mended = fault.mended \union mended,
                    !.misread = fault.misread, !.left = fault.left - Cardinality(damaged)]
    BY <1>2, <2>2 DEF TypeInv
  <2> QED BY <1>2, <2>1, <2>3, FaultFields
<1> HIDE DEF hit, mended
<1>8. TypeInv'
  <2>1. (steps \in Seq(Step))' /\ tries' = 0
    BY <1>1, <1>2, HeadStep DEF Pop
  <2>2. (mem \in [Cells -> {"wrong", "complement", "target"}])'
    BY <1>2, <1>5 DEF TypeInv
  <2> QED BY <1>1, <1>2, <1>7, <2>1, <2>2 DEF TypeInv
<1>9. CostInv'
  BY <1>1, <1>2, <1>6, <1>7, FaultAssumption DEF CostInv, Pop, TypeInv
<1>10. Trusted' = Trusted /\ Trusted \subseteq Cells
  BY <1>7 DEF Trusted
<1>11. \A c \in Cells :
          /\ c \in hit => mem'[c] = "wrong"
          /\ c \in scrubbed => mem'[c] = "target"
          /\ c \notin hit /\ mem[c] = "target" => mem'[c] = "target"
          /\ c \notin scrubbed /\ mem[c] # "target" => mem'[c] # "target"
  BY <1>5, <1>6
<1>12. MapHolds(r[2])'
  <2>1. \/ r[2] = "any"
        \/ p[2] = "based" /\ r[2] = "exposed"
        \/ p[2] = "tripled" /\ Head(steps).op # "scrub" /\ r[2] = "struck"
    BY <1>1, <1>3 DEF MapRule, Neutral
  <2>2. CASE r[2] = "any"
    BY <2>2 DEF MapHolds
  <2>3. CASE p[2] = "based" /\ r[2] = "exposed"
    <3>1. Fresh /\ Current(BaseSlot(diag)) /\ Shown
      BY <1>3, <2>3 DEF MapHolds
    <3>2. fault'.hit = hit /\ fault'.mended = mended /\ report' = <<>>
      BY <1>1, <1>7, <3>1 DEF Fresh
    <3>3. PICK b : b = BaseSlot(diag)
      OBVIOUS
    <3>4. ASSUME NEW c \in Trusted
          PROVE  /\ c \in hit <=> c \notin map[b] /\ mem'[c] # "target"
                 /\ c \in mended <=> c \in map[b] /\ mem'[c] = "target"
      <4>1. c \in Cells /\ (c \in map[b] <=> mem[c] # "target")
        BY <1>10, <3>1, <3>3 DEF Current
      <4> QED BY <1>6, <1>11, <4>1
    <3>5. Differs(BaseSlot(diag))'
      BY <1>1, <1>10, <3>2, <3>3, <3>4 DEF Differs
    <3>6. Shown'
      BY <1>1, <1>7, <1>10, <3>1 DEF Shown
    <3> QED BY <2>3, <3>2, <3>5, <3>6 DEF MapHolds
  <2>4. CASE p[2] = "tripled" /\ Head(steps).op # "scrub" /\ r[2] = "struck"
    <3>1. Fresh /\ Sure /\ \A c \in Trusted : c \in BaseAny <=> mem[c] # "target"
      BY <1>3, <2>4 DEF MapHolds
    <3>2. scrubbed = {} /\ mended = {}
      BY <1>5, <2>4 DEF mended
    <3>3. fault'.hit = hit /\ fault'.mended = {} /\ report' = <<>> /\ fault.hit = {}
      BY <1>1, <1>7, <3>1, <3>2 DEF Fresh
    <3>4. BaseAny' = BaseAny
      BY <1>1 DEF BaseAny
    <3>5. Sure'
      BY <1>11, <3>1, <3>3, <3>4 DEF Sure
    <3>6. ASSUME NEW c \in Trusted
          PROVE  c \in hit <=> c \notin BaseAny /\ mem'[c] # "target"
      <4>1. c \in Cells /\ (c \in BaseAny <=> mem[c] # "target")
        BY <1>10, <3>1
      <4> QED BY <1>6, <1>11, <3>2, <4>1
    <3>7. Struck'
      BY <1>10, <3>3, <3>4, <3>5, <3>6 DEF Struck
    <3> QED BY <2>4, <3>7 DEF MapHolds
  <2> QED BY <2>1, <2>2, <2>3, <2>4
<1>13. FirstInv' /\ PhaseInv'
  BY <1>1, <1>3, <1>4, <1>12, Popped
<1> QED BY <1>8, <1>9, <1>13 DEF SentinelInv

\* After the repair only a cell whose repair was lost is wrong.
LEMMA RepairCellsInv == SentinelInv /\ RepairCells => SentinelInv'
<1> SUFFICES ASSUME SentinelInv, RepairCells PROVE SentinelInv'
  OBVIOUS
<1>1. /\ steps # <<>> /\ Head(steps).do = "repair" /\ Head(steps).do \in Oracles /\ Pop
      /\ UNCHANGED <<diag, arms, arm, vic, bus, core3, map, report, clean>>
  BY DEF RepairCells, At, Oracles
<1>2. TypeInv /\ CostInv
  BY DEF SentinelInv
<1>3. PICK p \in Phases, r \in Phases :
         /\ QuietHolds(p[1]) /\ MapHolds(p[2])
         /\ QuietRule(diag, p[1], Head(steps), r[1])
         /\ MapRule(diag, p[2], Head(steps), r[2])
         /\ Path(diag, Tail(steps), r, Ending(diag, arm.kind))
  BY <1>1, StepPhase
<1>4. r[1] = p[1] /\ QuietHolds(p[1])'
  BY <1>1, <1>3, OracleQuiet, QuietKept
<1>5. map[0] \in SUBSET Cells
  BY <1>2 DEF TypeInv, Slots
<1>6. PICK lost \in SUBSET map[0] :
         /\ Affordable(Cardinality(lost))
         /\ mem' = [c \in Cells |-> IF c \in map[0] \ lost THEN "target" ELSE mem[c]]
         /\ fault' = [fault EXCEPT !.left = @ - Cardinality(lost),
                                   !.lost = (@ \ map[0]) \union lost]
  BY DEF RepairCells
<1>7. lost \in SUBSET Cells /\ Cardinality(lost) \in Nat /\ Cardinality(lost) <= fault.left
  <2>1. lost \in SUBSET Cells
    BY <1>5
  <2> QED BY <1>6, <2>1, CellSets DEF Affordable
<1>8. /\ fault' \in [lost : SUBSET Cells, hit : SUBSET Cells, mended : SUBSET Cells,
                     misread : SUBSET Cells, left : Nat]
      /\ fault'.misread = fault.misread /\ fault'.left = fault.left - Cardinality(lost)
      /\ fault'.lost = (fault.lost \ map[0]) \union lost
  <2>1. fault.left - Cardinality(lost) \in Nat /\ fault.hit \in SUBSET Cells
          /\ fault.mended \in SUBSET Cells /\ fault.misread \in SUBSET Cells
          /\ (fault.lost \ map[0]) \union lost \in SUBSET Cells
    BY <1>2, <1>7 DEF TypeInv
  <2>2. fault' = [fault EXCEPT !.lost = (fault.lost \ map[0]) \union lost, !.hit = fault.hit,
                    !.mended = fault.mended, !.misread = fault.misread,
                    !.left = fault.left - Cardinality(lost)]
    BY <1>2, <1>6 DEF TypeInv
  <2> QED BY <1>2, <2>1, <2>2, FaultFields
<1>9. TypeInv'
  <2>1. (steps \in Seq(Step))' /\ tries' = 0
    BY <1>1, <1>2, HeadStep DEF Pop
  <2>2. (mem \in [Cells -> {"wrong", "complement", "target"}])'
    BY <1>2, <1>6 DEF TypeInv
  <2> QED BY <1>1, <1>2, <1>8, <2>1, <2>2 DEF TypeInv
<1>10. CostInv'
  BY <1>1, <1>2, <1>7, <1>8, FaultAssumption DEF CostInv, Pop, TypeInv
<1>11. MapHolds(r[2])'
  <2>1. r[2] = "any" \/ (p[2] = "level" /\ r[2] = "repaired")
    BY <1>1, <1>3 DEF MapRule, Neutral
  <2>2. CASE r[2] = "any"
    BY <2>2 DEF MapHolds
  <2>3. CASE p[2] = "level" /\ r[2] = "repaired"
    <3>1. Current(0)
      BY <1>3, <2>3 DEF MapHolds
    <3>2. ASSUME NEW c \in Cells, c \notin fault.misread, mem'[c] # "target"
          PROVE  c \in lost
      BY <1>6, <3>1, <3>2 DEF Current, Trusted
    <3>3. (\A c \in Trusted : mem[c] # "target" => c \in fault.lost)'
      BY <1>8, <3>2 DEF Trusted
    <3> QED BY <2>3, <3>3 DEF MapHolds
  <2> QED BY <2>1, <2>2, <2>3
<1>12. FirstInv' /\ PhaseInv'
  BY <1>1, <1>3, <1>4, <1>11, Popped
<1> QED BY <1>9, <1>10, <1>12 DEF SentinelInv

\* Every step keeps the invariant.
LEMMA NextInv == SentinelInv /\ [Next]_vars => SentinelInv'
<1> SUFFICES ASSUME SentinelInv, [Next]_vars PROVE SentinelInv'
  OBVIOUS
<1>1. CASE Next
  BY <1>1, NextArmInv, SetModeInv, PrefillCellsInv, SeedTargetInv, SeedVerifiedInv,
     SeedThreefoldInv, CaptureMapInv, CompareMapsInv, PersistentAddedInv, ExposeCellsInv,
     WaitRasterInv, SetBusInv, StartRefreshInv, StopRefreshInv, RepairCellsInv,
     JudgeImmediateInv, Core3TakesInv, Core3QuitsInv DEF Next
<1>2. CASE UNCHANGED vars
  BY <1>2, Core3Inv DEF vars, SentinelInv, TypeInv, Stopped
<1> QED BY <1>1, <1>2

\* The invariant holds.
LEMMA SentinelInvHolds == Spec => []SentinelInv
BY InitInv, NextInv, PTL DEF Spec

--------------------------------------------------------------------------------
(* The theorems.                                                              *)

\* Every seed, reading and repair of the diagnostics is made with the picture
\* off, the production write timing, R/W floating, core 3 stopped and, but for
\* the sweep, at the calibrated point; and a diagnostic leaves the bus so.
THEOREM OraclesQuiet == Spec => []QuietOracle
<1>1. SentinelInv => QuietOracle
  <2> SUFFICES ASSUME SentinelInv PROVE QuietOracle
    OBVIOUS
  <2>1. ASSUME steps # <<>>, Head(steps).do \in Oracles
        PROVE  /\ diag # "access" => Quiet
               /\ Head(steps).do \in Oracles \ {"capture"} => bus.point = "configured"
    <3>1. PICK p \in Phases, r \in Phases :
            QuietHolds(p[1]) /\ QuietRule(diag, p[1], Head(steps), r[1])
      BY <2>1, StepPhase
    <3> QED BY <2>1, <3>1, OracleQuiet
  <2>2. ASSUME Done
        PROVE  /\ bus.point = "configured" /\ ~core3.requested /\ ~core3.continuous
               /\ diag = "access" \/ Quiet
    <3>1. arm.kind # "none" /\ steps = <<>>
      BY <2>2 DEF SentinelInv, FirstInv, Done
    <3>2. PICK p \in Phases : QuietHolds(p[1]) /\ Path(diag, <<>>, p, Ending(diag, arm.kind))
      BY <3>1 DEF SentinelInv, PhaseInv
    <3>3. p[1] = IF diag = "access" THEN "open" ELSE "quiet"
      BY <3>1, <3>2, PathNil DEF Ending, QuietEnd
    <3> QED BY <3>2, <3>3 DEF QuietHolds, Stopped, Quiet
  <2> QED BY <2>1, <2>2 DEF QuietOracle
<1> QED BY <1>1, SentinelInvHolds, PTL

\* Among the cells that were never misread the diagnostics blame the exposure
\* for exactly what it damaged.
THEOREM VerdictsRight == Spec => []DamageAttributed
<1>1. SentinelInv => DamageAttributed
  <2> SUFFICES ASSUME SentinelInv, ArmEnds
               PROVE  /\ Comparing => report[1].added \cap Trusted = fault.hit \cap Trusted
                      /\ Comparing => report[1].removed \cap Trusted = fault.mended \cap Trusted
                      /\ Keeping => (map[Kept[2]] \ map[Kept[1]]) \cap Trusted = fault.hit \cap Trusted
                      /\ diag = "timing" => map[5] \cap Trusted \subseteq fault.lost
                      /\ Prefilled => fault.lost \cap Trusted \subseteq
                                         map[IF diag \in {"fetch", "persistence"} THEN 1 ELSE 0]
                      /\ diag = "baGuard" => report[1].added \subseteq fault.hit
    BY DEF DamageAttributed
  <2>1. steps = <<>> /\ arm.kind \notin {"none", "end"}
    BY DEF ArmEnds
  <2>2. PICK p \in Phases : MapHolds(p[2]) /\ Path(diag, <<>>, p, Ending(diag, arm.kind))
    BY <2>1 DEF SentinelInv, PhaseInv
  <2>3. p[2] = MapEnd(diag, arm.kind)
    BY <2>2, PathNil DEF Ending
  <2>4. CASE Comparing
    <3>1. p[2] = "told"
      BY <2>1, <2>3, <2>4 DEF MapEnd, Comparing, RefreshKinds
    <3>2. Told /\ Shown
      BY <2>2, <3>1 DEF MapHolds
    <3> QED BY <2>4, <3>2 DEF Told, Shown, Comparing, Keeping, Prefilled, Complemented,
                              BaseSlot, RefreshKinds
  <2>5. CASE Keeping
    <3>1. p[2] = "kept"
      BY <2>1, <2>3, <2>5 DEF MapEnd, Keeping, RefreshKinds
    <3>2. Differs(BaseSlot(diag)) /\ Shown /\ Current(LastSlot(diag))
      BY <2>2, <3>1 DEF MapHolds
    <3>3. Kept[1] = BaseSlot(diag) /\ Kept[2] = LastSlot(diag)
      BY <2>5 DEF Kept, BaseSlot, LastSlot, Keeping
    <3>4. \A c \in Trusted : c \in map[Kept[2]] /\ c \notin map[Kept[1]] <=> c \in fault.hit
      BY <3>2, <3>3 DEF Differs, Current
    <3>5. (map[Kept[2]] \ map[Kept[1]]) \cap Trusted = fault.hit \cap Trusted
      BY <3>4
    <3> QED BY <2>5, <3>2, <3>5 DEF Shown, Comparing, Keeping, Prefilled, Complemented,
                              BaseSlot, RefreshKinds
  <2>6. CASE diag = "timing"
    <3>1. p[2] = "rechecked"
      BY <2>1, <2>3, <2>6 DEF MapEnd, RefreshKinds
    <3> QED BY <2>2, <2>6, <3>1 DEF MapHolds, Comparing, Keeping, Prefilled, RefreshKinds
  <2>7. CASE ~Comparing /\ ~Keeping /\ diag # "timing"
    BY <2>7 DEF Comparing, Keeping, Prefilled
  <2> QED BY <2>4, <2>5, <2>6, <2>7
<1> QED BY <1>1, SentinelInvHolds, PTL
================================================================================
