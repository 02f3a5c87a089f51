------------------------------- MODULE Sentinel -------------------------------
(***************************************************************************)
(* The C64 memory diagnostics of CRADBus (src/Source/Bus/RAD/rad_bus.cpp:  *)
(* runAccessSentinelDiagnostic ... runDisplayRefreshDiagnosticVariant),    *)
(* which config value BUS_ACCESS_SENTINEL selects at boot.                 *)
(*                                                                         *)
(* All of them have one shape: arms, each of which seeds a pattern in      *)
(* physical RAM, reads it back into maps of mismatches, exposes it to the  *)
(* VIC and to bus traffic, and reads it back again.  An arm is a sequence  *)
(* of steps, built from the helpers the diagnostics share; each step is an *)
(* action of core 0.  Core 3 runs beside it, and the hardware under test   *)
(* loses writes, misreads cells and damages the exposed pattern, at most   *)
(* MaxFaults times: what the maps say of that is the subject.              *)
(*                                                                         *)
(* Arms that repeat an earlier one with another border, rate or delay are  *)
(* left out, and so are the times and the shapes of the maps reported.     *)
(***************************************************************************)
EXTENDS Naturals, FiniteSets, Sequences, FiniteSetsExt

CONSTANTS
    Cells,      \* the sampled addresses
    MaxFaults,  \* bound on the faults of one diagnostic
    Attempts    \* tries of a prefill (3 in the code)

\* Fewer faults than the BA guard has readings on either side, and no more than
\* a prefill has attempts: beyond that the hardware can invent any verdict.
ASSUME FaultAssumption ==
    /\ IsFiniteSet(Cells)
    /\ MaxFaults \in 0..2 /\ Attempts \in Nat /\ MaxFaults <= Attempts

VARIABLES
    diag,   \* the diagnostic that runs
    arms,   \* its arms to come
    arm,    \* the running arm
    steps,  \* the steps of the arm to come
    tries,  \* attempts of the step at the head
    mem,    \* each cell, against the arm's pattern
    vic,    \* $D011: the picture of the host, "blank", "text" or "bitmap"
    bus,    \* busTiming's read point and write bias; whether RAD drives R/W
    core3,  \* s_RefreshRequested, s_RefreshActive, s_ForceContinuousRefresh
    map,    \* the mismatch maps of the arm
    report, \* the comparisons of the arm, in order
    clean,  \* immediateClean of the address diagnostic
    fault   \* of the arm: cells whose last target write was lost, cells
            \* damaged while right, cells ever misread; and the faults left

vars == <<diag, arms, arm, steps, tries, mem, vic, bus, core3, map, report,
          clean, fault>>

States == {"blank", "text", "bitmap"}
Slots == 0..5

--------------------------------------------------------------------------------
(* The steps an arm is made of.                                               *)

Mode(s)        == [do |-> "mode", state |-> s]
Prefill(s)     == [do |-> "prefill", slot |-> s]
Target         == [do |-> "target"]
Verified(s)    == [do |-> "verified", slot |-> s]
Threefold      == [do |-> "threefold"]
Capture(s)     == [do |-> "capture", slot |-> s]
Compare(b, a)  == [do |-> "compare", before |-> b, after |-> a]
Expose(op)     == [do |-> "expose", op |-> op]
Raster         == [do |-> "raster"]
SetPoint(p)    == [do |-> "point", point |-> p]
Bias(b)        == [do |-> "bias", by |-> b]
Hold(b)        == [do |-> "rw", driven |-> b]
Start          == [do |-> "start"]
Stop           == [do |-> "stop"]
Repair         == [do |-> "repair"]
Judge          == [do |-> "judge"]
PersistentOnly == [do |-> "persistent"]

\* What an arm does in its exposure: [state, op, salt, kind].
Arm(state, op, salt, kind) ==
    [state |-> state, op |-> op, salt |-> salt, kind |-> kind]

Ops == <<"idle", "read", "write">>

--------------------------------------------------------------------------------
(* The diagnostics: their arms, and the steps of an arm.                      *)

\* The picture the host left stays on; two maps take turns.
AccessArms == [i \in 1..3 |-> Arm("host", Ops[i], i, "all")]
\* Mutant: the second reading overwrites the baseline before it is compared.
AccessReadsTwice(a) ==
    <<Target, Capture(0), Capture(1), Expose(a.op),
      Capture(0), Capture(1), Compare(1, 0), Compare(0, 1)>>

AccessSteps(a) ==
    <<Target, Capture(0), Capture(1), Expose(a.op),
      Capture(0), Compare(1, 0), Capture(1), Compare(0, 1)>>

\* One pattern for all arms.
DisplayArms ==
    [i \in 1..3 |-> Arm("bitmap", Ops[i], 0, "all")]
      \o [i \in 1..2 |-> Arm("blank", Ops[i + 1], 0, "all")]
DisplaySteps(a) ==
    <<Mode("blank"), Target, Capture(0), Capture(1),
      Mode(a.state), Expose(a.op), Mode("blank"),
      Capture(0), Compare(1, 0), Capture(1), Compare(0, 1),
      Capture(0), Compare(1, 0)>>

\* Immediate reads in two modes, whole maps, and a ladder of delays that is
\* only run when the third immediate read was always right.
AddressArms ==
    <<Arm("blank", "idle", 0, "immediate"), Arm("blank", "idle", 1, "immediate"),
      Arm("blank", "idle", 2, "map"), Arm("blank", "idle", 3, "ladder")>>
AddressSteps(a) ==
    CASE a.kind = "immediate" ->
           <<Mode("blank"), Target, Capture(0), Capture(1), Capture(2), Judge>>
      [] a.kind = "map" -> <<Mode("blank"), Target, Capture(0)>>
      [] a.kind = "ladder" ->
           <<Mode("blank"), Target, Capture(0), Capture(1), Capture(2),
             Expose("idle"), Capture(3), Capture(4), Capture(5)>>

\* Write maps, then retention: a verified seed and an untouched delay.
RowArms == <<Arm("blank", "idle", 0, "write"), Arm("blank", "idle", 1, "retention")>>
RowSteps(a) ==
    IF a.kind = "write"
    THEN <<Mode("blank"), Prefill(0), Target, Capture(1)>>
    ELSE <<Mode("blank"), Verified(0), Expose("idle"), Capture(1)>>

\* Every state with every operation, then retention in the blank state.
FetchArms ==
    LET states == <<"blank", "bitmap", "text">> IN
    [i \in 1..9 |-> Arm(states[((i - 1) % 3) + 1], Ops[((i - 1) \div 3) + 1], i, "fetch")]
      \o <<Arm("blank", "idle", 10, "retention")>>
FetchSteps(a) ==
    <<Mode("blank"), Prefill(0), Target, Capture(1)>>
      \o (IF a.kind = "retention" THEN <<Expose("idle")>>
          ELSE <<Mode(a.state), Expose(a.op), Mode("blank")>>)
      \o <<Capture(2)>>

\* Three readings after the exposure, compared with one another.
PersistenceArms ==
    LET ops == <<"read", "idle", "write">> IN
    [i \in 1..6 |-> Arm(IF i % 2 = 1 THEN "text" ELSE "bitmap",
                        ops[((i - 1) % 3) + 1], i, "all")]
PersistenceSteps(a) ==
    <<Mode("blank"), Prefill(0), Target, Capture(1),
      Mode(a.state), Expose(a.op), Mode("blank"),
      Capture(2), Capture(3), Capture(4), Compare(2, 3), Compare(3, 4)>>

\* The exposed map is read at other sample points, then repaired: map 0 is
\* the reference of the sweep, map 2 its last, map 5 the prefill, the baseline
\* and the map after the repair.
TimingArms == PersistenceArms
TimingSteps(a) ==
    <<Mode("blank"), SetPoint("configured"), Prefill(5), Target, Capture(5),
      Mode(a.state), Expose(a.op), Mode("blank")>>
      \o <<SetPoint("475"), Capture(0), Compare(0, 0),
           SetPoint("swept"), Capture(1), Compare(0, 1),
           SetPoint("475"), Capture(2), Compare(0, 2)>>
      \o <<SetPoint("configured"), Repair, Capture(5), Compare(0, 5)>>

\* Transitions at a chosen raster window, with or without an exposure.
BoundaryArms ==
    <<Arm("text", "none", 1, "all"), Arm("text", "idle", 1, "all"),
      Arm("bitmap", "none", 2, "all"), Arm("bitmap", "idle", 2, "all")>>
BoundarySteps(a) ==
    <<Mode("blank"), Prefill(0), Target, Capture(0), Raster, Mode(a.state)>>
      \o (IF a.op = "none" THEN <<>> ELSE <<Expose("idle"), Raster>>)
      \o <<Mode("blank"), Capture(1), Compare(0, 1)>>

\* Without and with an intervention: pulses of core 3, pulses of core 0, R/W
\* held high, or repairs of the displayed memory from the shadow.
RefreshKinds == {"core3", "core0", "rw", "scrub"}
RefreshArms(kind) ==
    <<Arm("text", "idle", 1, "control"), Arm("text", "idle", 1, kind),
      Arm("bitmap", "idle", 2, kind)>>
\* Mutant: the service is left running after the exposure.
InterventionUnstopped(kind) ==
    CASE kind = "control" -> <<Expose("idle")>>
      [] kind = "core3" -> <<Start, Expose("pulses")>>
      [] kind = "core0" -> <<Expose("pulses")>>
      [] kind = "rw" -> <<Hold(TRUE), Expose("idle"), Hold(FALSE)>>
      [] kind = "scrub" -> <<Expose("scrub")>>

Intervention(kind) ==
    CASE kind = "control" -> <<Expose("idle")>>
      [] kind = "core3" -> <<Start, Expose("pulses"), Stop>>
      [] kind = "core0" -> <<Expose("pulses")>>
      [] kind = "rw" -> <<Hold(TRUE), Expose("idle"), Hold(FALSE)>>
      [] kind = "scrub" -> <<Expose("scrub")>>
RefreshSteps(a) ==
    <<Mode("blank"), Prefill(0), Target, Capture(0), Raster, Mode(a.state)>>
      \o Intervention(a.kind)
      \o <<Raster, Mode("blank"), Capture(1), Compare(0, 1)>>

\* Three maps before and three after; writes with a biased address enable.
BAGuardArms ==
    <<Arm("bitmap", "idle", 0, "plain"), Arm("bitmap", "write", 0, "biased"),
      Arm("bitmap", "read", 0, "plain"), Arm("bitmap", "write", 0, "plain"),
      Arm("bitmap", "write", 1, "biased")>>
BAGuardSteps(a) ==
    <<Mode("blank"), Prefill(0), Threefold, Mode(a.state)>>
      \o (IF a.kind = "biased" THEN <<Bias(1)>> ELSE <<>>)
      \o <<Expose(a.op), Bias(0), Mode("blank"),
           Capture(3), Capture(4), Capture(5), PersistentOnly>>

\* Before they return, some put back once more what their arms changed.
End == Arm("blank", "none", 0, "end")
EndSteps ==
    CASE diag = "timing" -> <<SetPoint("configured")>>
      [] diag = "baGuard" -> <<Mode("blank")>>
      [] diag \in RefreshKinds -> <<Stop>>
      [] OTHER -> <<>>

Plan ==
    [access |-> AccessArms, display |-> DisplayArms, address |-> AddressArms,
     row |-> RowArms, fetch |-> FetchArms, persistence |-> PersistenceArms,
     timing |-> TimingArms, boundary |-> BoundaryArms,
     core3 |-> RefreshArms("core3"), core0 |-> RefreshArms("core0"),
     rw |-> RefreshArms("rw"), scrub |-> RefreshArms("scrub"),
     baGuard |-> BAGuardArms]
Diagnostics == DOMAIN Plan

StepsOf(a) ==
    IF a.kind = "end" THEN EndSteps
    ELSE CASE diag = "access" -> AccessSteps(a)
           [] diag = "display" -> DisplaySteps(a)
           [] diag = "address" -> AddressSteps(a)
           [] diag = "row" -> RowSteps(a)
           [] diag = "fetch" -> FetchSteps(a)
           [] diag = "persistence" -> PersistenceSteps(a)
           [] diag = "timing" -> TimingSteps(a)
           [] diag = "boundary" -> BoundarySteps(a)
           [] diag = "baGuard" -> BAGuardSteps(a)
           [] diag \in RefreshKinds -> RefreshSteps(a)

--------------------------------------------------------------------------------
(* Core 0.                                                                    *)

NoMap == [s \in Slots |-> {}]
NoFault(left) == [lost |-> {}, hit |-> {}, mended |-> {}, misread |-> {}, left |-> left]

Init ==
    /\ diag \in Diagnostics
    /\ arms = Append(Plan[diag], End)
    /\ arm = Arm("host", "none", 0, "none") /\ steps = <<>> /\ tries = 0
    /\ mem = [c \in Cells |-> "wrong"]
    /\ vic = "host"
    /\ bus = [point |-> "configured", bias |-> 0, rw |-> FALSE]
    /\ core3 = [requested |-> FALSE, active |-> FALSE, continuous |-> FALSE]
    /\ map = NoMap /\ report = <<>> /\ clean = TRUE
    /\ fault = NoFault(MaxFaults)

Done == arms = <<>> /\ steps = <<>>
At(do) == steps # <<>> /\ Head(steps).do = do
Pop == steps' = Tail(steps) /\ tries' = 0

\* A pattern with another salt is wrong everywhere.  The ladder is skipped
\* when an immediate read was not right.
NextArm ==
    /\ steps = <<>> /\ arms # <<>>
    /\ arms' = Tail(arms)
    /\ IF Head(arms).kind = "ladder" /\ ~clean
       THEN UNCHANGED <<arm, steps, mem, map, report, fault>>
       ELSE /\ arm' = Head(arms) /\ steps' = StepsOf(Head(arms))
            /\ mem' = IF Head(arms).salt = arm.salt THEN mem
                      ELSE [c \in Cells |-> "wrong"]
            /\ map' = NoMap /\ report' = <<>>
            /\ fault' = NoFault(fault.left)
    /\ tries' = 0
    /\ UNCHANGED <<diag, vic, bus, core3, clean>>

\* displaySentinelSetMode, displayAddressSetMode, displayFetchSetState and
\* their short forms: $D011 is written last.
SetMode ==
    /\ At("mode") /\ vic' = Head(steps).state /\ Pop
    /\ UNCHANGED <<diag, arms, arm, mem, bus, core3, map, report, clean, fault>>

\* displayRowSeed, displayBASeed, accessSentinelSeed, displaySentinelSeed: the
\* cells of lost keep what they had.
Seeded(value, lost) == [c \in Cells |-> IF c \in lost THEN mem[c] ELSE value]

\* A map: the cells that do not read as the value, some of them misread.  A
\* point that was not calibrated misreads at no charge.
Reading(value, misread, m) ==
    SymDiff({c \in Cells : m[c] # value}, misread)
Charge(cells) == IF bus.point = "configured" THEN Cardinality(cells) ELSE 0
Affordable(n) == n <= fault.left

\* The complement is written, and verified, until it holds or the attempts
\* run out.
PrefillCells ==
    /\ At("prefill")
    /\ \E lost, misread \in SUBSET Cells :
         LET m == Seeded("complement", lost)
             n == Cardinality(lost) + Charge(misread)
             errors == Reading("complement", misread, m)
         IN  /\ Affordable(n)
             /\ mem' = m
             /\ map' = [map EXCEPT ![Head(steps).slot] = errors]
             /\ fault' = [fault EXCEPT !.left = @ - n, !.misread = @ \union misread]
             /\ IF errors = {} \/ tries + 1 = Attempts THEN Pop
                ELSE tries' = tries + 1 /\ UNCHANGED steps
    /\ UNCHANGED <<diag, arms, arm, vic, bus, core3, report, clean>>

SeedTarget ==
    /\ At("target")
    /\ \E lost \in SUBSET Cells :
         /\ Affordable(Cardinality(lost))
         /\ mem' = Seeded("target", lost)
         /\ fault' = [fault EXCEPT !.left = @ - Cardinality(lost), !.lost = lost]
    /\ Pop
    /\ UNCHANGED <<diag, arms, arm, vic, bus, core3, map, report, clean>>

\* The retention arms of the row diagnostic verify the target itself.
SeedVerified ==
    /\ At("verified")
    /\ \E lost, misread \in SUBSET Cells :
         LET m == Seeded("target", lost)
             n == Cardinality(lost) + Charge(misread)
             errors == Reading("target", misread, m)
         IN  /\ Affordable(n)
             /\ mem' = m
             /\ map' = [map EXCEPT ![Head(steps).slot] = errors]
             /\ fault' = [fault EXCEPT !.left = @ - n, !.lost = lost,
                                       !.misread = @ \union misread]
             /\ IF errors = {} \/ tries + 1 = Attempts THEN Pop
                ELSE tries' = tries + 1 /\ UNCHANGED steps
    /\ UNCHANGED <<diag, arms, arm, vic, bus, core3, report, clean>>

\* The BA guard's target: three maps; a cell wrong in all of them asks for
\* another attempt.
SeedThreefold ==
    /\ At("threefold")
    /\ \E lost \in SUBSET Cells, misread \in [0..2 -> SUBSET Cells] :
         LET m == Seeded("target", lost)
             n == Cardinality(lost) + Cardinality(misread[0])
                    + Cardinality(misread[1]) + Cardinality(misread[2])
             seen(s) == Reading("target", misread[s], m)
         IN  /\ Affordable(n)
             /\ mem' = m
             /\ map' = [s \in Slots |-> IF s < 3 THEN seen(s) ELSE map[s]]
             /\ fault' = [fault EXCEPT !.left = @ - n, !.lost = lost,
                            !.misread = @ \union misread[0] \union misread[1]
                                          \union misread[2]]
             /\ IF seen(0) \cap seen(1) \cap seen(2) = {} \/ tries + 1 = Attempts
                THEN Pop ELSE tries' = tries + 1 /\ UNCHANGED steps
    /\ UNCHANGED <<diag, arms, arm, vic, bus, core3, report, clean>>

\* accessSentinelCapture, displaySentinelCapture, displayRowCapture,
\* displayPersistenceCapture, displayBACapture; and the single reads of the
\* address diagnostic.
CaptureMap ==
    /\ At("capture")
    /\ \E misread \in SUBSET Cells :
         /\ Affordable(Charge(misread))
         /\ map' = [map EXCEPT ![Head(steps).slot] = Reading("target", misread, mem)]
         /\ fault' = [fault EXCEPT !.left = @ - Charge(misread),
                                   !.misread = @ \union misread]
    /\ Pop
    /\ UNCHANGED <<diag, arms, arm, mem, vic, bus, core3, report, clean>>

\* accessSentinelCompare, displaySentinelCompare
CompareMaps ==
    /\ At("compare")
    /\ LET before == map[Head(steps).before] after == map[Head(steps).after]
       IN  report' = Append(report, [added |-> after \ before, removed |-> before \ after])
    /\ Pop
    /\ UNCHANGED <<diag, arms, arm, mem, vic, bus, core3, map, clean, fault>>

BaseAny == map[0] \union map[1] \union map[2]

\* The BA guard: wrong in every map after, in none before.
PersistentAdded ==
    /\ At("persistent")
    /\ report' = Append(report,
         [added |-> (map[3] \cap map[4] \cap map[5]) \ BaseAny, removed |-> {}])
    /\ Pop
    /\ UNCHANGED <<diag, arms, arm, mem, vic, bus, core3, map, clean, fault>>

\* Four seconds or more of the VIC's fetches and the arm's traffic; the scrub
\* writes any part of the pattern again from its shadow.
ExposeCells ==
    /\ At("expose")
    /\ \E damaged \in SUBSET Cells,
          scrubbed \in IF Head(steps).op = "scrub" THEN SUBSET Cells ELSE {{}} :
         LET hit == (damaged \ scrubbed) \cap {c \in Cells : mem[c] = "target"}
             mended == {c \in scrubbed : mem[c] # "target"}
         IN  /\ Affordable(Cardinality(damaged))
             /\ mem' = [c \in Cells |-> IF c \in scrubbed THEN "target"
                                        ELSE IF c \in damaged THEN "wrong" ELSE mem[c]]
             /\ fault' = [fault EXCEPT !.left = @ - Cardinality(damaged),
                            !.hit = @ \union hit, !.mended = @ \union mended]
    /\ Pop
    /\ UNCHANGED <<diag, arms, arm, vic, bus, core3, map, report, clean>>

\* displayBoundaryWaitRaster: the window, or the deadline.
WaitRaster ==
    /\ At("raster") /\ Pop
    /\ UNCHANGED <<diag, arms, arm, mem, vic, bus, core3, map, report, clean, fault>>

SetBus ==
    /\ \/ At("point") /\ bus' = [bus EXCEPT !.point = Head(steps).point]
       \/ At("bias") /\ bus' = [bus EXCEPT !.bias = Head(steps).by]
       \/ At("rw") /\ bus' = [bus EXCEPT !.rw = Head(steps).driven]
    /\ Pop
    /\ UNCHANGED <<diag, arms, arm, mem, vic, core3, map, report, clean, fault>>

\* c128RefreshForceContinuous and c128RefreshStart, whose wait may give up:
\* the result is only reported.
StartRefresh ==
    /\ At("start")
    /\ core3' = [core3 EXCEPT !.requested = TRUE, !.continuous = TRUE]
    /\ Pop
    /\ UNCHANGED <<diag, arms, arm, mem, vic, bus, map, report, clean, fault>>

\* c128RefreshStop withdraws the request, then waits for core 3.
StopRefresh ==
    /\ At("stop")
    /\ IF core3.requested
       THEN core3' = [core3 EXCEPT !.requested = FALSE] /\ UNCHANGED <<steps, tries>>
       ELSE /\ ~core3.active
            /\ core3' = [core3 EXCEPT !.continuous = FALSE]
            /\ Pop
    /\ UNCHANGED <<diag, arms, arm, mem, vic, bus, map, report, clean, fault>>

\* The timing diagnostic writes the cells of map 0 again.
RepairCells ==
    /\ At("repair")
    /\ \E lost \in SUBSET map[0] :
         /\ Affordable(Cardinality(lost))
         /\ mem' = [c \in Cells |-> IF c \in map[0] \ lost THEN "target" ELSE mem[c]]
         /\ fault' = [fault EXCEPT !.left = @ - Cardinality(lost),
                                   !.lost = (@ \ map[0]) \union lost]
    /\ Pop
    /\ UNCHANGED <<diag, arms, arm, vic, bus, core3, map, report, clean>>

JudgeImmediate ==
    /\ At("judge")
    /\ clean' = (clean /\ map[2] = {})
    /\ Pop
    /\ UNCHANGED <<diag, arms, arm, mem, vic, bus, core3, map, report, fault>>

Core3Takes ==
    /\ core3.requested /\ ~core3.active
    /\ core3' = [core3 EXCEPT !.active = TRUE]
    /\ UNCHANGED <<diag, arms, arm, steps, tries, mem, vic, bus, map, report, clean, fault>>

Core3Quits ==
    /\ core3.active /\ ~core3.requested
    /\ core3' = [core3 EXCEPT !.active = FALSE]
    /\ UNCHANGED <<diag, arms, arm, steps, tries, mem, vic, bus, map, report, clean, fault>>

Next ==
    \/ NextArm \/ SetMode \/ PrefillCells \/ SeedTarget \/ SeedVerified
    \/ SeedThreefold \/ CaptureMap \/ CompareMaps \/ PersistentAdded
    \/ ExposeCells \/ WaitRaster \/ SetBus \/ StartRefresh \/ StopRefresh
    \/ RepairCells \/ JudgeImmediate \/ Core3Takes \/ Core3Quits

Spec == Init /\ [][Next]_vars

--------------------------------------------------------------------------------
(* Properties.                                                                *)

Oracles == {"prefill", "target", "verified", "threefold", "capture", "repair"}
Quiet == vic = "blank" /\ bus.bias = 0 /\ ~bus.rw /\ ~core3.active

\* Every seed, reading and repair of a display diagnostic, and its return, is
\* made with the picture off, the production write timing, R/W floating and
\* core 3 stopped, and all but the sweep's readings at the calibrated point:
\* no exposure, not even one whose refresh did not start in time, reaches into
\* the evidence.
QuietOracle ==
    /\ diag # "access" /\ steps # <<>> /\ Head(steps).do \in Oracles => Quiet
    /\ steps # <<>> /\ Head(steps).do \in Oracles \ {"capture"} =>
           bus.point = "configured"
    /\ Done => /\ bus.point = "configured" /\ ~core3.requested /\ ~core3.continuous
               /\ diag = "access" \/ Quiet

ArmEnds == steps = <<>> /\ arm.kind \notin {"none", "end"}
Trusted == Cells \ fault.misread

\* The maps before and after the exposure, where both are kept.
Kept == CASE diag \in {"fetch", "persistence"} -> <<1, 2>>
          [] diag = "row" -> <<0, 1>>
          [] OTHER -> <<0, 3>>
Comparing == diag \in {"access", "display", "boundary", "baGuard"} \union RefreshKinds
Keeping == \/ diag \in {"fetch", "persistence"}
           \/ diag = "row" /\ arm.kind = "retention"
           \/ diag = "address" /\ arm.kind = "ladder"

\* The diagnostics that write a verified complement before the target.
Prefilled == diag \in {"fetch", "persistence", "boundary"} \union RefreshKinds

\* Among the cells that were never misread, the diagnostic says exactly which
\* ones the exposure damaged, although maps are reused: cells already wrong at
\* the baseline, lost writes and later readings do not change the verdict.  After
\* the timing diagnostic's repair only a cell whose repair was lost is wrong, and
\* after a verified complement a lost target write shows in the baseline.  What
\* the BA guard counts as added was damaged even where readings were wrong:
\* fewer misreadings than readings cannot invent it.
DamageAttributed ==
    ArmEnds =>
        /\ Comparing => report[1].added \cap Trusted = fault.hit \cap Trusted
        /\ Comparing => report[1].removed \cap Trusted = fault.mended \cap Trusted
        /\ Keeping => (map[Kept[2]] \ map[Kept[1]]) \cap Trusted = fault.hit \cap Trusted
        /\ diag = "timing" => map[5] \cap Trusted \subseteq fault.lost
        /\ Prefilled => fault.lost \cap Trusted \subseteq
                           map[IF diag \in {"fetch", "persistence"} THEN 1 ELSE 0]
        /\ diag = "baGuard" => report[1].added \subseteq fault.hit

--------------------------------------------------------------------------------
(* What a comment of the code says and the code does not keep.                *)

\* rad_bus.cpp: "Phase 0 is the configured-point reference."
ReferenceAtConfigured ==
    diag = "timing" /\ At("capture") /\ Head(steps).slot = 0 =>
        bus.point = "configured"
================================================================================
