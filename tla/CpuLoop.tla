------------------------------ MODULE CpuLoop ------------------------------
(***************************************************************************)
(* Time, interrupts and the run loop of the accelerated processor.         *)
(*                                                                         *)
(*   CPU/W65C816/w65c816.cpp  run() ticks the bus once per batch of up to  *)
(*       eight instructions; stepInner() samples NMI and IRQ only when     *)
(*       m_Pending asks for it.                                            *)
(*   C64/c64_memory.{h,cpp}   what a tick does (tickFast), the two holds   *)
(*       that force 1 MHz around serial traffic, and the model of CIA2's   *)
(*       timers, whose NMIs are delivered on the emulated clock.           *)
(*                                                                         *)
(* The memory side is one record m and its handlers are operators from     *)
(* record to record, composed in the order in which the code calls them.   *)
(* The clock is relative: a deadline is the number of emulated cycles left *)
(* until it, 0 or less once it is due.  m_CIA2NMIDeadline and              *)
(* m_CIA2NMIOwned, which every handler recomputes before it returns, are   *)
(* the operators NMIDue/DeadlineLive and Owned.  The phase of PHI2 is      *)
(* abstract: a stretched access waits for any number of cycles up to a     *)
(* whole C64 cycle.                                                        *)
(***************************************************************************)
EXTENDS Integers, FiniteSets

CONSTANTS
  Timers,      \* the CIA2 timers a program uses, a subset of {"A", "B"}
  Instr,       \* the instructions a program may execute
  Turbo,       \* m_PacingCheckCycles at turbo: emulated per C64 cycle
  Latch,       \* the timers' latch value
  IECSpan,     \* m_IECHoldCycles when armed      (100000 in the code)
  PollSpan,    \* m_IECPollHoldCycles when armed  (1000)
  ActSpan,     \* m_IECActivityCycles when armed  (2000)
  BatchMax,    \* instructions per batch (8)
  Defer,       \* m_DeferNativeNMI
  NMILevels,   \* levels of the physical NMI line: {FALSE} without RESTORE
  None         \* a deadline of 0 in the code: not armed

ASSUME LoopAssumption ==
  /\ Timers \subseteq {"A", "B"}
  /\ {Turbo, Latch, IECSpan, PollSpan, ActSpan, BatchMax} \subseteq Nat \ {0}
  /\ Defer \in BOOLEAN /\ NMILevels \subseteq BOOLEAN

Cost     == 2          \* cycles of an instruction or an interrupt entry
IdleCost == 1          \* cycles of a stopped or waiting processor

VARIABLES
  phase,    \* "idle": outside run(); "step": in a batch; "tick": batch over
  single,   \* the budget is at most 80 cycles: one instruction per tick
  batch,    \* instructions of this batch
  since,    \* cycles since tickBase
  did,      \* what stepInner did last: "insn", "entry" or "idle"
  core,     \* stopped, waiting, nmiP, prev, pend, i, native
  m,        \* the memory's timing state
  owed      \* history: a synthetic NMI was raised, and neither taken nor
            \* acknowledged since

loopVars == <<phase, single, batch, since, did, core, m, owed>>

-----------------------------------------------------------------------------
(* Rates and holds.                                                         *)

ExplicitlySlow(s) == s.sel = "slow"
EffectiveFactor(s) ==
  IF s.iec > 0 \/ s.poll > 0 \/ ExplicitlySlow(s) THEN 1 ELSE Turbo
DeadlineLive(s) == \E t \in Timers : s.dl[t] # None
NMIDue(s) == \E t \in Timers : s.dl[t] # None /\ s.dl[t] <= 0
Owned(s)  == s.mask \cap Timers # {} /\ s.mask \subseteq Timers

fineTicksRequired(s) ==
  s.posted \/ s.iec > 0 \/ s.act > 0 \/ s.poll > 0
    \/ DeadlineLive(s) \/ s.arm # {} \/ ExplicitlySlow(s)

\* m_TimingHook: the accelerator asks the core to leave run().
TimingHook(s) == [s EXCEPT !.brk = TRUE]

\* cia2OnRateChange: what is left of an armed deadline is converted to the new
\* unit; a deadline converted to nothing is due at the next cycle.
cia2OnRateChange(s) ==
  LET f == EffectiveFactor(s)
      rem(t) == IF s.dl[t] > 0 THEN s.dl[t] ELSE 0
      conv(t) == (rem(t) * f) \div s.factor
  IN IF f = s.factor THEN [s EXCEPT !.c64f = f]
     ELSE [s EXCEPT
             !.c64f = f, !.factor = f,
             !.dl = [t \in Timers |->
                       IF s.dl[t] = None THEN None
                       ELSE IF conv(t) = 0 THEN 1 ELSE conv(t)]]

\* Mutant: a poll arms the hold without announcing the new rate.
notePollHoldSilent(s) ==
  IF ExplicitlySlow(s) \/ s.poll >= PollSpan THEN s
  ELSE [s EXCEPT !.poll = PollSpan]
notePollHold(s) ==
  IF ExplicitlySlow(s) \/ s.poll >= PollSpan THEN s
  ELSE LET armed == [s EXCEPT !.poll = PollSpan]
       IN IF s.poll = 0 /\ s.iec = 0
          THEN TimingHook(cia2OnRateChange(armed)) ELSE armed

noteIECActivity(s) ==
  LET quiet == s.act = 0
      a == [s EXCEPT !.act = ActSpan, !.brk = s.brk \/ quiet]
      h == [a EXCEPT !.iec = IECSpan]
  IN IF ExplicitlySlow(s) THEN a
     ELSE IF s.iec = 0 THEN TimingHook(cia2OnRateChange(h)) ELSE h

\* setPacing through the speed hook: an explicit slow request drops the hold.
setPacing(s, sel) ==
  cia2OnRateChange([s EXCEPT !.sel = sel,
                             !.iec = IF sel = "slow" THEN 0 ELSE s.iec])

-----------------------------------------------------------------------------
(* The CIA2 timer model.                                                    *)

\* Mutant: the exposed edge does not break the batch.
cia2MaybeDeliverSynthNMIQuiet(s) ==
  IF Owned(s) /\ ~s.synth /\ s.icr \cap s.mask \cap Timers # {}
  THEN [s EXCEPT !.synth = TRUE, !.cnmi = TRUE]
  ELSE s
cia2MaybeDeliverSynthNMI(s) ==
  IF Owned(s) /\ ~s.synth /\ s.icr \cap s.mask \cap Timers # {}
  THEN TimingHook([s EXCEPT !.synth = TRUE, !.cnmi = TRUE])
  ELSE s

Span(s) == (Latch + 1) * s.factor

\* $DD0D: set or clear mask bits; "flag" stands for FLAG, SDR and TOD.
WriteMask(s, set, bits) ==
  LET s1 == cia2OnRateChange(s)
      mask == IF set THEN s1.mask \cup bits ELSE s1.mask \ bits
      s2 == [s1 EXCEPT !.mask = mask]
  IN IF mask \cap Timers = {} THEN [s2 EXCEPT !.synth = FALSE]
     ELSE cia2MaybeDeliverSynthNMI(s2)

\* $DD0E/$DD0F: START on a stopped timer, or a force load, is anchored at the
\* next tick; a timer that counts CNT pulses has no deadline.  The hook for a
\* deadline that came live never runs here: only cia2FinishArm sets one.
WriteControl(s, t, v) ==
  LET s1 == cia2OnRateChange(s)
      s2 == [s1 EXCEPT !.cr[t] = [start |-> v.start, once |-> v.once, cnt |-> v.cnt]]
  IN IF v.cnt THEN [s2 EXCEPT !.dl[t] = None]
     ELSE IF v.start /\ (~s1.cr[t].start \/ v.load)
          THEN [s2 EXCEPT !.arm = @ \cup {t}]
     ELSE IF ~v.start THEN [s2 EXCEPT !.dl[t] = None]
     ELSE s2

cia2FinishArm(s) ==
  LET s1 == cia2OnRateChange(s)
  IN [s1 EXCEPT !.arm = {},
                !.dl = [t \in Timers |-> IF t \in s1.arm THEN Span(s1) ELSE @[t]]]

ciaTimerNMIDue(s) ==
  LET s1  == cia2OnRateChange(s)
      due == {t \in Timers : s1.dl[t] # None /\ s1.dl[t] <= 0}
      once(t) == s1.cr[t].once
  IN cia2MaybeDeliverSynthNMI(
       [s1 EXCEPT
          !.icr = @ \cup due,
          !.dl = [t \in Timers |-> IF t \notin due THEN @[t]
                                   ELSE IF once(t) THEN None ELSE @[t] + Span(s1)],
          !.cr = [t \in Timers |-> IF t \in due /\ once(t)
                                   THEN [@[t] EXCEPT !.start = FALSE] ELSE @[t]]])

IfDue(s) == IF NMIDue(s) THEN ciaTimerNMIDue(s) ELSE s

\* The ICR read drops the synthetic level and the pending bits, not the cache.
ReadICR(s) == [s EXCEPT !.synth = FALSE, !.icr = {}]

-----------------------------------------------------------------------------
(* A tick of the bus, and the interrupt cache.                              *)

Down(x, n) == IF x > n THEN x - n ELSE 0

\* The cycles by which the accesses of the batch stretch it, at an effective
\* turbo only: each waits for PHI2, a CIA write for one C64 cycle more; a
\* posted write waits for the slot if it is still occupied.
Stretch(s) ==
  IF EffectiveFactor(s) = 1 THEN {0}
  ELSE (IF s.bus > 0 THEN (s.bus - 1) * Turbo + 1 ELSE 0)
         .. (s.bus + (IF s.posted THEN 1 ELSE 0)) * Turbo

Advance(s, n) ==
  [s EXCEPT !.bus = 0, !.posted = FALSE,
            !.credit = IF @ + n > Turbo THEN Turbo ELSE @ + n,
            !.dl = [t \in Timers |-> IF @[t] = None THEN None ELSE @[t] - n]]

PollCountdown(s, n) ==
  LET s1 == [s EXCEPT !.poll = Down(@, n)]
  IN IF s.poll > 0 /\ s1.poll = 0 /\ s.iec = 0
     THEN TimingHook(cia2OnRateChange(s1)) ELSE s1

IECCountdown(s, n) ==
  LET s1 == [s EXCEPT !.iec = Down(@, n)]
  IN IF s.iec > 0 /\ s1.iec = 0 /\ s.poll = 0
     THEN TimingHook(cia2OnRateChange(s1)) ELSE s1

tickFast(s, n) ==
  LET s1 == Advance(s, n)
      s2 == IfDue(IF s1.arm # {} THEN cia2FinishArm(s1) ELSE s1)
      s3 == [s2 EXCEPT !.act = Down(@, n)]
  IN IECCountdown(PollCountdown(s3, n), n)

\* refreshInterruptsIfDue: timers first, then the sampled lines once a C64
\* cycle has passed.  irq and nmi are the physical lines.
refreshInterruptsIfDue(s, irq, nmi) ==
  LET s1 == IfDue(s)
  IN IF s1.credit >= EffectiveFactor(s1)
     THEN [s1 EXCEPT !.cirq = irq, !.credit = 0,
                     !.cnmi = IF Owned(s1) THEN s1.synth ELSE nmi \/ s1.synth]
     ELSE s1

-----------------------------------------------------------------------------
(* The instructions that touch timing state.                                *)

MaskWrites == {"maskA", "maskB", "maskFlag", "unmask"}
\* Control-register writes: continuous, one-shot, stopped, counting CNT.
ControlsA == [startA |-> "start", onceA |-> "once", stopA |-> "stop", cntA |-> "cnt"]
ControlsB == [startB |-> "start", onceB |-> "once", stopB |-> "stop", cntB |-> "cnt"]
AllInstr ==
  {"plain", "mirror", "poll", "pollLow", "edge", "icr", "slow", "fast",
   "cli", "sei", "wai", "stp", "xce"} \cup MaskWrites
  \cup DOMAIN ControlsA \cup DOMAIN ControlsB

Access(s, k) == [s EXCEPT !.bus = @ + k]   \* noteBusAccess: 2 for a CIA write

ControlValue(kind) ==
  [start |-> kind # "stop", once |-> kind = "once", cnt |-> kind = "cnt", load |-> FALSE]

\* What the executed instruction does to the memory.
MemEffect(s, ins) ==
  CASE ins = "mirror"   -> [s EXCEPT !.posted = TRUE]
    [] ins = "poll"     -> notePollHold(Access(s, 1))
    [] ins = "pollLow"  -> noteIECActivity(notePollHold(Access(s, 1)))
    [] ins = "edge"     -> Access(noteIECActivity(s), 2)
    [] ins = "icr"      -> ReadICR(Access(s, 1))
    [] ins = "maskA"    -> Access(WriteMask(s, TRUE, {"A"}), 2)
    [] ins = "maskB"    -> Access(WriteMask(s, TRUE, {"B"}), 2)
    [] ins = "maskFlag" -> Access(WriteMask(s, TRUE, {"flag"}), 2)
    [] ins = "unmask"   -> Access(WriteMask(s, FALSE, {"A", "B", "flag"}), 2)
    [] ins \in {"slow", "fast"} ->
         \* the speed hook fires only on a change; the poll hold ends either way
         LET s1 == IF s.sel = ins THEN s ELSE TimingHook(setPacing(s, ins))
         IN IF s1.poll = 0 THEN s1
            ELSE TimingHook(cia2OnRateChange([s1 EXCEPT !.poll = 0]))
    [] ins \in DOMAIN ControlsA ->
         Access(WriteControl(s, "A", ControlValue(ControlsA[ins])), 2)
    [] ins \in DOMAIN ControlsB ->
         Access(WriteControl(s, "B", ControlValue(ControlsB[ins])), 2)
    [] OTHER -> s

\* What it does to the processor; every instruction falls out of m_Pending's
\* derivation except the two that set it.
CpuEffect(c, ins) ==
  CASE ins = "cli" -> [c EXCEPT !.i = FALSE]
    [] ins = "sei" -> [c EXCEPT !.i = TRUE]
    [] ins = "xce" -> [c EXCEPT !.native = ~@]
    [] ins = "wai" -> [c EXCEPT !.waiting = TRUE, !.pend = @ \cup {"WAITING"}]
    [] ins = "stp" -> [c EXCEPT !.stopped = TRUE, !.pend = @ \cup {"STOPPED"}]
    [] OTHER -> c

-----------------------------------------------------------------------------
(* run() and stepInner().                                                   *)

rebuildPending(c) ==
  [c EXCEPT !.pend =
     (IF c.stopped THEN {"STOPPED"} ELSE {}) \cup (IF c.waiting THEN {"WAITING"} ELSE {})
       \cup (IF c.nmiP THEN {"NMI"} ELSE {}) \cup {"SAMPLE"}]

LoopInit ==
  /\ phase = "idle" /\ single = FALSE /\ batch = 0 /\ since = 0
  /\ did = "idle" /\ owed = FALSE
  /\ core = [stopped |-> FALSE, waiting |-> FALSE, nmiP |-> FALSE, prev |-> FALSE,
             pend |-> {"SAMPLE"}, i |-> TRUE, native |-> FALSE]
  /\ m = [sel |-> "fast", iec |-> 0, poll |-> 0, act |-> 0, factor |-> Turbo,
          c64f |-> Turbo, dl |-> [t \in Timers |-> None], arm |-> {},
          cr |-> [t \in Timers |-> [start |-> FALSE, once |-> FALSE, cnt |-> FALSE]],
          mask |-> {}, icr |-> {}, synth |-> FALSE, cnmi |-> FALSE, cirq |-> FALSE,
          credit |-> Turbo, posted |-> FALSE, brk |-> FALSE, bus |-> 0]

\* run() is entered: nothing of the previous call's break survives.
EnterRun ==
  /\ phase = "idle"
  /\ phase' = "step" /\ batch' = 0 /\ since' = 0
  /\ single' \in BOOLEAN
  /\ core' = rebuildPending(core)
  /\ m' = [m EXCEPT !.brk = FALSE]
  /\ UNCHANGED <<owed, did>>

\* The prologue's sample, with the levels the physical lines have.
SampledMem(irq, nmi) ==
  IF "SAMPLE" \in core.pend THEN refreshInterruptsIfDue(m, irq, nmi) ELSE m
Sampled(s) ==
  IF "SAMPLE" \notin core.pend THEN core
  ELSE LET p == core.nmiP \/ (s.cnmi /\ ~core.prev)
       IN [core EXCEPT !.nmiP = p, !.prev = s.cnmi,
                        !.pend = (@ \ {"SAMPLE", "IRQLINE", "NMI"})
                                 \cup (IF s.cirq THEN {"IRQLINE"} ELSE {})
                                 \cup (IF p THEN {"NMI"} ELSE {})]

NMITakes(c) == c.nmiP /\ ~(Defer /\ c.native)
IRQLine(c)  == "IRQLINE" \in c.pend

\* After stepInner the batch ends on a break, a stop, fine ticks or its length.
AfterStep(kind, c, s, cost) ==
  /\ did' = kind /\ core' = c /\ m' = s
  /\ since' = since + cost /\ batch' = batch + 1
  /\ phase' = IF single \/ s.brk \/ c.stopped \/ fineTicksRequired(s)
                 \/ batch + 1 >= BatchMax
              THEN "tick" ELSE "step"
  /\ UNCHANGED single

Owes(s, taken) ==
  owed' = (~taken /\ s.synth /\ (owed \/ ~m.synth))

StepStopped ==
  /\ phase = "step" /\ core.stopped
  /\ AfterStep("idle", core, m, IdleCost) /\ UNCHANGED owed

TakeNMI(irq, nmi) ==
  LET s == SampledMem(irq, nmi)
      c == Sampled(s)
  IN /\ phase = "step" /\ ~core.stopped /\ core.pend # {} /\ NMITakes(c)
     /\ AfterStep("entry", [c EXCEPT !.nmiP = FALSE, !.waiting = FALSE, !.i = TRUE,
                                      !.pend = @ \ {"NMI", "WAITING"}], s, Cost)
     /\ Owes(s, TRUE)

StepWaiting(irq, nmi) ==
  LET s == SampledMem(irq, nmi)
      c == Sampled(s)
  IN /\ phase = "step" /\ ~core.stopped /\ core.waiting /\ ~NMITakes(c) /\ ~IRQLine(c)
     /\ AfterStep("idle", c, s, IdleCost) /\ Owes(s, FALSE)

\* The prologue when nothing keeps the processor: WAI ends on the line's level.
Awake(c) == [c EXCEPT !.waiting = FALSE, !.pend = @ \ {"WAITING"}]

TakeIRQ(irq, nmi) ==
  LET s == SampledMem(irq, nmi)
      c == Sampled(s)
  IN /\ phase = "step" /\ ~core.stopped /\ core.pend # {} /\ ~NMITakes(c)
     /\ IRQLine(c) /\ ~c.i
     /\ AfterStep("entry", [Awake(c) EXCEPT !.i = TRUE], s, Cost) /\ Owes(s, FALSE)

\* With m_Pending empty the prologue is skipped altogether.
ExecuteInstr(ins, irq, nmi) ==
  LET s == SampledMem(irq, nmi)
      c == Sampled(s)
      e == MemEffect(s, ins)
  IN /\ phase = "step" /\ ~core.stopped
     /\ core.pend # {} => /\ ~NMITakes(c)
                          /\ c.waiting => IRQLine(c)
                          /\ ~(IRQLine(c) /\ ~c.i)
     /\ AfterStep("insn", CpuEffect(IF core.pend = {} THEN c ELSE Awake(c), ins), e, Cost)
     /\ Owes(e, FALSE)

\* busTick, then a new sample is requested; the loop leaves on a break, a stop
\* or an exhausted budget, which may come at any tick.
BusTick ==
  /\ phase = "tick"
  /\ \E extra \in Stretch(m) :
       LET s == tickFast(m, since + extra) IN m' = s /\ Owes(s, FALSE)
  /\ core' = [core EXCEPT !.pend = @ \cup {"SAMPLE"}]
  /\ batch' = 0 /\ since' = 0 /\ did' = "idle"
  /\ single' \in (IF single THEN {TRUE} ELSE BOOLEAN)
  /\ phase' \in (IF m'.brk \/ core.stopped THEN {"idle"} ELSE {"idle", "step"})

LoopNext ==
  \/ EnterRun
  \/ StepStopped
  \/ \E irq \in BOOLEAN, nmi \in NMILevels :
       \/ TakeNMI(irq, nmi)
       \/ StepWaiting(irq, nmi)
       \/ TakeIRQ(irq, nmi)
       \/ \E ins \in Instr : ExecuteInstr(ins, irq, nmi)
  \/ BusTick

LoopSpec == LoopInit /\ [][LoopNext]_loopVars

-----------------------------------------------------------------------------
(* Properties.                                                              *)

\* Every path that changes the effective speed (a poll, an edge, an expiry, a
\* speed register) re-denominates the timers and the C64 clock at once: the
\* units in which deadlines are stored are those in which time passes.
RateInStep == m.factor = EffectiveFactor(m) /\ m.c64f = EffectiveFactor(m)

\* An instruction never executes over a raised synthetic NMI whose edge the
\* processor has not sampled: whether the underflow came in a tick, in a sample
\* or by enabling the mask in the middle of a batch, the next thing the
\* processor does is take it, unless it is stopped or defers it.
PromptNMI ==
  [][(did' = "insn" /\ batch' > batch)
       => ~(m.synth /\ ~core.prev /\ ~(Defer /\ core.native))]_loopVars

\* c64_memory.cpp:778 "drop the synthetic level and pending bits so the next
\* underflow is a fresh edge": a raised NMI that was neither taken nor
\* acknowledged can still be seen as an edge by the processor.
FreshEdge == owed => core.nmiP \/ ~core.prev
=============================================================================
