------------------------------- MODULE CpuProofs -------------------------------
(***************************************************************************)
(* Proofs about the 65816: about CpuLoop, for every turbo factor, hold     *)
(* length, batch length and set of timers and instructions; and about      *)
(* W65C816, for every instruction stream and every starting register file. *)
(*                                                                         *)
(* The processor's part goes bottom up: words and bytes, what each         *)
(* register write keeps, what each instruction keeps (ExecGood), that the  *)
(* fast path is the generic switch (FastIsGeneric), and that a call or an  *)
(* interrupt followed by its return changes nothing but memory below the   *)
(* stack.                                                                  *)
(***************************************************************************)
EXTENDS W65C816, CpuLoop, TLAPS

--------------------------------------------------------------------------------
(* The run loop.                                                            *)


Control == [start : BOOLEAN, once : BOOLEAN, cnt : BOOLEAN]
MemType ==
    [sel : {"fast", "slow"}, iec : Nat, poll : Nat, act : Nat,
     factor : Nat \ {0}, c64f : Nat \ {0},
     dl : [Timers -> Int \cup {None}], arm : SUBSET {"A", "B"},
     cr : [Timers -> Control], mask : SUBSET {"A", "B", "flag"}, icr : SUBSET Timers,
     synth : BOOLEAN, cnmi : BOOLEAN, cirq : BOOLEAN,
     credit : Nat, posted : BOOLEAN, brk : BOOLEAN, bus : Nat]

\* RateInStep and the level of a synthetic NMI, for any memory state.
InStep(s) == s.factor = EffectiveFactor(s) /\ s.c64f = EffectiveFactor(s)
Cached(s) == s.synth => s.cnmi
Sound(s) == s \in MemType /\ InStep(s) /\ Cached(s)

\* A handler that takes the memory from s to r: no break is forgotten, and one
\* is asked for when the synthetic level rises.
Breaks(s, r) == (s.brk => r.brk) /\ (r.synth /\ ~s.synth => r.brk)
--------------------------------------------------------------------------------
LEMMA LoopConstants ==
    /\ Turbo \in Nat \ {0} /\ Latch \in Nat /\ IECSpan \in Nat /\ PollSpan \in Nat
    /\ ActSpan \in Nat /\ Timers \subseteq {"A", "B"}
BY LoopAssumption

LEMMA FactorType == ASSUME NEW s \in MemType PROVE EffectiveFactor(s) \in Nat \ {0}
BY LoopConstants DEF EffectiveFactor

\* cia2OnRateChange: whatever the rate was, the result is denominated in it.
LEMMA RateChange ==
    ASSUME NEW s \in MemType
    PROVE  LET r == cia2OnRateChange(s)
           IN  /\ r \in MemType /\ InStep(r)
               /\ r.synth = s.synth /\ r.cnmi = s.cnmi /\ r.brk = s.brk
               /\ r.sel = s.sel /\ r.iec = s.iec /\ r.poll = s.poll
<1> DEFINE f == EffectiveFactor(s)
           r == cia2OnRateChange(s)
<1>1. f \in Nat \ {0}
  BY FactorType
<1>2. CASE f = s.factor
  <2>1. r = [s EXCEPT !.c64f = f]
    BY <1>2 DEF cia2OnRateChange
  <2>2. r \in MemType
    BY <1>1, <2>1 DEF MemType
  <2>3. /\ r.sel = s.sel /\ r.iec = s.iec /\ r.poll = s.poll
        /\ r.synth = s.synth /\ r.cnmi = s.cnmi /\ r.brk = s.brk
        /\ r.factor = s.factor /\ r.c64f = f
    BY <2>1 DEF MemType
  <2>4. EffectiveFactor(r) = f
    BY <2>3 DEF EffectiveFactor, ExplicitlySlow
  <2> QED
    BY <1>2, <2>2, <2>3, <2>4 DEF InStep
<1>3. CASE f # s.factor
  <2> DEFINE d == [t \in Timers |->
                     IF s.dl[t] = None THEN None
                     ELSE IF ((IF s.dl[t] > 0 THEN s.dl[t] ELSE 0) * f) \div s.factor = 0 THEN 1
                     ELSE ((IF s.dl[t] > 0 THEN s.dl[t] ELSE 0) * f) \div s.factor]
  <2>1. r = [s EXCEPT !.c64f = f, !.factor = f, !.dl = d]
    BY <1>3 DEF cia2OnRateChange
  <2>2. d \in [Timers -> Int \cup {None}]
    <3> SUFFICES ASSUME NEW t \in Timers, s.dl[t] # None
                 PROVE  ((IF s.dl[t] > 0 THEN s.dl[t] ELSE 0) * f) \div s.factor \in Int
      OBVIOUS
    <3>1. s.dl[t] \in Int /\ s.factor \in Nat \ {0}
      BY DEF MemType
    <3> DEFINE x == IF s.dl[t] > 0 THEN s.dl[t] ELSE 0
    <3>2. x \in Int
      BY <3>1
    <3> HIDE DEF x, f
    <3>3. x * f \in Int
      BY <1>1, <3>2
    <3>4. (x * f) \div s.factor \in Int
      BY <3>1, <3>3
    <3> QED
      BY <3>4 DEF x
  <2> HIDE DEF d, f
  <2>3. r \in MemType
    BY <1>1, <2>1, <2>2, ZenonT(30) DEF MemType
  <2>4. /\ r.sel = s.sel /\ r.iec = s.iec /\ r.poll = s.poll
        /\ r.synth = s.synth /\ r.cnmi = s.cnmi /\ r.brk = s.brk
        /\ r.factor = f /\ r.c64f = f
    BY <2>1 DEF MemType
  <2>5. EffectiveFactor(r) = f
    BY <2>4 DEF EffectiveFactor, ExplicitlySlow, f
  <2> QED
    BY <2>3, <2>4, <2>5 DEF InStep
<1> QED
  BY <1>2, <1>3

\* A handler that touches neither the rate nor the holds leaves them in step.
LEMMA SameRate ==
    ASSUME NEW s, NEW r, InStep(s), r.sel = s.sel, r.iec = s.iec, r.poll = s.poll,
           r.factor = s.factor, r.c64f = s.c64f
    PROVE  InStep(r)
BY DEF InStep, EffectiveFactor, ExplicitlySlow

LEMMA TimingHookKeeps ==
    ASSUME NEW s, Sound(s)
    PROVE  /\ Sound(TimingHook(s)) /\ Breaks(s, TimingHook(s)) /\ TimingHook(s).brk
           /\ TimingHook(s).synth = s.synth
<1> DEFINE r == TimingHook(s)
<1>1. r \in MemType /\ r.brk
  BY DEF Sound, MemType, TimingHook
<1>2. /\ r.sel = s.sel /\ r.iec = s.iec /\ r.poll = s.poll /\ r.factor = s.factor
      /\ r.c64f = s.c64f /\ r.synth = s.synth /\ r.cnmi = s.cnmi
  BY DEF Sound, MemType, TimingHook
<1>3. InStep(r)
  BY <1>2, SameRate DEF Sound
<1> QED
  BY <1>1, <1>2, <1>3 DEF Sound, Cached, Breaks

\* A change of the holds or the speed, announced or not needing it.
LEMMA RateChangeSound ==
    ASSUME NEW s, Sound(s), NEW a \in MemType,
           a.synth = s.synth, a.cnmi = s.cnmi, a.brk = s.brk
    PROVE  /\ Sound(cia2OnRateChange(a)) /\ Breaks(s, cia2OnRateChange(a))
           /\ cia2OnRateChange(a).synth = s.synth
<1> DEFINE r == cia2OnRateChange(a)
<1>1. r \in MemType /\ InStep(r) /\ r.synth = s.synth /\ r.cnmi = s.cnmi /\ r.brk = s.brk
  BY RateChange
<1> HIDE DEF r
<1>2. Cached(r) /\ Breaks(s, r)
  BY <1>1 DEF Sound, Cached, Breaks
<1> QED
  BY <1>1, <1>2 DEF Sound, r

\* One handler after another.
LEMMA BreaksCompose ==
    ASSUME NEW s, NEW a, NEW r, Breaks(s, a), Breaks(a, r) PROVE Breaks(s, r)
BY DEF Breaks

LEMMA HookedRateChange ==
    ASSUME NEW s, Sound(s), NEW a \in MemType,
           a.synth = s.synth, a.cnmi = s.cnmi, a.brk = s.brk
    PROVE  /\ Sound(TimingHook(cia2OnRateChange(a)))
           /\ Breaks(s, TimingHook(cia2OnRateChange(a)))
<1>1. Sound(cia2OnRateChange(a)) /\ Breaks(s, cia2OnRateChange(a))
  BY RateChangeSound
<1> QED
  BY <1>1, TimingHookKeeps, BreaksCompose

\* noteIECPoll: the hold is announced when it is the first.
LEMMA PollHoldSound ==
    ASSUME NEW s, Sound(s) PROVE Sound(notePollHold(s)) /\ Breaks(s, notePollHold(s))
<1> DEFINE a == [s EXCEPT !.poll = PollSpan]
<1>1. /\ a \in MemType /\ a.synth = s.synth /\ a.cnmi = s.cnmi /\ a.brk = s.brk
      /\ a.iec = s.iec /\ a.sel = s.sel /\ a.factor = s.factor /\ a.c64f = s.c64f
      /\ a.poll = PollSpan
  BY LoopConstants DEF Sound, MemType
<1>2. CASE ExplicitlySlow(s) \/ s.poll >= PollSpan
  BY <1>2 DEF notePollHold, Breaks
<1>3. CASE ~(ExplicitlySlow(s) \/ s.poll >= PollSpan)
  <2>1. CASE s.poll = 0 /\ s.iec = 0
    <3>1. notePollHold(s) = TimingHook(cia2OnRateChange(a))
      BY <1>3, <2>1 DEF notePollHold
    <3> HIDE DEF a
    <3> QED
      BY <1>1, <3>1, HookedRateChange
  <2>2. CASE ~(s.poll = 0 /\ s.iec = 0)
    <3>1. notePollHold(s) = a
      BY <1>3, <2>2 DEF notePollHold
    <3>2. s.poll \in Nat /\ s.iec \in Nat /\ PollSpan \in Nat \ {0}
      BY LoopAssumption DEF Sound, MemType
    <3>3. EffectiveFactor(s) = 1 /\ EffectiveFactor(a) = 1
      BY <1>1, <2>2, <3>2 DEF EffectiveFactor
    <3> HIDE DEF a
    <3>4. InStep(a) /\ Cached(a) /\ Breaks(s, a)
      BY <1>1, <3>3 DEF Sound, InStep, Cached, Breaks
    <3> QED
      BY <1>1, <3>1, <3>4 DEF Sound
  <2> QED
    BY <2>1, <2>2
<1> QED
  BY <1>2, <1>3

\* noteIECActivity: the same for the edge hold.
LEMMA IECActivitySound ==
    ASSUME NEW s, Sound(s) PROVE Sound(noteIECActivity(s)) /\ Breaks(s, noteIECActivity(s))
<1> DEFINE a == [s EXCEPT !.act = ActSpan, !.brk = s.brk \/ s.act = 0]
           h == [a EXCEPT !.iec = IECSpan]
<1>0. (s.brk \/ s.act = 0) \in BOOLEAN
  OBVIOUS
<1>1. a \in MemType /\ (s.brk => a.brk)
  BY <1>0, LoopConstants DEF Sound, MemType
<1>2. /\ a.synth = s.synth /\ a.cnmi = s.cnmi /\ a.poll = s.poll
      /\ a.iec = s.iec /\ a.sel = s.sel /\ a.factor = s.factor /\ a.c64f = s.c64f
  BY DEF Sound, MemType
<1> HIDE DEF a
<1>3. Sound(a) /\ Breaks(s, a)
  BY <1>1, <1>2, SameRate DEF Sound, Cached, Breaks
<1>4. /\ h \in MemType /\ h.synth = a.synth /\ h.cnmi = a.cnmi /\ h.brk = a.brk
      /\ h.poll = a.poll /\ h.sel = a.sel /\ h.factor = a.factor /\ h.c64f = a.c64f
      /\ h.iec = IECSpan
  BY <1>1, LoopConstants DEF MemType
<1>5. CASE ExplicitlySlow(s)
  <2>1. noteIECActivity(s) = a
    BY <1>5 DEF noteIECActivity, a
  <2> QED
    BY <1>3, <2>1
<1>6. CASE ~ExplicitlySlow(s) /\ s.iec = 0
  <2>1. noteIECActivity(s) = TimingHook(cia2OnRateChange(h))
    BY <1>6 DEF noteIECActivity, a
  <2> HIDE DEF h
  <2> QED
    BY <1>3, <1>4, <2>1, HookedRateChange, BreaksCompose
<1>7. CASE ~ExplicitlySlow(s) /\ s.iec # 0
  <2>1. noteIECActivity(s) = h
    BY <1>7 DEF noteIECActivity, a
  <2> HIDE DEF h
  <2>2. a.iec \in Nat /\ a.iec # 0 /\ IECSpan \in Nat \ {0}
    BY <1>1, <1>2, <1>7, LoopAssumption DEF MemType
  <2>3. EffectiveFactor(a) = 1 /\ EffectiveFactor(h) = 1
    BY <1>4, <2>2 DEF EffectiveFactor
  <2>4. InStep(h) /\ Cached(h) /\ Breaks(a, h)
    BY <1>3, <1>4, <2>3 DEF Sound, InStep, Cached, Breaks
  <2> QED
    BY <1>3, <1>4, <2>1, <2>4, BreaksCompose DEF Sound
<1> QED
  BY <1>5, <1>6, <1>7

\* cia2MaybeDeliverSynthNMI: the level rises in the cache too, and breaks the batch.
LEMMA DeliverSound ==
    ASSUME NEW s, Sound(s)
    PROVE  LET r == cia2MaybeDeliverSynthNMI(s)
           IN  Sound(r) /\ Breaks(s, r) /\ (s.synth => r.synth)
<1> DEFINE a == [s EXCEPT !.synth = TRUE, !.cnmi = TRUE]
           c == Owned(s) /\ ~s.synth /\ s.icr \cap s.mask \cap Timers # {}
<1>1. CASE ~c
  BY <1>1 DEF cia2MaybeDeliverSynthNMI, Breaks
<1>2. CASE c
  <2>1. /\ a \in MemType /\ a.synth /\ a.cnmi /\ a.brk = s.brk
        /\ a.sel = s.sel /\ a.iec = s.iec /\ a.poll = s.poll
        /\ a.factor = s.factor /\ a.c64f = s.c64f
    BY DEF Sound, MemType
  <2>2. cia2MaybeDeliverSynthNMI(s) = TimingHook(a)
    BY <1>2 DEF cia2MaybeDeliverSynthNMI
  <2> HIDE DEF a
  <2>3. Sound(a)
    BY <2>1, SameRate DEF Sound, Cached
  <2>4. Sound(TimingHook(a)) /\ TimingHook(a).brk /\ TimingHook(a).synth
    BY <2>1, <2>3, TimingHookKeeps
  <2> QED
    BY <2>2, <2>4 DEF Breaks
<1> QED
  BY <1>1, <1>2

\* $DD0D
LEMMA WriteMaskSound ==
    ASSUME NEW s, Sound(s), NEW set \in BOOLEAN, NEW bits \in SUBSET {"A", "B", "flag"}
    PROVE  Sound(WriteMask(s, set, bits)) /\ Breaks(s, WriteMask(s, set, bits))
<1> DEFINE s1 == cia2OnRateChange(s)
           mask == IF set THEN s1.mask \cup bits ELSE s1.mask \ bits
           s2 == [s1 EXCEPT !.mask = mask]
           s3 == [s2 EXCEPT !.synth = FALSE]
<1>1. Sound(s1) /\ Breaks(s, s1)
  BY RateChangeSound DEF Sound
<1>2. WriteMask(s, set, bits) =
        IF mask \cap Timers = {} THEN s3 ELSE cia2MaybeDeliverSynthNMI(s2)
  BY DEF WriteMask
<1> HIDE DEF s1
<1>3. mask \in SUBSET {"A", "B", "flag"}
  BY <1>1 DEF Sound, MemType
<1> HIDE DEF mask
<1>4. /\ s2 \in MemType /\ s2.synth = s1.synth /\ s2.cnmi = s1.cnmi /\ s2.brk = s1.brk
      /\ s2.sel = s1.sel /\ s2.iec = s1.iec /\ s2.poll = s1.poll
      /\ s2.factor = s1.factor /\ s2.c64f = s1.c64f
  BY <1>1, <1>3 DEF Sound, MemType
<1> HIDE DEF s2
<1>5. Sound(s2) /\ Breaks(s1, s2)
  BY <1>1, <1>4, SameRate DEF Sound, Cached, Breaks
<1>6. /\ s3 \in MemType /\ ~s3.synth /\ s3.cnmi = s2.cnmi /\ s3.brk = s2.brk
      /\ s3.sel = s2.sel /\ s3.iec = s2.iec /\ s3.poll = s2.poll
      /\ s3.factor = s2.factor /\ s3.c64f = s2.c64f
  BY <1>4 DEF MemType
<1> HIDE DEF s3
<1>7. Sound(s3) /\ Breaks(s2, s3)
  BY <1>5, <1>6, SameRate DEF Sound, Cached, Breaks
<1>8. Breaks(s, s2) /\ Breaks(s, s3)
  BY <1>1, <1>5, <1>7, BreaksCompose
<1>9. Sound(cia2MaybeDeliverSynthNMI(s2)) /\ Breaks(s, cia2MaybeDeliverSynthNMI(s2))
  BY <1>5, <1>8, DeliverSound, BreaksCompose
<1> QED
  BY <1>2, <1>7, <1>8, <1>9

\* A handler's own edits of fields that neither the rate nor the NMI reads.
LEMMA OtherFields ==
    ASSUME NEW s, Sound(s), NEW r \in MemType,
           r.synth = s.synth, r.cnmi = s.cnmi, r.brk = s.brk,
           r.sel = s.sel, r.iec = s.iec, r.poll = s.poll,
           r.factor = s.factor, r.c64f = s.c64f
    PROVE  Sound(r) /\ Breaks(s, r)
BY SameRate DEF Sound, Cached, Breaks

\* $DD0E/$DD0F
LEMMA WriteControlSound ==
    ASSUME NEW s, Sound(s), NEW t \in {"A", "B"},
           NEW v \in [start : BOOLEAN, once : BOOLEAN, cnt : BOOLEAN, load : BOOLEAN]
    PROVE  Sound(WriteControl(s, t, v)) /\ Breaks(s, WriteControl(s, t, v))
<1> DEFINE s1 == cia2OnRateChange(s)
           s2 == [s1 EXCEPT !.cr[t] = [start |-> v.start, once |-> v.once, cnt |-> v.cnt]]
           s3 == [s2 EXCEPT !.dl[t] = None]
           s4 == [s2 EXCEPT !.arm = @ \cup {t}]
<1>1. Sound(s1) /\ Breaks(s, s1)
  BY RateChangeSound DEF Sound
<1>2. WriteControl(s, t, v) \in {s2, s3, s4}
  BY DEF WriteControl
<1> HIDE DEF s1
<1>3. Sound(s2) /\ Breaks(s1, s2)
  <2>1. [start |-> v.start, once |-> v.once, cnt |-> v.cnt] \in Control
    BY DEF Control
  <2> DEFINE w == [start |-> v.start, once |-> v.once, cnt |-> v.cnt]
  <2> HIDE DEF w
  <2>2. s2 = [s1 EXCEPT !.cr = [s1.cr EXCEPT ![t] = w]]
    BY <1>1 DEF Sound, MemType, w
  <2>3. [s1.cr EXCEPT ![t] = w] \in [Timers -> Control]
    BY <1>1, <2>1 DEF Sound, MemType, w
  <2> DEFINE cr == [s1.cr EXCEPT ![t] = w]
  <2>4. s2 = [s1 EXCEPT !.cr = cr] /\ cr \in [Timers -> Control]
    BY <2>2, <2>3
  <2> HIDE DEF s2, cr
  <2>5. /\ s2 \in MemType /\ s2.synth = s1.synth /\ s2.cnmi = s1.cnmi /\ s2.brk = s1.brk
        /\ s2.sel = s1.sel /\ s2.iec = s1.iec /\ s2.poll = s1.poll
        /\ s2.factor = s1.factor /\ s2.c64f = s1.c64f
    BY <1>1, <2>4 DEF Sound, MemType
  <2> QED
    BY <1>1, <2>5, OtherFields
<1> HIDE DEF s2
<1>4. Sound(s3) /\ Breaks(s2, s3)
  <2> DEFINE dl == [s2.dl EXCEPT ![t] = None]
  <2>1. s3 = [s2 EXCEPT !.dl = dl] /\ dl \in [Timers -> Int \cup {None}]
    BY <1>3 DEF Sound, MemType
  <2> HIDE DEF s3, dl
  <2>2. /\ s3 \in MemType /\ s3.synth = s2.synth /\ s3.cnmi = s2.cnmi /\ s3.brk = s2.brk
        /\ s3.sel = s2.sel /\ s3.iec = s2.iec /\ s3.poll = s2.poll
        /\ s3.factor = s2.factor /\ s3.c64f = s2.c64f
    BY <1>3, <2>1 DEF Sound, MemType
  <2> QED
    BY <1>3, <2>2, OtherFields
<1>5. Sound(s4) /\ Breaks(s2, s4)
  <2>1. /\ s4 \in MemType /\ s4.synth = s2.synth /\ s4.cnmi = s2.cnmi /\ s4.brk = s2.brk
        /\ s4.sel = s2.sel /\ s4.iec = s2.iec /\ s4.poll = s2.poll
        /\ s4.factor = s2.factor /\ s4.c64f = s2.c64f
    BY <1>3 DEF Sound, MemType
  <2> QED
    BY <1>3, <2>1, OtherFields
<1> HIDE DEF s3, s4
<1>6. Breaks(s, s2) /\ Breaks(s, s3) /\ Breaks(s, s4)
  BY <1>1, <1>3, <1>4, <1>5, BreaksCompose
<1> QED
  BY <1>2, <1>3, <1>4, <1>5, <1>6

LEMMA SpanType == ASSUME NEW s \in MemType PROVE Span(s) \in Int
<1>1. s.factor \in Nat /\ Latch + 1 \in Nat
  BY LoopConstants DEF MemType
<1> DEFINE x == Latch + 1
<1> HIDE DEF x
<1>2. x * s.factor \in Int
  BY <1>1 DEF x
<1> QED
  BY <1>2 DEF Span, x

LEMMA FinishArmSound ==
    ASSUME NEW s, Sound(s) PROVE Sound(cia2FinishArm(s)) /\ Breaks(s, cia2FinishArm(s))
<1> DEFINE s1 == cia2OnRateChange(s)
           dl == [t \in Timers |-> IF t \in s1.arm THEN Span(s1) ELSE s1.dl[t]]
           r == [s1 EXCEPT !.arm = {}, !.dl = dl]
<1>1. Sound(s1) /\ Breaks(s, s1)
  BY RateChangeSound DEF Sound
<1>2. cia2FinishArm(s) = r
  BY DEF cia2FinishArm
<1> HIDE DEF s1
<1>3. dl \in [Timers -> Int \cup {None}]
  BY <1>1, SpanType DEF Sound, MemType
<1> HIDE DEF dl
<1>4. /\ r \in MemType /\ r.synth = s1.synth /\ r.cnmi = s1.cnmi /\ r.brk = s1.brk
      /\ r.sel = s1.sel /\ r.iec = s1.iec /\ r.poll = s1.poll
      /\ r.factor = s1.factor /\ r.c64f = s1.c64f
  BY <1>1, <1>3 DEF Sound, MemType
<1> HIDE DEF r
<1> QED
  BY <1>1, <1>2, <1>4, OtherFields, BreaksCompose

\* ciaTimerNMIDue: what is due is reloaded or stopped, and delivered.
LEMMA TimerDueSound ==
    ASSUME NEW s, Sound(s)
    PROVE  /\ Sound(ciaTimerNMIDue(s)) /\ Breaks(s, ciaTimerNMIDue(s))
           /\ s.synth => ciaTimerNMIDue(s).synth
<1> DEFINE s1 == cia2OnRateChange(s)
           due == {t \in Timers : s1.dl[t] # None /\ s1.dl[t] <= 0}
           icr == s1.icr \cup due
           dl == [t \in Timers |-> IF t \notin due THEN s1.dl[t]
                                   ELSE IF s1.cr[t].once THEN None ELSE s1.dl[t] + Span(s1)]
           cr == [t \in Timers |-> IF t \in due /\ s1.cr[t].once
                                   THEN [s1.cr[t] EXCEPT !.start = FALSE] ELSE s1.cr[t]]
           a == [s1 EXCEPT !.icr = icr, !.dl = dl, !.cr = cr]
<1>1. Sound(s1) /\ Breaks(s, s1) /\ s1.synth = s.synth
  BY RateChangeSound DEF Sound
<1>2. ciaTimerNMIDue(s) = cia2MaybeDeliverSynthNMI(a)
  BY DEF ciaTimerNMIDue
<1> HIDE DEF s1
<1>3. icr \in SUBSET Timers
  BY <1>1 DEF Sound, MemType
<1>4. \A t \in Timers : t \in due => s1.dl[t] \in Int
  BY <1>1 DEF Sound, MemType
<1> HIDE DEF due
<1>5. dl \in [Timers -> Int \cup {None}]
  BY <1>1, <1>4, SpanType DEF Sound, MemType
<1>6. cr \in [Timers -> Control]
  <2>1. \A t \in Timers : s1.cr[t] \in Control
    BY <1>1 DEF Sound, MemType
  <2>2. \A c \in Control : [c EXCEPT !.start = FALSE] \in Control
    BY DEF Control
  <2> QED
    BY <2>1, <2>2
<1> HIDE DEF icr, dl, cr
<1>7. /\ a \in MemType /\ a.synth = s1.synth /\ a.cnmi = s1.cnmi /\ a.brk = s1.brk
      /\ a.sel = s1.sel /\ a.iec = s1.iec /\ a.poll = s1.poll
      /\ a.factor = s1.factor /\ a.c64f = s1.c64f
  BY <1>1, <1>3, <1>5, <1>6 DEF Sound, MemType
<1> HIDE DEF a
<1>8. Sound(a) /\ Breaks(s, a) /\ a.synth = s.synth
  BY <1>1, <1>7, OtherFields, BreaksCompose
<1> QED
  BY <1>2, <1>8, DeliverSound, BreaksCompose

LEMMA IfDueSound ==
    ASSUME NEW s, Sound(s)
    PROVE  Sound(IfDue(s)) /\ Breaks(s, IfDue(s)) /\ (s.synth => IfDue(s).synth)
<1>1. Breaks(s, s)
  BY DEF Breaks
<1> QED
  BY <1>1, TimerDueSound DEF IfDue

LEMMA ReadICRSound ==
    ASSUME NEW s, Sound(s) PROVE Sound(ReadICR(s)) /\ Breaks(s, ReadICR(s))
<1> DEFINE r == ReadICR(s)
<1>1. /\ r \in MemType /\ ~r.synth /\ r.cnmi = s.cnmi /\ r.brk = s.brk
      /\ r.sel = s.sel /\ r.iec = s.iec /\ r.poll = s.poll
      /\ r.factor = s.factor /\ r.c64f = s.c64f
  BY DEF Sound, MemType, ReadICR
<1> HIDE DEF r
<1>2. Sound(r) /\ Breaks(s, r)
  BY <1>1, SameRate DEF Sound, Cached, Breaks
<1> QED
  BY <1>2 DEF r

LEMMA AccessSound ==
    ASSUME NEW s, Sound(s), NEW k \in Nat PROVE Sound(Access(s, k)) /\ Breaks(s, Access(s, k))
<1> DEFINE r == Access(s, k)
<1>1. /\ r \in MemType /\ r.synth = s.synth /\ r.cnmi = s.cnmi /\ r.brk = s.brk
      /\ r.sel = s.sel /\ r.iec = s.iec /\ r.poll = s.poll
      /\ r.factor = s.factor /\ r.c64f = s.c64f
  BY DEF Sound, MemType, Access
<1> HIDE DEF r
<1>2. Sound(r) /\ Breaks(s, r)
  BY <1>1, OtherFields
<1> QED
  BY <1>2 DEF r

\* setPacing through the speed registers, and the end of the poll hold with it.
LEMMA SpeedSound ==
    ASSUME NEW s, Sound(s), NEW sel \in {"fast", "slow"}
    PROVE  Sound(TimingHook(setPacing(s, sel))) /\ Breaks(s, TimingHook(setPacing(s, sel)))
<1> DEFINE a == [s EXCEPT !.sel = sel, !.iec = IF sel = "slow" THEN 0 ELSE s.iec]
<1>1. a \in MemType /\ a.synth = s.synth /\ a.cnmi = s.cnmi /\ a.brk = s.brk
  BY DEF Sound, MemType
<1>2. setPacing(s, sel) = cia2OnRateChange(a)
  BY DEF setPacing
<1> HIDE DEF a
<1> QED
  BY <1>1, <1>2, HookedRateChange

LEMMA PollDroppedSound ==
    ASSUME NEW s, Sound(s)
    PROVE  LET r == TimingHook(cia2OnRateChange([s EXCEPT !.poll = 0]))
           IN  Sound(r) /\ Breaks(s, r)
<1> DEFINE a == [s EXCEPT !.poll = 0]
<1>1. a \in MemType /\ a.synth = s.synth /\ a.cnmi = s.cnmi /\ a.brk = s.brk
  BY DEF Sound, MemType
<1> HIDE DEF a
<1>2. Sound(TimingHook(cia2OnRateChange(a))) /\ Breaks(s, TimingHook(cia2OnRateChange(a)))
  BY <1>1, HookedRateChange
<1> QED
  BY <1>2 DEF a

\* What any instruction does to the memory.
LEMMA MemEffectSound ==
    ASSUME NEW s, Sound(s), NEW ins
    PROVE  Sound(MemEffect(s, ins)) /\ Breaks(s, MemEffect(s, ins))
<1> DEFINE e == MemEffect(s, ins)
<1>0. Breaks(s, s)
  BY DEF Breaks
<1>a. /\ DOMAIN ControlsA = {"startA", "onceA", "stopA", "cntA"}
      /\ DOMAIN ControlsB = {"startB", "onceB", "stopB", "cntB"}
  BY DEF ControlsA, ControlsB
<1>1. CASE ins = "mirror"
  <2> DEFINE r == [s EXCEPT !.posted = TRUE]
  <2>1. /\ r \in MemType /\ r.synth = s.synth /\ r.cnmi = s.cnmi /\ r.brk = s.brk
        /\ r.sel = s.sel /\ r.iec = s.iec /\ r.poll = s.poll
        /\ r.factor = s.factor /\ r.c64f = s.c64f
    BY DEF Sound, MemType
  <2>2. e = r
    BY <1>1, <1>a DEF MemEffect
  <2> HIDE DEF r, e
  <2>3. Sound(e) /\ Breaks(s, e)
    BY <2>1, <2>2, OtherFields
  <2> QED
    BY <2>3 DEF e
<1>2. CASE ins = "poll"
  BY <1>2, AccessSound, PollHoldSound, BreaksCompose, <1>a DEF MemEffect
<1>3. CASE ins = "pollLow"
  <2>1. Sound(notePollHold(Access(s, 1))) /\ Breaks(s, notePollHold(Access(s, 1)))
    BY AccessSound, PollHoldSound, BreaksCompose
  <2> QED
    BY <1>3, <2>1, IECActivitySound, BreaksCompose, <1>a DEF MemEffect
<1>4. CASE ins = "edge"
  BY <1>4, AccessSound, IECActivitySound, BreaksCompose, <1>a DEF MemEffect
<1>5. CASE ins = "icr"
  BY <1>5, AccessSound, ReadICRSound, BreaksCompose, <1>a DEF MemEffect
<1>6. ASSUME NEW set \in BOOLEAN, NEW bits \in SUBSET {"A", "B", "flag"},
             e = Access(WriteMask(s, set, bits), 2)
      PROVE  Sound(e) /\ Breaks(s, e)
  BY <1>6, AccessSound, WriteMaskSound, BreaksCompose
<1>7. CASE ins = "maskA"
  <2>1. e = Access(WriteMask(s, TRUE, {"A"}), 2)
    BY <1>7, <1>a DEF MemEffect
  <2> QED
    BY <1>6, <2>1
<1>8. CASE ins = "maskB"
  <2>1. e = Access(WriteMask(s, TRUE, {"B"}), 2)
    BY <1>8, <1>a DEF MemEffect
  <2> QED
    BY <1>6, <2>1
<1>9. CASE ins = "maskFlag"
  <2>1. e = Access(WriteMask(s, TRUE, {"flag"}), 2)
    BY <1>9, <1>a DEF MemEffect
  <2> QED
    BY <1>6, <2>1
<1>10. CASE ins = "unmask"
  <2>1. e = Access(WriteMask(s, FALSE, {"A", "B", "flag"}), 2)
    BY <1>10, <1>a DEF MemEffect
  <2> QED
    BY <1>6, <2>1
<1>11. CASE ins \in {"slow", "fast"}
  <2> DEFINE s1 == IF s.sel = ins THEN s ELSE TimingHook(setPacing(s, ins))
  <2>1. Sound(s1) /\ Breaks(s, s1)
    BY <1>0, <1>11, SpeedSound
  <2>2. e = IF s1.poll = 0 THEN s1 ELSE TimingHook(cia2OnRateChange([s1 EXCEPT !.poll = 0]))
    BY <1>11, <1>a DEF MemEffect
  <2> HIDE DEF s1, e
  <2>3. Sound(e) /\ Breaks(s, e)
    BY <2>1, <2>2, PollDroppedSound, BreaksCompose
  <2> QED
    BY <2>3 DEF e
<1>12. ASSUME NEW t \in {"A", "B"}, NEW kind, e = Access(WriteControl(s, t, ControlValue(kind)), 2)
       PROVE  Sound(e) /\ Breaks(s, e)
  <2>1. ControlValue(kind) \in [start : BOOLEAN, once : BOOLEAN, cnt : BOOLEAN, load : BOOLEAN]
    BY DEF ControlValue
  <2> QED
    BY <1>12, <2>1, AccessSound, WriteControlSound, BreaksCompose
<1>13. CASE ins \in DOMAIN ControlsA
  <2>1. ins \in {"startA", "onceA", "stopA", "cntA"}
    BY <1>13 DEF ControlsA
  <2>2. e = Access(WriteControl(s, "A", ControlValue(ControlsA[ins])), 2)
    BY <1>13, <2>1, <1>a DEF MemEffect
  <2> QED
    BY <1>12, <2>2
<1>14. CASE ins \in DOMAIN ControlsB
  <2>1. ins \in {"startB", "onceB", "stopB", "cntB"}
    BY <1>14 DEF ControlsB
  <2>2. ins \notin DOMAIN ControlsA
    BY <2>1 DEF ControlsA
  <2>3. e = Access(WriteControl(s, "B", ControlValue(ControlsB[ins])), 2)
    BY <1>14, <2>1, <2>2, <1>a DEF MemEffect
  <2> QED
    BY <1>12, <2>3
<1>15. CASE /\ ins \notin {"mirror", "poll", "pollLow", "edge", "icr", "maskA", "maskB",
                           "maskFlag", "unmask", "slow", "fast"}
            /\ ins \notin DOMAIN ControlsA /\ ins \notin DOMAIN ControlsB
  BY <1>0, <1>15, <1>a DEF MemEffect
<1> HIDE DEF e
<1> QED
  BY <1>1, <1>2, <1>3, <1>4, <1>5, <1>7, <1>8, <1>9, <1>10, <1>11, <1>13, <1>14, <1>15

\* The passage of n cycles, before anything is due.
LEMMA AdvanceSound ==
    ASSUME NEW s, Sound(s), NEW n \in Nat PROVE Sound(Advance(s, n)) /\ Breaks(s, Advance(s, n))
<1> DEFINE credit == IF s.credit + n > Turbo THEN Turbo ELSE s.credit + n
           dl == [t \in Timers |-> IF s.dl[t] = None THEN None ELSE s.dl[t] - n]
           r == [s EXCEPT !.bus = 0, !.posted = FALSE, !.credit = credit, !.dl = dl]
<1>1. Advance(s, n) = r
  BY DEF Advance
<1>2. credit \in Nat
  BY LoopConstants DEF Sound, MemType
<1>3. dl \in [Timers -> Int \cup {None}]
  BY DEF Sound, MemType
<1> HIDE DEF credit, dl
<1>4. /\ r \in MemType /\ r.synth = s.synth /\ r.cnmi = s.cnmi /\ r.brk = s.brk
      /\ r.sel = s.sel /\ r.iec = s.iec /\ r.poll = s.poll
      /\ r.factor = s.factor /\ r.c64f = s.c64f
  BY <1>2, <1>3 DEF Sound, MemType
<1> HIDE DEF r
<1> QED
  BY <1>1, <1>4, OtherFields

LEMMA DownType == ASSUME NEW x \in Nat, NEW n \in Nat PROVE Down(x, n) \in Nat /\ (x = 0 => Down(x, n) = 0)
BY DEF Down

\* The poll hold counts down; its end is announced unless the edge hold remains.
LEMMA PollCountdownSound ==
    ASSUME NEW s, Sound(s), NEW n \in Nat
    PROVE  Sound(PollCountdown(s, n)) /\ Breaks(s, PollCountdown(s, n))
<1> DEFINE a == [s EXCEPT !.poll = Down(s.poll, n)]
<1>1. s.poll \in Nat /\ s.iec \in Nat /\ Down(s.poll, n) \in Nat /\ (s.poll = 0 => Down(s.poll, n) = 0)
  BY DownType DEF Sound, MemType
<1>2. /\ a \in MemType /\ a.synth = s.synth /\ a.cnmi = s.cnmi /\ a.brk = s.brk
      /\ a.sel = s.sel /\ a.iec = s.iec /\ a.poll = Down(s.poll, n)
      /\ a.factor = s.factor /\ a.c64f = s.c64f
  BY <1>1 DEF Sound, MemType
<1>3. PollCountdown(s, n) = IF s.poll > 0 /\ a.poll = 0 /\ s.iec = 0
                            THEN TimingHook(cia2OnRateChange(a)) ELSE a
  BY DEF PollCountdown
<1> HIDE DEF a
<1>4. CASE s.poll > 0 /\ a.poll = 0 /\ s.iec = 0
  BY <1>2, <1>3, <1>4, HookedRateChange
<1>5. CASE ~(s.poll > 0 /\ a.poll = 0 /\ s.iec = 0)
  <2>1. EffectiveFactor(a) = EffectiveFactor(s)
    BY <1>1, <1>2, <1>5 DEF EffectiveFactor, ExplicitlySlow
  <2>2. InStep(a) /\ Cached(a) /\ Breaks(s, a)
    BY <1>2, <2>1 DEF Sound, InStep, Cached, Breaks
  <2> QED
    BY <1>2, <1>3, <1>5, <2>2 DEF Sound
<1> QED
  BY <1>4, <1>5

LEMMA IECCountdownSound ==
    ASSUME NEW s, Sound(s), NEW n \in Nat
    PROVE  Sound(IECCountdown(s, n)) /\ Breaks(s, IECCountdown(s, n))
<1> DEFINE a == [s EXCEPT !.iec = Down(s.iec, n)]
<1>1. s.poll \in Nat /\ s.iec \in Nat /\ Down(s.iec, n) \in Nat /\ (s.iec = 0 => Down(s.iec, n) = 0)
  BY DownType DEF Sound, MemType
<1>2. /\ a \in MemType /\ a.synth = s.synth /\ a.cnmi = s.cnmi /\ a.brk = s.brk
      /\ a.sel = s.sel /\ a.iec = Down(s.iec, n) /\ a.poll = s.poll
      /\ a.factor = s.factor /\ a.c64f = s.c64f
  BY <1>1 DEF Sound, MemType
<1>3. IECCountdown(s, n) = IF s.iec > 0 /\ a.iec = 0 /\ s.poll = 0
                           THEN TimingHook(cia2OnRateChange(a)) ELSE a
  BY DEF IECCountdown
<1> HIDE DEF a
<1>4. CASE s.iec > 0 /\ a.iec = 0 /\ s.poll = 0
  BY <1>2, <1>3, <1>4, HookedRateChange
<1>5. CASE ~(s.iec > 0 /\ a.iec = 0 /\ s.poll = 0)
  <2>1. EffectiveFactor(a) = EffectiveFactor(s)
    BY <1>1, <1>2, <1>5 DEF EffectiveFactor, ExplicitlySlow
  <2>2. InStep(a) /\ Cached(a) /\ Breaks(s, a)
    BY <1>2, <2>1 DEF Sound, InStep, Cached, Breaks
  <2> QED
    BY <1>2, <1>3, <1>5, <2>2 DEF Sound
<1> QED
  BY <1>4, <1>5

\* A whole tick, in the order of its parts.
LEMMA TickSound ==
    ASSUME NEW s, Sound(s), NEW n \in Nat PROVE Sound(tickFast(s, n)) /\ Breaks(s, tickFast(s, n))
<1> DEFINE s1 == Advance(s, n)
           a == IF s1.arm # {} THEN cia2FinishArm(s1) ELSE s1
           s2 == IfDue(a)
           s3 == [s2 EXCEPT !.act = Down(s2.act, n)]
           s4 == PollCountdown(s3, n)
<1>1. tickFast(s, n) = IECCountdown(s4, n)
  BY DEF tickFast
<1>2. Sound(s1) /\ Breaks(s, s1)
  BY AdvanceSound
<1> HIDE DEF s1
<1>3. Sound(a) /\ Breaks(s, a)
  BY <1>2, FinishArmSound, BreaksCompose
<1> HIDE DEF a
<1>4. Sound(s2) /\ Breaks(s, s2)
  BY <1>3, IfDueSound, BreaksCompose
<1> HIDE DEF s2
<1>5. Sound(s3) /\ Breaks(s, s3)
  <2>1. Down(s2.act, n) \in Nat
    BY <1>4, DownType DEF Sound, MemType
  <2>2. /\ s3 \in MemType /\ s3.synth = s2.synth /\ s3.cnmi = s2.cnmi /\ s3.brk = s2.brk
        /\ s3.sel = s2.sel /\ s3.iec = s2.iec /\ s3.poll = s2.poll
        /\ s3.factor = s2.factor /\ s3.c64f = s2.c64f
    BY <1>4, <2>1 DEF Sound, MemType
  <2> HIDE DEF s3
  <2> QED
    BY <1>4, <2>2, OtherFields, BreaksCompose
<1> HIDE DEF s3
<1>6. Sound(s4) /\ Breaks(s, s4)
  BY <1>5, PollCountdownSound, BreaksCompose
<1> HIDE DEF s4
<1> QED
  BY <1>1, <1>6, IECCountdownSound, BreaksCompose

\* The lines are sampled into the cache; a raised synthetic level stays in it.
LEMMA RefreshSound ==
    ASSUME NEW s, Sound(s), NEW irq \in BOOLEAN, NEW nmi \in BOOLEAN
    PROVE  LET r == refreshInterruptsIfDue(s, irq, nmi)
           IN  Sound(r) /\ Breaks(s, r) /\ (s.synth => r.synth)
<1> DEFINE s1 == IfDue(s)
           level == IF Owned(s1) THEN s1.synth ELSE nmi \/ s1.synth
           r == [s1 EXCEPT !.cirq = irq, !.credit = 0, !.cnmi = level]
<1>1. Sound(s1) /\ Breaks(s, s1) /\ (s.synth => s1.synth)
  BY IfDueSound
<1>2. refreshInterruptsIfDue(s, irq, nmi) = IF s1.credit >= EffectiveFactor(s1) THEN r ELSE s1
  BY DEF refreshInterruptsIfDue
<1> HIDE DEF s1
<1>3. level \in BOOLEAN /\ (s1.synth => level)
  BY <1>1 DEF Sound, MemType
<1> HIDE DEF level
<1>4. /\ r \in MemType /\ r.synth = s1.synth /\ r.cnmi = level /\ r.brk = s1.brk
      /\ r.sel = s1.sel /\ r.iec = s1.iec /\ r.poll = s1.poll
      /\ r.factor = s1.factor /\ r.c64f = s1.c64f
  BY <1>1, <1>3 DEF Sound, MemType
<1> HIDE DEF r
<1>5. Sound(r) /\ Breaks(s1, r)
  BY <1>1, <1>3, <1>4, SameRate DEF Sound, Cached, Breaks
<1> QED
  BY <1>1, <1>2, <1>4, <1>5, BreaksCompose

--------------------------------------------------------------------------------
(* The processor.                                                             *)

Pendings == {"STOPPED", "WAITING", "NMI", "SAMPLE", "IRQLINE"}
CpuType == [stopped : BOOLEAN, waiting : BOOLEAN, nmiP : BOOLEAN, prev : BOOLEAN,
            pend : SUBSET Pendings, i : BOOLEAN, native : BOOLEAN]

\* A raised synthetic level the processor has not seen is sampled before the
\* next instruction: only the first of a batch can meet one.
SampleInv == phase = "step" /\ m.synth /\ ~core.prev => "SAMPLE" \in core.pend

LoopIInv == Sound(m) /\ core \in CpuType /\ since \in Nat /\ batch \in Nat /\ SampleInv

\* The stretch of a batch is a number of cycles.
LEMMA StretchType == ASSUME NEW s \in MemType PROVE Stretch(s) \subseteq Nat
<1> SUFFICES ASSUME NEW x \in Stretch(s) PROVE x \in Nat
  OBVIOUS
<1>1. s.bus \in Nat /\ Turbo \in Nat
  BY LoopConstants DEF MemType
<1>2. CASE EffectiveFactor(s) = 1
  BY <1>2 DEF Stretch
<1>3. CASE EffectiveFactor(s) # 1
  <2> DEFINE lo == IF s.bus > 0 THEN (s.bus - 1) * Turbo + 1 ELSE 0
             k == s.bus + (IF s.posted THEN 1 ELSE 0)
             hi == k * Turbo
  <2>1. lo \in Nat
    <3>1. CASE s.bus > 0
      <4> DEFINE y == s.bus - 1
      <4>1. y \in Nat
        BY <1>1, <3>1
      <4> HIDE DEF y
      <4>2. y * Turbo \in Nat
        BY <1>1, <4>1
      <4> QED
        BY <3>1, <4>2 DEF y
    <3> QED
      BY <3>1
  <2>2. k \in Nat
    BY <1>1
  <2> HIDE DEF k
  <2>3. hi \in Nat
    BY <1>1, <2>2
  <2>4. x \in lo..hi
    BY <1>3 DEF Stretch, k
  <2> HIDE DEF lo, hi
  <2> QED
    BY <2>1, <2>3, <2>4
<1> QED
  BY <1>2, <1>3

\* What the prologue of an instruction leaves: the memory and the processor.
LEMMA PrologueFacts ==
    ASSUME LoopIInv, NEW irq \in BOOLEAN, NEW nmi \in BOOLEAN
    PROVE  LET s == SampledMem(irq, nmi)
               c == Sampled(s)
           IN  /\ Sound(s) /\ Breaks(m, s) /\ c \in CpuType
               /\ m.synth => s.synth
               /\ phase = "step" /\ s.synth => c.prev
               /\ c.native = core.native /\ c.stopped = core.stopped
               /\ m.synth /\ ~core.prev /\ "SAMPLE" \in core.pend => c.nmiP
<1> DEFINE s == SampledMem(irq, nmi)
           c == Sampled(s)
<1>1. CASE "SAMPLE" \notin core.pend
  <2>1. s = m /\ c = core
    BY <1>1 DEF SampledMem, Sampled
  <2> HIDE DEF s, c
  <2> QED
    BY <1>1, <2>1 DEF LoopIInv, SampleInv, Breaks, s, c
<1>2. CASE "SAMPLE" \in core.pend
  <2>1. s = refreshInterruptsIfDue(m, irq, nmi)
    BY <1>2 DEF SampledMem
  <2>2. Sound(s) /\ Breaks(m, s) /\ (m.synth => s.synth)
    BY <2>1, RefreshSound DEF LoopIInv
  <2> HIDE DEF s
  <2> DEFINE p == core.nmiP \/ (s.cnmi /\ ~core.prev)
             q == (core.pend \ {"SAMPLE", "IRQLINE", "NMI"})
                    \cup (IF s.cirq THEN {"IRQLINE"} ELSE {}) \cup (IF p THEN {"NMI"} ELSE {})
  <2>3. c = [core EXCEPT !.nmiP = p, !.prev = s.cnmi, !.pend = q]
    BY <1>2 DEF Sampled
  <2>4. p \in BOOLEAN /\ s.cnmi \in BOOLEAN /\ q \in SUBSET Pendings
    BY <2>2 DEF Sound, MemType, LoopIInv, CpuType, Pendings
  <2>5. s.cnmi /\ ~core.prev => p
    OBVIOUS
  <2> HIDE DEF p, q, c
  <2>6. /\ c \in CpuType /\ c.prev = s.cnmi /\ c.nmiP = p
        /\ c.native = core.native /\ c.stopped = core.stopped
    BY <2>3, <2>4 DEF LoopIInv, CpuType
  <2>7. s.synth => s.cnmi
    BY <2>2 DEF Sound, Cached
  <2> QED
    BY <2>2, <2>5, <2>6, <2>7 DEF c, s
<1> QED
  BY <1>1, <1>2

\* The end of a step: a level that rose in it has broken the batch.
LEMMA AfterStepKeeps ==
    ASSUME NEW kind, NEW c \in CpuType, NEW s, NEW e, NEW cost \in Nat, LoopIInv,
           Sound(e), Breaks(s, e), s.synth => c.prev,
           AfterStep(kind, c, e, cost)
    PROVE  LoopIInv'
<1>1. core' = c /\ m' = e /\ since' \in Nat /\ batch' \in Nat
  BY DEF AfterStep, LoopIInv
<1>2. phase' = "step" => ~e.brk
  BY DEF AfterStep
<1>3. SampleInv'
  BY <1>1, <1>2 DEF SampleInv, Breaks
<1>4. Sound(m)'
  BY <1>1 DEF Sound, MemType, InStep, Cached, EffectiveFactor, ExplicitlySlow
<1> QED
  BY <1>1, <1>3, <1>4 DEF LoopIInv

LEMMA CpuEffectKeeps ==
    ASSUME NEW c \in CpuType, NEW ins
    PROVE  CpuEffect(c, ins) \in CpuType /\ CpuEffect(c, ins).prev = c.prev
<1>1. CASE ins = "cli"
  BY <1>1 DEF CpuEffect, CpuType
<1>2. CASE ins = "sei"
  BY <1>2 DEF CpuEffect, CpuType
<1>3. CASE ins = "xce"
  <2> DEFINE n == ~c.native
  <2>1. CpuEffect(c, ins) = [c EXCEPT !.native = n] /\ n \in BOOLEAN
    BY <1>3 DEF CpuEffect
  <2> HIDE DEF n
  <2> QED
    BY <2>1 DEF CpuType
<1>4. CASE ins = "wai"
  BY <1>4 DEF CpuEffect, CpuType, Pendings
<1>5. CASE ins = "stp"
  BY <1>5 DEF CpuEffect, CpuType, Pendings
<1>6. CASE ins \notin {"cli", "sei", "xce", "wai", "stp"}
  BY <1>6 DEF CpuEffect
<1> QED
  BY <1>1, <1>2, <1>3, <1>4, <1>5, <1>6

LEMMA AwakeKeeps ==
    ASSUME NEW c \in CpuType PROVE Awake(c) \in CpuType /\ Awake(c).prev = c.prev
BY DEF Awake, CpuType, Pendings

LEMMA LoopInitIInv == LoopInit => LoopIInv
<1> SUFFICES ASSUME LoopInit PROVE LoopIInv
  OBVIOUS
<1>1. m \in MemType
  BY LoopConstants DEF LoopInit, MemType, Control
<1>2. EffectiveFactor(m) = Turbo /\ m.factor = Turbo /\ m.c64f = Turbo /\ m.synth = FALSE
  BY DEF LoopInit, EffectiveFactor, ExplicitlySlow
<1>3. Sound(m)
  BY <1>1, <1>2 DEF Sound, InStep, Cached
<1>4. core \in CpuType /\ since \in Nat /\ batch \in Nat /\ SampleInv
  BY <1>2 DEF LoopInit, CpuType, Pendings, SampleInv
<1> QED
  BY <1>3, <1>4 DEF LoopIInv

LEMMA LoopInductiveStep == LoopIInv /\ [LoopNext]_loopVars => LoopIInv'
<1> SUFFICES ASSUME LoopIInv, [LoopNext]_loopVars PROVE LoopIInv'
  OBVIOUS
<1>0. /\ NMILevels \subseteq BOOLEAN /\ Cost \in Nat /\ IdleCost \in Nat
  BY LoopAssumption DEF Cost, IdleCost
<1>1. CASE EnterRun
  <2> DEFINE r == [m EXCEPT !.brk = FALSE]
  <2>1. m' = r
    BY <1>1 DEF EnterRun
  <2>2. /\ r \in MemType /\ r.synth = m.synth /\ r.cnmi = m.cnmi
        /\ r.sel = m.sel /\ r.iec = m.iec /\ r.poll = m.poll
        /\ r.factor = m.factor /\ r.c64f = m.c64f
    BY DEF LoopIInv, Sound, MemType
  <2> HIDE DEF r
  <2>3. Sound(r)
    BY <2>2, SameRate DEF LoopIInv, Sound, Cached
  <2>4. Sound(m)'
    BY <2>1, <2>3 DEF Sound, MemType, InStep, Cached, EffectiveFactor, ExplicitlySlow
  <2>5. core' \in CpuType /\ "SAMPLE" \in core'.pend
    BY <1>1 DEF EnterRun, rebuildPending, LoopIInv, CpuType, Pendings
  <2>6. since' \in Nat /\ batch' \in Nat
    BY <1>1 DEF EnterRun
  <2> QED
    BY <2>4, <2>5, <2>6 DEF LoopIInv, SampleInv
<1>2. CASE StepStopped
  <2>1. core' = core /\ m' = m /\ phase' = "tick" /\ since' \in Nat /\ batch' \in Nat
    BY <1>0, <1>2 DEF StepStopped, AfterStep, LoopIInv
  <2> QED
    BY <2>1 DEF LoopIInv, SampleInv, Sound, MemType, InStep, Cached, EffectiveFactor, ExplicitlySlow
<1>3. ASSUME NEW irq \in BOOLEAN, NEW nmi \in NMILevels,
             \/ TakeNMI(irq, nmi) \/ StepWaiting(irq, nmi) \/ TakeIRQ(irq, nmi)
             \/ \E ins \in Instr : ExecuteInstr(ins, irq, nmi)
      PROVE  LoopIInv'
  <2> DEFINE s == SampledMem(irq, nmi)
             c == Sampled(s)
  <2>0. phase = "step"
    BY <1>3 DEF TakeNMI, StepWaiting, TakeIRQ, ExecuteInstr
  <2>1. Sound(s) /\ Breaks(s, s) /\ c \in CpuType /\ (s.synth => c.prev)
    BY <1>0, <2>0, PrologueFacts DEF Breaks
  <2>2. CASE TakeNMI(irq, nmi)
    <3> DEFINE d == [c EXCEPT !.nmiP = FALSE, !.waiting = FALSE, !.i = TRUE,
                              !.pend = @ \ {"NMI", "WAITING"}]
    <3>1. AfterStep("entry", d, s, Cost)
      BY <2>2 DEF TakeNMI
    <3> HIDE DEF c, s
    <3>2. d \in CpuType /\ d.prev = c.prev
      BY <2>1 DEF CpuType
    <3> HIDE DEF d
    <3> QED
      BY <1>0, <2>1, <3>1, <3>2, AfterStepKeeps
  <2>3. CASE StepWaiting(irq, nmi)
    <3>1. AfterStep("idle", c, s, IdleCost)
      BY <2>3 DEF StepWaiting
    <3> HIDE DEF c, s
    <3> QED
      BY <1>0, <2>1, <3>1, AfterStepKeeps
  <2>4. CASE TakeIRQ(irq, nmi)
    <3> DEFINE a == Awake(c)
               d == [a EXCEPT !.i = TRUE]
    <3>1. AfterStep("entry", d, s, Cost)
      BY <2>4 DEF TakeIRQ
    <3>2. a \in CpuType /\ a.prev = c.prev
      BY <2>1, AwakeKeeps
    <3> HIDE DEF c, s, a
    <3>3. d \in CpuType /\ d.prev = c.prev
      BY <3>2 DEF CpuType
    <3> HIDE DEF d
    <3> QED
      BY <1>0, <2>1, <3>1, <3>3, AfterStepKeeps
  <2>5. ASSUME NEW ins \in Instr, ExecuteInstr(ins, irq, nmi) PROVE LoopIInv'
    <3> DEFINE e == MemEffect(s, ins)
               a == IF core.pend = {} THEN c ELSE Awake(c)
               d == CpuEffect(a, ins)
    <3>1. AfterStep("insn", d, e, Cost)
      BY <2>5 DEF ExecuteInstr
    <3> HIDE DEF s, c
    <3>2. a \in CpuType /\ a.prev = c.prev
      BY <2>1, AwakeKeeps
    <3> HIDE DEF a
    <3>3. d \in CpuType /\ d.prev = c.prev
      BY <3>2, CpuEffectKeeps
    <3>4. Sound(e) /\ Breaks(s, e)
      BY <2>1, MemEffectSound
    <3> HIDE DEF d, e
    <3> QED
      BY <1>0, <2>1, <3>1, <3>3, <3>4, AfterStepKeeps
  <2> QED
    BY <1>3, <2>2, <2>3, <2>4, <2>5
<1>4. CASE BusTick
  <2>1. PICK extra \in Stretch(m) : m' = tickFast(m, since + extra)
    BY <1>4 DEF BusTick
  <2>2. since + extra \in Nat
    BY StretchType DEF LoopIInv, Sound
  <2>3. Sound(tickFast(m, since + extra))
    BY <2>2, TickSound DEF LoopIInv
  <2> DEFINE r == tickFast(m, since + extra)
  <2> HIDE DEF r
  <2>4. m' = r /\ Sound(r)
    BY <2>1, <2>3 DEF r
  <2>5. Sound(m)'
    BY <2>4 DEF Sound, MemType, InStep, Cached, EffectiveFactor, ExplicitlySlow
  <2>6. core' \in CpuType /\ "SAMPLE" \in core'.pend
    BY <1>4 DEF BusTick, LoopIInv, CpuType, Pendings
  <2>7. since' \in Nat /\ batch' \in Nat
    BY <1>4 DEF BusTick
  <2> QED
    BY <2>5, <2>6, <2>7 DEF LoopIInv, SampleInv
<1>5. CASE UNCHANGED loopVars
  BY <1>5 DEF loopVars, LoopIInv, SampleInv, Sound, MemType, InStep, Cached, EffectiveFactor, ExplicitlySlow
<1> QED
  BY <1>1, <1>2, <1>3, <1>4, <1>5 DEF LoopNext

--------------------------------------------------------------------------------
(* The results.                                                               *)

\* After every instruction, tick and sample the CIA2 deadlines and the C64 clock
\* are counted in the unit in which time passes: no hold is armed, expires or is
\* dropped, and no speed register written, without cia2OnRateChange.
THEOREM RatesCorrect == LoopSpec => []RateInStep
<1>1. LoopIInv => RateInStep
  BY DEF LoopIInv, Sound, InStep, RateInStep
<1> QED
  BY <1>1, LoopInitIInv, LoopInductiveStep, PTL DEF LoopSpec

\* No instruction executes over a raised synthetic NMI whose edge the processor
\* has not sampled, whatever the batch length (m_BreakRun, m_Pending).
THEOREM NMIsPrompt == LoopSpec => PromptNMI
<1> DEFINE P == (did' = "insn" /\ batch' > batch)
                  => ~(m.synth /\ ~core.prev /\ ~(Defer /\ core.native))
<1>1. LoopIInv /\ [LoopNext]_loopVars => [P]_loopVars
  <2> SUFFICES ASSUME LoopIInv, LoopNext, did' = "insn", batch' > batch,
                          m.synth, ~core.prev, ~(Defer /\ core.native)
               PROVE  FALSE
    OBVIOUS
  <2>0. NMILevels \subseteq BOOLEAN
    BY LoopAssumption
  <2>1. ASSUME NEW irq \in BOOLEAN, NEW nmi \in NMILevels, NEW ins \in Instr,
               ExecuteInstr(ins, irq, nmi)
        PROVE  FALSE
    <3> DEFINE s == SampledMem(irq, nmi)
               c == Sampled(s)
    <3>1. phase = "step" /\ (core.pend # {} => ~NMITakes(c))
      BY <2>1 DEF ExecuteInstr
    <3>2. "SAMPLE" \in core.pend
      BY <3>1 DEF LoopIInv, SampleInv
    <3>3. c.nmiP /\ c.native = core.native
      BY <2>0, <3>2, PrologueFacts
    <3> HIDE DEF c
    <3> QED
      BY <3>1, <3>2, <3>3 DEF NMITakes
  <2>2. ASSUME NEW irq \in BOOLEAN, NEW nmi \in NMILevels,
               TakeNMI(irq, nmi) \/ StepWaiting(irq, nmi) \/ TakeIRQ(irq, nmi)
        PROVE  FALSE
    <3>1. did' \in {"entry", "idle"}
      BY <2>2 DEF TakeNMI, StepWaiting, TakeIRQ, AfterStep
    <3> QED
      BY <3>1
  <2>3. CASE EnterRun
    BY <2>3 DEF EnterRun, LoopIInv
  <2>4. CASE StepStopped
    BY <2>4 DEF StepStopped, AfterStep
  <2>5. CASE BusTick
    BY <2>5 DEF BusTick
  <2> QED
    BY <2>1, <2>2, <2>3, <2>4, <2>5 DEF LoopNext
<1> QED
  BY <1>1, LoopInitIInv, LoopInductiveStep, PTL DEF LoopSpec, PromptNMI

--------------------------------------------------------------------------------
(* The processor.                                                           *)


Names == {"C", "X", "Y", "S", "D", "PC", "PBR", "DBR", "P", "E", "M8", "X8", "key",
          "mem", "log", "cyc"}
Fields(s) == DOMAIN s = Names /\ s = [f \in Names |-> s[f]]
Words == 0 .. Bank - 1

\* A register file: every value fits its register.
Typed(s) ==
    /\ Fields(s)
    /\ s.C \in Words /\ s.X \in Words /\ s.Y \in Words /\ s.S \in Words /\ s.D \in Words
    /\ s.PC \in Words /\ s.PBR \in Byte /\ s.DBR \in Byte
    /\ s.P \subseteq AllFlags
    /\ s.E \in BOOLEAN /\ s.M8 \in BOOLEAN /\ s.X8 \in BOOLEAN
    /\ \A a \in DOMAIN s.mem : s.mem[a] \in Byte

Fresh(s) ==
    /\ s.M8 = (s.E \/ "M" \in s.P)
    /\ s.X8 = (s.E \/ "X" \in s.P)
    /\ s.key = CycKey(s)
    /\ s.X8 => s.X < 256 /\ s.Y < 256
    /\ s.E => {"M", "X"} \subseteq s.P /\ Hi(s.S) = 1

Good(s) == Typed(s) /\ Fresh(s)

\* Words and bytes.
LEMMA BankSize == Bank \in Int /\ Bank = 256 * 256
BY SMT DEF Bank

\* A word is a number below the size of a bank.
LEMMA WordRange == \A v : v \in Words <=> v \in Int /\ 0 <= v /\ v < Bank
<1>1. PICK b \in Int : b = Bank - 1 /\ \A v \in Int : v <= b <=> v < Bank
  BY BankSize
<1>2. Words = 0 .. b
  BY <1>1, Zenon DEF Words
<1>3. \A v : v \in 0 .. b <=> v \in Int /\ 0 <= v /\ v <= b
  BY <1>1
<1> QED
  BY <1>1, <1>2, <1>3, Zenon

\* A byte is a number below 256.
LEMMA ByteRange == \A v : v \in Byte <=> v \in Int /\ 0 <= v /\ v < 256
BY SMT DEF Byte

\* Every byte is a word.
LEMMA ByteIsWord == \A v \in Byte : v \in Words /\ v \in Int
BY BankSize, WordRange, ByteRange, SMT

\* Words are integers.
LEMMA WordIsInt == \A v \in Words : v \in Int
BY WordRange

\* What is reduced to 16 bits is a word.
LEMMA Modulo == ASSUME NEW v \in Int PROVE v % Bank \in Words
<1>1. v % Bank \in Int /\ 0 <= v % Bank /\ v % Bank < Bank
  BY SMT DEF Bank
<1> QED
  BY <1>1, WordRange, Zenon

\* The low byte of a value is a byte.
LEMMA Low == ASSUME NEW v \in Int PROVE Lo(v) \in Byte /\ Lo(v) \in Words /\ Lo(v) \in Int /\ Lo(v) < 256
<1>1. Lo(v) \in Int /\ 0 <= Lo(v) /\ Lo(v) < 256
  BY SMT DEF Lo
<1> QED
  BY <1>1, ByteRange, ByteIsWord

\* The high byte of a value is a byte.
LEMMA High == ASSUME NEW v \in Int PROVE Hi(v) \in Byte /\ Hi(v) \in Int
<1>1. v \div 256 \in Int
  OBVIOUS
<1>2. Hi(v) \in Int /\ 0 <= Hi(v) /\ Hi(v) < 256
  BY <1>1, SMT DEF Hi
<1> QED
  BY <1>2, ByteRange

\* The stack of emulation mode: an address with page 1 for its high byte.
LEMMA PageOne ==
    ASSUME NEW v \in Int
    PROVE  256 + Lo(v) \in Words /\ Hi(256 + Lo(v)) = 1 /\ Lo(256 + Lo(v)) = Lo(v)
<1>1. PICK r \in Int : r = Lo(v) /\ 0 <= r /\ r < 256
  BY Low, ByteRange
<1>2. 256 + r \in Int /\ 0 <= 256 + r /\ 256 + r < Bank
  BY <1>1, BankSize
<1>3. (256 + r) \div 256 = 1 /\ 1 % 256 = 1 /\ (256 + r) % 256 = r
  BY <1>1
<1>4. Hi(256 + r) = 1 /\ Lo(256 + r) = r
  BY <1>3 DEF Hi, Lo
<1> QED
  BY <1>1, <1>2, <1>4, WordRange, Zenon

\* Two bytes make a word, and the word has those two bytes.
LEMMA Joined ==
    ASSUME NEW l \in Byte, NEW h \in Byte
    PROVE  Word(l, h) \in Words /\ Word(l, h) \in Int /\ Lo(Word(l, h)) = l /\ Hi(Word(l, h)) = h
<1>1. l \in Int /\ h \in Int /\ 0 <= l /\ l < 256 /\ 0 <= h /\ h < 256
  BY ByteRange
<1>2. PICK w \in Int : w = l + 256 * h
  BY <1>1
<1>3. 0 <= w /\ w < Bank /\ w % 256 = l /\ w \div 256 = h /\ h % 256 = h
  BY <1>1, <1>2, BankSize
<1>4. Lo(w) = l /\ Hi(w) = h
  BY <1>3 DEF Lo, Hi
<1>5. w = Word(l, h)
  BY <1>2 DEF Word
<1> QED
  BY <1>2, <1>3, <1>4, <1>5, WordRange, Zenon

\* A word is made of its own two bytes.
LEMMA Rejoined ==
    ASSUME NEW w \in Words
    PROVE  Word(Lo(w), Hi(w)) = w
<1>1. w \in Int /\ 0 <= w /\ w < Bank
  BY WordRange
<1>2. PICK q \in Int : q = w \div 256
  BY <1>1
<1>3. PICK r \in Int : r = w % 256
  BY <1>1
<1>4. w = r + 256 * q /\ 0 <= q /\ q < 256 /\ q % 256 = q
  BY <1>1, <1>2, <1>3, BankSize
<1>5. Lo(w) = r /\ Hi(w) = q
  BY <1>2, <1>3, <1>4 DEF Lo, Hi
<1> QED
  BY <1>4, <1>5, Zenon DEF Word

\* The background memory holds bytes.
LEMMA FillByte == ASSUME NEW a \in Int PROVE Fill(a) \in Byte
<1>1. Fill(a) \in Int /\ 0 <= Fill(a) /\ Fill(a) < 256
  BY SMT DEF Fill
<1> QED
  BY <1>1, ByteRange

\* read8 returns a byte.
LEMMA ReadByte == ASSUME NEW s, Typed(s), NEW a \in Int PROVE Rd(s, a) \in Byte
BY FillByte DEF Typed, Rd

\* write8 changes memory and the write log, and no register.
LEMMA WriteTyped ==
    ASSUME NEW s, Typed(s), NEW a \in Int, NEW v \in Byte
    PROVE  LET t == Wr(s, a, v) IN
           /\ Typed(t)
           /\ t.C = s.C /\ t.X = s.X /\ t.Y = s.Y /\ t.S = s.S /\ t.D = s.D /\ t.PC = s.PC
           /\ t.PBR = s.PBR /\ t.DBR = s.DBR /\ t.P = s.P /\ t.E = s.E /\ t.M8 = s.M8
           /\ t.X8 = s.X8 /\ t.key = s.key /\ t.cyc = s.cyc
<1> DEFINE t == Wr(s, a, v)
<1>1. /\ Fields(t) /\ t.mem = [b \in DOMAIN s.mem \cup {a} |-> IF b = a THEN v ELSE s.mem[b]]
      /\ t.C = s.C /\ t.X = s.X /\ t.Y = s.Y /\ t.S = s.S /\ t.D = s.D /\ t.PC = s.PC
      /\ t.PBR = s.PBR /\ t.DBR = s.DBR /\ t.P = s.P /\ t.E = s.E /\ t.M8 = s.M8
      /\ t.X8 = s.X8 /\ t.key = s.key /\ t.cyc = s.cyc
  BY DEF Typed, Fields, Names, Wr
<1> HIDE DEF t
<1>2. ASSUME NEW b \in DOMAIN t.mem PROVE t.mem[b] \in Byte
  BY <1>1, <1>2 DEF Typed
<1>3. Typed(t)
  BY <1>1, <1>2 DEF Typed
<1> QED
  BY <1>1, <1>3 DEF t

\* applyE leaves a register file whose widths, cycle key and emulation-mode
\* rules are fresh.
LEMMA ApplyGood == ASSUME NEW s, Typed(s) PROVE Good(ApplyE(s))
<1> DEFINE n == IF s.E THEN [s EXCEPT !.P = @ \cup {"M", "X"}, !.S = 256 + Lo(@),
                                      !.X = Lo(@), !.Y = Lo(@)]
                ELSE IF "X" \in s.P THEN [s EXCEPT !.X = Lo(@), !.Y = Lo(@)]
                ELSE s
           w == [n EXCEPT !.M8 = n.E \/ "M" \in n.P, !.X8 = n.E \/ "X" \in n.P]
           t == [w EXCEPT !.key = CycKey(w)]
<1>1. Typed(n) /\ n.E = s.E /\ (n.E => {"M", "X"} \subseteq n.P /\ Hi(n.S) = 1)
      /\ (n.E \/ "X" \in n.P => n.X < 256 /\ n.Y < 256)
  <2>1. CASE s.E
    <3>1. /\ Fields(n) /\ n.P = s.P \cup {"M", "X"} /\ n.S = 256 + Lo(s.S) /\ n.X = Lo(s.X)
          /\ n.Y = Lo(s.Y) /\ n.C = s.C /\ n.D = s.D /\ n.PC = s.PC /\ n.PBR = s.PBR
          /\ n.DBR = s.DBR /\ n.E = s.E /\ n.M8 = s.M8 /\ n.X8 = s.X8 /\ n.mem = s.mem
      <4>1. n = [s EXCEPT !.P = @ \cup {"M", "X"}, !.S = 256 + Lo(@), !.X = Lo(@), !.Y = Lo(@)]
        BY <2>1
      <4> DEFINE p == s.P \cup {"M", "X"}
                 q == 256 + Lo(s.S)
                 x == Lo(s.X)
                 y == Lo(s.Y)
      <4>2. n = [s EXCEPT !.P = p, !.S = q, !.X = x, !.Y = y]
        BY <4>1
      <4> HIDE DEF n, p, q, x, y
      <4>3. /\ Fields(n) /\ n.P = p /\ n.S = q /\ n.X = x /\ n.Y = y
            /\ n.C = s.C /\ n.D = s.D /\ n.PC = s.PC /\ n.PBR = s.PBR /\ n.DBR = s.DBR
            /\ n.E = s.E /\ n.M8 = s.M8 /\ n.X8 = s.X8 /\ n.mem = s.mem
        BY <4>2 DEF Typed, Fields, Names
      <4> QED
        BY <4>3 DEF p, q, x, y
    <3>2. n.P \subseteq AllFlags
      BY <3>1 DEF Typed, AllFlags, Weight
    <3> HIDE DEF n
    <3> QED
      BY <2>1, <3>1, <3>2, Low, PageOne, WordIsInt DEF Typed
  <2>2. CASE ~s.E
    <3>1. /\ Fields(n) /\ n.P = s.P /\ n.S = s.S /\ n.C = s.C /\ n.D = s.D /\ n.PC = s.PC
          /\ n.X = (IF "X" \in s.P THEN Lo(s.X) ELSE s.X)
          /\ n.Y = (IF "X" \in s.P THEN Lo(s.Y) ELSE s.Y) /\ n.PBR = s.PBR
          /\ n.DBR = s.DBR /\ n.E = s.E /\ n.M8 = s.M8 /\ n.X8 = s.X8 /\ n.mem = s.mem
      BY <2>2 DEF Typed, Fields, Names
    <3> HIDE DEF n
    <3> QED
      BY <2>2, <3>1, Low, WordIsInt DEF Typed
  <2> QED
    BY <2>1, <2>2
<1> HIDE DEF n
<1>2. /\ Typed(w) /\ w.E = n.E /\ w.P = n.P /\ w.S = n.S /\ w.X = n.X /\ w.Y = n.Y
      /\ w.M8 = (w.E \/ "M" \in w.P) /\ w.X8 = (w.E \/ "X" \in w.P)
  BY <1>1 DEF Typed, Fields, Names
<1> HIDE DEF w
<1>3. /\ Typed(t) /\ t.E = w.E /\ t.P = w.P /\ t.S = w.S /\ t.X = w.X /\ t.Y = w.Y
      /\ t.M8 = w.M8 /\ t.X8 = w.X8 /\ t.key = CycKey(t)
  BY <1>2 DEF Typed, Fields, Names, CycKey
<1>4. t = ApplyE(s)
  BY DEF ApplyE, n, w
<1> HIDE DEF t
<1> QED
  BY <1>1, <1>2, <1>3, <1>4 DEF Good, Fresh

\* The mode of the processor, which only ApplyE's callers and TCD change.
Mode(s) == <<s.E, s.M8, s.X8, s.key, s.D>>

\* What an instruction that leaves the mode alone may do to a register file.
LEMMA Puts ==
    ASSUME NEW s, Good(s), NEW t, Fields(t), Mode(t) = Mode(s),
           t.C \in Words, t.X \in Words, t.Y \in Words, t.S \in Words, t.PC \in Words,
           t.PBR \in Byte, t.DBR \in Byte, t.P \subseteq AllFlags,
           "M" \in t.P <=> "M" \in s.P, "X" \in t.P <=> "X" \in s.P,
           s.X8 => t.X < 256 /\ t.Y < 256,
           s.E => Hi(t.S) = 1,
           t.mem = s.mem
    PROVE  Good(t)
<1>1. t.E = s.E /\ t.M8 = s.M8 /\ t.X8 = s.X8 /\ t.key = s.key /\ t.D = s.D
  BY DEF Mode
<1>2. Typed(t)
  BY <1>1 DEF Good, Typed
<1>3. CycKey(t) = CycKey(s)
  BY <1>1 DEF CycKey
<1>4. Fresh(t)
  BY <1>1, <1>3 DEF Good, Fresh
<1> QED
  BY <1>2, <1>4 DEF Good

\* The same, for one register.
Kept(s, t) == Good(t) /\ Mode(t) = Mode(s)

\* Assigning the accumulator keeps a good register file good.
LEMMA PutC ==
    ASSUME NEW s, Good(s), NEW v \in Words
    PROVE  Kept(s, [s EXCEPT !.C = v])
<1> DEFINE t == [s EXCEPT !.C = v]
<1>1. /\ Fields(t) /\ Mode(t) = Mode(s) /\ t.C = v /\ t.X = s.X /\ t.Y = s.Y /\ t.S = s.S
      /\ t.PC = s.PC /\ t.PBR = s.PBR /\ t.DBR = s.DBR /\ t.P = s.P /\ t.mem = s.mem
  BY DEF Good, Typed, Fields, Names, Mode
<1> HIDE DEF t
<1>2. Good(t)
  BY <1>1, Puts DEF Good, Typed, Fresh
<1> QED
  BY <1>1, <1>2 DEF t, Kept

\* Assigning X does, when the value fits the index width.
LEMMA PutX ==
    ASSUME NEW s, Good(s), NEW v \in Words, s.X8 => v < 256
    PROVE  Kept(s, [s EXCEPT !.X = v])
<1> DEFINE t == [s EXCEPT !.X = v]
<1>1. /\ Fields(t) /\ Mode(t) = Mode(s) /\ t.C = s.C /\ t.X = v /\ t.Y = s.Y /\ t.S = s.S
      /\ t.PC = s.PC /\ t.PBR = s.PBR /\ t.DBR = s.DBR /\ t.P = s.P /\ t.mem = s.mem
  BY DEF Good, Typed, Fields, Names, Mode
<1> HIDE DEF t
<1>2. Good(t)
  BY <1>1, Puts DEF Good, Typed, Fresh
<1> QED
  BY <1>1, <1>2 DEF t, Kept

\* Assigning Y does, when the value fits the index width.
LEMMA PutY ==
    ASSUME NEW s, Good(s), NEW v \in Words, s.X8 => v < 256
    PROVE  Kept(s, [s EXCEPT !.Y = v])
<1> DEFINE t == [s EXCEPT !.Y = v]
<1>1. /\ Fields(t) /\ Mode(t) = Mode(s) /\ t.C = s.C /\ t.X = s.X /\ t.Y = v /\ t.S = s.S
      /\ t.PC = s.PC /\ t.PBR = s.PBR /\ t.DBR = s.DBR /\ t.P = s.P /\ t.mem = s.mem
  BY DEF Good, Typed, Fields, Names, Mode
<1> HIDE DEF t
<1>2. Good(t)
  BY <1>1, Puts DEF Good, Typed, Fresh
<1> QED
  BY <1>1, <1>2 DEF t, Kept

\* Assigning the stack pointer does, when emulation mode keeps it in page 1.
LEMMA PutS ==
    ASSUME NEW s, Good(s), NEW v \in Words, s.E => Hi(v) = 1
    PROVE  Kept(s, [s EXCEPT !.S = v])
<1> DEFINE t == [s EXCEPT !.S = v]
<1>1. /\ Fields(t) /\ Mode(t) = Mode(s) /\ t.C = s.C /\ t.X = s.X /\ t.Y = s.Y /\ t.S = v
      /\ t.PC = s.PC /\ t.PBR = s.PBR /\ t.DBR = s.DBR /\ t.P = s.P /\ t.mem = s.mem
  BY DEF Good, Typed, Fields, Names, Mode
<1> HIDE DEF t
<1>2. Good(t)
  BY <1>1, Puts DEF Good, Typed, Fresh
<1> QED
  BY <1>1, <1>2 DEF t, Kept

\* Assigning the program counter does.
LEMMA PutPC ==
    ASSUME NEW s, Good(s), NEW v \in Words
    PROVE  Kept(s, [s EXCEPT !.PC = v])
<1> DEFINE t == [s EXCEPT !.PC = v]
<1>1. /\ Fields(t) /\ Mode(t) = Mode(s) /\ t.C = s.C /\ t.X = s.X /\ t.Y = s.Y /\ t.S = s.S
      /\ t.PC = v /\ t.PBR = s.PBR /\ t.DBR = s.DBR /\ t.P = s.P /\ t.mem = s.mem
  BY DEF Good, Typed, Fields, Names, Mode
<1> HIDE DEF t
<1>2. Good(t)
  BY <1>1, Puts DEF Good, Typed, Fresh
<1> QED
  BY <1>1, <1>2 DEF t, Kept

\* Assigning the program bank does.
LEMMA PutPBR ==
    ASSUME NEW s, Good(s), NEW v \in Byte
    PROVE  Kept(s, [s EXCEPT !.PBR = v])
<1> DEFINE t == [s EXCEPT !.PBR = v]
<1>1. /\ Fields(t) /\ Mode(t) = Mode(s) /\ t.C = s.C /\ t.X = s.X /\ t.Y = s.Y /\ t.S = s.S
      /\ t.PC = s.PC /\ t.PBR = v /\ t.DBR = s.DBR /\ t.P = s.P /\ t.mem = s.mem
  BY DEF Good, Typed, Fields, Names, Mode
<1> HIDE DEF t
<1>2. Good(t)
  BY <1>1, Puts DEF Good, Typed, Fresh
<1> QED
  BY <1>1, <1>2 DEF t, Kept

\* Assigning the data bank does.
LEMMA PutDBR ==
    ASSUME NEW s, Good(s), NEW v \in Byte
    PROVE  Kept(s, [s EXCEPT !.DBR = v])
<1> DEFINE t == [s EXCEPT !.DBR = v]
<1>1. /\ Fields(t) /\ Mode(t) = Mode(s) /\ t.C = s.C /\ t.X = s.X /\ t.Y = s.Y /\ t.S = s.S
      /\ t.PC = s.PC /\ t.PBR = s.PBR /\ t.DBR = v /\ t.P = s.P /\ t.mem = s.mem
  BY DEF Good, Typed, Fields, Names, Mode
<1> HIDE DEF t
<1>2. Good(t)
  BY <1>1, Puts DEF Good, Typed, Fresh
<1> QED
  BY <1>1, <1>2 DEF t, Kept

\* Assigning the status does, when the width bits are untouched.
LEMMA PutP ==
    ASSUME NEW s, Good(s), NEW v \in SUBSET AllFlags, "M" \in v <=> "M" \in s.P, "X" \in v <=> "X" \in s.P
    PROVE  Kept(s, [s EXCEPT !.P = v])
<1> DEFINE t == [s EXCEPT !.P = v]
<1>1. /\ Fields(t) /\ Mode(t) = Mode(s) /\ t.C = s.C /\ t.X = s.X /\ t.Y = s.Y /\ t.S = s.S
      /\ t.PC = s.PC /\ t.PBR = s.PBR /\ t.DBR = s.DBR /\ t.P = v /\ t.mem = s.mem
  BY DEF Good, Typed, Fields, Names, Mode
<1> HIDE DEF t
<1>2. Good(t)
  BY <1>1, Puts DEF Good, Typed, Fresh
<1> QED
  BY <1>1, <1>2 DEF t, Kept

\* Assigning the cycle count does.
LEMMA PutCyc ==
    ASSUME NEW s, Good(s), NEW v
    PROVE  Kept(s, [s EXCEPT !.cyc = v])
<1> DEFINE t == [s EXCEPT !.cyc = v]
<1>1. /\ Fields(t) /\ Mode(t) = Mode(s) /\ t.C = s.C /\ t.X = s.X /\ t.Y = s.Y /\ t.S = s.S
      /\ t.PC = s.PC /\ t.PBR = s.PBR /\ t.DBR = s.DBR /\ t.P = s.P /\ t.mem = s.mem
  BY DEF Good, Typed, Fields, Names, Mode
<1> HIDE DEF t
<1>2. Good(t)
  BY <1>1, Puts DEF Good, Typed, Fresh
<1> QED
  BY <1>1, <1>2 DEF t, Kept

\* Assigning the write log does.
LEMMA PutLog ==
    ASSUME NEW s, Good(s), NEW v
    PROVE  Kept(s, [s EXCEPT !.log = v])
<1> DEFINE t == [s EXCEPT !.log = v]
<1>1. /\ Fields(t) /\ Mode(t) = Mode(s) /\ t.C = s.C /\ t.X = s.X /\ t.Y = s.Y /\ t.S = s.S
      /\ t.PC = s.PC /\ t.PBR = s.PBR /\ t.DBR = s.DBR /\ t.P = s.P /\ t.mem = s.mem
  BY DEF Good, Typed, Fields, Names, Mode
<1> HIDE DEF t
<1>2. Good(t)
  BY <1>1, Puts DEF Good, Typed, Fresh
<1> QED
  BY <1>1, <1>2 DEF t, Kept

\* Two steps that keep the mode keep it.
LEMMA KeptTwice == ASSUME NEW s, NEW t, NEW u, Kept(s, t), Kept(t, u) PROVE Kept(s, u)
BY DEF Kept

\* A step that keeps the mode keeps each width.
LEMMA KeptWidths ==
    ASSUME NEW s, NEW t, Kept(s, t)
    PROVE  t.E = s.E /\ t.M8 = s.M8 /\ t.X8 = s.X8 /\ t.key = s.key /\ t.D = s.D
BY DEF Kept, Mode

\* Doing nothing keeps the mode.
LEMMA KeptSelf == ASSUME NEW s, Good(s) PROVE Kept(s, s)
BY DEF Kept

-----------------------------------------------------------------------------
\* Flags.

Arithmetical == {"C", "Z", "I", "D", "V", "N"}

\* An arithmetical flag never touches the width bits.
LEMMA FlagKept ==
    ASSUME NEW P \in SUBSET AllFlags, NEW f \in Arithmetical, NEW on
    PROVE  LET Q == SetFlag(P, f, on)
           IN  /\ Q \in SUBSET AllFlags
               /\ "M" \in Q <=> "M" \in P
               /\ "X" \in Q <=> "X" \in P
BY DEF SetFlag, AllFlags, Weight, Arithmetical

\* setZN never touches the width bits.
LEMMA ZNKept ==
    ASSUME NEW P \in SUBSET AllFlags, NEW v, NEW e
    PROVE  LET Q == SetZN(P, v, e)
           IN  /\ Q \in SUBSET AllFlags
               /\ "M" \in Q <=> "M" \in P
               /\ "X" \in Q <=> "X" \in P
<1> DEFINE z == v % Wide(e) = 0
           n == Negative(v, e)
           Q == SetFlag(P, "Z", z)
<1>1. SetZN(P, v, e) = SetFlag(Q, "N", n)
  BY DEF SetZN
<1>2. Q \in SUBSET AllFlags /\ ("M" \in Q <=> "M" \in P) /\ ("X" \in Q <=> "X" \in P)
  BY FlagKept DEF Arithmetical
<1> HIDE DEF Q, n
<1> QED
  BY <1>1, <1>2, FlagKept DEF Arithmetical

\* setFlag of an arithmetical flag keeps a good register file good.
LEMMA PutFlag ==
    ASSUME NEW s, Good(s), NEW f \in Arithmetical, NEW on
    PROVE  Kept(s, [s EXCEPT !.P = SetFlag(@, f, on)])
<1>1. s.P \in SUBSET AllFlags
  BY DEF Good, Typed
<1> QED
  BY <1>1, FlagKept, PutP

\* So does setZN.
LEMMA PutZN ==
    ASSUME NEW s, Good(s), NEW v, NEW e
    PROVE  Kept(s, [s EXCEPT !.P = SetZN(@, v, e)])
<1>1. s.P \in SUBSET AllFlags
  BY DEF Good, Typed
<1> QED
  BY <1>1, ZNKept, PutP

\* The setZN8, setZN16, setZNM and setZNX of the code, and the fast path's
\* znE.
LEMMA ZNs ==
    ASSUME NEW s, Good(s), NEW v
    PROVE  Kept(s, SetZNM(s, v)) /\ Kept(s, SetZNX(s, v)) /\ Kept(s, SetZN16(s, v))
           /\ Kept(s, SetZN8(s, v)) /\ Kept(s, ZnE(s, v))
BY PutZN, Zenon DEF SetZNM, SetZNX, SetZN16, SetZN8, ZnE

-----------------------------------------------------------------------------
\* The accumulator and the index registers.

\* getAcc, getX and getY return words, and bytes at 8 bits.
LEMMA Registers8 ==
    ASSUME NEW s, Good(s)
    PROVE  /\ GetAcc(s) \in Words /\ (s.M8 => GetAcc(s) \in Byte)
           /\ GetX(s) \in Words /\ (s.X8 => GetX(s) \in Byte)
           /\ GetY(s) \in Words /\ (s.X8 => GetY(s) \in Byte)
<1>1. s.C \in Words /\ s.X \in Words /\ s.Y \in Words
  BY DEF Good, Typed
<1>2. \A v \in Words : Lo(v) \in Byte /\ Lo(v) \in Words
  BY WordIsInt, Low
<1> QED
  BY <1>1, <1>2, Zenon DEF GetAcc, GetX, GetY

\* A value reduced to the index width fits it.
LEMMA IndexWidth ==
    ASSUME NEW s, NEW v \in Int
    PROVE  ByIndexWidth(s, v) \in Words /\ (s.X8 => ByIndexWidth(s, v) < 256)
           /\ (s.X8 => ByIndexWidth(s, v) \in Byte)
BY Low, Modulo, Zenon DEF ByIndexWidth

\* setAcc keeps a good register file good.
LEMMA AccKept ==
    ASSUME NEW s, Good(s), NEW v \in Int
    PROVE  Kept(s, SetAcc(s, v))
<1> DEFINE c == IF s.M8 THEN Word(Lo(v), Hi(s.C)) ELSE v % Bank
<1>1. s.C \in Int
  BY WordIsInt DEF Good, Typed
<1>2. c \in Words
  BY <1>1, Low, High, Joined, Modulo, Zenon
<1>3. SetAcc(s, v) = [s EXCEPT !.C = c]
  BY DEF SetAcc
<1> HIDE DEF c
<1> QED
  BY <1>2, <1>3, PutC

-----------------------------------------------------------------------------
\* Memory and the stack.

\* write8 does.
LEMMA WriteKept ==
    ASSUME NEW s, Good(s), NEW a \in Int, NEW v \in Byte
    PROVE  Kept(s, Wr(s, a, v))
<1> DEFINE t == Wr(s, a, v)
<1>1. /\ Typed(t)
      /\ t.C = s.C /\ t.X = s.X /\ t.Y = s.Y /\ t.S = s.S /\ t.D = s.D /\ t.PC = s.PC
      /\ t.PBR = s.PBR /\ t.DBR = s.DBR /\ t.P = s.P /\ t.E = s.E /\ t.M8 = s.M8
      /\ t.X8 = s.X8 /\ t.key = s.key
  BY WriteTyped DEF Good
<1> HIDE DEF t
<1>2. CycKey(t) = CycKey(s)
  BY <1>1 DEF CycKey
<1>3. Fresh(t) /\ Mode(t) = Mode(s)
  BY <1>1, <1>2 DEF Good, Fresh, Mode
<1> QED
  BY <1>1, <1>3 DEF Good, Kept, t

\* A stack address lies in bank 0, and in page 1 in emulation mode.
LEMMA StackWrap ==
    ASSUME NEW s, Typed(s), NEW k \in Int
    PROVE  StackAt(s, k) \in Words /\ (s.E => Hi(StackAt(s, k)) = 1)
<1>1. s.S \in Int
  BY WordIsInt DEF Typed
<1>2. s.S + k \in Int
  BY <1>1
<1> QED
  BY <1>2, PageOne, Modulo, Zenon DEF StackAt

\* push8 keeps a good register file good.
LEMMA PushKept ==
    ASSUME NEW s, Good(s), NEW v \in Byte
    PROVE  Kept(s, Push8(s, v))
<1> DEFINE t == Wr(s, s.S, v)
           k == StackAt(s, -1)
<1>1. s.S \in Int /\ Typed(s)
  BY WordIsInt DEF Good, Typed
<1>2. Kept(s, t)
  BY <1>1, WriteKept
<1>3. k \in Words /\ (s.E => Hi(k) = 1)
  BY <1>1, StackWrap
<1>4. Good(t) /\ t.E = s.E
  BY <1>2, KeptWidths DEF Kept
<1>5. Push8(s, v) = [t EXCEPT !.S = k]
  BY DEF Push8
<1> HIDE DEF t, k
<1>6. Kept(t, [t EXCEPT !.S = k])
  BY <1>3, <1>4, PutS
<1> QED
  BY <1>2, <1>5, <1>6, KeptTwice

\* push16 does.
LEMMA Push16Kept ==
    ASSUME NEW s, Good(s), NEW v \in Int
    PROVE  Kept(s, Push16(s, v))
<1>1. Kept(s, Push8(s, Hi(v)))
  BY High, PushKept
<1>2. Kept(Push8(s, Hi(v)), Push8(Push8(s, Hi(v)), Lo(v)))
  BY <1>1, Low, PushKept DEF Kept
<1> QED
  BY <1>1, <1>2, KeptTwice DEF Push16

\* pull8 returns a byte.
LEMMA PeekByte ==
    ASSUME NEW s, Typed(s), NEW k \in Int
    PROVE  Peek(s, k) \in Byte /\ PeekNew(s, k) \in Byte
<1>1. s.S + k \in Int
  BY WordIsInt DEF Typed
<1>2. (s.S + k) % Bank \in Int /\ StackAt(s, k) \in Int
  BY <1>1, Modulo, StackWrap, WordIsInt, Zenon
<1> QED
  BY <1>2, ReadByte, Zenon DEF Peek, PeekNew

\* pull16 returns a word.
LEMMA Peek16Word ==
    ASSUME NEW s, Typed(s), NEW k \in Int
    PROVE  Peek16(s, k) \in Words
<1>1. k + 1 \in Int
  OBVIOUS
<1> QED
  BY <1>1, PeekByte, Joined, Zenon DEF Peek16

\* Moving the stack pointer up, as pull8 does, keeps a good register file
\* good.
LEMMA DropKept ==
    ASSUME NEW s, Good(s), NEW k \in Int
    PROVE  Kept(s, Drop(s, k))
<1>1. StackAt(s, k) \in Words /\ (s.E => Hi(StackAt(s, k)) = 1)
  BY StackWrap DEF Good
<1> QED
  BY <1>1, PutS DEF Drop

\* The new stack class leaves page 1: what it returns is typed, not fresh.
LEMMA TypedS ==
    ASSUME NEW s, Typed(s), NEW v \in Words
    PROVE  Typed([s EXCEPT !.S = v])
BY DEF Typed, Fields, Names

\* push8New may leave page 1; everything else is typed.
LEMMA PushNewTyped ==
    ASSUME NEW s, Typed(s), NEW v \in Byte
    PROVE  Typed(Push8New(s, v))
<1> DEFINE t == Wr(s, s.S, v)
<1>1. s.S \in Int
  BY WordIsInt DEF Typed
<1>2. Typed(t)
  BY <1>1, WriteTyped
<1>3. t.S - 1 \in Int
  BY <1>2, WordIsInt DEF Typed
<1>4. Push8New(s, v) = [t EXCEPT !.S = (t.S - 1) % Bank]
  BY DEF Push8New
<1> HIDE DEF t
<1> QED
  BY <1>2, <1>3, <1>4, Modulo, TypedS

\* So may push16New.
LEMMA Push16NewTyped ==
    ASSUME NEW s, Typed(s), NEW v \in Int
    PROVE  Typed(Push16New(s, v))
BY Low, High, PushNewTyped, Zenon DEF Push16New

\* And pull16New.
LEMMA DropNewTyped ==
    ASSUME NEW s, Typed(s), NEW k \in Int
    PROVE  Typed(DropNew(s, k))
<1>1. s.S + k \in Int
  BY WordIsInt DEF Typed
<1> QED
  BY <1>1, Modulo, TypedS DEF DropNew

-----------------------------------------------------------------------------
\* Effective addresses and operands.

Operands(i) == i.lo \in Byte /\ i.hi \in Byte /\ i.bk \in Byte

\* Sums and differences of words are integers.
LEMMA SumInt == ASSUME NEW v \in Int, NEW w \in Int PROVE v + w \in Int /\ v - w \in Int
OBVIOUS

\* A sum reduced to 16 bits is a word.
LEMMA ModSum ==
    ASSUME NEW v \in Int, NEW w \in Int
    PROVE  /\ (v + w) % Bank \in Words /\ (v + w) % Bank \in Int
           /\ (v - w) % Bank \in Words /\ (v - w) % Bank \in Int
<1>1. v + w \in Int /\ v - w \in Int
  OBVIOUS
<1> QED
  BY <1>1, Modulo, WordIsInt, Zenon

\* read16Bank0 returns a word.
LEMMA Bank0WordType ==
    ASSUME NEW s, Typed(s), NEW a \in Int
    PROVE  Bank0Word(s, a) \in Words
<1>1. a % Bank \in Int /\ (a + 1) % Bank \in Int
  BY SumInt, Modulo, WordIsInt
<1> QED
  BY <1>1, ReadByte, Joined, Zenon DEF Bank0Word

\* eaDirect and eaDirectIndexed give integers.
LEMMA DirectType ==
    ASSUME NEW s, Typed(s), NEW i, Operands(i), NEW index \in Int
    PROVE  Direct(s, i) \in Int /\ DirectIndexed(s, i, index) \in Int
<1>1. s.D \in Int /\ i.lo \in Int
  BY WordIsInt, ByteIsWord DEF Typed, Operands
<1>2. i.lo + s.D \in Int /\ i.lo + index \in Int /\ i.lo + index + s.D \in Int
  BY <1>1
<1>3. Lo(i.lo + index) + s.D \in Int
  BY <1>1, <1>2, Low
<1> QED
  BY <1>2, <1>3, Modulo, WordIsInt, Zenon DEF Direct, DirectIndexed

\* readDPPointer returns a word.
LEMMA PointerType ==
    ASSUME NEW s, Typed(s), NEW p \in Int
    PROVE  DPPointer(s, p) \in Words
<1>1. s.D \in Int /\ p + 1 \in Int
  BY WordIsInt DEF Typed
<1>2. 256 * Hi(s.D) + Lo(p + 1) \in Int
  BY <1>1, Low, High
<1>3. (p + 1) % Bank \in Int
  BY <1>1, Modulo, WordIsInt
<1>4. Rd(s, p) \in Byte
        /\ Rd(s, IF PageWraps(s) THEN 256 * Hi(s.D) + Lo(p + 1) ELSE (p + 1) % Bank) \in Byte
  BY <1>2, <1>3, ReadByte, Zenon
<1> QED
  BY <1>4, Joined, Zenon DEF DPPointer

\* An address cut to 24 bits is an integer.
LEMMA MaskedInt == ASSUME NEW a \in Int PROVE Masked(a) \in Int
BY SMT DEF Masked

\* eaAbsoluteIndexed gives an address.
LEMMA IndexedType ==
    ASSUME NEW s, Typed(s), NEW base \in Int, NEW index \in Int
    PROVE  Indexed(s, base, index).a \in Int
<1>1. s.DBR * Bank + base + index \in Int
  BY BankSize, ByteIsWord DEF Typed
<1> QED
  BY <1>1, MaskedInt DEF Indexed

\* eaAbsolute gives an address.
LEMMA DataType == ASSUME NEW a \in Int PROVE Data(a).a \in Int
BY MaskedInt DEF Data

\* Every addressing mode that has an address gives one.
LEMMA EAType ==
    ASSUME NEW s, Good(s), NEW i, Operands(i), i.mode \in MemoryModes
    PROVE  EA(s, i).a \in Int
<1> DEFINE w == Word(i.lo, i.hi)
           long == i.bk * Bank + w
           far == Bank0Word(s, Direct(s, i)) + Bank * Rd(s, (Direct(s, i) + 2) % Bank)
           sr == (i.lo + s.S) % Bank
<1>1. /\ Typed(s) /\ s.S \in Int /\ s.D \in Int /\ s.DBR \in Int /\ i.lo \in Int /\ i.bk \in Int
      /\ GetX(s) \in Int /\ GetY(s) \in Int
  BY Registers8, WordIsInt, ByteIsWord DEF Good, Typed, Operands
<1>2. w \in Int /\ long \in Int /\ sr \in Int
  <2>1. w \in Int
    BY Joined DEF Operands
  <2> HIDE DEF w
  <2>2. long \in Int
    BY <1>1, <2>1, BankSize
  <2>3. i.lo + s.S \in Int
    BY <1>1
  <2> QED
    BY <2>1, <2>2, <2>3, Modulo, WordIsInt
<1>3. /\ Direct(s, i) \in Int
      /\ DirectIndexed(s, i, GetX(s)) \in Int /\ DirectIndexed(s, i, GetY(s)) \in Int
  BY <1>1, DirectType
<1>4. /\ DPPointer(s, Direct(s, i)) \in Int /\ DPPointer(s, DirectIndexed(s, i, GetX(s))) \in Int
      /\ Bank0Word(s, sr) \in Int
  BY <1>1, <1>2, <1>3, PointerType, Bank0WordType, WordIsInt
<1>5. far \in Int
  <2>1. (Direct(s, i) + 2) % Bank \in Int
    BY <1>3, Modulo, WordIsInt
  <2>2. Rd(s, (Direct(s, i) + 2) % Bank) \in Int /\ Bank0Word(s, Direct(s, i)) \in Int
    BY <1>1, <1>3, <2>1, ReadByte, Bank0WordType, WordIsInt, ByteIsWord
  <2> QED
    BY <2>2, BankSize
<1>6. /\ s.DBR * Bank + w \in Int /\ long + GetX(s) \in Int /\ Masked(far) + GetY(s) \in Int
      /\ s.DBR * Bank + DPPointer(s, Direct(s, i)) \in Int
      /\ s.DBR * Bank + DPPointer(s, DirectIndexed(s, i, GetX(s))) \in Int
      /\ s.DBR * Bank + Bank0Word(s, sr) + GetY(s) \in Int
  <2>1. Masked(far) \in Int
    BY <1>5, MaskedInt
  <2> HIDE DEF w, long, far, sr
  <2> QED
    BY <1>1, <1>2, <1>4, <2>1, BankSize
<1> HIDE DEF w, long, far, sr
<1>7. \A a \in Int : InBank0(a).a \in Int
  BY DEF InBank0
<1>8. i.mode \in {"zp", "zpx", "zpy", "abs", "abx", "aby", "abl", "ablx", "izp", "izx", "izy",
                  "izl", "izly", "sr", "sry"}
  BY DEF MemoryModes, DirectModes
<1>9. CASE i.mode \in {"zp", "zpx", "zpy", "abs", "abx", "aby", "abl"}
  BY <1>1, <1>2, <1>3, <1>6, <1>7, <1>9, DataType, IndexedType DEF EA, w, long
<1>10. CASE i.mode \in {"ablx", "izp", "izx", "izy"}
  BY <1>1, <1>2, <1>3, <1>4, <1>6, <1>7, <1>10, DataType, IndexedType DEF EA, w, long
<1>11. CASE i.mode \in {"izl", "izly", "sr", "sry"}
  BY <1>1, <1>2, <1>5, <1>6, <1>7, <1>11, DataType DEF EA, far, sr
<1> QED
  BY <1>8, <1>9, <1>10, <1>11

\* So does operandNext.
LEMMA OperandNextType ==
    ASSUME NEW e, e.a \in Int
    PROVE  OperandNext(e) \in Int
<1>1. e.a + 1 \in Int
  OBVIOUS
<1> QED
  BY <1>1, Modulo, WordIsInt, MaskedInt, Zenon DEF OperandNext

\* readM and readX return a word, and a byte at 8 bits.
LEMMA ReadType ==
    ASSUME NEW s, Good(s), NEW i, Operands(i), i.mode \in MemoryModes \cup {"imm"}, NEW e
    PROVE  /\ ReadOperand(s, i, e) \in Words /\ ReadOperand(s, i, e) \in Int
           /\ e => ReadOperand(s, i, e) \in Byte
<1>1. CASE i.mode = "imm"
  BY <1>1, Joined, ByteIsWord, Zenon DEF ReadOperand, Operands
<1>2. CASE i.mode # "imm"
  <2> DEFINE a == EA(s, i).a
             b == OperandNext(EA(s, i))
  <2>1. a \in Int /\ b \in Int
    BY <1>2, EAType, OperandNextType
  <2>2. Rd(s, a) \in Byte /\ Rd(s, b) \in Byte
    BY <2>1, ReadByte DEF Good
  <2>3. ReadOperand(s, i, e) = IF e THEN Rd(s, a) ELSE Word(Rd(s, a), Rd(s, b))
    BY <1>2 DEF ReadOperand
  <2> HIDE DEF a, b
  <2> QED
    BY <2>2, <2>3, Joined, ByteIsWord, Zenon
<1> QED
  BY <1>1, <1>2

\* Two bus writes keep a good register file good.
LEMMA TwoWritesKept ==
    ASSUME NEW s, Good(s), NEW a \in Int, NEW b \in Int, NEW v \in Byte, NEW w \in Byte
    PROVE  Kept(s, Wr(Wr(s, a, v), b, w))
<1>1. Kept(s, Wr(s, a, v))
  BY WriteKept
<1>2. Kept(Wr(s, a, v), Wr(Wr(s, a, v), b, w))
  BY <1>1, WriteKept DEF Kept
<1> QED
  BY <1>1, <1>2, KeptTwice

\* writeM and writeX do.
LEMMA WriteOperandKept ==
    ASSUME NEW s, Good(s), NEW i, Operands(i), i.mode \in MemoryModes, NEW v \in Int, NEW e
    PROVE  Kept(s, WriteOperand(s, i, v, e))
<1>1. EA(s, i).a \in Int /\ OperandNext(EA(s, i)) \in Int
  BY EAType, OperandNextType
<1> QED
  BY <1>1, Low, High, WriteKept, TwoWritesKept, Zenon DEF WriteOperand

\* rmwWrite does, in each of its three forms.
LEMMA RmwKept ==
    ASSUME NEW s, Good(s), NEW e, e.a \in Int, NEW v \in Int, NEW w \in Int
    PROVE  Kept(s, RmwWrite(s, e, v, w))
BY OperandNextType, Low, High, WriteKept, TwoWritesKept, Zenon DEF RmwWrite

-----------------------------------------------------------------------------
\* The groups of the switch, each on the encodings the table has.

Legal(i) == Operands(i) /\ i.mode \in ModesOf(i.op)

\* The reading instructions have an operand in memory or in the instruction.
LEMMA ReadModes ==
    ASSUME NEW op, op \in AccReads \cup IndexReads
    PROVE  ModesOf(op) \subseteq MemoryModes \cup {"imm"}
BY DEF ModesOf, AccReads, IndexReads, MemoryModes, DirectModes, Modifies, Branches, Implied, FlagOps

\* The storing ones have one in memory.
LEMMA StoreModes ==
    ASSUME NEW op, op \in {"STA", "STX", "STY", "STZ", "TSB", "TRB"}
    PROVE  ModesOf(op) \subseteq MemoryModes
BY DEF ModesOf, AccReads, MemoryModes, DirectModes, Modifies, Branches, Implied, FlagOps

\* The shifts and counts have one in memory or are about the accumulator.
LEMMA ModifyModes ==
    ASSUME NEW op \in Modifies
    PROVE  ModesOf(op) \subseteq MemoryModes \cup {"acc"}
BY DEF ModesOf, AccReads, MemoryModes, DirectModes, Modifies, Branches, Implied, FlagOps

\* LDA, LDX and LDY keep a good register file good.
LEMMA LoadKept ==
    ASSUME NEW s, Good(s), NEW i, Legal(i), i.op \in {"LDA", "LDX", "LDY"}
    PROVE  Kept(s, Load(s, i))
<1>0. i.mode \in MemoryModes \cup {"imm"} /\ Operands(i)
  BY ReadModes DEF Legal, AccReads, IndexReads
<1> DEFINE v(e) == ReadOperand(s, i, e)
<1>1. \A e : v(e) \in Words /\ v(e) \in Int /\ (e => v(e) < 256)
  BY <1>0, ReadType, ByteRange
<1>2. CASE i.op = "LDA"
  <2>1. Kept(s, SetAcc(s, v(s.M8)))
    BY <1>1, AccKept
  <2>2. Kept(SetAcc(s, v(s.M8)), SetZNM(SetAcc(s, v(s.M8)), v(s.M8)))
    BY <2>1, ZNs DEF Kept
  <2> QED
    BY <1>2, <2>1, <2>2, KeptTwice DEF Load
<1>3. CASE i.op = "LDX"
  <2>1. Kept(s, [s EXCEPT !.X = v(s.X8)])
    BY <1>1, PutX
  <2>2. Kept([s EXCEPT !.X = v(s.X8)], SetZNX([s EXCEPT !.X = v(s.X8)], v(s.X8)))
    BY <2>1, ZNs DEF Kept
  <2> QED
    BY <1>3, <2>1, <2>2, KeptTwice DEF Load
<1>4. CASE i.op = "LDY"
  <2>1. Kept(s, [s EXCEPT !.Y = v(s.X8)])
    BY <1>1, PutY
  <2>2. Kept([s EXCEPT !.Y = v(s.X8)], SetZNX([s EXCEPT !.Y = v(s.X8)], v(s.X8)))
    BY <2>1, ZNs DEF Kept
  <2> QED
    BY <1>4, <2>1, <2>2, KeptTwice DEF Load
<1> QED
  BY <1>2, <1>3, <1>4

\* STA, STX, STY and STZ do.
LEMMA StoreKept ==
    ASSUME NEW s, Good(s), NEW i, Legal(i), i.op \in {"STA", "STX", "STY", "STZ"}
    PROVE  Kept(s, Store(s, i))
<1>1. i.mode \in MemoryModes /\ Operands(i)
  BY StoreModes DEF Legal
<1>2. GetAcc(s) \in Int /\ s.X \in Int /\ s.Y \in Int /\ 0 \in Int
  BY Registers8, WordIsInt DEF Good, Typed
<1>3. \A v \in Int : \A e : Kept(s, WriteOperand(s, i, v, e))
  BY <1>1, WriteOperandKept
<1> QED
  BY <1>2, <1>3 DEF Store

\* A value put into an index register, with its flags.
LEMMA IndexKept ==
    ASSUME NEW s, Good(s), NEW v \in Words, s.X8 => v < 256
    PROVE  /\ Kept(s, SetZNX([s EXCEPT !.X = v], v)) /\ Kept(s, SetZNX([s EXCEPT !.Y = v], v))
           /\ Kept(s, ZnE([s EXCEPT !.X = v], v)) /\ Kept(s, ZnE([s EXCEPT !.Y = v], v))
<1>1. Kept(s, [s EXCEPT !.X = v]) /\ Kept(s, [s EXCEPT !.Y = v])
  BY PutX, PutY
<1> QED
  BY <1>1, ZNs, KeptTwice DEF Kept

\* setAcc followed by setZNM does.
LEMMA AccZNKept ==
    ASSUME NEW s, Good(s), NEW v \in Int, NEW w
    PROVE  Kept(s, SetZNM(SetAcc(s, v), w))
<1>1. Kept(s, SetAcc(s, v))
  BY AccKept
<1> QED
  BY <1>1, ZNs, KeptTwice DEF Kept

\* The accumulator's 16 bits can be replaced whatever the width.
LEMMA WideAcc ==
    ASSUME NEW s, Good(s), NEW v \in Words, NEW w
    PROVE  Kept(s, SetZN16([s EXCEPT !.C = v], w)) /\ Kept(s, SetZN8([s EXCEPT !.C = v], w))
<1>1. Kept(s, [s EXCEPT !.C = v])
  BY PutC
<1> QED
  BY <1>1, ZNs, KeptTwice DEF Kept

\* TCD, which refreshes the cycle key, leaves a good register file.
LEMMA TCDGood == ASSUME NEW s, Good(s) PROVE Good(TCD(s))
<1> DEFINE k == <<s.key[1], s.key[2], s.key[3], s.C % 256 # 0>>
           t == [s EXCEPT !.D = s.C, !.key = k]
<1>1. k = <<s.M8, s.X8, s.E, s.C % 256 # 0>>
  <2>1. s.key = <<s.M8, s.X8, s.E, s.D % 256 # 0>>
    BY DEF Good, Fresh, CycKey
  <2> QED
    BY <2>1
<1> HIDE DEF k
<1>2. /\ Typed(t) /\ t.D = s.C /\ t.key = k /\ t.M8 = s.M8 /\ t.X8 = s.X8 /\ t.E = s.E
      /\ t.P = s.P /\ t.X = s.X /\ t.Y = s.Y /\ t.S = s.S
  BY DEF Good, Typed, Fields, Names
<1>3. TCD(s) = SetZN16(t, s.C)
  BY DEF TCD, k
<1> HIDE DEF t
<1>4. t.key = CycKey(t)
  BY <1>1, <1>2 DEF CycKey
<1>5. Good(t)
  BY <1>2, <1>4 DEF Good, Fresh
<1> QED
  BY <1>3, <1>5, ZNs DEF Kept

\* The transfers leave a good register file, TXS and TCS in page 1 in
\* emulation mode.
LEMMA TransferGood ==
    ASSUME NEW s, Good(s), NEW i,
           i.op \in {"TAX", "TAY", "TSX", "TXY", "TYX", "TXA", "TYA", "TXS", "TCS", "TSC",
                     "TDC", "TCD", "XBA"}
    PROVE  Good(Transfer(s, i))
<1>1. /\ s.C \in Words /\ s.X \in Words /\ s.Y \in Words /\ s.S \in Words /\ s.D \in Words
      /\ s.C \in Int /\ s.X \in Int /\ s.Y \in Int /\ s.S \in Int
  BY WordIsInt DEF Good, Typed
<1>2. \A v \in Int : /\ ByIndexWidth(s, v) \in Words
                     /\ s.X8 => ByIndexWidth(s, v) < 256
  BY IndexWidth
<1>3. CASE i.op \in {"TAX", "TAY", "TSX", "TXY", "TYX"}
  BY <1>1, <1>2, <1>3, IndexKept DEF Transfer, Kept
<1>4. CASE i.op \in {"TXA", "TYA"}
  <2>1. GetX(s) \in Int /\ GetY(s) \in Int
    BY Registers8, WordIsInt
  <2> QED
    BY <1>4, <2>1, AccZNKept DEF Transfer, Kept
<1>5. CASE i.op \in {"TXS", "TCS"}
  <2> DEFINE v == IF i.op = "TXS" THEN IF s.E THEN 256 + Lo(s.X) ELSE GetX(s)
                  ELSE IF s.E THEN 256 + Lo(s.C) ELSE s.C
  <2>1. v \in Words /\ (s.E => Hi(v) = 1)
    <3>1. GetX(s) \in Words /\ Hi(256 + Lo(s.X)) = 1 /\ Hi(256 + Lo(s.C)) = 1
          /\ 256 + Lo(s.X) \in Words /\ 256 + Lo(s.C) \in Words
      BY <1>1, PageOne, Registers8
    <3> QED
      BY <1>1, <3>1, Zenon
  <2>2. Transfer(s, i) = [s EXCEPT !.S = v]
    BY <1>5 DEF Transfer
  <2> HIDE DEF v
  <2> QED
    BY <2>1, <2>2, PutS DEF Kept
<1>6. CASE i.op \in {"TSC", "TDC"}
  BY <1>1, <1>6, WideAcc DEF Transfer, Kept
<1>7. CASE i.op = "TCD"
  BY <1>7, TCDGood DEF Transfer
<1>8. CASE i.op = "XBA"
  <2>1. Word(Hi(s.C), Lo(s.C)) \in Words
    BY <1>1, Low, High, Joined
  <2> QED
    BY <1>8, <2>1, WideAcc DEF Transfer, Kept
<1> QED
  BY <1>3, <1>4, <1>5, <1>6, <1>7, <1>8

\* The pushes and pulls of the 6502 do, PLP through applyE.
LEMMA StackGood ==
    ASSUME NEW s, Good(s), NEW i,
           i.op \in {"PHA", "PHX", "PHY", "PHP", "PHB", "PHK", "PLA", "PLX", "PLY", "PLP", "PLB"}
    PROVE  Good(Stack(s, i))
<1>1. /\ Typed(s) /\ s.C \in Int /\ s.X \in Int /\ s.Y \in Int /\ s.DBR \in Byte
      /\ s.PBR \in Byte
  BY WordIsInt DEF Good, Typed
<1>2. \A v \in Int : \A e : Good(PushReg(s, v, e))
  BY Low, PushKept, Push16Kept DEF PushReg, Kept
<1>3. \A e : /\ Pulled(s, e) \in Words /\ Pulled(s, e) \in Int /\ (e => Pulled(s, e) < 256)
             /\ Kept(s, Popped(s, e))
  <2>1. Peek(s, 1) \in Byte /\ Peek16(s, 1) \in Words
    BY <1>1, PeekByte, Peek16Word
  <2>2. \A e : Pulled(s, e) \in Words /\ (e => Pulled(s, e) \in Byte)
    BY <2>1, ByteIsWord, Zenon DEF Pulled
  <2>3. \A e : Kept(s, Popped(s, e))
    BY DropKept DEF Popped
  <2> QED
    BY <2>2, <2>3, WordIsInt, ByteRange
<1>4. CASE i.op \in {"PHA", "PHX", "PHY"}
  BY <1>1, <1>2, <1>4 DEF Stack
<1>5. CASE i.op \in {"PHB", "PHK"}
  BY <1>1, <1>5, PushKept DEF Stack, Kept
<1>6. CASE i.op = "PHP"
  <2>1. ByteOf(IF s.E THEN s.P \cup {"X"} ELSE s.P) \in Byte
    BY DEF ByteOf, Weight, Byte
  <2> QED
    BY <1>6, <2>1, PushKept DEF Stack, Kept
<1>7. CASE i.op = "PLA"
  <2> DEFINE v == Pulled(s, s.M8)
             t == Popped(s, s.M8)
  <2>1. v \in Int /\ Good(t)
    BY <1>3 DEF Kept
  <2>2. Stack(s, i) = SetZNM(SetAcc(t, v), v)
    BY <1>7 DEF Stack
  <2> HIDE DEF v, t
  <2> QED
    BY <2>1, <2>2, AccZNKept DEF Kept
<1>8. CASE i.op \in {"PLX", "PLY"}
  <2> DEFINE v == Pulled(s, s.X8)
             t == Popped(s, s.X8)
  <2>1. v \in Words /\ Good(t) /\ (t.X8 => v < 256)
    BY <1>3, KeptWidths DEF Kept
  <2>2. \/ Stack(s, i) = SetZNX([t EXCEPT !.X = v], v)
        \/ Stack(s, i) = SetZNX([t EXCEPT !.Y = v], v)
    BY <1>8 DEF Stack
  <2> HIDE DEF v, t
  <2> QED
    BY <2>1, <2>2, IndexKept DEF Kept
<1>9. CASE i.op = "PLP"
  <2> DEFINE t == Drop(s, 1)
             f == FlagsOf(Peek(s, 1))
  <2>1. Typed(t) /\ f \in SUBSET AllFlags
    BY DropKept DEF Good, Kept, FlagsOf
  <2>2. Stack(s, i) = ApplyE([t EXCEPT !.P = f])
    BY <1>9 DEF Stack, PLP
  <2> HIDE DEF t, f
  <2>3. Typed([t EXCEPT !.P = f])
    BY <2>1 DEF Typed, Fields, Names
  <2> QED
    BY <2>2, <2>3, ApplyGood
<1>10. CASE i.op = "PLB"
  <2> DEFINE t == Drop(s, 1)
             b == Peek(s, 1)
  <2>1. Good(t) /\ b \in Byte
    BY <1>1, DropKept, PeekByte DEF Kept
  <2>2. Stack(s, i) = SetZN8([t EXCEPT !.DBR = b], b)
    BY <1>10 DEF Stack
  <2> HIDE DEF t, b
  <2> QED
    BY <2>1, <2>2, PutDBR, ZNs DEF Kept
<1> QED
  BY <1>4, <1>5, <1>6, <1>7, <1>8, <1>9, <1>10

\* The pushes and pulls of the 65816 do: emulation mode's page 1 is restored
\* at their end.
LEMMA StackNewGood ==
    ASSUME NEW s, Good(s), NEW i, Operands(i),
           i.op \in {"PHD", "PLD", "PEA", "PEI", "PER"}
    PROVE  Good(StackNew(s, i))
<1> DEFINE w == Word(i.lo, i.hi)
           d == Word(PeekNew(s, 1), PeekNew(s, 2))
           pc == (s.PC + Signed16(w)) % Bank
           u == [DropNew(s, 2) EXCEPT !.D = d]
<1>1. Typed(s) /\ s.D \in Int /\ s.PC \in Int /\ w \in Int /\ d \in Words
  <2>1. Typed(s) /\ s.D \in Int /\ s.PC \in Int /\ w \in Int
    BY WordIsInt, Joined DEF Good, Typed, Operands
  <2>2. PeekNew(s, 1) \in Byte /\ PeekNew(s, 2) \in Byte
    BY <2>1, PeekByte
  <2> QED
    BY <2>1, <2>2, Joined
<1>2. pc \in Int /\ Bank0Word(s, Direct(s, i)) \in Int
  <2>1. Signed16(w) \in Int
    BY <1>1 DEF Signed16
  <2> HIDE DEF w
  <2> QED
    BY <1>1, <2>1, SumInt, Modulo, DirectType, Bank0WordType, WordIsInt
<1>3. Typed(Push16New(s, s.D)) /\ Typed(Push16New(s, w)) /\ Typed(Push16New(s, pc))
      /\ Typed(Push16New(s, Bank0Word(s, Direct(s, i))))
  BY <1>1, <1>2, Push16NewTyped
<1>4. Typed(SetZN16(u, d))
  <2>1. Typed(DropNew(s, 2))
    BY <1>1, DropNewTyped
  <2> DEFINE v == DropNew(s, 2)
  <2> HIDE DEF v, d
  <2>2. Typed([v EXCEPT !.D = d])
    BY <1>1, <2>1 DEF Typed, Fields, Names, v
  <2> HIDE DEF u
  <2>3. Typed(u)
    BY <2>2 DEF u, v
  <2>4. SetZN(u.P, d, FALSE) \in SUBSET AllFlags
    BY <2>3, ZNKept DEF Typed
  <2> QED
    BY <2>3, <2>4 DEF SetZN16, Typed, Fields, Names
<1> DEFINE r == CASE i.op = "PHD" -> Push16New(s, s.D)
                  [] i.op = "PLD" -> SetZN16(u, d)
                  [] i.op = "PEA" -> Push16New(s, w)
                  [] i.op = "PEI" -> Push16New(s, Bank0Word(s, Direct(s, i)))
                  [] i.op = "PER" -> Push16New(s, pc)
<1>5. StackNew(s, i) = ApplyE(r)
  BY DEF StackNew
<1> HIDE DEF w, d, pc, u
<1>6. Typed(r)
  BY <1>3, <1>4
<1> HIDE DEF r
<1> QED
  BY <1>5, <1>6, ApplyGood

\* Bit operations and decimal digits.
LEMMA AndInt == ASSUME NEW v \in Int, NEW w \in Int PROVE BitAnd(v, w) \in Int
<1> DEFINE b(p) == IF (v \div p) % 2 = 1 /\ (w \div p) % 2 = 1 THEN p ELSE 0
<1>1. \A p \in Int : b(p) \in Int
  OBVIOUS
<1>2. BitAnd(v, w) = b(1) + b(2) + b(4) + b(8) + b(16) + b(32) + b(64) + b(128)
        + b(256) + b(512) + b(1024) + b(2048) + b(4096) + b(8192) + b(16384) + b(32768)
  BY DEF BitAnd
<1> HIDE DEF b
<1> QED
  BY <1>1, <1>2

\* The bitwise operators give integers.
LEMMA BitsInt ==
    ASSUME NEW v \in Int, NEW w \in Int
    PROVE  BitOr(v, w) \in Int /\ BitXor(v, w) \in Int
BY AndInt DEF BitOr, BitXor

\* AND, EOR and ORA keep a good register file good.
LEMMA LogicKept ==
    ASSUME NEW s, Good(s), NEW i, Legal(i), i.op \in {"AND", "EOR", "ORA"}
    PROVE  Kept(s, Logic(s, i))
<1> DEFINE v == ReadOperand(s, i, s.M8)
           a == GetAcc(s)
           r == CASE i.op = "AND" -> BitAnd(a, v)
                  [] i.op = "EOR" -> BitXor(a, v)
                  [] i.op = "ORA" -> BitOr(a, v)
<1>1. v \in Int /\ a \in Int
  BY ReadModes, ReadType, Registers8, WordIsInt DEF Legal, AccReads
<1> HIDE DEF v, a
<1>2. r \in Int
  BY <1>1, AndInt, BitsInt
<1>3. Logic(s, i) = SetZNM(SetAcc(s, r), GetAcc(SetAcc(s, r)))
  BY DEF Logic, v, a
<1> HIDE DEF r
<1> QED
  BY <1>2, <1>3, AccZNKept

\* BIT does.
LEMMA BITKept ==
    ASSUME NEW s, Good(s), NEW i
    PROVE  Kept(s, BIT(s, i))
<1> DEFINE v == ReadOperand(s, i, s.M8)
           z == SetFlag(s.P, "Z", BitAnd(GetAcc(s), v) = 0)
           n == SetFlag(z, "N", Negative(v, s.M8))
           o == SetFlag(n, "V", Negative(2 * v, s.M8))
           Same(P) == /\ P \in SUBSET AllFlags
                      /\ "M" \in P <=> "M" \in s.P
                      /\ "X" \in P <=> "X" \in s.P
<1>0. Same(s.P)
  BY DEF Good, Typed
<1>1. Same(z)
  BY <1>0, FlagKept DEF Arithmetical
<1>2. BIT(s, i) = [s EXCEPT !.P = IF i.mode = "imm" THEN z ELSE o]
  BY DEF BIT
<1> HIDE DEF z
<1>3. Same(n)
  BY <1>1, FlagKept DEF Arithmetical
<1> HIDE DEF n
<1>4. Same(o)
  BY <1>3, FlagKept DEF Arithmetical
<1> HIDE DEF o
<1> QED
  BY <1>1, <1>2, <1>4, PutP

\* Setting two arithmetical flags does.
LEMMA PutTwoFlags ==
    ASSUME NEW s, Good(s), NEW f \in Arithmetical, NEW g \in Arithmetical, NEW x, NEW y
    PROVE  Kept(s, [s EXCEPT !.P = SetFlag(SetFlag(@, f, x), g, y)])
<1> DEFINE p == SetFlag(s.P, f, x)
           q == SetFlag(p, g, y)
<1>1. p \in SUBSET AllFlags /\ ("M" \in p <=> "M" \in s.P) /\ ("X" \in p <=> "X" \in s.P)
  BY FlagKept DEF Good, Typed
<1> HIDE DEF p
<1>2. q \in SUBSET AllFlags /\ ("M" \in q <=> "M" \in p) /\ ("X" \in q <=> "X" \in p)
  BY <1>1, FlagKept
<1>3. [s EXCEPT !.P = SetFlag(SetFlag(@, f, x), g, y)] = [s EXCEPT !.P = q]
  BY DEF p
<1> HIDE DEF q
<1> QED
  BY <1>1, <1>2, <1>3, PutP

\* The end of ADC and SBC does: accumulator, C, V, N and Z.
LEMMA SumKept ==
    ASSUME NEW s, Good(s), NEW v \in Int, NEW x, NEW y, NEW w
    PROVE  Kept(s, SetZNM([SetAcc(s, v) EXCEPT !.P = SetFlag(SetFlag(@, "C", x), "V", y)], w))
<1> DEFINE t == SetAcc(s, v)
           u == [t EXCEPT !.P = SetFlag(SetFlag(@, "C", x), "V", y)]
<1>1. Kept(s, t)
  BY AccKept
<1> HIDE DEF t
<1>2. Kept(t, u)
  BY <1>1, PutTwoFlags DEF Kept, Arithmetical
<1> HIDE DEF u
<1>3. Kept(u, SetZNM(u, w))
  BY <1>2, ZNs DEF Kept
<1>4. Kept(s, u)
  BY <1>1, <1>2, KeptTwice
<1>5. Kept(s, SetZNM(u, w))
  BY <1>3, <1>4, KeptTwice
<1> QED
  BY <1>5 DEF t, u

\* The carry is a bit.
LEMMA CarryBit == \A P : Carry(P) \in {0, 1}
BY DEF Carry

\* A digit and what one step of the decimal adder makes of two of them.
LEMMA DigitInt == ASSUME NEW x \in Int, NEW u \in {1, 16, 256, 4096} PROVE Digit(x, u) \in Int
BY DEF Digit

\* A decimal digit step gives integers.
LEMMA DigitSteps ==
    ASSUME NEW a \in Int, NEW v \in Int, NEW c \in Int
    PROVE  /\ AddDigit(a, v, c).sum \in Int /\ AddDigit(a, v, c).carry \in {0, 1}
           /\ SubDigit(a, v, c).sum \in Int /\ SubDigit(a, v, c).carry \in {0, 1}
<1>1. a + v + c \in Int /\ a - v - c \in Int
  OBVIOUS
<1> QED
  BY <1>1 DEF AddDigit, SubDigit

\* Digits of integers are integers.
LEMMA DigitsInt ==
    \A a, v, c \in Int :
        /\ AddDigit(a, v, c).sum \in Int /\ AddDigit(a, v, c).carry \in Int
        /\ SubDigit(a, v, c).sum \in Int /\ SubDigit(a, v, c).carry \in Int
<1>1. \A z \in {0, 1} : z \in Int
  OBVIOUS
<1> QED
  BY <1>1, DigitSteps, Zenon

\* So are decimal sums and differences.
LEMMA DecimalInt ==
    ASSUME NEW a \in Int, NEW v \in Int, NEW c \in {0, 1}, NEW e
    PROVE  DecimalAdd(a, v, c, e).sum \in Int /\ DecimalSub(a, v, c, e) \in Int
<1> DEFINE a0 == Digit(a, 1)    a1 == Digit(a, 16)    a2 == Digit(a, 256)    a3 == Digit(a, 4096)
           v0 == Digit(v, 1)    v1 == Digit(v, 16)    v2 == Digit(v, 256)    v3 == Digit(v, 4096)
<1>1. /\ a0 \in Int /\ a1 \in Int /\ a2 \in Int /\ a3 \in Int
      /\ v0 \in Int /\ v1 \in Int /\ v2 \in Int /\ v3 \in Int /\ c \in Int
  BY DigitInt
<1>2. DecimalAdd(a, v, c, e).sum \in Int
  <2> DEFINE d0 == AddDigit(a0, v0, c)
             d1 == AddDigit(a1, v1, d0.carry)
             d2 == AddDigit(a2, v2, d1.carry)
             d3 == AddDigit(a3, v3, d2.carry)
             low == d0.sum + 16 * d1.sum
  <2>1. DecimalAdd(a, v, c, e).sum = IF e THEN low ELSE low + 256 * d2.sum + 4096 * d3.sum
    BY DEF DecimalAdd
  <2> HIDE DEF a0, a1, a2, a3, v0, v1, v2, v3
  <2>2. d0.sum \in Int /\ d0.carry \in Int
    BY <1>1, DigitsInt, Zenon
  <2> HIDE DEF d0
  <2>3. d1.sum \in Int /\ d1.carry \in Int
    BY <1>1, <2>2, DigitsInt, Zenon
  <2> HIDE DEF d1
  <2>4. d2.sum \in Int /\ d2.carry \in Int
    BY <1>1, <2>3, DigitsInt, Zenon
  <2> HIDE DEF d2
  <2>5. d3.sum \in Int
    BY <1>1, <2>4, DigitsInt, Zenon
  <2> HIDE DEF d3
  <2> QED
    BY <2>1, <2>2, <2>3, <2>4, <2>5
<1>3. DecimalSub(a, v, c, e) \in Int
  <2> DEFINE d0 == SubDigit(a0, v0, c)
             d1 == SubDigit(a1, v1, d0.carry)
             d2 == SubDigit(a2, v2, d1.carry)
             d3 == SubDigit(a3, v3, d2.carry)
             low == d0.sum + 16 * d1.sum
  <2>1. DecimalSub(a, v, c, e) = IF e THEN low ELSE low + 256 * d2.sum + 4096 * d3.sum
    BY DEF DecimalSub
  <2> HIDE DEF a0, a1, a2, a3, v0, v1, v2, v3
  <2>2. d0.sum \in Int /\ d0.carry \in Int
    BY <1>1, DigitsInt, Zenon
  <2> HIDE DEF d0
  <2>3. d1.sum \in Int /\ d1.carry \in Int
    BY <1>1, <2>2, DigitsInt, Zenon
  <2> HIDE DEF d1
  <2>4. d2.sum \in Int /\ d2.carry \in Int
    BY <1>1, <2>3, DigitsInt, Zenon
  <2> HIDE DEF d2
  <2>5. d3.sum \in Int
    BY <1>1, <2>4, DigitsInt, Zenon
  <2> HIDE DEF d3
  <2> QED
    BY <2>1, <2>2, <2>3, <2>4, <2>5
<1> QED
  BY <1>2, <1>3

\* The width's modulus is a positive integer.
LEMMA WideInt == \A e : Wide(e) \in Int /\ Wide(e) > 0
BY SMT DEF Wide

\* ADC and SBC keep a good register file good, binary and decimal.
LEMMA AddKept ==
    ASSUME NEW s, Good(s), NEW v \in Int
    PROVE  Kept(s, ADC(s, v)) /\ Kept(s, SBC(s, v))
<1> DEFINE a == GetAcc(s)
           c == Carry(s.P)
           d == DecimalAdd(a, v, c, s.M8)
           bin == a + v + c
           comp == Wide(s.M8) - 1 - v
           neg == a + comp + c
           res == IF "D" \in s.P THEN DecimalSub(a, v, 1 - c, s.M8) ELSE neg
<1>1. a \in Int /\ c \in {0, 1}
  BY Registers8, WordIsInt, CarryBit
<1>2. c \in Int /\ 1 - c \in {0, 1}
  BY <1>1
<1>3. bin \in Int /\ neg \in Int /\ d.sum \in Int /\ res \in Int
  <2>1. d.sum \in Int /\ DecimalSub(a, v, 1 - c, s.M8) \in Int
    BY <1>1, <1>2, DecimalInt
  <2> HIDE DEF a, c, d
  <2>2. bin \in Int /\ neg \in Int
    BY <1>1, <1>2, WideInt
  <2> HIDE DEF neg
  <2> QED
    BY <2>1, <2>2
<1>4. AddBinary(s, v) = SetZNM([SetAcc(s, bin) EXCEPT
          !.P = SetFlag(SetFlag(@, "C", bin >= Wide(s.M8)), "V", Overflow(a, v, bin, s.M8))], bin)
  BY DEF AddBinary
<1>5. AddDecimal(s, v) = SetZNM([SetAcc(s, d.sum) EXCEPT
          !.P = SetFlag(SetFlag(@, "C", d.carry = 1), "V", Overflow(a, v, d.raw, s.M8))], d.sum)
  BY DEF AddDecimal
<1>6. SBC(s, v) = SetZNM([SetAcc(s, res) EXCEPT
          !.P = SetFlag(SetFlag(@, "C", neg >= Wide(s.M8)), "V", Overflow(a, comp, neg, s.M8))], res)
  BY DEF SBC
<1> HIDE DEF bin, neg, d, res, a, c, comp
<1>7. Kept(s, AddBinary(s, v))
  <2> DEFINE x == bin >= Wide(s.M8)
             y == Overflow(a, v, bin, s.M8)
  <2>1. AddBinary(s, v) = SetZNM([SetAcc(s, bin) EXCEPT
                                     !.P = SetFlag(SetFlag(@, "C", x), "V", y)], bin)
    BY <1>4
  <2>2. bin \in Int
    BY <1>3
  <2> HIDE DEF x, y, bin
  <2>3. Kept(s, SetZNM([SetAcc(s, bin) EXCEPT !.P = SetFlag(SetFlag(@, "C", x), "V", y)], bin))
    BY <2>2, SumKept
  <2> QED
    BY <2>1, <2>3, Zenon
<1>8. Kept(s, AddDecimal(s, v))
  BY <1>3, <1>5, SumKept
<1>9. Kept(s, SBC(s, v))
  BY <1>3, <1>6, SumKept
<1> QED
  BY <1>7, <1>8, <1>9 DEF ADC

\* CMP, CPX and CPY do.
LEMMA CompareKept == ASSUME NEW s, Good(s), NEW r, NEW v, NEW e PROVE Kept(s, CMP(s, r, v, e))
<1> DEFINE p == SetFlag(s.P, "C", r >= v)
           q == SetZN(p, (r - v) % Bank, e)
<1>1. p \in SUBSET AllFlags /\ ("M" \in p <=> "M" \in s.P) /\ ("X" \in p <=> "X" \in s.P)
  BY FlagKept DEF Good, Typed, Arithmetical
<1> HIDE DEF p
<1>2. q \in SUBSET AllFlags /\ ("M" \in q <=> "M" \in p) /\ ("X" \in q <=> "X" \in p)
  BY <1>1, ZNKept
<1>3. CMP(s, r, v, e) = [s EXCEPT !.P = q]
  BY DEF CMP, p
<1> HIDE DEF q
<1> QED
  BY <1>1, <1>2, <1>3, PutP

\* The whole arithmetic group does.
LEMMA ArithmeticKept ==
    ASSUME NEW s, Good(s), NEW i, Legal(i), i.op \in {"ADC", "SBC", "CMP", "CPX", "CPY"}
    PROVE  Kept(s, Arithmetic(s, i))
<1>1. ReadOperand(s, i, s.M8) \in Int
  BY ReadModes, ReadType DEF Legal, AccReads, IndexReads
<1> QED
  BY <1>1, AddKept, CompareKept DEF Arithmetic

\* INX, INY, DEX and DEY do.
LEMMA CountKept ==
    ASSUME NEW s, Good(s), NEW i, i.op \in {"INX", "DEX", "INY", "DEY"}
    PROVE  Kept(s, CountXY(s, i))
<1>1. s.X + 1 \in Int /\ s.X - 1 \in Int /\ s.Y + 1 \in Int /\ s.Y - 1 \in Int
  BY WordIsInt DEF Good, Typed
<1>2. \A v \in Int : /\ ByIndexWidth(s, v) \in Words
                     /\ s.X8 => ByIndexWidth(s, v) < 256
  BY IndexWidth
<1> QED
  BY <1>1, <1>2, IndexKept DEF CountXY

\* The result of a read-modify-write is an integer.
LEMMA ModifiedInt ==
    ASSUME NEW s, NEW op \in Modifies, NEW v \in Int
    PROVE  Modified(s, op, v)[1] \in Int
<1> DEFINE w == Wide(s.M8)
           in == Carry(s.P)
<1>1. w \in Int /\ w > 0 /\ in \in Int
  BY WideInt, CarryBit
<1> HIDE DEF w, in
<1>2. \A x \in Int : x % w \in Int
  BY <1>1
<1>3. v + 1 \in Int /\ v - 1 \in Int /\ 2 * v \in Int /\ 2 * v + in \in Int
      /\ v \div 2 \in Int /\ w \div 2 \in Int
  BY <1>1
<1>4. in * (w \div 2) \in Int
  BY <1>1, <1>3
<1>5. v \div 2 + in * (w \div 2) \in Int
  BY <1>3, <1>4
<1> QED
  BY <1>2, <1>3, <1>5 DEF Modified, Modifies, w, in

\* INC, DEC and the shifts keep a good register file good.
LEMMA ModifyKept ==
    ASSUME NEW s, Good(s), NEW i, Legal(i), i.op \in Modifies
    PROVE  Kept(s, Modify(s, i))
<1> DEFINE v == IF i.mode = "acc" THEN GetAcc(s) ELSE ReadOperand(s, i, s.M8)
           mv == Modified(s, i.op, v)
           t == IF i.mode = "acc" THEN SetAcc(s, mv[1]) ELSE RmwWrite(s, EA(s, i), v, mv[1])
           u == [t EXCEPT !.P = SetFlag(@, "C", mv[2])]
<1>0. (i.mode = "acc" \/ i.mode \in MemoryModes) /\ Operands(i)
  BY ModifyModes DEF Legal
<1>1. v \in Int
  BY <1>0, ReadType, Registers8, WordIsInt
<1>2. Modify(s, i) = SetZNM(u, mv[1])
  BY DEF Modify
<1> HIDE DEF v
<1>3. mv[1] \in Int
  BY <1>1, ModifiedInt
<1> HIDE DEF mv
<1>4. Kept(s, t)
  <2>1. CASE i.mode = "acc"
    BY <1>3, <2>1, AccKept
  <2>2. CASE i.mode # "acc"
    BY <1>0, <1>1, <1>3, <2>2, EAType, RmwKept
  <2> QED
    BY <2>1, <2>2
<1> HIDE DEF t
<1>5. Kept(t, u)
  BY <1>4, PutFlag DEF Kept, Arithmetical
<1> HIDE DEF u
<1>6. Kept(u, SetZNM(u, mv[1]))
  BY <1>5, ZNs DEF Kept
<1> QED
  BY <1>2, <1>4, <1>5, <1>6, KeptTwice

\* TSB and TRB do.
LEMMA TestBitsKept ==
    ASSUME NEW s, Good(s), NEW i, Legal(i), i.op \in {"TSB", "TRB"}
    PROVE  Kept(s, TestBits(s, i))
<1> DEFINE v == ReadOperand(s, i, s.M8)
           a == GetAcc(s)
           r == CASE i.op = "TSB" -> BitOr(v, a) [] i.op = "TRB" -> v - BitAnd(v, a)
           t == [s EXCEPT !.P = SetFlag(@, "Z", BitAnd(a, v) = 0)]
           e == EA(s, i)
<1>0. i.mode \in MemoryModes /\ Operands(i)
  BY StoreModes DEF Legal
<1>1. v \in Int /\ a \in Int /\ e.a \in Int
  BY <1>0, ReadType, Registers8, WordIsInt, EAType
<1>2. TestBits(s, i) = RmwWrite(t, e, v, r)
  BY DEF TestBits
<1> HIDE DEF v, a, e
<1>3. r \in Int
  <2>1. BitOr(v, a) \in Int /\ BitAnd(v, a) \in Int
    BY <1>1, AndInt, BitsInt
  <2>2. v - BitAnd(v, a) \in Int
    BY <1>1, <2>1
  <2> QED
    BY <2>1, <2>2
<1>4. Kept(s, t)
  BY PutFlag DEF Arithmetical
<1> HIDE DEF t, r
<1>5. Kept(t, RmwWrite(t, e, v, r))
  BY <1>1, <1>3, <1>4, RmwKept DEF Kept
<1> QED
  BY <1>2, <1>4, <1>5, KeptTwice

\* The modes of the jumps.
LEMMA JumpModes ==
    ASSUME NEW i, Legal(i), i.op \in {"JMP", "JML", "JSR", "JSL", "RTS", "RTL"}
    PROVE  <<i.op, i.mode>> \in {<<"JMP", "abs">>, <<"JMP", "ind">>, <<"JMP", "iax">>,
              <<"JML", "abl">>, <<"JML", "indl">>, <<"JSR", "abs">>, <<"JSR", "iax">>,
              <<"JSL", "abl">>, <<"RTS", "imp">>, <<"RTL", "imp">>}
BY DEF Legal, ModesOf, AccReads, Modifies, Branches, Implied, FlagOps

\* What a return or a far jump leaves is typed; ApplyE makes it fresh.
LEMMA TypedPC ==
    ASSUME NEW s, Typed(s), NEW pc \in Words, NEW b \in Byte
    PROVE  Typed([s EXCEPT !.PC = pc]) /\ Typed([s EXCEPT !.PC = pc, !.PBR = b])
BY DEF Typed, Fields, Names

\* Assigning program bank and counter together keeps a good register file
\* good.
LEMMA PutFar ==
    ASSUME NEW s, Good(s), NEW pc \in Words, NEW b \in Byte
    PROVE  Good([s EXCEPT !.PC = pc, !.PBR = b])
<1> DEFINE t == [s EXCEPT !.PC = pc]
           u == [t EXCEPT !.PBR = b]
<1>1. [s EXCEPT !.PC = pc, !.PBR = b] = u
  BY DEF Good, Typed, Fields, Names
<1>2. Good(t)
  BY PutPC DEF Kept
<1> HIDE DEF t
<1> QED
  BY <1>1, <1>2, PutPBR DEF Kept

\* Jumps, calls and returns leave a good register file.
LEMMA JumpGood ==
    ASSUME NEW s, Good(s), NEW i, Legal(i), i.op \in {"JMP", "JML", "JSR", "JSL", "RTS", "RTL"}
    PROVE  Good(Jump(s, i))
<1> DEFINE w == Word(i.lo, i.hi)
           K == s.PBR * Bank
           x == (w + GetX(s)) % Bank
           ret == (s.PC - 1) % Bank
           table(r) == Word(Rd(r, K + x), Rd(r, K + ((x + 1) % Bank)))
<1>1. /\ Typed(s) /\ s.PC \in Int /\ s.PBR \in Int /\ s.PBR \in Byte /\ w \in Words /\ w \in Int
      /\ GetX(s) \in Int /\ i.bk \in Byte
  BY WordIsInt, ByteIsWord, Joined, Registers8 DEF Good, Typed, Legal, Operands
<1> HIDE DEF w
<1>2. x \in Int /\ ret \in Int /\ (x + 1) % Bank \in Int
  <2>1. x \in Int /\ ret \in Int
    BY <1>1, ModSum
  <2> HIDE DEF x
  <2> QED
    BY <2>1, ModSum
<1>3. K + x \in Int /\ K + ((x + 1) % Bank) \in Int
  BY <1>1, <1>2, BankSize
<1>4. ASSUME NEW r, Typed(r) PROVE table(r) \in Words
  BY <1>3, <1>4, ReadByte, Joined
<1> HIDE DEF K, x, ret
<1>5. CASE i.op = "JMP"
  <2>1. Bank0Word(s, w) \in Words
    BY <1>1, Bank0WordType
  <2>2. table(s) \in Words
    BY <1>1, <1>4
  <2>3. \E pc \in {w, Bank0Word(s, w), table(s)} : Jump(s, i) = [s EXCEPT !.PC = pc]
    BY <1>5, JumpModes DEF Jump, w, K, x
  <2> HIDE DEF table
  <2> QED
    BY <1>1, <2>1, <2>2, <2>3, PutPC DEF Kept
<1>6. CASE i.op = "JML"
  <2>1. Bank0Word(s, w) \in Words
    BY <1>1, Bank0WordType
  <2>2. Rd(s, (w + 2) % Bank) \in Byte
    <3>1. (w + 2) % Bank \in Int
      BY <1>1, ModSum
    <3> QED
      BY <1>1, <3>1, ReadByte
  <2>3. \/ Jump(s, i) = [s EXCEPT !.PC = w, !.PBR = i.bk]
        \/ Jump(s, i) = [s EXCEPT !.PC = Bank0Word(s, w), !.PBR = Rd(s, (w + 2) % Bank)]
    BY <1>6, JumpModes DEF Jump, w
  <2>4. /\ Good([s EXCEPT !.PC = w, !.PBR = i.bk])
        /\ Good([s EXCEPT !.PC = Bank0Word(s, w), !.PBR = Rd(s, (w + 2) % Bank)])
    BY <1>1, <2>1, <2>2, PutFar
  <2> QED
    BY <2>3, <2>4, Zenon
<1>7. CASE i.op = "JSR" /\ i.mode = "abs"
  <2>1. Good(Push16(s, ret))
    BY <1>2, Push16Kept DEF Kept
  <2>2. Jump(s, i) = [Push16(s, ret) EXCEPT !.PC = w]
    BY <1>7 DEF Jump, w, ret
  <2> QED
    BY <1>1, <2>1, <2>2, PutPC DEF Kept
<1>8. CASE i.op = "JSR" /\ i.mode = "iax"
  <2> DEFINE t == Push16New(s, ret)
  <2>1. Typed(t)
    BY <1>1, <1>2, Push16NewTyped
  <2>2. Jump(s, i) = ApplyE([t EXCEPT !.PC = table(t)])
    BY <1>8 DEF Jump, w, ret, K, x
  <2>3. table(t) \in Words
    BY <1>4, <2>1
  <2> HIDE DEF t, table
  <2>4. Typed([t EXCEPT !.PC = table(t)])
    BY <1>1, <2>1, <2>3, TypedPC
  <2> QED
    BY <2>2, <2>4, ApplyGood
<1>9. CASE i.op = "JSL"
  <2> DEFINE t == Push16New(Push8New(s, s.PBR), ret)
  <2>1. Typed(t)
    BY <1>1, <1>2, PushNewTyped, Push16NewTyped
  <2>2. Jump(s, i) = ApplyE([t EXCEPT !.PC = w, !.PBR = i.bk])
    BY <1>9 DEF Jump, w, ret
  <2> HIDE DEF t
  <2> QED
    BY <1>1, <2>1, <2>2, TypedPC, ApplyGood
<1>10. CASE i.op = "RTS"
  <2>1. (Peek16(s, 1) + 1) % Bank \in Words
    <3>1. Peek16(s, 1) \in Words
      BY <1>1, Peek16Word
    <3> QED
      BY <3>1, WordIsInt, ModSum
  <2>2. Good(Drop(s, 2))
    BY DropKept DEF Kept
  <2>3. Jump(s, i) = [Drop(s, 2) EXCEPT !.PC = (Peek16(s, 1) + 1) % Bank]
    BY <1>10 DEF Jump
  <2> QED
    BY <2>1, <2>2, <2>3, PutPC DEF Kept
<1>11. CASE i.op = "RTL"
  <2> DEFINE t == DropNew(s, 3)
             pc == (Word(PeekNew(s, 1), PeekNew(s, 2)) + 1) % Bank
             b == PeekNew(s, 3)
  <2>1. PeekNew(s, 1) \in Byte /\ PeekNew(s, 2) \in Byte /\ b \in Byte /\ Typed(t)
    BY <1>1, PeekByte, DropNewTyped
  <2>2. pc \in Words
    BY <2>1, Joined, SumInt, Modulo
  <2>3. Jump(s, i) = ApplyE([t EXCEPT !.PC = pc, !.PBR = b])
    BY <1>11 DEF Jump
  <2> HIDE DEF t, pc, b
  <2> QED
    BY <2>1, <2>2, <2>3, TypedPC, ApplyGood
<1> QED
  BY <1>5, <1>6, <1>7, <1>8, <1>9, <1>10, <1>11, JumpModes

\* RTI does: the status it pulls goes through applyE.
LEMMA RTIGood == ASSUME NEW s, Good(s) PROVE Good(RTI(s))
<1> DEFINE t == Drop(s, IF s.E THEN 3 ELSE 4)
           f == FlagsOf(Peek(s, 1))
           pc == Peek16(s, 2)
           b == IF s.E THEN t.PBR ELSE Peek(s, 4)
<1>1. Typed(t) /\ f \in SUBSET AllFlags
  BY DropKept DEF Good, Kept, FlagsOf
<1>2. pc \in Words /\ Peek(s, 4) \in Byte
  BY PeekByte, Peek16Word DEF Good
<1>3. RTI(s) = ApplyE([t EXCEPT !.P = f, !.PC = pc, !.PBR = b])
  BY DEF RTI
<1>4. b \in Byte
  BY <1>1, <1>2 DEF Typed
<1> HIDE DEF t, f, pc, b
<1>5. Typed([t EXCEPT !.P = f, !.PC = pc, !.PBR = b])
  BY <1>1, <1>2, <1>4 DEF Typed, Fields, Names
<1> QED
  BY <1>3, <1>5, ApplyGood

\* serviceInterrupt does.
LEMMA ServiceGood ==
    ASSUME NEW s, Good(s), NEW native \in Int, NEW emu \in Int, NEW brk
    PROVE  Good(ServiceInterrupt(s, native, emu, brk))
<1> DEFINE p == IF s.E THEN ByteOf(IF brk THEN s.P \cup {"X"} ELSE s.P \ {"X"}) ELSE ByteOf(s.P)
           r == IF s.E THEN s ELSE Push8(s, s.PBR)
           q == Push16(r, s.PC)
           t == Push8(q, p)
           v == IF s.E THEN emu ELSE native
           f == (t.P \cup {"I"}) \ {"D"}
           pc == Bank0Word(t, v)
<1>1. p \in Byte
  <2>1. \A P : ByteOf(P) \in Byte
    BY DEF ByteOf, Weight, Byte
  <2> QED
    BY <2>1
<1>2. Good(r) /\ s.PC \in Int
  BY PushKept, WordIsInt DEF Kept, Good, Typed
<1>3. ServiceInterrupt(s, native, emu, brk)
        = ApplyE([t EXCEPT !.P = (@ \cup {"I"}) \ {"D"}, !.PBR = 0, !.PC = pc])
  BY DEF ServiceInterrupt
<1> HIDE DEF r, p
<1>4. Good(q)
  BY <1>2, Push16Kept DEF Kept
<1> HIDE DEF q
<1>5. Good(t)
  BY <1>1, <1>4, PushKept DEF Kept
<1> HIDE DEF t
<1>6. f \in SUBSET AllFlags /\ Typed(t)
  BY <1>5 DEF Good, Typed, AllFlags, Weight
<1>7. pc \in Words
  BY <1>6, Bank0WordType
<1>8. 0 \in Byte
  BY ByteRange
<1> HIDE DEF pc
<1>9. Typed([t EXCEPT !.P = f, !.PBR = 0, !.PC = pc])
  <2> HIDE DEF f
  <2> QED
    BY <1>6, <1>7, <1>8 DEF Typed, Fields, Names
<1> QED
  BY <1>3, <1>9, ApplyGood

\* BRK, COP, NMI and IRQ do.
LEMMA InterruptGood ==
    ASSUME NEW s, Good(s), NEW i, i.op \in {"BRK", "COP", "NMI", "IRQ"}
    PROVE  Good(Interrupt(s, i))
<1>1. NativeVector(i.op) \in Int
  BY SMT DEF NativeVector
<1>2. EmulationVector(i.op) \in Int
  BY SMT DEF EmulationVector
<1> QED
  BY <1>1, <1>2, ServiceGood, Zenon DEF Interrupt

\* Signed displacements are integers.
LEMMA SignedInt == ASSUME NEW v \in Int PROVE Signed8(v) \in Int /\ Signed16(v) \in Int
BY DEF Signed8, Signed16

\* A branch target is a word.
LEMMA TargetType ==
    ASSUME NEW s, Good(s), NEW i, Operands(i)
    PROVE  BranchTarget(s, i) \in Words
<1>1. s.PC \in Int /\ Signed8(i.lo) \in Int
  BY SignedInt, WordIsInt, ByteIsWord DEF Good, Typed, Operands
<1> QED
  BY <1>1, SumInt, Modulo DEF BranchTarget

\* Branches keep a good register file good.
LEMMA BranchKept ==
    ASSUME NEW s, Good(s), NEW i, Operands(i)
    PROVE  Kept(s, Branch(s, i))
<1> DEFINE pc == (s.PC + Signed16(Word(i.lo, i.hi))) % Bank
<1>1. pc \in Words
  <2>1. s.PC \in Int /\ Signed16(Word(i.lo, i.hi)) \in Int
    BY SignedInt, WordIsInt, Joined DEF Good, Typed, Operands
  <2> QED
    BY <2>1, SumInt, Modulo
<1>2. \/ Branch(s, i) = [s EXCEPT !.PC = pc]
      \/ Branch(s, i) = [s EXCEPT !.PC = BranchTarget(s, i)]
      \/ Branch(s, i) = s
  BY DEF Branch
<1> HIDE DEF pc
<1> QED
  BY <1>1, <1>2, TargetType, PutPC, KeptSelf

\* The flag instructions, REP, SEP and XCE leave a good register file.
LEMMA FlagGood ==
    ASSUME NEW s, Good(s), NEW i, i.op \in DOMAIN FlagOps \cup {"REP", "SEP", "XCE"}
    PROVE  Good(Flag(s, i))
<1>0. \A P \in SUBSET AllFlags : Typed([s EXCEPT !.P = P])
  BY DEF Good, Typed, Fields, Names
<1>1. FlagsOf(i.lo) \in SUBSET AllFlags /\ s.P \in SUBSET AllFlags
  BY DEF FlagsOf, Good, Typed
<1>2. CASE i.op \in {"REP", "SEP"}
  <2>1. s.P \ FlagsOf(i.lo) \in SUBSET AllFlags /\ s.P \cup FlagsOf(i.lo) \in SUBSET AllFlags
    BY <1>1
  <2> QED
    BY <1>0, <1>2, <2>1, ApplyGood DEF Flag
<1>3. CASE i.op = "XCE"
  <2> DEFINE p == SetFlag(s.P, "C", s.E)
             e == "C" \in s.P
             t == [s EXCEPT !.E = e, !.P = p]
  <2>1. p \in SUBSET AllFlags /\ e \in BOOLEAN
    BY <1>1, FlagKept DEF Arithmetical
  <2>2. Flag(s, i) = ApplyE(t)
    BY <1>3 DEF Flag, XCE
  <2> HIDE DEF p, e
  <2>3. Typed(t)
    BY <2>1 DEF Good, Typed, Fields, Names
  <2> QED
    BY <2>2, <2>3, ApplyGood
<1>4. CASE i.op \in DOMAIN FlagOps
  <2>1. FlagOps[i.op][1] \in Arithmetical
    BY <1>4 DEF FlagOps, Arithmetical
  <2>2. Flag(s, i) = [s EXCEPT !.P = SetFlag(@, FlagOps[i.op][1], FlagOps[i.op][2])]
    BY <1>4 DEF Flag, FlagOps
  <2> QED
    BY <2>1, <2>2, PutFlag DEF Kept
<1> QED
  BY <1>2, <1>3, <1>4

\* MVN and MVP do, in the middle of a move too.
LEMMA BlockMoveGood ==
    ASSUME NEW s, Good(s), NEW i, Operands(i)
    PROVE  Good(BlockMove(s, i))
<1> DEFINE step == IF i.op = "MVN" THEN 1 ELSE -1
           t == Wr(s, i.lo * Bank + GetY(s), Rd(s, i.hi * Bank + GetX(s)))
           c == (s.C - 1) % Bank
           x == ByIndexWidth(s, t.X + step)
           y == ByIndexWidth(s, t.Y + step)
           pc == IF c = Bank - 1 THEN t.PC ELSE (t.PC - 3) % Bank
           u == [t EXCEPT !.DBR = i.lo, !.C = c, !.X = x, !.Y = y, !.PC = pc]
<1>1. /\ i.lo \in Int /\ i.hi \in Int /\ GetX(s) \in Int /\ GetY(s) \in Int /\ s.C \in Int
      /\ i.lo \in Byte /\ step \in Int
  BY ByteIsWord, WordIsInt, Registers8 DEF Operands, Good, Typed
<1>2. i.lo * Bank + GetY(s) \in Int /\ i.hi * Bank + GetX(s) \in Int
  BY <1>1, BankSize
<1>3. Kept(s, t)
  BY <1>2, ReadByte, WriteKept DEF Good
<1>4. BlockMove(s, i) = u
  BY DEF BlockMove
<1> HIDE DEF t, step
<1>5. t.X + step \in Int /\ t.Y + step \in Int /\ t.PC - 3 \in Int /\ s.C - 1 \in Int
      /\ t.PC \in Words
  BY <1>1, <1>3, WordIsInt DEF Kept, Good, Typed
<1>6. c \in Words /\ x \in Words /\ y \in Words /\ (s.X8 => x < 256 /\ y < 256) /\ pc \in Words
  BY <1>5, IndexWidth, Modulo
<1> HIDE DEF c, x, y, pc
<1>7. /\ Fields(u) /\ u.DBR = i.lo /\ u.C = c /\ u.X = x /\ u.Y = y /\ u.PC = pc /\ u.S = t.S
      /\ u.PBR = t.PBR /\ u.P = t.P /\ u.mem = t.mem /\ Mode(u) = Mode(t)
  BY <1>3 DEF Kept, Good, Typed, Fields, Names, Mode
<1>8. Good(t) /\ t.X8 = s.X8
  BY <1>3, KeptWidths DEF Kept
<1> HIDE DEF u
<1>9. Good(u)
  BY <1>1, <1>6, <1>7, <1>8, Puts DEF Good, Typed, Fresh
<1> QED
  BY <1>4, <1>9

-----------------------------------------------------------------------------
\* Every encoding falls into one group of the switch.

\* Every instruction of the opcode table belongs to one of the switch's
\* groups.
LEMMA OpKnown ==
    ASSUME NEW i, Legal(i)
    PROVE  \/ i.op \in {"LDA", "LDX", "LDY", "STA", "STX", "STY", "STZ"}
           \/ i.op \in {"TAX", "TAY", "TSX", "TXY", "TYX", "TXA", "TYA", "TXS", "TCS", "TSC",
                        "TDC", "TCD", "XBA"}
           \/ i.op \in {"PHA", "PHX", "PHY", "PHP", "PHB", "PHK", "PLA", "PLX", "PLY", "PLP",
                        "PLB", "PHD", "PLD", "PEA", "PEI", "PER"}
           \/ i.op \in {"AND", "EOR", "ORA", "BIT", "ADC", "SBC", "CMP", "CPX", "CPY"}
           \/ i.op \in {"INX", "INY", "DEX", "DEY", "TSB", "TRB"} \cup Modifies
           \/ i.op \in {"JMP", "JML", "JSR", "JSL", "RTS", "RTL", "RTI", "BRK", "COP", "NMI", "IRQ"}
           \/ i.op \in Branches \cup {"BRA", "BRL", "MVN", "MVP", "NOP", "WDM"}
           \/ i.op \in DOMAIN FlagOps \cup {"REP", "SEP", "XCE"}
BY DEF Legal, ModesOf, AccReads, Implied

\* The switch leaves a good register file, whatever the instruction.
LEMMA DispatchGood ==
    ASSUME NEW s, Good(s), NEW i, Legal(i)
    PROVE  Good(Dispatch(s, i))
<1> USE DEF Modifies, Branches, FlagOps
<1>0. Operands(i)
  BY DEF Legal
<1>1. CASE i.op \in {"LDA", "LDX", "LDY"}
  BY <1>1, LoadKept DEF Dispatch, Kept
<1>2. CASE i.op \in {"STA", "STX", "STY", "STZ"}
  BY <1>2, StoreKept DEF Dispatch, Kept
<1>3. CASE i.op \in {"TAX", "TAY", "TSX", "TXY", "TYX", "TXA", "TYA", "TXS", "TCS", "TSC",
                     "TDC", "TCD", "XBA"}
  BY <1>3, TransferGood DEF Dispatch
<1>4. CASE i.op \in {"PHA", "PHX", "PHY", "PHP", "PHB", "PHK", "PLA", "PLX", "PLY", "PLP", "PLB"}
  BY <1>4, StackGood DEF Dispatch
<1>5. CASE i.op \in {"PHD", "PLD", "PEA", "PEI", "PER"}
  BY <1>0, <1>5, StackNewGood DEF Dispatch
<1>6. CASE i.op \in {"AND", "EOR", "ORA"}
  BY <1>6, LogicKept DEF Dispatch, Kept
<1>7. CASE i.op = "BIT"
  BY <1>7, BITKept DEF Dispatch, Kept
<1>8. CASE i.op \in {"ADC", "SBC", "CMP", "CPX", "CPY"}
  BY <1>8, ArithmeticKept DEF Dispatch, Kept
<1>9. CASE i.op \in {"INX", "INY", "DEX", "DEY"}
  BY <1>9, CountKept DEF Dispatch, Kept
<1>10. CASE i.op \in Modifies
  BY <1>10, ModifyKept DEF Dispatch, Kept
<1>11. CASE i.op \in {"TSB", "TRB"}
  BY <1>11, TestBitsKept DEF Dispatch, Kept
<1>12. CASE i.op \in {"JMP", "JML", "JSR", "JSL", "RTS", "RTL"}
  BY <1>12, JumpGood DEF Dispatch
<1>13. CASE i.op = "RTI"
  BY <1>13, RTIGood DEF Dispatch
<1>14. CASE i.op \in {"BRK", "COP", "NMI", "IRQ"}
  BY <1>14, InterruptGood DEF Dispatch
<1>15. CASE i.op \in Branches \cup {"BRA", "BRL"}
  BY <1>0, <1>15, BranchKept DEF Dispatch, Kept
<1>16. CASE i.op \in {"MVN", "MVP"}
  BY <1>0, <1>16, BlockMoveGood DEF Dispatch
<1>17. CASE i.op \in DOMAIN FlagOps \cup {"REP", "SEP", "XCE"}
  BY <1>17, FlagGood DEF Dispatch
<1>18. CASE i.op \in {"NOP", "WDM"}
  BY <1>18 DEF Dispatch
<1> QED
  BY <1>1, <1>2, <1>3, <1>4, <1>5, <1>6, <1>7, <1>8, <1>9, <1>10, <1>11, <1>12, <1>13, <1>14,
     <1>15, <1>16, <1>17, <1>18, OpKnown

\* So does the switch with its epilogue.
LEMMA GenericGood ==
    ASSUME NEW s, Good(s), NEW i, Legal(i)
    PROVE  Good(Generic(s, i))
<1> DEFINE t == Dispatch(s, i)
<1>1. Good(t)
  BY DispatchGood
<1> HIDE DEF t
<1>2. \A n : Good([t EXCEPT !.cyc = n])
  BY <1>1, PutCyc DEF Kept
<1> QED
  BY <1>2 DEF Generic, t

\* An instruction's length is an integer.
LEMMA LengthInt ==
    ASSUME NEW s, NEW i, Legal(i)
    PROVE  Length(s, i) \in Int
<1>1. i.mode \in MemoryModes \cup {"imp", "acc", "imm", "rel", "rell", "ind", "iax", "indl", "bm"}
  BY DEF Legal, ModesOf, MemoryModes, DirectModes
<1> QED
  BY <1>1 DEF Length, MemoryModes, DirectModes

\* Fetching an instruction keeps a good register file good.
LEMMA FetchedGood ==
    ASSUME NEW s, Good(s), NEW i, Legal(i)
    PROVE  Kept(s, Fetched(s, i))
<1> DEFINE pc == IF i.op \in {"NMI", "IRQ"} THEN s.PC ELSE (s.PC + Length(s, i)) % Bank
           t == [s EXCEPT !.log = <<>>]
<1>1. s.PC \in Words /\ s.PC \in Int
  BY WordIsInt DEF Good, Typed
<1>2. pc \in Words
  BY <1>1, LengthInt, ModSum
<1>3. Fetched(s, i) = [s EXCEPT !.log = <<>>, !.PC = pc]
  BY DEF Fetched
<1> HIDE DEF pc
<1>4. Fetched(s, i) = [t EXCEPT !.PC = pc]
  BY <1>3 DEF Good, Typed, Fields, Names
<1>5. Kept(s, t)
  BY PutLog
<1> HIDE DEF t
<1>6. Kept(t, [t EXCEPT !.PC = pc])
  BY <1>2, <1>5, PutPC DEF Kept
<1> QED
  BY <1>4, <1>5, <1>6, KeptTwice

-----------------------------------------------------------------------------
\* The fast path, one encoding at a time, against the switch.

Emulated(s) == Good(s) /\ s.E

\* What the width caches are in emulation mode.
LEMMA EmuFacts ==
    ASSUME NEW s, Emulated(s)
    PROVE  /\ s.M8 /\ s.X8 /\ s.key[1] /\ s.key[2] /\ s.key[3] /\ s.key[4] = (s.D % 256 # 0)
           /\ s.M8 = TRUE /\ s.X8 = TRUE /\ s.key[1] = TRUE /\ s.key[2] = TRUE
           /\ Lo(s.X) = s.X /\ Lo(s.Y) = s.Y /\ s.S = 256 + Lo(s.S)
<1>1. s.M8 = TRUE /\ s.X8 = TRUE /\ s.E = TRUE /\ s.key = <<s.M8, s.X8, s.E, s.D % 256 # 0>>
  BY DEF Emulated, Good, Typed, Fresh, CycKey
<1>2. /\ s.X \in Int /\ 0 <= s.X /\ s.X < 256 /\ s.Y \in Int /\ 0 <= s.Y /\ s.Y < 256
      /\ s.S \in Words /\ Hi(s.S) = 1
  BY <1>1, WordRange DEF Emulated, Good, Typed, Fresh
<1>3. Lo(s.X) = s.X /\ Lo(s.Y) = s.Y
  BY <1>2 DEF Lo
<1>4. s.S = Lo(s.S) + 256 * 1
  BY <1>2, Rejoined DEF Word
<1>5. Lo(s.S) \in Int
  BY <1>2, WordIsInt, Low
<1>6. s.S = 256 + Lo(s.S)
  BY <1>4, <1>5
<1> QED
  BY <1>1, <1>3, <1>6

\* The cycle adjustments the fast path's instructions have.
LEMMA AdjustIs ==
    ASSUME NEW i
    PROVE  /\ "W" \in Adjust(i) <=> i.mode \in DirectModes
           /\ "P" \in Adjust(i) <=> i.op \in AccReads \cup IndexReads /\ i.mode \in {"abx", "aby", "izy"}
           /\ "BR" \in Adjust(i) <=> i.op \in Branches
           /\ "PE" \in Adjust(i) <=> i.op = "BRA"
BY DEF Adjust

\* Bits of a byte.
LEMMA BitsOfByte ==
    ASSUME NEW x \in Int, 0 <= x, x < 256
    PROVE  /\ x = 1 * ((x \div 1) % 2) + 2 * ((x \div 2) % 2) + 4 * ((x \div 4) % 2)
                  + 8 * ((x \div 8) % 2) + 16 * ((x \div 16) % 2) + 32 * ((x \div 32) % 2)
                  + 64 * ((x \div 64) % 2) + 128 * ((x \div 128) % 2)
           /\ x \div 256 = 0 /\ x \div 512 = 0 /\ x \div 1024 = 0 /\ x \div 2048 = 0
           /\ x \div 4096 = 0 /\ x \div 8192 = 0 /\ x \div 16384 = 0 /\ x \div 32768 = 0
BY SMT

\* Bit by bit, a logic result of two bytes is a byte.
LEMMA ByteBits ==
    ASSUME NEW v \in Int, NEW w \in Int, 0 <= v, v < 256, 0 <= w, w < 256
    PROVE  /\ 0 <= BitAnd(v, w) /\ BitAnd(v, w) < 256
           /\ 0 <= BitOr(v, w) /\ BitOr(v, w) < 256
           /\ 0 <= BitXor(v, w) /\ BitXor(v, w) < 256
<1> DEFINE bit(x, p) == (x \div p) % 2
           b(p) == IF bit(v, p) = 1 /\ bit(w, p) = 1 THEN p ELSE 0
           vb(p) == p * bit(v, p)
           wb(p) == p * bit(w, p)
<1>1. ASSUME NEW x \in Int, NEW p \in Int, p > 0 PROVE bit(x, p) \in {0, 1}
  <2>1. x \div p \in Int
    BY <1>1
  <2> QED
    BY <2>1
<1>2. ASSUME NEW p \in Int, p > 0
      PROVE  /\ b(p) \in Int /\ vb(p) \in Int /\ wb(p) \in Int
             /\ 0 <= b(p) /\ b(p) <= vb(p) /\ b(p) <= wb(p) /\ vb(p) + wb(p) - b(p) <= p
             /\ 0 <= vb(p) + wb(p) - 2 * b(p)
  <2>1. PICK mv \in {0, 1} : mv = bit(v, p)
    BY <1>1, <1>2
  <2>2. PICK n \in {0, 1} : n = bit(w, p)
    BY <1>1, <1>2
  <2> QED
    BY <1>2, <2>1, <2>2
<1>3. \A x \in Int : 0 <= x /\ x < 256 =>
        x = 1 * bit(x, 1) + 2 * bit(x, 2) + 4 * bit(x, 4) + 8 * bit(x, 8) + 16 * bit(x, 16)
            + 32 * bit(x, 32) + 64 * bit(x, 64) + 128 * bit(x, 128)
  BY BitsOfByte
<1>4. BitAnd(v, w) = b(1) + b(2) + b(4) + b(8)
           + b(16) + b(32) + b(64) + b(128)
  <2>1. /\ b(256) = 0 /\ b(512) = 0 /\ b(1024) = 0 /\ b(2048) = 0 /\ b(4096) = 0 /\ b(8192) = 0
        /\ b(16384) = 0 /\ b(32768) = 0
    BY BitsOfByte
  <2>2. BitAnd(v, w) = b(1) + b(2) + b(4) + b(8)
           + b(16) + b(32) + b(64) + b(128) + b(256) + b(512) + b(1024) + b(2048) + b(4096) + b(8192)
                       + b(16384) + b(32768)
    BY DEF BitAnd
  <2>3. b(1) \in Int /\ b(2) \in Int /\ b(4) \in Int /\ b(8) \in Int /\ b(16) \in Int /\ b(32) \in Int
        /\ b(64) \in Int /\ b(128) \in Int
    BY <1>2
  <2> HIDE DEF b
  <2> QED
    BY <2>1, <2>2, <2>3
<1> HIDE DEF b, vb, wb, bit
<1> DEFINE Small(p) == /\ b(p) \in Int /\ vb(p) \in Int /\ wb(p) \in Int
                       /\ 0 <= b(p) /\ b(p) <= vb(p) /\ b(p) <= wb(p) /\ vb(p) + wb(p) - b(p) <= p
                       /\ 0 <= vb(p) + wb(p) - 2 * b(p)
<1>5. Small(1) /\ Small(2) /\ Small(4) /\ Small(8) /\ Small(16) /\ Small(32) /\ Small(64) /\ Small(128)
  BY <1>2
<1>7. /\ v = vb(1) + vb(2) + vb(4) + vb(8) + vb(16) + vb(32) + vb(64) + vb(128)
      /\ w = wb(1) + wb(2) + wb(4) + wb(8) + wb(16) + wb(32) + wb(64) + wb(128)
  BY <1>3 DEF vb, wb
<1> DEFINE a == BitAnd(v, w)
<1>6. /\ a \in Int /\ 0 <= a /\ a <= v /\ a <= w /\ v + w - a <= 255 /\ 0 <= v + w - 2 * a
  BY <1>7, <1>4, <1>5, SMT
<1> QED
  BY <1>6 DEF BitOr, BitXor


IsFast(i) == <<i.op, i.mode>> \in FastOps

\* The fast path's instructions are in the opcode table.
LEMMA FastModes ==
    ASSUME NEW i, IsFast(i)
    PROVE  \/ i.op = "LDA" /\ i.mode \in {"imm", "zp", "abs", "abx", "aby"}
           \/ i.op = "STA" /\ i.mode \in {"zp", "abs"}
           \/ i.op \in {"LDX", "LDY", "EOR", "AND", "ORA", "CMP"} /\ i.mode = "imm"
           \/ i.op \in {"INX", "DEX", "INY", "DEY", "RTS", "CLC", "SEC"} /\ i.mode = "imp"
           \/ i.op \in {"BPL", "BMI", "BCC", "BCS", "BNE", "BEQ"} /\ i.mode = "rel"
           \/ i.op \in {"JMP", "JSR"} /\ i.mode = "abs"
BY DEF IsFast, FastOps

\* What the table charges for the encodings of the fast path.
LEMMA FastCost ==
    ASSUME NEW s, Emulated(s), NEW i, IsFast(i), NEW cross, NEW taken
    PROVE  /\ i.mode = "imm" \/ (i.mode = "imp" /\ i.op # "RTS")
                => Epilogue(s.key, i, cross, taken) = 2
           /\ i.mode = "zp" => Epilogue(s.key, i, cross, taken) = 3 + DLPenalty(s)
           /\ i.op \in {"LDA", "STA"} /\ i.mode = "abs" => Epilogue(s.key, i, cross, taken) = 4
           /\ i.mode \in {"abx", "aby"}
                => Epilogue(s.key, i, cross, taken) = IF cross THEN 5 ELSE 4
           /\ i.mode = "rel" => Epilogue(s.key, i, cross, taken)
                                  = IF ~taken THEN 2 ELSE IF cross THEN 4 ELSE 3
           /\ i.op = "JMP" => Epilogue(s.key, i, cross, taken) = 3
           /\ i.op \in {"JSR", "RTS"} => Epilogue(s.key, i, cross, taken) = 6
<1> DEFINE e == Epilogue(s.key, i, cross, taken)
           b == BaseCycles(i)
           f == Adjust(i)
           cost == b + (IF "W" \in f /\ s.key[4] THEN 1 ELSE 0)
                     + (IF "P" \in f /\ cross THEN 1 ELSE 0)
                     + (IF "BR" \in f /\ taken THEN 1 ELSE 0)
                     + (IF "BR" \in f /\ taken /\ cross THEN 1 ELSE 0)
                     + (IF "PE" \in f /\ cross THEN 1 ELSE 0)
<1>1. s.key[1] = TRUE /\ s.key[2] = TRUE /\ s.key[3] = TRUE /\ s.key[4] = (s.D % 256 # 0)
  BY EmuFacts
<1>2. b \in Int => e = cost
  <2>1. BaseCycles(i) = b /\ Adjust(i) = f
    OBVIOUS
  <2> HIDE DEF b, f
  <2>2. SUFFICES ASSUME b \in Int PROVE e = cost
    OBVIOUS
  <2>3. Cycles(i, s.key, FALSE, FALSE) = b + (IF "W" \in f /\ s.key[4] THEN 1 ELSE 0)
    BY <1>1, <2>1, <2>2 DEF Cycles
  <2> QED
    BY <1>1, <2>1, <2>2, <2>3 DEF Epilogue, CycleLUT
<1>3. /\ "W" \in f <=> i.mode \in DirectModes
      /\ "P" \in f <=> i.op \in AccReads \cup IndexReads /\ i.mode \in {"abx", "aby", "izy"}
      /\ "BR" \in f <=> i.op \in Branches
      /\ "PE" \in f <=> i.op = "BRA"
  BY AdjustIs
<1>4. /\ i.mode = "imm" \/ (i.mode = "imp" /\ i.op # "RTS") => b = 2
      /\ i.mode = "zp" => b = 3
      /\ i.op \in {"LDA", "STA"} /\ i.mode = "abs" => b = 4
      /\ i.mode \in {"abx", "aby"} => b = 4
      /\ i.mode = "rel" => b = 2
      /\ i.op = "JMP" => b = 3
      /\ i.op \in {"JSR", "RTS"} => b = 6
  BY FastModes DEF BaseCycles, AccReads, IndexReads, ReadModifyWrites, Modifies, AccessCycles
<1> HIDE DEF e, b, f
<1> USE DEF DirectModes, AccReads, IndexReads, Branches
<1>5. CASE i.mode = "imm" \/ (i.mode = "imp" /\ i.op # "RTS")
  BY <1>2, <1>3, <1>4, <1>5, FastModes DEF e
<1>6. CASE i.mode = "zp"
  <2>1. DLPenalty(s) = IF s.key[4] THEN 1 ELSE 0
    BY <1>1, Zenon DEF DLPenalty
  <2>2. i.op \in {"LDA", "STA"} /\ b = 3
    BY <1>4, <1>6, FastModes
  <2>3. /\ "W" \in f /\ "BR" \notin f /\ "PE" \notin f /\ "P" \notin f
    BY <1>3, <1>6, <2>2
  <2>4. e = 3 + (IF s.key[4] THEN 1 ELSE 0)
    BY <1>2, <2>2, <2>3
  <2> QED
    BY <1>6, <2>1, <2>2, <2>4 DEF e
<1>7. CASE i.op \in {"LDA", "STA"} /\ i.mode = "abs"
  BY <1>2, <1>3, <1>4, <1>7, FastModes DEF e
<1>8. CASE i.mode \in {"abx", "aby"}
  BY <1>2, <1>3, <1>4, <1>8, FastModes DEF e
<1>9. CASE i.mode = "rel"
  BY <1>2, <1>3, <1>4, <1>9, FastModes DEF e
<1>10. CASE i.op \in {"JMP", "JSR", "RTS"}
  BY <1>2, <1>3, <1>4, <1>10, FastModes DEF e
<1> QED
  BY <1>5, <1>6, <1>7, <1>8, <1>9, <1>10, FastModes

\* In emulation mode the generic accumulator and flag operators are those of
\* the fast path.
LEMMA LowByte == ASSUME NEW v \in Byte PROVE Lo(v) = v
BY ByteRange DEF Lo

\* A low byte is its own low byte.
LEMMA LowTwice == ASSUME NEW v \in Int PROVE Lo(Lo(v)) = Lo(v)
BY Low, LowByte

\* In emulation mode setAcc replaces the low byte, as the fast path does.
LEMMA SetASame ==
    ASSUME NEW s, Emulated(s), NEW v \in Byte
    PROVE  SetZNM(SetAcc(s, v), v) = SetA(s, v)
<1>1. s.M8 = TRUE /\ Fields(s)
  BY EmuFacts DEF Emulated, Good, Typed
<1>2. SetAcc(s, v) = [s EXCEPT !.C = Word(v, Hi(@))]
  BY <1>1, LowByte DEF SetAcc
<1> DEFINE t == [s EXCEPT !.C = Word(v, Hi(@))]
<1>3. t.M8 = TRUE
  BY <1>1 DEF Fields, Names
<1> HIDE DEF t
<1> QED
  BY <1>2, <1>3 DEF SetZNM, SetA, ZnE, t

\* A byte assigned to an index register is the index.
LEMMA SetXSame ==
    ASSUME NEW s, Emulated(s), NEW v
    PROVE  /\ SetZNX([s EXCEPT !.X = v], v) = ZnE([s EXCEPT !.X = v], v)
           /\ SetZNX([s EXCEPT !.Y = v], v) = ZnE([s EXCEPT !.Y = v], v)
<1>1. s.X8 = TRUE /\ Fields(s)
  BY EmuFacts DEF Emulated, Good, Typed
<1> DEFINE x == [s EXCEPT !.X = v]
           y == [s EXCEPT !.Y = v]
<1>3. x.X8 = TRUE /\ y.X8 = TRUE
  BY <1>1 DEF Fields, Names
<1> HIDE DEF x, y
<1> QED
  BY <1>3 DEF SetZNX, ZnE, x, y


\* The generic epilogue of an instruction without cycle adjustments.
LEMMA GenericPlain ==
    ASSUME NEW s, NEW i, i.mode \notin {"rel", "abx", "aby", "izy"}
    PROVE  Generic(s, i) = DoneE(Dispatch(s, i), Epilogue(s.key, i, FALSE, FALSE))
BY DEF Generic, DoneE

\* Where the switch sends the fast path's instructions.
LEMMA DispatchFast ==
    ASSUME NEW s, NEW i
    PROVE  /\ i.op \in {"LDA", "LDX", "LDY"} => Dispatch(s, i) = Load(s, i)
           /\ i.op = "STA" => Dispatch(s, i) = Store(s, i)
           /\ i.op \in {"AND", "EOR", "ORA"} => Dispatch(s, i) = Logic(s, i)
           /\ i.op = "CMP" => Dispatch(s, i) = Arithmetic(s, i)
           /\ i.op \in {"INX", "INY", "DEX", "DEY"} => Dispatch(s, i) = CountXY(s, i)
           /\ i.op \in {"JMP", "JSR", "RTS"} => Dispatch(s, i) = Jump(s, i)
           /\ i.op \in Branches => Dispatch(s, i) = Branch(s, i)
           /\ i.op \in {"CLC", "SEC"} => Dispatch(s, i) = Flag(s, i)
BY DEF Dispatch, Modifies, Branches, FlagOps

\* The fast path's instructions, group by group.
LEMMA FastGroups ==
    ASSUME NEW s, NEW i
    PROVE  /\ i.op = "LDA" => Fast(s, i) = FastLoad(s, i)
           /\ i.op = "STA" => Fast(s, i) = FastStore(s, i)
           /\ i.op \in {"EOR", "AND", "ORA", "CMP"} => Fast(s, i) = FastAlu(s, i)
           /\ i.op \in {"LDX", "LDY", "INX", "DEX", "INY", "DEY"} => Fast(s, i) = FastIndex(s, i)
           /\ i.op \in Branches => Fast(s, i) = FastBranch(s, i)
           /\ i.op \in {"JMP", "JSR", "RTS"} => Fast(s, i) = FastFlow(s, i)
           /\ i.op \in {"CLC", "SEC"}
                => Fast(s, i) = DoneE([s EXCEPT !.P = SetFlag(@, "C", i.op = "SEC")], 2)
BY DEF Fast, Branches

\* An address in the data bank needs no mask.
LEMMA DataUnmasked ==
    ASSUME NEW d \in Byte, NEW w \in Words
    PROVE  Masked(d * Bank + w) = d * Bank + w
<1>1. w \in Int /\ 0 <= w /\ w < Bank /\ d \in Int /\ 0 <= d /\ d < 256
  BY WordRange, ByteRange
<1> QED
  BY <1>1, SMT DEF Masked, Bank

\* LDA # is the same on the fast path as in the switch.
LEMMA FastLoadImm ==
    ASSUME NEW s, Emulated(s), NEW i, Legal(i), i.op = "LDA", i.mode \in {"imm", "zp", "abs"}
    PROVE  Fast(s, i) = Generic(s, i)
<1> DEFINE w == Word(i.lo, i.hi)
           v == ReadOperand(s, i, s.M8)
<1>0. IsFast(i)
  BY DEF IsFast, FastOps
<1>1. s.M8 = TRUE /\ Typed(s) /\ s.DBR \in Byte
  BY EmuFacts DEF Emulated, Good, Typed
<1>2. i.lo \in Byte /\ i.hi \in Byte /\ w \in Words /\ w \in Int
  BY Joined, WordIsInt DEF Legal, Operands
<1>3. v \in Byte
  <2>1. i.mode \in MemoryModes \cup {"imm"}
    BY DEF MemoryModes, DirectModes
  <2> QED
    BY <1>1, <2>1, ReadType DEF Emulated, Legal
<1>4. Dispatch(s, i) = SetA(s, v)
  BY <1>3, SetASame, DispatchFast DEF Load
<1>5. Generic(s, i) = DoneE(SetA(s, v), Epilogue(s.key, i, FALSE, FALSE))
  BY <1>4, GenericPlain
<1> HIDE DEF v
<1>6. CASE i.mode = "imm"
  <2>1. v = i.lo
    BY <1>1, <1>6 DEF v, ReadOperand
  <2>2. Epilogue(s.key, i, FALSE, FALSE) = 2
    BY <1>0, <1>6, FastCost
  <2>3. FastLoad(s, i) = DoneE(SetA(s, i.lo), 2)
    BY <1>6 DEF FastLoad
  <2> QED
    BY <1>5, <2>1, <2>2, <2>3, FastGroups
<1>7. CASE i.mode = "zp"
  <2>1. v = Rd(s, (i.lo + s.D) % Bank)
    BY <1>1, <1>7 DEF v, ReadOperand, EA, InBank0, Direct
  <2>2. Epilogue(s.key, i, FALSE, FALSE) = 3 + DLPenalty(s)
    BY <1>0, <1>7, FastCost
  <2> QED
    BY <1>5, <1>7, <2>1, <2>2, FastGroups DEF FastLoad
<1>8. CASE i.mode = "abs"
  <2>1. v = Rd(s, Masked(s.DBR * Bank + w))
    BY <1>1, <1>8 DEF v, ReadOperand, EA, Data
  <2>2. Epilogue(s.key, i, FALSE, FALSE) = 4
    BY <1>0, <1>8, FastCost
  <2>3. Masked(s.DBR * Bank + w) = s.DBR * Bank + w
    BY <1>1, <1>2, DataUnmasked
  <2> QED
    BY <1>5, <1>8, <2>1, <2>2, <2>3, FastGroups DEF FastLoad
<1> QED
  BY <1>6, <1>7, <1>8

\* So are STA zp and STA abs.
LEMMA FastStoreSame ==
    ASSUME NEW s, Emulated(s), NEW i, Legal(i), i.op = "STA", i.mode \in {"zp", "abs"}
    PROVE  Fast(s, i) = Generic(s, i)
<1> DEFINE w == Word(i.lo, i.hi)
<1>0. IsFast(i)
  BY DEF IsFast, FastOps
<1>1. s.M8 = TRUE /\ Typed(s) /\ s.DBR \in Byte /\ s.C \in Int
  BY EmuFacts, WordIsInt DEF Emulated, Good, Typed
<1>2. w \in Words
  BY Joined DEF Legal, Operands
<1>3. Lo(GetAcc(s)) = Lo(s.C)
  BY <1>1, LowTwice DEF GetAcc
<1>4. Dispatch(s, i) = Wr(s, EA(s, i).a, Lo(s.C))
  BY <1>1, <1>3, DispatchFast DEF Store, WriteOperand
<1>5. Generic(s, i) = DoneE(Wr(s, EA(s, i).a, Lo(s.C)), Epilogue(s.key, i, FALSE, FALSE))
  BY <1>4, GenericPlain
<1>7. CASE i.mode = "zp"
  <2>1. EA(s, i).a = (i.lo + s.D) % Bank
    BY <1>7 DEF EA, InBank0, Direct
  <2>2. Epilogue(s.key, i, FALSE, FALSE) = 3 + DLPenalty(s)
    BY <1>0, <1>7, FastCost
  <2> QED
    BY <1>5, <1>7, <2>1, <2>2, FastGroups DEF FastStore
<1>8. CASE i.mode = "abs"
  <2>1. EA(s, i).a = Masked(s.DBR * Bank + w)
    BY <1>8 DEF EA, Data
  <2>2. Epilogue(s.key, i, FALSE, FALSE) = 4
    BY <1>0, <1>8, FastCost
  <2>3. Masked(s.DBR * Bank + w) = s.DBR * Bank + w
    BY <1>1, <1>2, DataUnmasked
  <2> QED
    BY <1>5, <1>8, <2>1, <2>2, <2>3, FastGroups DEF FastStore
<1> QED
  BY <1>7, <1>8

\* So are LDA zp, abs, abs,X and abs,Y, with the page-crossing cycle.
LEMMA FastLoadIndexed ==
    ASSUME NEW s, Emulated(s), NEW i, Legal(i), i.op = "LDA", i.mode \in {"abx", "aby"}
    PROVE  Fast(s, i) = Generic(s, i)
<1> DEFINE w == Word(i.lo, i.hi)
           n == IF i.mode = "abx" THEN s.X ELSE s.Y
           v == ReadOperand(s, i, s.M8)
           a == Masked(s.DBR * Bank + w + n)
           cross == ~SamePage(w, (w + n) % Bank)
<1>0. IsFast(i)
  BY DEF IsFast, FastOps
<1>1. s.M8 = TRUE /\ s.X8 = TRUE /\ GetX(s) = s.X /\ GetY(s) = s.Y
  BY EmuFacts DEF GetX, GetY
<1>2. EA(s, i) = [a |-> a, b0 |-> FALSE, cross |-> cross]
  BY <1>1 DEF EA, Indexed
<1>3. v \in Byte
  <2>1. i.mode \in MemoryModes \cup {"imm"}
    BY DEF MemoryModes, DirectModes
  <2> QED
    BY <1>1, <2>1, ReadType DEF Emulated, Legal
<1>4. v = Rd(s, a)
  BY <1>1, <1>2 DEF ReadOperand
<1>5. EA(s, i).cross = cross
  BY <1>2
<1> HIDE DEF v, a, cross
<1>6. Dispatch(s, i) = SetA(s, v)
  BY <1>3, SetASame, DispatchFast DEF Load, v
<1>7. Generic(s, i) = DoneE(SetA(s, v), Epilogue(s.key, i, cross, FALSE))
  BY <1>5, <1>6 DEF Generic, DoneE
<1>8. Epilogue(s.key, i, cross, FALSE) = IF cross THEN 5 ELSE 4
  BY <1>0, FastCost
<1>9. FastLoad(s, i) = DoneE(SetA(s, Rd(s, a)), IF cross THEN 5 ELSE 4)
  BY DEF FastLoad, a, cross
<1> QED
  BY <1>4, <1>7, <1>8, <1>9, FastGroups

\* So are EOR, AND and ORA #.
LEMMA FastLogicSame ==
    ASSUME NEW s, Emulated(s), NEW i, Legal(i), i.op \in {"EOR", "AND", "ORA"}, i.mode = "imm"
    PROVE  Fast(s, i) = Generic(s, i)
<1> DEFINE a == Lo(s.C)
           r == CASE i.op = "AND" -> BitAnd(a, i.lo) [] i.op = "EOR" -> BitXor(a, i.lo)
                  [] i.op = "ORA" -> BitOr(a, i.lo)
           t == SetAcc(s, r)
<1>0. IsFast(i)
  BY DEF IsFast, FastOps
<1>1. s.M8 = TRUE /\ s.X8 = TRUE /\ s.C \in Int /\ s.C \in Words /\ Fields(s)
  BY EmuFacts, WordIsInt DEF Emulated, Good, Typed
<1>2. ReadOperand(s, i, s.M8) = i.lo /\ GetAcc(s) = a
  BY <1>1 DEF ReadOperand, GetAcc
<1>3. r \in Byte
  <2>1. a \in Int /\ 0 <= a /\ a < 256 /\ i.lo \in Int /\ 0 <= i.lo /\ i.lo < 256
    BY <1>1, Low, ByteRange DEF Legal, Operands
  <2> HIDE DEF a
  <2>2. BitAnd(a, i.lo) \in Int /\ BitOr(a, i.lo) \in Int /\ BitXor(a, i.lo) \in Int
    BY <2>1, AndInt, BitsInt
  <2>3. BitAnd(a, i.lo) \in Byte /\ BitOr(a, i.lo) \in Byte /\ BitXor(a, i.lo) \in Byte
    BY <2>1, <2>2, ByteBits, ByteRange
  <2> QED
    BY <2>3
<1> HIDE DEF r
<1>4. SetAcc(s, r) = [s EXCEPT !.C = Word(r, Hi(@))]
  BY <1>1, <1>3, LowByte DEF SetAcc
<1>5. t.M8 = TRUE /\ t.C = Word(r, Hi(s.C))
  BY <1>1, <1>4 DEF Fields, Names
<1>6. Lo(Word(r, Hi(s.C))) = r
  BY <1>1, <1>3, High, Joined
<1>7. GetAcc(t) = r
  BY <1>5, <1>6 DEF GetAcc
<1>8. Logic(s, i) = SetZNM(t, GetAcc(t))
  BY <1>2 DEF Logic, r
<1>9. Logic(s, i) = SetA(s, r)
  BY <1>3, <1>7, <1>8, SetASame
<1>10. Generic(s, i) = DoneE(SetA(s, r), 2)
  <2>1. Dispatch(s, i) = SetA(s, r)
    BY <1>9, DispatchFast
  <2>2. Epilogue(s.key, i, FALSE, FALSE) = 2
    BY <1>0, FastCost
  <2> QED
    BY <2>1, <2>2, GenericPlain
<1>11. FastAlu(s, i) = DoneE(SetA(s, r), 2)
  BY DEF FastAlu, r
<1> QED
  BY <1>10, <1>11, FastGroups

\* The 8-bit comparison sets the same flags from a difference of any width.
LEMMA SameFlags ==
    ASSUME NEW x, NEW y, x % 256 = y % 256, (x \div 128) % 2 = (y \div 128) % 2, NEW P
    PROVE  SetZN(P, x, TRUE) = SetZN(P, y, TRUE)
BY DEF SetZN, Negative, SetFlag, Wide

\* So is CMP #.
LEMMA FastCompareSame ==
    ASSUME NEW s, Emulated(s), NEW i, Legal(i), i.op = "CMP", i.mode = "imm"
    PROVE  Fast(s, i) = Generic(s, i)
<1> DEFINE a == Lo(s.C)
           P == SetFlag(s.P, "C", a >= i.lo)
<1>0. IsFast(i)
  BY DEF IsFast, FastOps
<1>1. s.M8 = TRUE /\ s.key[1] = TRUE /\ s.C \in Int /\ Fields(s)
  BY EmuFacts, WordIsInt DEF Emulated, Good, Typed
<1>2. ReadOperand(s, i, s.M8) = i.lo /\ GetAcc(s) = a
  BY <1>1 DEF ReadOperand, GetAcc
<1>3. a \in Int /\ 0 <= a /\ a < 256 /\ i.lo \in Int /\ 0 <= i.lo /\ i.lo < 256
  BY <1>1, Low, ByteRange DEF Legal, Operands
<1>4. Arithmetic(s, i) = CMP(s, a, i.lo, TRUE)
  BY <1>1, <1>2 DEF Arithmetic
<1> HIDE DEF a
<1>5. CMP(s, a, i.lo, TRUE) = [s EXCEPT !.P = SetZN(P, (a - i.lo) % Bank, TRUE)]
  BY <1>1 DEF CMP, Fields, Names
<1>6. ZnE([s EXCEPT !.P = P], (a - i.lo) % 256) = [s EXCEPT !.P = SetZN(P, (a - i.lo) % 256, TRUE)]
  <2> HIDE DEF P
  <2>1. \A Q : LET t == [s EXCEPT !.P = P] IN [t EXCEPT !.P = Q] = [s EXCEPT !.P = Q] /\ t.P = P
    BY <1>1 DEF Fields, Names
  <2> QED
    BY <2>1 DEF ZnE
<1>7. SetZN(P, (a - i.lo) % Bank, TRUE) = SetZN(P, (a - i.lo) % 256, TRUE)
  <2> DEFINE x == (a - i.lo) % Bank
             y == (a - i.lo) % 256
  <2>1. x % 256 = y % 256 /\ (x \div 128) % 2 = (y \div 128) % 2
    <3>1. PICK c \in Int : c = i.lo
      BY <1>3
    <3>2. x = (a - c) % Bank /\ y = (a - c) % 256
      BY <3>1
    <3>3. x \in Int /\ y \in Int /\ (x = y \/ x = y + 65280)
      BY <1>3, <3>1, SMT DEF Bank
    <3> HIDE DEF x, y
    <3> QED
      BY <3>3, SMT
  <2> HIDE DEF x, y, P
  <2>2. SetZN(P, x, TRUE) = SetZN(P, y, TRUE)
    BY <2>1, SameFlags
  <2> QED
    BY <2>2 DEF x, y
<1>8. Arithmetic(s, i) = ZnE([s EXCEPT !.P = P], (a - i.lo) % 256)
  BY <1>4, <1>5, <1>6, <1>7, Zenon
<1>9. Dispatch(s, i) = ZnE([s EXCEPT !.P = P], (a - i.lo) % 256)
  BY <1>8, DispatchFast
<1>10. Epilogue(s.key, i, FALSE, FALSE) = 2
  BY <1>0, FastCost
<1>11. FastAlu(s, i) = DoneE(ZnE([s EXCEPT !.P = P], (a - i.lo) % 256), 2)
  BY DEF FastAlu, a
<1> QED
  <2>1. Generic(s, i) = DoneE(Dispatch(s, i), Epilogue(s.key, i, FALSE, FALSE))
    BY GenericPlain
  <2>2. Fast(s, i) = FastAlu(s, i)
    BY FastGroups
  <2> QED
    BY <1>9, <1>10, <1>11, <2>1, <2>2, Zenon

\* So are LDX #, LDY #, INX, INY, DEX and DEY.
LEMMA FastIndexSame ==
    ASSUME NEW s, Emulated(s), NEW i, Legal(i), IsFast(i),
           i.op \in {"LDX", "LDY", "INX", "DEX", "INY", "DEY"}
    PROVE  Fast(s, i) = Generic(s, i)
<1> DEFINE x(v) == ZnE([s EXCEPT !.X = v], v)
           y(v) == ZnE([s EXCEPT !.Y = v], v)
<1>1. /\ \A v : SetZNX([s EXCEPT !.X = v], v) = x(v)
      /\ \A v : SetZNX([s EXCEPT !.Y = v], v) = y(v)
  BY SetXSame
<1>2. s.X8 = TRUE
  BY EmuFacts
<1>3. \A v : ByIndexWidth(s, v) = v % 256
  BY <1>2 DEF ByIndexWidth, Lo
<1>4. i.lo % 256 = i.lo
  BY LowByte DEF Legal, Operands, Lo
<1>5. i.mode \in {"imm", "imp"} /\ i.op # "RTS" /\ i.op \in {"LDX", "LDY"} => i.mode = "imm"
  BY DEF IsFast, FastOps
<1>6. Epilogue(s.key, i, FALSE, FALSE) = 2
  BY <1>5, FastCost, FastModes
<1>7. Generic(s, i) = DoneE(Dispatch(s, i), 2)
  BY <1>6, FastModes, GenericPlain
<1>8. CASE i.op \in {"LDX", "LDY"}
  <2>1. i.mode = "imm"
    BY <1>8, FastModes
  <2>2. ReadOperand(s, i, s.X8) = i.lo
    BY <1>2, <2>1 DEF ReadOperand
  <2>3. Load(s, i) = IF i.op = "LDX" THEN x(i.lo) ELSE y(i.lo)
    BY <1>1, <1>8, <2>2 DEF Load
  <2> HIDE DEF x, y
  <2>4. FastIndex(s, i) = DoneE(IF i.op = "LDX" THEN x(i.lo) ELSE y(i.lo), 2)
    BY <1>4, <1>8 DEF FastIndex, x, y
  <2>5. Dispatch(s, i) = Load(s, i) /\ Fast(s, i) = FastIndex(s, i)
    BY <1>8, DispatchFast, FastGroups
  <2> QED
    BY <1>7, <2>3, <2>4, <2>5, Zenon
<1>9. CASE i.op \in {"INX", "DEX", "INY", "DEY"}
  <2> HIDE DEF x, y
  <2>3. CountXY(s, i) = CASE i.op = "INX" -> x((s.X + 1) % 256) [] i.op = "DEX" -> x((s.X - 1) % 256)
                          [] i.op = "INY" -> y((s.Y + 1) % 256) [] i.op = "DEY" -> y((s.Y - 1) % 256)
    BY <1>1, <1>3, <1>9 DEF CountXY
  <2>4. FastIndex(s, i) = DoneE(CountXY(s, i), 2)
    BY <1>9, <2>3 DEF FastIndex, x, y
  <2>5. Dispatch(s, i) = CountXY(s, i) /\ Fast(s, i) = FastIndex(s, i)
    BY <1>9, DispatchFast, FastGroups
  <2> QED
    BY <1>7, <2>4, <2>5, Zenon
<1> QED
  BY <1>8, <1>9

\* So are the branches, with their two extra cycles.
LEMMA FastBranchSame ==
    ASSUME NEW s, Emulated(s), NEW i, IsFast(i), i.mode = "rel"
    PROVE  Fast(s, i) = Generic(s, i)
<1> DEFINE target == BranchTarget(s, i)
           cross == ~SamePage(s.PC, target)
           taken == i.mode = "rel" /\ Taken(s, i)
<1>1. i.op \in Branches /\ i.op # "BRA" /\ i.op # "BRL"
  BY FastModes DEF Branches
<1>2. taken <=> BranchTaken(s.P, i.op)
  BY <1>1 DEF Taken
<1>3. Branch(s, i) = IF taken THEN [s EXCEPT !.PC = target] ELSE s
  BY <1>1 DEF Branch
<1>4. FastBranch(s, i) = IF taken THEN DoneE([s EXCEPT !.PC = target], IF cross THEN 4 ELSE 3)
                         ELSE DoneE(s, 2)
  BY <1>2 DEF FastBranch, BranchTarget
<1>5. Dispatch(s, i) = Branch(s, i) /\ Fast(s, i) = FastBranch(s, i)
  BY <1>1, DispatchFast, FastGroups
<1> HIDE DEF target, cross, taken
<1>6. Epilogue(s.key, i, cross, taken) = IF ~taken THEN 2 ELSE IF cross THEN 4 ELSE 3
  BY FastCost
<1>7. Generic(s, i) = DoneE(Branch(s, i), Epilogue(s.key, i, cross, taken))
  <2>1. (~SamePage(s.PC, BranchTarget(s, i))) = cross
    BY DEF cross, target
  <2> QED
    BY <1>5, <2>1 DEF Generic, DoneE, taken
<1> QED
  BY <1>3, <1>4, <1>5, <1>6, <1>7

\* So are CLC and SEC.
LEMMA FastFlagSame ==
    ASSUME NEW s, Emulated(s), NEW i, IsFast(i), i.op \in {"CLC", "SEC"}
    PROVE  Fast(s, i) = Generic(s, i)
<1>1. i.mode = "imp"
  BY FastModes
<1>2. Epilogue(s.key, i, FALSE, FALSE) = 2
  BY <1>1, FastCost
<1>3. Dispatch(s, i) = Flag(s, i) /\ Generic(s, i) = DoneE(Dispatch(s, i), Epilogue(s.key, i, FALSE, FALSE))
  BY <1>1, DispatchFast, GenericPlain
<1>4. Flag(s, i) = [s EXCEPT !.P = SetFlag(@, "C", i.op = "SEC")]
  <2>1. CASE i.op = "CLC"
    <3>1. FlagOps["CLC"] = <<"C", FALSE>>
      BY DEF FlagOps
    <3>2. Flag(s, i) = [s EXCEPT !.P = SetFlag(@, FlagOps[i.op][1], FlagOps[i.op][2])]
      BY <2>1 DEF Flag
    <3>3. SetFlag(s.P, FlagOps[i.op][1], FlagOps[i.op][2]) = SetFlag(s.P, "C", i.op = "SEC")
      BY <2>1, <3>1 DEF SetFlag
    <3> QED
      BY <3>2, <3>3, Zenon
  <2>2. CASE i.op = "SEC"
    <3>1. FlagOps["SEC"] = <<"C", TRUE>>
      BY DEF FlagOps
    <3>2. Flag(s, i) = [s EXCEPT !.P = SetFlag(@, FlagOps[i.op][1], FlagOps[i.op][2])]
      BY <2>2 DEF Flag
    <3>3. SetFlag(s.P, FlagOps[i.op][1], FlagOps[i.op][2]) = SetFlag(s.P, "C", i.op = "SEC")
      BY <2>2, <3>1 DEF SetFlag
    <3> QED
      BY <3>2, <3>3, Zenon
  <2> QED
    BY <2>1, <2>2
<1>5. Fast(s, i) = DoneE([s EXCEPT !.P = SetFlag(@, "C", i.op = "SEC")], 2)
  BY FastGroups
<1> QED
  BY <1>2, <1>3, <1>4, <1>5, Zenon

\* Two pushes and two pulls of an emulation-mode stack.
LEMMA PageTwice ==
    ASSUME NEW v \in Int, NEW k \in Int
    PROVE  256 + Lo((256 + Lo(v)) + k) = 256 + Lo(v + k)
BY SMT DEF Lo

\* A push is its byte written and the pointer moved, in either order.
LEMMA WriteUnderStack ==
    ASSUME NEW u, Fields(u), NEW a, NEW v, NEW x
    PROVE  Wr([u EXCEPT !.S = x], a, v) = [Wr(u, a, v) EXCEPT !.S = x]
<1> DEFINE t == [u EXCEPT !.S = x]
           mv == [b \in DOMAIN u.mem \cup {a} |-> IF b = a THEN v ELSE u.mem[b]]
           l == Append(u.log, <<a, v>>)
<1>1. t.mem = u.mem /\ t.log = u.log
  BY DEF Fields, Names
<1>2. Wr(u, a, v) = [u EXCEPT !.mem = mv, !.log = l] /\ Wr(t, a, v) = [t EXCEPT !.mem = mv, !.log = l]
  BY <1>1, Zenon DEF Wr
<1> HIDE DEF mv, l
<1>3. [t EXCEPT !.mem = mv, !.log = l] = [[u EXCEPT !.mem = mv, !.log = l] EXCEPT !.S = x]
  BY DEF Fields, Names
<1> QED
  BY <1>2, <1>3

\* The stack pointer and the program counter can be assigned in either order.
LEMMA StackThenPC ==
    ASSUME NEW mv, Fields(mv), NEW x, NEW y, NEW z, y = 256 + Lo(mv.S - 2)
    PROVE  [[[mv EXCEPT !.S = x] EXCEPT !.S = y] EXCEPT !.PC = z]
             = [mv EXCEPT !.S = 256 + Lo(@ - 2), !.PC = z]
<1>1. [mv EXCEPT !.S = 256 + Lo(@ - 2), !.PC = z] = [mv EXCEPT !.S = y, !.PC = z]
  OBVIOUS
<1>2. [[[mv EXCEPT !.S = x] EXCEPT !.S = y] EXCEPT !.PC = z] = [mv EXCEPT !.S = y, !.PC = z]
  BY DEF Fields, Names
<1> QED
  BY <1>1, <1>2

\* JMP, JSR and RTS are the same on the fast path as in the switch.
LEMMA FastJumpSame ==
    ASSUME NEW s, Emulated(s), NEW i, IsFast(i), i.op \in {"JMP", "JSR", "RTS"}
    PROVE  Fast(s, i) = Generic(s, i)
<1> DEFINE w == Word(i.lo, i.hi)
           ret == (s.PC - 1) % Bank
           below == 256 + Lo(s.S - 1)
<1>1. i.mode \in {"abs", "imp"} /\ (i.op # "RTS" => i.mode = "abs")
  BY FastModes
<1>2. s.E = TRUE /\ Fields(s) /\ s.S \in Int /\ s.S = 256 + Lo(s.S)
  BY EmuFacts, WordIsInt DEF Emulated, Good, Typed
<1>3. Dispatch(s, i) = Jump(s, i) /\ Generic(s, i) = DoneE(Dispatch(s, i), Epilogue(s.key, i, FALSE, FALSE))
  BY <1>1, DispatchFast, GenericPlain
<1>4. Fast(s, i) = FastFlow(s, i)
  BY FastGroups
<1>5. CASE i.op = "JMP"
  <2>1. Epilogue(s.key, i, FALSE, FALSE) = 3
    BY <1>5, FastCost
  <2>2. Jump(s, i) = [s EXCEPT !.PC = w] /\ FastFlow(s, i) = DoneE([s EXCEPT !.PC = w], 3)
    BY <1>1, <1>5 DEF Jump, FastFlow
  <2> QED
    BY <1>3, <1>4, <2>1, <2>2, Zenon
<1>6. CASE i.op = "JSR"
  <2> DEFINE h == Hi(ret)
             l == Lo(ret)
             t == Push8(s, h)
             mem(a, b) == Wr(Wr(s, a, h), b, l)
             stack == 256 + Lo(s.S - 2)
  <2>1. Epilogue(s.key, i, FALSE, FALSE) = 6
    BY <1>6, FastCost
  <2>2. Jump(s, i) = [Push8(t, l) EXCEPT !.PC = w]
    BY <1>1, <1>6 DEF Jump, Push16
  <2>3. FastFlow(s, i) = DoneE([mem(s.S, below) EXCEPT !.S = 256 + Lo(@ - 2), !.PC = w], 6)
    BY <1>6 DEF FastFlow
  <2> HIDE DEF h, l
  <2>4. t = [Wr(s, s.S, h) EXCEPT !.S = below]
    BY <1>2 DEF Push8, StackAt
  <2>5. Fields(Wr(s, s.S, h)) /\ Wr(s, s.S, h).S = s.S /\ Wr(s, s.S, h).E = TRUE
    BY <1>2 DEF Wr, Fields, Names
  <2>6. Fields(t) /\ t.S = below /\ t.E = TRUE
    <3> DEFINE u == Wr(s, s.S, h)
    <3> HIDE DEF u, below
    <3>1. t = [u EXCEPT !.S = below] /\ Fields(u) /\ u.E = TRUE
      BY <2>4, <2>5 DEF u
    <3> HIDE DEF t
    <3> QED
      BY <3>1 DEF Fields, Names
  <2>7. StackAt(t, -1) = stack
    <3>1. StackAt(t, -1) = 256 + Lo(below - 1)
      BY <2>6 DEF StackAt
    <3>2. below - 1 = (256 + Lo(s.S - 1)) + (-1) /\ s.S - 2 = (s.S - 1) + (-1)
      BY <1>2, Low
    <3>3. 256 + Lo((256 + Lo(s.S - 1)) + (-1)) = 256 + Lo((s.S - 1) + (-1))
      <4> DEFINE v == s.S - 1
      <4>1. v \in Int
        BY <1>2
      <4> HIDE DEF v
      <4>2. 256 + Lo((256 + Lo(v)) + (-1)) = 256 + Lo(v + (-1))
        BY <4>1, PageTwice
      <4> QED
        BY <4>2 DEF v
    <3> QED
      BY <3>1, <3>2, <3>3
  <2> HIDE DEF stack, below
  <2>8. Push8(t, l) = [Wr(t, below, l) EXCEPT !.S = stack]
    BY <2>6, <2>7 DEF Push8
  <2>9. Wr(t, below, l) = [mem(s.S, below) EXCEPT !.S = below]
    <3> DEFINE u == Wr(s, s.S, h)
    <3>1. t = [u EXCEPT !.S = below] /\ Fields(u)
      BY <2>4, <2>5
    <3>2. mem(s.S, below) = Wr(u, below, l)
      OBVIOUS
    <3> HIDE DEF u, t, mem
    <3>3. Wr([u EXCEPT !.S = below], below, l) = [Wr(u, below, l) EXCEPT !.S = below]
      BY <3>1, WriteUnderStack
    <3> QED
      BY <3>1, <3>2, <3>3, Zenon
  <2> DEFINE mv == mem(s.S, below)
  <2>10. Fields(mv) /\ mv.S = s.S
    BY <2>5 DEF Wr, Fields, Names
  <2> HIDE DEF t, mem, mv, w
  <2>11. [[[mv EXCEPT !.S = below] EXCEPT !.S = stack] EXCEPT !.PC = w]
           = [mv EXCEPT !.S = 256 + Lo(@ - 2), !.PC = w]
    <3>1. stack = 256 + Lo(mv.S - 2)
      BY <2>10 DEF stack
    <3> QED
      BY <2>10, <3>1, StackThenPC
  <2>12. Jump(s, i) = [mv EXCEPT !.S = 256 + Lo(@ - 2), !.PC = w]
    BY <2>2, <2>8, <2>9, <2>11, Zenon DEF mv
  <2> QED
    BY <1>3, <1>4, <2>1, <2>3, <2>12, Zenon DEF mv
<1>7. CASE i.op = "RTS"
  <2>1. Epilogue(s.key, i, FALSE, FALSE) = 6
    BY <1>7, FastCost
  <2>2. Peek(s, 1) = Rd(s, 256 + Lo(s.S + 1)) /\ Peek(s, 1 + 1) = Rd(s, 256 + Lo(s.S + 2))
    BY <1>2 DEF Peek, StackAt
  <2> DEFINE pc == (Word(Peek(s, 1), Peek(s, 1 + 1)) + 1) % Bank
  <2>3. Jump(s, i) = [Drop(s, 2) EXCEPT !.PC = pc]
    BY <1>1, <1>7 DEF Jump, Peek16
  <2>4. Drop(s, 2) = [s EXCEPT !.S = 256 + Lo(@ + 2)]
    BY <1>2 DEF Drop, StackAt
  <2>5. FastFlow(s, i) = DoneE([s EXCEPT !.S = 256 + Lo(@ + 2), !.PC = pc], 6)
    BY <1>7, <2>2 DEF FastFlow
  <2> HIDE DEF pc
  <2>6. [Drop(s, 2) EXCEPT !.PC = pc] = [s EXCEPT !.S = 256 + Lo(@ + 2), !.PC = pc]
    BY <1>2, <2>4 DEF Fields, Names
  <2> QED
    BY <1>3, <1>4, <2>1, <2>3, <2>5, <2>6, Zenon
<1> QED
  BY <1>5, <1>6, <1>7

\* The fast path does what the generic switch does, for each of its
\* instructions.
LEMMA FastIsGeneric ==
    ASSUME NEW s, Emulated(s), NEW i, Legal(i), IsFast(i)
    PROVE  Fast(s, i) = Generic(s, i)
BY FastModes, FastLoadImm, FastLoadIndexed, FastStoreSame, FastLogicSame, FastCompareSame,
   FastIndexSame, FastBranchSame, FastFlagSame, FastJumpSame


\* An instruction leaves a good register file, and the fast path is the
\* switch.
LEMMA ExecGood ==
    ASSUME NEW r, Good(r), NEW i, Legal(i)
    PROVE  /\ Good(Exec(r, i))
           /\ r.E /\ IsFast(i) => Exec(r, i) = Generic(Fetched(r, i), i)
<1> DEFINE s == Fetched(r, i)
<1>1. Kept(r, s)
  BY FetchedGood
<1>2. Good(s) /\ s.E = r.E
  BY <1>1, KeptWidths DEF Kept
<1>3. Good(Generic(s, i))
  BY <1>2, GenericGood
<1>4. r.E /\ IsFast(i) => Exec(r, i) = Fast(s, i)
  BY DEF Exec, IsFast
<1>5. ~(r.E /\ IsFast(i)) => Exec(r, i) = Generic(s, i)
  BY DEF Exec, IsFast
<1> HIDE DEF s
<1>6. r.E /\ IsFast(i) => Fast(s, i) = Generic(s, i)
  BY <1>2, FastIsGeneric DEF Emulated
<1> QED
  BY <1>3, <1>4, <1>5, <1>6 DEF s

\* The instructions the fetch delivers are those of the opcode table.
LEMMA StreamLegal == \A i \in Stream : Legal(i)
BY StreamAssumption DEF Legal, Operands

\* reset() and a preamble leave a good register file.
LEMMA InitGood == Init => Good(cpu)
<1> SUFFICES ASSUME Init PROVE Good(cpu)
  OBVIOUS
<1> DEFINE file(r) == [C |-> r.C, X |-> r.X, Y |-> r.Y, S |-> r.S, D |-> r.D, PC |-> r.PC,
                       PBR |-> 0, DBR |-> r.DBR, P |-> r.P, E |-> r.E, M8 |-> TRUE,
                       X8 |-> TRUE, key |-> <<TRUE, TRUE, TRUE, FALSE>>,
                       mem |-> <<>>, log |-> <<>>, cyc |-> 0]
<1>1. PICK r \in Starts : cpu = ApplyE(file(r))
  BY DEF Init
<1>2. /\ {r.C, r.X, r.Y, r.S, r.D, r.PC} \subseteq Words /\ r.DBR \in Byte
      /\ r.P \subseteq AllFlags /\ r.E \in BOOLEAN
  BY StartsAssumption DEF Words
<1>3. 0 \in Byte
  BY ByteRange
<1>4. Typed(file(r))
  <2>1. Fields(file(r))
    BY DEF Fields, Names
  <2> QED
    BY <1>2, <1>3, <2>1 DEF Typed
<1> QED
  BY <1>1, <1>4, ApplyGood

IInv == Good(cpu)

\* The inductive step: every instruction keeps the register file good.
LEMMA StepGood == ASSUME IInv, [Next]_vars PROVE IInv'
<1>1. CASE Next
  <2>1. PICK i \in Stream : Execute(i)
    BY <1>1 DEF Next
  <2>2. Good(Exec(cpu, i)) /\ cpu' = Exec(cpu, i)
    BY <2>1, StreamLegal, ExecGood DEF Execute, IInv
  <2> QED
    BY <2>2 DEF IInv
<1>2. CASE UNCHANGED vars
  BY <1>2 DEF IInv, vars
<1> QED
  BY <1>1, <1>2

\* The cached widths and cycle key never disagree with E, P and D, index
\* registers are bytes when X is set, and emulation mode keeps M, X and page
\* 1, after every instruction sequence (applyE and its callers).
THEOREM WidthsAlwaysFresh == Spec => []WidthsFresh
<1>1. Init => IInv
  BY InitGood DEF IInv
<1>2. IInv /\ [Next]_vars => IInv'
  BY StepGood
<1>3. IInv => WidthsFresh
  BY DEF IInv, Good, Fresh, WidthsFresh
<1> QED
  BY <1>1, <1>2, <1>3, PTL DEF Spec

\* The emulation-mode fast path of stepInner leaves every register, flag,
\* byte, bus write and cycle count as the generic switch would have.
THEOREM FastPathIsTheSwitch == Spec => FastPathAgrees
<1>1. Init => IInv
  BY InitGood DEF IInv
<1>2. IInv /\ [Next]_vars => IInv'
  BY StepGood
<1> DEFINE A == cpu.E /\ <<ir'.op, ir'.mode>> \in FastOps => cpu' = Generic(Fetched(cpu, ir'), ir')
<1>3. IInv /\ [Next]_vars => [A]_vars
  <2> SUFFICES ASSUME IInv, Next PROVE A
    OBVIOUS
  <2>1. PICK i \in Stream : Execute(i)
    BY DEF Next
  <2>2. cpu' = Exec(cpu, i) /\ ir' = i
    BY <2>1 DEF Execute
  <2>3. cpu.E /\ IsFast(i) => Exec(cpu, i) = Generic(Fetched(cpu, i), i)
    BY StreamLegal, ExecGood DEF IInv
  <2> QED
    BY <2>2, <2>3 DEF IsFast
<1> HIDE DEF A
<1>5. Spec => [][A]_vars
  BY <1>1, <1>2, <1>3, PTL DEF Spec
<1> QED
  BY <1>5 DEF FastPathAgrees, A


\* What was written is read back, and nothing else has changed.
LEMMA ReadWritten ==
    ASSUME NEW s, Fields(s), NEW a, NEW v, NEW b
    PROVE  Rd(Wr(s, a, v), b) = IF b = a THEN v ELSE Rd(s, b)
<1> DEFINE mv == [c \in DOMAIN s.mem \cup {a} |-> IF c = a THEN v ELSE s.mem[c]]
           t == Wr(s, a, v)
<1>1. t.mem = mv
  BY DEF Wr, Fields, Names
<1>2. /\ b \in DOMAIN mv <=> b = a \/ b \in DOMAIN s.mem
      /\ b \in DOMAIN mv => mv[b] = IF b = a THEN v ELSE s.mem[b]
  OBVIOUS
<1> HIDE DEF mv, t
<1>3. Rd(t, b) = IF b = a THEN v ELSE Rd(s, b)
  BY <1>1, <1>2 DEF Rd
<1> QED
  BY <1>3 DEF t

\* What a call and its return leave alone.
Alike(s, t) == /\ s.C = t.C /\ s.X = t.X /\ s.Y = t.Y /\ s.D = t.D /\ s.DBR = t.DBR /\ s.E = t.E
               /\ s.M8 = t.M8 /\ s.X8 = t.X8 /\ s.key = t.key

\* The stack of a good register file: the pointer is its own position, the
\* pages and banks wrap, and four neighbouring bytes are four bytes.
LEMMA StackSteps ==
    ASSUME NEW s, Good(s)
    PROVE  /\ StackAt(s, 0) = s.S
           /\ \A k \in {1, 2, 3} : StackAt(s, k) # s.S
           /\ \A t : t.E = s.E /\ t.S = StackAt(s, -1)
                => /\ StackAt(t, 1) = s.S
                   /\ \A k \in {1, 2, 3} : StackAt(t, k + 1) = StackAt(s, k)
<1>1. s.S \in Int /\ 0 <= s.S /\ s.S < Bank /\ s.E \in BOOLEAN
  BY WordRange DEF Good, Typed
<1>2. PICK b \in Int : b = Bank /\ b = 256 * 256
  BY BankSize
<1>3. CASE s.E
  <2>1. s.S = 256 + Lo(s.S)
    BY <1>3, EmuFacts DEF Emulated
  <2>2. \A t : t.E = s.E /\ t.S = 256 + Lo(s.S - 1) =>
            \A k \in {1, 2, 3, 4} : 256 + Lo(t.S + k) = 256 + Lo(s.S + (k - 1))
    BY <1>1, SMT DEF Lo
  <2>3. \A k \in {1, 2, 3} : 256 + Lo(s.S + k) # 256 + Lo(s.S)
    BY <1>1, SMT DEF Lo
  <2>4. \A t, k : t.E = s.E => StackAt(t, k) = 256 + Lo(t.S + k)
    BY <1>3 DEF StackAt
  <2> QED
    BY <1>1, <2>1, <2>2, <2>3, <2>4
<1>4. CASE ~s.E
  <2>2. \A t : t.E = s.E /\ t.S = (s.S - 1) % b =>
            \A k \in {1, 2, 3, 4} : (t.S + k) % b = (s.S + (k - 1)) % b
    BY <1>1, <1>2, SMT
  <2>3. (s.S + 0) % b = s.S /\ \A k \in {1, 2, 3} : (s.S + k) % b # s.S
    BY <1>1, <1>2, SMT
  <2>4. \A t, k : t.E = s.E => StackAt(t, k) = (t.S + k) % b
    BY <1>2, <1>4 DEF StackAt
  <2> QED
    BY <1>1, <2>2, <2>3, <2>4
<1> QED
  BY <1>1, <1>3, <1>4

\* What push8 pushed is what pull8 finds.
LEMMA PushPeek ==
    ASSUME NEW s, Good(s), NEW v \in Byte
    PROVE  LET p == Push8(s, v)
           IN  /\ Good(p) /\ Alike(s, p) /\ p.P = s.P /\ p.PBR = s.PBR /\ p.PC = s.PC
               /\ Peek(p, 1) = v /\ StackAt(p, 1) = s.S
               /\ \A k \in {1, 2, 3} : Peek(p, k + 1) = Peek(s, k) /\ StackAt(p, k + 1) = StackAt(s, k)
<1> DEFINE w == Wr(s, s.S, v)
           x == StackAt(s, -1)
           p == Push8(s, v)
<1>1. Fields(s) /\ Kept(s, p)
  BY PushKept DEF Good, Typed
<1>2. p = [w EXCEPT !.S = x]
  BY DEF Push8
<1>3. Fields(w) /\ \A b : Rd(w, b) = IF b = s.S THEN v ELSE Rd(s, b)
  <2>1. Fields(w)
    BY <1>1 DEF Wr, Fields, Names
  <2>2. \A b : Rd(w, b) = IF b = s.S THEN v ELSE Rd(s, b)
    BY <1>1, ReadWritten
  <2> HIDE DEF w
  <2> QED
    BY <2>1, <2>2
<1>4. /\ w.C = s.C /\ w.X = s.X /\ w.Y = s.Y /\ w.D = s.D /\ w.DBR = s.DBR /\ w.E = s.E
      /\ w.M8 = s.M8 /\ w.X8 = s.X8 /\ w.key = s.key /\ w.P = s.P /\ w.PBR = s.PBR /\ w.PC = s.PC
  BY <1>1 DEF Wr, Fields, Names
<1> HIDE DEF w, x, p
<1>5. /\ p.C = w.C /\ p.X = w.X /\ p.Y = w.Y /\ p.D = w.D /\ p.DBR = w.DBR /\ p.E = w.E
      /\ p.M8 = w.M8 /\ p.X8 = w.X8 /\ p.key = w.key /\ p.P = w.P /\ p.PBR = w.PBR /\ p.PC = w.PC
      /\ p.S = x /\ p.mem = w.mem
  BY <1>2, <1>3 DEF Fields, Names
<1>6. \A b : Rd(p, b) = IF b = s.S THEN v ELSE Rd(s, b)
  BY <1>3, <1>5 DEF Rd
<1>7. /\ StackAt(p, 1) = s.S /\ \A k \in {1, 2, 3} : StackAt(p, k + 1) = StackAt(s, k)
      /\ \A k \in {1, 2, 3} : StackAt(s, k) # s.S
  BY <1>4, <1>5, StackSteps DEF x
<1>8. Peek(p, 1) = v /\ \A k \in {1, 2, 3} : Peek(p, k + 1) = Peek(s, k)
  BY <1>6, <1>7 DEF Peek
<1> QED
  BY <1>1, <1>4, <1>5, <1>7, <1>8 DEF Alike, Kept, p

\* A status byte gives the flags back.
LEMMA FlagsBack == ASSUME NEW P, P \subseteq AllFlags PROVE FlagsOf(ByteOf(P)) = P
<1> DEFINE bit(f) == IF f \in P THEN 1 ELSE 0
           b == ByteOf(P)
<1>1. \A f : bit(f) \in {0, 1} /\ (bit(f) = 1 <=> f \in P)
  OBVIOUS
<1>2. b = bit("C") + 2 * bit("Z") + 4 * bit("I") + 8 * bit("D") + 16 * bit("X") + 32 * bit("M")
          + 64 * bit("V") + 128 * bit("N")
  BY DEF ByteOf, Weight
<1> HIDE DEF b, bit
<1>3. /\ (b \div 1) % 2 = bit("C") /\ (b \div 2) % 2 = bit("Z") /\ (b \div 4) % 2 = bit("I")
      /\ (b \div 8) % 2 = bit("D") /\ (b \div 16) % 2 = bit("X") /\ (b \div 32) % 2 = bit("M")
      /\ (b \div 64) % 2 = bit("V") /\ (b \div 128) % 2 = bit("N")
  <2>1. \A f : bit(f) \in {0, 1}
    BY <1>1
  <2>2. PICK c \in {0, 1} : c = bit("C")
    BY <2>1
  <2>3. PICK z \in {0, 1} : z = bit("Z")
    BY <2>1
  <2>4. PICK i \in {0, 1} : i = bit("I")
    BY <2>1
  <2>5. PICK d \in {0, 1} : d = bit("D")
    BY <2>1
  <2>6. PICK x \in {0, 1} : x = bit("X")
    BY <2>1
  <2>7. PICK mv \in {0, 1} : mv = bit("M")
    BY <2>1
  <2>8. PICK v \in {0, 1} : v = bit("V")
    BY <2>1
  <2>9. PICK n \in {0, 1} : n = bit("N")
    BY <2>1
  <2>10. b = c + 2 * z + 4 * i + 8 * d + 16 * x + 32 * mv + 64 * v + 128 * n
    BY <1>2, <2>2, <2>3, <2>4, <2>5, <2>6, <2>7, <2>8, <2>9
  <2>11. /\ (b \div 1) % 2 = c /\ (b \div 2) % 2 = z /\ (b \div 4) % 2 = i /\ (b \div 8) % 2 = d
         /\ (b \div 16) % 2 = x /\ (b \div 32) % 2 = mv /\ (b \div 64) % 2 = v
         /\ (b \div 128) % 2 = n
    BY <2>10, SMT
  <2> QED
    BY <2>2, <2>3, <2>4, <2>5, <2>6, <2>7, <2>8, <2>9, <2>11
<1>4. AllFlags = {"C", "Z", "I", "D", "X", "M", "V", "N"}
  BY DEF AllFlags, Weight
<1>5. \A f \in AllFlags : (b \div Weight[f]) % 2 = bit(f)
  BY <1>3, <1>4 DEF Weight
<1>6. \A f : f \in FlagsOf(b) <=> f \in AllFlags /\ bit(f) = 1
  BY <1>5 DEF FlagsOf
<1> QED
  BY <1>1, <1>6 DEF b

\* Refreshing the widths of a register file that already obeys them.
LEMMA Refreshed ==
    ASSUME NEW u, Typed(u), u.E => u.S = 256 + Lo(u.S),
           u.E \/ "X" \in u.P => u.X < 256 /\ u.Y < 256
    PROVE  LET t == ApplyE(u)
           IN  /\ t.C = u.C /\ t.X = u.X /\ t.Y = u.Y /\ t.S = u.S /\ t.D = u.D /\ t.PC = u.PC
               /\ t.PBR = u.PBR /\ t.DBR = u.DBR /\ t.E = u.E /\ t.mem = u.mem
               /\ t.P = IF u.E THEN u.P \cup {"M", "X"} ELSE u.P
               /\ t.M8 = (t.E \/ "M" \in t.P) /\ t.X8 = (t.E \/ "X" \in t.P) /\ t.key = CycKey(t)
               /\ Good(t)
<1> DEFINE n == IF u.E THEN [u EXCEPT !.P = @ \cup {"M", "X"}, !.S = 256 + Lo(@),
                                      !.X = Lo(@), !.Y = Lo(@)]
                ELSE IF "X" \in u.P THEN [u EXCEPT !.X = Lo(@), !.Y = Lo(@)]
                ELSE u
           w == [n EXCEPT !.M8 = n.E \/ "M" \in n.P, !.X8 = n.E \/ "X" \in n.P]
           t == ApplyE(u)
<1>1. u.E \/ "X" \in u.P => Lo(u.X) = u.X /\ Lo(u.Y) = u.Y
  <2>1. \A v \in Words : v < 256 => Lo(v) = v
    BY WordRange DEF Lo
  <2> QED
    BY <2>1 DEF Typed
<1>2. /\ Fields(n) /\ n.C = u.C /\ n.X = u.X /\ n.Y = u.Y /\ n.S = u.S /\ n.D = u.D /\ n.PC = u.PC
      /\ n.PBR = u.PBR /\ n.DBR = u.DBR /\ n.E = u.E /\ n.mem = u.mem
      /\ n.P = IF u.E THEN u.P \cup {"M", "X"} ELSE u.P
  <2>1. CASE u.E
    <3> DEFINE p == u.P \cup {"M", "X"}
               q == 256 + Lo(u.S)
               x == Lo(u.X)
               y == Lo(u.Y)
    <3>1. n = [u EXCEPT !.P = p, !.S = q, !.X = x, !.Y = y]
      BY <2>1
    <3>2. x = u.X /\ y = u.Y /\ q = u.S
      BY <1>1, <2>1
    <3> HIDE DEF n, q, x, y
    <3>3. /\ Fields(n) /\ n.P = p /\ n.S = q /\ n.X = x /\ n.Y = y
          /\ n.C = u.C /\ n.D = u.D /\ n.PC = u.PC /\ n.PBR = u.PBR /\ n.DBR = u.DBR
          /\ n.E = u.E /\ n.M8 = u.M8 /\ n.X8 = u.X8 /\ n.mem = u.mem
      <4> HIDE DEF p
      <4> QED
        BY <3>1 DEF Typed, Fields, Names
    <3> QED
      BY <2>1, <3>2, <3>3
  <2>2. CASE ~u.E
    <3> DEFINE x == IF "X" \in u.P THEN Lo(u.X) ELSE u.X
               y == IF "X" \in u.P THEN Lo(u.Y) ELSE u.Y
    <3>1. n = IF "X" \in u.P THEN [u EXCEPT !.X = Lo(@), !.Y = Lo(@)] ELSE u
      BY <2>2
    <3>2. x = u.X /\ y = u.Y
      BY <1>1
    <3> HIDE DEF n
    <3>3. /\ Fields(n) /\ n.X = x /\ n.Y = y /\ n.S = u.S /\ n.P = u.P
          /\ n.C = u.C /\ n.D = u.D /\ n.PC = u.PC /\ n.PBR = u.PBR /\ n.DBR = u.DBR
          /\ n.E = u.E /\ n.mem = u.mem
      BY <3>1 DEF Typed, Fields, Names
    <3> QED
      BY <2>2, <3>2, <3>3
  <2> QED
    BY <2>1, <2>2
<1>3. t = [w EXCEPT !.key = CycKey(w)]
  BY DEF ApplyE
<1> HIDE DEF n, t
<1>4. /\ Fields(w) /\ w.C = n.C /\ w.X = n.X /\ w.Y = n.Y /\ w.S = n.S /\ w.D = n.D /\ w.PC = n.PC
      /\ w.PBR = n.PBR /\ w.DBR = n.DBR /\ w.E = n.E /\ w.mem = n.mem /\ w.P = n.P
      /\ w.M8 = (n.E \/ "M" \in n.P) /\ w.X8 = (n.E \/ "X" \in n.P)
  BY <1>2 DEF Fields, Names
<1> HIDE DEF w
<1>5. /\ t.C = w.C /\ t.X = w.X /\ t.Y = w.Y /\ t.S = w.S /\ t.D = w.D /\ t.PC = w.PC
      /\ t.PBR = w.PBR /\ t.DBR = w.DBR /\ t.E = w.E /\ t.mem = w.mem /\ t.P = w.P
      /\ t.M8 = w.M8 /\ t.X8 = w.X8 /\ t.key = CycKey(w) /\ CycKey(w) = CycKey(t)
  BY <1>3, <1>4 DEF Fields, Names, CycKey
<1>6. Good(t)
  BY ApplyGood DEF t
<1> QED
  BY <1>2, <1>4, <1>5, <1>6 DEF t


\* Being alike is transitive.
LEMMA AlikeTwice == ASSUME NEW s, NEW t, NEW u, Alike(s, t), Alike(t, u) PROVE Alike(s, u)
BY DEF Alike

\* What push16 pushed is what pull16 finds.
LEMMA Push16Peek ==
    ASSUME NEW s, Good(s), NEW w \in Words
    PROVE  LET p == Push16(s, w)
           IN  /\ Good(p) /\ Alike(s, p) /\ p.P = s.P /\ p.PBR = s.PBR /\ p.PC = s.PC
               /\ Peek16(p, 1) = w /\ StackAt(p, 2) = s.S
               /\ \A k \in {1, 2} : Peek(p, k + 2) = Peek(s, k) /\ StackAt(p, k + 2) = StackAt(s, k)
<1> DEFINE a == Push8(s, Hi(w))
           p == Push8(a, Lo(w))
<1>1. Hi(w) \in Byte /\ Lo(w) \in Byte /\ Word(Lo(w), Hi(w)) = w
  BY WordIsInt, High, Low, Rejoined
<1>2. /\ Good(a) /\ Alike(s, a) /\ a.P = s.P /\ a.PBR = s.PBR /\ a.PC = s.PC
      /\ Peek(a, 1) = Hi(w) /\ StackAt(a, 1) = s.S
      /\ \A k \in {1, 2, 3} : Peek(a, k + 1) = Peek(s, k) /\ StackAt(a, k + 1) = StackAt(s, k)
  BY <1>1, PushPeek
<1> HIDE DEF a
<1>3. /\ Good(p) /\ Alike(a, p) /\ p.P = a.P /\ p.PBR = a.PBR /\ p.PC = a.PC
      /\ Peek(p, 1) = Lo(w) /\ StackAt(p, 1) = a.S
      /\ \A k \in {1, 2, 3} : Peek(p, k + 1) = Peek(a, k) /\ StackAt(p, k + 1) = StackAt(a, k)
  BY <1>1, <1>2, PushPeek
<1>4. p = Push16(s, w)
  BY DEF Push16, a
<1> HIDE DEF p
<1>5. Peek16(p, 1) = w /\ StackAt(p, 2) = s.S
  <2>1. Peek(p, 1 + 1) = Peek(a, 1) /\ StackAt(p, 1 + 1) = StackAt(a, 1)
    BY <1>3
  <2> QED
    BY <1>1, <1>2, <1>3, <2>1 DEF Peek16
<1>6. ASSUME NEW k \in {1, 2}
      PROVE  Peek(p, k + 2) = Peek(s, k) /\ StackAt(p, k + 2) = StackAt(s, k)
  <2>1. k + 1 \in {1, 2, 3} /\ (k + 1) + 1 = k + 2
    OBVIOUS
  <2>2. Peek(p, (k + 1) + 1) = Peek(a, k + 1) /\ StackAt(p, (k + 1) + 1) = StackAt(a, k + 1)
    BY <1>3, <2>1
  <2> QED
    BY <1>2, <2>1, <2>2
<1>7. Alike(s, p)
  BY <1>2, <1>3, AlikeTwice
<1> QED
  BY <1>2, <1>3, <1>4, <1>5, <1>6, <1>7

\* The registers fetching and counting cycles leave alone, and the memory.
Near(s, t) == /\ Alike(s, t) /\ t.S = s.S /\ t.P = s.P /\ t.PBR = s.PBR /\ t.mem = s.mem

\* Stack addresses and stack contents depend on the pointer, the mode and
\* memory only.
LEMMA NearStack ==
    ASSUME NEW s, NEW t, s.S = t.S, s.E = t.E, s.mem = t.mem
    PROVE  /\ \A k : StackAt(t, k) = StackAt(s, k)
           /\ \A k : Peek(t, k) = Peek(s, k)
           /\ \A k : Peek16(t, k) = Peek16(s, k)
<1>1. \A k : StackAt(t, k) = StackAt(s, k)
  BY DEF StackAt
<1>2. \A b : Rd(t, b) = Rd(s, b)
  BY DEF Rd
<1>3. \A k : Peek(t, k) = Peek(s, k)
  BY <1>1, <1>2 DEF Peek
<1> QED
  BY <1>1, <1>3 DEF Peek16

\* Fetching moves the program counter and nothing else a program sees.
LEMMA FetchedNear ==
    ASSUME NEW s, Good(s), NEW i, Legal(i)
    PROVE  Near(s, Fetched(s, i)) /\ Good(Fetched(s, i))
<1> DEFINE pc == IF i.op \in {"NMI", "IRQ"} THEN s.PC ELSE (s.PC + Length(s, i)) % Bank
<1>1. Fetched(s, i) = [s EXCEPT !.log = <<>>, !.PC = pc]
  BY DEF Fetched
<1> HIDE DEF pc
<1>2. Near(s, [s EXCEPT !.log = <<>>, !.PC = pc])
  BY DEF Near, Alike, Good, Typed, Fields, Names
<1> QED
  BY <1>1, <1>2, FetchedGood DEF Kept

\* Nor does the epilogue: it counts cycles.
LEMMA GenericNear ==
    ASSUME NEW s, Good(s), NEW i, Legal(i)
    PROVE  /\ Near(Dispatch(s, i), Generic(s, i)) /\ Generic(s, i).PC = Dispatch(s, i).PC
           /\ Good(Generic(s, i))
<1> DEFINE t == Dispatch(s, i)
<1>1. Good(t)
  BY DispatchGood
<1> HIDE DEF t
<1>2. \A n : Near(t, [t EXCEPT !.cyc = n]) /\ [t EXCEPT !.cyc = n].PC = t.PC
  BY <1>1 DEF Near, Alike, Good, Typed, Fields, Names
<1> QED
  BY <1>2, GenericGood DEF Generic, t

\* A caller come back to.
Resumed(s, t) == Alike(s, t) /\ t.S = s.S /\ t.P = s.P /\ t.PC = s.PC /\ t.PBR = s.PBR

\* Two register files that agree on everything a program sees are equal once
\* memory, log and cycles are set aside.
LEMMA ResumedSaved ==
    ASSUME NEW s, NEW t, Good(s), Good(t), Resumed(s, t)
    PROVE  Saved(t) = Saved(s)
BY DEF Saved, Resumed, Alike, Good, Typed, Fields, Names

\* Refreshing the widths of a register file that has t's.
LEMMA RefreshedAlike ==
    ASSUME NEW t, Good(t), NEW u, Typed(u), u.C = t.C, u.X = t.X, u.Y = t.Y, u.D = t.D,
           u.DBR = t.DBR, u.E = t.E, u.E => u.S = 256 + Lo(u.S),
           ~u.E => ("M" \in u.P <=> "M" \in t.P) /\ ("X" \in u.P <=> "X" \in t.P)
    PROVE  LET q == ApplyE(u)
           IN  /\ Good(q) /\ Alike(t, q) /\ q.S = u.S /\ q.mem = u.mem /\ q.PC = u.PC
               /\ q.PBR = u.PBR /\ q.P = IF u.E THEN u.P \cup {"M", "X"} ELSE u.P
<1> DEFINE q == ApplyE(u)
<1>1. /\ t.X8 => t.X < 256 /\ t.Y < 256
      /\ t.M8 = (t.E \/ "M" \in t.P) /\ t.X8 = (t.E \/ "X" \in t.P) /\ t.key = CycKey(t)
  BY DEF Good, Fresh
<1>2. u.E \/ "X" \in u.P => u.X < 256 /\ u.Y < 256
  BY <1>1
<1>3. /\ q.C = u.C /\ q.X = u.X /\ q.Y = u.Y /\ q.S = u.S /\ q.D = u.D /\ q.PC = u.PC
      /\ q.PBR = u.PBR /\ q.DBR = u.DBR /\ q.E = u.E /\ q.mem = u.mem
      /\ q.P = IF u.E THEN u.P \cup {"M", "X"} ELSE u.P
      /\ q.M8 = (q.E \/ "M" \in q.P) /\ q.X8 = (q.E \/ "X" \in q.P) /\ q.key = CycKey(q)
      /\ Good(q)
  BY <1>2, Refreshed
<1> HIDE DEF q
<1>4. q.M8 = t.M8 /\ q.X8 = t.X8
  BY <1>1, <1>3
<1>5. q.key = t.key
  BY <1>1, <1>3, <1>4 DEF CycKey
<1>6. Alike(t, q)
  BY <1>3, <1>4, <1>5 DEF Alike
<1> QED
  BY <1>3, <1>6 DEF q

\* An interrupt leaves a frame with the program counter and the flags of the
\* interrupted program, and in native mode its bank.
Pushed(s, brk) ==
    IF s.E THEN ByteOf(IF brk THEN s.P \cup {"X"} ELSE s.P \ {"X"}) ELSE ByteOf(s.P)
Frame(s, q, brk) ==
    /\ Alike(s, q) /\ StackAt(q, IF s.E THEN 3 ELSE 4) = s.S
    /\ Peek(q, 1) = Pushed(s, brk) /\ Peek16(q, 2) = s.PC
    /\ IF s.E THEN q.PBR = 0 ELSE Peek(q, 4) = s.PBR

\* The status pushed is a byte.
LEMMA ByteOfByte == \A P : ByteOf(P) \in Byte
BY DEF ByteOf, Weight, Byte

\* What serviceInterrupt leaves on the stack, and where the stack pointer
\* ends.
LEMMA ServiceFrame ==
    ASSUME NEW s, Good(s), NEW native \in Int, NEW emu \in Int, NEW brk
    PROVE  Frame(s, ServiceInterrupt(s, native, emu, brk), brk)
<1> DEFINE r == IF s.E THEN s ELSE Push8(s, s.PBR)
           p == Push16(r, s.PC)
           b == Pushed(s, brk)
           t == Push8(p, b)
           f == (t.P \cup {"I"}) \ {"D"}
           pc == Bank0Word(t, IF s.E THEN emu ELSE native)
           u == [t EXCEPT !.P = f, !.PBR = 0, !.PC = pc]
           q == ApplyE(u)
<1>1. q = ServiceInterrupt(s, native, emu, brk)
  BY DEF ServiceInterrupt, Pushed
<1>2. b \in Byte
  BY ByteOfByte DEF Pushed
<1>3. s.PC \in Words /\ s.PBR \in Byte /\ s.E \in BOOLEAN
  BY DEF Good, Typed
<1>4. /\ Good(r) /\ Alike(s, r)
      /\ ~s.E => Peek(r, 1) = s.PBR /\ StackAt(r, 1) = s.S
      /\ s.E => r = s
  BY <1>3, PushPeek DEF Alike
<1> HIDE DEF r, b
<1>5. /\ Good(p) /\ Alike(r, p) /\ Peek16(p, 1) = s.PC /\ StackAt(p, 2) = r.S
      /\ Peek(p, 3) = Peek(r, 1) /\ StackAt(p, 3) = StackAt(r, 1)
  <2>1. /\ Good(p) /\ Alike(r, p) /\ Peek16(p, 1) = s.PC /\ StackAt(p, 2) = r.S
        /\ \A k \in {1, 2} : Peek(p, k + 2) = Peek(r, k) /\ StackAt(p, k + 2) = StackAt(r, k)
    BY <1>3, <1>4, Push16Peek
  <2> HIDE DEF p
  <2>2. 1 + 2 = 3
    OBVIOUS
  <2> QED
    BY <2>1, <2>2
<1> HIDE DEF p
<1>6. /\ Good(t) /\ Alike(p, t) /\ Peek(t, 1) = b
      /\ \A k \in {1, 2, 3} : Peek(t, k + 1) = Peek(p, k) /\ StackAt(t, k + 1) = StackAt(p, k)
  BY <1>2, <1>5, PushPeek
<1> HIDE DEF t
<1>7. Alike(s, t) /\ Peek(t, 1) = b /\ Peek16(t, 2) = s.PC
  <2>1. Peek(t, 1 + 1) = Peek(p, 1) /\ Peek(t, 2 + 1) = Peek(p, 2)
    BY <1>6
  <2> QED
    BY <1>4, <1>5, <1>6, <2>1, AlikeTwice DEF Peek16
<1>8. StackAt(t, IF s.E THEN 3 ELSE 4) = s.S /\ (~s.E => Peek(t, 4) = s.PBR)
  <2>1. /\ StackAt(t, 2 + 1) = StackAt(p, 2) /\ StackAt(t, 3 + 1) = StackAt(p, 3)
        /\ Peek(t, 3 + 1) = Peek(p, 3)
    BY <1>6
  <2> QED
    BY <1>3, <1>4, <1>5, <2>1
<1>9. /\ Typed(u) /\ u.C = t.C /\ u.X = t.X /\ u.Y = t.Y /\ u.D = t.D /\ u.DBR = t.DBR /\ u.E = t.E
      /\ u.S = t.S /\ u.mem = t.mem /\ u.P = f /\ u.PBR = 0
  <2>1. f \in SUBSET AllFlags /\ Typed(t)
    BY <1>6 DEF Good, Typed, AllFlags, Weight
  <2>2. pc \in Words
    BY <1>6, Bank0WordType DEF Good
  <2>3. 0 \in Byte
    BY ByteRange
  <2> HIDE DEF f, pc
  <2> QED
    BY <2>1, <2>2, <2>3 DEF Typed, Fields, Names
<1>10. t.E => t.S = 256 + Lo(t.S)
  BY <1>6, EmuFacts DEF Emulated
<1>11. ("M" \in f <=> "M" \in t.P) /\ ("X" \in f <=> "X" \in t.P)
  OBVIOUS
<1> HIDE DEF f, u
<1>12. Alike(t, q) /\ q.S = t.S /\ q.mem = t.mem /\ q.PBR = 0
  <2>1. u.E => u.S = 256 + Lo(u.S)
    BY <1>9, <1>10
  <2>2. ~u.E => ("M" \in u.P <=> "M" \in t.P) /\ ("X" \in u.P <=> "X" \in t.P)
    BY <1>9, <1>11
  <2>3. Alike(t, q) /\ q.S = u.S /\ q.mem = u.mem /\ q.PBR = u.PBR
    <3>1. /\ Good(t) /\ Typed(u) /\ u.C = t.C /\ u.X = t.X /\ u.Y = t.Y /\ u.D = t.D
          /\ u.DBR = t.DBR /\ u.E = t.E
      BY <1>6, <1>9
    <3>2. /\ Alike(t, q) /\ q.S = u.S /\ q.PC = u.PC /\ q.PBR = u.PBR
          /\ q.P = IF u.E THEN u.P \cup {"M", "X"} ELSE u.P
      BY <2>1, <2>2, <3>1, RefreshedAlike
    <3>3. q.mem = u.mem
      BY <2>1, <2>2, <3>1, RefreshedAlike
    <3> QED
      BY <3>2, <3>3
  <2> HIDE DEF q
  <2> QED
    BY <1>9, <2>3
<1> HIDE DEF q
<1>14. Alike(t, q) /\ q.E = t.E
  BY <1>12 DEF Alike
<1>15. /\ \A k : StackAt(q, k) = StackAt(t, k) /\ Peek(q, k) = Peek(t, k)
       /\ Peek16(q, 2) = Peek16(t, 2)
  BY <1>12, <1>14, NearStack
<1>17. Frame(s, q, brk)
  BY <1>7, <1>8, <1>12, <1>14, <1>15, AlikeTwice DEF Frame, b
<1> QED
  BY <1>1, <1>17

\* RTI of such a frame brings back status, counter and, in native mode, bank.
LEMMA RTIBack ==
    ASSUME NEW s, Good(s), s.E => s.PBR = 0, NEW q, NEW z, Good(z), NEW brk,
           Frame(s, q, brk), Near(q, z)
    PROVE  Resumed(s, RTI(z))
<1> DEFINE n == IF z.E THEN 3 ELSE 4
           f == FlagsOf(Peek(z, 1))
           pc == Peek16(z, 2)
           d == Drop(z, n)
           k == IF z.E THEN d.PBR ELSE Peek(z, 4)
           u == [d EXCEPT !.P = f, !.PC = pc, !.PBR = k]
           v == ApplyE(u)
<1>1. /\ Alike(s, z) /\ z.E = s.E /\ StackAt(z, n) = s.S /\ Peek(z, 1) = Pushed(s, brk)
      /\ pc = s.PC /\ k = s.PBR
  <2>1. /\ \A j : StackAt(z, j) = StackAt(q, j) /\ Peek(z, j) = Peek(q, j)
        /\ Peek16(z, 2) = Peek16(q, 2) /\ z.PBR = q.PBR
    BY NearStack DEF Near, Alike
  <2>2. Alike(s, z) /\ d.PBR = z.PBR
    BY AlikeTwice DEF Near, Frame, Drop, Good, Typed, Fields, Names
  <2>3. z.E = s.E
    BY <2>2 DEF Alike
  <2> QED
    BY <2>1, <2>2, <2>3 DEF Frame
<1>2. /\ s.E \in BOOLEAN /\ s.P \subseteq AllFlags /\ s.S \in Words /\ s.PC \in Words /\ s.PBR \in Byte
      /\ s.E => {"M", "X"} \subseteq s.P
      /\ s.M8 = (s.E \/ "M" \in s.P) /\ s.X8 = (s.E \/ "X" \in s.P)
      /\ z.M8 = (z.E \/ "M" \in z.P) /\ z.X8 = (z.E \/ "X" \in z.P)
  BY DEF Good, Typed, Fresh
<1>3. s.E => s.S = 256 + Lo(s.S)
  BY EmuFacts DEF Emulated
<1>4. f = IF s.E THEN IF brk THEN s.P \cup {"X"} ELSE s.P \ {"X"} ELSE s.P
  <2>1. s.P \cup {"X"} \subseteq AllFlags
    BY <1>2 DEF AllFlags, Weight
  <2> QED
    BY <1>1, <1>2, <2>1, FlagsBack DEF Pushed
<1>5. RTI(z) = v
  BY DEF RTI
<1> HIDE DEF n, f, pc, k
<1>6. d = [z EXCEPT !.S = s.S]
  BY <1>1 DEF Drop
<1> HIDE DEF d
<1>7. /\ Typed(u) /\ u.C = z.C /\ u.X = z.X /\ u.Y = z.Y /\ u.D = z.D /\ u.DBR = z.DBR /\ u.E = z.E
      /\ u.S = s.S /\ u.P = f /\ u.PC = s.PC /\ u.PBR = s.PBR
  <2>1. f \subseteq AllFlags
    BY <1>2, <1>4 DEF AllFlags, Weight
  <2>2. Typed(d) /\ d.C = z.C /\ d.X = z.X /\ d.Y = z.Y /\ d.D = z.D /\ d.DBR = z.DBR /\ d.E = z.E
        /\ d.S = s.S
    BY <1>2, <1>6 DEF Good, Typed, Fields, Names
  <2> QED
    BY <1>1, <1>2, <2>1, <2>2 DEF Typed, Fields, Names
<1> HIDE DEF u
<1>8. ~u.E => ("M" \in u.P <=> "M" \in z.P) /\ ("X" \in u.P <=> "X" \in z.P)
  BY <1>1, <1>2, <1>4, <1>7 DEF Alike
<1>9. /\ Alike(z, v) /\ v.S = u.S /\ v.PC = u.PC /\ v.PBR = u.PBR
      /\ v.P = IF u.E THEN u.P \cup {"M", "X"} ELSE u.P
  <2>1. u.E => u.S = 256 + Lo(u.S)
    BY <1>1, <1>3, <1>7
  <2> QED
    BY <1>7, <1>8, <2>1, RefreshedAlike
<1> HIDE DEF v
<1>10. v.P = s.P
  BY <1>1, <1>2, <1>4, <1>7, <1>9
<1>11. Resumed(s, v)
  BY <1>1, <1>7, <1>9, <1>10, AlikeTwice DEF Resumed
<1> QED
  BY <1>5, <1>11

\* A subroutine call leaves the return address, one short.
LEMMA ShortReturn == ASSUME NEW pc \in Words PROVE /\ (pc - 1) % Bank \in Words /\ (((pc - 1) % Bank) + 1) % Bank = pc
<1>1. pc \in Int /\ 0 <= pc /\ pc < Bank
  BY WordRange
<1>2. (((pc - 1) % Bank) + 1) % Bank = pc
  BY <1>1, SMT DEF Bank
<1>3. pc - 1 \in Int
  BY <1>1
<1> QED
  BY <1>2, <1>3, Modulo

\* JSR's frame brings RTS back.
LEMMA CallBack ==
    ASSUME NEW s, Good(s), NEW w \in Words, NEW z, Good(z),
           Near([Push16(s, (s.PC - 1) % Bank) EXCEPT !.PC = w], z)
    PROVE  Resumed(s, [Drop(z, 2) EXCEPT !.PC = (Peek16(z, 1) + 1) % Bank])
<1> DEFINE r == (s.PC - 1) % Bank
           p == Push16(s, r)
           q == [p EXCEPT !.PC = w]
           v == [Drop(z, 2) EXCEPT !.PC = (Peek16(z, 1) + 1) % Bank]
<1>1. r \in Words /\ (r + 1) % Bank = s.PC
  BY ShortReturn DEF Good, Typed
<1> HIDE DEF r
<1>2. /\ Good(p) /\ Alike(s, p) /\ p.P = s.P /\ p.PBR = s.PBR
      /\ Peek16(p, 1) = r /\ StackAt(p, 2) = s.S
  BY <1>1, Push16Peek
<1> HIDE DEF p
<1>3. Near(p, q)
  BY <1>2 DEF Near, Alike, Good, Typed, Fields, Names
<1>4. Near(q, z)
  BY DEF p, r
<1> HIDE DEF q
<1>5. Near(p, z)
  BY <1>3, <1>4 DEF Near, Alike
<1>6. Peek16(z, 1) = r /\ StackAt(z, 2) = s.S
  BY <1>2, <1>5, NearStack DEF Near, Alike
<1>7. v = [[z EXCEPT !.S = s.S] EXCEPT !.PC = s.PC]
  BY <1>1, <1>6 DEF Drop
<1> HIDE DEF v
<1>8. Resumed(s, v)
  BY <1>2, <1>5, <1>7 DEF Resumed, Near, Alike, Good, Typed, Fields, Names
<1> QED
  BY <1>8 DEF v

\* Both paths of the interpreter, as one.
LEMMA ExecIs ==
    ASSUME NEW r, Good(r), NEW i, Legal(i)
    PROVE  LET s == Fetched(r, i)
           IN  /\ Good(s) /\ Near(r, s) /\ Good(Exec(r, i)) /\ Near(Dispatch(s, i), Exec(r, i))
               /\ Exec(r, i).PC = Dispatch(s, i).PC
<1> DEFINE s == Fetched(r, i)
<1>1. Good(s) /\ Near(r, s)
  BY FetchedNear
<1>2. Exec(r, i) = Generic(s, i)
  <2>1. CASE r.E /\ IsFast(i)
    BY <2>1, ExecGood
  <2>2. CASE ~(r.E /\ IsFast(i))
    BY <2>2 DEF Exec, IsFast
  <2> QED
    BY <2>1, <2>2
<1> HIDE DEF s
<1>3. Near(Dispatch(s, i), Generic(s, i)) /\ Generic(s, i).PC = Dispatch(s, i).PC /\ Good(Generic(s, i))
  BY <1>1, GenericNear
<1> QED
  BY <1>1, <1>2, <1>3 DEF s

\* Resuming is up to what a program does not see.
LEMMA ResumedNear ==
    ASSUME NEW s, NEW v, NEW g, Resumed(s, v), Near(v, g), g.PC = v.PC
    PROVE  Resumed(s, g)
BY DEF Resumed, Near, Alike

\* Being near is transitive.
LEMMA NearTwice == ASSUME NEW s, NEW t, NEW u, Near(s, t), Near(t, u) PROVE Near(s, u)
BY DEF Near, Alike

\* The calls, interrupts and returns are in the opcode table.
LEMMA CallsLegal ==
    /\ Legal(Instruction("NMI", "imp")) /\ Legal(Instruction("BRK", "imm"))
    /\ Legal(Instruction("JSR", "abs")) /\ Legal(Instruction("JSL", "abl"))
    /\ Legal(Instruction("RTI", "imp")) /\ Legal(Instruction("RTS", "imp"))
    /\ Legal(Instruction("RTL", "imp"))
<1>1. 0 \in Byte /\ 1 \in Byte /\ 32 \in Byte
  BY ByteRange
<1>2. \A op, mode : LET i == Instruction(op, mode) IN Operands(i) /\ i.op = op /\ i.mode = mode
  BY <1>1 DEF Instruction, Operands
<1> HIDE DEF Instruction
<1>3. /\ "imp" \in ModesOf("NMI") /\ "imm" \in ModesOf("BRK") /\ "abs" \in ModesOf("JSR")
      /\ "abl" \in ModesOf("JSL") /\ "imp" \in ModesOf("RTI") /\ "imp" \in ModesOf("RTS")
      /\ "imp" \in ModesOf("RTL")
  <2> USE DEF AccReads, Modifies, Branches, Implied, FlagOps
  <2>1. "imp" \in ModesOf("NMI")
    BY DEF ModesOf
  <2>2. "imm" \in ModesOf("BRK")
    BY DEF ModesOf
  <2>3. "abs" \in ModesOf("JSR") /\ "abl" \in ModesOf("JSL")
    BY DEF ModesOf
  <2>4. "imp" \in ModesOf("RTI")
    BY DEF ModesOf
  <2>5. "imp" \in ModesOf("RTS")
    BY DEF ModesOf
  <2>6. "imp" \in ModesOf("RTL")
    BY DEF ModesOf
  <2> QED
    BY <2>1, <2>2, <2>3, <2>4, <2>5, <2>6
<1> QED
  BY <1>2, <1>3 DEF Legal

\* An interrupt followed by RTI comes back to the instruction it interrupted.
LEMMA InterruptPair ==
    ASSUME NEW r, Good(r), r.E => r.PBR = 0, NEW op, NEW mode,
           <<op, mode>> \in {<<"NMI", "imp">>, <<"BRK", "imm">>}
    PROVE  Saved(Exec(Exec(r, Instruction(op, mode)), Instruction("RTI", "imp")))
             = Saved(Fetched(r, Instruction(op, mode)))
<1> DEFINE c == Instruction(op, mode)
           e == Instruction("RTI", "imp")
           s == Fetched(r, c)
           y == Exec(r, c)
           z == Fetched(y, e)
           g == Exec(y, e)
           brk == c.op \in {"BRK", "COP"}
           q == ServiceInterrupt(s, NativeVector(c.op), EmulationVector(c.op), brk)
           v == RTI(z)
<1>0. Legal(c) /\ Legal(e)
  BY CallsLegal
<1>1. c.op \in {"NMI", "BRK"} /\ e.op = "RTI"
  BY DEF Instruction
<1> HIDE DEF c, e
<1>2. Dispatch(s, c) = q
  <2>1. Dispatch(s, c) = Interrupt(s, c)
    BY <1>1 DEF Dispatch, Modifies, Branches, FlagOps
  <2> QED
    BY <2>1 DEF Interrupt
<1>3. Good(s) /\ Near(r, s) /\ Good(y) /\ Near(q, y)
  BY <1>0, <1>2, ExecIs
<1>4. Frame(s, q, brk)
  <2>1. NativeVector(c.op) \in Int /\ EmulationVector(c.op) \in Int
    BY <1>1, SMT DEF NativeVector, EmulationVector
  <2> HIDE DEF s, brk
  <2> QED
    BY <1>3, <2>1, ServiceFrame
<1>5. Dispatch(z, e) = v
  BY <1>1 DEF Dispatch, Modifies, Branches, FlagOps
<1> HIDE DEF s, y, q, v, brk
<1>6. Good(z) /\ Near(y, z) /\ Good(g) /\ Near(v, g) /\ g.PC = v.PC
  BY <1>0, <1>3, <1>5, ExecIs
<1> HIDE DEF z, g
<1>7. s.E => s.PBR = 0
  BY <1>3 DEF Near, Alike
<1>8. Resumed(s, v)
  BY <1>3, <1>4, <1>6, <1>7, NearTwice, RTIBack DEF v
<1>9. Resumed(s, g)
  BY <1>6, <1>8, ResumedNear
<1>10. Saved(g) = Saved(s)
  BY <1>3, <1>6, <1>9, ResumedSaved
<1> QED
  BY <1>10 DEF g, y, s, c, e

\* JSR followed by RTS does.
LEMMA JSRPair ==
    ASSUME NEW r, Good(r)
    PROVE  Saved(Exec(Exec(r, Instruction("JSR", "abs")), Instruction("RTS", "imp")))
             = Saved(Fetched(r, Instruction("JSR", "abs")))
<1> DEFINE c == Instruction("JSR", "abs")
           e == Instruction("RTS", "imp")
           s == Fetched(r, c)
           y == Exec(r, c)
           z == Fetched(y, e)
           g == Exec(y, e)
           w == Word(c.lo, c.hi)
           q == [Push16(s, (s.PC - 1) % Bank) EXCEPT !.PC = w]
           v == [Drop(z, 2) EXCEPT !.PC = (Peek16(z, 1) + 1) % Bank]
<1>0. Legal(c) /\ Legal(e)
  BY CallsLegal
<1>1. c.op = "JSR" /\ c.mode = "abs" /\ e.op = "RTS"
  BY DEF Instruction
<1> HIDE DEF c, e
<1>2. Dispatch(s, c) = q
  <2>1. Dispatch(s, c) = Jump(s, c)
    BY <1>1, DispatchFast
  <2> QED
    BY <1>1, <2>1 DEF Jump
<1>3. Good(s) /\ Near(r, s) /\ Good(y) /\ Near(q, y)
  BY <1>0, <1>2, ExecIs
<1>4. Dispatch(z, e) = v
  <2>1. Dispatch(z, e) = Jump(z, e)
    BY <1>1, DispatchFast
  <2> QED
    BY <1>1, <2>1 DEF Jump
<1>5. w \in Words
  BY <1>0, Joined DEF Legal, Operands
<1> HIDE DEF s, y, w
<1>6. Good(z) /\ Near(y, z) /\ Good(g) /\ Near(v, g) /\ g.PC = v.PC
  BY <1>0, <1>3, <1>4, ExecIs
<1> HIDE DEF z, g
<1>7. Near(q, z)
  BY <1>3, <1>6, NearTwice
<1>8. Resumed(s, v)
  BY <1>3, <1>5, <1>6, <1>7, CallBack
<1> HIDE DEF v
<1>9. Resumed(s, g)
  BY <1>6, <1>8, ResumedNear
<1>10. Saved(g) = Saved(s)
  BY <1>3, <1>6, <1>9, ResumedSaved
<1> QED
  BY <1>10 DEF g, y, s, c, e

\* In native mode the two stack classes are one.
LEMMA NativeStack ==
    ASSUME NEW s, Good(s), ~s.E
    PROVE  /\ \A v : Push8New(s, v) = Push8(s, v)
           /\ \A v \in Byte, w \in Words : Push16New(Push8New(s, v), w) = Push16(Push8(s, v), w)
           /\ \A k : PeekNew(s, k) = Peek(s, k) /\ DropNew(s, k) = Drop(s, k)
<1>1. ASSUME NEW t, Good(t), ~t.E, NEW v PROVE Push8New(t, v) = Push8(t, v)
  <2>1. Wr(t, t.S, v).S = t.S
    BY <1>1 DEF Wr, Good, Typed, Fields, Names
  <2>2. StackAt(t, -1) = (t.S - 1) % Bank
    <3>1. t.S \in Int
      BY <1>1, WordIsInt DEF Good, Typed
    <3> QED
      BY <1>1, <3>1 DEF StackAt
  <2> QED
    BY <2>1, <2>2 DEF Push8New, Push8
<1>2. ASSUME NEW t, Good(t), ~t.E, NEW v \in Byte
      PROVE  Push8New(t, v) = Push8(t, v) /\ Good(Push8(t, v)) /\ ~Push8(t, v).E
  BY <1>1, <1>2, PushPeek DEF Alike
<1>3. ASSUME NEW v \in Byte, NEW w \in Words
      PROVE  Push16New(Push8New(s, v), w) = Push16(Push8(s, v), w)
  <2> DEFINE a == Push8(s, v)
             b == Push8(a, Hi(w))
  <2>1. Push8New(s, v) = a /\ Good(a) /\ ~a.E
    BY <1>2
  <2>2. Hi(w) \in Byte /\ Lo(w) \in Byte
    BY WordIsInt, High, Low
  <2> HIDE DEF a
  <2>3. Push8New(a, Hi(w)) = b /\ Good(b) /\ ~b.E
    BY <1>2, <2>1, <2>2
  <2> HIDE DEF b
  <2>4. Push8New(b, Lo(w)) = Push8(b, Lo(w))
    BY <1>2, <2>2, <2>3
  <2> QED
    BY <2>1, <2>3, <2>4 DEF Push16New, Push16, a, b
<1>4. \A k : PeekNew(s, k) = Peek(s, k) /\ DropNew(s, k) = Drop(s, k)
  BY DEF PeekNew, Peek, DropNew, Drop, StackAt
<1> QED
  BY <1>1, <1>3, <1>4

\* JSL's frame brings RTL back, in native mode.
LEMMA LongCallBack ==
    ASSUME NEW s, Good(s), ~s.E, NEW w \in Words, NEW k \in Byte, NEW z, Good(z),
           Near(ApplyE([Push16(Push8(s, s.PBR), (s.PC - 1) % Bank) EXCEPT !.PC = w, !.PBR = k]), z)
    PROVE  /\ ~z.E
           /\ Resumed(s, ApplyE([Drop(z, 3) EXCEPT !.PC = (Word(Peek(z, 1), Peek(z, 2)) + 1) % Bank,
                                                   !.PBR = Peek(z, 3)]))
<1> DEFINE r == (s.PC - 1) % Bank
           a == Push8(s, s.PBR)
           p == Push16(a, r)
           u == [p EXCEPT !.PC = w, !.PBR = k]
           q == ApplyE(u)
           d == [Drop(z, 3) EXCEPT !.PC = (Word(Peek(z, 1), Peek(z, 2)) + 1) % Bank,
                                   !.PBR = Peek(z, 3)]
           v == ApplyE(d)
<1>1. /\ r \in Words /\ (r + 1) % Bank = s.PC /\ s.PBR \in Byte /\ s.PC \in Words /\ s.S \in Words
  BY ShortReturn DEF Good, Typed
<1>2. Near(q, z)
  OBVIOUS
<1> HIDE DEF r
<1>3. Good(a) /\ Alike(s, a) /\ a.P = s.P /\ Peek(a, 1) = s.PBR /\ StackAt(a, 1) = s.S
  BY <1>1, PushPeek
<1> HIDE DEF a
<1>4. /\ Good(p) /\ Alike(a, p) /\ p.P = a.P /\ Peek16(p, 1) = r
      /\ Peek(p, 3) = s.PBR /\ StackAt(p, 3) = s.S
  <2>1. /\ Good(p) /\ Alike(a, p) /\ p.P = a.P /\ Peek16(p, 1) = r
        /\ \A j \in {1, 2} : Peek(p, j + 2) = Peek(a, j) /\ StackAt(p, j + 2) = StackAt(a, j)
    BY <1>1, <1>3, Push16Peek
  <2> HIDE DEF p
  <2>2. 1 + 2 = 3
    OBVIOUS
  <2> QED
    BY <1>3, <2>1, <2>2
<1> HIDE DEF p
<1>5. /\ Typed(u) /\ u.C = p.C /\ u.X = p.X /\ u.Y = p.Y /\ u.D = p.D /\ u.DBR = p.DBR
      /\ u.E = p.E /\ u.S = p.S /\ u.mem = p.mem /\ u.P = p.P
  BY <1>4 DEF Good, Typed, Fields, Names
<1> HIDE DEF u
<1>6. ~p.E /\ Alike(s, p) /\ p.P = s.P
  BY <1>3, <1>4, AlikeTwice DEF Alike
<1>7. /\ Alike(p, q) /\ q.S = u.S /\ q.mem = u.mem
      /\ q.P = IF u.E THEN u.P \cup {"M", "X"} ELSE u.P
  <2>1. ~u.E
    BY <1>5, <1>6
  <2> QED
    BY <1>4, <1>5, <2>1, RefreshedAlike
<1> HIDE DEF q
<1>8. Alike(p, z) /\ z.S = p.S /\ z.mem = p.mem /\ z.P = s.P /\ ~z.E /\ z.E = p.E
  BY <1>2, <1>5, <1>6, <1>7, AlikeTwice DEF Near, Alike
<1>9. Peek16(z, 1) = r /\ Peek(z, 3) = s.PBR /\ StackAt(z, 3) = s.S
  BY <1>4, <1>8, NearStack
<1>10. (Word(Peek(z, 1), Peek(z, 2)) + 1) % Bank = s.PC
  <2>1. Peek16(z, 1) = Word(Peek(z, 1), Peek(z, 2))
    BY DEF Peek16
  <2> QED
    BY <1>1, <1>9, <2>1
<1>11. d = [[z EXCEPT !.S = s.S] EXCEPT !.PC = s.PC, !.PBR = s.PBR]
  BY <1>9, <1>10 DEF Drop
<1> HIDE DEF d
<1>12. /\ Typed(d) /\ d.C = z.C /\ d.X = z.X /\ d.Y = z.Y /\ d.D = z.D /\ d.DBR = z.DBR
       /\ d.E = z.E /\ d.S = s.S /\ d.P = z.P /\ d.PC = s.PC /\ d.PBR = s.PBR
  BY <1>1, <1>11 DEF Good, Typed, Fields, Names
<1>13. /\ Alike(z, v) /\ v.S = d.S /\ v.PC = d.PC /\ v.PBR = d.PBR
       /\ v.P = IF d.E THEN d.P \cup {"M", "X"} ELSE d.P
  <2>1. ~d.E
    BY <1>8, <1>12
  <2> QED
    BY <1>12, <2>1, RefreshedAlike
<1> HIDE DEF v
<1>14. Alike(s, v)
  BY <1>6, <1>8, <1>13, AlikeTwice
<1>15. Resumed(s, v)
  BY <1>8, <1>12, <1>13, <1>14 DEF Resumed
<1> QED
  BY <1>8, <1>15 DEF v, d

\* JSL followed by RTL does.
LEMMA JSLPair ==
    ASSUME NEW r, Good(r), ~r.E
    PROVE  Saved(Exec(Exec(r, Instruction("JSL", "abl")), Instruction("RTL", "imp")))
             = Saved(Fetched(r, Instruction("JSL", "abl")))
<1> DEFINE c == Instruction("JSL", "abl")
           e == Instruction("RTL", "imp")
           s == Fetched(r, c)
           y == Exec(r, c)
           z == Fetched(y, e)
           g == Exec(y, e)
           w == Word(c.lo, c.hi)
           q == ApplyE([Push16(Push8(s, s.PBR), (s.PC - 1) % Bank) EXCEPT !.PC = w, !.PBR = c.bk])
           v == ApplyE([Drop(z, 3) EXCEPT !.PC = (Word(Peek(z, 1), Peek(z, 2)) + 1) % Bank,
                                          !.PBR = Peek(z, 3)])
<1>0. Legal(c) /\ Legal(e)
  BY CallsLegal
<1>1. c.op = "JSL" /\ c.mode = "abl" /\ e.op = "RTL"
  BY DEF Instruction
<1> HIDE DEF c, e
<1>2. Good(s) /\ Near(r, s) /\ Good(y) /\ Near(Dispatch(s, c), y)
  BY <1>0, ExecIs
<1>3. ~s.E
  BY <1>2 DEF Near, Alike
<1> HIDE DEF s
<1>4. Dispatch(s, c) = q
  <2>1. Dispatch(s, c) = Jump(s, c)
    BY <1>1 DEF Dispatch, Modifies, Branches, FlagOps
  <2>2. Jump(s, c)
          = ApplyE([Push16New(Push8New(s, s.PBR), (s.PC - 1) % Bank) EXCEPT !.PC = w, !.PBR = c.bk])
    BY <1>1 DEF Jump
  <2>3. s.PBR \in Byte /\ (s.PC - 1) % Bank \in Words
    BY <1>2, ShortReturn DEF Good, Typed
  <2>4. Push16New(Push8New(s, s.PBR), (s.PC - 1) % Bank) = Push16(Push8(s, s.PBR), (s.PC - 1) % Bank)
    BY <1>2, <1>3, <2>3, NativeStack
  <2> QED
    BY <2>1, <2>2, <2>4
<1>5. w \in Words /\ c.bk \in Byte
  BY <1>0, Joined DEF Legal, Operands
<1>6. Near(q, y)
  BY <1>2, <1>4
<1> HIDE DEF y, w
<1>7. Good(z) /\ Near(y, z) /\ Good(g) /\ Near(Dispatch(z, e), g) /\ g.PC = Dispatch(z, e).PC
  BY <1>0, <1>2, ExecIs
<1> HIDE DEF z, g
<1>8. Near(q, z)
  BY <1>6, <1>7, NearTwice
<1>9. ~z.E /\ Resumed(s, v)
  BY <1>2, <1>3, <1>5, <1>7, <1>8, LongCallBack
<1>10. Dispatch(z, e) = v
  <2>1. Dispatch(z, e) = Jump(z, e)
    BY <1>1 DEF Dispatch, Modifies, Branches, FlagOps
  <2>2. Jump(z, e) = ApplyE([DropNew(z, 3) EXCEPT
                                !.PC = (Word(PeekNew(z, 1), PeekNew(z, 2)) + 1) % Bank,
                                !.PBR = PeekNew(z, 3)])
    BY <1>1 DEF Jump
  <2>3. /\ PeekNew(z, 1) = Peek(z, 1) /\ PeekNew(z, 2) = Peek(z, 2) /\ PeekNew(z, 3) = Peek(z, 3)
        /\ DropNew(z, 3) = Drop(z, 3)
    BY <1>7, <1>9, NativeStack
  <2> QED
    BY <2>1, <2>2, <2>3, Zenon
<1> HIDE DEF v
<1>11. Resumed(s, g)
  BY <1>7, <1>9, <1>10, ResumedNear
<1>12. Saved(g) = Saved(s)
  BY <1>2, <1>7, <1>11, ResumedSaved
<1> QED
  BY <1>12 DEF g, y, s, c, e

\* All of them, from every good register file.
LEMMA ReturnsFromEverywhere == IInv => ReturnsToCaller
<1> SUFFICES ASSUME IInv PROVE ReturnsToCaller
  OBVIOUS
<1>1. Good(cpu) /\ cpu.E \in BOOLEAN
  BY DEF IInv, Good, Typed
<1>2. ASSUME ~cpu.E \/ cpu.PBR = 0, NEW op, NEW mode,
             <<op, mode>> \in {<<"NMI", "imp">>, <<"BRK", "imm">>}
      PROVE  Saved(Exec(Exec(cpu, Instruction(op, mode)), Instruction("RTI", "imp")))
               = Saved(Fetched(cpu, Instruction(op, mode)))
  BY <1>1, <1>2, InterruptPair
<1>3. ~cpu.E \/ cpu.PBR = 0 =>
        /\ Saved(Exec(Exec(cpu, Instruction("NMI", "imp")), Instruction("RTI", "imp")))
             = Saved(Fetched(cpu, Instruction("NMI", "imp")))
        /\ Saved(Exec(Exec(cpu, Instruction("BRK", "imm")), Instruction("RTI", "imp")))
             = Saved(Fetched(cpu, Instruction("BRK", "imm")))
  BY <1>2
<1>4. Saved(Exec(Exec(cpu, Instruction("JSR", "abs")), Instruction("RTS", "imp")))
        = Saved(Fetched(cpu, Instruction("JSR", "abs")))
  BY <1>1, JSRPair
<1>5. ~cpu.E => Saved(Exec(Exec(cpu, Instruction("JSL", "abl")), Instruction("RTL", "imp")))
                  = Saved(Fetched(cpu, Instruction("JSL", "abl")))
  BY <1>1, JSLPair
<1> DEFINE Back(p) == Saved(Exec(Exec(cpu, p[1]), p[2])) = Saved(Fetched(cpu, p[1]))
<1>6. ASSUME NEW p \in CallsFrom(cpu) PROVE Back(p)
  <2>1. CASE p = <<Instruction("JSR", "abs"), Instruction("RTS", "imp")>>
    BY <1>4, <2>1
  <2>2. CASE ~cpu.E /\ p = <<Instruction("JSL", "abl"), Instruction("RTL", "imp")>>
    BY <1>5, <2>2
  <2>3. CASE /\ ~(cpu.E /\ cpu.PBR # 0)
             /\ \/ p = <<Instruction("NMI", "imp"), Instruction("RTI", "imp")>>
                \/ p = <<Instruction("BRK", "imm"), Instruction("RTI", "imp")>>
    BY <1>3, <2>3
  <2> QED
    BY <2>1, <2>2, <2>3, <1>6, Zenon DEF CallsFrom
<1> QED
  BY <1>6, Zenon DEF ReturnsToCaller

\* From every reachable state an interrupt followed by RTI and a call
\* followed by its return come back to the instruction and register file they
\* left (serviceInterrupt, RTI, JSR/RTS, JSL/RTL), where the program bank
\* allows it.
THEOREM CallsReturn == Spec => []ReturnsToCaller
<1>1. Init => IInv
  BY InitGood DEF IInv
<1>2. IInv /\ [Next]_vars => IInv'
  BY StepGood
<1>3. IInv => ReturnsToCaller
  BY ReturnsFromEverywhere
<1> QED
  BY <1>1, <1>2, <1>3, PTL DEF Spec

-------------------------------------------------------------------------------
\* Decimal arithmetic.

Digits == 0 .. 9

\* One decimal digit, with its carry or its borrow.
LEMMA DigitSum ==
    ASSUME NEW a \in Digits, NEW v \in Digits, NEW c \in {0, 1}
    PROVE  LET d == AddDigit(a, v, c)
           IN  d.sum \in Digits /\ d.carry \in {0, 1} /\ a + v + c = d.sum + 10 * d.carry
BY SMT DEF AddDigit, Digits

\* The same with borrows.
LEMMA DigitDifference ==
    ASSUME NEW a \in Digits, NEW v \in Digits, NEW c \in {0, 1}
    PROVE  LET d == SubDigit(a, v, c)
           IN  d.sum \in Digits /\ d.carry \in {0, 1} /\ a - v - c = d.sum - 10 * d.carry
BY SMT DEF SubDigit, Digits

\* A number made of digits has those digits, and a number is made of its own.
LEMMA MadeOfDigits ==
    ASSUME NEW a \in Digits, NEW b \in Digits, NEW c \in Digits, NEW d \in Digits, NEW x,
           x = a + 16 * b + 256 * c + 4096 * d
    PROVE  /\ Digit(x, 1) = a /\ Digit(x, 16) = b /\ Digit(x, 256) = c /\ Digit(x, 4096) = d
           /\ x \in Int /\ 0 <= x /\ x < 65536 /\ (c = 0 /\ d = 0 => x < 256)
BY SMT DEF Digit, Digits

\* A number is made of its own hexadecimal digits.
LEMMA OwnDigits ==
    ASSUME NEW x \in Int, 0 <= x, x < 65536
    PROVE  /\ x = Digit(x, 1) + 16 * Digit(x, 16) + 256 * Digit(x, 256) + 4096 * Digit(x, 4096)
           /\ x < 256 => Digit(x, 256) = 0 /\ Digit(x, 4096) = 0
           /\ \A u \in {1, 16, 256, 4096} : Digit(x, u) \in Int /\ 0 <= Digit(x, u)
BY SMT DEF Digit

\* The two widths, spelled out.
LEMMA Eight ==
    ASSUME NEW a, NEW e, e
    PROVE  /\ IsBCD(a, e) <=> Digit(a, 1) < 10 /\ Digit(a, 16) < 10
           /\ Decimal(a, e) = Digit(a, 1) + 10 * Digit(a, 16) + 0
           /\ Hundreds(e) = 100
BY DEF IsBCD, Units, Decimal, Hundreds

\* And at 16 bits.
LEMMA Sixteen ==
    ASSUME NEW a, NEW e, ~e
    PROVE  /\ IsBCD(a, e) <=> /\ Digit(a, 1) < 10 /\ Digit(a, 16) < 10
                              /\ Digit(a, 256) < 10 /\ Digit(a, 4096) < 10
           /\ Decimal(a, e) = Digit(a, 1) + 10 * Digit(a, 16)
                                  + (100 * Digit(a, 256) + 1000 * Digit(a, 4096))
           /\ Hundreds(e) = 10000
BY DEF IsBCD, Units, Decimal, Hundreds

\* What the digits of a BCD value are.
LEMMA BCDDigits ==
    ASSUME NEW a \in Int, 0 <= a, a < 65536, NEW e, e => a < 256, IsBCD(a, e)
    PROVE  /\ Digit(a, 1) \in Digits /\ Digit(a, 16) \in Digits
           /\ Digit(a, 256) \in Digits /\ Digit(a, 4096) \in Digits
           /\ e => Digit(a, 256) = 0 /\ Digit(a, 4096) = 0
<1> DEFINE a0 == Digit(a, 1)
           a1 == Digit(a, 16)
           a2 == Digit(a, 256)
           a3 == Digit(a, 4096)
<1>1. /\ a0 \in Int /\ 0 <= a0 /\ a1 \in Int /\ 0 <= a1 /\ a2 \in Int /\ 0 <= a2
      /\ a3 \in Int /\ 0 <= a3 /\ (a < 256 => a2 = 0 /\ a3 = 0)
  BY OwnDigits
<1>2. /\ e => a0 < 10 /\ a1 < 10
      /\ ~e => a0 < 10 /\ a1 < 10 /\ a2 < 10 /\ a3 < 10
  BY Eight, Sixteen
<1> HIDE DEF a0, a1, a2, a3
<1>3. a0 \in Digits /\ a1 \in Digits /\ a2 \in Digits /\ a3 \in Digits /\ (e => a2 = 0 /\ a3 = 0)
  BY <1>1, <1>2 DEF Digits
<1> QED
  BY <1>3 DEF a0, a1, a2, a3


\* What a decimal addition and a decimal subtraction promise.
AddsUp(a, v, c, e, s, k, z) ==
    /\ DecimalAdd(a, v, c, e).sum = s /\ DecimalAdd(a, v, c, e).carry = k
    /\ 0 <= s /\ s < Wide(e) /\ IsBCD(s, e)
    /\ Decimal(s, e) = z /\ 0 <= z /\ z < Hundreds(e)
    /\ Decimal(a, e) + Decimal(v, e) + c = z + Hundreds(e) * k

Subtracts(a, v, c, e, s, k, z) ==
    /\ DecimalSub(a, v, c, e) = s
    /\ 0 <= s /\ s < Wide(e) /\ IsBCD(s, e)
    /\ Decimal(s, e) = z /\ 0 <= z /\ z < Hundreds(e)
    /\ Decimal(a, e) - Decimal(v, e) - c = z - Hundreds(e) * k
    /\ k = 0 <=> a - v - c >= 0

\* Decimal addition and subtraction of two BCD values.
LEMMA AddEight ==
    ASSUME NEW a, NEW v, NEW c \in {0, 1}, NEW e, e,
           Digit(a, 1) \in Digits, Digit(v, 1) \in Digits,
           Digit(a, 16) \in Digits, Digit(v, 16) \in Digits
    PROVE  \E s \in Int, k \in {0, 1}, z \in Int :
              AddsUp(a, v, c, e, s, k, z)
<1>0. PICK a0 \in Digits, v0 \in Digits, a1 \in Digits, v1 \in Digits :
          Digit(a, 1) = a0 /\ Digit(v, 1) = v0 /\ Digit(a, 16) = a1 /\ Digit(v, 16) = v1
  OBVIOUS
<1> DEFINE d0 == AddDigit(a0, v0, c)
<1>1a. /\ d0.sum \in Digits /\ d0.carry \in {0, 1}
      /\ a0 + v0 + c = d0.sum + 10 * d0.carry
  BY DigitSum
<1> HIDE DEF d0
<1>1b. PICK s0 \in Digits, k0 \in {0, 1} : d0.sum = s0 /\ d0.carry = k0
  BY <1>1a
<1>1. a0 + v0 + c = s0 + 10 * k0
  BY <1>1a, <1>1b
<1> DEFINE d1 == AddDigit(a1, v1, k0)
<1>2a. /\ d1.sum \in Digits /\ d1.carry \in {0, 1}
      /\ a1 + v1 + k0 = d1.sum + 10 * d1.carry
  BY DigitSum
<1> HIDE DEF d1
<1>2b. PICK s1 \in Digits, k1 \in {0, 1} : d1.sum = s1 /\ d1.carry = k1
  BY <1>2a
<1>2. a1 + v1 + k0 = s1 + 10 * k1
  BY <1>2a, <1>2b
<1>5. DecimalAdd(a, v, c, e).sum = s0 + 16 * s1 /\ DecimalAdd(a, v, c, e).carry = k1
  BY <1>1b, <1>2b, <1>0 DEF DecimalAdd, d0, d1
<1>6. PICK s \in Int : s = s0 + 16 * s1
  BY SMT DEF Digits
<1>7. s = s0 + 16 * s1 + 256 * 0 + 4096 * 0 /\ 0 \in Digits
  BY <1>6, SMT DEF Digits
<1>8. /\ Digit(s, 1) = s0 /\ Digit(s, 16) = s1 /\ 0 <= s /\ s < 256
  BY <1>7, MadeOfDigits
<1>9. PICK z \in Int : z = s0 + 10 * s1 + 0
  BY SMT DEF Digits
<1>10. 0 <= z /\ z < 100 /\ s0 < 10 /\ s1 < 10
  BY <1>9, SMT DEF Digits
<1>11. IsBCD(s, e) /\ Decimal(s, e) = z
  BY <1>8, <1>9, <1>10, Eight
<1>12. PICK x \in Int : x = a0 + 10 * a1 + 0
  BY SMT DEF Digits
<1>13. PICK y \in Int : y = v0 + 10 * v1 + 0
  BY SMT DEF Digits
<1>14. Decimal(a, e) = x /\ Decimal(v, e) = y
  BY <1>0, <1>12, <1>13, Eight
<1>15. x + y + c = z + 100 * k1
  BY <1>1, <1>2, <1>9, <1>12, <1>13, SMT DEF Digits
<1>160. Wide(e) = 256 /\ Hundreds(e) = 100
  BY SMT DEF Wide, Hundreds
<1>17. WITNESS s \in Int, k1 \in {0, 1}, z \in Int
<1> QED
  BY <1>5, <1>6, <1>8, <1>10, <1>11, <1>14, <1>15, <1>160 DEF AddsUp

\* Decimal addition at 16 bits: four digits.
LEMMA AddSixteen ==
    ASSUME NEW a, NEW v, NEW c \in {0, 1}, NEW e, ~e,
           NEW a0 \in Digits, Digit(a, 1) = a0, NEW v0 \in Digits, Digit(v, 1) = v0,
           NEW a1 \in Digits, Digit(a, 16) = a1, NEW v1 \in Digits, Digit(v, 16) = v1,
           NEW a2 \in Digits, Digit(a, 256) = a2, NEW v2 \in Digits, Digit(v, 256) = v2,
           NEW a3 \in Digits, Digit(a, 4096) = a3, NEW v3 \in Digits, Digit(v, 4096) = v3
    PROVE  \E s \in Int, k \in {0, 1}, z \in Int :
              /\ DecimalAdd(a, v, c, e).sum = s /\ DecimalAdd(a, v, c, e).carry = k
              /\ 0 <= s /\ s < 65536 /\ IsBCD(s, e)
              /\ Decimal(s, e) = z /\ 0 <= z /\ z < 10000
              /\ Decimal(a, e) + Decimal(v, e) + c = z + 10000 * k
<1> DEFINE d0 == AddDigit(a0, v0, c)
<1>1a. /\ d0.sum \in Digits /\ d0.carry \in {0, 1}
      /\ a0 + v0 + c = d0.sum + 10 * d0.carry
  BY DigitSum
<1> HIDE DEF d0
<1>1b. PICK s0 \in Digits, k0 \in {0, 1} : d0.sum = s0 /\ d0.carry = k0
  BY <1>1a
<1>1. a0 + v0 + c = s0 + 10 * k0
  BY <1>1a, <1>1b
<1> DEFINE d1 == AddDigit(a1, v1, k0)
<1>2a. /\ d1.sum \in Digits /\ d1.carry \in {0, 1}
      /\ a1 + v1 + k0 = d1.sum + 10 * d1.carry
  BY DigitSum
<1> HIDE DEF d1
<1>2b. PICK s1 \in Digits, k1 \in {0, 1} : d1.sum = s1 /\ d1.carry = k1
  BY <1>2a
<1>2. a1 + v1 + k0 = s1 + 10 * k1
  BY <1>2a, <1>2b
<1> DEFINE d2 == AddDigit(a2, v2, k1)
<1>3a. /\ d2.sum \in Digits /\ d2.carry \in {0, 1}
      /\ a2 + v2 + k1 = d2.sum + 10 * d2.carry
  BY DigitSum
<1> HIDE DEF d2
<1>3b. PICK s2 \in Digits, k2 \in {0, 1} : d2.sum = s2 /\ d2.carry = k2
  BY <1>3a
<1>3. a2 + v2 + k1 = s2 + 10 * k2
  BY <1>3a, <1>3b
<1> DEFINE d3 == AddDigit(a3, v3, k2)
<1>4a. /\ d3.sum \in Digits /\ d3.carry \in {0, 1}
      /\ a3 + v3 + k2 = d3.sum + 10 * d3.carry
  BY DigitSum
<1> HIDE DEF d3
<1>4b. PICK s3 \in Digits, k3 \in {0, 1} : d3.sum = s3 /\ d3.carry = k3
  BY <1>4a
<1>4. a3 + v3 + k2 = s3 + 10 * k3
  BY <1>4a, <1>4b
<1>5. DecimalAdd(a, v, c, e).sum = s0 + 16 * s1 + 256 * s2 + 4096 * s3 /\ DecimalAdd(a, v, c, e).carry = k3
  BY <1>1b, <1>2b, <1>3b, <1>4b DEF DecimalAdd, d0, d1, d2, d3
<1>6. PICK s \in Int : s = s0 + 16 * s1 + 256 * s2 + 4096 * s3
  BY SMT DEF Digits
<1>7. s = s0 + 16 * s1 + 256 * s2 + 4096 * s3 /\ 0 \in Digits
  BY <1>6, SMT DEF Digits
<1>8. /\ Digit(s, 256) = s2 /\ Digit(s, 4096) = s3
      /\ Digit(s, 1) = s0 /\ Digit(s, 16) = s1 /\ 0 <= s /\ s < 65536
  BY <1>7, MadeOfDigits
<1>9. PICK z \in Int : z = s0 + 10 * s1 + (100 * s2 + 1000 * s3)
  BY SMT DEF Digits
<1>10. 0 <= z /\ z < 10000 /\ s0 < 10 /\ s1 < 10 /\ s2 < 10 /\ s3 < 10
  BY <1>9, SMT DEF Digits
<1>11. IsBCD(s, e) /\ Decimal(s, e) = z
  BY <1>8, <1>9, <1>10, Sixteen
<1>12. PICK x \in Int : x = a0 + 10 * a1 + (100 * a2 + 1000 * a3)
  BY SMT DEF Digits
<1>13. PICK y \in Int : y = v0 + 10 * v1 + (100 * v2 + 1000 * v3)
  BY SMT DEF Digits
<1>14. Decimal(a, e) = x /\ Decimal(v, e) = y
  BY <1>12, <1>13, Sixteen
<1>15. x + y + c = z + 10000 * k3
  BY <1>1, <1>2, <1>3, <1>4, <1>9, <1>12, <1>13, SMT DEF Digits
<1>17. WITNESS s \in Int, k3 \in {0, 1}, z \in Int
<1> QED
  BY <1>5, <1>6, <1>8, <1>10, <1>11, <1>14, <1>15

\* Decimal subtraction at 8 bits; the borrow out is the binary one.
LEMMA SubEight ==
    ASSUME NEW a, NEW v, NEW c \in {0, 1}, NEW e, e,
           Digit(a, 1) \in Digits, Digit(v, 1) \in Digits,
           Digit(a, 16) \in Digits, Digit(v, 16) \in Digits,
           a = Digit(a, 1) + 16 * Digit(a, 16), v = Digit(v, 1) + 16 * Digit(v, 16)
    PROVE  \E s \in Int, k \in {0, 1}, z \in Int :
              Subtracts(a, v, c, e, s, k, z)
<1>0. PICK a0 \in Digits, v0 \in Digits, a1 \in Digits, v1 \in Digits :
          Digit(a, 1) = a0 /\ Digit(v, 1) = v0 /\ Digit(a, 16) = a1 /\ Digit(v, 16) = v1
  OBVIOUS
<1> DEFINE d0 == SubDigit(a0, v0, c)
<1>1a. /\ d0.sum \in Digits /\ d0.carry \in {0, 1}
      /\ a0 - v0 - c = d0.sum - 10 * d0.carry
  BY DigitDifference
<1> HIDE DEF d0
<1>1b. PICK s0 \in Digits, k0 \in {0, 1} : d0.sum = s0 /\ d0.carry = k0
  BY <1>1a
<1>1. a0 - v0 - c = s0 - 10 * k0
  BY <1>1a, <1>1b
<1> DEFINE d1 == SubDigit(a1, v1, k0)
<1>2a. /\ d1.sum \in Digits /\ d1.carry \in {0, 1}
      /\ a1 - v1 - k0 = d1.sum - 10 * d1.carry
  BY DigitDifference
<1> HIDE DEF d1
<1>2b. PICK s1 \in Digits, k1 \in {0, 1} : d1.sum = s1 /\ d1.carry = k1
  BY <1>2a
<1>2. a1 - v1 - k0 = s1 - 10 * k1
  BY <1>2a, <1>2b
<1>5. DecimalSub(a, v, c, e) = s0 + 16 * s1
  BY <1>1b, <1>2b, <1>0 DEF DecimalSub, d0, d1
<1>6. PICK s \in Int : s = s0 + 16 * s1
  BY SMT DEF Digits
<1>7. s = s0 + 16 * s1 + 256 * 0 + 4096 * 0 /\ 0 \in Digits
  BY <1>6, SMT DEF Digits
<1>8. /\ Digit(s, 1) = s0 /\ Digit(s, 16) = s1 /\ 0 <= s /\ s < 256
  BY <1>7, MadeOfDigits
<1>9. PICK z \in Int : z = s0 + 10 * s1 + 0
  BY SMT DEF Digits
<1>10. 0 <= z /\ z < 100 /\ s0 < 10 /\ s1 < 10
  BY <1>9, SMT DEF Digits
<1>11. IsBCD(s, e) /\ Decimal(s, e) = z
  BY <1>8, <1>9, <1>10, Eight
<1>12. PICK x \in Int : x = a0 + 10 * a1 + 0
  BY SMT DEF Digits
<1>13. PICK y \in Int : y = v0 + 10 * v1 + 0
  BY SMT DEF Digits
<1>14. Decimal(a, e) = x /\ Decimal(v, e) = y
  BY <1>0, <1>12, <1>13, Eight
<1>15. x - y - c = z - 100 * k1
  BY <1>1, <1>2, <1>9, <1>12, <1>13, SMT DEF Digits
<1>161. a = a0 + 16 * a1 /\ v = v0 + 16 * v1
  BY <1>0
<1>16. k1 = 0 <=> a - v - c >= 0
  BY <1>161, <1>1, <1>2, SMT DEF Digits
<1>160. Wide(e) = 256 /\ Hundreds(e) = 100
  BY SMT DEF Wide, Hundreds
<1>17. WITNESS s \in Int, k1 \in {0, 1}, z \in Int
<1>18. Decimal(a, e) - Decimal(v, e) - c = z - Hundreds(e) * k1
  BY <1>14, <1>15, <1>160
<1>19. s < Wide(e) /\ z < Hundreds(e)
  <2>1. s < 256 /\ z < 100
    BY <1>8, <1>10
  <2> QED
    BY <1>160, <2>1
<1>20. DecimalSub(a, v, c, e) = s
  BY <1>5, <1>6
<1> QED
  BY <1>8, <1>10, <1>11, <1>16, <1>18, <1>19, <1>20, Zenon DEF Subtracts

\* And at 16 bits.
LEMMA SubSixteen ==
    ASSUME NEW a, NEW v, NEW c \in {0, 1}, NEW e, ~e,
           NEW a0 \in Digits, Digit(a, 1) = a0, NEW v0 \in Digits, Digit(v, 1) = v0,
           NEW a1 \in Digits, Digit(a, 16) = a1, NEW v1 \in Digits, Digit(v, 16) = v1,
           NEW a2 \in Digits, Digit(a, 256) = a2, NEW v2 \in Digits, Digit(v, 256) = v2,
           NEW a3 \in Digits, Digit(a, 4096) = a3, NEW v3 \in Digits, Digit(v, 4096) = v3,
           a = a0 + 16 * a1 + 256 * a2 + 4096 * a3,
           v = v0 + 16 * v1 + 256 * v2 + 4096 * v3
    PROVE  \E s \in Int, k \in {0, 1}, z \in Int :
              /\ DecimalSub(a, v, c, e) = s
              /\ 0 <= s /\ s < 65536 /\ IsBCD(s, e)
              /\ Decimal(s, e) = z /\ 0 <= z /\ z < 10000
              /\ Decimal(a, e) - Decimal(v, e) - c = z - 10000 * k
              /\ k = 0 <=> a - v - c >= 0
<1> DEFINE d0 == SubDigit(a0, v0, c)
<1>1a. /\ d0.sum \in Digits /\ d0.carry \in {0, 1}
      /\ a0 - v0 - c = d0.sum - 10 * d0.carry
  BY DigitDifference
<1> HIDE DEF d0
<1>1b. PICK s0 \in Digits, k0 \in {0, 1} : d0.sum = s0 /\ d0.carry = k0
  BY <1>1a
<1>1. a0 - v0 - c = s0 - 10 * k0
  BY <1>1a, <1>1b
<1> DEFINE d1 == SubDigit(a1, v1, k0)
<1>2a. /\ d1.sum \in Digits /\ d1.carry \in {0, 1}
      /\ a1 - v1 - k0 = d1.sum - 10 * d1.carry
  BY DigitDifference
<1> HIDE DEF d1
<1>2b. PICK s1 \in Digits, k1 \in {0, 1} : d1.sum = s1 /\ d1.carry = k1
  BY <1>2a
<1>2. a1 - v1 - k0 = s1 - 10 * k1
  BY <1>2a, <1>2b
<1> DEFINE d2 == SubDigit(a2, v2, k1)
<1>3a. /\ d2.sum \in Digits /\ d2.carry \in {0, 1}
      /\ a2 - v2 - k1 = d2.sum - 10 * d2.carry
  BY DigitDifference
<1> HIDE DEF d2
<1>3b. PICK s2 \in Digits, k2 \in {0, 1} : d2.sum = s2 /\ d2.carry = k2
  BY <1>3a
<1>3. a2 - v2 - k1 = s2 - 10 * k2
  BY <1>3a, <1>3b
<1> DEFINE d3 == SubDigit(a3, v3, k2)
<1>4a. /\ d3.sum \in Digits /\ d3.carry \in {0, 1}
      /\ a3 - v3 - k2 = d3.sum - 10 * d3.carry
  BY DigitDifference
<1> HIDE DEF d3
<1>4b. PICK s3 \in Digits, k3 \in {0, 1} : d3.sum = s3 /\ d3.carry = k3
  BY <1>4a
<1>4. a3 - v3 - k2 = s3 - 10 * k3
  BY <1>4a, <1>4b
<1>5. DecimalSub(a, v, c, e) = s0 + 16 * s1 + 256 * s2 + 4096 * s3
  BY <1>1b, <1>2b, <1>3b, <1>4b DEF DecimalSub, d0, d1, d2, d3
<1>6. PICK s \in Int : s = s0 + 16 * s1 + 256 * s2 + 4096 * s3
  BY SMT DEF Digits
<1>7. s = s0 + 16 * s1 + 256 * s2 + 4096 * s3 /\ 0 \in Digits
  BY <1>6, SMT DEF Digits
<1>8. /\ Digit(s, 256) = s2 /\ Digit(s, 4096) = s3
      /\ Digit(s, 1) = s0 /\ Digit(s, 16) = s1 /\ 0 <= s /\ s < 65536
  BY <1>7, MadeOfDigits
<1>9. PICK z \in Int : z = s0 + 10 * s1 + (100 * s2 + 1000 * s3)
  BY SMT DEF Digits
<1>10. 0 <= z /\ z < 10000 /\ s0 < 10 /\ s1 < 10 /\ s2 < 10 /\ s3 < 10
  BY <1>9, SMT DEF Digits
<1>11. IsBCD(s, e) /\ Decimal(s, e) = z
  BY <1>8, <1>9, <1>10, Sixteen
<1>12. PICK x \in Int : x = a0 + 10 * a1 + (100 * a2 + 1000 * a3)
  BY SMT DEF Digits
<1>13. PICK y \in Int : y = v0 + 10 * v1 + (100 * v2 + 1000 * v3)
  BY SMT DEF Digits
<1>14. Decimal(a, e) = x /\ Decimal(v, e) = y
  BY <1>12, <1>13, Sixteen
<1>15. x - y - c = z - 10000 * k3
  BY <1>1, <1>2, <1>3, <1>4, <1>9, <1>12, <1>13, SMT DEF Digits
<1>16. k3 = 0 <=> a - v - c >= 0
  BY <1>1, <1>2, <1>3, <1>4, SMT DEF Digits
<1>17. WITNESS s \in Int, k3 \in {0, 1}, z \in Int
<1> QED
  BY <1>5, <1>6, <1>8, <1>10, <1>11, <1>14, <1>15, <1>16

\* The decimal sum of BCD values is their decimal sum, at either width, and
\* the carry tells whether it fits.
LEMMA AddsDecimals ==
    ASSUME NEW a \in Int, 0 <= a, NEW v \in Int, 0 <= v, NEW c \in {0, 1}, NEW e,
           a < Wide(e), v < Wide(e), IsBCD(a, e), IsBCD(v, e)
    PROVE  \E s \in Int, k \in {0, 1} :
              /\ DecimalAdd(a, v, c, e).sum = s /\ DecimalAdd(a, v, c, e).carry = k
              /\ 0 <= s /\ s < Wide(e) /\ IsBCD(s, e)
              /\ Decimal(s, e) = (Decimal(a, e) + Decimal(v, e) + c) % Hundreds(e)
              /\ k = 1 <=> Decimal(a, e) + Decimal(v, e) + c >= Hundreds(e)
<1> DEFINE x == Decimal(a, e) + Decimal(v, e) + c
<1>1. CASE e
  <2>1. Wide(e) = 256 /\ a < 256 /\ v < 256
    BY <1>1, SMT DEF Wide
  <2>2. /\ Digit(a, 1) \in Digits /\ Digit(a, 16) \in Digits
        /\ Digit(v, 1) \in Digits /\ Digit(v, 16) \in Digits
    BY <2>1, BCDDigits
  <2>30. PICK s \in Int, k \in {0, 1}, z \in Int : AddsUp(a, v, c, e, s, k, z)
    BY <1>1, <2>2, AddEight, Zenon
  <2>3. /\ DecimalAdd(a, v, c, e).sum = s /\ DecimalAdd(a, v, c, e).carry = k
        /\ 0 <= s /\ s < Wide(e) /\ IsBCD(s, e)
        /\ Decimal(s, e) = z /\ 0 <= z /\ z < Hundreds(e)
        /\ x = z + Hundreds(e) * k
    BY <2>30 DEF AddsUp
  <2> HIDE DEF x
  <2>5. Hundreds(e) = 100
    BY <1>1, Eight
  <2>4. z = x % 100 /\ (k = 1 <=> x >= 100)
    BY <2>3, <2>5, SMT
  <2>6. WITNESS s \in Int, k \in {0, 1}
  <2> QED
    BY <2>1, <2>3, <2>4, <2>5 DEF x
<1>2. CASE ~e
  <2>1. Wide(e) = 65536 /\ a < 65536 /\ v < 65536
    BY <1>2, SMT DEF Wide
  <2>2. PICK a0 \in Digits, a1 \in Digits, v0 \in Digits, v1 \in Digits,
             a2 \in Digits, a3 \in Digits, v2 \in Digits, v3 \in Digits :
           /\ Digit(a, 1) = a0 /\ Digit(a, 16) = a1 /\ Digit(v, 1) = v0 /\ Digit(v, 16) = v1
           /\ Digit(a, 256) = a2 /\ Digit(a, 4096) = a3 /\ Digit(v, 256) = v2 /\ Digit(v, 4096) = v3
    <3>1. /\ Digit(a, 1) \in Digits /\ Digit(a, 16) \in Digits
          /\ Digit(v, 1) \in Digits /\ Digit(v, 16) \in Digits
          /\ Digit(a, 256) \in Digits /\ Digit(a, 4096) \in Digits
          /\ Digit(v, 256) \in Digits /\ Digit(v, 4096) \in Digits
      BY <1>2, <2>1, BCDDigits
    <3> QED
      BY <3>1
  <2>3. PICK s \in Int, k \in {0, 1}, z \in Int :
          /\ DecimalAdd(a, v, c, e).sum = s /\ DecimalAdd(a, v, c, e).carry = k
          /\ 0 <= s /\ s < 65536 /\ IsBCD(s, e)
          /\ Decimal(s, e) = z /\ 0 <= z /\ z < 10000
          /\ x = z + 10000 * k
    BY <1>2, <2>2, AddSixteen
  <2> HIDE DEF x
  <2>4. z = x % 10000 /\ (k = 1 <=> x >= 10000)
    BY <2>3, SMT
  <2>5. Hundreds(e) = 10000
    BY <1>2, Sixteen
  <2>6. WITNESS s \in Int, k \in {0, 1}
  <2> QED
    BY <2>1, <2>3, <2>4, <2>5 DEF x
<1> QED
  BY <1>1, <1>2

\* A decimal difference fits exactly when the binary one does.
LEMMA SubtractsDecimals ==
    ASSUME NEW a \in Int, 0 <= a, NEW v \in Int, 0 <= v, NEW c \in {0, 1}, NEW e,
           a < Wide(e), v < Wide(e), IsBCD(a, e), IsBCD(v, e)
    PROVE  \E s \in Int :
              /\ DecimalSub(a, v, c, e) = s
              /\ 0 <= s /\ s < Wide(e) /\ IsBCD(s, e)
              /\ Decimal(s, e) = (Decimal(a, e) - Decimal(v, e) - c) % Hundreds(e)
              /\ a - v - c >= 0 <=> Decimal(a, e) - Decimal(v, e) - c >= 0
<1> DEFINE x == Decimal(a, e) - Decimal(v, e) - c
<1>1. CASE e
  <2>1. Wide(e) = 256 /\ a < 256 /\ v < 256
    BY <1>1, SMT DEF Wide
  <2>2. /\ Digit(a, 1) \in Digits /\ Digit(a, 16) \in Digits
        /\ Digit(v, 1) \in Digits /\ Digit(v, 16) \in Digits
    BY <2>1, BCDDigits
  <2>20. a = Digit(a, 1) + 16 * Digit(a, 16) /\ v = Digit(v, 1) + 16 * Digit(v, 16)
    <3>1. /\ a = Digit(a, 1) + 16 * Digit(a, 16) + 256 * Digit(a, 256) + 4096 * Digit(a, 4096)
          /\ v = Digit(v, 1) + 16 * Digit(v, 16) + 256 * Digit(v, 256) + 4096 * Digit(v, 4096)
          /\ Digit(a, 256) = 0 /\ Digit(v, 256) = 0 /\ Digit(a, 4096) = 0 /\ Digit(v, 4096) = 0
      BY <2>1, OwnDigits
    <3>2. /\ a = Digit(a, 1) + 16 * Digit(a, 16) + 256 * 0 + 4096 * 0
          /\ v = Digit(v, 1) + 16 * Digit(v, 16) + 256 * 0 + 4096 * 0
      BY <2>2, <3>1
    <3> QED
      BY <2>2, <3>2, SMT DEF Digits
  <2>30. PICK s \in Int, k \in {0, 1}, z \in Int : Subtracts(a, v, c, e, s, k, z)
    BY <1>1, <2>2, <2>20, SubEight, Zenon
  <2>3. /\ DecimalSub(a, v, c, e) = s
        /\ 0 <= s /\ s < Wide(e) /\ IsBCD(s, e)
        /\ Decimal(s, e) = z /\ 0 <= z /\ z < Hundreds(e)
        /\ x = z - Hundreds(e) * k
        /\ k = 0 <=> a - v - c >= 0
    BY <2>30 DEF Subtracts
  <2> HIDE DEF x
  <2>5. Hundreds(e) = 100
    BY <1>1, Eight
  <2>35. x = z - 100 * k /\ 0 <= z /\ z < 100
    <3>1. x = z - Hundreds(e) * k /\ 0 <= z /\ z < Hundreds(e)
      BY <2>3, Zenon
    <3> QED
      BY <2>5, <3>1
  <2>36. k = 0 <=> a - v - c >= 0
    BY <2>3, Zenon
  <2>4. z = x % 100 /\ (k = 0 <=> x >= 0)
    BY <2>35, SMT
  <2>40. a - v - c >= 0 <=> x >= 0
    BY <2>36, <2>4, Zenon
  <2>41. s < Wide(e) /\ Decimal(s, e) = x % Hundreds(e)
    <3>1. Decimal(s, e) = z /\ s < Wide(e)
      BY <2>3, Zenon
    <3> QED
      BY <2>4, <2>5, <3>1
  <2>6. WITNESS s \in Int
  <2>42. DecimalSub(a, v, c, e) = s /\ 0 <= s /\ IsBCD(s, e)
    BY <2>3, Zenon
  <2> QED
    BY <2>40, <2>41, <2>42, Zenon DEF x
<1>2. CASE ~e
  <2>1. Wide(e) = 65536 /\ a < 65536 /\ v < 65536
    BY <1>2, SMT DEF Wide
  <2>2. PICK a0 \in Digits, a1 \in Digits, v0 \in Digits, v1 \in Digits,
             a2 \in Digits, a3 \in Digits, v2 \in Digits, v3 \in Digits :
           /\ Digit(a, 1) = a0 /\ Digit(a, 16) = a1 /\ Digit(v, 1) = v0 /\ Digit(v, 16) = v1
           /\ Digit(a, 256) = a2 /\ Digit(a, 4096) = a3 /\ Digit(v, 256) = v2 /\ Digit(v, 4096) = v3
    <3>1. /\ Digit(a, 1) \in Digits /\ Digit(a, 16) \in Digits
          /\ Digit(v, 1) \in Digits /\ Digit(v, 16) \in Digits
          /\ Digit(a, 256) \in Digits /\ Digit(a, 4096) \in Digits
          /\ Digit(v, 256) \in Digits /\ Digit(v, 4096) \in Digits
      BY <1>2, <2>1, BCDDigits
    <3> QED
      BY <3>1
  <2>20. a = a0 + 16 * a1 + 256 * a2 + 4096 * a3 /\ v = v0 + 16 * v1 + 256 * v2 + 4096 * v3
    <3>1. /\ a = Digit(a, 1) + 16 * Digit(a, 16) + 256 * Digit(a, 256) + 4096 * Digit(a, 4096)
          /\ v = Digit(v, 1) + 16 * Digit(v, 16) + 256 * Digit(v, 256) + 4096 * Digit(v, 4096)
      BY <2>1, OwnDigits
    <3> QED
      BY <2>2, <3>1
  <2>3. PICK s \in Int, k \in {0, 1}, z \in Int :
          /\ DecimalSub(a, v, c, e) = s
          /\ 0 <= s /\ s < 65536 /\ IsBCD(s, e)
          /\ Decimal(s, e) = z /\ 0 <= z /\ z < 10000
          /\ x = z - 10000 * k
          /\ k = 0 <=> a - v - c >= 0
    BY <1>2, <2>2, <2>20, SubSixteen
  <2> HIDE DEF x
  <2>4. z = x % 10000 /\ (a - v - c >= 0 <=> x >= 0)
    BY <2>3, SMT
  <2>5. Hundreds(e) = 10000
    BY <1>2, Sixteen
  <2>6. WITNESS s \in Int
  <2> QED
    BY <2>1, <2>3, <2>4, <2>5 DEF x
<1> QED
  BY <1>1, <1>2

\* The effective address does not depend on the program counter.
LEMMA NearOperand ==
    ASSUME NEW s, NEW t, Near(s, t), NEW i, NEW e
    PROVE  ReadOperand(t, i, e) = ReadOperand(s, i, e)
<1>1. /\ s.C = t.C /\ s.X = t.X /\ s.Y = t.Y /\ s.D = t.D /\ s.DBR = t.DBR /\ s.E = t.E
      /\ s.M8 = t.M8 /\ s.X8 = t.X8 /\ s.S = t.S /\ s.mem = t.mem
  BY DEF Near, Alike
<1>2. \A b : Rd(t, b) = Rd(s, b)
  BY <1>1 DEF Rd
<1>3. GetX(t) = GetX(s) /\ GetY(t) = GetY(s)
  BY <1>1 DEF GetX, GetY
<1>4. \A b : Bank0Word(t, b) = Bank0Word(s, b)
  BY <1>2 DEF Bank0Word
<1>5. \A n : DirectIndexed(t, i, n) = DirectIndexed(s, i, n)
  BY <1>1 DEF DirectIndexed, PageWraps
<1>6. \A p : DPPointer(t, p) = DPPointer(s, p)
  BY <1>1, <1>2 DEF DPPointer, PageWraps
<1>7. \A b, n : Indexed(t, b, n) = Indexed(s, b, n)
  BY <1>1 DEF Indexed
<1>8. Direct(t, i) = Direct(s, i)
  BY <1>1 DEF Direct
<1>9. EA(t, i) = EA(s, i)
  BY <1>1, <1>2, <1>3, <1>4, <1>5, <1>6, <1>7, <1>8 DEF EA
<1> QED
  BY <1>2, <1>9 DEF ReadOperand

\* An arithmetic result: the accumulator holds it and the carry is the one given.
LEMMA AccResult ==
    ASSUME NEW s, Good(s), NEW n \in Int, 0 <= n, n < Wide(s.M8), NEW on, NEW ov
    PROVE  LET t == SetZNM([SetAcc(s, n) EXCEPT !.P = SetFlag(SetFlag(@, "C", on), "V", ov)], n)
           IN  GetAcc(t) = n /\ ("C" \in t.P <=> on)
<1> DEFINE c == IF s.M8 THEN Word(Lo(n), Hi(s.C)) ELSE n % Bank
           P == SetFlag(SetFlag(s.P, "C", on), "V", ov)
           t == SetZNM([SetAcc(s, n) EXCEPT !.P = SetFlag(SetFlag(@, "C", on), "V", ov)], n)
<1>1. SetAcc(s, n) = [s EXCEPT !.C = c]
  BY DEF SetAcc
<1>2. IF s.M8 THEN Lo(c) = n ELSE c = n
  <2>1. CASE s.M8
    <3>1. Lo(n) = n /\ n < 256
      BY <2>1, SMT DEF Wide, Lo
    <3>2. Lo(n) \in Byte /\ Hi(s.C) \in Byte
      BY Low, High, WordIsInt DEF Good, Typed
    <3> QED
      BY <2>1, <3>1, <3>2, Joined
  <2>2. CASE ~s.M8
    BY <2>2, BankSize, SMT DEF Wide
  <2> QED
    BY <2>1, <2>2
<1> HIDE DEF c
<1>3. /\ t.C = c /\ t.M8 = s.M8 /\ t.P = SetZN(P, n, s.M8)
  BY <1>1 DEF SetZNM, Good, Typed, Fields, Names
<1>4. "C" \in SetZN(P, n, s.M8) <=> on
  BY DEF SetZN, SetFlag
<1> HIDE DEF t
<1>5. GetAcc(t) = n
  BY <1>2, <1>3 DEF GetAcc
<1> QED
  BY <1>3, <1>4, <1>5 DEF t

\* getAcc fits the accumulator's width.
LEMMA AccRange ==
    ASSUME NEW s, Good(s)
    PROVE  GetAcc(s) \in Int /\ 0 <= GetAcc(s) /\ GetAcc(s) < Wide(s.M8)
<1> DEFINE a == GetAcc(s)
<1>1. a \in Words /\ (s.M8 => a \in Byte)
  BY Registers8
<1> HIDE DEF a
<1>2. a \in Int /\ 0 <= a /\ a < Bank /\ (s.M8 => a < 256)
  BY <1>1, WordRange, ByteRange
<1>3. a < Wide(s.M8)
  BY <1>2, BankSize, SMT DEF Wide
<1> QED
  BY <1>2, <1>3 DEF a

\* So does the operand of ADC and SBC.
LEMMA OperandRange ==
    ASSUME NEW s, Good(s), NEW i, Legal(i), i.op \in {"ADC", "SBC"}
    PROVE  LET v == ReadOperand(s, i, s.M8) IN v \in Int /\ 0 <= v /\ v < Wide(s.M8)
<1> DEFINE v == ReadOperand(s, i, s.M8)
<1>0. v \in Words /\ (s.M8 => v \in Byte)
  BY ReadModes, ReadType DEF Legal, AccReads, IndexReads
<1> HIDE DEF v
<1>2. v \in Int /\ 0 <= v /\ v < Bank /\ (s.M8 => v < 256)
  BY <1>0, WordRange, ByteRange
<1>3. v < Wide(s.M8)
  BY <1>2, BankSize, SMT DEF Wide
<1> QED
  BY <1>2, <1>3 DEF v

\* Decimal ADC of BCD operands (opADC).
LEMMA ADCDecimal ==
    ASSUME NEW s, Good(s), "D" \in s.P, NEW v \in Int, 0 <= v, v < Wide(s.M8),
           IsBCD(GetAcc(s), s.M8), IsBCD(v, s.M8)
    PROVE  LET t == ADC(s, v)
               x == Decimal(GetAcc(s), s.M8) + Decimal(v, s.M8) + Carry(s.P)
           IN  /\ IsBCD(GetAcc(t), s.M8)
               /\ Decimal(GetAcc(t), s.M8) = x % Hundreds(s.M8)
               /\ "C" \in t.P <=> x >= Hundreds(s.M8)
<1> DEFINE t == ADC(s, v)
           a == GetAcc(s)
           e == s.M8
           c == Carry(s.P)
           x == Decimal(a, e) + Decimal(v, e) + c
           d == DecimalAdd(a, v, c, e)
<1>1. a \in Int /\ 0 <= a /\ a < Wide(e)
  BY AccRange
<1>2. c \in {0, 1}
  BY DEF Carry
<1> HIDE DEF a, c
<1>3. PICK n \in Int, k \in {0, 1} :
         /\ DecimalAdd(a, v, c, e).sum = n /\ DecimalAdd(a, v, c, e).carry = k
         /\ 0 <= n /\ n < Wide(e) /\ IsBCD(n, e)
         /\ Decimal(n, e) = (Decimal(a, e) + Decimal(v, e) + c) % Hundreds(e)
         /\ k = 1 <=> Decimal(a, e) + Decimal(v, e) + c >= Hundreds(e)
  <2>1. IsBCD(a, e)
    BY DEF a
  <2> HIDE DEF e
  <2> QED
    BY <1>1, <1>2, <2>1, AddsDecimals DEF e
<1> DEFINE on == k = 1
           ov == Overflow(a, v, d.raw, e)
           u == SetZNM([SetAcc(s, n) EXCEPT !.P = SetFlag(SetFlag(@, "C", on), "V", ov)], n)
<1>4. t = u
  BY <1>3 DEF ADC, AddDecimal, a, c
<1>5. GetAcc(u) = n /\ ("C" \in u.P <=> on)
  <2> HIDE DEF on, ov, d
  <2>1. n < Wide(s.M8) /\ 0 <= n
    BY <1>3
  <2> QED
    BY <2>1, AccResult
<1> HIDE DEF u, t, ov, d
<1>6. /\ IsBCD(GetAcc(t), e) /\ Decimal(GetAcc(t), e) = x % Hundreds(e)
  BY <1>3, <1>4, <1>5
<1>7. "C" \in t.P <=> x >= Hundreds(e)
  BY <1>3, <1>4, <1>5
<1> QED
  BY <1>6, <1>7 DEF t, a, c

\* Decimal SBC of BCD operands (opSBC), whose carry comes from the binary
\* difference.
LEMMA SBCDecimal ==
    ASSUME NEW s, Good(s), "D" \in s.P, NEW v \in Int, 0 <= v, v < Wide(s.M8),
           IsBCD(GetAcc(s), s.M8), IsBCD(v, s.M8)
    PROVE  LET t == SBC(s, v)
               x == Decimal(GetAcc(s), s.M8) - Decimal(v, s.M8) - (1 - Carry(s.P))
           IN  /\ IsBCD(GetAcc(t), s.M8)
               /\ Decimal(GetAcc(t), s.M8) = x % Hundreds(s.M8)
               /\ "C" \in t.P <=> x >= 0
<1> DEFINE t == SBC(s, v)
           a == GetAcc(s)
           e == s.M8
           c == Carry(s.P)
           b == 1 - c
           x == Decimal(a, e) - Decimal(v, e) - b
           comp == Wide(e) - 1 - v
           bin == a + comp + c
<1>1. a \in Int /\ 0 <= a /\ a < Wide(e)
  BY AccRange
<1>2. c \in {0, 1} /\ b \in {0, 1}
  BY DEF Carry
<1>20. Wide(e) \in Int
  BY SMT DEF Wide
<1> HIDE DEF a, c
<1>21. bin >= Wide(e) <=> a - v - b >= 0
  <2> HIDE DEF e
  <2>1. PICK w \in Int : w = Wide(e)
    BY <1>20
  <2>2. a + (w - 1 - v) + c >= w <=> a - v - (1 - c) >= 0
    BY <1>1, <1>2
  <2> QED
    BY <2>1, <2>2
<1> HIDE DEF b
<1>3. PICK n \in Int :
         /\ DecimalSub(a, v, b, e) = n
         /\ 0 <= n /\ n < Wide(e) /\ IsBCD(n, e)
         /\ Decimal(n, e) = (Decimal(a, e) - Decimal(v, e) - b) % Hundreds(e)
         /\ a - v - b >= 0 <=> Decimal(a, e) - Decimal(v, e) - b >= 0
  <2>1. IsBCD(a, e)
    BY DEF a
  <2> HIDE DEF e
  <2> QED
    BY <1>1, <1>2, <2>1, SubtractsDecimals DEF e
<1> DEFINE on == bin >= Wide(e)
           ov == Overflow(a, comp, bin, e)
           u == SetZNM([SetAcc(s, n) EXCEPT !.P = SetFlag(SetFlag(@, "C", on), "V", ov)], n)
<1>4. t = u
  BY <1>3 DEF SBC, a, b, c
<1>5. GetAcc(u) = n /\ ("C" \in u.P <=> on)
  <2> HIDE DEF on, ov, bin
  <2>1. n < Wide(s.M8) /\ 0 <= n
    BY <1>3
  <2> QED
    BY <2>1, AccResult
<1> HIDE DEF u, t, ov
<1>6. /\ IsBCD(GetAcc(t), e) /\ Decimal(GetAcc(t), e) = x % Hundreds(e)
  BY <1>3, <1>4, <1>5
<1>7. "C" \in t.P <=> x >= 0
  <2> HIDE DEF bin
  <2> QED
    BY <1>3, <1>4, <1>5, <1>21
<1> QED
  BY <1>6, <1>7 DEF t, a, b, c

\* Decimal results, from any good register file.
LEMMA ArithmeticDecimal ==
    ASSUME NEW r, Good(r), NEW i, Legal(i), DecimalOp(r, i)
    PROVE  LET k == r.M8
               a == GetAcc(r)
               v == ReadOperand(r, i, r.M8)
               x == IF i.op = "ADC" THEN Decimal(a, k) + Decimal(v, k) + Carry(r.P)
                    ELSE Decimal(a, k) - Decimal(v, k) - (1 - Carry(r.P))
               q == Exec(r, i)
           IN  IsBCD(a, k) /\ IsBCD(v, k) =>
                 /\ IsBCD(GetAcc(q), k)
                 /\ Decimal(GetAcc(q), k) = x % Hundreds(k)
                 /\ ("C" \in q.P) = (IF i.op = "ADC" THEN x >= Hundreds(k) ELSE x >= 0)
<1> DEFINE s == Fetched(r, i)
           q == Exec(r, i)
           t == Dispatch(s, i)
           v == ReadOperand(r, i, r.M8)
           vs == ReadOperand(s, i, s.M8)
<1>1. Good(s) /\ Near(r, s) /\ Near(t, q)
  BY ExecIs
<1> HIDE DEF s, q
<1>2. i.op \in {"ADC", "SBC"} /\ "D" \in r.P
  BY DEF DecimalOp
<1>3. /\ s.M8 = r.M8 /\ s.P = r.P /\ GetAcc(s) = GetAcc(r) /\ vs = v
  <2>1. s.M8 = r.M8 /\ s.P = r.P /\ s.C = r.C
    BY <1>1 DEF Near, Alike
  <2>2. ReadOperand(s, i, r.M8) = v
    BY <1>1, NearOperand
  <2> QED
    BY <2>1, <2>2 DEF GetAcc
<1>4. vs \in Int /\ 0 <= vs /\ vs < Wide(s.M8)
  BY <1>1, <1>2, OperandRange
<1> HIDE DEF vs, v
<1>5. t = IF i.op = "ADC" THEN ADC(s, vs) ELSE SBC(s, vs)
  <2>1. CASE i.op = "ADC"
    <3>1. t = Arithmetic(s, i)
      BY <2>1 DEF Dispatch, Modifies, Branches, FlagOps
    <3> QED
      BY <2>1, <3>1 DEF Arithmetic, vs
  <2>2. CASE i.op = "SBC"
    <3>1. t = Arithmetic(s, i)
      BY <2>2 DEF Dispatch, Modifies, Branches, FlagOps
    <3> QED
      BY <2>2, <3>1 DEF Arithmetic, vs
  <2> QED
    BY <1>2, <2>1, <2>2
<1> HIDE DEF t
<1>6. GetAcc(q) = GetAcc(t) /\ q.P = t.P
  BY <1>1 DEF Near, Alike, GetAcc
<1> SUFFICES ASSUME IsBCD(GetAcc(r), r.M8), IsBCD(v, r.M8)
             PROVE  LET x == IF i.op = "ADC" THEN Decimal(GetAcc(r), r.M8) + Decimal(v, r.M8) + Carry(r.P)
                             ELSE Decimal(GetAcc(r), r.M8) - Decimal(v, r.M8) - (1 - Carry(r.P))
                    IN  /\ IsBCD(GetAcc(q), r.M8)
                        /\ Decimal(GetAcc(q), r.M8) = x % Hundreds(r.M8)
                        /\ ("C" \in q.P) = (IF i.op = "ADC" THEN x >= Hundreds(r.M8) ELSE x >= 0)
  BY DEF v, q
<1>7. IsBCD(GetAcc(s), s.M8) /\ IsBCD(vs, s.M8) /\ "D" \in s.P
  BY <1>2, <1>3
<1>8. CASE i.op = "ADC"
  <2> DEFINE x == Decimal(GetAcc(s), s.M8) + Decimal(vs, s.M8) + Carry(s.P)
  <2>1. t = ADC(s, vs)
    BY <1>5, <1>8
  <2>2. /\ IsBCD(GetAcc(t), s.M8) /\ Decimal(GetAcc(t), s.M8) = x % Hundreds(s.M8)
        /\ "C" \in t.P <=> x >= Hundreds(s.M8)
    BY <1>1, <1>4, <1>7, <2>1, ADCDecimal
  <2>3. x = Decimal(GetAcc(r), r.M8) + Decimal(v, r.M8) + Carry(r.P)
    BY <1>3
  <2> HIDE DEF x
  <2>4. /\ IsBCD(GetAcc(q), r.M8) /\ Decimal(GetAcc(q), r.M8) = x % Hundreds(r.M8)
        /\ "C" \in q.P <=> x >= Hundreds(r.M8)
    BY <1>3, <1>6, <2>2
  <2>5. ("C" \in q.P) = (x >= Hundreds(r.M8))
    BY <2>4
  <2> QED
    BY <1>8, <2>3, <2>4, <2>5
<1>9. CASE i.op = "SBC"
  <2> DEFINE x == Decimal(GetAcc(s), s.M8) - Decimal(vs, s.M8) - (1 - Carry(s.P))
  <2>1. t = SBC(s, vs)
    BY <1>5, <1>9
  <2>2. /\ IsBCD(GetAcc(t), s.M8) /\ Decimal(GetAcc(t), s.M8) = x % Hundreds(s.M8)
        /\ "C" \in t.P <=> x >= 0
    BY <1>1, <1>4, <1>7, <2>1, SBCDecimal
  <2>3. x = Decimal(GetAcc(r), r.M8) - Decimal(v, r.M8) - (1 - Carry(r.P))
    BY <1>3
  <2> HIDE DEF x
  <2>4. /\ IsBCD(GetAcc(q), r.M8) /\ Decimal(GetAcc(q), r.M8) = x % Hundreds(r.M8)
        /\ "C" \in q.P <=> x >= 0
    BY <1>3, <1>6, <2>2
  <2>5. ("C" \in q.P) = (x >= 0)
    BY <2>4
  <2> QED
    BY <1>9, <2>3, <2>4, <2>5
<1> QED
  BY <1>2, <1>8, <1>9

\* Decimal ADC and SBC of valid operands add and subtract decimal numbers at
\* both widths, with the right carry, after every instruction sequence and in
\* every addressing mode.
THEOREM DecimalsRight == Spec => DecimalArithmetic
<1>1. Init => IInv
  BY InitGood DEF IInv
<1>2. IInv /\ [Next]_vars => IInv'
  BY StepGood
<1> DEFINE A ==
      DecimalOp(cpu, ir') =>
         LET k == cpu.M8
             a == GetAcc(cpu)
             v == ReadOperand(cpu, ir', cpu.M8)
             r == IF ir'.op = "ADC" THEN Decimal(a, k) + Decimal(v, k) + Carry(cpu.P)
                  ELSE Decimal(a, k) - Decimal(v, k) - (1 - Carry(cpu.P))
         IN  IsBCD(a, k) /\ IsBCD(v, k) =>
               /\ IsBCD(GetAcc(cpu'), k)
               /\ Decimal(GetAcc(cpu'), k) = r % Hundreds(k)
               /\ ("C" \in cpu'.P) = (IF ir'.op = "ADC" THEN r >= Hundreds(k) ELSE r >= 0)
<1>3. IInv /\ [Next]_vars => [A]_vars
  <2> SUFFICES ASSUME IInv, Next, DecimalOp(cpu, ir') PROVE A
    OBVIOUS
  <2>1. PICK i \in Stream : Execute(i)
    BY DEF Next
  <2>2. cpu' = Exec(cpu, i) /\ ir' = i
    BY <2>1 DEF Execute
  <2>3. Good(cpu) /\ Legal(i) /\ DecimalOp(cpu, i)
    BY <2>2, StreamLegal DEF IInv
  <2> QED
    BY <2>2, <2>3, ArithmeticDecimal
<1>4. DecimalArithmetic <=> [][A]_vars
  BY DEF DecimalArithmetic
<1> QED
  BY <1>1, <1>2, <1>3, <1>4, PTL DEF Spec
================================================================================
