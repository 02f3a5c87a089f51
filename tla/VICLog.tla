------------------------------- MODULE VICLog -------------------------------
(***************************************************************************)
(* The timestamped VIC register log that carries the guest's raster       *)
(* effects from core 0 to the HDMI renderer on core 1.                     *)
(*   producer  Source/C64/c64_memory.{h,cpp}: write8, appendVICLog,        *)
(*             noteRasterPrecise/Coarse, enableVICLog, reset               *)
(*   consumer  Source/App/hdmi_display.cpp renderFrame and                 *)
(*             Source/Video/vic_raster.cpp CVICRasterTimeline and          *)
(*             CVICRasterReplay                                            *)
(* There is no lock: the ring is published by its head, the reset of all  *)
(* shared state by a generation number stored last.  Data are cut to what *)
(* decides the control: the screen matrix ($D018), the VIC bank ($DD00)    *)
(* and one sprite pointer byte per (bank, matrix).  Time is the emulated  *)
(* C64 clock, and the compare line a handler runs on is the beam's line.  *)
(***************************************************************************)
EXTENDS Integers, Sequences, FiniteSets, SequencesExt

CONSTANTS
  LogSize,        \* SCPU_VIC_LOG_SIZE
  BackTags,       \* how many earlier events noteRasterPrecise may tag (8)
  TagCycles,      \* how long a precise line tags new events (48)
  CoarseCycles,   \* how long a precise anchor outranks a coarse one (25000)
  CyclesPerLine, RasterLines, TopRaster, FrameRows,   \* VICRasterTiming
  Attempts,       \* latch attempts of renderFrame (4)
  Matrices, Banks, PtrValues,                         \* small data
  ResetBank,      \* the bank a cleared latch selects while its flags are set
  MaxWrites, MaxClock, MaxGeneration,                   \* bounds of an instance
  None            \* no line, no anchor, no pending event

ASSUME VICLogAssumption ==
  /\ LogSize \in Nat \ {0} /\ CyclesPerLine \in Nat \ {0}
  /\ RasterLines \in Nat \ {0} /\ TopRaster \in 0..RasterLines
  /\ FrameRows \in 1..RasterLines /\ Attempts \in Nat \ {0}
  /\ 0 \in Matrices /\ 0 \in Banks /\ ResetBank \in Banks
  /\ BackTags \in Nat /\ None \notin Banks
  /\ None \notin [reg : {"d018", "bank", "ptr", "compare"},
                  value : Matrices \cup Banks \cup PtrValues \cup {0}]

VARIABLES
  clock,      \* c64Now(): emulated C64 cycles
  shadow,     \* m_VICRegShadow[$18]: the matrix
  lastD018,   \* m_LastD018, the copy updateSpritePtrBase uses
  latch,      \* the bank in m_CIA2PortALatch, None while its flag is clear
  ptrBase,    \* m_SpritePtrBase as <<bank, matrix>>
  ram,        \* m_RAM: the pointer byte of every <<bank, matrix>>
  ring,       \* m_VICLog
  head,       \* m_VICLogHead
  gen,        \* m_VICLogGeneration
  enabled,    \* m_VICLogEnabled
  anchor,     \* m_RasterAnchor
  pending,    \* event of a write whose shadow is stored, not yet appended
  rstep,      \* progress of reset(): "idle", "shadow", "head", "ram"
  cstep,      \* progress of renderFrame on core 1
  attempt,    \* latch attempt
  live,       \* the latched endpoint: head, generation, registers
  replay,     \* CVICRasterReplay's persistent state
  frame,      \* VICRasterFrame while it is being applied
  writes,     \* writes, samples, resets and switches so far, for MaxWrites
  epochs,     \* history: the resets that the shared registers and memory
              \* (regs, ram), core 1's latch, the replay, the frame to be drawn
              \* and its pages have seen; and whether the replay was last
              \* primed from a latch that a new generation crossed
  damage      \* history: since the last re-prime, "torn", the endpoint never
              \* settled, and "overrun", the ring was overwritten under the
              \* consumer; ever, "astray", a pointer was written while the
              \* tracked row was not the one the VIC reads

prodVars == <<clock, shadow, lastD018, latch, ptrBase, ram, ring, head, gen,
              enabled, anchor, pending, rstep>>
histVars == <<writes, epochs, damage>>
consVars == <<cstep, attempt, live, replay, frame>>
vars == <<prodVars, consVars, histVars>>

Bases == Banks \X Matrices
FrameCycles == CyclesPerLine * RasterLines

\* activeVICBankBase(): a latch not yet written selects bank 0.
activeVICBank(l) == IF l = None THEN 0 ELSE l

-----------------------------------------------------------------------------
(* Timeline: where in the picture an event belongs.                         *)

\* Floor division: \div rounds towards minus infinity, as the code's
\* correction of C++'s truncation does.
lineOfCycle(cycle, a) ==
  IF a = None THEN None
  ELSE (a.line + ((cycle - a.cycle) \div CyclesPerLine)) % RasterLines

lineOfEvent(e, a) ==
  IF e.line # None THEN e.line % RasterLines ELSE lineOfCycle(e.cycle, a)

\* A pointer is fetched one line before it is shown; a line above the
\* picture comes out below it, because the row is taken modulo the frame.
rowOfEvent(e, a) ==
  LET line == lineOfEvent(e, a) + (IF e.reg = "ptr" THEN 1 ELSE 0)
      row  == IF line < TopRaster THEN line - TopRaster + RasterLines
              ELSE line - TopRaster
  IN IF row > FrameRows THEN FrameRows ELSE row

rasterEvent(i) == ring[i % LogSize]

\* Events that open a new frame: the beam went up, or a frame's time passed.
FrameStarts(from, to) ==
  {i \in from + 1 .. to - 1 :
     LET e == rasterEvent(i)  p == rasterEvent(i - 1)
     IN \/ lineOfEvent(e, anchor) < lineOfEvent(p, anchor)
        \/ e.cycle < p.cycle
        \/ e.cycle - p.cycle >= FrameCycles - CyclesPerLine}

\* Events of the drawn frame that end a band: further down than all before.
Splits(from, to) ==
  {i \in from .. to - 1 :
     \A j \in {-1} \cup (from .. i - 1) :
        rowOfEvent(rasterEvent(i), anchor) >
          IF j = -1 THEN 0 ELSE rowOfEvent(rasterEvent(j), anchor)}

Band(first, next, begin, end) ==
  [firstRow |-> first, rowCount |-> next - first,
   applyBegin |-> begin, applyEnd |-> end]

\* The split above another one, or the top of the picture.
Above(splits, i) == Max({-1} \cup {j \in splits : j < i})
SplitRow(i) == IF i = -1 THEN 0 ELSE rowOfEvent(rasterEvent(i), anchor)
SplitAt(tail, i) == IF i = -1 THEN tail ELSE i

\* Mutant: a band already applies the event that ends it.
BandsApplyEarly(tail, from, to) ==
  LET splits == Splits(from, to)
      last == Above(splits, to)
      At(i) == IF i = -1 THEN tail ELSE i + 1
  IN {LET p == Above(splits, i) IN Band(SplitRow(p), SplitRow(i), At(p), At(i)) :
        i \in splits}
     \cup (IF SplitRow(last) < FrameRows
           THEN {Band(SplitRow(last), FrameRows, At(last), to)} ELSE {})

\* One band ends at every split, and the last one at the foot of the picture.
Bands(tail, from, to) ==
  LET splits == Splits(from, to)
      last == Above(splits, to)
  IN {LET p == Above(splits, i)
      IN Band(SplitRow(p), SplitRow(i), SplitAt(tail, p), i) : i \in splits}
     \cup (IF SplitRow(last) < FrameRows
           THEN {Band(SplitRow(last), FrameRows, SplitAt(tail, last), to)} ELSE {})

\* CVICRasterTimeline::build for a primed timeline that lost nothing.
Timeline(tail, to) ==
  LET starts == FrameStarts(tail, to)
      frameStart == Max(starts \cup {tail})
      previousStart == Max({tail} \cup (starts \ {frameStart}))
      newest == rasterEvent(to - 1).cycle
      stale == clock < newest \/ clock - newest > (FrameCycles * 3) \div 2
      Replayed(from, end) ==
        [result |-> "replay", drawStart |-> from, tailAfter |-> end,
         bands |-> Bands(tail, from, end)]
      Kept(r) == [result |-> r, drawStart |-> tail, tailAfter |-> tail,
                  bands |-> {}]
  IN IF to = tail
     THEN [Kept("replay") EXCEPT
             !.bands = {Band(0, FrameRows, tail, tail)}]
     ELSE IF \E i \in tail .. to - 1 :
               lineOfEvent(rasterEvent(i), anchor) = None
     THEN Kept("snapshot")
     ELSE IF stale THEN Replayed(frameStart, to)
     ELSE IF frameStart # tail THEN Replayed(previousStart, frameStart)
     ELSE Kept("hold")

-----------------------------------------------------------------------------
(* Replay: the registers as the beam saw them.                              *)

Unprimed == [primed |-> FALSE, gen |-> 0, tail |-> 0, m |-> 0, bank |-> 0,
             ptr |-> 0, valid |-> FALSE]

NoLatch == [before |-> 0, gen |-> 0, head |-> 0, m |-> 0, bank |-> 0,
            settled |-> FALSE]

\* Moving the matrix or the bank moves the pointer bytes, so what was
\* tracked no longer describes them.
applyEvent(r, e) ==
  CASE e.reg = "d018" ->
         [r EXCEPT !.m = e.value, !.valid = r.valid /\ r.m = e.value]
    [] e.reg = "bank" ->
         [r EXCEPT !.bank = e.value, !.valid = r.valid /\ r.bank = e.value]
    [] e.reg = "ptr" -> [r EXCEPT !.ptr = e.value]
    [] OTHER -> r

ApplyRange(r, from, to) ==
  LET applied[n \in 0 .. to - from] ==
        IF n = 0 THEN r ELSE applyEvent(applied[n - 1], rasterEvent(from + n - 1))
  IN applied[to - from]

\* The end of CVICRasterReplay::build: doubt is replaced by live memory.
Reseed(r) ==
  IF r.valid THEN r
  ELSE [r EXCEPT !.ptr = ram[<<r.bank, r.m>>], !.valid = TRUE]

rePrime(h, g) ==
  [primed |-> TRUE, gen |-> g, tail |-> h, m |-> live.m,
   bank |-> live.bank, ptr |-> ram[<<live.bank, live.m>>], valid |-> TRUE]

-----------------------------------------------------------------------------
(* Producer: core 0.                                                        *)

Init ==
  /\ clock = 0 /\ shadow = 0 /\ lastD018 = 0 /\ latch = 0
  /\ ptrBase = <<0, 0>> /\ ram = [b \in Bases |-> 0]
  /\ ring = [i \in 0 .. LogSize - 1 |->
               [reg |-> "d018", value |-> 0, cycle |-> 0, line |-> None]]
  /\ head = 0 /\ gen = 1 /\ enabled = TRUE
  /\ anchor = None /\ pending = None /\ rstep = "idle"
  /\ cstep = "idle" /\ attempt = 1 /\ replay = Unprimed
  /\ live = NoLatch
  /\ frame = None
  /\ epochs = [regs |-> 0, ram |-> 0, latched |-> 0, replay |-> 0,
               drawn |-> 0, pages |-> 0, crossed |-> FALSE]
  /\ damage = {} /\ writes = 0

ProducerFree == pending = None /\ rstep = "idle"

\* The beam line at the current emulated cycle.
BeamLine == (clock \div CyclesPerLine) % RasterLines

Tick ==
  /\ ProducerFree /\ clock < MaxClock
  /\ clock' = clock + 1
  /\ UNCHANGED <<shadow, lastD018, latch, ptrBase, ram, ring, head, gen,
                 enabled, anchor, pending, rstep, consVars, histVars>>

Budget == writes < MaxWrites /\ writes' = writes + 1

\* The shadow is stored first; the event follows in Append.
Posts(reg, value) ==
  IF enabled THEN pending' = [reg |-> reg, value |-> value]
             ELSE pending' = None

\* $D018: the matrix; updateSpritePtrBase follows it.
WriteD018(m) ==
  /\ ProducerFree /\ Budget
  /\ shadow' = m /\ lastD018' = m
  /\ ptrBase' = <<activeVICBank(latch), m>>
  /\ Posts("d018", m)
  /\ UNCHANGED <<clock, latch, ram, ring, head, gen, enabled, anchor, rstep,
                 consVars, epochs, damage>>

\* $DD00: the bank.  logVICBank logs it whether or not it changed.
WriteDD00(b) ==
  /\ ProducerFree /\ Budget
  /\ latch' = b
  /\ ptrBase' = <<b, lastD018>>
  /\ Posts("bank", b)
  /\ UNCHANGED <<clock, shadow, lastD018, ram, ring, head, gen, enabled,
                 anchor, rstep, consVars, epochs, damage>>

\* The row of pointer bytes the VIC reads.
ActiveRow == <<activeVICBank(latch), shadow>>

\* A RAM store to a sprite pointer byte: noteSpritePointerWrite logs changes
\* to the row the VIC reads, no others.
WritePointer(at, v) ==
  /\ ProducerFree /\ Budget
  /\ ram' = [ram EXCEPT ![at] = v]
  /\ IF at = ptrBase /\ ram[at] # v THEN Posts("ptr", v)
                                    ELSE pending' = None
  /\ damage' = IF ptrBase # ActiveRow /\ at \in {ptrBase, ActiveRow}
               THEN damage \cup {"astray"} ELSE damage
  /\ UNCHANGED <<clock, shadow, lastD018, latch, ptrBase, ring, head, gen,
                 enabled, anchor, rstep, consVars, epochs>>

\* The events noteRasterPrecise tags: the newest ones, of this raster line.
BackTagged ==
  {i \in (IF head > BackTags THEN head - BackTags ELSE 0) .. head - 1 :
     /\ i > head - 1 - LogSize
     /\ \A j \in i .. head - 1 :
          /\ rasterEvent(j).cycle <= clock
          /\ clock - rasterEvent(j).cycle < CyclesPerLine}

\* A raster handler acknowledges its interrupt or aims the next compare: the
\* beam is on the compare line.  (Whether this is the handler's first compare
\* write, the 256 cycle debounce, is left open.)
noteRasterPrecise ==
  LET tagged == BackTagged
      start == IF tagged = {} THEN clock
               ELSE rasterEvent(Min(tagged)).cycle
  IN /\ ring' = [s \in DOMAIN ring |->
                   IF /\ \E i \in tagged : i % LogSize = s
                      /\ ring[s].line = None
                   THEN [ring[s] EXCEPT !.line = BeamLine] ELSE ring[s]]
     /\ anchor' = [cycle |-> start, line |-> BeamLine, precise |-> TRUE,
                   at |-> clock]

WriteCompare ==
  /\ ProducerFree /\ enabled /\ Budget
  /\ noteRasterPrecise
  /\ pending' = [reg |-> "compare", value |-> 0]
  /\ UNCHANGED <<clock, shadow, lastD018, latch, ptrBase, ram, head, gen,
                 enabled, rstep, consVars, epochs, damage>>

\* One sample at the end of a frame, for programs without raster interrupts: a precise
\* anchor outranks it for about a frame.
noteRasterCoarse ==
  /\ ProducerFree /\ enabled /\ Budget /\ clock > 0 /\ clock % FrameCycles = 0
  /\ anchor # None => (anchor.precise => clock - anchor.at >= CoarseCycles)
  /\ anchor' = [cycle |-> clock, line |-> BeamLine, precise |-> FALSE,
                at |-> 0]
  /\ UNCHANGED <<clock, shadow, lastD018, latch, ptrBase, ram, ring, head,
                 gen, enabled, pending, rstep, consVars, epochs, damage>>

\* An event close behind a precise anchor is tagged with its line; the head
\* is stored last and publishes the event.
appendVICLog ==
  /\ pending # None
  /\ ring' = [ring EXCEPT ![head % LogSize] =
                [reg |-> pending.reg, value |-> pending.value,
                 cycle |-> clock,
                 line |-> IF /\ anchor # None
                             /\ anchor.precise
                             /\ clock - anchor.at < TagCycles
                          THEN anchor.line ELSE None]]
  /\ head' = head + 1
  /\ pending' = None
  /\ damage' = damage
       \cup (IF /\ cstep \in {"generation", "scan", "apply"}
                /\ head - LogSize \in replay.tail .. live.head - 1
             THEN {"overrun"} ELSE {})
  /\ UNCHANGED <<clock, shadow, lastD018, latch, ptrBase, ram, gen, enabled,
                 anchor, rstep, consVars, writes, epochs>>

\* reset() on core 0, in the order of its stores.  The pointer row is rebuilt
\* from the cleared latch while the latch's flag is still set.
ResetShadow ==
  /\ ProducerFree /\ gen < MaxGeneration /\ Budget
  /\ rstep' = "shadow"
  /\ lastD018' = 1 /\ shadow' = 0 /\ latch' = None
  /\ ptrBase' = <<IF latch = None THEN 0 ELSE ResetBank, 1>>
  /\ clock' = 0 /\ anchor' = None
  /\ epochs' = [epochs EXCEPT !.regs = @ + 1]
  /\ UNCHANGED <<ram, ring, head, gen, enabled, pending, consVars, damage>>

ResetHead ==
  /\ rstep = "shadow" /\ rstep' = "head"
  /\ head' = 0
  /\ UNCHANGED <<clock, shadow, lastD018, latch, ptrBase, ram, ring, gen,
                 enabled, anchor, pending, consVars, histVars>>

ResetRAM ==
  /\ rstep = "head" /\ rstep' = "ram"
  /\ ram' = [b \in Bases |-> 0]
  /\ epochs' = [epochs EXCEPT !.ram = @ + 1]
  /\ UNCHANGED <<clock, shadow, lastD018, latch, ptrBase, ring, head, gen,
                 enabled, anchor, pending, consVars, writes, damage>>

ResetPublish ==
  /\ rstep = "ram" /\ rstep' = "idle"
  /\ gen' = gen + 1
  /\ UNCHANGED <<clock, shadow, lastD018, latch, ptrBase, ram, ring, head,
                 enabled, anchor, pending, consVars, histVars>>

\* enableVICLog: switching capture on empties the ring, then publishes a new
\* generation; switching it off only stops the appends.
DisableVICLog ==
  /\ ProducerFree /\ enabled /\ enabled' = FALSE /\ Budget
  /\ UNCHANGED <<clock, shadow, lastD018, latch, ptrBase, ram, ring, head,
                 gen, anchor, pending, rstep, consVars, epochs, damage>>

EnableVICLog ==
  /\ ProducerFree /\ ~enabled /\ gen < MaxGeneration
  /\ rstep' = "enable"
  /\ head' = 0 /\ anchor' = None
  /\ UNCHANGED <<clock, shadow, lastD018, latch, ptrBase, ram, ring, gen,
                 enabled, pending, consVars, histVars>>

EnablePublish ==
  /\ rstep = "enable" /\ rstep' = "idle"
  /\ gen' = gen + 1 /\ enabled' = TRUE
  /\ UNCHANGED <<clock, shadow, lastD018, latch, ptrBase, ram, ring, head,
                 anchor, pending, consVars, histVars>>

-----------------------------------------------------------------------------
(* Consumer: renderFrame on core 1.                                         *)

LatchBegin ==
  /\ cstep = "idle" /\ cstep' = "copy"
  /\ live' = [live EXCEPT !.before = gen, !.gen = gen, !.head = head]
  /\ UNCHANGED <<prodVars, attempt, replay, frame, histVars>>

LatchCopy ==
  /\ cstep = "copy" /\ cstep' = "head"
  /\ live' = [live EXCEPT !.m = shadow, !.bank = activeVICBank(latch)]
  /\ epochs' = [epochs EXCEPT !.latched = epochs.regs]
  /\ UNCHANGED <<prodVars, attempt, replay, frame, writes, damage>>

LatchHead ==
  /\ cstep = "head" /\ cstep' = "generation"
  /\ live' = [live EXCEPT !.head = head, !.settled = head = live.head]
  /\ UNCHANGED <<prodVars, attempt, replay, frame, histVars>>

\* Mutant: one look at the live state is taken as consistent.
LatchOnce ==
  /\ cstep = "generation"
  /\ live' = [live EXCEPT !.gen = gen, !.settled = TRUE]
  /\ cstep' = "scan" /\ attempt' = 1
  /\ UNCHANGED <<prodVars, replay, frame, histVars>>

\* Equal samples end the loop; the last attempt is used whatever it saw.
LatchGeneration ==
  /\ cstep = "generation"
  /\ live' = [live EXCEPT !.gen = gen,
                          !.settled = live.settled /\ gen = live.gen]
  /\ IF live'.settled \/ attempt = Attempts
     THEN cstep' = "scan" /\ attempt' = 1
     ELSE cstep' = "idle" /\ attempt' = attempt + 1
  /\ UNCHANGED <<prodVars, replay, frame, histVars>>

\* renderFrame returns: its locals are gone.
Return ==
  /\ cstep' = "idle" /\ live' = NoLatch
  /\ epochs' = [epochs EXCEPT !.latched = 0, !.drawn = 0, !.pages = 0]

\* CVICRasterReplay::build up to the timeline.  32-bit head - tail is large
\* when the head was reset below the tail, too.
Lost == live.head < replay.tail \/ live.head - replay.tail > LogSize

Build ==
  /\ cstep = "scan"
  /\ LET t == Timeline(replay.tail, live.head)
         fresh == \/ ~replay.primed \/ live.gen # replay.gen \/ Lost
                  \/ t.result = "snapshot"
     IN \/ /\ fresh
           /\ replay' = rePrime(live.head, live.gen)
           /\ damage' = (damage \cap {"astray"})
                          \cup (IF live.settled THEN {} ELSE {"torn"})
           /\ epochs' = [epochs EXCEPT !.replay = epochs.latched,
                                       !.drawn = epochs.latched,
                                       !.crossed = live.before # live.gen]
           /\ cstep' = "pages"
           /\ UNCHANGED <<frame, live>>
        \/ /\ ~fresh /\ t.result = "hold"
           /\ Return
           /\ UNCHANGED <<replay, frame, damage>>
        \/ /\ ~fresh /\ t.result = "replay"
           /\ frame' = t
           /\ cstep' = "apply"
           /\ UNCHANGED <<replay, damage, live, epochs>>
  /\ UNCHANGED <<prodVars, attempt, writes>>

\* The second pass over the ring: every band's events, then the rest.  When
\* the bands need more pages than a snapshot holds (left open here), one band
\* of the latched registers is drawn instead; the replay has moved on anyway.
Apply ==
  /\ cstep = "apply" /\ cstep' = "pages"
  /\ replay' = Reseed([ApplyRange(replay, replay.tail, frame.tailAfter)
                         EXCEPT !.tail = frame.tailAfter])
  /\ frame' = None
  /\ \E drawn \in {epochs.replay, epochs.latched} :
        epochs' = [epochs EXCEPT !.drawn = drawn]
  /\ UNCHANGED <<prodVars, attempt, live, writes, damage>>

\* The bounded RAM snapshot, in copyShared spans.
CopyPages ==
  /\ cstep = "pages" /\ cstep' = "check"
  /\ epochs' = [epochs EXCEPT !.pages = epochs.ram]
  /\ UNCHANGED <<prodVars, attempt, live, replay, frame, writes, damage>>

\* Mutant: the frame is presented without looking at the generation again.
NoRecheck ==
  /\ cstep = "check"
  /\ Return
  /\ UNCHANGED <<prodVars, attempt, replay, frame, writes, damage>>

\* A generation that moved throws the frame away; otherwise its bands are
\* drawn from private copies.
CheckGeneration ==
  /\ cstep = "check"
  /\ replay' = [replay EXCEPT !.primed = gen = live.gen]
  /\ Return
  /\ UNCHANGED <<prodVars, attempt, frame, writes, damage>>

Producer ==
  \/ Tick \/ appendVICLog \/ WriteCompare \/ noteRasterCoarse
  \/ \E m \in Matrices : WriteD018(m)
  \/ \E b \in Banks : WriteDD00(b)
  \/ \E at \in Bases, v \in PtrValues : WritePointer(at, v)
  \/ ResetShadow \/ ResetHead \/ ResetRAM \/ ResetPublish
  \/ DisableVICLog \/ EnableVICLog \/ EnablePublish

Consumer ==
  \/ LatchBegin \/ LatchCopy \/ LatchHead \/ LatchGeneration
  \/ Build \/ Apply \/ CopyPages \/ CheckGeneration

Next == Producer \/ Consumer
Spec == Init /\ [][Next]_vars

-----------------------------------------------------------------------------
(* Properties                                                               *)

\* What core 1 replays is the truth: once the consumer has taken every event
\* the producer logged, its matrix, bank and sprite pointer are the live
\* ones.  renderFrame and CVICRasterReplay::build must get this right with
\* the shadow stored before the head, pointers seeded from memory that is
\* already ahead of the log, and resets and capture switches in between.
ReplayTruth ==
  /\ cstep = "idle" /\ attempt = 1 /\ ProducerFree /\ enabled
  /\ replay.primed /\ replay.gen = gen /\ replay.tail = head
  /\ damage = {}
  => /\ replay.m = shadow
     /\ replay.bank = activeVICBank(latch)
     /\ ptrBase = <<replay.bank, replay.m>> => replay.ptr = ram[ptrBase]

\* The row from which an event shows: lines above the picture come first.
BeamRow(e) == LET line == lineOfEvent(e, anchor)
              IN IF line < TopRaster THEN -1 ELSE line - TopRaster

\* The matrix the beam sees in row r of frame f.
BeamMatrix(f, r) ==
  LET seen == {i \in replay.tail .. f.tailAfter - 1 :
                 /\ rasterEvent(i).reg = "d018"
                 /\ i < f.drawStart \/ BeamRow(rasterEvent(i)) <= r}
  IN IF seen = {} THEN replay.m ELSE rasterEvent(Max(seen)).value

\* Every row of frame f is drawn once, with the matrix the beam sees there.
RowsShown(f) ==
  \A r \in 0 .. FrameRows - 1 :
    LET drawn == {b \in f.bands : r \in b.firstRow .. b.firstRow + b.rowCount - 1}
    IN /\ Cardinality(drawn) = 1
       /\ \A b \in drawn :
            ApplyRange(replay, replay.tail, b.applyEnd).m = BeamMatrix(f, r)

FrameBuilt == cstep = "scan" /\ cstep' = "apply"
DrawnEvents(f) == {rasterEvent(i) : i \in f.drawStart .. f.tailAfter - 1}

\* Every row of a replayed frame is drawn once, with the matrix the beam saw
\* there: the events before the frame, then those of its own rows, each
\* applied by CVICRasterTimeline::build's bands exactly where it belongs.
\* (hdmi_display.cpp:326: "register, bank and VIC colour-register effects
\* retain raster precision".)  It needs a frame without events above the
\* picture, which come out below it, and without pointer writes, whose extra
\* line also delays the register writes behind them; README has what TLC shows
\* of the other frames.  A frame that outgrows the page snapshot is not drawn
\* from its bands at all (see Apply).
RowsShowBeamState ==
  [][FrameBuilt /\ (\A e \in DrawnEvents(frame') : e.reg # "ptr" /\ BeamRow(e) # -1)
     => RowsShown(frame')]_vars

Presented == cstep = "check" /\ cstep' = "idle" /\ replay'.primed
ResetRunning == rstep \in {"shadow", "head", "ram"}

\* A frame with the registers of one reset and the memory of another is shown
\* in two situations and no other: a reset is still running, or the replay was
\* last primed from a latch of which the fourth attempt, too, saw a generation
\* published during its copy, and which renderFrame uses all the same
\* (hdmi_display.cpp:298-311).  Heads that keep moving, captures switched off
\* and on, and resets that end before the check never cause one ("Reset may
\* race the bounded snapshot", hdmi_display.cpp:334).
MixedFramesExplained ==
  [][Presented /\ epochs.drawn # epochs.pages => ResetRunning \/ epochs.crossed]_vars

-----------------------------------------------------------------------------
(* What comments say and TLC refutes on small instances (see README).       *)

\* "register, bank and VIC colour-register effects retain raster precision"
\* (hdmi_display.cpp:326), in every frame without pointer writes.
EveryRowShowsBeamState ==
  [][FrameBuilt /\ (\A e \in DrawnEvents(frame') : e.reg # "ptr")
     => RowsShown(frame')]_vars

\* "Never present a frame assembled from two producer epochs"
\* (hdmi_display.cpp:334).
NeverTwoEpochs == [][Presented => epochs.drawn = epochs.pages]_vars

\* The same once the reset that separates them has published its generation.
NeverTwoEpochsAfterReset ==
  [][Presented /\ ~ResetRunning => epochs.drawn = epochs.pages]_vars

\* "invalidation makes the next pass re-prime live state" (hdmi_display.cpp:335):
\* a frame whose own latch no reset crossed is whole again.
NextPassHeals ==
  [][Presented /\ ~ResetRunning /\ live.before = live.gen
     => epochs.drawn = epochs.pages]_vars

\* "equal head/generation samples on both sides of this tiny copy prove the
\* live state belongs to that head" (hdmi_display.cpp:292-294): the replay that
\* started from such a state never goes wrong.
ReplayNeverWrong ==
  /\ cstep = "idle" /\ attempt = 1 /\ ProducerFree /\ enabled
  /\ replay.primed /\ replay.gen = gen /\ replay.tail = head
  => replay.m = shadow /\ replay.bank = activeVICBank(latch)

\* m_SpritePtrBase is the row the VIC reads its pointers from.
PointerRowTracked == ProducerFree => ptrBase = ActiveRow
=============================================================================
