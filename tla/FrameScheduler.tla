-------------------------- MODULE FrameScheduler --------------------------
(***************************************************************************)
(* CSuperCPU::runFrame (SuperCPU/supercpu.cpp): one frame of guest time in *)
(* slices, mirror traffic squeezed between them, the approach run that     *)
(* meets the border, the background sweep, and the K381 resync diagnostic. *)
(*                                                                         *)
(* What the guest does in a slice (start or end serial traffic, change the *)
(* speed, store to mirrored memory, change the display mode) and where the *)
(* beam is when the raster is sampled are free choices; which bytes a      *)
(* drain sends is the business of WriteBuffer, here only their number per  *)
(* class counts.                                                           *)
(***************************************************************************)
EXTENDS Integers, FiniteSets, FiniteSetsExt

CONSTANTS
  FrameTicks,   \* 20 MHz ticks of a frame
  SliceTicks,   \* ticks of a slice
  Slow,         \* ticks of a 1 MHz cycle (20 in the code)
  Over,         \* cycles by which run() may overrun its budget
  MaxApproach,  \* ticks from the top of the picture to the border
  Display,      \* displayPerOpportunity; 0 is border-only mirroring
  Installment,  \* the border-only installment (64)
  Screen,       \* SCPU_MIRROR_SCREEN_BYTES_PER_OPPORTUNITY
  MaxChunk,     \* bytes of one physical burst (64)
  MaxQueue,     \* bound on the queued bytes of a class
  HoldFrames,   \* frames of the no-repair observation (500 or 600)
  Visits,       \* visits that rewrite 1K of the picture (16)
  Graphics,     \* display mode -> 1K slots of graphics (charset 2, bitmap 8)
  SpriteSets,   \* whether some sprite may be shown: a subset of BOOLEAN
  Machine,      \* "C64" or "C128"
  Scrub         \* m_DisplayScrubEnabled

ASSUME FrameAssumption ==
  /\ {FrameTicks, SliceTicks, Slow, MaxApproach, Installment, Screen, MaxChunk,
      MaxQueue, HoldFrames, Visits} \subseteq Nat \ {0}
  /\ {Over, Display} \subseteq Nat
  /\ MaxApproach + Over * Slow < FrameTicks

Transfer == IF Display = 0 THEN Installment ELSE Display
Modes    == DOMAIN Graphics

VARIABLES
  pc,        \* where runFrame stands
  after,     \* where a drain returns to
  used,      \* ticksUsed
  debt,      \* m_FrameTickDebt
  start,     \* history: the debt at the start of this frame
  granted,   \* history: ticks executed in the slices of this frame
  iec,       \* m_Memory.iecBusActive()
  slow,      \* an effective 1 MHz: selected, or a serial hold
  saw,       \* sawIECThisFrame
  queue,     \* queued bytes of the displayed matrix or bitmap, and others
  left,      \* what remains of the opportunity's budgets
  halted,    \* m_MirrorHalted
  diag,      \* phase, awaiting, holding, frames, calls
  mode, sprites,      \* the display the guest programmed
  turn,      \* m_DisplayScrubTurn
  seen,      \* history: repair visits to the matrix and to the graphics
  xfer       \* history: the last step put mirror bytes on the bus

guest == <<iec, slow, mode, sprites, queue>>
clock == <<used, debt, start, granted>>
frameVars  == <<pc, after, clock, guest, saw, left, halted, diag, turn, seen, xfer>>

TicksPerCycle == IF slow THEN Slow ELSE 1
Ceil(a, b)    == (a + b - 1) \div b
NoBudget      == [display |-> 0, transfer |-> 0, screen |-> 0]
Empty(q)      == q.picture = 0 /\ q.other = 0

FrameInit ==
  /\ pc = "frame" /\ after = "scrub"
  /\ used = 0 /\ debt = 0 /\ start = 0 /\ granted = 0
  /\ iec = FALSE /\ slow = FALSE /\ saw = FALSE /\ halted = FALSE
  /\ queue = [picture |-> 0, other |-> 0]
  /\ left = NoBudget
  /\ diag = [phase |-> "idle", awaiting |-> FALSE, holding |-> FALSE,
             frames |-> 0, calls |-> 0]
  /\ mode \in Modes /\ sprites \in SpriteSets
  /\ turn = 0 /\ seen = [matrix |-> 0, graphics |-> 0]
  /\ xfer = FALSE

\* Mutant: what ran ahead is never repaid.
BeginFrameForgiving ==
  /\ pc = "frame" /\ pc' = "slice"
  /\ used' = 0 /\ debt' = 0 /\ start' = debt
  /\ granted' = 0 /\ saw' = iec /\ xfer' = FALSE
  /\ UNCHANGED <<after, guest, left, halted, diag, turn, seen>>

\* The frame's work starts with what the previous one ran ahead.
BeginFrame ==
  /\ pc = "frame"
  /\ pc' = IF debt < FrameTicks THEN "slice" ELSE "diag"
  /\ used' = Min({debt, FrameTicks})
  /\ debt' = debt - Min({debt, FrameTicks})
  /\ start' = debt /\ granted' = 0
  /\ saw' = iec /\ xfer' = FALSE
  /\ UNCHANGED <<after, guest, left, halted, diag, turn, seen>>

\* What the guest may do while run() executes.  A halted mirror queues nothing.
GuestRuns ==
  /\ iec' \in BOOLEAN /\ slow' \in BOOLEAN
  /\ mode' \in Modes /\ sprites' \in SpriteSets
  /\ queue' \in (IF halted THEN {queue}
                 ELSE {[picture |-> p, other |-> o] :
                         p \in queue.picture .. Min({queue.picture + 1, MaxQueue}),
                         o \in queue.other .. Min({queue.other + 1, MaxQueue})})

\* One slice: run() stops at its budget or earlier, on a change of speed or of
\* the serial bus; then a drain if the mirror may use the bus.
Slice ==
  LET budget == Min({Ceil(FrameTicks - used, TicksPerCycle),
                     Ceil(SliceTicks, TicksPerCycle)})
  IN /\ pc = "slice" /\ used < FrameTicks
     /\ \E ran \in 1 .. budget + Over :
          /\ used' = used + ran * TicksPerCycle
          /\ granted' = granted + ran * TicksPerCycle
     /\ GuestRuns
     /\ saw' = (saw \/ iec') /\ xfer' = FALSE
     /\ IF ~halted /\ ~iec' /\ ~Empty(queue') /\ used' < FrameTicks
        THEN /\ pc' = "flush" /\ after' = "scrub"
             /\ left' = [display |-> Display, transfer |-> Transfer, screen |-> Screen]
        ELSE pc' = "scrub" /\ UNCHANGED <<after, left>>
     /\ UNCHANGED <<debt, start, halted, diag, turn, seen>>

-----------------------------------------------------------------------------
(* flushMirrorsRasterAware: one physical burst per iteration, the raster    *)
(* sampled before each.                                                     *)

FlushEnds ==
  /\ pc' = after /\ xfer' = FALSE
  /\ after' = "scrub" /\ left' = NoBudget
  /\ UNCHANGED <<clock, guest, saw, halted, diag, turn, seen>>

\* The loop's condition fails: no queue, or neither budget left.
FlushDone ==
  /\ pc = "flush" /\ (Empty(queue) \/ (left.transfer = 0 /\ left.screen = 0))
  /\ FlushEnds

\* The raster is read: hidden lines, a picture line away from sprite fetches,
\* or one that may not be used, torn samples included.
SampleRaster ==
  /\ pc = "flush" /\ ~Empty(queue) /\ (left.transfer > 0 \/ left.screen > 0)
  /\ \/ /\ pc' \in {"hidden", "picture"} /\ xfer' = FALSE
        /\ UNCHANGED <<after, clock, guest, saw, left, halted, diag, turn, seen>>
     \/ FlushEnds

Sends(class, n) ==
  /\ pc' = "flush" /\ xfer' = TRUE
  /\ queue' = [queue EXCEPT ![class] = @ - n]
  /\ UNCHANGED <<after, clock, iec, slow, mode, sprites, saw, halted, diag, turn, seen>>

\* Hidden lines, part of the displayed matrix or bitmap pending: it goes first,
\* from its own allowance.
FlushPicture ==
  /\ pc = "hidden" /\ queue.picture > 0 /\ left.screen > 0
  /\ LET n == Min({queue.picture, left.screen, MaxChunk})
     IN left' = [left EXCEPT !.screen = @ - n] /\ Sends("picture", n)

\* Hidden lines, nothing of the picture pending: ordinary delivery.
FlushBorder ==
  /\ pc = "hidden" /\ queue.picture = 0 /\ left.transfer > 0
  /\ LET n == Min({queue.other, left.transfer, MaxChunk})
     IN left' = [left EXCEPT !.transfer = @ - n] /\ Sends("other", n)

MayUsePicture == left.transfer > 0 /\ left.display > 0 /\ queue.other > 0

\* Mutant: entries that are skipped count as sent.
FlushDisplaySkipping ==
  /\ pc = "picture" /\ left.transfer > 0 /\ left.display > 0
  /\ UNCHANGED left /\ Sends("other", 0)

\* Inside the picture: what is not displayed.
FlushDisplay ==
  /\ pc = "picture" /\ MayUsePicture
  /\ LET n == Min({queue.other, left.display, left.transfer, MaxChunk})
     IN /\ left' = [left EXCEPT !.transfer = @ - n, !.display = @ - n]
        /\ Sends("other", n)

\* The allowance for this place is spent, everything queued had to be skipped,
\* or the sink took nothing.
FlushBreaks == pc \in {"hidden", "picture"} /\ FlushEnds

-----------------------------------------------------------------------------
(* The display scrub, the end of the frame and the approach.                *)

\* resyncDisplayed: one visit of the slot whose turn it is.
Slots == 1 + Graphics[mode] + (IF sprites THEN 1 ELSE 0)
Visit(repairing) ==
  LET t == IF turn >= Slots THEN 0 ELSE turn
  IN /\ turn' = (t + 1) % Slots
     /\ seen' = IF ~repairing THEN seen
                ELSE IF t = 0 THEN [seen EXCEPT !.matrix = Min({@ + 1, Visits})]
                ELSE IF t <= Graphics[mode]
                     THEN [seen EXCEPT !.graphics =
                             Min({@ + 1, Visits * Graphics[mode]})]
                ELSE seen

MayScrub == Scrub /\ ~halted /\ Machine = "C64" /\ ~iec /\ Empty(queue)
              /\ used < FrameTicks

\* A chunk of the scrub in hidden lines; none in the picture, or in the half
\* of the trial's period, measured in host time, that has repair off.
ScrubStep ==
  /\ pc = "scrub"
  /\ \/ MayScrub /\ Visit(FALSE) /\ xfer' = TRUE
     \/ UNCHANGED <<turn, seen>> /\ xfer' = FALSE
  /\ pc' = IF used < FrameTicks THEN "slice" ELSE "diag"
  /\ UNCHANGED <<after, clock, guest, saw, left, halted, diag>>

Calls == Visits * (1 + Graphics[mode])

\* updateResyncDiagnostic: serial traffic restarts it; the hold begins once the
\* queue has drained and ends after its frames.
updateResyncDiagnostic(d) ==
  IF saw THEN [phase |-> "idle", awaiting |-> TRUE, holding |-> FALSE,
               frames |-> 0, calls |-> 0]
  ELSE IF d.awaiting
       THEN IF ~Empty(queue) THEN d
            ELSE [phase |-> "hold", awaiting |-> FALSE, holding |-> TRUE,
                  frames |-> HoldFrames, calls |-> 0]
  ELSE IF d.holding
       THEN IF d.frames > 1 THEN [d EXCEPT !.frames = @ - 1]
            ELSE [phase |-> "repair", awaiting |-> FALSE, holding |-> FALSE,
                  frames |-> 0, calls |-> Calls]
  ELSE d

EndSlices ==
  /\ pc = "diag" /\ xfer' = FALSE /\ saw' = FALSE
  /\ used' = 0 /\ start' = 0 /\ granted' = 0
  /\ diag' = updateResyncDiagnostic(diag)
  /\ seen' = IF diag'.phase = "repair" /\ diag.phase # "repair"
             THEN [matrix |-> 0, graphics |-> 0] ELSE seen
  /\ pc' = IF ~halted /\ ~Empty(queue) /\ ~iec THEN "approach" ELSE "repair"
  /\ UNCHANGED <<after, debt, guest, left, halted, turn>>

StartDrain ==
  /\ pc' = "flush" /\ after' = "sweep"
  /\ left' = [display |-> Display, transfer |-> Transfer, screen |-> Screen]

\* The beam is in the border already, or its line is unknown.
NoApproach ==
  /\ pc = "approach" /\ xfer' = FALSE
  /\ StartDrain
  /\ UNCHANGED <<clock, guest, saw, halted, diag, turn, seen>>

\* Run the guest for the ticks until the beam reaches the border, which are owed
\* to the next frame; less than one of its cycles, and it does not run.
RunAhead ==
  \E ticks \in 1 .. MaxApproach :
    LET cycles == ticks \div TicksPerCycle
    IN  \/ cycles = 0 /\ UNCHANGED <<debt, guest>>
        \/ /\ cycles > 0
           /\ \E ran \in 1 .. cycles + Over : debt' = debt + ran * TicksPerCycle
           /\ GuestRuns

\* Mutant: the drain follows the approach run without another look at the bus.
ApproachBlind ==
  /\ pc = "approach" /\ xfer' = FALSE
  /\ RunAhead
  /\ StartDrain
  /\ UNCHANGED <<used, start, granted, saw, halted, diag, turn, seen>>

\* The guest may start serial traffic meanwhile, and then nothing is drained.
Approach ==
  /\ pc = "approach" /\ xfer' = FALSE
  /\ RunAhead
  /\ IF iec' THEN pc' = "repair" /\ UNCHANGED <<after, left>> ELSE StartDrain
  /\ UNCHANGED <<used, start, granted, saw, halted, diag, turn, seen>>

\* The background sweep gets what is left of the border: an empty queue, no
\* observation in progress, not a C128, at least twelve hidden lines.
MaySweep == Empty(queue) /\ ~diag.awaiting /\ ~diag.holding
              /\ diag.phase \in {"idle", "complete"} /\ Machine # "C128"
Sweep ==
  /\ pc = "sweep" /\ pc' = "repair"
  /\ xfer' \in (IF MaySweep THEN BOOLEAN ELSE {FALSE})
  /\ UNCHANGED <<after, clock, guest, saw, left, halted, diag, turn, seen>>

\* runResyncDiagnosticRepair: one visit per frame, in hidden lines only.
MayRepair == diag.phase = "repair" /\ diag.calls > 0 /\ ~halted /\ ~iec /\ Empty(queue)
Repair ==
  /\ pc = "repair" /\ pc' = "hook"
  /\ \/ /\ MayRepair /\ Visit(TRUE) /\ xfer' = TRUE
        /\ diag' = [diag EXCEPT !.calls = @ - 1,
                                !.phase = IF diag.calls = 1 THEN "complete" ELSE @]
     \/ UNCHANGED <<diag, turn, seen>> /\ xfer' = FALSE
  /\ UNCHANGED <<after, clock, guest, saw, left, halted>>

\* The frame hook may switch the mirror off or on, each with its queue
\* discarded; switching on queues the displayed picture.
FrameHook ==
  /\ pc = "hook" /\ pc' = "frame" /\ xfer' = FALSE
  /\ \/ UNCHANGED <<halted, queue>>
     \/ ~halted /\ halted' = TRUE /\ queue' = [picture |-> 0, other |-> 0]
     \/ halted /\ halted' = FALSE /\ queue' = [picture |-> MaxQueue, other |-> 0]
  /\ UNCHANGED <<after, clock, iec, slow, mode, sprites, saw, left, diag,
                 turn, seen>>

\* CSuperCPU::reset, from the frame hook.
FrameReset ==
  /\ pc = "hook" /\ pc' = "frame" /\ xfer' = FALSE
  /\ queue' = [picture |-> 0, other |-> 0]
  /\ debt' = 0
  /\ diag' = [phase |-> "idle", awaiting |-> FALSE, holding |-> FALSE,
              frames |-> 0, calls |-> 0]
  /\ iec' = FALSE /\ slow' \in BOOLEAN
  /\ UNCHANGED <<after, used, start, granted, mode, sprites, saw, left, halted,
                 turn, seen>>

FrameNext ==
  \/ BeginFrame \/ Slice
  \/ FlushDone \/ SampleRaster \/ FlushPicture \/ FlushBorder \/ FlushDisplay \/ FlushBreaks
  \/ ScrubStep \/ EndSlices \/ NoApproach \/ Approach
  \/ Sweep \/ Repair \/ FrameHook \/ FrameReset

\* One thread: run() and the bus calls return, so the loop goes on.
FrameSpec == FrameInit /\ [][FrameNext]_frameVars /\ WF_frameVars(FrameNext)

-----------------------------------------------------------------------------
(* Properties.                                                              *)

\* No mirror byte goes out while a serial transaction is live or the mirror is
\* halted, whichever of the five paths sends it and although the guest runs
\* between the first look at the bus and the drain.
SerialUndisturbed == xfer => ~iec /\ ~halted

\* Ticks run ahead are repaid before the frame grants new ones: what the slices
\* of a frame execute, together with the debt it began with, is one frame and
\* at most the overrun of its last slice; and the debt stays below a frame.
WorkRepaid ==
  /\ debt <= MaxApproach + Over * Slow
  /\ pc = "diag" => /\ start + granted >= FrameTicks
                    /\ start + granted < FrameTicks + (1 + Over) * Slow

\* Every frame ends: no drain spins, whatever the raster and the sink do.
FrameEnds == pc = "frame" ~> pc = "hook"

\* supercpu.cpp:406 "Sixteen 64-byte visits cover each slot": a repair that
\* reports itself complete has rewritten the matrix and the graphics.
RepairCoversPicture ==
  diag.phase = "complete" =>
    seen.matrix = Visits /\ seen.graphics = Visits * Graphics[mode]
=============================================================================
