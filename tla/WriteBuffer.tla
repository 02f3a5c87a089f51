------------------------------ MODULE WriteBuffer ------------------------------
(***************************************************************************)
(* CWriteBuffer (src/Source/SuperCPU/write_buffer.{h,cpp}): the queue that *)
(* carries the emulated CPU's stores from the Pi's shadow RAM to the C64's *)
(* real DRAM, the only memory the VIC-II can fetch from.                   *)
(*                                                                         *)
(* The 64K address space is Block \X Offset: a block is the 64-byte unit   *)
(* of the sprite shapes and of the dirty bitmap.  Everything runs on one   *)
(* core, so a call is atomic for its callers; loops are unrolled into one  *)
(* step per iteration (`scan' for a drain, `replay' for a bulk re-issue)   *)
(* and no other action is enabled while a call is in progress (see Idle).  *)
(***************************************************************************)
EXTENDS Integers, Sequences, FiniteSets

CONSTANTS
    TopBlock, TopOffset,  \* highest block number, highest offset in a block
    Value,                \* byte values; block numbers are byte values too
    ResetValue,           \* what CC64Memory::reset() fills the shadow with
    Capacity,             \* SCPU_WRITEBUF_CAPACITY
    Chunk,                \* SCPU_WRITEBUF_CHUNK, writes per burst
    GenMod,               \* m_QueueGeneration counts modulo this (2^32)
    OptRange,             \* m_RangeLo, m_RangeHi of every mode, as blocks
    Policies,             \* the <<mode, exclude ZP/stack>> pairs selected
    ZPStack,              \* blocks of $0000-$01FF
    UnderIO,              \* blocks of $D000-$DFFF
    Low,                  \* blocks of $C000-$CBFF, the relocation pool
    UnderIOAccessible,    \* m_RAMUnderIOAccessible, settled before the guest runs
    PointerRow,           \* last eight bytes of every 1K screen slot
    Bank3Row,             \* those of them at $C000 and above
    Drains,               \* argument records the mirror scheduler flushes with
    MaxBytes,             \* byte budgets it flushes with
    HotSets,              \* sets of blocks the active sprites may select
    WorkingSets,          \* what enablePhysicalMirror() may find on display
    NoBlock               \* $FF, no block

Block  == 0 .. TopBlock
Offset == 0 .. TopOffset
Addr   == Block \X Offset

OptMode == {"none", "default", "basic", "bank0", "bank1", "bank2", "bank3", "full"}

\* Arguments of flushUpToPolicy / flushRangeUpTo: regions are sets of
\* addresses, and the base 0xFFFFFFFF (no region) is the empty set.
DrainArgs == [only : BOOLEAN, hotWait : BOOLEAN,
              screen : SUBSET Addr, bitmap : SUBSET Addr]

ASSUME SpaceAssumption ==
    /\ TopBlock \in Nat
    /\ TopOffset \in Nat
    /\ ResetValue \in Value
    /\ Capacity \in Nat
    /\ Cardinality(Addr) <= Capacity
    /\ GenMod \in Nat
    /\ GenMod > Capacity

ASSUME PolicyAssumption ==
    /\ OptRange \in [OptMode -> Block \X Block]
    /\ Policies \subseteq OptMode \X BOOLEAN
    /\ <<"default", TRUE>> \in Policies
    /\ ZPStack \subseteq Block

ASSUME RelocationAssumption ==
    /\ UnderIOAccessible \in BOOLEAN
    /\ UnderIO \subseteq Block
    /\ Low \subseteq Block
    /\ UnderIO \cap Low = {}
    /\ Low \subseteq Value
    /\ NoBlock \notin Block
    /\ PointerRow \subseteq Addr
    /\ Bank3Row \subseteq PointerRow

ASSUME DrainAssumption ==
    /\ Chunk \in Nat \ {0}
    /\ Drains \subseteq DrainArgs
    /\ MaxBytes \subseteq Nat \ {0}
    /\ HotSets \subseteq SUBSET Block
    /\ WorkingSets \subseteq Seq(Addr)

VARIABLES
    mode, excludeZP,  \* m_Mode, m_ExcludeZPStack
    delivery,         \* m_DeliveryEnabled; FALSE is also m_MirrorHalted
    ram, dram,        \* m_RAM of CC64Memory, and the C64's DRAM
    pending,          \* m_PendingValue
    dirty, synced,    \* m_Dirty and m_Synced, as sets
    queue,            \* the ring m_List/m_Head/m_Count, oldest first
    cursor,           \* m_ResyncCursor
    noProgress,       \* m_NoProgressValid and the arguments it was set for
    queueLag,         \* m_QueueGeneration - m_NoProgressQueueGeneration
    hotMoved,         \* *m_HotBlocksGeneration # m_NoProgressHotGeneration
    hot,              \* m_HotBlocks: blocks shown by active sprites
    reloc,            \* m_PtrReloc; m_RelocInUse is its inverse
    scan,             \* the flush call in progress
    replay,           \* addresses a bulk call has still to re-issue
    suspect           \* history: addresses excused from CleanBytesEqual, see Suspects

bufferVars == <<pending, dirty, synced, queue, queueLag>>
policyVars == <<mode, excludeZP, delivery>>
cacheVars  == <<noProgress, hotMoved>>
sharedVars == <<ram, dram, hot, reloc>>
vars == <<bufferVars, policyVars, cacheVars, sharedVars, cursor, scan, replay, suspect>>

NoArgs == [only |-> FALSE, hotWait |-> FALSE, screen |-> {}, bitmap |-> {}]

NoScan == [on |-> FALSE, args |-> NoArgs, left |-> 0, room |-> 0,
           budget |-> 0, burst |-> {}, entry |-> <<>>]

TypeOK ==
    /\ mode \in OptMode /\ excludeZP \in BOOLEAN /\ delivery \in BOOLEAN
    /\ ram \in [Addr -> Value] /\ dram \in [Addr -> Value]
    /\ pending \in [Addr -> Value]
    /\ dirty \in SUBSET Addr /\ synced \in SUBSET Addr /\ suspect \in SUBSET Addr
    /\ queue \in Seq(Addr)
    /\ cursor \in Addr
    /\ noProgress \in [valid : BOOLEAN, args : DrainArgs]
    /\ queueLag \in 0 .. GenMod - 1
    /\ hotMoved \in BOOLEAN
    /\ hot \in SUBSET Block
    /\ reloc \in [UnderIO -> Low \cup {NoBlock}]
    /\ scan \in [on : BOOLEAN, args : DrainArgs, left : Nat, room : Nat,
                 budget : Nat, burst : SUBSET Addr, entry : Seq(Addr)]
    /\ replay \in Seq(Addr)

Idle == ~scan.on /\ replay = <<>>

Queued == {queue[i] : i \in DOMAIN queue}

--------------------------------------------------------------------------------
(* The mirroring policy and the relocation tables.                            *)

ShouldMirror(a) ==
    /\ mode # "full"
    /\ ~(mode # "none" /\ excludeZP /\ a[1] \in ZPStack)
    /\ a[1] \in UnderIO => UnderIOAccessible
    /\ OptRange[mode][1] <= a[1]
    /\ a[1] <= OptRange[mode][2]

Relocated(b) == b \in UnderIO /\ reloc[b] # NoBlock

Stolen(b) == \E u \in UnderIO : reloc[u] = b

\* m_RelocInUse[b]: the under-I/O block whose shape the stolen block b carries.
SourceOf(b) == CHOOSE u \in UnderIO : reloc[u] = b

\* Where a store to a is delivered: a relocated shape goes to its copy.
Target(a) == IF Relocated(a[1]) THEN <<reloc[a[1]], a[2]>> ELSE a

\* deliverValue: a bank-3 pointer byte that selects a relocated shape goes out
\* as the block of the copy.  Shape bytes of a stolen block are never pointers.
DeliverValue(a, v) ==
    IF a \in Bank3Row /\ ~Stolen(a[1]) /\ Relocated(v) THEN reloc[v] ELSE v

\* authoritativeShadowValue: the shadow byte real DRAM should hold at a.
Authority(a) == IF Stolen(a[1]) THEN ram[<<SourceOf(a[1]), a[2]>>] ELSE ram[a]

--------------------------------------------------------------------------------
(* IMirrorSink::onRamWrite, called by CC64Memory before it stores the byte.   *)

\* Mutant: the old entry stays in the ring.
MoveLeavesEntry(a) == Append(queue, a)

\* The ring without its entry for a, and a put back at the end.
MoveToTail(a) ==
    LET p == CHOOSE i \in DOMAIN queue : queue[i] = a
    IN  [i \in DOMAIN queue |-> IF i < p THEN queue[i]
                                ELSE IF i < Len(queue) THEN queue[i + 1] ELSE a]

\* A rewritten byte keeps its place, but a sprite pointer is a commit record.
\* Mutants: nothing moves, everything moves.
RequeueNothing(t) == queue
RequeueEverything(t) == MoveToTail(t)
Requeued(t) == IF t \in PointerRow THEN MoveToTail(t) ELSE queue

\* Timing-only mode: the policy decision is returned and nothing is queued.
TimingOnly == ~delivery /\ UNCHANGED bufferVars

\* The policy, or the shield of a stolen block, keeps the store off the bus:
\* elimination is disarmed, and an entry already queued keeps its value.
RefusesUnshielded(a) == ~ShouldMirror(Target(a))  \* mutant: no shield
Refuses(a) == Stolen(a[1]) \/ ~ShouldMirror(Target(a))

\* Mutant: elimination stays armed.
SkippedStaysSynced(a) == delivery /\ Refuses(a) /\ UNCHANGED bufferVars

Skipped(a) ==
    /\ delivery /\ Refuses(a)
    /\ synced' = synced \ {Target(a)}
    /\ UNCHANGED <<pending, dirty, queue, queueLag>>

\* Real DRAM already holds the value: nothing to send.
Redundant(a, v) ==
    ~Relocated(a[1]) /\ v = ram[a] /\ a \notin dirty /\ a \in synced

Eliminated(a, v) ==
    /\ delivery /\ ~Refuses(a) /\ Redundant(a, v)
    /\ UNCHANGED bufferVars

Accepted(a, v) ==
    LET t == Target(a)
    IN  /\ delivery /\ ~Refuses(a) /\ ~Redundant(a, v)
        /\ synced' = IF Relocated(a[1]) THEN synced \ {t} ELSE synced
        /\ pending' = [pending EXCEPT ![t] = v]
        /\ dirty' = dirty \cup {t}
        /\ \/ /\ t \in dirty
              /\ queue' = Requeued(t)
              /\ UNCHANGED queueLag
           \/ /\ t \notin dirty
              /\ IF Len(queue) < Capacity
                 THEN /\ queue' = Append(queue, t)
                      /\ queueLag' = IF noProgress.valid
                                     THEN (queueLag + 1) % GenMod ELSE 0
                 ELSE UNCHANGED <<queue, queueLag>>

OnRamWrite(a, v) ==
    \/ TimingOnly
    \/ Skipped(a)
    \/ Eliminated(a, v)
    \/ Accepted(a, v)

\* History.  A store refused while an older value of the address is queued
\* makes the address suspect: that older value will still be delivered.  An
\* accepted store clears it.
Suspects(a, v) ==
    IF ~delivery \/ (~Refuses(a) /\ Redundant(a, v)) \/ Stolen(a[1]) THEN suspect
    ELSE IF ~Refuses(a) THEN suspect \ {Target(a)}
    ELSE suspect \cup ({Target(a)} \cap dirty)

--------------------------------------------------------------------------------
(* The emulated program and CC64Memory.                                       *)

\* A store that does not change the active sprite-pointer row.
Write(a, v) ==
    /\ Idle
    /\ OnRamWrite(a, v)
    /\ suspect' = Suspects(a, v)
    /\ ram' = [ram EXCEPT ![a] = v]
    /\ UNCHANGED <<policyVars, cacheVars, dram, hot, reloc, cursor, scan, replay>>

\* noteSpritePointerWrite: a changed byte of the active row also goes straight
\* to the bus, and the set of hot blocks is rebuilt.  A shape under the I/O
\* window without a copy is delivered raw when no block can be claimed.
PointerWrite(a, v, newHot) ==
    /\ Idle
    /\ a \in PointerRow /\ v # ram[a] /\ (a[1] \in UnderIO => UnderIOAccessible)
    /\ OnRamWrite(a, v)
    /\ suspect' = Suspects(a, v)
    /\ ram' = [ram EXCEPT ![a] = v]
    /\ dram' = [dram EXCEPT ![a] = IF a \in Bank3Row /\ Relocated(v)
                                   THEN reloc[v] ELSE v]
    /\ hot' = newHot
    /\ hotMoved' = TRUE
    /\ UNCHANGED <<policyVars, noProgress, reloc, cursor, scan, replay>>

\* The same when allocRelocBlock can claim a free block r for the shape: its
\* 64 bytes are then re-issued.  History: a row byte that was delivered with
\* the pointer v untranslated is suspect from here on.
AllocRelocBlock(a, v, r, newHot) ==
    /\ Idle
    /\ a \in Bank3Row /\ a[1] \notin UnderIO /\ v \in UnderIO /\ v # ram[a]
    /\ ~UnderIOAccessible /\ ~Relocated(v)
    /\ r \in Low /\ ~Stolen(r) /\ r # a[1]
    /\ OnRamWrite(a, v)
    /\ suspect' = Suspects(a, v) \cup {p \in Bank3Row \ dirty : ram[p] = v}
    /\ ram' = [ram EXCEPT ![a] = v]
    /\ dram' = [dram EXCEPT ![a] = r]
    /\ reloc' = [reloc EXCEPT ![v] = r]
    /\ replay' = [i \in 1 .. TopOffset + 1 |-> <<v, i - 1>>]
    /\ hot' = newHot
    /\ hotMoved' = TRUE
    /\ UNCHANGED <<policyVars, noProgress, cursor, scan>>

\* One iteration of a bulk call (the loop of allocRelocBlock, invalidateRange).
Replay ==
    /\ replay # <<>>
    /\ OnRamWrite(Head(replay), ram[Head(replay)])
    /\ suspect' = Suspects(Head(replay), ram[Head(replay)])
    /\ replay' = Tail(replay)
    /\ UNCHANGED <<policyVars, cacheVars, sharedVars, cursor, scan>>

\* updateHotShapeBlocks after a write to $D015, $D018, $DD00 or $DD02.
UpdateHotShapeBlocks(newHot) ==
    /\ Idle
    /\ hot' = newHot
    /\ hotMoved' = TRUE
    /\ UNCHANGED <<bufferVars, policyVars, noProgress, ram, dram, reloc, cursor,
                   scan, replay, suspect>>

\* setOptMode and setExcludeZeroPageStack, from CSuperCPURegisters.
SetOptimisation(p) ==
    /\ Idle
    /\ mode' = p[1]
    /\ excludeZP' = p[2]
    /\ UNCHANGED <<bufferVars, cacheVars, sharedVars, delivery, cursor, scan,
                   replay, suspect>>

--------------------------------------------------------------------------------
(* Discarding: reset and the switch between physical and HDMI presentation.   *)

\* Mutant: the elimination bitmap is not cleared.
DiscardKeepsSynced ==
    /\ dirty' = {} /\ queue' = <<>> /\ queueLag' = 0
    /\ noProgress' = [noProgress EXCEPT !.valid = FALSE]
    /\ suspect' = {}
    /\ UNCHANGED <<pending, synced>>

\* discard(): the queue and every claim about real DRAM are forgotten.
Discard ==
    /\ dirty' = {} /\ synced' = {} /\ queue' = <<>> /\ queueLag' = 0
    /\ noProgress' = [noProgress EXCEPT !.valid = FALSE]
    /\ suspect' = {}
    /\ UNCHANGED pending

\* CSuperCPU::reset(): the shadow is cleared, DRAM keeps its bytes, and the
\* registers come back with the power-on mirror policy.
Reset ==
    /\ Idle
    /\ Discard
    /\ mode' = "default" /\ excludeZP' = TRUE
    /\ ram' = [a \in Addr |-> ResetValue]
    /\ reloc' = [u \in UnderIO |-> NoBlock]
    /\ \E newHot \in HotSets : hot' = newHot
    /\ hotMoved' = TRUE
    /\ UNCHANGED <<delivery, dram, cursor, scan, replay>>

DisablePhysicalMirror ==
    /\ Idle /\ delivery
    /\ Discard
    /\ delivery' = FALSE
    /\ UNCHANGED <<mode, excludeZP, hotMoved, sharedVars, cursor, scan, replay>>

\* Delivery resumes and the bytes on display are queued again.
EnablePhysicalMirror(shown) ==
    /\ Idle /\ ~delivery
    /\ Discard
    /\ delivery' = TRUE
    /\ replay' = shown
    /\ UNCHANGED <<mode, excludeZP, hotMoved, sharedVars, cursor, scan>>

--------------------------------------------------------------------------------
(* Draining the queue: flushUpToPolicy, flushRangeUpTo, flushSelectedChunk.   *)

Region(d) == d.screen \cup d.bitmap

\* The `take' decision of flushSelectedChunk.
Eligible(a, d) ==
    IF d.only THEN a \in Region(d)
    ELSE a \notin Region(d) /\ ~(d.hotWait /\ a[1] \in hot)

\* Mutant: the generation of the hot blocks is not compared.
CacheIgnoresHot(d) == noProgress.valid /\ queueLag = 0 /\ noProgress.args = d

\* noProgressCacheMatches: a previous scan with these arguments found nothing
\* to send, and neither the queue nor the hot blocks have changed since.
CacheMatches(d) ==
    /\ noProgress.valid
    /\ queueLag = 0
    /\ noProgress.args = d
    /\ ~(d.hotWait /\ hotMoved)

Lesser(m, n) == IF m < n THEN m ELSE n

\* Mutant: the scan stops one entry early.
NewChunkShort(d, n, q, e) ==
    [on |-> TRUE, args |-> d, left |-> Len(q) - 1, room |-> Lesser(n, Chunk),
     budget |-> n, burst |-> {}, entry |-> e]

NewChunk(d, n, q, e) ==
    [on |-> TRUE, args |-> d, left |-> Len(q), room |-> Lesser(n, Chunk),
     budget |-> n, burst |-> {}, entry |-> e]

FlushBegin(d, n) ==
    /\ Idle /\ delivery
    /\ queue # <<>>
    /\ IF d.only THEN dirty \cap Region(d) # {} ELSE ~CacheMatches(d)
    /\ scan' = NewChunk(d, n, queue, queue)
    /\ UNCHANGED <<bufferVars, policyVars, cacheVars, sharedVars, cursor, replay,
                   suspect>>

Scanning == scan.on /\ scan.left > 0 /\ scan.room > 0 /\ queue # <<>>

\* The head of the ring joins the burst, or rotates to the tail.
Take ==
    /\ Scanning
    /\ Eligible(Head(queue), scan.args)
    /\ queue' = Tail(queue)
    /\ scan' = [scan EXCEPT !.left = @ - 1, !.room = @ - 1, !.budget = @ - 1,
                            !.burst = @ \cup {Head(queue)}]
    /\ UNCHANGED <<pending, dirty, synced, queueLag, policyVars, cacheVars,
                   sharedVars, cursor, replay, suspect>>

Defer ==
    /\ Scanning
    /\ ~Eligible(Head(queue), scan.args)
    /\ queue' = Append(Tail(queue), Head(queue))
    /\ scan' = [scan EXCEPT !.left = @ - 1]
    /\ UNCHANGED <<pending, dirty, synced, queueLag, policyVars, cacheVars,
                   sharedVars, cursor, replay, suspect>>

\* writeBurst, then the caller's loop goes on for what is left of its budget.
SendBurst ==
    /\ scan.on /\ ~Scanning
    /\ scan.burst # {}
    /\ dram' = [a \in Addr |-> IF a \in scan.burst THEN DeliverValue(a, pending[a])
                               ELSE dram[a]]
    /\ dirty' = dirty \ scan.burst
    /\ synced' = synced \cup scan.burst
    /\ queueLag' = 0
    /\ noProgress' = [noProgress EXCEPT !.valid = FALSE]
    /\ scan' = IF /\ queue # <<>> /\ scan.budget > 0
                  /\ scan.args.only => dirty' \cap Region(scan.args) # {}
               THEN NewChunk(scan.args, scan.budget, queue, scan.entry)
               ELSE NoScan
    /\ UNCHANGED <<pending, queue, policyVars, hotMoved, ram, hot, reloc, cursor,
                   replay, suspect>>

\* A full scan that took nothing: rememberNoProgress.
NoneTaken ==
    /\ scan.on /\ ~Scanning
    /\ scan.burst = {}
    /\ IF scan.args.only THEN UNCHANGED <<cacheVars, queueLag>>
       ELSE /\ noProgress' = [valid |-> TRUE, args |-> scan.args]
            /\ queueLag' = 0
            /\ hotMoved' = FALSE
    /\ scan' = NoScan
    /\ UNCHANGED <<pending, dirty, synced, queue, policyVars, sharedVars, cursor,
                   replay, suspect>>

--------------------------------------------------------------------------------
(* Re-delivery of clean bytes: resyncSweep and resyncDisplayed.               *)

NextAddr(a) ==
    IF a = <<OptRange[mode][2], TopOffset>> THEN <<OptRange[mode][1], 0>>
    ELSE IF a[2] < TopOffset THEN <<a[1], a[2] + 1>>
    ELSE IF a[1] < TopBlock THEN <<a[1] + 1, 0>> ELSE <<0, 0>>

\* A clean mirrored byte is sent again from the shadow.
Redeliver(a) ==
    /\ dram' = [dram EXCEPT ![a] = DeliverValue(a, Authority(a))]
    /\ synced' = synced \cup {a}
    /\ suspect' = suspect \ {a}

\* One iteration of resyncSweep, which runFrame() calls with the queue empty.
ResyncSweep ==
    /\ Idle /\ delivery /\ queue = <<>>
    /\ cursor' = NextAddr(cursor)
    /\ IF ShouldMirror(cursor) /\ cursor \notin dirty THEN Redeliver(cursor)
       ELSE UNCHANGED <<dram, synced, suspect>>
    /\ UNCHANGED <<pending, dirty, queue, queueLag, policyVars, cacheVars, ram, hot,
                   reloc, scan, replay>>

\* One byte of resyncDisplayed.  Which bytes of the display an installment
\* visits is not modelled: any clean mirrored byte may be one of them.
ResyncDisplayed(a) ==
    /\ Idle /\ delivery
    /\ ShouldMirror(a) /\ a \notin dirty
    /\ Redeliver(a)
    /\ UNCHANGED <<pending, dirty, queue, queueLag, policyVars, cacheVars, ram, hot,
                   reloc, cursor, scan, replay>>

--------------------------------------------------------------------------------
(* The state after CSuperCPU::init(): DRAM holds whatever it powered up with. *)
Init ==
    /\ mode = "default" /\ excludeZP = TRUE /\ delivery = TRUE
    /\ ram = [a \in Addr |-> ResetValue]
    /\ dram \in [Addr -> Value]
    /\ pending = [a \in Addr |-> ResetValue]
    /\ dirty = {} /\ synced = {} /\ queue = <<>>
    /\ cursor = <<0, 0>>
    /\ noProgress = [valid |-> FALSE, args |-> NoArgs]
    /\ queueLag = 0 /\ hotMoved = TRUE
    /\ hot \in HotSets
    /\ reloc = [u \in UnderIO |-> NoBlock]
    /\ scan = NoScan /\ replay = <<>>
    /\ suspect = {}

Program ==
    \/ \E a \in Addr, v \in Value : Write(a, v)
    \/ \E a \in Addr, v \in Value, h \in HotSets : PointerWrite(a, v, h)
    \/ \E a \in Addr, v \in Value, r \in Low, h \in HotSets :
          AllocRelocBlock(a, v, r, h)
    \/ \E h \in HotSets : UpdateHotShapeBlocks(h)
    \/ \E p \in Policies : SetOptimisation(p)
    \/ Replay

Control ==
    \/ Reset
    \/ DisablePhysicalMirror
    \/ \E s \in WorkingSets : EnablePhysicalMirror(s)

Drain ==
    \/ \E d \in Drains, n \in MaxBytes : FlushBegin(d, n)
    \/ Take
    \/ Defer
    \/ SendBurst
    \/ NoneTaken

Resync ==
    \/ ResyncSweep
    \/ \E a \in Addr : ResyncDisplayed(a)

Next == Program \/ Control \/ Drain \/ Resync

Spec == Init /\ [][Next]_vars

--------------------------------------------------------------------------------
(* Properties.                                                                *)

\* The ring and the dirty bitmap agree: no address is queued twice, and an
\* address is marked dirty exactly while it is queued or in the burst being
\* put together.  A bit without an entry would never be delivered, an entry
\* without a bit would be queued again (onRamWrite, flushSelectedChunk, discard).
RingMatchesBitmap ==
    /\ \A i, j \in DOMAIN queue : queue[i] = queue[j] => i = j
    /\ Queued \cap scan.burst = {}
    /\ dirty = Queued \cup scan.burst

\* Bytes of a relocated shape that the call in progress has still to re-issue.
Reissued == {Target(replay[i]) : i \in {j \in DOMAIN replay : Relocated(replay[j][1])}}

\* What makes same-value elimination sound: a queued byte carries the shadow's
\* value, and a clean byte that was delivered is equal in DRAM.  The only
\* exceptions are the suspect addresses: a store was refused by the policy
\* while an older value was queued, or a pointer was delivered before the
\* shape it selects was given a relocated copy.
CleanBytesEqual ==
    \A a \in Addr \ (suspect \cup Reissued) :
        /\ a \in dirty => pending[a] = Authority(a)
        /\ a \in synced \ dirty => dram[a] = DeliverValue(a, Authority(a))

\* The cached negative answer of a display-time scan is only used while no
\* queued entry could be sent: stores, pointer moves and drains between the
\* scan and its reuse cannot make it stale (noProgressCacheMatches).
CacheNeverHidesWork ==
    \A d \in Drains :
        CacheMatches(d) => \A i \in DOMAIN queue : ~Eligible(queue[i], d)

\* While HDMI owns the picture nothing is queued for the physical VIC, and no
\* claim about DRAM survives to eliminate a store after the switch back.
NothingQueuedForHDMI == ~delivery => dirty = {} /\ synced = {}

Before(q, a, b) == \E i, j \in DOMAIN q : i < j /\ q[i] = a /\ q[j] = b

\* Every queued byte's turn comes nearer, and what may send it back.  Nothing
\* gets ahead of a byte that is not a sprite pointer, whatever is written and
\* however often, unless a drain that spares the byte rotates it to the tail
\* (flushSelectedChunk); and every drain of the border, in one chunk or several,
\* leaves fewer bytes ahead of each one it does not send.  So a byte that is
\* not rotated goes out after as many border drains as there were bytes ahead.
TurnsComeNearer ==
    [][/\ queue' # queue =>
             \A a \in (Queued \cap Queued') \ PointerRow, b \in Queued' :
                Before(queue', b, a) => Before(queue, b, a) \/ (Defer /\ a = Head(queue))
       /\ scan.on /\ ~scan'.on /\ scan.args = NoArgs =>
             \A a \in Queued' :
                /\ \A b \in Queued' : Before(queue', b, a) => Before(scan.entry, b, a)
                /\ \E b \in Addr \ Queued' : Before(scan.entry, b, a)]_vars

\* A drain that looked at the whole queue leaves the entries it did not send
\* in the order in which it found them (budgets of at most one Chunk).
CompleteScanKeepsOrder ==
    [][scan.on /\ ~scan'.on /\ scan.left = 0 =>
          \A a, b \in Queued' : Before(scan.entry, a, b) => Before(queue', a, b)]_vars

\* The claim made of the entries a drain skips: "Skipped entries remain queued
\* in stable order for a hidden-window drain" (flushUpToPolicy).
SkippedKeepOrder ==
    [][scan.on /\ ~scan'.on =>
          \A a, b \in Queued' :
              /\ ~Eligible(a, scan.args) /\ ~Eligible(b, scan.args)
              /\ Before(scan.entry, a, b)
              => Before(queue', a, b)]_vars

\* The claim made of m_Synced: for every delivered address, "shadow == real
\* DRAM when clean" is a fact.
DeliveredMeansEqual ==
    Idle => \A a \in synced \ dirty : dram[a] = DeliverValue(a, Authority(a))

--------------------------------------------------------------------------------
(* Liveness.                                                                  *)

PriorityPending(d) == d.only /\ dirty \cap Region(d) # {}

\* The border's drain (drainMirrorDuringIdleVIC): bytes of the displayed matrix
\* or bitmap go first, and ordinary traffic only when none of them is queued.
BorderDrain(n) ==
    \/ \E d \in Drains : PriorityPending(d) /\ FlushBegin(d, n)
    \/ (\A d \in Drains : ~PriorityPending(d)) /\ FlushBegin(NoArgs, n)

\* Again and again the border comes and finds the bus free for a drain, and a
\* call once begun runs to its end.
Fairness ==
    /\ SF_vars(\E n \in MaxBytes : BorderDrain(n))
    /\ WF_vars(Take \/ Defer \/ SendBurst \/ NoneTaken)
    /\ WF_vars(Replay)

FairSpec == Spec /\ Fairness

\* The claim made of every byte: "FIFO makes every dirty byte reach the C64 in
\* bounded time".
EveryByteDrains ==
    \A a \in Addr : (a \in dirty) ~> (a \notin dirty)

================================================================================
