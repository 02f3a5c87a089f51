------------------------------ MODULE PointerOrder -----------------------------
(***************************************************************************)
(* WriteBuffer with a history variable that remembers, for every sprite    *)
(* pointer byte, which bytes were queued when its current value was        *)
(* accepted: the sprite data the pointer may select.  Order does not hang  *)
(* on values: a pointer write is Write here, the rebuild of the hot set it *)
(* brings is UpdateHotShapeBlocks, and UnderIO is empty.  What the pointer *)
(* writes of the active row put into DRAM is left to WriteBuffer's own run.*)
(***************************************************************************)
EXTENDS MCWriteBuffer

\* The mirror scheduler of supercpu.cpp asks for 64 bytes at most, an eighth of
\* a chunk (flush(), which asks for more, has no caller), and spares the screen
\* and the bitmap only while the beam is in the picture, where the hot shapes
\* wait too.
ASSUME SchedulerAssumption ==
    /\ \A n \in MaxBytes : n <= Chunk
    /\ \A d \in Drains : d.only \/ d.hotWait \/ Region(d) = {}

VARIABLE older

\* onRamWrite(a, v) accepts a value for t: everything dirty now is older.  A
\* pointer byte that is itself rewritten is newer than every other pointer.
NoteWrite(a, v) ==
    LET t == Target(a)
    IN  older' = IF ~delivery \/ Refuses(a) \/ Redundant(a, v) THEN older
                 ELSE [p \in PointerRow |-> IF p = t THEN dirty \ {t}
                                            ELSE older[p] \ ({t} \cap PointerRow)]

\* A byte that left the queue is no longer awaited.  A display-time or priority
\* drain leaves entries behind that it may not send: what was promised of the
\* order before it lapses.
NoteDrain ==
    LET lapses == scan'.on /\ (scan'.args.only \/ scan'.args.hotWait)
    IN  older' = [p \in PointerRow |-> IF lapses THEN {} ELSE older[p] \cap dirty']

OrderInit == Init /\ older = [p \in PointerRow |-> {}]

OrderNext ==
    \/ \E a \in Addr, v \in Value : Write(a, v) /\ NoteWrite(a, v)
    \/ Replay /\ NoteWrite(Head(replay), ram[Head(replay)])
    \/ \E h \in HotSets : UpdateHotShapeBlocks(h) /\ NoteDrain
    \/ \E p \in Policies : SetOptimisation(p) /\ NoteDrain
    \/ Control /\ NoteDrain
    \/ Drain /\ NoteDrain
    \/ Resync /\ NoteDrain

OrderSpec == OrderInit /\ [][OrderNext]_<<vars, older>>

\* A sprite pointer is a commit record for the data it selects: until a drain
\* that spares entries comes between, it is never sent while a byte accepted
\* before it is still waiting behind it, even though coalescing reuses ring
\* entries (moveDirtyToTail).
PointerFollowsItsData ==
    \A i \in DOMAIN queue : queue[i] \in PointerRow =>
        \A c \in older[queue[i]] :
            c \in scan.burst \/ \E j \in DOMAIN queue : j < i /\ queue[j] = c
================================================================================
