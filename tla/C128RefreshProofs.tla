--------------------------- MODULE C128RefreshProofs ---------------------------
(***************************************************************************)
(* Proofs about C128Refresh: /DMA is never released during a transfer, and *)
(* core 3 keeps the promises core 0 builds on.                             *)
(***************************************************************************)
EXTENDS C128Refresh, TLAPS

\* The steps of core 3's side and those of core 0's, each with its store buffer.
Core3Does == EpochVisible \/ Core3Steps \/ Edges \/ BAChanges
Core0Does == BusyVisible \/ Transfers \/ Calls

\* The store buffers hold what the cores store.
StoresOK ==
    /\ epochStores \in Seq(EpochState) /\ busyStores \in Seq(BOOLEAN)
    /\ back \in {"run", "synced"}

\* Core 3's last store closes the epoch; core 0's last store raises busy.
LastCloses ==
    /\ epochStores = <<>> => epoch = "closing"
    /\ epochStores # <<>> => epochStores[Len(epochStores)] = "closing"
LastRaises ==
    /\ busyStores = <<>> => busy = TRUE
    /\ busyStores # <<>> => busyStores[Len(busyStores)] = TRUE

\* No open epoch is visible or on its way.
NoTraffic ==
    epoch # "traffic" /\ \A i \in 1 .. Len(epochStores) : epochStores[i] # "traffic"

\* Where core 3 may pulse, now or without another look at busy.
Pulsing == {"loop", "edge", "pulse", "timeUp", "measured", "lineTop"}

\* The service flags tell where the cores are.
ServiceInv ==
    /\ dmaReleased => pc3 = "pulse"
    /\ active <=> pc3 # "asleep"
    /\ requested <=> pc0 \notin {"off", "stopping"}
    /\ lineReq => pc0 \notin {"off", "starting", "unrequest", "stopping", "cancelling"}
    /\ pc3 = "asleep" => epochStores = <<>>
    /\ pc0 = "off" => pc3 = "asleep"

\* Core 3 has closed the epoch before it looks at busy, and keeps it closed.
EpochInv ==
    /\ pc3 = "barrier" => LastCloses
    /\ pc3 \in Pulsing \union {"closing"} => NoTraffic

\* Core 0 has raised busy before it looks at the epoch again, and keeps it up.
BusyInv ==
    /\ pc0 = "fence" => LastRaises
    /\ pc0 \in {"recheck", "owns"} => busyStores = <<>> /\ busy = TRUE

\* Whoever owns the bus excludes whoever may pulse.
OwnInv == pc0 = "owns" => pc3 \notin Pulsing

\* Line sync: the interval begins with core 3's answer and ends with a commit.
InSync == pc0 = "synced" \/ (back = "synced" /\ pc0 \in {"want", "fence", "recheck", "owns"})
SyncInv ==
    /\ pc0 = "beginning" \/ InSync => lineReq /\ ~committed
    /\ pc0 = "beginning" /\ lineReady => pc3 = "lineSync"
    /\ InSync => pc3 = "lineSync"

\* A fallback under line sync leaves core 3 in the fail-safe loop.
FallbackInv ==
    lineReq /\ fallback =>
        pc3 = "lineTop" \/ (loop = "failsafe" /\ pc3 \in {"loop", "edge", "pulse"})

IInv == StoresOK /\ ServiceInv /\ EpochInv /\ BusyInv /\ OwnInv /\ SyncInv /\ FallbackInv

--------------------------------------------------------------------------------
(* Sequences: what leaves a store buffer, and what is left in it.             *)

\* A store that becomes visible is the first one; the others move up.
LEMMA Popped ==
    ASSUME NEW S, NEW s \in Seq(S), s # <<>>
    PROVE  /\ Len(s) \in Nat /\ Len(s) >= 1
           /\ Head(s) = s[1] /\ Tail(s) \in Seq(S)
           /\ Len(Tail(s)) = Len(s) - 1
           /\ \A i \in 1 .. Len(s) - 1 : Tail(s)[i] = s[i + 1]
           /\ Tail(s) = <<>> => Len(s) = 1
<1>1. Len(s) \in Nat /\ Len(s) >= 1 /\ Head(s) = s[1] /\ Tail(s) \in Seq(S)
  OBVIOUS
<1>2. Len(Tail(s)) = Len(s) - 1
  OBVIOUS
<1>3. \A i \in 1 .. Len(s) - 1 : Tail(s)[i] = s[i + 1]
  OBVIOUS
<1>4. ASSUME Tail(s) = <<>> PROVE Len(s) = 1
  <2>1. Len(<<>>) = 0
    OBVIOUS
  <2>2. Len(s) - 1 = 0
    BY <1>2, <1>4, <2>1, Zenon
  <2> QED
    BY <1>1, <2>2
<1> QED
  BY <1>1, <1>2, <1>3, <1>4

\* A store goes in behind the others.
LEMMA Pushed ==
    ASSUME NEW S, NEW s \in Seq(S), NEW e \in S
    PROVE  /\ Append(s, e) \in Seq(S) /\ Append(s, e) # <<>>
           /\ Len(Append(s, e)) = Len(s) + 1 /\ Append(s, e)[Len(s) + 1] = e
           /\ \A i \in 1 .. Len(s) : Append(s, e)[i] = s[i]
  OBVIOUS

--------------------------------------------------------------------------------
(* What each side leaves alone.                                               *)

\* Core 3 writes neither busy nor core 0's flags; the epoch it shows was stored.
LEMMA Core3Frame ==
    ASSUME Core3Does
    PROVE  /\ UNCHANGED <<busy, busyStores, requested, lineReq, committed, pc0, back>>
           /\ epoch' = epoch \/ (epochStores # <<>> /\ epoch' = Head(epochStores))
<1> DEFINE Frame ==
       /\ UNCHANGED <<busy, busyStores, requested, lineReq, committed, pc0, back>>
       /\ epoch' = epoch \/ (epochStores # <<>> /\ epoch' = Head(epochStores))
<1> USE DEF serviceVars, lineVars, core0Vars, sharedVars
<1>1. CASE EpochVisible
  BY <1>1 DEF EpochVisible
<1>2. CASE Wake
  BY <1>2 DEF Wake
<1>3. CASE Top
  BY <1>3 DEF Top
<1>4. CASE Barrier
  BY <1>4 DEF Barrier
<1>5. CASE CloseDone
  BY <1>5 DEF CloseDone
<1>6. CASE LoopTest
  BY <1>6 DEF LoopTest
<1>7. CASE EdgeAborts
  BY <1>7 DEF EdgeAborts
<1>8. CASE PulseContinues
  BY <1>8 DEF PulseContinues
<1>9. CASE PulseCompletes
  BY <1>9 DEF PulseCompletes
<1>10. CASE TimeUp
  BY <1>10 DEF TimeUp
<1>11. CASE TrafficEnds
  BY <1>11 DEF TrafficEnds
<1>12. CASE LineSync
  BY <1>12 DEF LineSync
<1>13. ASSUME NEW bad \in BOOLEAN, Measured(bad) PROVE Frame
  BY <1>13 DEF Measured
<1>14. CASE LineTop
  BY <1>14 DEF LineTop
<1>15. CASE LineTrafficEnds
  BY <1>15 DEF LineTrafficEnds
<1>16. CASE Ack
  BY <1>16 DEF Ack
<1>17. CASE Acked
  BY <1>17 DEF Acked
<1>18. CASE EdgePulses
  BY <1>18 DEF EdgePulses
<1>19. CASE EdgeOpens
  BY <1>19 DEF EdgeOpens
<1>20. CASE BAChanges
  BY <1>20 DEF BAChanges
<1> QED
  BY <1>1, <1>2, <1>3, <1>4, <1>5, <1>6, <1>7, <1>8, <1>9, <1>10, <1>11,
     <1>12, <1>13, <1>14, <1>15, <1>16, <1>17, <1>18, <1>19, <1>20 DEF Core3Does, Core3Steps, Edges

\* Core 0 leaves /DMA and core 3's place alone, and opens no epoch:
\* it stores one only where the service is off.
LEMMA Core0Frame ==
    ASSUME Core0Does
    PROVE  /\ UNCHANGED <<epochStores, active, dmaReleased, pc3, loop>>
           /\ \/ epoch' = epoch
              \/ (pc0 = "off" \/ ~active) /\ epoch' \in {"off", "refresh"}
<1> DEFINE Frame == /\ UNCHANGED <<epochStores, active, dmaReleased, pc3, loop>>
                    /\ \/ epoch' = epoch
                       \/ (pc0 = "off" \/ ~active) /\ epoch' \in {"off", "refresh"}
<1> USE DEF At0, serviceVars, busVars, core3Vars, sharedVars
<1>1. CASE BusyVisible
  BY <1>1 DEF BusyVisible
<1>2. CASE TransferWanted
  BY <1>2 DEF TransferWanted
<1>3. CASE TryBegin
  BY <1>3 DEF TryBegin
<1>4. CASE Fence
  BY <1>4 DEF Fence
<1>5. CASE Recheck
  BY <1>5 DEF Recheck
<1>6. CASE TransferEnds
  BY <1>6 DEF TransferEnds
<1>7. CASE RefreshStart
  BY <1>7 DEF RefreshStart
<1>8. CASE RefreshStarted
  BY <1>8 DEF RefreshStarted
<1>9. CASE RefreshStop
  BY <1>9 DEF RefreshStop
<1>10. CASE RefreshUnrequested
  BY <1>10 DEF RefreshUnrequested
<1>11. CASE RefreshStopped
  BY <1>11 DEF RefreshStopped
<1>12. CASE ForceContinuous
  BY <1>12 DEF ForceContinuous
<1>13. CASE BeginLineSync
  BY <1>13 DEF BeginLineSync
<1>14. CASE LineSyncBegun
  BY <1>14 DEF LineSyncBegun
<1>15. CASE CommitLineSync
  BY <1>15 DEF CommitLineSync
<1>16. CASE NoTransitionSeen
  BY <1>16 DEF NoTransitionSeen
<1>17. CASE LineSyncCommitted
  BY <1>17 DEF LineSyncCommitted
<1>18. CASE CancelLineSync
  BY <1>18 DEF CancelLineSync
<1>19. CASE LineSyncCancelled
  BY <1>19 DEF LineSyncCancelled
<1> QED
  BY <1>1, <1>2, <1>3, <1>4, <1>5, <1>6, <1>7, <1>8, <1>9, <1>10, <1>11,
     <1>12, <1>13, <1>14, <1>15, <1>16, <1>17, <1>18, <1>19 DEF Core0Does, Transfers, Calls

\* Every step is one of the two sides'.
LEMMA Sides == ASSUME [Next]_vars PROVE Core3Does \/ Core0Does \/ UNCHANGED vars
  BY DEF Next, Memory, Core3Does, Core0Does

--------------------------------------------------------------------------------
(* Each part of the invariant.                                                *)

\* The buffers keep their types.
LEMMA StoresStep == ASSUME StoresOK, [Next]_vars PROVE StoresOK'
<1> USE DEF StoresOK, EpochState
<1>1. CASE Core3Does
  <2> USE DEF At3, Goto3, At0, Goto0, StoreEpoch, StoreBusy, sharedVars,
              serviceVars, lineVars, busVars, core3Vars, core0Vars
  <2>1. CASE EpochVisible
    BY <2>1 DEF EpochVisible
  <2>2. CASE Wake
    BY <2>2 DEF Wake
  <2>3. CASE Top
    BY <2>3, SMTT(30) DEF Top
  <2>4. CASE Barrier
    BY <2>4 DEF Barrier
  <2>5. CASE CloseDone
    BY <2>5, SMTT(30) DEF CloseDone
  <2>6. CASE LoopTest
    BY <2>6 DEF LoopTest
  <2>7. CASE EdgeAborts
    BY <2>7 DEF EdgeAborts
  <2>8. CASE PulseContinues
    BY <2>8 DEF PulseContinues
  <2>9. CASE PulseCompletes
    BY <2>9 DEF PulseCompletes
  <2>10. CASE TimeUp
    BY <2>10 DEF TimeUp
  <2>11. CASE TrafficEnds
    BY <2>11 DEF TrafficEnds
  <2>12. CASE LineSync
    BY <2>12 DEF LineSync
  <2>13. ASSUME NEW bad \in BOOLEAN, Measured(bad) PROVE StoresOK'
    BY <2>13 DEF Measured
  <2>14. CASE LineTop
    BY <2>14, SMTT(30) DEF LineTop
  <2>15. CASE LineTrafficEnds
    BY <2>15 DEF LineTrafficEnds
  <2>16. CASE Ack
    BY <2>16 DEF Ack
  <2>17. CASE Acked
    BY <2>17 DEF Acked
  <2>18. CASE EdgePulses
    BY <2>18 DEF EdgePulses
  <2>19. CASE EdgeOpens
    BY <2>19 DEF EdgeOpens
  <2>20. CASE BAChanges
    BY <2>20 DEF BAChanges
  <2> QED
    BY <1>1, <2>1, <2>2, <2>3, <2>4, <2>5, <2>6, <2>7, <2>8, <2>9, <2>10,
       <2>11, <2>12, <2>13, <2>14, <2>15, <2>16, <2>17, <2>18, <2>19, <2>20
        DEF Core3Does, Core3Steps, Edges
<1>2. CASE Core0Does
  <2> USE DEF At3, Goto3, At0, Goto0, StoreEpoch, StoreBusy, sharedVars,
              serviceVars, lineVars, busVars, core3Vars, core0Vars
  <2>1. CASE BusyVisible
    BY <2>1 DEF BusyVisible
  <2>2. CASE TransferWanted
    BY <2>2 DEF TransferWanted
  <2>3. CASE TryBegin
    BY <2>3, Pushed DEF TryBegin
  <2>4. CASE Fence
    BY <2>4 DEF Fence
  <2>5. CASE Recheck
    BY <2>5, Pushed DEF Recheck
  <2>6. CASE TransferEnds
    BY <2>6, Pushed DEF TransferEnds
  <2>7. CASE RefreshStart
    BY <2>7 DEF RefreshStart
  <2>8. CASE RefreshStarted
    BY <2>8 DEF RefreshStarted
  <2>9. CASE RefreshStop
    BY <2>9 DEF RefreshStop
  <2>10. CASE RefreshUnrequested
    BY <2>10 DEF RefreshUnrequested
  <2>11. CASE RefreshStopped
    BY <2>11 DEF RefreshStopped
  <2>12. CASE ForceContinuous
    BY <2>12 DEF ForceContinuous
  <2>13. CASE BeginLineSync
    BY <2>13 DEF BeginLineSync
  <2>14. CASE LineSyncBegun
    BY <2>14 DEF LineSyncBegun
  <2>15. CASE CommitLineSync
    BY <2>15 DEF CommitLineSync
  <2>16. CASE NoTransitionSeen
    BY <2>16 DEF NoTransitionSeen
  <2>17. CASE LineSyncCommitted
    BY <2>17 DEF LineSyncCommitted
  <2>18. CASE CancelLineSync
    BY <2>18 DEF CancelLineSync
  <2>19. CASE LineSyncCancelled
    BY <2>19 DEF LineSyncCancelled
  <2> QED
    BY <1>2, <2>1, <2>2, <2>3, <2>4, <2>5, <2>6, <2>7, <2>8, <2>9, <2>10,
       <2>11, <2>12, <2>13, <2>14, <2>15, <2>16, <2>17, <2>18, <2>19 DEF Core0Does, Transfers, Calls
<1>3. CASE UNCHANGED vars
  BY <1>3 DEF vars, sharedVars, serviceVars, lineVars, busVars, core3Vars, core0Vars
<1> QED
  BY <1>1, <1>2, <1>3, Sides

\* The flags keep in step with the program counters.
LEMMA ServiceStep == ASSUME StoresOK, ServiceInv, [Next]_vars PROVE ServiceInv'
<1> USE DEF StoresOK, ServiceInv
<1>1. CASE Core3Does
  <2> USE DEF At3, Goto3, At0, Goto0, StoreEpoch, StoreBusy, sharedVars,
              serviceVars, lineVars, busVars, core3Vars, core0Vars
  <2>1. CASE EpochVisible
    BY <2>1 DEF EpochVisible
  <2>2. CASE Wake
    BY <2>2 DEF Wake
  <2>3. CASE Top
    BY <2>3 DEF Top
  <2>4. CASE Barrier
    BY <2>4 DEF Barrier
  <2>5. CASE CloseDone
    BY <2>5 DEF CloseDone
  <2>6. CASE LoopTest
    BY <2>6 DEF LoopTest
  <2>7. CASE EdgeAborts
    BY <2>7 DEF EdgeAborts
  <2>8. CASE PulseContinues
    BY <2>8 DEF PulseContinues
  <2>9. CASE PulseCompletes
    BY <2>9 DEF PulseCompletes
  <2>10. CASE TimeUp
    BY <2>10 DEF TimeUp
  <2>11. CASE TrafficEnds
    BY <2>11 DEF TrafficEnds
  <2>12. CASE LineSync
    BY <2>12 DEF LineSync
  <2>13. ASSUME NEW bad \in BOOLEAN, Measured(bad) PROVE ServiceInv'
    BY <2>13 DEF Measured
  <2>14. CASE LineTop
    BY <2>14 DEF LineTop
  <2>15. CASE LineTrafficEnds
    BY <2>15 DEF LineTrafficEnds
  <2>16. CASE Ack
    BY <2>16 DEF Ack
  <2>17. CASE Acked
    BY <2>17 DEF Acked
  <2>18. CASE EdgePulses
    BY <2>18 DEF EdgePulses
  <2>19. CASE EdgeOpens
    BY <2>19 DEF EdgeOpens
  <2>20. CASE BAChanges
    BY <2>20 DEF BAChanges
  <2> QED
    BY <1>1, <2>1, <2>2, <2>3, <2>4, <2>5, <2>6, <2>7, <2>8, <2>9, <2>10,
       <2>11, <2>12, <2>13, <2>14, <2>15, <2>16, <2>17, <2>18, <2>19, <2>20
        DEF Core3Does, Core3Steps, Edges
<1>2. CASE Core0Does
  <2> USE DEF At3, Goto3, At0, Goto0, StoreEpoch, StoreBusy, sharedVars,
              serviceVars, lineVars, busVars, core3Vars, core0Vars
  <2>1. CASE BusyVisible
    BY <2>1 DEF BusyVisible
  <2>2. CASE TransferWanted
    BY <2>2 DEF TransferWanted
  <2>3. CASE TryBegin
    BY <2>3 DEF TryBegin
  <2>4. CASE Fence
    BY <2>4 DEF Fence
  <2>5. CASE Recheck
    BY <2>5 DEF Recheck
  <2>6. CASE TransferEnds
    BY <2>6 DEF TransferEnds
  <2>7. CASE RefreshStart
    BY <2>7 DEF RefreshStart
  <2>8. CASE RefreshStarted
    BY <2>8 DEF RefreshStarted
  <2>9. CASE RefreshStop
    BY <2>9 DEF RefreshStop
  <2>10. CASE RefreshUnrequested
    BY <2>10 DEF RefreshUnrequested
  <2>11. CASE RefreshStopped
    BY <2>11 DEF RefreshStopped
  <2>12. CASE ForceContinuous
    BY <2>12 DEF ForceContinuous
  <2>13. CASE BeginLineSync
    BY <2>13 DEF BeginLineSync
  <2>14. CASE LineSyncBegun
    BY <2>14 DEF LineSyncBegun
  <2>15. CASE CommitLineSync
    BY <2>15 DEF CommitLineSync
  <2>16. CASE NoTransitionSeen
    BY <2>16 DEF NoTransitionSeen
  <2>17. CASE LineSyncCommitted
    BY <2>17 DEF LineSyncCommitted
  <2>18. CASE CancelLineSync
    BY <2>18 DEF CancelLineSync
  <2>19. CASE LineSyncCancelled
    BY <2>19 DEF LineSyncCancelled
  <2> QED
    BY <1>2, <2>1, <2>2, <2>3, <2>4, <2>5, <2>6, <2>7, <2>8, <2>9, <2>10,
       <2>11, <2>12, <2>13, <2>14, <2>15, <2>16, <2>17, <2>18, <2>19 DEF Core0Does, Transfers, Calls
<1>3. CASE UNCHANGED vars
  BY <1>3 DEF vars, sharedVars, serviceVars, lineVars, busVars, core3Vars, core0Vars
<1> QED
  BY <1>1, <1>2, <1>3, Sides

\* Core 3 closes the epoch before it looks at busy; core 0 never opens it.
LEMMA EpochStep == ASSUME StoresOK, ServiceInv, EpochInv, [Next]_vars PROVE EpochInv'
<1> USE DEF StoresOK, ServiceInv, EpochInv, LastCloses, NoTraffic, Pulsing
<1>1. CASE Core3Does
  <2> USE DEF At3, Goto3, At0, Goto0, StoreEpoch, StoreBusy, sharedVars,
              serviceVars, lineVars, busVars, core3Vars, core0Vars
  <2>1. CASE EpochVisible
    BY <2>1, Popped DEF EpochVisible
  <2>2. CASE Wake
    BY <2>2 DEF Wake
  <2>3. CASE Top
    BY <2>3 DEF Top
  <2>4. CASE Barrier
    BY <2>4 DEF Barrier
  <2>5. CASE CloseDone
    BY <2>5 DEF CloseDone
  <2>6. CASE LoopTest
    BY <2>6 DEF LoopTest
  <2>7. CASE EdgeAborts
    BY <2>7 DEF EdgeAborts
  <2>8. CASE PulseContinues
    BY <2>8 DEF PulseContinues
  <2>9. CASE PulseCompletes
    BY <2>9 DEF PulseCompletes
  <2>10. CASE TimeUp
    BY <2>10 DEF TimeUp
  <2>11. CASE TrafficEnds
    BY <2>11 DEF TrafficEnds
  <2>12. CASE LineSync
    BY <2>12 DEF LineSync
  <2>13. ASSUME NEW bad \in BOOLEAN, Measured(bad) PROVE EpochInv'
    BY <2>13 DEF Measured
  <2>14. CASE LineTop
    BY <2>14 DEF LineTop
  <2>15. CASE LineTrafficEnds
    BY <2>15 DEF LineTrafficEnds
  <2>16. CASE Ack
    BY <2>16 DEF Ack
  <2>17. CASE Acked
    BY <2>17 DEF Acked
  <2>18. CASE EdgePulses
    BY <2>18 DEF EdgePulses
  <2>19. CASE EdgeOpens
    BY <2>19 DEF EdgeOpens
  <2>20. CASE BAChanges
    BY <2>20 DEF BAChanges
  <2> QED
    BY <1>1, <2>1, <2>2, <2>3, <2>4, <2>5, <2>6, <2>7, <2>8, <2>9, <2>10,
       <2>11, <2>12, <2>13, <2>14, <2>15, <2>16, <2>17, <2>18, <2>19, <2>20
        DEF Core3Does, Core3Steps, Edges
<1>2. CASE Core0Does
  BY <1>2, Core0Frame
<1>3. CASE UNCHANGED vars
  BY <1>3 DEF vars, sharedVars, serviceVars, lineVars, busVars, core3Vars, core0Vars
<1> QED
  BY <1>1, <1>2, <1>3, Sides

\* Core 0 raises busy before it looks at the epoch again.
LEMMA BusyStep == ASSUME StoresOK, BusyInv, [Next]_vars PROVE BusyInv'
<1> USE DEF StoresOK, BusyInv, LastRaises
<1>1. CASE Core3Does
  BY <1>1, Core3Frame
<1>2. CASE Core0Does
  <2> USE DEF At3, Goto3, At0, Goto0, StoreEpoch, StoreBusy, sharedVars,
              serviceVars, lineVars, busVars, core3Vars, core0Vars
  <2>1. CASE BusyVisible
    BY <2>1, Popped DEF BusyVisible
  <2>2. CASE TransferWanted
    BY <2>2 DEF TransferWanted
  <2>3. CASE TryBegin
    <3>1. busyStores' = Append(busyStores, TRUE) /\ pc0' = "fence"
      BY <2>3 DEF TryBegin
    <3>2. busyStores' # <<>> /\ Len(busyStores') = Len(busyStores) + 1
          /\ busyStores'[Len(busyStores) + 1] = TRUE
      <4>1. busyStores \in Seq(BOOLEAN) /\ TRUE \in BOOLEAN
        BY Zenon
      <4> QED
        BY <3>1, <4>1, Pushed, Zenon
    <3> QED
      BY <3>1, <3>2
  <2>4. CASE Fence
    BY <2>4 DEF Fence
  <2>5. CASE Recheck
    BY <2>5 DEF Recheck
  <2>6. CASE TransferEnds
    BY <2>6 DEF TransferEnds
  <2>7. CASE RefreshStart
    BY <2>7 DEF RefreshStart
  <2>8. CASE RefreshStarted
    BY <2>8 DEF RefreshStarted
  <2>9. CASE RefreshStop
    BY <2>9 DEF RefreshStop
  <2>10. CASE RefreshUnrequested
    BY <2>10 DEF RefreshUnrequested
  <2>11. CASE RefreshStopped
    BY <2>11 DEF RefreshStopped
  <2>12. CASE ForceContinuous
    BY <2>12 DEF ForceContinuous
  <2>13. CASE BeginLineSync
    BY <2>13 DEF BeginLineSync
  <2>14. CASE LineSyncBegun
    BY <2>14 DEF LineSyncBegun
  <2>15. CASE CommitLineSync
    BY <2>15 DEF CommitLineSync
  <2>16. CASE NoTransitionSeen
    BY <2>16 DEF NoTransitionSeen
  <2>17. CASE LineSyncCommitted
    BY <2>17 DEF LineSyncCommitted
  <2>18. CASE CancelLineSync
    BY <2>18 DEF CancelLineSync
  <2>19. CASE LineSyncCancelled
    BY <2>19 DEF LineSyncCancelled
  <2> QED
    BY <1>2, <2>1, <2>2, <2>3, <2>4, <2>5, <2>6, <2>7, <2>8, <2>9, <2>10,
       <2>11, <2>12, <2>13, <2>14, <2>15, <2>16, <2>17, <2>18, <2>19 DEF Core0Does, Transfers, Calls
<1>3. CASE UNCHANGED vars
  BY <1>3 DEF vars, sharedVars, serviceVars, lineVars, busVars, core3Vars, core0Vars
<1> QED
  BY <1>1, <1>2, <1>3, Sides

\* Core 3 enters its loops only when busy is clear or the service is being
\* stopped; core 0 takes the bus only while the epoch is open.
LEMMA OwnStep == ASSUME ServiceInv, EpochInv, BusyInv, OwnInv, [Next]_vars PROVE OwnInv'
<1> USE DEF ServiceInv, EpochInv, BusyInv, OwnInv, NoTraffic, Pulsing
<1>1. CASE Core3Does
  <2> USE DEF At3, Goto3, At0, Goto0, StoreEpoch, StoreBusy, sharedVars,
              serviceVars, lineVars, busVars, core3Vars, core0Vars
  <2>1. CASE EpochVisible
    BY <2>1 DEF EpochVisible
  <2>2. CASE Wake
    BY <2>2 DEF Wake
  <2>3. CASE Top
    BY <2>3 DEF Top
  <2>4. CASE Barrier
    BY <2>4 DEF Barrier
  <2>5. CASE CloseDone
    BY <2>5 DEF CloseDone
  <2>6. CASE LoopTest
    BY <2>6 DEF LoopTest
  <2>7. CASE EdgeAborts
    BY <2>7 DEF EdgeAborts
  <2>8. CASE PulseContinues
    BY <2>8 DEF PulseContinues
  <2>9. CASE PulseCompletes
    BY <2>9 DEF PulseCompletes
  <2>10. CASE TimeUp
    BY <2>10 DEF TimeUp
  <2>11. CASE TrafficEnds
    BY <2>11 DEF TrafficEnds
  <2>12. CASE LineSync
    BY <2>12 DEF LineSync
  <2>13. ASSUME NEW bad \in BOOLEAN, Measured(bad) PROVE OwnInv'
    BY <2>13 DEF Measured
  <2>14. CASE LineTop
    BY <2>14 DEF LineTop
  <2>15. CASE LineTrafficEnds
    BY <2>15 DEF LineTrafficEnds
  <2>16. CASE Ack
    BY <2>16 DEF Ack
  <2>17. CASE Acked
    BY <2>17 DEF Acked
  <2>18. CASE EdgePulses
    BY <2>18 DEF EdgePulses
  <2>19. CASE EdgeOpens
    BY <2>19 DEF EdgeOpens
  <2>20. CASE BAChanges
    BY <2>20 DEF BAChanges
  <2> QED
    BY <1>1, <2>1, <2>2, <2>3, <2>4, <2>5, <2>6, <2>7, <2>8, <2>9, <2>10,
       <2>11, <2>12, <2>13, <2>14, <2>15, <2>16, <2>17, <2>18, <2>19, <2>20
        DEF Core3Does, Core3Steps, Edges
<1>2. CASE Core0Does
  <2> USE DEF At3, Goto3, At0, Goto0, StoreEpoch, StoreBusy, sharedVars,
              serviceVars, lineVars, busVars, core3Vars, core0Vars
  <2>1. CASE BusyVisible
    BY <2>1 DEF BusyVisible
  <2>2. CASE TransferWanted
    BY <2>2 DEF TransferWanted
  <2>3. CASE TryBegin
    BY <2>3 DEF TryBegin
  <2>4. CASE Fence
    BY <2>4 DEF Fence
  <2>5. CASE Recheck
    BY <2>5 DEF Recheck
  <2>6. CASE TransferEnds
    BY <2>6 DEF TransferEnds
  <2>7. CASE RefreshStart
    BY <2>7 DEF RefreshStart
  <2>8. CASE RefreshStarted
    BY <2>8 DEF RefreshStarted
  <2>9. CASE RefreshStop
    BY <2>9 DEF RefreshStop
  <2>10. CASE RefreshUnrequested
    BY <2>10 DEF RefreshUnrequested
  <2>11. CASE RefreshStopped
    BY <2>11 DEF RefreshStopped
  <2>12. CASE ForceContinuous
    BY <2>12 DEF ForceContinuous
  <2>13. CASE BeginLineSync
    BY <2>13 DEF BeginLineSync
  <2>14. CASE LineSyncBegun
    BY <2>14 DEF LineSyncBegun
  <2>15. CASE CommitLineSync
    BY <2>15 DEF CommitLineSync
  <2>16. CASE NoTransitionSeen
    BY <2>16 DEF NoTransitionSeen
  <2>17. CASE LineSyncCommitted
    BY <2>17 DEF LineSyncCommitted
  <2>18. CASE CancelLineSync
    BY <2>18 DEF CancelLineSync
  <2>19. CASE LineSyncCancelled
    BY <2>19 DEF LineSyncCancelled
  <2> QED
    BY <1>2, <2>1, <2>2, <2>3, <2>4, <2>5, <2>6, <2>7, <2>8, <2>9, <2>10,
       <2>11, <2>12, <2>13, <2>14, <2>15, <2>16, <2>17, <2>18, <2>19 DEF Core0Does, Transfers, Calls
<1>3. CASE UNCHANGED vars
  BY <1>3 DEF vars, sharedVars, serviceVars, lineVars, busVars, core3Vars, core0Vars
<1> QED
  BY <1>1, <1>2, <1>3, Sides

\* Core 3 leaves the interval only for a commit or the end of the request.
LEMMA SyncStep == ASSUME StoresOK, ServiceInv, SyncInv, [Next]_vars PROVE SyncInv'
<1> USE DEF StoresOK, ServiceInv, SyncInv, InSync
<1>1. CASE Core3Does
  <2> USE DEF At3, Goto3, At0, Goto0, StoreEpoch, StoreBusy, sharedVars,
              serviceVars, lineVars, busVars, core3Vars, core0Vars
  <2>1. CASE EpochVisible
    BY <2>1 DEF EpochVisible
  <2>2. CASE Wake
    BY <2>2 DEF Wake
  <2>3. CASE Top
    BY <2>3 DEF Top
  <2>4. CASE Barrier
    BY <2>4 DEF Barrier
  <2>5. CASE CloseDone
    BY <2>5 DEF CloseDone
  <2>6. CASE LoopTest
    BY <2>6 DEF LoopTest
  <2>7. CASE EdgeAborts
    BY <2>7 DEF EdgeAborts
  <2>8. CASE PulseContinues
    BY <2>8 DEF PulseContinues
  <2>9. CASE PulseCompletes
    BY <2>9 DEF PulseCompletes
  <2>10. CASE TimeUp
    BY <2>10 DEF TimeUp
  <2>11. CASE TrafficEnds
    BY <2>11 DEF TrafficEnds
  <2>12. CASE LineSync
    BY <2>12 DEF LineSync
  <2>13. ASSUME NEW bad \in BOOLEAN, Measured(bad) PROVE SyncInv'
    BY <2>13 DEF Measured
  <2>14. CASE LineTop
    BY <2>14 DEF LineTop
  <2>15. CASE LineTrafficEnds
    BY <2>15 DEF LineTrafficEnds
  <2>16. CASE Ack
    BY <2>16 DEF Ack
  <2>17. CASE Acked
    BY <2>17 DEF Acked
  <2>18. CASE EdgePulses
    BY <2>18 DEF EdgePulses
  <2>19. CASE EdgeOpens
    BY <2>19 DEF EdgeOpens
  <2>20. CASE BAChanges
    BY <2>20 DEF BAChanges
  <2> QED
    BY <1>1, <2>1, <2>2, <2>3, <2>4, <2>5, <2>6, <2>7, <2>8, <2>9, <2>10,
       <2>11, <2>12, <2>13, <2>14, <2>15, <2>16, <2>17, <2>18, <2>19, <2>20
        DEF Core3Does, Core3Steps, Edges
<1>2. CASE Core0Does
  <2> USE DEF At3, Goto3, At0, Goto0, StoreEpoch, StoreBusy, sharedVars,
              serviceVars, lineVars, busVars, core3Vars, core0Vars
  <2>1. CASE BusyVisible
    BY <2>1 DEF BusyVisible
  <2>2. CASE TransferWanted
    BY <2>2 DEF TransferWanted
  <2>3. CASE TryBegin
    BY <2>3 DEF TryBegin
  <2>4. CASE Fence
    BY <2>4 DEF Fence
  <2>5. CASE Recheck
    BY <2>5 DEF Recheck
  <2>6. CASE TransferEnds
    BY <2>6 DEF TransferEnds
  <2>7. CASE RefreshStart
    BY <2>7 DEF RefreshStart
  <2>8. CASE RefreshStarted
    BY <2>8 DEF RefreshStarted
  <2>9. CASE RefreshStop
    BY <2>9 DEF RefreshStop
  <2>10. CASE RefreshUnrequested
    BY <2>10 DEF RefreshUnrequested
  <2>11. CASE RefreshStopped
    BY <2>11 DEF RefreshStopped
  <2>12. CASE ForceContinuous
    BY <2>12 DEF ForceContinuous
  <2>13. CASE BeginLineSync
    BY <2>13 DEF BeginLineSync
  <2>14. CASE LineSyncBegun
    BY <2>14 DEF LineSyncBegun
  <2>15. CASE CommitLineSync
    BY <2>15 DEF CommitLineSync
  <2>16. CASE NoTransitionSeen
    BY <2>16 DEF NoTransitionSeen
  <2>17. CASE LineSyncCommitted
    BY <2>17 DEF LineSyncCommitted
  <2>18. CASE CancelLineSync
    BY <2>18 DEF CancelLineSync
  <2>19. CASE LineSyncCancelled
    BY <2>19 DEF LineSyncCancelled
  <2> QED
    BY <1>2, <2>1, <2>2, <2>3, <2>4, <2>5, <2>6, <2>7, <2>8, <2>9, <2>10,
       <2>11, <2>12, <2>13, <2>14, <2>15, <2>16, <2>17, <2>18, <2>19 DEF Core0Does, Transfers, Calls
<1>3. CASE UNCHANGED vars
  BY <1>3 DEF vars, sharedVars, serviceVars, lineVars, busVars, core3Vars, core0Vars
<1> QED
  BY <1>1, <1>2, <1>3, Sides

\* Core 3 leaves the fail-safe loop only when the request for line sync ends.
LEMMA FallbackStep == ASSUME ServiceInv, FallbackInv, [Next]_vars PROVE FallbackInv'
<1> USE DEF ServiceInv, FallbackInv
<1>1. CASE Core3Does
  <2> USE DEF At3, Goto3, At0, Goto0, StoreEpoch, StoreBusy, sharedVars,
              serviceVars, lineVars, busVars, core3Vars, core0Vars
  <2>1. CASE EpochVisible
    BY <2>1 DEF EpochVisible
  <2>2. CASE Wake
    BY <2>2 DEF Wake
  <2>3. CASE Top
    BY <2>3 DEF Top
  <2>4. CASE Barrier
    BY <2>4 DEF Barrier
  <2>5. CASE CloseDone
    BY <2>5 DEF CloseDone
  <2>6. CASE LoopTest
    BY <2>6 DEF LoopTest
  <2>7. CASE EdgeAborts
    BY <2>7 DEF EdgeAborts
  <2>8. CASE PulseContinues
    BY <2>8 DEF PulseContinues
  <2>9. CASE PulseCompletes
    BY <2>9 DEF PulseCompletes
  <2>10. CASE TimeUp
    BY <2>10 DEF TimeUp
  <2>11. CASE TrafficEnds
    BY <2>11 DEF TrafficEnds
  <2>12. CASE LineSync
    BY <2>12 DEF LineSync
  <2>13. ASSUME NEW bad \in BOOLEAN, Measured(bad) PROVE FallbackInv'
    BY <2>13 DEF Measured
  <2>14. CASE LineTop
    BY <2>14 DEF LineTop
  <2>15. CASE LineTrafficEnds
    BY <2>15 DEF LineTrafficEnds
  <2>16. CASE Ack
    BY <2>16 DEF Ack
  <2>17. CASE Acked
    BY <2>17 DEF Acked
  <2>18. CASE EdgePulses
    BY <2>18 DEF EdgePulses
  <2>19. CASE EdgeOpens
    BY <2>19 DEF EdgeOpens
  <2>20. CASE BAChanges
    BY <2>20 DEF BAChanges
  <2> QED
    BY <1>1, <2>1, <2>2, <2>3, <2>4, <2>5, <2>6, <2>7, <2>8, <2>9, <2>10,
       <2>11, <2>12, <2>13, <2>14, <2>15, <2>16, <2>17, <2>18, <2>19, <2>20
        DEF Core3Does, Core3Steps, Edges
<1>2. CASE Core0Does
  <2> USE DEF At3, Goto3, At0, Goto0, StoreEpoch, StoreBusy, sharedVars,
              serviceVars, lineVars, busVars, core3Vars, core0Vars
  <2>1. CASE BusyVisible
    BY <2>1 DEF BusyVisible
  <2>2. CASE TransferWanted
    BY <2>2 DEF TransferWanted
  <2>3. CASE TryBegin
    BY <2>3 DEF TryBegin
  <2>4. CASE Fence
    BY <2>4 DEF Fence
  <2>5. CASE Recheck
    BY <2>5 DEF Recheck
  <2>6. CASE TransferEnds
    BY <2>6 DEF TransferEnds
  <2>7. CASE RefreshStart
    BY <2>7 DEF RefreshStart
  <2>8. CASE RefreshStarted
    BY <2>8 DEF RefreshStarted
  <2>9. CASE RefreshStop
    BY <2>9 DEF RefreshStop
  <2>10. CASE RefreshUnrequested
    BY <2>10 DEF RefreshUnrequested
  <2>11. CASE RefreshStopped
    BY <2>11 DEF RefreshStopped
  <2>12. CASE ForceContinuous
    BY <2>12 DEF ForceContinuous
  <2>13. CASE BeginLineSync
    BY <2>13 DEF BeginLineSync
  <2>14. CASE LineSyncBegun
    BY <2>14 DEF LineSyncBegun
  <2>15. CASE CommitLineSync
    BY <2>15 DEF CommitLineSync
  <2>16. CASE NoTransitionSeen
    BY <2>16 DEF NoTransitionSeen
  <2>17. CASE LineSyncCommitted
    BY <2>17 DEF LineSyncCommitted
  <2>18. CASE CancelLineSync
    BY <2>18 DEF CancelLineSync
  <2>19. CASE LineSyncCancelled
    BY <2>19 DEF LineSyncCancelled
  <2> QED
    BY <1>2, <2>1, <2>2, <2>3, <2>4, <2>5, <2>6, <2>7, <2>8, <2>9, <2>10,
       <2>11, <2>12, <2>13, <2>14, <2>15, <2>16, <2>17, <2>18, <2>19 DEF Core0Does, Transfers, Calls
<1>3. CASE UNCHANGED vars
  BY <1>3 DEF vars, sharedVars, serviceVars, lineVars, busVars, core3Vars, core0Vars
<1> QED
  BY <1>1, <1>2, <1>3, Sides

\* The whole is inductive.
LEMMA Inductive == Spec => []IInv
<1>1. Init => IInv
  BY DEF Init, IInv, StoresOK, ServiceInv, EpochInv, BusyInv, OwnInv, SyncInv,
         FallbackInv, InSync, Pulsing
<1>2. IInv /\ [Next]_vars => IInv'
  BY StoresStep, ServiceStep, EpochStep, BusyStep, OwnStep, SyncStep, FallbackStep DEF IInv
<1> QED
  BY <1>1, <1>2, PTL DEF Spec

--------------------------------------------------------------------------------
(* The theorems.                                                              *)

\* Whichever way a closing epoch and a claim cross in the store buffers, core 3
\* does not let go of /DMA while core 0 drives the bus.
THEOREM NeverPulsedUnderTransfer == Spec => []NoPulseDuringTransfer
<1>1. IInv => NoPulseDuringTransfer
  BY DEF IInv, ServiceInv, OwnInv, Pulsing, NoPulseDuringTransfer
<1> QED
  BY <1>1, Inductive, PTL

\* Core 3 is quiet once c128RefreshStop has returned, stays out of the line-sync
\* interval, and keeps traffic shut in the fallback.
THEOREM PromisesKept == Spec => Core3KeepsOut
<1>1. IInv => StopMeansQuiet
  BY DEF IInv, ServiceInv, StopMeansQuiet
<1>2. IInv => SyncIntervalExclusive
  BY DEF IInv, SyncInv, InSync, SyncIntervalExclusive
<1>3. ASSUME IInv, [Next]_vars
      PROVE  [fallback /\ lineReq /\ lineActive /\ fallback' /\ lineReq' /\ requested'
                => ~(epoch # "traffic" /\ epoch' = "traffic")]_vars
  <2> SUFFICES ASSUME fallback, lineReq PROVE epoch' # "traffic"
    OBVIOUS
  <2>1. NoTraffic
    BY <1>3 DEF IInv, FallbackInv, EpochInv, Pulsing
  <2>2. CASE Core3Does
    BY <2>1, <2>2, <1>3, Core3Frame, Popped DEF NoTraffic, IInv, StoresOK
  <2>3. CASE Core0Does
    BY <2>1, <2>3, Core0Frame DEF NoTraffic
  <2>4. CASE UNCHANGED vars
    BY <2>1, <2>4 DEF NoTraffic, vars, sharedVars
  <2> QED
    BY <1>3, <2>2, <2>3, <2>4, Sides
<1> QED
  BY <1>1, <1>2, <1>3, Inductive, PTL DEF Spec, Core3KeepsOut, FallbackStaysShut

================================================================================
