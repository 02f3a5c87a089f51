------------------------------ MODULE C128Refresh ------------------------------
(***************************************************************************)
(* The C128 DRAM refresh service (src/Source/Bus/RAD/c128_refresh.{h,cpp}).*)
(*                                                                         *)
(* Core 3 lets go of /DMA for part of a PHI half-cycle so that the VIC can *)
(* refresh the DRAM; core 0 drives the same bus for its transfers.  They   *)
(* keep out of each other's way through g_C128EpochState, which core 3     *)
(* opens and closes, and g_C128TrafficBusy, which core 0 raises.  These    *)
(* two are stored through a store buffer per core that a DataMemBarrier    *)
(* drains; the service flags are each followed by a DataSyncBarrier and    *)
(* are taken as sequentially consistent.                                   *)
(*                                                                         *)
(* Time is not modelled: a deadline may pass at any moment, and a bounded  *)
(* spin may give up at any moment.  The window-scan diagnostic is left out.*)
(***************************************************************************)
EXTENDS Integers, Sequences

VARIABLES
    epoch,       \* g_C128EpochState in memory
    busy,        \* g_C128TrafficBusy in memory
    epochStores, \* core 3's stores to g_C128EpochState not yet visible
    busyStores,  \* core 0's stores to g_C128TrafficBusy not yet visible
    requested, active,       \* s_RefreshRequested, s_RefreshActive
    lineReq, lineReady,      \* s_LineSyncRequested, s_LineSyncReady
    committed, lineActive,   \* s_LineSyncCommitted, s_LineActive
    fallback, force,         \* s_LineFallback, s_ForceContinuousRefresh
    dmaReleased, \* /DMA is high: core 3 is inside c128PulseDMA
    ba,          \* BA is high: the VIC leaves the CPU half-cycles alone
    pc3, loop,   \* core 3: where it is, and in which of its four loops
    pc0, back,   \* core 0: where it is, and where a transfer returns to
    begun        \* c128RefreshBeginLineSync was called since the last start

sharedVars  == <<epoch, busy, epochStores, busyStores>>
serviceVars == <<requested, active>>
lineVars    == <<lineReq, lineReady, committed, lineActive, fallback>>
busVars     == <<dmaReleased, ba>>
core3Vars   == <<pc3, loop>>
core0Vars   == <<pc0, back, begun, force>>
vars == <<sharedVars, serviceVars, lineVars, busVars, core3Vars, core0Vars>>

\* 0 off, 1 traffic, 2 closing, 3 refresh
EpochState == {"off", "traffic", "closing", "refresh"}

\* The loops of core 3 that pulse /DMA: a coarse refresh epoch, the guarded
\* pulses that measure PHI, the rest of a raster line, and the fail-safe.
Loops == {"coarse", "measure", "line", "failsafe"}

TypeOK ==
    /\ epoch \in EpochState /\ epochStores \in Seq(EpochState)
    /\ busy \in BOOLEAN /\ busyStores \in Seq(BOOLEAN)
    /\ requested \in BOOLEAN /\ active \in BOOLEAN
    /\ lineReq \in BOOLEAN /\ lineReady \in BOOLEAN /\ committed \in BOOLEAN
    /\ lineActive \in BOOLEAN /\ fallback \in BOOLEAN /\ force \in BOOLEAN
    /\ dmaReleased \in BOOLEAN /\ ba \in BOOLEAN /\ begun \in BOOLEAN
    /\ pc3 \in {"asleep", "top", "barrier", "closing", "loop", "edge", "pulse",
                "timeUp", "traffic", "lineSync", "measured", "lineTop",
                "lineTraffic", "ack", "acked"}
    /\ loop \in Loops
    /\ pc0 \in {"off", "starting", "run", "want", "fence", "recheck", "owns",
                "beginning", "synced", "committing", "abandon", "cancelling",
                "unrequest", "stopping"}
    /\ back \in {"run", "synced"}

Init ==
    /\ epoch = "off" /\ epochStores = <<>>
    /\ busy = FALSE /\ busyStores = <<>>
    /\ requested = FALSE /\ active = FALSE
    /\ lineReq = FALSE /\ lineReady = FALSE /\ committed = FALSE
    /\ lineActive = FALSE /\ fallback = FALSE /\ force = FALSE
    /\ dmaReleased = FALSE /\ ba = TRUE /\ begun = FALSE
    /\ pc3 = "asleep" /\ loop = "coarse"
    /\ pc0 = "off" /\ back = "run"

--------------------------------------------------------------------------------
(* Memory: a store becomes visible some time after it is issued.              *)

StoreEpoch(e) == epochStores' = Append(epochStores, e)
StoreBusy(b)  == busyStores' = Append(busyStores, b)

EpochVisible ==
    /\ epochStores # <<>>
    /\ epoch' = Head(epochStores)
    /\ epochStores' = Tail(epochStores)
    /\ UNCHANGED <<busy, busyStores, serviceVars, lineVars, busVars, core3Vars, core0Vars>>

BusyVisible ==
    /\ busyStores # <<>>
    /\ busy' = Head(busyStores)
    /\ busyStores' = Tail(busyStores)
    /\ UNCHANGED <<epoch, epochStores, serviceVars, lineVars, busVars, core3Vars, core0Vars>>

--------------------------------------------------------------------------------
(* Core 3: CC128RefreshService::Run and c128RunLineScheduler.                 *)

At3(l) == pc3 = l
Goto3(l) == pc3' = l

Wake ==
    /\ At3("asleep") /\ requested
    /\ active' = TRUE
    /\ Goto3("top")
    /\ UNCHANGED <<sharedVars, requested, lineVars, busVars, loop, core0Vars>>

\* The head of the service loop: leave, run the line scheduler, which opens an
\* exclusive traffic interval for core 0, or close traffic for a coarse epoch.
Top ==
    /\ At3("top")
    /\ \/ /\ ~requested
          /\ Goto3("ack")
          /\ UNCHANGED <<epochStores, lineReady, loop>>
       \/ /\ requested /\ lineReq
          /\ StoreEpoch("traffic")
          /\ lineReady' = TRUE
          /\ Goto3("lineSync")
          /\ UNCHANGED loop
       \/ /\ requested /\ ~lineReq
          /\ StoreEpoch("closing")
          /\ Goto3("barrier")
          /\ loop' = "coarse"
          /\ UNCHANGED lineReady
    /\ UNCHANGED <<epoch, busy, busyStores, serviceVars, lineReq, committed, lineActive,
                   fallback, busVars, core0Vars>>

\* Mutant: no barrier.
BarrierMissing ==
    /\ At3("barrier")
    /\ Goto3("closing")
    /\ UNCHANGED <<sharedVars, serviceVars, lineVars, busVars, loop, core0Vars>>

\* DataMemBarrier between the closing store and the first look at busy.
Barrier ==
    /\ At3("barrier") /\ epochStores = <<>>
    /\ Goto3("closing")
    /\ UNCHANGED <<sharedVars, serviceVars, lineVars, busVars, loop, core0Vars>>

\* c128CloseTraffic has seen busy clear, or the service is being stopped.
CloseDone ==
    /\ At3("closing") /\ (~requested \/ ~busy)
    /\ \/ /\ ~requested /\ loop = "coarse"
          /\ Goto3("ack")
          /\ UNCHANGED <<epochStores, fallback, loop>>
       \/ /\ ~requested /\ loop = "measure"
          /\ Goto3("top")
          /\ UNCHANGED <<epochStores, fallback, loop>>
       \/ /\ loop = "line" /\ (~requested \/ force)
          /\ fallback' = (fallback \/ requested)
          /\ StoreEpoch("refresh")
          /\ Goto3("loop") /\ loop' = "failsafe"
       \/ /\ requested /\ ~(loop = "line" /\ force)
          /\ fallback' = (fallback /\ loop # "measure")
          /\ StoreEpoch("refresh")
          /\ Goto3(IF loop = "coarse" THEN "loop" ELSE "edge")
          /\ UNCHANGED loop
    /\ UNCHANGED <<epoch, busy, busyStores, serviceVars, lineReq, lineReady, committed,
                   lineActive, busVars, core0Vars>>

\* The conditions of the two loops that test lineReq before they wait.
LoopTest ==
    /\ At3("loop")
    /\ \/ /\ loop = "coarse"
          /\ Goto3(IF requested /\ ~lineReq THEN "edge" ELSE "timeUp")
          /\ UNCHANGED lineActive
       \/ /\ loop = "failsafe" /\ requested /\ lineReq
          /\ Goto3("edge")
          /\ UNCHANGED lineActive
       \/ /\ loop = "failsafe" /\ ~(requested /\ lineReq)
          /\ lineActive' = FALSE
          /\ Goto3("top")
    /\ UNCHANGED <<sharedVars, serviceVars, lineReq, lineReady, committed, fallback,
                   busVars, loop, core0Vars>>

\* c128WaitFallingEdge saw the edge and c128PulseDMA lets go of /DMA.
EdgePulses ==
    /\ At3("edge") /\ requested
    /\ dmaReleased' = TRUE
    /\ Goto3("pulse")
    /\ UNCHANGED <<sharedVars, serviceVars, lineVars, ba, loop, core0Vars>>

\* Mutant: a late line ends in the fail-safe loop.
EdgeStrands ==
    /\ At3("edge") /\ requested /\ loop = "line"
    /\ Goto3("loop") /\ loop' = "failsafe"
    /\ UNCHANGED <<sharedVars, serviceVars, lineVars, busVars, core0Vars>>

\* The edge of the next open phase belongs to traffic.
EdgeOpens ==
    /\ At3("edge") /\ requested /\ loop = "line"
    /\ Goto3("lineTop")
    /\ UNCHANGED <<sharedVars, serviceVars, lineVars, busVars, loop, core0Vars>>

\* c128WaitFallingEdge gives up because the service is being stopped.
EdgeAborts ==
    /\ At3("edge") /\ ~requested
    /\ Goto3(IF loop = "coarse" THEN "timeUp" ELSE "top")
    /\ lineActive' = (lineActive /\ loop # "failsafe")
    /\ UNCHANGED <<sharedVars, serviceVars, lineReq, lineReady, committed, fallback,
                   busVars, loop, core0Vars>>

\* /DMA is taken back; the loop goes on, or it has pulsed long enough.
PulseContinues ==
    /\ At3("pulse")
    /\ dmaReleased' = FALSE
    /\ Goto3(IF loop \in {"coarse", "failsafe"} THEN "loop" ELSE "edge")
    /\ UNCHANGED <<sharedVars, serviceVars, lineVars, ba, loop, core0Vars>>

PulseCompletes ==
    /\ At3("pulse")
    /\ dmaReleased' = FALSE
    /\ \/ loop = "coarse" /\ ~force /\ Goto3("timeUp")
       \/ loop = "measure" /\ Goto3("measured")
    /\ UNCHANGED <<sharedVars, serviceVars, lineVars, ba, loop, core0Vars>>

\* The end of a coarse refresh epoch.
TimeUp ==
    /\ At3("timeUp")
    /\ \/ /\ ~requested \/ lineReq
          /\ Goto3(IF ~requested THEN "ack" ELSE "top")
          /\ UNCHANGED epochStores
       \/ /\ requested /\ ~lineReq
          /\ StoreEpoch("traffic")
          /\ Goto3("traffic")
    /\ UNCHANGED <<epoch, busy, busyStores, serviceVars, lineVars, busVars, loop, core0Vars>>

TrafficEnds ==
    /\ At3("traffic")
    /\ Goto3("top")
    /\ UNCHANGED <<sharedVars, serviceVars, lineVars, busVars, loop, core0Vars>>

\* The exclusive interval lasts until core 0 commits a raster transition.
LineSync ==
    /\ At3("lineSync")
    /\ \/ /\ ~(requested /\ lineReq)
          /\ lineReady' = FALSE
          /\ Goto3("top")
          /\ UNCHANGED <<epochStores, loop>>
       \/ /\ requested /\ lineReq /\ committed
          /\ StoreEpoch("closing")
          /\ Goto3("barrier") /\ loop' = "measure"
          /\ UNCHANGED lineReady
    /\ UNCHANGED <<epoch, busy, busyStores, serviceVars, lineReq, committed, lineActive,
                   fallback, busVars, core0Vars>>

\* The PHI period is plausible, or traffic is refused from here on.
Measured(bad) ==
    /\ At3("measured")
    /\ fallback' = (fallback \/ bad)
    /\ lineActive' = TRUE
    /\ Goto3("lineTop")
    /\ UNCHANGED <<sharedVars, serviceVars, lineReq, lineReady, committed, busVars, loop,
                   core0Vars>>

\* Mutant: the fallback is not looked at.
LineTopIgnoresFallback ==
    /\ At3("lineTop")
    /\ StoreEpoch("traffic")
    /\ Goto3("lineTraffic") /\ loop' = "line"
    /\ UNCHANGED <<epoch, busy, busyStores, serviceVars, lineVars, busVars, core0Vars>>

LineTop ==
    /\ At3("lineTop")
    /\ \/ /\ requested /\ lineReq /\ ~fallback
          /\ StoreEpoch("traffic")
          /\ Goto3("lineTraffic") /\ loop' = "line"
       \/ /\ ~(requested /\ lineReq /\ ~fallback)
          /\ StoreEpoch("refresh")
          /\ Goto3("loop") /\ loop' = "failsafe"
    /\ UNCHANGED <<epoch, busy, busyStores, serviceVars, lineVars, busVars, core0Vars>>

LineTrafficEnds ==
    /\ At3("lineTraffic")
    /\ StoreEpoch("closing")
    /\ Goto3("barrier")
    /\ UNCHANGED <<epoch, busy, busyStores, serviceVars, lineVars, busVars, loop, core0Vars>>

\* Stopping is acknowledged once /DMA is asserted and the epoch is off.
Ack ==
    /\ At3("ack")
    /\ dmaReleased' = FALSE
    /\ StoreEpoch("off")
    /\ Goto3("acked")
    /\ UNCHANGED <<epoch, busy, busyStores, serviceVars, lineVars, ba, loop, core0Vars>>

Acked ==
    /\ At3("acked") /\ epochStores = <<>>
    /\ active' = FALSE
    /\ Goto3("asleep")
    /\ UNCHANGED <<sharedVars, requested, lineVars, busVars, loop, core0Vars>>

--------------------------------------------------------------------------------
(* Core 0: bus transfers, and the calls that run the service.                 *)

At0(l) == pc0 = l
Goto0(l) == pc0' = l

\* BA is the VIC's own.
BAChanges ==
    /\ ba' = ~ba
    /\ UNCHANGED <<sharedVars, serviceVars, lineVars, dmaReleased, core3Vars, core0Vars>>

\* c128TrafficBegin: wait for an open epoch, raise busy, and look again.
TransferWanted ==
    /\ pc0 \in {"run", "synced"}
    /\ Goto0("want") /\ back' = pc0
    /\ UNCHANGED <<sharedVars, serviceVars, lineVars, busVars, core3Vars, begun, force>>

TryBegin ==
    /\ At0("want") /\ epoch = "traffic"
    /\ StoreBusy(TRUE)
    /\ Goto0("fence")
    /\ UNCHANGED <<epoch, epochStores, busy, serviceVars, lineVars, busVars, core3Vars,
                   back, begun, force>>

\* DataMemBarrier between raising busy and the second look at the epoch.
Fence ==
    /\ At0("fence") /\ busyStores = <<>>
    /\ Goto0("recheck")
    /\ UNCHANGED <<sharedVars, serviceVars, lineVars, busVars, core3Vars, back, begun, force>>

\* Mutant: a claim that backs out leaves busy raised.
RecheckKeepsBusy ==
    /\ At0("recheck")
    /\ Goto0(IF epoch = "traffic" THEN "owns" ELSE "want")
    /\ UNCHANGED <<sharedVars, serviceVars, lineVars, busVars, core3Vars, back, begun, force>>

Recheck ==
    /\ At0("recheck")
    /\ \/ /\ epoch = "traffic"
          /\ Goto0("owns")
          /\ UNCHANGED busyStores
       \/ /\ epoch # "traffic"
          /\ StoreBusy(FALSE)
          /\ Goto0("want")
    /\ UNCHANGED <<epoch, epochStores, busy, serviceVars, lineVars, busVars, core3Vars,
                   back, begun, force>>

\* The transfer needs BA, then c128TrafficEnd.
TransferEnds ==
    /\ At0("owns") /\ ba
    /\ StoreBusy(FALSE)
    /\ Goto0(back)
    /\ UNCHANGED <<epoch, epochStores, busy, serviceVars, lineVars, busVars, core3Vars,
                   back, begun, force>>

RefreshStart ==
    /\ At0("off")
    /\ busy' = FALSE /\ epoch' = "refresh"
    /\ lineReq' = FALSE /\ lineReady' = FALSE /\ committed' = FALSE
    /\ lineActive' = FALSE /\ fallback' = FALSE
    /\ requested' = TRUE /\ begun' = FALSE
    /\ Goto0("starting")
    /\ UNCHANGED <<epochStores, busyStores, active, busVars, core3Vars, back, force>>

RefreshStarted ==
    /\ At0("starting") /\ active
    /\ Goto0("run")
    /\ UNCHANGED <<sharedVars, serviceVars, lineVars, busVars, core3Vars, back, begun, force>>

\* Reached from every point at which core 0 is not inside another call.  Core 3
\* may look between the end of line sync and the end of the service.
RefreshStop ==
    /\ pc0 \in {"run", "abandon"}
    /\ lineReq' = FALSE /\ committed' = FALSE
    /\ Goto0("unrequest")
    /\ UNCHANGED <<sharedVars, serviceVars, lineReady, lineActive, fallback, busVars,
                   core3Vars, back, begun, force>>

RefreshUnrequested ==
    /\ At0("unrequest")
    /\ requested' = FALSE
    /\ Goto0("stopping")
    /\ UNCHANGED <<sharedVars, active, lineVars, busVars, core3Vars, back, begun, force>>

RefreshStopped ==
    /\ At0("stopping") /\ ~active /\ busyStores = <<>>
    /\ epoch' = "off" /\ busy' = FALSE
    /\ lineReady' = FALSE /\ lineActive' = FALSE
    /\ Goto0("off")
    /\ UNCHANGED <<epochStores, busyStores, serviceVars, lineReq, committed, fallback,
                   busVars, core3Vars, back, begun, force>>

ForceContinuous ==
    /\ pc0 \in {"off", "run"}
    /\ force' = ~force
    /\ UNCHANGED <<sharedVars, serviceVars, lineVars, busVars, core3Vars, pc0, back, begun>>

\* Every caller begins line sync at most once between a start and a stop.
BeginLineSync ==
    /\ At0("run") /\ active /\ ~begun
    /\ lineReady' = FALSE /\ committed' = FALSE /\ lineActive' = FALSE
    /\ fallback' = FALSE /\ lineReq' = TRUE /\ begun' = TRUE
    /\ Goto0("beginning")
    /\ UNCHANGED <<sharedVars, serviceVars, busVars, core3Vars, back, force>>

\* Ready, or the spin limit: the caller then cancels or stops.
LineSyncBegun ==
    /\ At0("beginning")
    /\ \/ lineReady /\ Goto0("synced")
       \/ ~lineReady /\ Goto0("abandon")
    /\ UNCHANGED <<sharedVars, serviceVars, lineVars, busVars, core3Vars, back, begun, force>>

\* startC128LineRefresh saw a transition of the raster line, or gave up.
CommitLineSync ==
    /\ At0("synced") /\ lineReady
    /\ committed' = TRUE
    /\ Goto0("committing")
    /\ UNCHANGED <<sharedVars, serviceVars, lineReq, lineReady, lineActive, fallback,
                   busVars, core3Vars, back, begun, force>>

NoTransitionSeen ==
    /\ At0("synced")
    /\ Goto0("abandon")
    /\ UNCHANGED <<sharedVars, serviceVars, lineVars, busVars, core3Vars, back, begun, force>>

LineSyncCommitted ==
    /\ At0("committing")
    /\ \/ lineActive /\ ~fallback /\ Goto0("run")
       \/ ~(lineActive /\ ~fallback) /\ Goto0("abandon")
    /\ UNCHANGED <<sharedVars, serviceVars, lineVars, busVars, core3Vars, back, begun, force>>

CancelLineSync ==
    /\ pc0 \in {"run", "abandon"}
    /\ lineReq' = FALSE /\ committed' = FALSE
    /\ Goto0("cancelling")
    /\ UNCHANGED <<sharedVars, serviceVars, lineReady, lineActive, fallback, busVars,
                   core3Vars, back, begun, force>>

\* The line scheduler has left, or the spin limit.
LineSyncCancelled ==
    /\ At0("cancelling")
    /\ Goto0("run")
    /\ UNCHANGED <<sharedVars, serviceVars, lineVars, busVars, core3Vars, back, begun, force>>

--------------------------------------------------------------------------------
Memory == EpochVisible \/ BusyVisible

\* The steps of core 3 that need no clock edge from the host.
Core3Steps ==
    \/ Wake \/ Top \/ Barrier \/ CloseDone \/ LoopTest \/ EdgeAborts
    \/ PulseContinues \/ PulseCompletes \/ TimeUp \/ TrafficEnds \/ LineSync
    \/ (\E bad \in BOOLEAN : Measured(bad)) \/ LineTop \/ LineTrafficEnds
    \/ Ack \/ Acked

Edges == EdgePulses \/ EdgeOpens

Transfers == TransferWanted \/ TryBegin \/ Fence \/ Recheck \/ TransferEnds

Calls ==
    \/ RefreshStart \/ RefreshStarted
    \/ RefreshStop \/ RefreshUnrequested \/ RefreshStopped
    \/ ForceContinuous \/ BeginLineSync \/ LineSyncBegun \/ CommitLineSync
    \/ NoTransitionSeen \/ LineSyncCommitted \/ CancelLineSync \/ LineSyncCancelled

Next == Memory \/ Core3Steps \/ Edges \/ Transfers \/ Calls \/ BAChanges

Spec == Init /\ [][Next]_vars

--------------------------------------------------------------------------------
(* Properties.                                                                *)

\* Core 3 never lets go of /DMA while core 0 drives the bus, whichever way the
\* closing of an epoch and the claim of a transfer cross in the store buffers
\* (c128TrafficTryBegin, c128CloseTraffic).
NoPulseDuringTransfer == ~(pc0 = "owns" /\ dmaReleased)

\* Once c128RefreshStop has returned, /DMA is asserted and core 3 has stopped
\* touching the pin: RAD may hand the bus back to the physical CPU.
StopMeansQuiet ==
    pc0 = "off" => pc3 = "asleep" /\ ~dmaReleased /\ epochStores = <<>>

\* Between a successful c128RefreshBeginLineSync and the commit core 3 stays
\* out of the way: core 0 can poll the raster line without refresh gaps.
SyncIntervalExclusive ==
    pc0 = "synced" \/ (back = "synced" /\ pc0 \in {"want", "fence", "recheck", "owns"})
        => pc3 = "lineSync"

\* After a commit that could not be trusted no traffic is admitted until core 0
\* cancels line sync or stops: the epoch never opens again in the fallback.
FallbackStaysShut ==
    [][fallback /\ lineReq /\ lineActive /\ fallback' /\ lineReq' /\ requested'
          => ~(epoch # "traffic" /\ epoch' = "traffic")]_vars

\* Core 3 keeps the promises core 0 builds on: quiet after stop, out of the
\* way while core 0 finds the line, shut after a failed commit.
Core3KeepsOut == []StopMeansQuiet /\ []SyncIntervalExclusive /\ FallbackStaysShut

--------------------------------------------------------------------------------
\* Both cores keep executing and stores become visible.  BA always returns for
\* long enough to finish a transfer.  Nothing is assumed of the host's clock.
Fairness ==
    /\ WF_vars(Memory)
    /\ WF_vars(Core3Steps)
    /\ WF_vars(RefreshUnrequested \/ RefreshStopped)
    /\ WF_vars(Fence) /\ WF_vars(Recheck)
    /\ WF_vars(BAChanges) /\ SF_vars(TransferEnds)

FairSpec == Spec /\ Fairness

\* c128RefreshStop always returns, even when the host has lost its clock.
StopReturns == (pc0 \in {"unrequest", "stopping"}) ~> (pc0 = "off")

\* A closed epoch always comes to refresh the DRAM or to the end of the
\* service: no transfer keeps core 3 waiting for ever.
CloseCompletes == (pc3 = "closing") ~> (pc3 # "closing")

\* Neither core waits for ever for the other to let go: stop returns and a
\* closed epoch is drained, whatever BA, the clock and the spin limits do.
WaitsEnd == StopReturns /\ CloseCompletes

\* The host's clock runs, and every epoch and every line comes to its end.
ClockRuns == WF_vars(Edges) /\ SF_vars(EdgeOpens) /\ SF_vars(PulseCompletes)

\* While the host's clock runs, core 0 is never stranded in c128TrafficBegin: the
\* epoch opens again, unless traffic was refused on purpose.
NotStranded ==
    ClockRuns => ((pc0 = "want") ~> (epoch = "traffic" \/ fallback \/ force))

\* The claim made of the K203 handshake: transfers "sample BA before claiming
\* g_C128TrafficBusy", so that a blocked one does not hold refresh closed.
ClaimsOnlyWithBA == [][pc0 # "owns" /\ pc0' = "owns" => ba]_vars

================================================================================
