-------------------------------- MODULE RadBus --------------------------------
(***************************************************************************)
(* CRADBus's ownership of the machine (src/Source/Bus/RAD/rad_bus.cpp:     *)
(* acquire, prepareRAMUnderIOAccess, release, the calibrations, the        *)
(* transfers) and the takeovers of cpu_hijack.cpp it is built on.          *)
(*                                                                         *)
(* Core 0 runs these routines; the other actors are the host machine,      *)
(* which executes whenever neither /DMA nor RESET holds it, and core 3,    *)
(* whose refresh service starts and stops on request (its inner protocol   *)
(* is module C128Refresh).  Waits are bounded in the code by spin limits:  *)
(* here a bounded wait may give up at any moment.                          *)
(***************************************************************************)
EXTENDS Calibration

CONSTANTS
    Attempts,   \* tries of radHijackCPUWithUltimax (8 in the code)
    Eyes(_, _), \* by occasion and machine: what the scans may see, [read,
                \* write, sid, edge]
    None

ASSUME AttemptsAssumption == Attempts \in Nat

EyeType == [read : SUBSET Samples, write : SUBSET Grid, sid : SUBSET Samples, edge : BOOLEAN]
ASSUME EyesAssumption ==
    \A occasion \in {"init", "again", "boot", "hook", "load"}, machine \in {"C64", "C128"} :
        Eyes(occasion, machine) \subseteq EyeType

VARIABLES
    pc,     \* where core 0 is
    caller, \* who called acquire() or prepareRAMUnderIOAccess()
    after,  \* where core 0 goes when release() returns
    pins,   \* /DMA, /GAME and RESET as RAD drives them; TRUE is asserted
    host,   \* the physical machine: its model, $01, and CIA2's DDRA
    bus,    \* CRADBus: m_Acquired, m_RAMUnderIOReady, radSelectIOWithGame,
            \* m_TrafficHalted, m_Signals.machine, busWriteTurnaround...
    core3,  \* s_RefreshRequested, s_RefreshActive
    wire,   \* the direction of the last transfer; the kinds of write lost
    timing, \* the calibrated points: read, write, sid
    eye,    \* what the scans of the running calibration see, or None
    stub    \* the takeover ROM's value for $01, and the attempts it has left

radVars == <<pins, host, bus, core3, wire, timing, eye, stub>>

\* $37, what the KERNAL sets; $35, what the takeover ROM sets; $34, all RAM.
Ports == {"kernal", "io", "ram"}

HostRuns == ~pins.dma /\ ~pins.reset

ConfiguredTiming ==
    [read |-> [start |-> 0, end |-> 0, selected |-> Configured],
     write |-> ConfiguredWrite,
     sid |-> [at |-> Configured, edge |-> FALSE, reliable |-> FALSE]]

RadInit(machine) ==
    /\ pins = [dma |-> FALSE, game |-> FALSE, reset |-> FALSE]
    /\ host = [machine |-> machine, port |-> "kernal", ddra |-> "input"]
    /\ bus = [acquired |-> FALSE, ready |-> FALSE, selectIO |-> FALSE,
              halted |-> FALSE, machine |-> "unknown", passes |-> 1,
              turn |-> FALSE]
    /\ core3 = [requested |-> FALSE, active |-> FALSE]
    /\ wire = [last |-> "read", lost |-> {}]
    /\ timing = ConfiguredTiming
    /\ eye = None
    /\ stub = [port |-> "io", left |-> 0]

--------------------------------------------------------------------------------
(* Transfers.  A write that follows a read too closely is lost: the C64's     *)
(* port needs one idle pass, the C128's buffered port two.  Writes to $02FE   *)
(* are made to be lost ("spare"); the others are not.                         *)

PassesNeeded == IF host.machine = "C128" THEN 2 ELSE 1

\* busReadByte_p3 sets busWriteTurnaroundNeeded; the writes clear it.
TurnAfter(op) == op = "read"

\* busWriteByte_p1, busBeginBurstWrites: the idle passes are paid when the
\* flag says so, whatever the direction of the last transfer really was.
Lost(prev, turn, passes) ==
    prev = "read" /\ (IF turn THEN passes ELSE 0) < PassesNeeded

\* newBus, with the flag and the wire as a series of transfers leaves them.
Transfers(ops, newBus) ==
    LET prev(i) == IF i = 1 THEN wire.last ELSE ops[i - 1]
        turn(i) == IF i = 1 THEN newBus.turn ELSE TurnAfter(ops[i - 1])
        lost == {i \in DOMAIN ops : ops[i] # "read"
                                      /\ Lost(prev(i), turn(i), newBus.passes)}
    IN  /\ bus' = [newBus EXCEPT !.turn = TurnAfter(Last(ops))]
        /\ wire' = [last |-> IF Last(ops) = "read" THEN "read" ELSE "write",
                    lost |-> wire.lost \union {ops[i] : i \in lost}]

--------------------------------------------------------------------------------
(* The pins and the host.                                                     *)

\* RESET, however it is asserted, restores the processor port and the CIAs.
HostReset == host' = [host EXCEPT !.port = "kernal", !.ddra = "input"]

\* radReleaseCPU
ReleasedPins == [pins EXCEPT !.dma = FALSE, !.game = FALSE]

\* The host's KERNAL initialises CIA2 when it is left to run.
HostKernal ==
    /\ HostRuns /\ ~pins.game /\ host.port = "kernal" /\ host.ddra = "input"
    /\ host' = [host EXCEPT !.ddra = "output"]
    /\ UNCHANGED <<pc, caller, after, pins, bus, core3, wire, timing, eye, stub>>

--------------------------------------------------------------------------------
(* radHijackCPUWithUltimax.                                                   *)

\* RESET, /GAME and /DMA are asserted together: the host stops before /DMA,
\* which may still be held from the badline takeover, is let go.
UltimaxHold ==
    /\ pc = "ultimax" /\ stub.left > 0
    /\ pins' = [dma |-> TRUE, game |-> TRUE, reset |-> TRUE]
    /\ HostReset
    /\ stub' = [stub EXCEPT !.left = @ - 1]
    /\ pc' = "hold"
    /\ UNCHANGED <<caller, after, bus, core3, wire, timing, eye>>

UltimaxLet ==
    /\ pc = "hold"
    /\ pins' = [pins EXCEPT !.reset = FALSE, !.dma = FALSE]
    /\ pc' = "stub"
    /\ UNCHANGED <<caller, after, host, bus, core3, wire, timing, eye, stub>>

\* The host executes the takeover ROM: it stores the port value in $01.
StubStores ==
    /\ pc = "stub" /\ HostRuns /\ host.port # stub.port
    /\ host' = [host EXCEPT !.port = stub.port]
    /\ UNCHANGED <<pc, caller, after, pins, bus, core3, wire, timing, eye, stub>>

\* More than twelve NOPs were fetched: they follow the stores of the ROM.
UltimaxTaken ==
    /\ pc = "stub" /\ host.port = stub.port
    /\ pins' = [pins EXCEPT !.dma = TRUE]
    /\ wire' = [wire EXCEPT !.last = "read"]
    /\ pc' = IF caller \in {"boot", "hook"} THEN "probe" ELSE "taken"
    /\ UNCHANGED <<caller, after, host, bus, core3, timing, eye, stub>>

UltimaxTimeout ==
    /\ pc = "stub"
    /\ IF stub.left > 0
       THEN pc' = "ultimax" /\ UNCHANGED pins
       ELSE pc' = "giveUp" /\ pins' = ReleasedPins
    /\ UNCHANGED <<caller, after, host, bus, core3, wire, timing, eye, stub>>

\* /GAME and /DMA are already released when the last reset is given;
\* prepareRAMUnderIOAccess notes that the bus is no longer its own.
UltimaxGiveUp ==
    /\ pc = "giveUp"
    /\ HostReset
    /\ bus' = [bus EXCEPT !.acquired = @ /\ caller \notin {"boot", "hook"}]
    /\ pc' = IF caller \in {"boot", "hook"} THEN "notPrepared" ELSE "notAcquired"
    /\ UNCHANGED <<caller, after, pins, core3, wire, timing, eye, stub>>

--------------------------------------------------------------------------------
(* acquire().                                                                 *)

\* radWaitForMachineRunning finds no clock, before or after the reset.
NoMachine ==
    /\ pc \in {"acquire", "restart"}
    /\ bus' = [bus EXCEPT !.selectIO = FALSE, !.ready = FALSE]
    /\ pc' = "notAcquired"
    /\ UNCHANGED <<caller, after, pins, host, core3, wire, timing, eye, stub>>

CleanStart ==
    /\ pc = "acquire"
    /\ bus' = [bus EXCEPT !.selectIO = FALSE, !.ready = FALSE]
    /\ HostReset
    /\ pc' = "restart"
    /\ UNCHANGED <<caller, after, pins, core3, wire, timing, eye, stub>>

\* radPrepareUltimaxTakeover, with the port the takeover ROM is to set.
PrepareStub(port) == stub' = [port |-> port, left |-> Attempts]

\* The KERNAL has its three seconds, then the fallback is prepared.
Settled ==
    /\ pc = "restart"
    /\ PrepareStub("io")
    /\ pc' = "badline"
    /\ UNCHANGED <<caller, after, pins, host, bus, core3, wire, timing, eye>>

\* radHijackCPU, then radDetectMachine's reads with /DMA held.
HijackOnBadline ==
    /\ pc = "badline"
    /\ pins' = [pins EXCEPT !.dma = TRUE]
    /\ Transfers(<<"read">>, [bus EXCEPT !.machine = host.machine])
    /\ pc' = IF host.machine = "C64" THEN "legacy" ELSE "ultimax"
    /\ UNCHANGED <<caller, after, host, core3, timing, eye, stub>>

\* No badline within the bound: /DMA was not asserted.
NoBadline ==
    /\ pc = "badline"
    /\ PrepareStub("io")
    /\ pc' = "ultimax"
    /\ UNCHANGED <<caller, after, pins, host, bus, core3, wire, timing, eye>>

LegacyAcquired ==
    /\ pc = "legacy"
    /\ bus' = [bus EXCEPT !.passes = 1, !.turn = TRUE, !.acquired = TRUE]
    /\ pc' = "calRead"
    /\ UNCHANGED <<caller, after, pins, host, core3, wire, timing, eye, stub>>

\* Mutant: a C128 is given the single idle pass of a C64.
OnePassAcquired ==
    /\ pc = "taken"
    /\ wire' = [wire EXCEPT !.last = "read"]
    /\ bus' = [bus EXCEPT !.machine = host.machine, !.acquired = TRUE,
                          !.passes = 1, !.turn = TRUE]
    /\ pins' = [pins EXCEPT !.game = FALSE]
    /\ pc' = IF host.machine = "C128" THEN "startRefresh" ELSE "calRead"
    /\ UNCHANGED <<caller, after, host, core3, timing, eye, stub>>

\* The machine is detected again by reads, after which the flag is set from
\* the machine alone; /GAME is released, /DMA stays.
UltimaxAcquired ==
    /\ pc = "taken"
    /\ wire' = [wire EXCEPT !.last = "read"]
    /\ bus' = [bus EXCEPT !.machine = host.machine, !.acquired = TRUE,
                          !.passes = IF host.machine = "C128" THEN 2 ELSE 1,
                          !.turn = host.machine = "C128"]
    /\ pins' = [pins EXCEPT !.game = FALSE]
    /\ pc' = IF host.machine = "C128" THEN "startRefresh" ELSE "calRead"
    /\ UNCHANGED <<caller, after, host, core3, timing, eye, stub>>

\* Mutant: calibration does not wait for core 3.
UnrefreshedStart ==
    /\ pc = "startRefresh"
    /\ core3' = [core3 EXCEPT !.requested = TRUE]
    /\ pc' = "calRead"
    /\ UNCHANGED <<caller, after, pins, host, bus, wire, timing, eye, stub>>

\* c128RefreshStart: core 3 has come up in time, and the request is made.
RefreshRequest ==
    /\ pc = "startRefresh"
    /\ core3' = [core3 EXCEPT !.requested = TRUE]
    /\ pc' = "starting"
    /\ UNCHANGED <<caller, after, pins, host, bus, wire, timing, eye, stub>>

RefreshRunning ==
    /\ pc = "starting" /\ core3.active
    /\ pc' = "calRead"
    /\ UNCHANGED <<caller, after, pins, host, bus, core3, wire, timing, eye, stub>>

\* Either wait of c128RefreshStart gives up; a request already made stays.
RefreshNotStarted ==
    /\ pc \in {"startRefresh", "starting"} /\ ~core3.active
    /\ pins' = ReleasedPins
    /\ bus' = [bus EXCEPT !.acquired = FALSE]
    /\ pc' = "notAcquired"
    /\ UNCHANGED <<caller, after, host, core3, wire, timing, eye, stub>>

--------------------------------------------------------------------------------
(* The calibrations of acquire() and radDetectVideoStandard.                  *)

\* calibrateReadTiming scans every sample point, then selects one.
ScanRead ==
    /\ pc \in {"calRead", "calLoad"}
    /\ eye' \in Eyes(IF pc = "calLoad" THEN "load" ELSE caller, host.machine)
    /\ Transfers(<<"spare", "write", "read">>, bus)
    /\ pc' = IF pc = "calLoad" THEN "selectLoad" ELSE "selectRead"
    /\ UNCHANGED <<caller, after, pins, host, core3, timing, stub>>

SelectRead ==
    /\ pc \in {"selectRead", "selectLoad"}
    /\ timing' = [timing EXCEPT !.read = ReadTiming(eye.read, @.selected)]
    /\ Transfers(<<"write">>, bus)
    /\ pc' = IF pc = "selectLoad" THEN "loaded" ELSE "calWrite"
    /\ UNCHANGED <<caller, after, pins, host, core3, eye, stub>>

CalibrateWrite ==
    /\ pc = "calWrite"
    /\ timing' = [timing EXCEPT !.write = WriteTiming(eye.write, @)]
    /\ Transfers(<<"write", "read", "burst", "read">>, bus)
    /\ pc' = "calSID"
    /\ UNCHANGED <<caller, after, pins, host, core3, eye, stub>>

CalibrateSID ==
    /\ pc = "calSID"
    /\ timing' = [timing EXCEPT !.sid = SIDTiming(eye.sid, eye.edge, @.at)]
    /\ Transfers(<<"write", "read", "write">>, bus)
    /\ pc' = "video"
    /\ UNCHANGED <<caller, after, pins, host, core3, eye, stub>>

DetectVideo ==
    /\ pc = "video"
    /\ Transfers(<<"read">>, bus)
    /\ eye' = None
    /\ pc' = IF bus.machine = "C128" THEN "lineSync" ELSE "acquired"
    /\ UNCHANGED <<caller, after, pins, host, core3, timing, stub>>

\* startC128LineRefresh: locked on a raster line, or not.
LineSynced ==
    /\ pc = "lineSync"
    /\ Transfers(<<"read">>, bus)
    /\ pc' = "acquired"
    /\ UNCHANGED <<caller, after, pins, host, core3, timing, eye, stub>>

Release(then) == pc' = "release" /\ after' = then

\* The scheduler refuses the interval, or the raster reads find no line.
LineNotSynced ==
    /\ pc = "lineSync"
    /\ UNCHANGED <<bus, wire>> \/ Transfers(<<"read">>, bus)
    /\ Release("notAcquired")
    /\ UNCHANGED <<caller, pins, host, core3, timing, eye, stub>>

--------------------------------------------------------------------------------
(* prepareRAMUnderIOAccess().                                                 *)

MayPrepare == bus.acquired /\ ~bus.halted /\ bus.machine = "C64"

Prepare ==
    /\ pc = "prepare"
    /\ IF MayPrepare
       THEN /\ bus' = [bus EXCEPT !.selectIO = FALSE, !.ready = FALSE]
            /\ PrepareStub("ram")
            /\ pc' = "ultimax"
       ELSE pc' = "notPrepared" /\ UNCHANGED <<bus, stub>>
    /\ UNCHANGED <<caller, after, pins, host, core3, wire, timing, eye>>

ProbeOps == <<"write", "read", "write", "read", "write", "read", "read">>

\* Both halves of the map answer as they should.
ProbePasses ==
    /\ pc = "probe"
    /\ pins' = [pins EXCEPT !.game = FALSE]
    /\ Transfers(ProbeOps, [bus EXCEPT !.turn = TRUE, !.selectIO = TRUE,
                                       !.ready = TRUE])
    /\ pc' = "prepared"
    /\ UNCHANGED <<caller, after, host, core3, timing, eye, stub>>

\* One half does not: the host is reset while /DMA is held, then let go.
ProbeFails ==
    /\ pc = "probe"
    /\ pins' = [pins EXCEPT !.game = FALSE]
    /\ Transfers(ProbeOps, [bus EXCEPT !.turn = TRUE])
    /\ HostReset
    /\ pc' = "letGo" /\ after' = "notPrepared"
    /\ UNCHANGED <<caller, core3, timing, eye, stub>>

--------------------------------------------------------------------------------
(* release().                                                                 *)

NotHeld ==
    /\ pc = "release" /\ ~bus.acquired
    /\ pc' = after
    /\ UNCHANGED <<caller, after, radVars>>

\* c128RefreshStop withdraws the request and waits for core 3.
StopRefresh ==
    /\ pc = "release" /\ bus.acquired
    /\ core3' = [core3 EXCEPT !.requested = FALSE]
    /\ pc' = "quiet"
    /\ UNCHANGED <<caller, after, pins, host, bus, wire, timing, eye, stub>>

\* Mutant: a host left in the all-RAM map is not reset.
NoRestoreHost ==
    /\ pc = "quiet" /\ ~core3.active
    /\ UNCHANGED host
    /\ bus' = [bus EXCEPT !.ready = FALSE, !.selectIO = FALSE]
    /\ pc' = "letGo"
    /\ UNCHANGED <<caller, after, pins, core3, wire, timing, eye, stub>>

\* A host left in the all-RAM map is reset while /DMA is held.
RestoreHost ==
    /\ pc = "quiet" /\ ~core3.active
    /\ IF bus.ready THEN HostReset ELSE UNCHANGED host
    /\ bus' = [bus EXCEPT !.ready = FALSE, !.selectIO = FALSE]
    /\ pc' = "letGo"
    /\ UNCHANGED <<caller, after, pins, core3, wire, timing, eye, stub>>

\* radReleaseCPU
LetGo ==
    /\ pc = "letGo"
    /\ pins' = ReleasedPins
    /\ bus' = [bus EXCEPT !.acquired = FALSE]
    /\ pc' = after
    /\ UNCHANGED <<caller, after, host, core3, wire, timing, eye, stub>>

\* setTrafficHalted( true ).  That it also makes the refresh continuous is
\* C128Refresh's ForceContinuous.
HaltedBus == [bus EXCEPT !.halted = TRUE]

--------------------------------------------------------------------------------
(* Core 3 takes a request up, and gives it up when it is withdrawn.           *)

Core3Takes ==
    /\ core3.requested /\ ~core3.active
    /\ core3' = [core3 EXCEPT !.active = TRUE]
    /\ UNCHANGED <<pc, caller, after, pins, host, bus, wire, timing, eye, stub>>

Core3Quits ==
    /\ core3.active /\ ~core3.requested
    /\ core3' = [core3 EXCEPT !.active = FALSE]
    /\ UNCHANGED <<pc, caller, after, pins, host, bus, wire, timing, eye, stub>>

Core3 == Core3Takes \/ Core3Quits

UltimaxSteps ==
    UltimaxHold \/ UltimaxLet \/ UltimaxTaken \/ UltimaxTimeout \/ UltimaxGiveUp

AcquireSteps ==
    \/ NoMachine \/ CleanStart \/ Settled \/ HijackOnBadline \/ NoBadline
    \/ LegacyAcquired \/ UltimaxAcquired
    \/ RefreshRequest \/ RefreshRunning \/ RefreshNotStarted
    \/ ScanRead \/ SelectRead \/ CalibrateWrite \/ CalibrateSID \/ DetectVideo
    \/ LineSynced \/ LineNotSynced

ReleaseSteps == NotHeld \/ StopRefresh \/ RestoreHost \/ LetGo

RadSteps ==
    \/ UltimaxSteps \/ AcquireSteps \/ ReleaseSteps
    \/ Prepare \/ ProbePasses \/ ProbeFails
=============================================================================
