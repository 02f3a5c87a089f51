--------------------------------- MODULE Boot ---------------------------------
(***************************************************************************)
(* scpuBootRun and its frame hook (src/Source/App/boot.cpp), with what     *)
(* CSuperCPU::init and CC64Memory::initializeC64CIA2 add: from the ROM     *)
(* files through the takeover of the machine, the self-test and the        *)
(* all-RAM map to the run loop, and back out of it when the RAD button is  *)
(* pressed, a RESET cannot be repaired or a step fails.                    *)
(*                                                                         *)
(* Messages, saved files and lamps are left out.  Video selection is       *)
(* module VideoSwitch, the frame itself FrameScheduler.                    *)
(***************************************************************************)
EXTENDS RadBus

CONSTANTS
    Configs,    \* [roms, machine, native, sentinel, haltAfter]: the SD card
                \* and the machine of one power-on
    ShortPulse  \* whether RESET may be released before the hook samples it

ASSUME ConfigsAssumption ==
    Configs \subseteq [roms : BOOLEAN, machine : {"C64", "C128"}, native : BOOLEAN,
                       sentinel : BOOLEAN, haltAfter : BOOLEAN]

VARIABLES
    cfg,        \* the element of Configs
    accessible, \* CWriteBuffer/CC64Memory m_RAMUnderIOAccessible
    shadow,     \* m_CIA2DDRA while m_HaveCIA2DDRA, else "unknown"
    user        \* the RAD button, the RESET button, and whether a RESET has
                \* not been served by the hook yet

bootVars == <<cfg, accessible, shadow, user>>
vars == <<pc, caller, after, radVars, bootVars>>

Init ==
    /\ cfg \in Configs
    /\ RadInit(cfg.machine)
    /\ pc = "roms" /\ caller = "init" /\ after = "wait"
    /\ accessible = FALSE /\ shadow = "unknown"
    /\ user = [button |-> FALSE, reset |-> FALSE, pending |-> FALSE]

--------------------------------------------------------------------------------
(* scpuBootRun up to the run loop.                                            *)

Native128 == bus.machine = "C128" /\ cfg.native

Acquire(who) == pc' = "acquire" /\ caller' = who

\* Without all four ROM files the machine is never touched.
ROMs ==
    /\ pc = "roms"
    /\ IF cfg.roms THEN Acquire("init") ELSE pc' = "normal" /\ UNCHANGED caller
    /\ UNCHANGED <<after, radVars, bootVars>>

\* acquire() returned false: the button reboots.
NotAcquired ==
    /\ pc = "notAcquired"
    /\ pc' = "wait"
    /\ UNCHANGED <<caller, after, radVars, bootVars>>

\* Rest of CSuperCPU::init: the ROMs came from files, so nothing is read of
\* the machine's own; reset() forgets CIA2.
InitRest ==
    /\ pc = "acquired" /\ caller = "init"
    /\ shadow' = "unknown"
    /\ pc' = IF Native128 THEN "selfTest" ELSE "seed"
    /\ UNCHANGED <<caller, after, radVars, cfg, accessible, user>>

\* initializeC64CIA2: two writes, then reads at each point of the window;
\* the shadow is taken over when all of them show the value.
SeedCIA2 ==
    /\ pc = "seed"
    /\ Transfers(<<"write", "write", "read">>, bus)
    /\ host' = [host EXCEPT !.ddra = "output"]
    /\ \E right \in SUBSET VerifyPoints(timing.read) :
         shadow' = IF DDRAVerified(timing.read, right) THEN "output" ELSE shadow
    /\ pc' = "selfTest"
    /\ UNCHANGED <<caller, after, pins, core3, timing, eye, stub, cfg, accessible, user>>

\* The transfers of selfTest: the raster reads; the raw turnaround matrix; the
\* ROM reads; the address lines; banking; single writes; the burst; and the
\* first-transfer discriminator.
SelfTestOps ==
    <<"read", "spare", "spare", "read", "write", "read", "write", "write", "read">>
      \o <<"read", "write", "read", "write", "read", "write", "read">>
      \o <<"spare", "write", "read", "burst", "read">>
      \o <<"write", "read", "write", "read">>

\* What can be wrong: nothing; only the first transfer of the address and of
\* the single series; or anything else.
Verdicts == {"pass", "firstTransfer", "fail"}

\* c128KnownFirstTransferOnly
Tolerated(verdict) == verdict = "firstTransfer" /\ bus.machine = "C128"

SelfTest ==
    /\ pc = "selfTest"
    /\ \E verdict \in Verdicts :
         IF verdict = "pass" \/ Tolerated(verdict)
         THEN /\ Transfers(SelfTestOps, bus)
              /\ pc' = IF cfg.sentinel THEN "sentinel" ELSE "underIO"
              /\ UNCHANGED after
         ELSE /\ Transfers(SelfTestOps, IF cfg.haltAfter THEN HaltedBus ELSE bus)
              /\ Release("wait")
    /\ UNCHANGED <<caller, pins, host, core3, timing, eye, stub, bootVars>>

\* A diagnostic needs a C64.  One that completes holds the machine for good.
SentinelRun ==
    /\ pc = "sentinel"
    /\ IF MayPrepare
       THEN /\ Transfers(<<"write">>, HaltedBus)
            /\ pc' = "parked" /\ UNCHANGED after
       ELSE Release("wait") /\ UNCHANGED <<bus, wire>>
    /\ UNCHANGED <<caller, pins, host, core3, timing, eye, stub, bootVars>>

\* The all-RAM map is for a C64 only.
UnderIO ==
    /\ pc = "underIO"
    /\ IF bus.machine = "C64"
       THEN pc' = "prepare" /\ caller' = "boot"
       ELSE pc' = "hdmi" /\ UNCHANGED caller
    /\ UNCHANGED <<after, radVars, bootVars>>

Prepared ==
    /\ pc = "prepared" /\ caller = "boot"
    /\ accessible' = TRUE
    /\ pc' = "hdmi"
    /\ UNCHANGED <<caller, after, radVars, cfg, shadow, user>>

\* Without the map the machine is acquired again if it was lost.
NotPrepared ==
    /\ pc = "notPrepared" /\ caller = "boot"
    /\ IF bus.acquired
       THEN pc' = "hdmi" /\ accessible' = FALSE /\ UNCHANGED caller
       ELSE Acquire("again") /\ UNCHANGED accessible
    /\ UNCHANGED <<after, radVars, cfg, shadow, user>>

AcquiredAgain ==
    /\ pc = "acquired" /\ caller = "again"
    /\ accessible' = FALSE
    /\ pc' = "hdmi"
    /\ UNCHANGED <<caller, after, radVars, cfg, shadow, user>>

\* The renderer starts and shows a frame in time: the read eye is scanned
\* again under its load.  Or it does not.
HDMI ==
    /\ pc = "hdmi"
    /\ pc' \in {"calLoad", "run"}
    /\ UNCHANGED <<caller, after, radVars, bootVars>>

UnderLoad ==
    /\ pc = "loaded"
    /\ eye' = None
    /\ pc' = "run"
    /\ UNCHANGED <<caller, after, pins, host, bus, core3, wire, timing, stub, bootVars>>

--------------------------------------------------------------------------------
(* The run loop: frames, each followed by scpuCheckButton.                    *)

\* The guest's and the mirror's transfers; none while traffic is halted.
Traffic ==
    /\ pc = "run" /\ ~bus.halted
    /\ \E op \in {"read", "write", "burst"} : Transfers(<<op>>, bus)
    /\ UNCHANGED <<pc, caller, after, pins, host, core3, timing, eye, stub, bootVars>>

\* The native C128's capture of frame 90, or its stall dump.
HookFreezes ==
    /\ pc = "run" /\ Native128
    /\ Transfers(<<"write">>, bus)
    /\ pc' = "frozen"
    /\ UNCHANGED <<caller, after, pins, host, core3, timing, eye, stub, bootVars>>

\* Mutant: the button is only looked at when no RESET is pressed.
HookButtonLast ==
    /\ pc = "run" /\ user.button /\ ~user.reset /\ ~bus.halted
    /\ Release("rebooted")
    /\ UNCHANGED <<caller, radVars, bootVars>>

\* The button ends the run, or the freeze.
HookButton ==
    /\ pc \in {"run", "frozen"} /\ user.button
    /\ Release("rebooted")
    /\ UNCHANGED <<caller, radVars, bootVars>>

\* RESET is down when the hook samples it.
HookSeesReset ==
    /\ pc = "run" /\ ~user.button /\ user.reset
    /\ pc' = "resetDown"
    /\ UNCHANGED <<caller, after, radVars, bootVars>>

\* Mutant: the map a RESET destroys is not restored.
HookForgetsMap ==
    /\ pc = "resetDown" /\ ~user.reset
    /\ pc' = "scpuReset"
    /\ UNCHANGED <<caller, after, radVars, bootVars>>

\* RESET has been up for long enough: the map it destroyed is restored.
HookResetReleased ==
    /\ pc = "resetDown" /\ ~user.reset
    /\ IF bus.ready THEN pc' = "prepare" /\ caller' = "hook"
                    ELSE pc' = "scpuReset" /\ UNCHANGED caller
    /\ UNCHANGED <<after, radVars, bootVars>>

HookReset ==
    /\ pc = "scpuReset" \/ (pc = "prepared" /\ caller = "hook")
    /\ shadow' = "unknown"
    /\ user' = [user EXCEPT !.pending = user.reset]
    /\ pc' = "run"
    /\ UNCHANGED <<caller, after, radVars, cfg, accessible>>

HookMapLost ==
    /\ pc = "notPrepared" /\ caller = "hook"
    /\ Release("rebooted")
    /\ UNCHANGED <<caller, radVars, bootVars>>

\* BUS_HALT_AFTER
HookHalts ==
    /\ pc = "run" /\ ~user.button /\ ~user.reset /\ cfg.haltAfter /\ ~bus.halted
    /\ bus' = HaltedBus
    /\ UNCHANGED <<pc, caller, after, pins, host, core3, wire, timing, eye, stub, bootVars>>

\* scpuWaitForButtonThenReboot
WaitForButton ==
    /\ pc = "wait" /\ user.button
    /\ pc' = "rebooted"
    /\ UNCHANGED <<caller, after, radVars, bootVars>>

--------------------------------------------------------------------------------
(* The Pi restarts with fresh memory; the machine does not.                   *)

PiRestarts ==
    /\ pc = "rebooted"
    /\ pins' = [dma |-> FALSE, game |-> FALSE, reset |-> FALSE]
    /\ bus' = [acquired |-> FALSE, ready |-> FALSE, selectIO |-> FALSE,
               halted |-> FALSE, machine |-> "unknown", passes |-> 1,
               turn |-> FALSE]
    /\ core3' = [requested |-> FALSE, active |-> FALSE]
    /\ timing' = ConfiguredTiming
    /\ eye' = None /\ stub' = [port |-> "io", left |-> 0]
    /\ accessible' = FALSE /\ shadow' = "unknown"
    /\ user' = [user EXCEPT !.button = FALSE, !.pending = FALSE]
    /\ caller' = "init" /\ after' = "wait" /\ pc' = "roms"
    /\ wire' = [last |-> "read", lost |-> {}]
    /\ UNCHANGED <<host, cfg>>

PressButton ==
    /\ ~user.button /\ pc \notin {"rebooted", "normal"}
    /\ user' = [user EXCEPT !.button = TRUE]
    /\ UNCHANGED <<pc, caller, after, radVars, cfg, accessible, shadow>>

\* The machine's own RESET button, while the accelerator runs.
PressReset ==
    /\ pc = "run" /\ ~user.reset
    /\ HostReset
    /\ user' = [user EXCEPT !.reset = TRUE, !.pending = TRUE]
    /\ UNCHANGED <<pc, caller, after, pins, bus, core3, wire, timing, eye, stub,
                   cfg, accessible, shadow>>

\* A person holds it for more than a frame.
ReleaseReset ==
    /\ user.reset /\ (pc # "run" \/ ShortPulse)
    /\ user' = [user EXCEPT !.reset = FALSE]
    /\ UNCHANGED <<pc, caller, after, radVars, cfg, accessible, shadow>>

BootSteps ==
    \/ ROMs \/ NotAcquired \/ InitRest \/ SeedCIA2 \/ SelfTest \/ SentinelRun
    \/ UnderIO \/ Prepared \/ NotPrepared \/ AcquiredAgain \/ HDMI \/ UnderLoad

HookSteps ==
    \/ HookFreezes \/ HookButton \/ HookSeesReset \/ HookResetReleased
    \/ HookReset \/ HookMapLost \/ HookHalts

Core0 == (RadSteps /\ UNCHANGED bootVars) \/ BootSteps \/ HookSteps
           \/ Traffic \/ WaitForButton
Host == (HostKernal \/ StubStores) /\ UNCHANGED bootVars
User == PressButton \/ PressReset \/ ReleaseReset

Next == Core0 \/ Host \/ (Core3 /\ UNCHANGED bootVars) \/ User \/ PiRestarts

Spec == Init /\ [][Next]_vars

(* Core 0 is never preempted and every wait of it is bounded, but a frame may *)
(* be any number of transfers: the frame and its hook are told apart.  Core 3 *)
(* runs on its own core.  The user lets RESET go at last.                     *)
FairSpec ==
    /\ Spec
    /\ WF_vars((RadSteps /\ UNCHANGED bootVars) \/ BootSteps \/ WaitForButton)
    /\ WF_vars(HookSteps)
    /\ WF_vars(Core3 /\ UNCHANGED bootVars)
    /\ WF_vars(ReleaseReset)

--------------------------------------------------------------------------------
(* Properties.                                                                *)

Ended == {"wait", "rebooted", "normal"}

\* Wherever startup or the run gives up, the machine is its own again: no line
\* is held, CRADBus knows it, and the processor is not in the all-RAM map that
\* only the accelerator can use (release(), radHijackCPUWithUltimax and the
\* failure paths of acquire() and prepareRAMUnderIOAccess()).  On the way there
\* the processor executes in that map only where the takeover gives up:
\* everywhere else RESET comes before /DMA is let go.
MachineGivenBack ==
    /\ pc \in Ended =>
         /\ ~pins.dma /\ ~pins.game /\ ~pins.reset
         /\ ~bus.acquired /\ ~bus.ready /\ host.port # "ram"
    /\ HostRuns /\ ~pins.game /\ host.port = "ram" => pc = "giveUp"

\* From the start of calibration until release() a C128 that is held has its
\* refresh service: its DRAM decays within milliseconds of /DMA without it.
C128Refreshed ==
    bus.acquired /\ bus.machine = "C128"
      /\ pc \notin {"startRefresh", "starting", "release", "quiet", "letGo"}
    => core3.requested /\ core3.active

OneMap ==
    /\ accessible = bus.ready /\ bus.ready = bus.selectIO
    /\ bus.ready = (host.port = "ram")
\* In the run loop the mirror, the bus and the processor port agree on the
\* map: writes go under I/O exactly when /GAME selects between RAM and chips
\* and $01 is $34.  A RESET breaks this until the hook has served it.
MapAgrees == pc = "run" /\ ~user.pending => OneMap

\* The one-pass scans choose what their description says: the middle of a
\* longest run of good read samples, for the RAM and for the SID, and the write
\* point with the best neighbourhood nearest to the one in use
\* (calibrateReadTiming, calibrateSIDReadTiming, calibrateWriteTiming).
PointsCentred ==
    [][/\ SelectRead /\ eye.read # {} =>
              Centred(timing'.read.selected, eye.read)
       /\ CalibrateSID /\ eye.sid # {} => Centred(timing'.sid.at, eye.sid)
       /\ CalibrateWrite /\ eye.write # {} =>
              BestWrite(timing'.write, eye.write, timing.write)]_vars

\* No write but the spare ones to $02FE is lost to a bus that has not turned
\* round since the last read.
OrdinaryWritesLand == wire.lost \subseteq {"spare"}

\* The RAD button is always an answer, even to a startup that failed: it
\* reboots the Pi unless a diagnostic has parked it (scpuCheckButton,
\* scpuWaitForButtonThenReboot).
ButtonReboots == user.button ~> pc \in {"rebooted", "normal", "parked"}

--------------------------------------------------------------------------------
(* What comments of the code say and the code does not keep.                  *)

\* boot.cpp: "The C64 has been released and continues to run normally."
ReleasedIsFree == pc \in Ended => ~core3.requested /\ ~core3.active

\* The same message: the processor goes on in the map its KERNAL set.
ReleasedRunsKernal == pc = "wait" => host.port = "kernal"

\* rad_bus.cpp: "Do not let the physical CPU execute even one instruction
\* with $01=$34."
NeverAllRAM == ~(HostRuns /\ ~pins.game /\ host.port = "ram")

\* supercpu.cpp: "no host CPU can change the latch behind the shadow before
\* guest execution begins"
DDRAShadowTrue ==
    pc \in {"hdmi", "calLoad", "loaded"} /\ shadow = "output" => host.ddra = "output"

\* boot.cpp: "If this run installed the all-RAM under-I/O map, put it back
\* before the emulated CPU resumes"
MapSurvivesReset == pc = "run" /\ ~user.reset => OneMap
=============================================================================
