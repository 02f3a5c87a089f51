------------------------------ MODULE BootProofs ------------------------------
(***************************************************************************)
(* Proofs about Boot and the ownership of the machine in RadBus, for every *)
(* set of configurations, number of takeover attempts and scan.            *)
(***************************************************************************)
EXTENDS Boot, WellFoundedInduction, FiniteSetTheorems, TLAPS

BusType == [acquired : BOOLEAN, ready : BOOLEAN, selectIO : BOOLEAN, halted : BOOLEAN,
            machine : {"unknown", "C64", "C128"}, passes : {1, 2}, turn : BOOLEAN]
PinsType == [dma : BOOLEAN, game : BOOLEAN, reset : BOOLEAN]
Core3Type == [requested : BOOLEAN, active : BOOLEAN]
UserType == [button : BOOLEAN, reset : BOOLEAN, pending : BOOLEAN]
HostType == [machine : {"C64", "C128"}, port : Ports, ddra : {"input", "output"}]

TypeInv ==
    /\ cfg \in Configs
    /\ caller \in {"init", "again", "boot", "hook"}
    /\ after \in {"wait", "rebooted", "notAcquired", "notPrepared"}
    /\ pins \in PinsType /\ host \in HostType /\ bus \in BusType
    /\ core3 \in Core3Type
    /\ stub \in [port : Ports, left : Nat]
    /\ accessible \in BOOLEAN
    /\ user \in UserType

\* prepareRAMUnderIOAccess was called; acquire() otherwise.
Preparing == caller \in {"boot", "hook"}

\* Where core 0 holds the machine, and where it has let go of it.
HeldAt == {"startRefresh", "starting", "calRead", "selectRead", "calWrite", "calSID", "video",
           "lineSync", "acquired", "seed", "selfTest", "sentinel", "underIO", "prepare",
           "probe", "prepared", "hdmi", "calLoad", "selectLoad", "loaded", "run", "frozen",
           "resetDown", "scpuReset", "parked", "quiet", "letGo"}
FreeAt == {"roms", "normal", "acquire", "restart", "badline", "wait", "rebooted", "notAcquired"}
TakeoverAt == {"ultimax", "hold", "stub"}

\* The lines and m_Acquired follow core 0's path.
HoldInv ==
    /\ pc \in HeldAt => bus.acquired /\ pins.dma
    /\ pc \in FreeAt \union {"legacy", "taken"} => ~bus.acquired
    /\ pc \in FreeAt \union {"giveUp", "stub"} => ~pins.dma
    /\ pc \in {"legacy", "taken"} => pins.dma
    /\ pc \in TakeoverAt \union {"giveUp"} => bus.acquired = Preparing
    /\ pc \in {"notPrepared", "release"} => pins.dma = bus.acquired
    /\ pc \in {"prepare", "probe", "prepared"} => Preparing
    /\ pc \in {"acquire", "restart", "badline", "legacy", "taken"} => ~Preparing
    /\ pins.reset => pc = "hold"
    /\ pins.game => pc \in TakeoverAt \union {"probe", "taken"}
    /\ pc \in {"hold", "stub"} => pins.game

\* Where the all-RAM map can be in force, and who knows of it.
ReadyAt == {"prepare", "prepared", "notPrepared", "hdmi", "calLoad", "selectLoad", "loaded",
            "run", "frozen", "resetDown", "release", "quiet"}
PortInv ==
    /\ bus.ready = bus.selectIO
    /\ bus.ready => pc \in ReadyAt /\ bus.acquired
    /\ host.port = "ram" => bus.ready \/ pc \in {"ultimax", "stub", "giveUp", "probe"}
    /\ pc = "ultimax" /\ host.port = "ram" => pins.dma \/ pins.game
    /\ pc = "badline" => stub.port = "io"
    /\ pc \in TakeoverAt => stub.port = IF Preparing THEN "ram" ELSE "io"
    /\ pc \in {"probe", "prepared"} => host.port = "ram"
    /\ pc = "prepared" => bus.ready
    /\ bus.ready => host.port = "ram" \/ user.pending

\* Core 3's service is asked for before anything is transferred on a C128.
RefreshInv ==
    /\ pc = "starting" => core3.requested
    /\ pc = "legacy" => bus.machine = "C64" /\ host.machine = "C64"

\* m_RAMUnderIOAccessible from the first call to the hook's repeated one.
AccessInv ==
    /\ pc \in {"roms", "seed", "selfTest", "sentinel", "underIO"} => caller = "init"
    /\ caller = "init" => ~accessible
    /\ caller = "boot" /\ pc \in {"prepare", "notPrepared"} => ~bus.ready
    /\ caller = "hook" /\ pc \in TakeoverAt \union {"prepare", "probe", "prepared"} => accessible
    /\ pc \in {"hdmi", "calLoad", "selectLoad", "loaded", "run", "frozen", "resetDown",
               "scpuReset"} => accessible = bus.ready

\* The flag knows of the last read wherever the next transfer may be a write.
TurnAt == {"selectRead", "calWrite", "calSID", "video", "lineSync", "acquired", "seed",
           "selfTest", "sentinel", "underIO", "prepare", "prepared", "hdmi", "calLoad",
           "selectLoad", "loaded", "run", "frozen", "resetDown", "scpuReset"}
WireType == [last : {"read", "write"}, lost : SUBSET {"spare"}]
WireInv ==
    /\ wire \in WireType
    /\ bus.acquired => bus.passes >= PassesNeeded
    /\ pc \in TurnAt \/ (pc = "notPrepared" /\ bus.acquired) => (wire.last = "read" => bus.turn)

IInv == TypeInv /\ HoldInv /\ PortInv /\ RefreshInv /\ C128Refreshed /\ AccessInv /\ WireInv

--------------------------------------------------------------------------------
(* Transfers and the host.                                                    *)

\* A series of transfers touches the turnaround flag and the wire only.
LEMMA TransfersFacts ==
    ASSUME NEW ops, NEW b \in BusType, Transfers(ops, b)
    PROVE  /\ bus' \in BusType
           /\ bus'.acquired = b.acquired /\ bus'.ready = b.ready /\ bus'.selectIO = b.selectIO
           /\ bus'.halted = b.halted /\ bus'.machine = b.machine /\ bus'.passes = b.passes
           /\ wire'.last = "read" => bus'.turn
<1> DEFINE t == TurnAfter(Last(ops))
<1>1. bus' = [b EXCEPT !.turn = t]
  BY DEF Transfers
<1>2. t \in BOOLEAN /\ (t <=> Last(ops) = "read")
  BY DEF TurnAfter
<1>3. wire'.last = IF Last(ops) = "read" THEN "read" ELSE "write"
  BY DEF Transfers
<1> HIDE DEF t
<1> QED
  BY <1>1, <1>2, <1>3 DEF BusType

\* Past the first, a write follows a read only with the flag set; the first
\* one meets what the flag and the wire were before.
LEMMA TransfersLand ==
    ASSUME NEW ops, NEW b \in BusType, Transfers(ops, b), wire \in WireType,
           b.passes >= PassesNeeded,
           ops[1] \in {"read", "spare"} \/ (wire.last = "read" => b.turn)
    PROVE  wire' \in WireType
<1> DEFINE prev(i) == IF i = 1 THEN wire.last ELSE ops[i - 1]
           turn(i) == IF i = 1 THEN b.turn ELSE TurnAfter(ops[i - 1])
           lost == {i \in DOMAIN ops : ops[i] # "read" /\ Lost(prev(i), turn(i), b.passes)}
<1>1. wire' = [last |-> IF Last(ops) = "read" THEN "read" ELSE "write",
               lost |-> wire.lost \union {ops[i] : i \in lost}]
  BY DEF Transfers
<1>2. ASSUME NEW i \in lost PROVE ops[i] = "spare"
  <2>1. b.passes \in Nat /\ PassesNeeded \in Nat
    BY DEF BusType, PassesNeeded
  <2>2. prev(i) = "read" /\ ops[i] # "read" /\ ~turn(i)
    BY <1>2, <2>1 DEF Lost
  <2>3. i = 1
    BY <2>2 DEF TurnAfter
  <2> QED
    BY <2>2, <2>3
<1> HIDE DEF lost
<1> QED
  BY <1>1, <1>2 DEF WireType

\* A read loses nothing, whatever the flag and the passes are.
LEMMA ReadLands ==
    ASSUME NEW b, Transfers(<<"read">>, b), wire \in WireType
    PROVE  wire' \in WireType
<1> DEFINE ops == <<"read">>
           prev(i) == IF i = 1 THEN wire.last ELSE ops[i - 1]
           turn(i) == IF i = 1 THEN b.turn ELSE TurnAfter(ops[i - 1])
           lost == {i \in DOMAIN ops : ops[i] # "read" /\ Lost(prev(i), turn(i), b.passes)}
<1>1. wire' = [last |-> IF Last(ops) = "read" THEN "read" ELSE "write",
               lost |-> wire.lost \union {ops[i] : i \in lost}]
  BY DEF Transfers
<1>2. \A i \in DOMAIN ops : ops[i] = "read"
  OBVIOUS
<1>3. lost = {}
  BY <1>2
<1> HIDE DEF lost
<1> QED
  BY <1>1, <1>3 DEF WireType

\* A reset of the machine leaves its model alone.
LEMMA HostResetFacts ==
    ASSUME host \in HostType, HostReset
    PROVE  host' \in HostType /\ host'.port = "kernal" /\ host'.machine = host.machine
BY DEF HostReset, HostType, Ports

LEMMA ReleasedFacts ==
    ASSUME pins \in PinsType
    PROVE  /\ ReleasedPins \in PinsType /\ ~ReleasedPins.dma /\ ~ReleasedPins.game
           /\ ReleasedPins.reset = pins.reset
BY DEF ReleasedPins, PinsType

LEMMA HaltedFacts ==
    ASSUME bus \in BusType
    PROVE  /\ HaltedBus \in BusType
           /\ HaltedBus.acquired = bus.acquired /\ HaltedBus.ready = bus.ready
           /\ HaltedBus.selectIO = bus.selectIO /\ HaltedBus.machine = bus.machine
           /\ HaltedBus.passes = bus.passes /\ HaltedBus.turn = bus.turn
BY DEF HaltedBus, BusType

--------------------------------------------------------------------------------
(* What one step writes into the records.                                     *)

\* The map is forgotten before a takeover, and when the machine is restored.
LEMMA MapDropped ==
    ASSUME bus \in BusType,
           \/ bus' = [bus EXCEPT !.selectIO = FALSE, !.ready = FALSE]
           \/ bus' = [bus EXCEPT !.ready = FALSE, !.selectIO = FALSE]
    PROVE  /\ bus' \in BusType /\ ~bus'.ready /\ ~bus'.selectIO
           /\ bus'.acquired = bus.acquired /\ bus'.halted = bus.halted
           /\ bus'.machine = bus.machine /\ bus'.passes = bus.passes
           /\ bus'.turn = bus.turn
BY DEF BusType

\* The machine is given back, or was lost.
LEMMA BusLost ==
    ASSUME bus \in BusType, bus' = [bus EXCEPT !.acquired = FALSE]
    PROVE  /\ bus' \in BusType /\ ~bus'.acquired
           /\ bus'.ready = bus.ready /\ bus'.selectIO = bus.selectIO
           /\ bus'.halted = bus.halted /\ bus'.machine = bus.machine
           /\ bus'.passes = bus.passes /\ bus'.turn = bus.turn
BY DEF BusType

LEMMA TakeoverLost ==
    ASSUME bus \in BusType,
           bus' = [bus EXCEPT !.acquired = @ /\ caller \notin {"boot", "hook"}]
    PROVE  /\ bus' \in BusType
           /\ Preparing => ~bus'.acquired
           /\ ~Preparing => bus'.acquired = bus.acquired
           /\ bus'.ready = bus.ready /\ bus'.selectIO = bus.selectIO
           /\ bus'.halted = bus.halted /\ bus'.machine = bus.machine
           /\ bus'.passes = bus.passes /\ bus'.turn = bus.turn
<1> DEFINE a == bus.acquired /\ caller \notin {"boot", "hook"}
<1>1. /\ a \in BOOLEAN
      /\ Preparing => ~a
      /\ ~Preparing => a = bus.acquired
  BY DEF Preparing, BusType
<1>2. bus' = [bus EXCEPT !.acquired = a]
  OBVIOUS
<1> HIDE DEF a
<1> QED
  BY <1>1, <1>2 DEF BusType

\* acquire() has the machine, by either takeover.
LEMMA LegacyTaken ==
    ASSUME bus \in BusType,
           bus' = [bus EXCEPT !.passes = 1, !.turn = TRUE, !.acquired = TRUE]
    PROVE  /\ bus' \in BusType /\ bus'.acquired /\ bus'.turn /\ bus'.passes = 1
           /\ bus'.ready = bus.ready /\ bus'.selectIO = bus.selectIO
           /\ bus'.halted = bus.halted /\ bus'.machine = bus.machine
BY DEF BusType

LEMMA UltimaxTook ==
    ASSUME bus \in BusType, host \in HostType,
           bus' = [bus EXCEPT !.machine = host.machine, !.acquired = TRUE,
                              !.passes = IF host.machine = "C128" THEN 2 ELSE 1,
                              !.turn = host.machine = "C128"]
    PROVE  /\ bus' \in BusType /\ bus'.acquired /\ bus'.passes >= PassesNeeded
           /\ bus'.machine = host.machine
           /\ bus'.ready = bus.ready /\ bus'.selectIO = bus.selectIO
           /\ bus'.halted = bus.halted
<1> DEFINE p == IF host.machine = "C128" THEN 2 ELSE 1
           t == host.machine = "C128"
<1>1. p \in {1, 2} /\ p >= PassesNeeded /\ t \in BOOLEAN /\ host.machine \in {"C64", "C128"}
  BY DEF PassesNeeded, HostType
<1>2. bus' = [bus EXCEPT !.machine = host.machine, !.acquired = TRUE, !.passes = p, !.turn = t]
  OBVIOUS
<1> HIDE DEF p, t
<1> QED
  BY <1>1, <1>2 DEF BusType

\* The object's state before the transfers of a step that also sets it.
LEMMA MachineSeen ==
    ASSUME bus \in BusType, host \in HostType
    PROVE  LET b == [bus EXCEPT !.machine = host.machine]
           IN  /\ b \in BusType /\ b.machine = host.machine
               /\ b.acquired = bus.acquired /\ b.ready = bus.ready
               /\ b.selectIO = bus.selectIO /\ b.halted = bus.halted
               /\ b.passes = bus.passes /\ b.turn = bus.turn
BY DEF BusType, HostType

LEMMA ProbeSets ==
    ASSUME bus \in BusType
    PROVE  /\ LET b == [bus EXCEPT !.turn = TRUE]
              IN  /\ b \in BusType /\ b.turn
                  /\ b.acquired = bus.acquired /\ b.ready = bus.ready
                  /\ b.selectIO = bus.selectIO /\ b.halted = bus.halted
                  /\ b.machine = bus.machine /\ b.passes = bus.passes
           /\ LET b == [bus EXCEPT !.turn = TRUE, !.selectIO = TRUE, !.ready = TRUE]
              IN  /\ b \in BusType /\ b.turn /\ b.ready /\ b.selectIO
                  /\ b.acquired = bus.acquired /\ b.halted = bus.halted
                  /\ b.machine = bus.machine /\ b.passes = bus.passes
BY DEF BusType

\* The lines.
LEMMA PinsFacts ==
    ASSUME pins \in PinsType
    PROVE  /\ pins' = [pins EXCEPT !.dma = TRUE]
              => pins' \in PinsType /\ pins'.dma /\ pins'.game = pins.game
                 /\ pins'.reset = pins.reset
           /\ pins' = [pins EXCEPT !.game = FALSE]
              => pins' \in PinsType /\ ~pins'.game /\ pins'.dma = pins.dma
                 /\ pins'.reset = pins.reset
           /\ pins' = [pins EXCEPT !.reset = FALSE, !.dma = FALSE]
              => pins' \in PinsType /\ ~pins'.dma /\ ~pins'.reset
                 /\ pins'.game = pins.game
BY DEF PinsType

\* Core 3's two flags.
LEMMA Core3Facts ==
    ASSUME core3 \in Core3Type
    PROVE  /\ core3' = [core3 EXCEPT !.requested = TRUE]
              => core3' \in Core3Type /\ core3'.requested /\ core3'.active = core3.active
           /\ core3' = [core3 EXCEPT !.requested = FALSE]
              => core3' \in Core3Type /\ ~core3'.requested /\ core3'.active = core3.active
           /\ core3' = [core3 EXCEPT !.active = TRUE]
              => core3' \in Core3Type /\ core3'.active /\ core3'.requested = core3.requested
           /\ core3' = [core3 EXCEPT !.active = FALSE]
              => core3' \in Core3Type /\ ~core3'.active /\ core3'.requested = core3.requested
BY DEF Core3Type

\* The two buttons.
LEMMA UserFacts ==
    ASSUME user \in UserType
    PROVE  /\ user' = [user EXCEPT !.button = FALSE, !.pending = FALSE]
              => user' \in UserType /\ ~user'.pending
           /\ user' = [user EXCEPT !.button = TRUE]
              => user' \in UserType /\ user'.pending = user.pending
           /\ user' = [user EXCEPT !.reset = TRUE, !.pending = TRUE]
              => user' \in UserType /\ user'.pending
           /\ user' = [user EXCEPT !.reset = FALSE]
              => user' \in UserType /\ user'.pending = user.pending
BY DEF UserType

\* A Pi that restarts knows nothing and drives nothing.
LEMMA RestartFacts ==
    ASSUME PiRestarts
    PROVE  /\ bus' \in BusType /\ ~bus'.acquired /\ ~bus'.ready /\ ~bus'.selectIO
           /\ pins' \in PinsType /\ ~pins'.dma /\ ~pins'.game /\ ~pins'.reset
           /\ core3' \in Core3Type
           /\ accessible' \in BOOLEAN /\ ~accessible'
           /\ wire' \in WireType /\ stub' \in [port : Ports, left : Nat]
BY DEF PiRestarts, BusType, PinsType, Core3Type, WireType, Ports

--------------------------------------------------------------------------------
(* One step preserves each part.                                              *)

\* Every step keeps the types.
LEMMA TypeStep ==
    ASSUME TypeInv, [Next]_vars
    PROVE  TypeInv'
<1> USE DEF TypeInv, HostType, Ports
<1>1. CASE UltimaxSteps /\ UNCHANGED bootVars
  <2>1. CASE UltimaxHold
    <3>1. pins' \in PinsType
      BY <1>1, <2>1 DEF UltimaxHold, PinsType
    <3>2. stub' \in [port : Ports, left : Nat]
      BY <1>1, <2>1 DEF UltimaxHold
    <3> QED
      BY <1>1, <2>1, <3>1, <3>2, HostResetFacts DEF UltimaxHold, bootVars
  <2>2. CASE UltimaxLet
    BY <1>1, <2>2, PinsFacts DEF UltimaxLet, bootVars
  <2>3. CASE UltimaxTaken
    BY <1>1, <2>3, PinsFacts DEF UltimaxTaken, bootVars
  <2>4. CASE UltimaxTimeout
    BY <1>1, <2>4, ReleasedFacts DEF UltimaxTimeout, bootVars
  <2>5. CASE UltimaxGiveUp
    BY <1>1, <2>5, HostResetFacts, TakeoverLost DEF UltimaxGiveUp, bootVars
  <2> QED
    BY <1>1, <2>1, <2>2, <2>3, <2>4, <2>5 DEF UltimaxSteps
<1>2. CASE AcquireSteps /\ UNCHANGED bootVars
  <2>1. CASE NoMachine
    BY <1>2, <2>1, MapDropped DEF NoMachine, bootVars
  <2>2. CASE CleanStart
    BY <1>2, <2>2, HostResetFacts, MapDropped DEF CleanStart, bootVars
  <2>3. CASE Settled
    BY <1>2, <2>3, AttemptsAssumption DEF Settled, PrepareStub, bootVars
  <2>4. CASE HijackOnBadline
    BY <1>2, <2>4, TransfersFacts, MachineSeen, PinsFacts DEF HijackOnBadline, bootVars
  <2>5. CASE NoBadline
    BY <1>2, <2>5, AttemptsAssumption DEF NoBadline, PrepareStub, bootVars
  <2>6. CASE LegacyAcquired
    BY <1>2, <2>6, LegacyTaken DEF LegacyAcquired, bootVars
  <2>7. CASE UltimaxAcquired
    BY <1>2, <2>7, UltimaxTook, PinsFacts DEF UltimaxAcquired, bootVars
  <2>8. CASE RefreshRequest
    BY <1>2, <2>8, Core3Facts DEF RefreshRequest, bootVars
  <2>9. CASE RefreshRunning
    BY <1>2, <2>9 DEF RefreshRunning, bootVars
  <2>10. CASE RefreshNotStarted
    BY <1>2, <2>10, ReleasedFacts, BusLost DEF RefreshNotStarted, bootVars
  <2>11. CASE ScanRead
    BY <1>2, <2>11, TransfersFacts DEF ScanRead, bootVars
  <2>12. CASE SelectRead
    BY <1>2, <2>12, TransfersFacts DEF SelectRead, bootVars
  <2>13. CASE CalibrateWrite
    BY <1>2, <2>13, TransfersFacts DEF CalibrateWrite, bootVars
  <2>14. CASE CalibrateSID
    BY <1>2, <2>14, TransfersFacts DEF CalibrateSID, bootVars
  <2>15. CASE DetectVideo
    BY <1>2, <2>15, TransfersFacts DEF DetectVideo, bootVars
  <2>16. CASE LineSynced
    BY <1>2, <2>16, TransfersFacts DEF LineSynced, bootVars
  <2>17. CASE LineNotSynced
    BY <1>2, <2>17, TransfersFacts DEF LineNotSynced, Release, bootVars
  <2> QED
    BY <1>2, <2>1, <2>2, <2>3, <2>4, <2>5, <2>6, <2>7, <2>8, <2>9, <2>10, <2>11, <2>12,
       <2>13, <2>14, <2>15, <2>16, <2>17 DEF AcquireSteps
<1>3. CASE ReleaseSteps /\ UNCHANGED bootVars
  <2>1. CASE NotHeld
    BY <1>3, <2>1 DEF NotHeld, radVars, bootVars
  <2>2. CASE StopRefresh
    BY <1>3, <2>2, Core3Facts DEF StopRefresh, bootVars
  <2>3. CASE RestoreHost
    BY <1>3, <2>3, HostResetFacts, MapDropped DEF RestoreHost, bootVars
  <2>4. CASE LetGo
    BY <1>3, <2>4, ReleasedFacts, BusLost DEF LetGo, bootVars
  <2> QED
    BY <1>3, <2>1, <2>2, <2>3, <2>4 DEF ReleaseSteps
<1>4. CASE (Prepare \/ ProbePasses \/ ProbeFails) /\ UNCHANGED bootVars
  <2>1. CASE Prepare
    BY <1>4, <2>1, MapDropped, AttemptsAssumption DEF Prepare, PrepareStub, bootVars,
       MayPrepare
  <2>2. CASE ProbePasses
    BY <1>4, <2>2, TransfersFacts, ProbeSets, PinsFacts DEF ProbePasses, bootVars
  <2>3. CASE ProbeFails
    BY <1>4, <2>3, TransfersFacts, HostResetFacts, ProbeSets, PinsFacts DEF ProbeFails,
       bootVars
  <2> QED
    BY <1>4, <2>1, <2>2, <2>3
<1>5. CASE BootSteps
  <2>1. CASE ROMs \/ NotAcquired \/ InitRest \/ UnderIO \/ Prepared
    BY <2>1 DEF ROMs, Acquire, radVars, bootVars, NotAcquired, InitRest, UnderIO, Prepared
  <2>2. CASE SeedCIA2
    BY <2>2, TransfersFacts DEF SeedCIA2
  <2>3. CASE SelfTest
    BY <2>3, TransfersFacts, HaltedFacts DEF SelfTest, Release, bootVars
  <2>4. CASE SentinelRun
    BY <2>4, TransfersFacts, HaltedFacts DEF SentinelRun, Release, bootVars, MayPrepare
  <2>5. CASE NotPrepared \/ AcquiredAgain \/ HDMI \/ UnderLoad
    BY <2>5 DEF NotPrepared, Acquire, radVars, AcquiredAgain, HDMI, bootVars, UnderLoad
  <2> QED
    BY <1>5, <2>1, <2>2, <2>3, <2>4, <2>5 DEF BootSteps
<1>6. CASE HookSteps
  <2>1. CASE HookFreezes
    BY <2>1, TransfersFacts DEF HookFreezes, bootVars
  <2>2. CASE HookButton \/ HookSeesReset \/ HookResetReleased \/ HookMapLost
    BY <2>2 DEF HookButton, Release, radVars, bootVars, HookSeesReset, HookResetReleased,
       HookMapLost
  <2>3. CASE HookReset
    <3> DEFINE r == user.reset
    <3>1. user' = [user EXCEPT !.pending = r] /\ r \in BOOLEAN
      BY <1>6, <2>3 DEF HookReset, UserType
    <3> HIDE DEF r
    <3>2. user' \in UserType
      BY <3>1 DEF UserType
    <3> QED
      BY <1>6, <2>3, <3>2 DEF HookReset, radVars
  <2>4. CASE HookHalts
    BY <2>4, HaltedFacts DEF HookHalts, bootVars
  <2> QED
    BY <1>6, <2>1, <2>2, <2>3, <2>4 DEF HookSteps
<1>7. CASE Traffic \/ WaitForButton
  <2>1. CASE Traffic
    BY <2>1, TransfersFacts DEF Traffic, bootVars
  <2>2. CASE WaitForButton
    BY <2>2 DEF WaitForButton, radVars, bootVars
  <2> QED
    BY <1>7, <2>1, <2>2
<1>8. CASE Host
  BY <1>8 DEF Host, HostKernal, bootVars, HostRuns, StubStores
<1>9. CASE Core3 /\ UNCHANGED bootVars
  <2>1. CASE Core3Takes
    BY <1>9, <2>1, Core3Facts DEF Core3Takes, bootVars
  <2>2. CASE Core3Quits
    BY <1>9, <2>2, Core3Facts DEF Core3Quits, bootVars
  <2> QED
    BY <1>9, <2>1, <2>2 DEF Core3
<1>10. CASE User \/ PiRestarts
  <2>1. CASE PressButton
    BY <2>1, UserFacts DEF PressButton, radVars
  <2>2. CASE PressReset
    BY <2>2, HostResetFacts, UserFacts DEF PressReset
  <2>3. CASE ReleaseReset
    BY <2>3, UserFacts DEF ReleaseReset, radVars
  <2>4. CASE PiRestarts
    BY <2>4, RestartFacts, UserFacts DEF PiRestarts
  <2> QED
    BY <1>10, <2>1, <2>2, <2>3, <2>4 DEF User
<1>11. CASE UNCHANGED vars
  BY <1>11 DEF vars, radVars, bootVars
<1> QED
  BY <1>1, <1>2, <1>3, <1>4, <1>5, <1>6, <1>7, <1>8, <1>9, <1>10, <1>11 DEF Next, Core0,
     RadSteps

\* Every step keeps the lines and m_Acquired on core 0's path.
LEMMA HoldStep ==
    ASSUME TypeInv, HoldInv, [Next]_vars
    PROVE  HoldInv'
<1> USE DEF TypeInv, HoldInv, HeldAt, FreeAt, TakeoverAt, BusType, PinsType, Preparing
<1>1. CASE UltimaxSteps /\ UNCHANGED bootVars
  <2>1. CASE UltimaxHold
    BY <1>1, <2>1, HostResetFacts DEF UltimaxHold, bootVars
  <2>2. CASE UltimaxLet
    BY <1>1, <2>2, PinsFacts DEF UltimaxLet, bootVars
  <2>3. CASE UltimaxTaken
    BY <1>1, <2>3, PinsFacts DEF UltimaxTaken, bootVars
  <2>4. CASE UltimaxTimeout
    BY <1>1, <2>4, ReleasedFacts DEF UltimaxTimeout, bootVars
  <2>5. CASE UltimaxGiveUp
    BY <1>1, <2>5, HostResetFacts, TakeoverLost DEF UltimaxGiveUp, bootVars
  <2> QED
    BY <1>1, <2>1, <2>2, <2>3, <2>4, <2>5 DEF UltimaxSteps
<1>2. CASE AcquireSteps /\ UNCHANGED bootVars
  <2>1. CASE NoMachine
    BY <1>2, <2>1, MapDropped DEF NoMachine, bootVars
  <2>2. CASE CleanStart
    BY <1>2, <2>2, HostResetFacts, MapDropped DEF CleanStart, bootVars
  <2>3. CASE Settled
    BY <1>2, <2>3, AttemptsAssumption DEF Settled, PrepareStub, bootVars
  <2>4. CASE HijackOnBadline
    BY <1>2, <2>4, TransfersFacts, MachineSeen, PinsFacts DEF HijackOnBadline, bootVars
  <2>5. CASE NoBadline
    BY <1>2, <2>5, AttemptsAssumption DEF NoBadline, PrepareStub, bootVars
  <2>6. CASE LegacyAcquired
    BY <1>2, <2>6, LegacyTaken DEF LegacyAcquired, bootVars
  <2>7. CASE UltimaxAcquired
    BY <1>2, <2>7, UltimaxTook, PinsFacts DEF UltimaxAcquired, bootVars
  <2>8. CASE RefreshRequest
    BY <1>2, <2>8, Core3Facts DEF RefreshRequest, bootVars
  <2>9. CASE RefreshRunning
    BY <1>2, <2>9 DEF RefreshRunning, bootVars
  <2>10. CASE RefreshNotStarted
    BY <1>2, <2>10, ReleasedFacts, BusLost DEF RefreshNotStarted, bootVars
  <2>11. CASE ScanRead
    BY <1>2, <2>11, TransfersFacts DEF ScanRead, bootVars
  <2>12. CASE SelectRead
    BY <1>2, <2>12, TransfersFacts DEF SelectRead, bootVars
  <2>13. CASE CalibrateWrite
    BY <1>2, <2>13, TransfersFacts DEF CalibrateWrite, bootVars
  <2>14. CASE CalibrateSID
    BY <1>2, <2>14, TransfersFacts DEF CalibrateSID, bootVars
  <2>15. CASE DetectVideo
    BY <1>2, <2>15, TransfersFacts DEF DetectVideo, bootVars
  <2>16. CASE LineSynced
    BY <1>2, <2>16, TransfersFacts DEF LineSynced, bootVars
  <2>17. CASE LineNotSynced
    BY <1>2, <2>17, TransfersFacts DEF LineNotSynced, Release, bootVars
  <2> QED
    BY <1>2, <2>1, <2>2, <2>3, <2>4, <2>5, <2>6, <2>7, <2>8, <2>9, <2>10, <2>11, <2>12,
       <2>13, <2>14, <2>15, <2>16, <2>17 DEF AcquireSteps
<1>3. CASE ReleaseSteps /\ UNCHANGED bootVars
  <2>1. CASE NotHeld
    BY <1>3, <2>1 DEF NotHeld, radVars, bootVars
  <2>2. CASE StopRefresh
    BY <1>3, <2>2, Core3Facts DEF StopRefresh, bootVars
  <2>3. CASE RestoreHost
    BY <1>3, <2>3, HostResetFacts, MapDropped DEF RestoreHost, bootVars
  <2>4. CASE LetGo
    BY <1>3, <2>4, ReleasedFacts, BusLost DEF LetGo, bootVars
  <2> QED
    BY <1>3, <2>1, <2>2, <2>3, <2>4 DEF ReleaseSteps
<1>4. CASE (Prepare \/ ProbePasses \/ ProbeFails) /\ UNCHANGED bootVars
  <2>1. CASE Prepare
    BY <1>4, <2>1, MapDropped, AttemptsAssumption DEF Prepare, PrepareStub, bootVars,
       MayPrepare
  <2>2. CASE ProbePasses
    BY <1>4, <2>2, TransfersFacts, ProbeSets, PinsFacts DEF ProbePasses, bootVars
  <2>3. CASE ProbeFails
    BY <1>4, <2>3, TransfersFacts, HostResetFacts, ProbeSets, PinsFacts DEF ProbeFails,
       bootVars
  <2> QED
    BY <1>4, <2>1, <2>2, <2>3
<1>5. CASE BootSteps
  <2>1. CASE ROMs \/ NotAcquired \/ InitRest \/ UnderIO \/ Prepared
    BY <2>1 DEF ROMs, Acquire, radVars, bootVars, NotAcquired, InitRest, UnderIO, Prepared
  <2>2. CASE SeedCIA2
    BY <2>2, TransfersFacts DEF SeedCIA2
  <2>3. CASE SelfTest
    BY <2>3, TransfersFacts, HaltedFacts DEF SelfTest, Release, bootVars
  <2>4. CASE SentinelRun
    BY <2>4, TransfersFacts, HaltedFacts DEF SentinelRun, Release, bootVars, MayPrepare
  <2>5. CASE NotPrepared \/ AcquiredAgain \/ HDMI \/ UnderLoad
    BY <2>5 DEF NotPrepared, Acquire, radVars, AcquiredAgain, HDMI, bootVars, UnderLoad
  <2> QED
    BY <1>5, <2>1, <2>2, <2>3, <2>4, <2>5 DEF BootSteps
<1>6. CASE HookSteps
  <2>1. CASE HookFreezes
    BY <2>1, TransfersFacts DEF HookFreezes, bootVars
  <2>2. CASE HookButton \/ HookSeesReset \/ HookResetReleased \/ HookReset \/ HookMapLost
    BY <2>2 DEF HookButton, Release, radVars, bootVars, HookSeesReset, HookResetReleased,
       HookReset, HookMapLost
  <2>3. CASE HookHalts
    BY <2>3, HaltedFacts DEF HookHalts, bootVars
  <2> QED
    BY <1>6, <2>1, <2>2, <2>3 DEF HookSteps
<1>7. CASE Traffic \/ WaitForButton
  <2>1. CASE Traffic
    BY <2>1, TransfersFacts DEF Traffic, bootVars
  <2>2. CASE WaitForButton
    BY <2>2 DEF WaitForButton, radVars, bootVars
  <2> QED
    BY <1>7, <2>1, <2>2
<1>8. CASE Host
  BY <1>8 DEF Host, HostKernal, bootVars, HostRuns, StubStores
<1>9. CASE Core3 /\ UNCHANGED bootVars
  <2>1. CASE Core3Takes
    BY <1>9, <2>1, Core3Facts DEF Core3Takes, bootVars
  <2>2. CASE Core3Quits
    BY <1>9, <2>2, Core3Facts DEF Core3Quits, bootVars
  <2> QED
    BY <1>9, <2>1, <2>2 DEF Core3
<1>10. CASE User \/ PiRestarts
  <2>1. CASE PressButton
    BY <2>1, UserFacts DEF PressButton, radVars
  <2>2. CASE PressReset
    BY <2>2, HostResetFacts, UserFacts DEF PressReset
  <2>3. CASE ReleaseReset
    BY <2>3, UserFacts DEF ReleaseReset, radVars
  <2>4. CASE PiRestarts
    BY <2>4, RestartFacts, UserFacts DEF PiRestarts
  <2> QED
    BY <1>10, <2>1, <2>2, <2>3, <2>4 DEF User
<1>11. CASE UNCHANGED vars
  BY <1>11 DEF vars, radVars, bootVars
<1> QED
  BY <1>1, <1>2, <1>3, <1>4, <1>5, <1>6, <1>7, <1>8, <1>9, <1>10, <1>11 DEF Next, Core0,
     RadSteps

\* Every step keeps the account of the all-RAM map.
LEMMA PortStep ==
    ASSUME TypeInv, HoldInv, PortInv, [Next]_vars
    PROVE  PortInv'
<1> USE DEF TypeInv, HoldInv, PortInv, HeldAt, FreeAt, ReadyAt, TakeoverAt, BusType,
        PinsType, HostType, Ports, Preparing
<1>1. CASE UltimaxSteps /\ UNCHANGED bootVars
  <2>1. CASE UltimaxHold
    BY <1>1, <2>1, HostResetFacts DEF UltimaxHold, bootVars
  <2>2. CASE UltimaxLet
    BY <1>1, <2>2, PinsFacts DEF UltimaxLet, bootVars
  <2>3. CASE UltimaxTaken
    BY <1>1, <2>3, PinsFacts DEF UltimaxTaken, bootVars
  <2>4. CASE UltimaxTimeout
    BY <1>1, <2>4, ReleasedFacts DEF UltimaxTimeout, bootVars
  <2>5. CASE UltimaxGiveUp
    BY <1>1, <2>5, HostResetFacts, TakeoverLost DEF UltimaxGiveUp, bootVars
  <2> QED
    BY <1>1, <2>1, <2>2, <2>3, <2>4, <2>5 DEF UltimaxSteps
<1>2. CASE AcquireSteps /\ UNCHANGED bootVars
  <2>1. CASE NoMachine
    BY <1>2, <2>1, MapDropped DEF NoMachine, bootVars
  <2>2. CASE CleanStart
    BY <1>2, <2>2, HostResetFacts, MapDropped DEF CleanStart, bootVars
  <2>3. CASE Settled
    BY <1>2, <2>3, AttemptsAssumption DEF Settled, PrepareStub, bootVars
  <2>4. CASE HijackOnBadline
    BY <1>2, <2>4, TransfersFacts, MachineSeen, PinsFacts DEF HijackOnBadline, bootVars
  <2>5. CASE NoBadline
    BY <1>2, <2>5, AttemptsAssumption DEF NoBadline, PrepareStub, bootVars
  <2>6. CASE LegacyAcquired
    BY <1>2, <2>6, LegacyTaken DEF LegacyAcquired, bootVars
  <2>7. CASE UltimaxAcquired
    BY <1>2, <2>7, UltimaxTook, PinsFacts DEF UltimaxAcquired, bootVars
  <2>8. CASE RefreshRequest
    BY <1>2, <2>8, Core3Facts DEF RefreshRequest, bootVars
  <2>9. CASE RefreshRunning
    BY <1>2, <2>9 DEF RefreshRunning, bootVars
  <2>10. CASE RefreshNotStarted
    BY <1>2, <2>10, ReleasedFacts, BusLost DEF RefreshNotStarted, bootVars
  <2>11. CASE ScanRead
    BY <1>2, <2>11, TransfersFacts DEF ScanRead, bootVars
  <2>12. CASE SelectRead
    BY <1>2, <2>12, TransfersFacts DEF SelectRead, bootVars
  <2>13. CASE CalibrateWrite
    BY <1>2, <2>13, TransfersFacts DEF CalibrateWrite, bootVars
  <2>14. CASE CalibrateSID
    BY <1>2, <2>14, TransfersFacts DEF CalibrateSID, bootVars
  <2>15. CASE DetectVideo
    BY <1>2, <2>15, TransfersFacts DEF DetectVideo, bootVars
  <2>16. CASE LineSynced
    BY <1>2, <2>16, TransfersFacts DEF LineSynced, bootVars
  <2>17. CASE LineNotSynced
    BY <1>2, <2>17, TransfersFacts DEF LineNotSynced, Release, bootVars
  <2> QED
    BY <1>2, <2>1, <2>2, <2>3, <2>4, <2>5, <2>6, <2>7, <2>8, <2>9, <2>10, <2>11, <2>12,
       <2>13, <2>14, <2>15, <2>16, <2>17 DEF AcquireSteps
<1>3. CASE ReleaseSteps /\ UNCHANGED bootVars
  <2>1. CASE NotHeld
    BY <1>3, <2>1 DEF NotHeld, radVars, bootVars
  <2>2. CASE StopRefresh
    BY <1>3, <2>2, Core3Facts DEF StopRefresh, bootVars
  <2>3. CASE RestoreHost
    BY <1>3, <2>3, HostResetFacts, MapDropped DEF RestoreHost, bootVars
  <2>4. CASE LetGo
    BY <1>3, <2>4, ReleasedFacts, BusLost DEF LetGo, bootVars
  <2> QED
    BY <1>3, <2>1, <2>2, <2>3, <2>4 DEF ReleaseSteps
<1>4. CASE (Prepare \/ ProbePasses \/ ProbeFails) /\ UNCHANGED bootVars
  <2>1. CASE Prepare
    BY <1>4, <2>1, MapDropped, AttemptsAssumption DEF Prepare, PrepareStub, bootVars,
       MayPrepare
  <2>2. CASE ProbePasses
    <3>1. bus'.ready /\ bus'.selectIO /\ bus'.acquired
      BY <1>4, <2>2, TransfersFacts, ProbeSets, ZenonT(30) DEF ProbePasses
    <3> QED
      BY <1>4, <2>2, <3>1 DEF ProbePasses, bootVars
  <2>3. CASE ProbeFails
    BY <1>4, <2>3, TransfersFacts, HostResetFacts, ProbeSets, PinsFacts DEF ProbeFails,
       bootVars
  <2> QED
    BY <1>4, <2>1, <2>2, <2>3
<1>5. CASE BootSteps
  <2>1. CASE ROMs \/ NotAcquired \/ InitRest \/ UnderIO \/ Prepared
    BY <2>1 DEF ROMs, Acquire, radVars, bootVars, NotAcquired, InitRest, UnderIO, Prepared
  <2>2. CASE SeedCIA2
    BY <2>2, TransfersFacts DEF SeedCIA2
  <2>3. CASE SelfTest
    BY <2>3, TransfersFacts, HaltedFacts DEF SelfTest, Release, bootVars
  <2>4. CASE SentinelRun
    BY <2>4, TransfersFacts, HaltedFacts DEF SentinelRun, Release, bootVars, MayPrepare
  <2>5. CASE NotPrepared \/ AcquiredAgain \/ HDMI \/ UnderLoad
    BY <2>5 DEF NotPrepared, Acquire, radVars, AcquiredAgain, HDMI, bootVars, UnderLoad
  <2> QED
    BY <1>5, <2>1, <2>2, <2>3, <2>4, <2>5 DEF BootSteps
<1>6. CASE HookSteps
  <2>1. CASE HookFreezes
    BY <2>1, TransfersFacts DEF HookFreezes, bootVars
  <2>2. CASE HookButton \/ HookSeesReset \/ HookResetReleased \/ HookReset \/ HookMapLost
    BY <2>2 DEF HookButton, Release, radVars, bootVars, HookSeesReset, HookResetReleased,
       HookReset, HookMapLost
  <2>3. CASE HookHalts
    BY <2>3, HaltedFacts DEF HookHalts, bootVars
  <2> QED
    BY <1>6, <2>1, <2>2, <2>3 DEF HookSteps
<1>7. CASE Traffic \/ WaitForButton
  <2>1. CASE Traffic
    BY <2>1, TransfersFacts DEF Traffic, bootVars
  <2>2. CASE WaitForButton
    BY <2>2 DEF WaitForButton, radVars, bootVars
  <2> QED
    BY <1>7, <2>1, <2>2
<1>8. CASE Host
  BY <1>8 DEF Host, HostKernal, bootVars, HostRuns, StubStores
<1>9. CASE Core3 /\ UNCHANGED bootVars
  <2>1. CASE Core3Takes
    BY <1>9, <2>1, Core3Facts DEF Core3Takes, bootVars
  <2>2. CASE Core3Quits
    BY <1>9, <2>2, Core3Facts DEF Core3Quits, bootVars
  <2> QED
    BY <1>9, <2>1, <2>2 DEF Core3
<1>10. CASE User \/ PiRestarts
  <2>1. CASE PressButton
    BY <2>1, UserFacts DEF PressButton, radVars
  <2>2. CASE PressReset
    BY <2>2, HostResetFacts, UserFacts DEF PressReset
  <2>3. CASE ReleaseReset
    BY <2>3, UserFacts DEF ReleaseReset, radVars
  <2>4. CASE PiRestarts
    BY <2>4, RestartFacts, UserFacts DEF PiRestarts
  <2> QED
    BY <1>10, <2>1, <2>2, <2>3, <2>4 DEF User
<1>11. CASE UNCHANGED vars
  BY <1>11 DEF vars, radVars, bootVars
<1> QED
  BY <1>1, <1>2, <1>3, <1>4, <1>5, <1>6, <1>7, <1>8, <1>9, <1>10, <1>11 DEF Next, Core0,
     RadSteps

\* Every step keeps the order of the request and the legacy path.
LEMMA RefreshStep ==
    ASSUME TypeInv, HoldInv, RefreshInv, [Next]_vars
    PROVE  RefreshInv'
<1> USE DEF TypeInv, HoldInv, RefreshInv, FreeAt, BusType, HostType
<1>1. CASE UltimaxSteps /\ UNCHANGED bootVars
  <2>1. CASE UltimaxHold
    BY <1>1, <2>1, HostResetFacts DEF UltimaxHold, bootVars
  <2>2. CASE UltimaxLet
    BY <1>1, <2>2, PinsFacts DEF UltimaxLet, bootVars
  <2>3. CASE UltimaxTaken
    BY <1>1, <2>3, PinsFacts DEF UltimaxTaken, bootVars
  <2>4. CASE UltimaxTimeout
    BY <1>1, <2>4, ReleasedFacts DEF UltimaxTimeout, bootVars
  <2>5. CASE UltimaxGiveUp
    BY <1>1, <2>5, HostResetFacts, TakeoverLost DEF UltimaxGiveUp, bootVars
  <2> QED
    BY <1>1, <2>1, <2>2, <2>3, <2>4, <2>5 DEF UltimaxSteps
<1>2. CASE AcquireSteps /\ UNCHANGED bootVars
  <2>1. CASE NoMachine
    BY <1>2, <2>1, MapDropped DEF NoMachine, bootVars
  <2>2. CASE CleanStart
    BY <1>2, <2>2, HostResetFacts, MapDropped DEF CleanStart, bootVars
  <2>3. CASE Settled
    BY <1>2, <2>3, AttemptsAssumption DEF Settled, PrepareStub, bootVars
  <2>4. CASE HijackOnBadline
    BY <1>2, <2>4, TransfersFacts, MachineSeen, PinsFacts DEF HijackOnBadline, bootVars
  <2>5. CASE NoBadline
    BY <1>2, <2>5, AttemptsAssumption DEF NoBadline, PrepareStub, bootVars
  <2>6. CASE LegacyAcquired
    BY <1>2, <2>6, LegacyTaken DEF LegacyAcquired, bootVars
  <2>7. CASE UltimaxAcquired
    BY <1>2, <2>7, UltimaxTook, PinsFacts DEF UltimaxAcquired, bootVars
  <2>8. CASE RefreshRequest
    BY <1>2, <2>8, Core3Facts DEF RefreshRequest, bootVars
  <2>9. CASE RefreshRunning
    BY <1>2, <2>9 DEF RefreshRunning, bootVars
  <2>10. CASE RefreshNotStarted
    BY <1>2, <2>10, ReleasedFacts, BusLost DEF RefreshNotStarted, bootVars
  <2>11. CASE ScanRead
    BY <1>2, <2>11, TransfersFacts DEF ScanRead, bootVars
  <2>12. CASE SelectRead
    BY <1>2, <2>12, TransfersFacts DEF SelectRead, bootVars
  <2>13. CASE CalibrateWrite
    BY <1>2, <2>13, TransfersFacts DEF CalibrateWrite, bootVars
  <2>14. CASE CalibrateSID
    BY <1>2, <2>14, TransfersFacts DEF CalibrateSID, bootVars
  <2>15. CASE DetectVideo
    BY <1>2, <2>15, TransfersFacts DEF DetectVideo, bootVars
  <2>16. CASE LineSynced
    BY <1>2, <2>16, TransfersFacts DEF LineSynced, bootVars
  <2>17. CASE LineNotSynced
    BY <1>2, <2>17, TransfersFacts DEF LineNotSynced, Release, bootVars
  <2> QED
    BY <1>2, <2>1, <2>2, <2>3, <2>4, <2>5, <2>6, <2>7, <2>8, <2>9, <2>10, <2>11, <2>12,
       <2>13, <2>14, <2>15, <2>16, <2>17 DEF AcquireSteps
<1>3. CASE ReleaseSteps /\ UNCHANGED bootVars
  <2>1. CASE NotHeld
    BY <1>3, <2>1 DEF NotHeld, radVars, bootVars
  <2>2. CASE StopRefresh
    BY <1>3, <2>2, Core3Facts DEF StopRefresh, bootVars
  <2>3. CASE RestoreHost
    BY <1>3, <2>3, HostResetFacts, MapDropped DEF RestoreHost, bootVars
  <2>4. CASE LetGo
    BY <1>3, <2>4, ReleasedFacts, BusLost DEF LetGo, bootVars
  <2> QED
    BY <1>3, <2>1, <2>2, <2>3, <2>4 DEF ReleaseSteps
<1>4. CASE (Prepare \/ ProbePasses \/ ProbeFails) /\ UNCHANGED bootVars
  <2>1. CASE Prepare
    BY <1>4, <2>1, MapDropped, AttemptsAssumption DEF Prepare, PrepareStub, bootVars,
       MayPrepare
  <2>2. CASE ProbePasses
    BY <1>4, <2>2, TransfersFacts, ProbeSets, PinsFacts DEF ProbePasses, bootVars
  <2>3. CASE ProbeFails
    BY <1>4, <2>3, TransfersFacts, HostResetFacts, ProbeSets, PinsFacts DEF ProbeFails,
       bootVars
  <2> QED
    BY <1>4, <2>1, <2>2, <2>3
<1>5. CASE BootSteps
  <2>1. CASE ROMs \/ NotAcquired \/ InitRest \/ UnderIO \/ Prepared
    BY <2>1 DEF ROMs, Acquire, radVars, bootVars, NotAcquired, InitRest, UnderIO, Prepared
  <2>2. CASE SeedCIA2
    BY <2>2, TransfersFacts DEF SeedCIA2
  <2>3. CASE SelfTest
    BY <2>3, TransfersFacts, HaltedFacts DEF SelfTest, Release, bootVars
  <2>4. CASE SentinelRun
    BY <2>4, TransfersFacts, HaltedFacts DEF SentinelRun, Release, bootVars, MayPrepare
  <2>5. CASE NotPrepared \/ AcquiredAgain \/ HDMI \/ UnderLoad
    BY <2>5 DEF NotPrepared, Acquire, radVars, AcquiredAgain, HDMI, bootVars, UnderLoad
  <2> QED
    BY <1>5, <2>1, <2>2, <2>3, <2>4, <2>5 DEF BootSteps
<1>6. CASE HookSteps
  <2>1. CASE HookFreezes
    BY <2>1, TransfersFacts DEF HookFreezes, bootVars
  <2>2. CASE HookButton \/ HookSeesReset \/ HookResetReleased \/ HookReset \/ HookMapLost
    BY <2>2 DEF HookButton, Release, radVars, bootVars, HookSeesReset, HookResetReleased,
       HookReset, HookMapLost
  <2>3. CASE HookHalts
    BY <2>3, HaltedFacts DEF HookHalts, bootVars
  <2> QED
    BY <1>6, <2>1, <2>2, <2>3 DEF HookSteps
<1>7. CASE Traffic \/ WaitForButton
  <2>1. CASE Traffic
    BY <2>1, TransfersFacts DEF Traffic, bootVars
  <2>2. CASE WaitForButton
    BY <2>2 DEF WaitForButton, radVars, bootVars
  <2> QED
    BY <1>7, <2>1, <2>2
<1>8. CASE Host
  BY <1>8 DEF Host, HostKernal, bootVars, HostRuns, StubStores
<1>9. CASE Core3 /\ UNCHANGED bootVars
  <2>1. CASE Core3Takes
    BY <1>9, <2>1, Core3Facts DEF Core3Takes, bootVars
  <2>2. CASE Core3Quits
    BY <1>9, <2>2, Core3Facts DEF Core3Quits, bootVars
  <2> QED
    BY <1>9, <2>1, <2>2 DEF Core3
<1>10. CASE User \/ PiRestarts
  <2>1. CASE PressButton
    BY <2>1, UserFacts DEF PressButton, radVars
  <2>2. CASE PressReset
    BY <2>2, HostResetFacts, UserFacts DEF PressReset
  <2>3. CASE ReleaseReset
    BY <2>3, UserFacts DEF ReleaseReset, radVars
  <2>4. CASE PiRestarts
    BY <2>4, RestartFacts, UserFacts DEF PiRestarts
  <2> QED
    BY <1>10, <2>1, <2>2, <2>3, <2>4 DEF User
<1>11. CASE UNCHANGED vars
  BY <1>11 DEF vars, radVars, bootVars
<1> QED
  BY <1>1, <1>2, <1>3, <1>4, <1>5, <1>6, <1>7, <1>8, <1>9, <1>10, <1>11 DEF Next, Core0,
     RadSteps

\* Every step keeps a held C128 refreshed.
LEMMA C128RefreshedStep ==
    ASSUME TypeInv, HoldInv, RefreshInv, C128Refreshed, [Next]_vars
    PROVE  C128Refreshed'
<1> USE DEF TypeInv, HoldInv, RefreshInv, C128Refreshed, HeldAt, FreeAt
<1>1. CASE UltimaxSteps /\ UNCHANGED bootVars
  <2>1. CASE UltimaxHold
    BY <1>1, <2>1, HostResetFacts DEF UltimaxHold, bootVars
  <2>2. CASE UltimaxLet
    BY <1>1, <2>2, PinsFacts DEF UltimaxLet, bootVars
  <2>3. CASE UltimaxTaken
    BY <1>1, <2>3, PinsFacts DEF UltimaxTaken, bootVars
  <2>4. CASE UltimaxTimeout
    BY <1>1, <2>4, ReleasedFacts DEF UltimaxTimeout, bootVars
  <2>5. CASE UltimaxGiveUp
    BY <1>1, <2>5, HostResetFacts, TakeoverLost DEF UltimaxGiveUp, bootVars
  <2> QED
    BY <1>1, <2>1, <2>2, <2>3, <2>4, <2>5 DEF UltimaxSteps
<1>2. CASE AcquireSteps /\ UNCHANGED bootVars
  <2>1. CASE NoMachine
    BY <1>2, <2>1, MapDropped DEF NoMachine, bootVars
  <2>2. CASE CleanStart
    BY <1>2, <2>2, HostResetFacts, MapDropped DEF CleanStart, bootVars
  <2>3. CASE Settled
    BY <1>2, <2>3, AttemptsAssumption DEF Settled, PrepareStub, bootVars
  <2>4. CASE HijackOnBadline
    BY <1>2, <2>4, TransfersFacts, MachineSeen, PinsFacts DEF HijackOnBadline, bootVars
  <2>5. CASE NoBadline
    BY <1>2, <2>5, AttemptsAssumption DEF NoBadline, PrepareStub, bootVars
  <2>6. CASE LegacyAcquired
    BY <1>2, <2>6, LegacyTaken DEF LegacyAcquired, bootVars
  <2>7. CASE UltimaxAcquired
    BY <1>2, <2>7, UltimaxTook, PinsFacts DEF UltimaxAcquired, bootVars
  <2>8. CASE RefreshRequest
    BY <1>2, <2>8, Core3Facts DEF RefreshRequest, bootVars
  <2>9. CASE RefreshRunning
    BY <1>2, <2>9 DEF RefreshRunning, bootVars
  <2>10. CASE RefreshNotStarted
    BY <1>2, <2>10, ReleasedFacts, BusLost DEF RefreshNotStarted, bootVars
  <2>11. CASE ScanRead
    BY <1>2, <2>11, TransfersFacts DEF ScanRead, bootVars
  <2>12. CASE SelectRead
    BY <1>2, <2>12, TransfersFacts DEF SelectRead, bootVars
  <2>13. CASE CalibrateWrite
    BY <1>2, <2>13, TransfersFacts DEF CalibrateWrite, bootVars
  <2>14. CASE CalibrateSID
    BY <1>2, <2>14, TransfersFacts DEF CalibrateSID, bootVars
  <2>15. CASE DetectVideo
    BY <1>2, <2>15, TransfersFacts DEF DetectVideo, bootVars
  <2>16. CASE LineSynced
    BY <1>2, <2>16, TransfersFacts DEF LineSynced, bootVars
  <2>17. CASE LineNotSynced
    BY <1>2, <2>17, TransfersFacts DEF LineNotSynced, Release, bootVars
  <2> QED
    BY <1>2, <2>1, <2>2, <2>3, <2>4, <2>5, <2>6, <2>7, <2>8, <2>9, <2>10, <2>11, <2>12,
       <2>13, <2>14, <2>15, <2>16, <2>17 DEF AcquireSteps
<1>3. CASE ReleaseSteps /\ UNCHANGED bootVars
  <2>1. CASE NotHeld
    BY <1>3, <2>1 DEF NotHeld, radVars, bootVars
  <2>2. CASE StopRefresh
    BY <1>3, <2>2, Core3Facts DEF StopRefresh, bootVars
  <2>3. CASE RestoreHost
    BY <1>3, <2>3, HostResetFacts, MapDropped DEF RestoreHost, bootVars
  <2>4. CASE LetGo
    BY <1>3, <2>4, ReleasedFacts, BusLost DEF LetGo, bootVars
  <2> QED
    BY <1>3, <2>1, <2>2, <2>3, <2>4 DEF ReleaseSteps
<1>4. CASE (Prepare \/ ProbePasses \/ ProbeFails) /\ UNCHANGED bootVars
  <2>1. CASE Prepare
    BY <1>4, <2>1, MapDropped, AttemptsAssumption DEF Prepare, PrepareStub, bootVars,
       MayPrepare
  <2>2. CASE ProbePasses
    BY <1>4, <2>2, TransfersFacts, ProbeSets, PinsFacts DEF ProbePasses, bootVars
  <2>3. CASE ProbeFails
    BY <1>4, <2>3, TransfersFacts, HostResetFacts, ProbeSets, PinsFacts DEF ProbeFails,
       bootVars
  <2> QED
    BY <1>4, <2>1, <2>2, <2>3
<1>5. CASE BootSteps
  <2>1. CASE ROMs \/ NotAcquired \/ InitRest \/ UnderIO \/ Prepared
    BY <2>1 DEF ROMs, Acquire, radVars, bootVars, NotAcquired, InitRest, UnderIO, Prepared
  <2>2. CASE SeedCIA2
    BY <2>2, TransfersFacts DEF SeedCIA2
  <2>3. CASE SelfTest
    BY <2>3, TransfersFacts, HaltedFacts DEF SelfTest, Release, bootVars
  <2>4. CASE SentinelRun
    BY <2>4, TransfersFacts, HaltedFacts DEF SentinelRun, Release, bootVars, MayPrepare
  <2>5. CASE NotPrepared \/ AcquiredAgain \/ HDMI \/ UnderLoad
    BY <2>5 DEF NotPrepared, Acquire, radVars, AcquiredAgain, HDMI, bootVars, UnderLoad
  <2> QED
    BY <1>5, <2>1, <2>2, <2>3, <2>4, <2>5 DEF BootSteps
<1>6. CASE HookSteps
  <2>1. CASE HookFreezes
    BY <2>1, TransfersFacts DEF HookFreezes, bootVars
  <2>2. CASE HookButton \/ HookSeesReset \/ HookResetReleased \/ HookReset \/ HookMapLost
    BY <2>2 DEF HookButton, Release, radVars, bootVars, HookSeesReset, HookResetReleased,
       HookReset, HookMapLost
  <2>3. CASE HookHalts
    BY <2>3, HaltedFacts DEF HookHalts, bootVars
  <2> QED
    BY <1>6, <2>1, <2>2, <2>3 DEF HookSteps
<1>7. CASE Traffic \/ WaitForButton
  <2>1. CASE Traffic
    BY <2>1, TransfersFacts DEF Traffic, bootVars
  <2>2. CASE WaitForButton
    BY <2>2 DEF WaitForButton, radVars, bootVars
  <2> QED
    BY <1>7, <2>1, <2>2
<1>8. CASE Host
  BY <1>8 DEF Host, HostKernal, bootVars, HostRuns, StubStores
<1>9. CASE Core3 /\ UNCHANGED bootVars
  <2>1. CASE Core3Takes
    BY <1>9, <2>1, Core3Facts DEF Core3Takes, bootVars
  <2>2. CASE Core3Quits
    BY <1>9, <2>2, Core3Facts DEF Core3Quits, bootVars
  <2> QED
    BY <1>9, <2>1, <2>2 DEF Core3
<1>10. CASE User \/ PiRestarts
  <2>1. CASE PressButton
    BY <2>1, UserFacts DEF PressButton, radVars
  <2>2. CASE PressReset
    BY <2>2, HostResetFacts, UserFacts DEF PressReset
  <2>3. CASE ReleaseReset
    BY <2>3, UserFacts DEF ReleaseReset, radVars
  <2>4. CASE PiRestarts
    BY <2>4, RestartFacts, UserFacts DEF PiRestarts
  <2> QED
    BY <1>10, <2>1, <2>2, <2>3, <2>4 DEF User
<1>11. CASE UNCHANGED vars
  BY <1>11 DEF vars, radVars, bootVars
<1> QED
  BY <1>1, <1>2, <1>3, <1>4, <1>5, <1>6, <1>7, <1>8, <1>9, <1>10, <1>11 DEF Next, Core0,
     RadSteps

\* Every step keeps the mirror's view of the map.
LEMMA AccessStep ==
    ASSUME TypeInv, HoldInv, PortInv, AccessInv, [Next]_vars
    PROVE  AccessInv'
<1> USE DEF TypeInv, HoldInv, PortInv, AccessInv, HeldAt, FreeAt, ReadyAt, TakeoverAt,
        BusType, Preparing
<1>1. CASE UltimaxSteps /\ UNCHANGED bootVars
  <2>1. CASE UltimaxHold
    BY <1>1, <2>1, HostResetFacts DEF UltimaxHold, bootVars
  <2>2. CASE UltimaxLet
    BY <1>1, <2>2, PinsFacts DEF UltimaxLet, bootVars
  <2>3. CASE UltimaxTaken
    BY <1>1, <2>3, PinsFacts DEF UltimaxTaken, bootVars
  <2>4. CASE UltimaxTimeout
    BY <1>1, <2>4, ReleasedFacts DEF UltimaxTimeout, bootVars
  <2>5. CASE UltimaxGiveUp
    BY <1>1, <2>5, HostResetFacts, TakeoverLost DEF UltimaxGiveUp, bootVars
  <2> QED
    BY <1>1, <2>1, <2>2, <2>3, <2>4, <2>5 DEF UltimaxSteps
<1>2. CASE AcquireSteps /\ UNCHANGED bootVars
  <2>1. CASE NoMachine
    BY <1>2, <2>1, MapDropped DEF NoMachine, bootVars
  <2>2. CASE CleanStart
    BY <1>2, <2>2, HostResetFacts, MapDropped DEF CleanStart, bootVars
  <2>3. CASE Settled
    BY <1>2, <2>3, AttemptsAssumption DEF Settled, PrepareStub, bootVars
  <2>4. CASE HijackOnBadline
    BY <1>2, <2>4, TransfersFacts, MachineSeen, PinsFacts DEF HijackOnBadline, bootVars
  <2>5. CASE NoBadline
    BY <1>2, <2>5, AttemptsAssumption DEF NoBadline, PrepareStub, bootVars
  <2>6. CASE LegacyAcquired
    BY <1>2, <2>6, LegacyTaken DEF LegacyAcquired, bootVars
  <2>7. CASE UltimaxAcquired
    BY <1>2, <2>7, UltimaxTook, PinsFacts DEF UltimaxAcquired, bootVars
  <2>8. CASE RefreshRequest
    BY <1>2, <2>8, Core3Facts DEF RefreshRequest, bootVars
  <2>9. CASE RefreshRunning
    BY <1>2, <2>9 DEF RefreshRunning, bootVars
  <2>10. CASE RefreshNotStarted
    BY <1>2, <2>10, ReleasedFacts, BusLost DEF RefreshNotStarted, bootVars
  <2>11. CASE ScanRead
    BY <1>2, <2>11, TransfersFacts DEF ScanRead, bootVars
  <2>12. CASE SelectRead
    BY <1>2, <2>12, TransfersFacts DEF SelectRead, bootVars
  <2>13. CASE CalibrateWrite
    BY <1>2, <2>13, TransfersFacts DEF CalibrateWrite, bootVars
  <2>14. CASE CalibrateSID
    BY <1>2, <2>14, TransfersFacts DEF CalibrateSID, bootVars
  <2>15. CASE DetectVideo
    BY <1>2, <2>15, TransfersFacts DEF DetectVideo, bootVars
  <2>16. CASE LineSynced
    BY <1>2, <2>16, TransfersFacts DEF LineSynced, bootVars
  <2>17. CASE LineNotSynced
    BY <1>2, <2>17, TransfersFacts DEF LineNotSynced, Release, bootVars
  <2> QED
    BY <1>2, <2>1, <2>2, <2>3, <2>4, <2>5, <2>6, <2>7, <2>8, <2>9, <2>10, <2>11, <2>12,
       <2>13, <2>14, <2>15, <2>16, <2>17 DEF AcquireSteps
<1>3. CASE ReleaseSteps /\ UNCHANGED bootVars
  <2>1. CASE NotHeld
    BY <1>3, <2>1 DEF NotHeld, radVars, bootVars
  <2>2. CASE StopRefresh
    BY <1>3, <2>2, Core3Facts DEF StopRefresh, bootVars
  <2>3. CASE RestoreHost
    BY <1>3, <2>3, HostResetFacts, MapDropped DEF RestoreHost, bootVars
  <2>4. CASE LetGo
    BY <1>3, <2>4, ReleasedFacts, BusLost DEF LetGo, bootVars
  <2> QED
    BY <1>3, <2>1, <2>2, <2>3, <2>4 DEF ReleaseSteps
<1>4. CASE (Prepare \/ ProbePasses \/ ProbeFails) /\ UNCHANGED bootVars
  <2>1. CASE Prepare
    BY <1>4, <2>1, MapDropped, AttemptsAssumption DEF Prepare, PrepareStub, bootVars,
       MayPrepare
  <2>2. CASE ProbePasses
    BY <1>4, <2>2, TransfersFacts, ProbeSets, PinsFacts DEF ProbePasses, bootVars
  <2>3. CASE ProbeFails
    BY <1>4, <2>3, TransfersFacts, HostResetFacts, ProbeSets, PinsFacts DEF ProbeFails,
       bootVars
  <2> QED
    BY <1>4, <2>1, <2>2, <2>3
<1>5. CASE BootSteps
  <2>1. CASE ROMs \/ NotAcquired \/ InitRest \/ UnderIO \/ HDMI
    BY <2>1 DEF ROMs, Acquire, radVars, bootVars, NotAcquired, InitRest, UnderIO, HDMI
  <2>2. CASE SeedCIA2
    BY <2>2, TransfersFacts DEF SeedCIA2
  <2>3. CASE SelfTest
    BY <2>3, TransfersFacts, HaltedFacts DEF SelfTest, Release, bootVars
  <2>4. CASE SentinelRun
    BY <2>4, TransfersFacts, HaltedFacts DEF SentinelRun, Release, bootVars, MayPrepare
  <2>5. CASE Prepared
    BY <2>5 DEF Prepared, radVars
  <2>6. CASE NotPrepared
    BY <2>6 DEF NotPrepared, Acquire, radVars
  <2>7. CASE AcquiredAgain
    BY <2>7 DEF AcquiredAgain, radVars
  <2>8. CASE UnderLoad
    BY <2>8 DEF UnderLoad, bootVars
  <2> QED
    BY <1>5, <2>1, <2>2, <2>3, <2>4, <2>5, <2>6, <2>7, <2>8 DEF BootSteps
<1>6. CASE HookSteps
  <2>1. CASE HookFreezes
    BY <2>1, TransfersFacts DEF HookFreezes, bootVars
  <2>2. CASE HookButton \/ HookSeesReset \/ HookResetReleased \/ HookReset \/ HookMapLost
    BY <2>2 DEF HookButton, Release, radVars, bootVars, HookSeesReset, HookResetReleased,
       HookReset, HookMapLost
  <2>3. CASE HookHalts
    BY <2>3, HaltedFacts DEF HookHalts, bootVars
  <2> QED
    BY <1>6, <2>1, <2>2, <2>3 DEF HookSteps
<1>7. CASE Traffic \/ WaitForButton
  <2>1. CASE Traffic
    BY <2>1, TransfersFacts DEF Traffic, bootVars
  <2>2. CASE WaitForButton
    BY <2>2 DEF WaitForButton, radVars, bootVars
  <2> QED
    BY <1>7, <2>1, <2>2
<1>8. CASE Host
  BY <1>8 DEF Host, HostKernal, bootVars, HostRuns, StubStores
<1>9. CASE Core3 /\ UNCHANGED bootVars
  <2>1. CASE Core3Takes
    BY <1>9, <2>1, Core3Facts DEF Core3Takes, bootVars
  <2>2. CASE Core3Quits
    BY <1>9, <2>2, Core3Facts DEF Core3Quits, bootVars
  <2> QED
    BY <1>9, <2>1, <2>2 DEF Core3
<1>10. CASE User \/ PiRestarts
  <2>1. CASE PressButton
    BY <2>1, UserFacts DEF PressButton, radVars
  <2>2. CASE PressReset
    BY <2>2, HostResetFacts, UserFacts DEF PressReset
  <2>3. CASE ReleaseReset
    BY <2>3, UserFacts DEF ReleaseReset, radVars
  <2>4. CASE PiRestarts
    BY <2>4, RestartFacts, UserFacts DEF PiRestarts
  <2> QED
    BY <1>10, <2>1, <2>2, <2>3, <2>4 DEF User
<1>11. CASE UNCHANGED vars
  BY <1>11 DEF vars, radVars, bootVars
<1> QED
  BY <1>1, <1>2, <1>3, <1>4, <1>5, <1>6, <1>7, <1>8, <1>9, <1>10, <1>11 DEF Next, Core0,
     RadSteps

\* Every step keeps the turnaround flag ahead of the next write.
LEMMA WireStep ==
    ASSUME TypeInv, HoldInv, RefreshInv, WireInv, [Next]_vars
    PROVE  WireInv'
<1> USE DEF TypeInv, HoldInv, RefreshInv, WireInv, HeldAt, FreeAt, TakeoverAt, TurnAt,
        WireType, BusType, HostType, PassesNeeded, Preparing
<1>1. CASE UltimaxSteps /\ UNCHANGED bootVars
  <2>1. CASE UltimaxHold
    BY <1>1, <2>1, HostResetFacts DEF UltimaxHold, bootVars
  <2>2. CASE UltimaxLet
    BY <1>1, <2>2, PinsFacts DEF UltimaxLet, bootVars
  <2>3. CASE UltimaxTaken
    BY <1>1, <2>3, PinsFacts DEF UltimaxTaken, bootVars
  <2>4. CASE UltimaxTimeout
    BY <1>1, <2>4, ReleasedFacts DEF UltimaxTimeout, bootVars
  <2>5. CASE UltimaxGiveUp
    BY <1>1, <2>5, HostResetFacts, TakeoverLost DEF UltimaxGiveUp, bootVars
  <2> QED
    BY <1>1, <2>1, <2>2, <2>3, <2>4, <2>5 DEF UltimaxSteps
<1>2. CASE AcquireSteps /\ UNCHANGED bootVars
  <2>1. CASE NoMachine
    BY <1>2, <2>1, MapDropped DEF NoMachine, bootVars
  <2>2. CASE CleanStart
    BY <1>2, <2>2, HostResetFacts, MapDropped DEF CleanStart, bootVars
  <2>3. CASE Settled
    BY <1>2, <2>3, AttemptsAssumption DEF Settled, PrepareStub, bootVars
  <2>4. CASE HijackOnBadline
    <3>1. ~bus'.acquired
      BY <1>2, <2>4, TransfersFacts, MachineSeen DEF HijackOnBadline
    <3>2. wire' \in WireType
      BY <1>2, <2>4, ReadLands DEF HijackOnBadline
    <3> QED
      BY <1>2, <2>4, <3>1, <3>2 DEF HijackOnBadline
  <2>5. CASE NoBadline
    BY <1>2, <2>5, AttemptsAssumption DEF NoBadline, PrepareStub, bootVars
  <2>6. CASE LegacyAcquired
    BY <1>2, <2>6, LegacyTaken DEF LegacyAcquired, bootVars
  <2>7. CASE UltimaxAcquired
    BY <1>2, <2>7, UltimaxTook, PinsFacts DEF UltimaxAcquired, bootVars
  <2>8. CASE RefreshRequest
    BY <1>2, <2>8, Core3Facts DEF RefreshRequest, bootVars
  <2>9. CASE RefreshRunning
    BY <1>2, <2>9 DEF RefreshRunning, bootVars
  <2>10. CASE RefreshNotStarted
    BY <1>2, <2>10, ReleasedFacts, BusLost DEF RefreshNotStarted, bootVars
  <2>11. CASE ScanRead
    BY <1>2, <2>11, TransfersFacts, TransfersLand DEF ScanRead, bootVars
  <2>12. CASE SelectRead
    BY <1>2, <2>12, TransfersFacts, TransfersLand DEF SelectRead, bootVars
  <2>13. CASE CalibrateWrite
    BY <1>2, <2>13, TransfersFacts, TransfersLand DEF CalibrateWrite, bootVars
  <2>14. CASE CalibrateSID
    BY <1>2, <2>14, TransfersFacts, TransfersLand DEF CalibrateSID, bootVars
  <2>15. CASE DetectVideo
    BY <1>2, <2>15, TransfersFacts, TransfersLand DEF DetectVideo, bootVars
  <2>16. CASE LineSynced
    BY <1>2, <2>16, TransfersFacts, TransfersLand DEF LineSynced, bootVars
  <2>17. CASE LineNotSynced
    BY <1>2, <2>17, TransfersFacts, TransfersLand DEF LineNotSynced, Release, bootVars
  <2> QED
    BY <1>2, <2>1, <2>2, <2>3, <2>4, <2>5, <2>6, <2>7, <2>8, <2>9, <2>10, <2>11, <2>12,
       <2>13, <2>14, <2>15, <2>16, <2>17 DEF AcquireSteps
<1>3. CASE ReleaseSteps /\ UNCHANGED bootVars
  <2>1. CASE NotHeld
    BY <1>3, <2>1 DEF NotHeld, radVars, bootVars
  <2>2. CASE StopRefresh
    BY <1>3, <2>2, Core3Facts DEF StopRefresh, bootVars
  <2>3. CASE RestoreHost
    BY <1>3, <2>3, HostResetFacts, MapDropped DEF RestoreHost, bootVars
  <2>4. CASE LetGo
    BY <1>3, <2>4, ReleasedFacts, BusLost DEF LetGo, bootVars
  <2> QED
    BY <1>3, <2>1, <2>2, <2>3, <2>4 DEF ReleaseSteps
<1>4. CASE (Prepare \/ ProbePasses \/ ProbeFails) /\ UNCHANGED bootVars
  <2>1. CASE Prepare
    BY <1>4, <2>1, MapDropped, AttemptsAssumption DEF Prepare, PrepareStub, bootVars,
       MayPrepare
  <2>2. CASE ProbePasses
    <3>1. /\ bus'.passes = bus.passes /\ bus'.acquired = bus.acquired
          /\ wire'.last = "read" => bus'.turn
      <4> DEFINE b == [bus EXCEPT !.turn = TRUE, !.selectIO = TRUE, !.ready = TRUE]
      <4>1. b \in BusType /\ b.passes = bus.passes /\ b.acquired = bus.acquired
        <5>1. bus \in BusType
          OBVIOUS
        <5> QED BY <5>1, ProbeSets
      <4>2. PICK ops : Transfers(ops, b)
        BY <2>2 DEF ProbePasses
      <4> HIDE DEF b
      <4>3. bus'.passes = b.passes /\ bus'.acquired = b.acquired
              /\ (wire'.last = "read" => bus'.turn)
        BY <4>1, <4>2, TransfersFacts
      <4> QED BY <4>1, <4>3
    <3>2. bus.acquired
      BY <1>4, <2>2 DEF ProbePasses
    <3>3. wire' \in WireType
      BY <1>4, <2>2, <3>2, TransfersLand, ProbeSets DEF ProbePasses, ProbeOps
    <3> QED
      BY <1>4, <2>2, <3>1, <3>2, <3>3 DEF ProbePasses
  <2>3. CASE ProbeFails
    BY <1>4, <2>3, TransfersFacts, TransfersLand, HostResetFacts, ProbeSets, PinsFacts DEF
       ProbeFails, bootVars, ProbeOps
  <2> QED
    BY <1>4, <2>1, <2>2, <2>3
<1>5. CASE BootSteps
  <2>1. CASE ROMs \/ NotAcquired \/ InitRest \/ UnderIO \/ Prepared
    BY <2>1 DEF ROMs, Acquire, radVars, bootVars, NotAcquired, InitRest, UnderIO, Prepared
  <2>2. CASE SeedCIA2
    BY <2>2, TransfersFacts, TransfersLand DEF SeedCIA2
  <2>3. CASE SelfTest
    BY <2>3, TransfersFacts, TransfersLand, HaltedFacts DEF SelfTest, Release, bootVars,
       SelfTestOps
  <2>4. CASE SentinelRun
    BY <2>4, TransfersFacts, TransfersLand, HaltedFacts DEF SentinelRun, Release,
       bootVars, MayPrepare
  <2>5. CASE NotPrepared \/ AcquiredAgain \/ HDMI \/ UnderLoad
    BY <2>5 DEF NotPrepared, Acquire, radVars, AcquiredAgain, HDMI, bootVars, UnderLoad
  <2> QED
    BY <1>5, <2>1, <2>2, <2>3, <2>4, <2>5 DEF BootSteps
<1>6. CASE HookSteps
  <2>1. CASE HookFreezes
    BY <2>1, TransfersFacts, TransfersLand DEF HookFreezes, bootVars
  <2>2. CASE HookButton \/ HookSeesReset \/ HookResetReleased \/ HookReset \/ HookMapLost
    BY <2>2 DEF HookButton, Release, radVars, bootVars, HookSeesReset, HookResetReleased,
       HookReset, HookMapLost
  <2>3. CASE HookHalts
    BY <2>3, HaltedFacts DEF HookHalts, bootVars
  <2> QED
    BY <1>6, <2>1, <2>2, <2>3 DEF HookSteps
<1>7. CASE Traffic \/ WaitForButton
  <2>1. CASE Traffic
    BY <2>1, TransfersFacts, TransfersLand DEF Traffic, bootVars
  <2>2. CASE WaitForButton
    BY <2>2 DEF WaitForButton, radVars, bootVars
  <2> QED
    BY <1>7, <2>1, <2>2
<1>8. CASE Host
  BY <1>8 DEF Host, HostKernal, bootVars, HostRuns, StubStores
<1>9. CASE Core3 /\ UNCHANGED bootVars
  <2>1. CASE Core3Takes
    BY <1>9, <2>1, Core3Facts DEF Core3Takes, bootVars
  <2>2. CASE Core3Quits
    BY <1>9, <2>2, Core3Facts DEF Core3Quits, bootVars
  <2> QED
    BY <1>9, <2>1, <2>2 DEF Core3
<1>10. CASE User \/ PiRestarts
  <2>1. CASE PressButton
    BY <2>1, UserFacts DEF PressButton, radVars
  <2>2. CASE PressReset
    BY <2>2, HostResetFacts, UserFacts DEF PressReset
  <2>3. CASE ReleaseReset
    BY <2>3, UserFacts DEF ReleaseReset, radVars
  <2>4. CASE PiRestarts
    BY <2>4, RestartFacts, UserFacts DEF PiRestarts
  <2> QED
    BY <1>10, <2>1, <2>2, <2>3, <2>4 DEF User
<1>11. CASE UNCHANGED vars
  BY <1>11 DEF vars, radVars, bootVars
<1> QED
  BY <1>1, <1>2, <1>3, <1>4, <1>5, <1>6, <1>7, <1>8, <1>9, <1>10, <1>11 DEF Next, Core0,
     RadSteps

--------------------------------------------------------------------------------
(* Induction on the naturals.  The library states it for a predicate, which   *)
(* the provers here cannot instantiate; this is the same for a set.           *)

\* The order of the naturals, as a relation.
Below == {ss \in Nat \X Nat : ss[1] < ss[2]}

LEMMA BelowWellFounded == IsWellFoundedOn(Below, Nat)
<1>1. OpToRel(<, Nat) = Below
  BY DEF OpToRel, Below
<1> QED
  BY <1>1, NatLessThanWellFounded, Zenon

\* A set of naturals has a least element.
LEMMA LeastOf ==
  ASSUME NEW S \in SUBSET Nat, S # {}
  PROVE  \E x \in S : \A y \in S : x <= y
<1>1. PICK x \in S : \A y \in S : ~(<<y, x>> \in Below)
  <2>1. \E x \in S : \A y \in S : ~(<<y, x>> \in Below)
    BY BelowWellFounded, WFMin
  <2> QED
    BY <2>1
<1>2. ASSUME NEW y \in S PROVE x <= y
  <2>1. ~(<<y, x>> \in Below)
    BY <1>1
  <2>2. x \in Nat /\ y \in Nat
    OBVIOUS
  <2> QED
    BY <2>1, <2>2 DEF Below
<1> QED
  BY <1>2

\* Induction on the naturals, over a set instead of a predicate.
LEMMA SetInduction ==
  ASSUME NEW S, 0 \in S, \A n \in Nat : n \in S => n + 1 \in S
  PROVE  Nat \subseteq S
<1> SUFFICES ASSUME Nat \ S # {} PROVE FALSE
  OBVIOUS
<1>1. PICK x \in Nat \ S : \A y \in Nat \ S : x <= y
  BY LeastOf
<1>2. x # 0 /\ x - 1 \in Nat /\ x - 1 \in S
  BY <1>1
<1> QED
  BY <1>1, <1>2

\* A step on a set is iterated by one function.
IsStep(step, D) == step \in [Nat \X D -> D]
Iterates(f, D, base, step) ==
  /\ f \in [Nat -> D] /\ f[0] = base
  /\ \A n \in Nat : f[n + 1] = step[<<n, f[n]>>]

LEMMA Iteration ==
  ASSUME NEW D, NEW base, NEW step, base \in D, IsStep(step, D)
  PROVE  \E f : Iterates(f, D, base, step)
<1> USE DEF IsStep
<1> DEFINE Follows(g, n) == /\ g[0] = base
                            /\ \A m \in 0..(n - 1) : g[m + 1] = step[<<m, g[m]>>]
           Starts(n) == {g \in [0..n -> D] : Follows(g, n)}
<1>1. \A n \in Nat : Starts(n) # {}
  <2> DEFINE G == {n \in Nat : Starts(n) # {}}
  <2>1. 0 \in G
    <3>1. [m \in 0..0 |-> base] \in Starts(0)
      OBVIOUS
    <3> QED
      BY <3>1
  <2>2. ASSUME NEW n \in Nat, n \in G PROVE n + 1 \in G
    <3>1. PICK g \in [0..n -> D] : Follows(g, n)
      BY <2>2
    <3> DEFINE h == [m \in 0..(n + 1) |-> IF m = n + 1 THEN step[<<n, g[n]>>] ELSE g[m]]
    <3>2. h \in [0..(n + 1) -> D]
      <4>1. step[<<n, g[n]>>] \in D
        OBVIOUS
      <4> QED
        BY <4>1
    <3>3. Follows(h, n + 1)
      <4>1. h[0] = base
        BY <3>1
      <4>2. ASSUME NEW m \in 0..n PROVE h[m + 1] = step[<<m, h[m]>>]
        <5>1. h[m] = g[m]
          OBVIOUS
        <5>2. CASE m = n
          <6>1. h[n + 1] = step[<<n, g[n]>>]
            BY n + 1 \in 0..(n + 1)
          <6> QED
            BY <5>1, <5>2, <6>1
        <5>3. CASE m # n
          <6>1. g[m + 1] = step[<<m, g[m]>>]
            BY <3>1, <5>3
          <6>2. h[m + 1] = g[m + 1]
            BY <5>3
          <6> QED
            BY <5>1, <6>1, <6>2
        <5> QED
          BY <5>2, <5>3
      <4>3. (n + 1) - 1 = n
        OBVIOUS
      <4> QED
        BY <4>1, <4>2, <4>3
    <3>4. Starts(n + 1) # {}
      <4>1. h \in Starts(n + 1)
        BY <3>2, <3>3
      <4> HIDE DEF h, Starts
      <4> QED
        BY <4>1
    <3> HIDE DEF Starts
    <3> QED
      BY <3>4
  <2>3. Nat \subseteq G
    <3> HIDE DEF G
    <3> QED
      BY <2>1, <2>2, SetInduction
  <2> QED
    BY <2>3
<1>2. ASSUME NEW n \in Nat, NEW k \in Nat, NEW g \in Starts(n), NEW h \in Starts(k)
      PROVE  \A m \in Nat : m <= n /\ m <= k => g[m] = h[m]
  <2> DEFINE G == {m \in Nat : m <= n /\ m <= k => g[m] = h[m]}
  <2>1. 0 \in G
    OBVIOUS
  <2>2. ASSUME NEW m \in Nat, m \in G PROVE m + 1 \in G
    <3> SUFFICES ASSUME m + 1 <= n, m + 1 <= k PROVE g[m + 1] = h[m + 1]
      OBVIOUS
    <3>1. g[m] = h[m]
      BY <2>2
    <3>2. m \in 0..(n - 1) /\ m \in 0..(k - 1)
      OBVIOUS
    <3> QED
      BY <3>1, <3>2
  <2>3. Nat \subseteq G
    <3> HIDE DEF G
    <3> QED
      BY <2>1, <2>2, SetInduction
  <2> QED
    BY <2>3
<1>3. PICK S : \A n \in Nat : S[n] \in Starts(n)
  <2> DEFINE S == [n \in Nat |-> CHOOSE g : g \in Starts(n)]
  <2>1. ASSUME NEW n \in Nat PROVE S[n] \in Starts(n)
    <3> HIDE DEF Starts
    <3>1. \E g : g \in Starts(n)
      BY <1>1
    <3> QED
      BY <3>1
  <2> QED
    BY <2>1
<1> DEFINE f == [n \in Nat |-> S[n][n]]
<1>4. f \in [Nat -> D] /\ f[0] = base
  BY <1>3
<1>5. ASSUME NEW n \in Nat PROVE f[n + 1] = step[<<n, f[n]>>]
  <2>1. S[n] \in Starts(n) /\ S[n + 1] \in Starts(n + 1)
    BY <1>3
  <2>2. S[n + 1][n] = S[n][n]
    <3> HIDE DEF Starts
    <3>1. \A m \in Nat : m <= n + 1 /\ m <= n => S[n + 1][m] = S[n][m]
      BY <1>2, <2>1
    <3> QED
      BY <3>1
  <2>3. S[n + 1][n + 1] = step[<<n, S[n + 1][n]>>]
    <3>1. n \in 0..((n + 1) - 1)
      OBVIOUS
    <3> QED
      BY <2>1, <3>1
  <2> QED
    BY <2>2, <2>3
<1>6. Iterates(f, D, base, step)
  BY <1>4, <1>5 DEF Iterates
<1> HIDE DEF f
<1> QED
  BY <1>6

-----------------------------------------------------------------------------
(* The read scan.                                                           *)

\* The sample points are SampleStep apart and none is zero.
LEMMA SampleFacts ==
  /\ SampleCount \in Nat \ {0}
  /\ \A i \in Int : SampleAt(i) \in Int /\ (i > 0 => SampleAt(i) > 0)
  /\ \A i, j \in Int : /\ SampleAt(j) - SampleAt(i) = (j - i) * SampleStep
                       /\ SampleAt(i) = SampleAt(j) => i = j
                       /\ i <= j <=> SampleAt(i) <= SampleAt(j)
                       /\ (SampleAt(j) - SampleAt(i)) \div SampleStep = j - i
<1> USE SamplesAssumption
<1>1. SampleCount \in Nat \ {0}
  <2>1. (LastSample - FirstSample) \div SampleStep \in Nat
    OBVIOUS
  <2> QED
    BY <2>1 DEF SampleCount
<1>2. ASSUME NEW i \in Int PROVE SampleAt(i) \in Int /\ (i > 0 => SampleAt(i) > 0)
  <2>1. i > 0 => (i - 1) * SampleStep >= 0
    OBVIOUS
  <2> QED
    BY <2>1 DEF SampleAt
<1>3. ASSUME NEW i \in Int, NEW j \in Int
      PROVE  /\ SampleAt(j) - SampleAt(i) = (j - i) * SampleStep
             /\ SampleAt(i) = SampleAt(j) => i = j
             /\ i <= j <=> SampleAt(i) <= SampleAt(j)
             /\ (SampleAt(j) - SampleAt(i)) \div SampleStep = j - i
  <2>1. SampleAt(j) - SampleAt(i) = (j - i) * SampleStep
    BY DEF SampleAt
  <2>2. \A k \in Int : /\ k * SampleStep = 0 => k = 0
                       /\ 0 <= k <=> 0 <= k * SampleStep
                       /\ (k * SampleStep) \div SampleStep = k
    OBVIOUS
  <2>3. j - i \in Int
    OBVIOUS
  <2> QED
    BY <1>2, <2>1, <2>2, <2>3
<1> QED
  BY <1>1, <1>2, <1>3

LEMMA SampleEnds ==
  ASSUME NEW seen \in SUBSET Samples
  PROVE  /\ SampleAt(0) \notin seen /\ SampleAt(SampleCount + 1) \notin seen
         /\ \A s \in Samples : \E i \in 1..SampleCount : s = SampleAt(i)
         /\ \A i \in Int : SampleAt(i) \in Samples => i \in 1..SampleCount
         /\ \A i \in 1..SampleCount : SampleAt(i) \in Samples
<1>1. \A s \in Samples : \E i \in 1..SampleCount : s = SampleAt(i)
  BY DEF Samples
<1>2. ASSUME NEW i \in Int, SampleAt(i) \in Samples PROVE i \in 1..SampleCount
  <2>1. PICK j \in 1..SampleCount : SampleAt(i) = SampleAt(j)
    BY <1>1, <1>2
  <2>2. i = j
    BY <2>1, SampleFacts
  <2> QED
    BY <2>2
<1>3. \A i \in 1..SampleCount : SampleAt(i) \in Samples
  BY DEF Samples
<1>4. SampleAt(0) \notin seen /\ SampleAt(SampleCount + 1) \notin seen
  <2>1. SampleCount + 1 \in Int /\ 0 \notin 1..SampleCount /\ SampleCount + 1 \notin 1..SampleCount
    BY SampleFacts
  <2> QED
    BY <1>2, <2>1
<1> QED
  BY <1>1, <1>2, <1>3, <1>4

\* A whole run of passing samples, by the numbers of its ends.
Stretch(a, b, seen) ==
  /\ a \in 1..SampleCount /\ b \in 1..SampleCount /\ a <= b
  /\ \A k \in a..b : SampleAt(k) \in seen
  /\ SampleAt(a - 1) \notin seen /\ SampleAt(b + 1) \notin seen

RunType == [start : Int, end : Int, best : Int, bestStart : Int, bestEnd : Int]

\* A run open after i samples reaches from its start to the last of them.
OpenRun(run, i, seen) ==
  \/ run.start = 0 /\ SampleAt(i) \notin seen
  \/ \E a \in 1..i : /\ run.start = SampleAt(a) /\ run.end = SampleAt(i)
                     /\ SampleAt(a - 1) \notin seen
                     /\ \A k \in a..i : SampleAt(k) \in seen

\* The best run is as long as any that ended before sample i.
BestRun(run, i, seen) ==
  \/ run.best = 0 /\ \A c, d \in Int : Stretch(c, d, seen) => d >= i
  \/ \E a, b \in Int :
        /\ Stretch(a, b, seen) /\ run.best = b - a + 1
        /\ run.bestStart = SampleAt(a) /\ run.bestEnd = SampleAt(b)
        /\ \A c, d \in Int : Stretch(c, d, seen) /\ d < i => d - c <= b - a

\* Nothing is open and nothing was closed only if nothing has passed.
NonePassed(run, i, seen) ==
  run.best <= 0 /\ run.start = 0 => \A k \in 1..i : SampleAt(k) \notin seen

LEMMA NoRunType == NoRun \in RunType
  BY DEF NoRun, RunType

LEMMA CloseRunType ==
  ASSUME NEW run \in RunType PROVE CloseRun(run) \in RunType
<1> DEFINE samples == (run.end - run.start) \div SampleStep + 1
<1>1. samples \in Int
  BY SamplesAssumption DEF RunType
<1> HIDE DEF samples
<1>2. CloseRun(run) \in {run, [run EXCEPT !.start = 0, !.end = 0],
                         [start |-> 0, end |-> 0, best |-> samples,
                          bestStart |-> run.start, bestEnd |-> run.end]}
  BY Zenon DEF CloseRun, samples
<1>3. [run EXCEPT !.start = 0, !.end = 0] \in RunType
  <2>1. [run EXCEPT !.start = 0] \in RunType
    BY DEF RunType
  <2>2. ASSUME NEW r \in RunType PROVE [r EXCEPT !.end = 0] \in RunType
    BY DEF RunType
  <2> QED
    BY <2>1, <2>2 DEF RunType
<1>4. [start |-> 0, end |-> 0, best |-> samples,
       bestStart |-> run.start, bestEnd |-> run.end] \in RunType
  BY <1>1 DEF RunType
<1> QED
  BY <1>2, <1>3, <1>4

LEMMA ScanSampleType ==
  ASSUME NEW run \in RunType, NEW s \in Int, NEW seen PROVE ScanSample(run, s, seen) \in RunType
  BY CloseRunType DEF ScanSample, RunType

\* The function the model defines by recursion satisfies its equation.
LEMMA ScannedRunDef ==
  /\ ScannedRun \in [Nat -> [SUBSET Samples -> RunType]]
  /\ \A seen \in SUBSET Samples :
        /\ ScannedRun[0][seen] = NoRun
        /\ \A i \in Nat : ScannedRun[i + 1][seen] = ScanSample(ScannedRun[i][seen], SampleAt(i + 1), seen)
<1> DEFINE D == [SUBSET Samples -> RunType]
           base == [seen \in SUBSET Samples |-> NoRun]
           step == [p \in Nat \X D |-> [seen \in SUBSET Samples |->
                      ScanSample(p[2][seen], SampleAt(p[1] + 1), seen)]]
           Rec(f) == [i \in Nat |-> [seen \in SUBSET Samples |->
                        IF i = 0 THEN NoRun ELSE ScanSample(f[i - 1][seen], SampleAt(i), seen)]]
<1>1. base \in D
  BY NoRunType
<1>2. step \in [Nat \X D -> D]
  <2> SUFFICES ASSUME NEW p \in Nat \X D, NEW seen \in SUBSET Samples
               PROVE  ScanSample(p[2][seen], SampleAt(p[1] + 1), seen) \in RunType
    OBVIOUS
  <2>1. p[2][seen] \in RunType /\ p[1] + 1 \in Int
    OBVIOUS
  <2>2. SampleAt(p[1] + 1) \in Int
    BY <2>1, SampleFacts
  <2> QED
    BY <2>1, <2>2, ScanSampleType
<1>3. PICK f : Iterates(f, D, base, step)
  <2> HIDE DEF D, base, step
  <2> QED
    BY <1>1, <1>2, Iteration DEF IsStep
<1>4. f = Rec(f)
  <2>1. ASSUME NEW i \in Nat, NEW seen \in SUBSET Samples
        PROVE  f[i][seen] = IF i = 0 THEN NoRun ELSE ScanSample(f[i - 1][seen], SampleAt(i), seen)
    <3>1. CASE i = 0
      BY <1>3, <3>1 DEF Iterates
    <3>2. CASE i # 0
      <4>1. i - 1 \in Nat /\ (i - 1) + 1 = i
        BY <3>2
      <4>2. f[i] = step[<<i - 1, f[i - 1]>>]
        BY <1>3, <4>1 DEF Iterates
      <4>3. <<i - 1, f[i - 1]>> \in Nat \X D
        BY <1>3, <4>1 DEF Iterates
      <4>4. step[<<i - 1, f[i - 1]>>][seen] = ScanSample(f[i - 1][seen], SampleAt((i - 1) + 1), seen)
        BY <4>3
      <4> QED
        BY <3>2, <4>1, <4>2, <4>4
    <3> QED
      BY <3>1, <3>2
  <2>2. f = [i \in Nat |-> [seen \in SUBSET Samples |-> f[i][seen]]]
    BY <1>3 DEF Iterates
  <2> QED
    BY <2>1, <2>2
<1>5. ScannedRun = Rec(ScannedRun)
  <2>1. ScannedRun = CHOOSE g : g = Rec(g)
    BY DEF ScannedRun
  <2> HIDE DEF Rec
  <2> QED
    BY <1>4, <2>1
<1>6. ASSUME NEW seen \in SUBSET Samples
      PROVE  /\ ScannedRun[0][seen] = NoRun
             /\ \A i \in Nat : ScannedRun[i + 1][seen] = ScanSample(ScannedRun[i][seen], SampleAt(i + 1), seen)
  <2>1. ScannedRun[0] = Rec(ScannedRun)[0] /\ \A i \in Nat : ScannedRun[i + 1] = Rec(ScannedRun)[i + 1]
    BY <1>5
  <2>2. Rec(ScannedRun)[0][seen] = NoRun
    OBVIOUS
  <2>3. ASSUME NEW i \in Nat
        PROVE  Rec(ScannedRun)[i + 1][seen] = ScanSample(ScannedRun[i][seen], SampleAt(i + 1), seen)
    <3>1. i + 1 \in Nat /\ i + 1 # 0 /\ (i + 1) - 1 = i
      OBVIOUS
    <3> QED
      BY <3>1
  <2> HIDE DEF Rec
  <2> QED
    BY <2>1, <2>2, <2>3
<1>7. ScannedRun \in [Nat -> D]
  <2> DEFINE G == {i \in Nat : ScannedRun[i] \in D}
  <2>1. DOMAIN ScannedRun = Nat /\ \A i \in Nat : ScannedRun[i] = [seen \in SUBSET Samples |-> ScannedRun[i][seen]]
    BY <1>5
  <2>2. 0 \in G
    BY <1>6, <2>1, NoRunType
  <2>3. ASSUME NEW i \in Nat, i \in G PROVE i + 1 \in G
    <3>1. ASSUME NEW seen \in SUBSET Samples PROVE ScannedRun[i + 1][seen] \in RunType
      <4>1. ScannedRun[i][seen] \in RunType /\ SampleAt(i + 1) \in Int
        <5>1. i + 1 \in Int /\ ScannedRun[i] \in D
          BY <2>3
        <5> QED
          BY <5>1, SampleFacts
      <4>2. ScannedRun[i + 1][seen] = ScanSample(ScannedRun[i][seen], SampleAt(i + 1), seen)
        BY <1>6
      <4> QED
        BY <4>1, <4>2, ScanSampleType
    <3>2. i + 1 \in Nat
      OBVIOUS
    <3>3. ScannedRun[i + 1] = [seen \in SUBSET Samples |-> ScannedRun[i + 1][seen]]
      BY <2>1, <3>2
    <3> QED
      BY <3>1, <3>2, <3>3
  <2>4. Nat \subseteq G
    <3> HIDE DEF G
    <3> QED
      BY <2>2, <2>3, SetInduction
  <2>5. ScannedRun = [i \in Nat |-> ScannedRun[i]]
    BY <1>5
  <2> QED
    BY <2>4, <2>5
<1> QED
  BY <1>6, <1>7

\* Closing a run after sample i keeps the longest of the runs that end there.
LEMMA CloseKeepsBest ==
  ASSUME NEW seen \in SUBSET Samples, NEW i \in 0..SampleCount, NEW run \in RunType,
         OpenRun(run, i, seen), BestRun(run, i, seen), NonePassed(run, i, seen),
         SampleAt(i + 1) \notin seen
  PROVE  /\ CloseRun(run).start = 0
         /\ BestRun(CloseRun(run), i + 1, seen)
         /\ CloseRun(run).best <= 0 => \A k \in 1..i : SampleAt(k) \notin seen
<1> DEFINE new == CloseRun(run)
           samples == ((run.end - run.start) \div SampleStep) + 1
<1>1. CASE run.start = 0
  <2>1. new = run
    BY <1>1 DEF CloseRun
  <2>2. SampleAt(i) \notin seen
    BY <1>1, SampleFacts DEF OpenRun
  <2>3. ASSUME NEW c \in Int, NEW d \in Int, Stretch(c, d, seen) PROVE d # i
    BY <2>2, <2>3 DEF Stretch
  <2>4. \A d \in Int : d < i + 1 => d < i \/ d = i
    OBVIOUS
  <2>5. BestRun(run, i + 1, seen)
    <3>1. CASE run.best = 0 /\ \A c, d \in Int : Stretch(c, d, seen) => d >= i
      <4>1. \A c, d \in Int : Stretch(c, d, seen) => d >= i + 1
        BY <2>3, <3>1
      <4> QED
        BY <3>1, <4>1 DEF BestRun
    <3>2. CASE \E a, b \in Int :
                 /\ Stretch(a, b, seen) /\ run.best = b - a + 1
                 /\ run.bestStart = SampleAt(a) /\ run.bestEnd = SampleAt(b)
                 /\ \A c, d \in Int : Stretch(c, d, seen) /\ d < i => d - c <= b - a
      <4>1. PICK a \in Int, b \in Int :
                 /\ Stretch(a, b, seen) /\ run.best = b - a + 1
                 /\ run.bestStart = SampleAt(a) /\ run.bestEnd = SampleAt(b)
                 /\ \A c, d \in Int : Stretch(c, d, seen) /\ d < i => d - c <= b - a
        BY <3>2
      <4>2. \A c, d \in Int : Stretch(c, d, seen) /\ d < i + 1 => d - c <= b - a
        BY <2>3, <2>4, <4>1
      <4> QED
        BY <4>1, <4>2 DEF BestRun
    <3> QED
      BY <3>1, <3>2 DEF BestRun
  <2> QED
    BY <1>1, <2>1, <2>5 DEF NonePassed
<1>2. CASE run.start # 0
  <2>1. PICK a \in 1..i : /\ run.start = SampleAt(a) /\ run.end = SampleAt(i)
                          /\ SampleAt(a - 1) \notin seen
                          /\ \A k \in a..i : SampleAt(k) \in seen
    BY <1>2 DEF OpenRun
  <2>2. samples = i - a + 1 /\ samples \in Int /\ samples > 0
    <3>1. (SampleAt(i) - SampleAt(a)) \div SampleStep = i - a
      BY SampleFacts
    <3>2. samples = (i - a) + 1
      BY <2>1, <3>1
    <3> QED
      BY <3>2
  <2>3. Stretch(a, i, seen)
    <3>1. a \in 1..SampleCount /\ i \in 1..SampleCount /\ a <= i
      BY SampleFacts
    <3> QED
      BY <2>1, <3>1 DEF Stretch
  <2>4. ASSUME NEW c \in Int, Stretch(c, i, seen) PROVE c = a
    <3>1. CASE c < a
      <4>1. a - 1 \in c..i
        BY <3>1, <2>4
      <4> QED
        BY <2>1, <2>4, <4>1 DEF Stretch
    <3>2. CASE c > a
      <4>1. c - 1 \in a..i
        BY <3>2, <2>4 DEF Stretch
      <4> QED
        BY <2>1, <2>4, <4>1 DEF Stretch
    <3> QED
      BY <3>1, <3>2
  <2>5. new.start = 0
    <3>1. [run EXCEPT !.start = 0, !.end = 0].start = 0
      BY DEF RunType
    <3> QED
      BY <1>2, <3>1 DEF CloseRun
  <2>6. CASE samples > run.best
    <3>1. new = [start |-> 0, end |-> 0, best |-> samples,
                 bestStart |-> run.start, bestEnd |-> run.end]
      BY <1>2, <2>6 DEF CloseRun
    <3>2. new.best = i - a + 1 /\ new.bestStart = SampleAt(a) /\ new.bestEnd = SampleAt(i)
      BY <3>1, <2>1, <2>2
    <3>3. ASSUME NEW c \in Int, NEW d \in Int, Stretch(c, d, seen), d < i + 1
          PROVE  d - c <= i - a
      <4>1. CASE d = i
        BY <2>4, <3>3, <4>1
      <4>2. CASE d < i
        BY <2>2, <2>6, <3>3, <4>2 DEF BestRun
      <4> QED
        BY <3>3, <4>1, <4>2
    <3>4. BestRun(new, i + 1, seen)
      <4> HIDE DEF new
      <4> QED
        BY <2>3, <3>2, <3>3 DEF BestRun
    <3> QED
      BY <2>5, <3>4, <3>2
  <2>7. CASE ~(samples > run.best)
    <3>1. new = [run EXCEPT !.start = 0, !.end = 0]
      BY <1>2, <2>7 DEF CloseRun
    <3>2. new.best = run.best /\ new.bestStart = run.bestStart /\ new.bestEnd = run.bestEnd
      BY <3>1 DEF RunType
    <3>3. run.best > 0
      BY <2>2, <2>7 DEF RunType
    <3>4. PICK x \in Int, y \in Int :
             /\ Stretch(x, y, seen) /\ run.best = y - x + 1
             /\ run.bestStart = SampleAt(x) /\ run.bestEnd = SampleAt(y)
             /\ \A c, d \in Int : Stretch(c, d, seen) /\ d < i => d - c <= y - x
      <4>1. run.best # 0
        BY <3>3
      <4> QED
        BY <4>1, Zenon DEF BestRun
    <3>5. ASSUME NEW c \in Int, NEW d \in Int, Stretch(c, d, seen), d < i + 1
          PROVE  d - c <= y - x
      <4>1. CASE d = i
        <5>1. c = a
          BY <2>4, <3>5, <4>1
        <5> HIDE DEF samples
        <5> QED
          BY <5>1, <2>2, <2>7, <3>4, <4>1
      <4>2. CASE d < i
        BY <3>4, <3>5, <4>2
      <4> QED
        BY <3>5, <4>1, <4>2
    <3>6. BestRun(new, i + 1, seen)
      <4> HIDE DEF new
      <4> QED
        BY <3>2, <3>4, <3>5 DEF BestRun
    <3>7. ~(new.best <= 0)
      BY <3>2, <3>3 DEF RunType
    <3> QED
      BY <2>5, <3>6, <3>7
  <2> QED
    BY <2>6, <2>7
<1> QED
  BY <1>1, <1>2

ScanInv(run, i, seen) ==
  run \in RunType /\ OpenRun(run, i, seen) /\ BestRun(run, i, seen) /\ NonePassed(run, i, seen)

\* One more sample extends the open run, opens one or closes it.
LEMMA ScanStep ==
  ASSUME NEW seen \in SUBSET Samples, NEW i \in 0..(SampleCount - 1), NEW run,
         ScanInv(run, i, seen)
  PROVE  ScanInv(ScanSample(run, SampleAt(i + 1), seen), i + 1, seen)
<1> DEFINE s == SampleAt(i + 1)
           new == ScanSample(run, s, seen)
<1>1. run \in RunType /\ s \in Int /\ s > 0
  <2>1. i + 1 \in Int /\ i + 1 > 0
    BY SampleFacts
  <2> QED
    BY <2>1, SampleFacts DEF ScanInv
<1>2. new \in RunType
  BY <1>1, ScanSampleType
<1>3. CASE s \notin seen
  <2>1. new = CloseRun(run)
    BY <1>3 DEF ScanSample
  <2>2. i \in 0..SampleCount
    BY SampleFacts
  <2>3. /\ CloseRun(run).start = 0 /\ BestRun(CloseRun(run), i + 1, seen)
        /\ CloseRun(run).best <= 0 => \A k \in 1..i : SampleAt(k) \notin seen
    BY <1>1, <1>3, <2>2, CloseKeepsBest DEF ScanInv
  <2>4. \A k \in 1..(i + 1) : k \in 1..i \/ k = i + 1
    OBVIOUS
  <2>5. NonePassed(new, i + 1, seen)
    BY <1>3, <2>1, <2>3, <2>4 DEF NonePassed
  <2>6. OpenRun(new, i + 1, seen)
    BY <1>3, <2>1, <2>3 DEF OpenRun
  <2> QED
    BY <1>2, <2>1, <2>3, <2>5, <2>6 DEF ScanInv
<1>4. CASE s \in seen
  <2> DEFINE first == IF run.start = 0 THEN s ELSE run.start
  <2>1. new = [run EXCEPT !.start = first, !.end = s]
    BY <1>4 DEF ScanSample
  <2>2. /\ new.start = first /\ new.end = s
        /\ new.best = run.best /\ new.bestStart = run.bestStart /\ new.bestEnd = run.bestEnd
    BY <1>1, <2>1 DEF RunType
  <2> HIDE DEF new
  <2>3. OpenRun(new, i + 1, seen)
    <3>1. CASE run.start = 0
      <4>1. SampleAt(i) \notin seen
        BY <3>1, SampleFacts DEF ScanInv, OpenRun
      <4>2. i + 1 \in 1..(i + 1) /\ (i + 1) - 1 = i /\ \A k \in (i + 1)..(i + 1) : k = i + 1
        OBVIOUS
      <4> QED
        BY <1>4, <2>2, <3>1, <4>1, <4>2 DEF OpenRun
    <3>2. CASE run.start # 0
      <4>1. PICK a \in 1..i : /\ run.start = SampleAt(a) /\ SampleAt(a - 1) \notin seen
                              /\ \A k \in a..i : SampleAt(k) \in seen
        BY <3>2 DEF ScanInv, OpenRun
      <4>2. a \in 1..(i + 1) /\ \A k \in a..(i + 1) : k \in a..i \/ k = i + 1
        OBVIOUS
      <4>3. \A k \in a..(i + 1) : SampleAt(k) \in seen
        BY <1>4, <4>1, <4>2
      <4> QED
        BY <2>2, <3>2, <4>1, <4>2, <4>3 DEF OpenRun
    <3> QED
      BY <3>1, <3>2
  <2>4. ASSUME NEW c \in Int, NEW d \in Int, Stretch(c, d, seen) PROVE d # i
    BY <1>4, <2>4 DEF Stretch
  <2>5. BestRun(new, i + 1, seen)
    <3>1. CASE run.best = 0 /\ \A c, d \in Int : Stretch(c, d, seen) => d >= i
      <4>1. \A c, d \in Int : Stretch(c, d, seen) => d >= i + 1
        BY <2>4, <3>1
      <4> QED
        BY <2>2, <3>1, <4>1 DEF BestRun
    <3>2. CASE \E a, b \in Int :
                 /\ Stretch(a, b, seen) /\ run.best = b - a + 1
                 /\ run.bestStart = SampleAt(a) /\ run.bestEnd = SampleAt(b)
                 /\ \A c, d \in Int : Stretch(c, d, seen) /\ d < i => d - c <= b - a
      <4>1. PICK a \in Int, b \in Int :
                 /\ Stretch(a, b, seen) /\ run.best = b - a + 1
                 /\ run.bestStart = SampleAt(a) /\ run.bestEnd = SampleAt(b)
                 /\ \A c, d \in Int : Stretch(c, d, seen) /\ d < i => d - c <= b - a
        BY <3>2
      <4>2. \A d \in Int : d < i + 1 => d < i \/ d = i
        OBVIOUS
      <4>3. \A c, d \in Int : Stretch(c, d, seen) /\ d < i + 1 => d - c <= b - a
        BY <2>4, <4>1, <4>2
      <4> QED
        BY <2>2, <4>1, <4>3 DEF BestRun
    <3> QED
      BY <3>1, <3>2 DEF ScanInv, BestRun
  <2>6. new.start # 0
    BY <1>1, <2>2
  <2> QED
    BY <1>2, <2>3, <2>5, <2>6 DEF ScanInv, NonePassed, new
<1> QED
  BY <1>3, <1>4

LEMMA ScanKeeps ==
  ASSUME NEW seen \in SUBSET Samples
  PROVE  \A i \in 0..SampleCount : ScanInv(ScannedRun[i][seen], i, seen)
<1> DEFINE G == {i \in Nat : i <= SampleCount => ScanInv(ScannedRun[i][seen], i, seen)}
<1>1. 0 \in G
  <2>1. ScannedRun[0][seen] = NoRun
    BY ScannedRunDef
  <2>2. SampleAt(0) \notin seen
    BY SampleEnds
  <2>3. NoRun.start = 0 /\ NoRun.best = 0
    BY DEF NoRun
  <2>4. OpenRun(NoRun, 0, seen)
    BY <2>2, <2>3 DEF OpenRun
  <2>5. BestRun(NoRun, 0, seen)
    <3>1. \A c, d \in Int : Stretch(c, d, seen) => d >= 0
      BY DEF Stretch
    <3> QED
      BY <2>3, <3>1 DEF BestRun
  <2>6. NonePassed(NoRun, 0, seen)
    BY DEF NonePassed
  <2> QED
    BY <2>1, <2>4, <2>5, <2>6, NoRunType DEF ScanInv
<1>2. ASSUME NEW i \in Nat, i \in G PROVE i + 1 \in G
  <2> SUFFICES ASSUME i + 1 <= SampleCount PROVE ScanInv(ScannedRun[i + 1][seen], i + 1, seen)
    OBVIOUS
  <2>1. i \in 0..(SampleCount - 1) /\ i <= SampleCount
    BY SampleFacts
  <2>2. ScanInv(ScannedRun[i][seen], i, seen)
    BY <1>2, <2>1
  <2>3. ScannedRun[i + 1][seen] = ScanSample(ScannedRun[i][seen], SampleAt(i + 1), seen)
    BY ScannedRunDef
  <2> QED
    BY <2>1, <2>2, <2>3, ScanStep
<1>3. Nat \subseteq G
  <2> HIDE DEF G
  <2> QED
    BY <1>1, <1>2, SetInduction
<1> QED
  BY <1>3, SampleFacts

\* What a scan that saw anything chose: a longest run and a point in its middle.
LEMMA LongestRunCentred ==
  ASSUME NEW seen \in SUBSET Samples, seen # {}
  PROVE  LongestRun[seen].best > 0 /\ Centred(Centre(LongestRun[seen]), seen)
<1> DEFINE n == SampleCount
           last == ScannedRun[n][seen]
           run == LongestRun[seen]
<1>1. n \in Nat \ {0} /\ n \in 0..n /\ ScanInv(last, n, seen)
  <2>1. n \in Nat \ {0} /\ n \in 0..n
    BY SampleFacts
  <2>2. \A i \in 0..n : ScanInv(ScannedRun[i][seen], i, seen)
    BY ScanKeeps
  <2> QED
    BY <2>1, <2>2, Zenon
<1>2. run = CloseRun(last)
  BY DEF LongestRun
<1>3. SampleAt(n + 1) \notin seen
  BY SampleEnds
<1>4. last \in RunType /\ OpenRun(last, n, seen) /\ BestRun(last, n, seen) /\ NonePassed(last, n, seen)
  BY <1>1 DEF ScanInv
<1> HIDE DEF last, run, n
<1>5. /\ BestRun(run, n + 1, seen)
      /\ run.best <= 0 => \A k \in 1..n : SampleAt(k) \notin seen
  BY <1>1, <1>2, <1>3, <1>4, CloseKeepsBest DEF n
<1>6. PICK k \in 1..n : SampleAt(k) \in seen
  BY SampleEnds DEF n
<1>7. run \in RunType
  BY <1>2, <1>4, CloseRunType
<1>8. run.best > 0
  BY <1>5, <1>6, <1>7 DEF RunType
<1>9. PICK a \in Int, b \in Int :
         /\ Stretch(a, b, seen) /\ run.best = b - a + 1
         /\ run.bestStart = SampleAt(a) /\ run.bestEnd = SampleAt(b)
         /\ \A c, d \in Int : Stretch(c, d, seen) /\ d < n + 1 => d - c <= b - a
  <2>1. run.best # 0
    BY <1>8
  <2> QED
    BY <1>5, <2>1, Zenon DEF BestRun
<1> DEFINE h == (b - a) \div 2
           m == a + h
           r == <<SampleAt(a), SampleAt(b)>>
<1>10. h \in Nat /\ (b - a = 2 * h \/ b - a = 2 * h + 1) /\ m \in a..b
  <2>1. b - a \in Nat
    BY <1>9 DEF Stretch
  <2>2. h \in Nat /\ (b - a = 2 * h \/ b - a = 2 * h + 1)
    BY <2>1
  <2> QED
    BY <2>2
<1> HIDE DEF h
<1> m \in Int /\ SampleAt(m) \in Int /\ SampleAt(a) \in Int /\ SampleAt(b) \in Int
  <2>1. m \in Int
    BY <1>10
  <2> HIDE DEF m
  <2> QED
    BY <2>1, SampleFacts
<1>11. Centre(run) = SampleAt(m)
  <2>1. (SampleAt(b) - SampleAt(a)) \div SampleStep = b - a
    BY SampleFacts
  <2>2. Centre(run) = SampleAt(a) + h * SampleStep
    BY <1>9, <2>1 DEF Centre, h
  <2>3. SampleAt(m) - SampleAt(a) = (m - a) * SampleStep /\ m - a = h
    BY <1>10, SampleFacts
  <2> QED
    <3>1. h * SampleStep \in Int
      BY <1>10, SamplesAssumption
    <3> QED
      BY <2>2, <2>3, <3>1
<1>12. ASSUME NEW c \in Int, NEW d \in Int PROVE Stretch(c, d, seen) <=> <<SampleAt(c), SampleAt(d)>> \in Runs(seen)
  <2>1. SampleAt(c - 1) = SampleAt(c) - SampleStep /\ SampleAt(d + 1) = SampleAt(d) + SampleStep
    BY SamplesAssumption DEF SampleAt
  <2>2. ASSUME c \in 1..n, d \in 1..n
        PROVE  (\A j \in c..d : SampleAt(j) \in seen)
                 <=> \A s \in Samples : s \in SampleAt(c)..SampleAt(d) => s \in seen
    <3>1. ASSUME \A j \in c..d : SampleAt(j) \in seen, NEW s \in Samples, s \in SampleAt(c)..SampleAt(d)
          PROVE  s \in seen
      <4>1. PICK j \in 1..n : s = SampleAt(j)
        BY SampleEnds DEF n
      <4>2. j \in c..d
        BY <3>1, <4>1, SampleFacts
      <4> QED
        BY <3>1, <4>1, <4>2
    <3>2. ASSUME \A s \in Samples : s \in SampleAt(c)..SampleAt(d) => s \in seen, NEW j \in c..d
          PROVE  SampleAt(j) \in seen
      <4>1. j \in 1..n
        BY <1>1, <2>2
      <4>2. SampleAt(j) \in Samples
        BY <4>1, SampleEnds DEF n
      <4>3. SampleAt(j) \in SampleAt(c)..SampleAt(d)
        <5>1. j \in Int /\ c <= j /\ j <= d
          OBVIOUS
        <5>2. SampleAt(c) <= SampleAt(j) /\ SampleAt(j) <= SampleAt(d)
          BY <5>1, SampleFacts
        <5>3. SampleAt(j) \in Int /\ SampleAt(c) \in Int /\ SampleAt(d) \in Int
          BY <5>1, SampleFacts
        <5> QED
          BY <5>2, <5>3
      <4> QED
        BY <3>2, <4>2, <4>3
    <3> QED
      BY <3>1, <3>2
  <2>3. SampleAt(c) \in Samples <=> c \in 1..n
    BY SampleEnds DEF n
  <2>4. SampleAt(d) \in Samples <=> d \in 1..n
    BY SampleEnds DEF n
  <2>5. c <= d <=> SampleAt(c) <= SampleAt(d)
    BY SampleFacts
  <2> QED
    BY <2>1, <2>2, <2>3, <2>4, <2>5 DEF Stretch, Runs, n
<1>13. r \in Runs(seen)
  BY <1>9, <1>12
<1>14. ASSUME NEW q \in Runs(seen) PROVE q[2] - q[1] <= r[2] - r[1]
  <2>1. q \in Samples \X Samples
    BY DEF Runs
  <2>2. PICK c \in 1..n, d \in 1..n : q[1] = SampleAt(c) /\ q[2] = SampleAt(d)
    BY <2>1, SampleEnds DEF n
  <2>3. q = <<SampleAt(c), SampleAt(d)>>
    BY <2>1, <2>2
  <2>4. Stretch(c, d, seen) /\ d < n + 1
    BY <1>1, <1>12, <2>3
  <2>5. d - c <= b - a
    BY <1>9, <2>4
  <2>6. q[2] - q[1] = (d - c) * SampleStep /\ r[2] - r[1] = (b - a) * SampleStep
    BY <2>2, SampleFacts
  <2>7. (d - c) * SampleStep <= (b - a) * SampleStep
    BY <2>5, SamplesAssumption
  <2> QED
    BY <2>6, <2>7
<1>15. SampleAt(m) \in seen /\ SampleAt(m) \in r[1]..r[2]
  <2>1. SampleAt(m) \in seen
    BY <1>9, <1>10 DEF Stretch
  <2>2. SampleAt(a) <= SampleAt(m) /\ SampleAt(m) <= SampleAt(b)
    <3>1. a <= m /\ m <= b
      BY <1>10
    <3> QED
      BY <3>1, SampleFacts
  <2> QED
    BY <2>1, <2>2
<1>16. (r[2] - SampleAt(m)) - (SampleAt(m) - r[1]) \in {0, SampleStep}
  <2>1. r[2] - SampleAt(m) = (b - m) * SampleStep /\ SampleAt(m) - r[1] = (m - a) * SampleStep
    BY SampleFacts
  <2>2. CASE b - a = 2 * h
    <3>1. b - m = h /\ m - a = h
      BY <1>10, <2>2
    <3> QED
      BY <2>1, <3>1, <1>10, SamplesAssumption
  <2>3. CASE b - a = 2 * h + 1
    <3>1. b - m = h + 1 /\ m - a = h
      BY <1>10, <2>3
    <3> QED
      BY <2>1, <3>1, <1>10, SamplesAssumption
  <2> QED
    BY <1>10, <2>2, <2>3
<1> HIDE DEF r, m
<1>17. Centred(Centre(run), seen)
  BY <1>11, <1>13, <1>14, <1>15, <1>16 DEF Centred
<1> QED
  BY <1>8, <1>17 DEF run

-----------------------------------------------------------------------------
(* The write scan.                                                          *)

BestType == [score : Int, distance : Int, point : Grid \union {<<1, 1>>}]

LEMMA GridFacts ==
  /\ Len(AddrTimes) \in Nat /\ Len(DataTimes) \in Nat
  /\ Grid = (1..Len(AddrTimes)) \X (1..Len(DataTimes)) /\ IsFiniteSet(Grid)
  /\ GridCount \in Nat
  /\ \A p \in Grid : /\ AddrTimes[p[1]] \in Nat /\ DataTimes[p[2]] \in Nat
                     /\ p[1] \in Int /\ p[2] \in Int
                     /\ <<AddrTimes[p[1]], DataTimes[p[2]]>> \in WritePoints
                     /\ \E i \in 1..GridCount : p = GridAt(i)
  /\ \A w \in WritePoints : w[1] \in Int /\ w[2] \in Int
<1> DEFINE A == Len(AddrTimes)
           B == Len(DataTimes)
<1>1. A \in Nat /\ B \in Nat /\ DOMAIN AddrTimes = 1..A /\ DOMAIN DataTimes = 1..B
  BY GridAssumption
<1>2. Grid = (1..A) \X (1..B)
  BY <1>1 DEF Grid
<1>3. IsFiniteSet(Grid)
  <2>1. IsFiniteSet(1..A) /\ IsFiniteSet(1..B)
    BY <1>1, FS_Interval
  <2> QED
    BY <1>2, <2>1, FS_Product
<1>4. GridCount \in Nat
  BY <1>1 DEF GridCount
<1>5. /\ \A x \in 1..A : AddrTimes[x] \in Nat /\ AddrTimes[x] \in Range(AddrTimes)
      /\ \A x \in 1..B : DataTimes[x] \in Nat /\ DataTimes[x] \in Range(DataTimes)
  <2>1. \A x \in 1..A : AddrTimes[x] \in Nat
    BY <1>1, GridAssumption
  <2>2. \A x \in 1..B : DataTimes[x] \in Nat
    BY <1>1, GridAssumption
  <2>3. \A x \in 1..A : AddrTimes[x] \in Range(AddrTimes)
    BY <1>1, Zenon DEF Range
  <2>4. \A x \in 1..B : DataTimes[x] \in Range(DataTimes)
    BY <1>1, Zenon DEF Range
  <2> QED
    BY <2>1, <2>2, <2>3, <2>4
<1>6. \A w \in WritePoints : w[1] \in Int /\ w[2] \in Int
  BY <1>1, GridAssumption DEF WritePoints, Range
<1>7. ASSUME NEW p \in Grid
      PROVE  /\ AddrTimes[p[1]] \in Nat /\ DataTimes[p[2]] \in Nat
             /\ p[1] \in Int /\ p[2] \in Int
             /\ <<AddrTimes[p[1]], DataTimes[p[2]]>> \in WritePoints
             /\ \E i \in 1..GridCount : p = GridAt(i)
  <2>1. p[1] \in 1..A /\ p[2] \in 1..B /\ p = <<p[1], p[2]>>
    BY <1>2
  <2>2. <<AddrTimes[p[1]], DataTimes[p[2]]>> \in WritePoints
    BY <1>5, <2>1 DEF WritePoints
  <2> DEFINE i == (p[1] - 1) * B + p[2]
  <2>3. i \in 1..GridCount
    <3>1. \A k \in Nat, c \in Nat, d \in 1..B : k < c => k * B + d <= c * B /\ k * B + d >= 1
      BY <1>1
    <3>2. p[1] - 1 \in Nat /\ p[1] - 1 < A
      BY <1>1, <2>1
    <3>3. i <= A * B /\ i >= 1
      BY <1>1, <2>1, <3>1, <3>2
    <3>4. i \in Int
      BY <1>1, <2>1
    <3> QED
      BY <1>4, <3>3, <3>4 DEF GridCount
  <2>4. (i - 1) \div B = p[1] - 1 /\ (i - 1) % B = p[2] - 1
    <3>1. i - 1 = (p[1] - 1) * B + (p[2] - 1)
      BY <1>1, <2>1
    <3>2. p[1] - 1 \in Int /\ B \in Nat \ {0} /\ p[2] - 1 \in 0..(B - 1)
      BY <1>1, <2>1
    <3>3. \A k \in Int, r \in 0..(B - 1) : (k * B + r) \div B = k /\ (k * B + r) % B = r
      BY <3>2
    <3> HIDE DEF i
    <3> QED
      BY <3>1, <3>2, <3>3
  <2>5. GridAt(i) = <<(p[1] - 1) + 1, (p[2] - 1) + 1>>
    BY <2>4 DEF GridAt
  <2>6. p = GridAt(i)
    <3>1. (p[1] - 1) + 1 = p[1] /\ (p[2] - 1) + 1 = p[2]
      BY <2>1
    <3> QED
      BY <2>1, <2>5, <3>1
  <2> HIDE DEF i
  <2> QED
    BY <1>5, <2>1, <2>2, <2>3, <2>6
<1> QED
  BY <1>1, <1>2, <1>3, <1>4, <1>6, <1>7

LEMMA ScoreFacts ==
  ASSUME NEW seen \in SUBSET Grid, NEW p \in Grid, NEW w \in WritePoints
  PROVE  /\ Score(p, seen) \in Nat /\ Distance(p, w) \in Int
         /\ p \in seen => Score(p, seen) > 0
<1> DEFINE near == {q \in seen : q[1] - p[1] \in -Reach..Reach /\ q[2] - p[2] \in -Reach..Reach}
<1>1. IsFiniteSet(near) /\ Score(p, seen) = Cardinality(near)
  BY GridFacts, FS_Subset DEF Score
<1>2. Cardinality(near) \in Nat
  BY <1>1, FS_CardinalityType
<1>3. ASSUME p \in seen PROVE Cardinality(near) > 0
  <2>1. p \in near
    <3>1. p[1] - p[1] = 0 /\ p[2] - p[2] = 0 /\ 0 \in -Reach..Reach
      BY GridFacts, GridAssumption
    <3> QED
      BY <1>3, <3>1
  <2> HIDE DEF near
  <2> QED
    BY <1>1, <1>2, <2>1, FS_EmptySet
<1>4. Distance(p, w) \in Int
  <2>1. AddrTimes[p[1]] - w[1] \in Int /\ DataTimes[p[2]] - w[2] \in Int
    <3>1. AddrTimes[p[1]] \in Nat /\ DataTimes[p[2]] \in Nat /\ w[1] \in Int /\ w[2] \in Int
      BY GridFacts
    <3> QED
      BY <3>1
  <2> QED
    BY <2>1 DEF Distance
<1> QED
  BY <1>1, <1>2, <1>3, <1>4

\* p is at least as good a choice as q.
AsGood(p, q, seen, w) ==
  \/ Score(q, seen) < Score(p, seen)
  \/ Score(q, seen) = Score(p, seen) /\ Distance(q, w) >= Distance(p, w)

\* What the scan of the first i points of the grid has kept.
PointInv(best, i, seen, w) ==
  \/ best.score = 0 /\ \A k \in 1..i : GridAt(k) \notin seen
  \/ /\ best.point \in seen /\ best.score = Score(best.point, seen)
     /\ best.distance = Distance(best.point, w)
     /\ \A k \in 1..i : GridAt(k) \in seen => AsGood(best.point, GridAt(k), seen, w)

\* One more point is taken or it is not as good.
LEMMA PointStep ==
  ASSUME NEW seen \in SUBSET Grid, NEW w \in WritePoints, NEW i \in Nat, NEW best,
         PointInv(best, i, seen, w)
  PROVE  PointInv(BetterPoint(best, GridAt(i + 1), seen, w), i + 1, seen, w)
<1> DEFINE p == GridAt(i + 1)
           new == BetterPoint(best, p, seen, w)
           taken == [score |-> Score(p, seen), distance |-> Distance(p, w), point |-> p]
           better == \/ Score(p, seen) > best.score
                     \/ Score(p, seen) = best.score /\ Distance(p, w) < best.distance
<1>1. \A k \in 1..(i + 1) : k \in 1..i \/ k = i + 1
  OBVIOUS
<1>2. new = IF p \in seen /\ better THEN taken ELSE best
  BY DEF BetterPoint
<1>3. CASE best.score = 0 /\ \A k \in 1..i : GridAt(k) \notin seen
  <2>1. CASE p \notin seen
    BY <1>1, <1>2, <1>3, <2>1 DEF PointInv
  <2>2. CASE p \in seen
    <3>1. Score(p, seen) \in Nat /\ Score(p, seen) > 0 /\ Distance(p, w) \in Int
      BY <2>2, ScoreFacts
    <3>2. new = taken
      BY <1>2, <1>3, <2>2, <3>1
    <3>3. AsGood(p, p, seen, w)
      BY <3>1 DEF AsGood
    <3>4. taken.point = p /\ taken.score = Score(p, seen) /\ taken.distance = Distance(p, w)
      OBVIOUS
    <3> HIDE DEF taken
    <3> QED
      BY <1>1, <1>3, <2>2, <3>2, <3>3, <3>4 DEF PointInv
  <2> QED
    BY <2>1, <2>2
<1>4. CASE /\ best.point \in seen /\ best.score = Score(best.point, seen)
           /\ best.distance = Distance(best.point, w)
           /\ \A k \in 1..i : GridAt(k) \in seen => AsGood(best.point, GridAt(k), seen, w)
  <2>1. Score(best.point, seen) \in Nat /\ Distance(best.point, w) \in Int
    BY <1>4, ScoreFacts
  <2>2. CASE p \notin seen
    BY <1>1, <1>2, <1>4, <2>2 DEF PointInv
  <2>3. CASE p \in seen
    <3>1. Score(p, seen) \in Nat /\ Distance(p, w) \in Int
      BY <2>3, ScoreFacts
    <3>2. CASE better
      <4>1. new = taken
        BY <1>2, <2>3, <3>2
      <4>2. ASSUME NEW k \in 1..(i + 1), GridAt(k) \in seen PROVE AsGood(p, GridAt(k), seen, w)
        <5>1. CASE k = i + 1
          BY <3>1, <5>1 DEF AsGood
        <5>2. CASE k \in 1..i
          <6>1. AsGood(best.point, GridAt(k), seen, w)
            BY <1>4, <4>2, <5>2
          <6>2. Score(GridAt(k), seen) \in Nat /\ Distance(GridAt(k), w) \in Int
            BY <4>2, ScoreFacts
          <6> QED
            BY <1>4, <2>1, <3>1, <3>2, <6>1, <6>2 DEF AsGood
        <5> QED
          BY <1>1, <5>1, <5>2
      <4>3. taken.point = p /\ taken.score = Score(p, seen) /\ taken.distance = Distance(p, w)
        OBVIOUS
      <4> HIDE DEF taken
      <4> QED
        BY <2>3, <4>1, <4>2, <4>3 DEF PointInv
    <3>3. CASE ~better
      <4>1. new = best
        BY <1>2, <3>3
      <4>2. AsGood(best.point, p, seen, w)
        BY <1>4, <2>1, <3>1, <3>3 DEF AsGood
      <4> QED
        BY <1>1, <1>4, <4>1, <4>2 DEF PointInv
    <3> QED
      BY <3>2, <3>3
  <2> QED
    BY <2>2, <2>3
<1> QED
  BY <1>3, <1>4 DEF PointInv

\* The scan stays among the grid's points, each with its score and distance.
LEMMA BetterPointType ==
  ASSUME NEW seen \in SUBSET Grid, NEW w \in WritePoints, NEW best \in BestType, NEW p
  PROVE  BetterPoint(best, p, seen, w) \in BestType
<1>1. CASE p \in seen
  <2>1. [score |-> Score(p, seen), distance |-> Distance(p, w), point |-> p] \in BestType
    BY <1>1, ScoreFacts DEF BestType
  <2> QED
    BY <2>1 DEF BetterPoint
<1>2. CASE p \notin seen
  BY <1>2 DEF BetterPoint
<1> QED
  BY <1>1, <1>2

LEMMA ScannedPointDef ==
  \A seen \in SUBSET Grid, w \in WritePoints :
     /\ ScannedPoint[0][seen][w] = NoPoint
     /\ \A i \in Nat : ScannedPoint[i + 1][seen][w]
                         = BetterPoint(ScannedPoint[i][seen][w], GridAt(i + 1), seen, w)
<1> DEFINE D == [SUBSET Grid -> [WritePoints -> BestType]]
           base == [seen \in SUBSET Grid |-> [w \in WritePoints |-> NoPoint]]
           step == [p \in Nat \X D |-> [seen \in SUBSET Grid |-> [w \in WritePoints |->
                      BetterPoint(p[2][seen][w], GridAt(p[1] + 1), seen, w)]]]
           Rec(f) == [i \in Nat |-> [seen \in SUBSET Grid |-> [w \in WritePoints |->
                        IF i = 0 THEN NoPoint
                        ELSE BetterPoint(f[i - 1][seen][w], GridAt(i), seen, w)]]]
<1>1. base \in D
  BY DEF NoPoint, BestType
<1>2. step \in [Nat \X D -> D]
  <2> SUFFICES ASSUME NEW p \in Nat \X D, NEW seen \in SUBSET Grid, NEW w \in WritePoints
               PROVE  BetterPoint(p[2][seen][w], GridAt(p[1] + 1), seen, w) \in BestType
    OBVIOUS
  <2>1. p[2][seen][w] \in BestType
    OBVIOUS
  <2> QED
    BY <2>1, BetterPointType
<1>3. PICK f : Iterates(f, D, base, step)
  <2> HIDE DEF D, base, step
  <2> QED
    BY <1>1, <1>2, Iteration DEF IsStep
<1>4. f = Rec(f)
  <2>1. ASSUME NEW i \in Nat, NEW seen \in SUBSET Grid, NEW w \in WritePoints
        PROVE  f[i][seen][w] = IF i = 0 THEN NoPoint
                              ELSE BetterPoint(f[i - 1][seen][w], GridAt(i), seen, w)
    <3>1. CASE i = 0
      BY <1>3, <3>1 DEF Iterates
    <3>2. CASE i # 0
      <4>1. i - 1 \in Nat /\ (i - 1) + 1 = i
        BY <3>2
      <4>2. f[i] = step[<<i - 1, f[i - 1]>>]
        BY <1>3, <4>1 DEF Iterates
      <4>3. <<i - 1, f[i - 1]>> \in Nat \X D
        BY <1>3, <4>1 DEF Iterates
      <4>4. step[<<i - 1, f[i - 1]>>][seen][w]
              = BetterPoint(f[i - 1][seen][w], GridAt((i - 1) + 1), seen, w)
        BY <4>3
      <4> QED
        BY <3>2, <4>1, <4>2, <4>4
    <3> QED
      BY <3>1, <3>2
  <2>2. f = [i \in Nat |-> [seen \in SUBSET Grid |-> [w \in WritePoints |-> f[i][seen][w]]]]
    BY <1>3 DEF Iterates
  <2>3. ASSUME NEW i \in Nat PROVE f[i] = Rec(f)[i]
    <3>1. ASSUME NEW seen \in SUBSET Grid PROVE f[i][seen] = Rec(f)[i][seen]
      <4>1. f[i][seen] = [w \in WritePoints |-> f[i][seen][w]]
        BY <2>2
      <4> QED
        BY <2>1, <4>1
    <3>2. f[i] = [seen \in SUBSET Grid |-> f[i][seen]]
      BY <2>2
    <3> QED
      BY <3>1, <3>2
  <2>4. f = [i \in Nat |-> f[i]]
    BY <1>3 DEF Iterates
  <2> QED
    BY <2>3, <2>4
<1>5. ScannedPoint = Rec(ScannedPoint)
  <2>1. ScannedPoint = CHOOSE g : g = Rec(g)
    BY DEF ScannedPoint
  <2> HIDE DEF Rec
  <2> QED
    BY <1>4, <2>1
<1>6. ASSUME NEW seen \in SUBSET Grid, NEW w \in WritePoints
      PROVE  /\ ScannedPoint[0][seen][w] = NoPoint
             /\ \A i \in Nat : ScannedPoint[i + 1][seen][w]
                  = BetterPoint(ScannedPoint[i][seen][w], GridAt(i + 1), seen, w)
  <2>1. ScannedPoint[0] = Rec(ScannedPoint)[0] /\ \A i \in Nat : ScannedPoint[i + 1] = Rec(ScannedPoint)[i + 1]
    BY <1>5
  <2>2. Rec(ScannedPoint)[0][seen][w] = NoPoint
    OBVIOUS
  <2>3. ASSUME NEW i \in Nat
        PROVE  Rec(ScannedPoint)[i + 1][seen][w]
                 = BetterPoint(ScannedPoint[i][seen][w], GridAt(i + 1), seen, w)
    <3>1. i + 1 \in Nat /\ i + 1 # 0 /\ (i + 1) - 1 = i
      OBVIOUS
    <3> QED
      BY <3>1
  <2> HIDE DEF Rec
  <2> QED
    BY <2>1, <2>2, <2>3
<1> QED
  BY <1>6

\* A scan that saw anything chose the best of it.
LEMMA BestPointBest ==
  ASSUME NEW seen \in SUBSET Grid, seen # {}, NEW w \in WritePoints
  PROVE  /\ BestPoint(seen, w) \in seen
         /\ \A q \in seen : AsGood(BestPoint(seen, w), q, seen, w)
<1> DEFINE G == {i \in Nat : PointInv(ScannedPoint[i][seen][w], i, seen, w)}
<1>1. 0 \in G
  BY ScannedPointDef DEF PointInv, NoPoint
<1>2. ASSUME NEW i \in Nat, i \in G PROVE i + 1 \in G
  <2>1. PointInv(ScannedPoint[i][seen][w], i, seen, w)
    BY <1>2
  <2>2. ScannedPoint[i + 1][seen][w] = BetterPoint(ScannedPoint[i][seen][w], GridAt(i + 1), seen, w)
    BY ScannedPointDef
  <2> QED
    BY <2>1, <2>2, PointStep
<1>3. Nat \subseteq G
  <2> HIDE DEF G
  <2> QED
    BY <1>1, <1>2, SetInduction
<1> DEFINE best == ScannedPoint[GridCount][seen][w]
<1>4. PointInv(best, GridCount, seen, w)
  BY <1>3, GridFacts
<1>5. \A q \in seen : \E k \in 1..GridCount : q = GridAt(k)
  BY GridFacts
<1> HIDE DEF best
<1>6. best.point \in seen /\ \A q \in seen : AsGood(best.point, q, seen, w)
  BY <1>4, <1>5 DEF PointInv
<1> QED
  BY <1>6 DEF BestPoint, best

--------------------------------------------------------------------------------
(* The calibrations' part of the invariant.                                   *)

\* A running calibration has an eye of the scans' type, and the write point in
\* use is the configured one or a point of the grid.
CalAt == {"selectRead", "selectLoad", "calWrite", "calSID"}
CalInv ==
    /\ timing = [read |-> timing.read, write |-> timing.write, sid |-> timing.sid]
    /\ timing.write \in WritePoints
    /\ pc \in CalAt => eye \in EyeType

\* Each calibration replaces one of the points.
LEMMA TimingFacts ==
    ASSUME NEW r, NEW w, NEW s,
           timing = [read |-> timing.read, write |-> timing.write, sid |-> timing.sid]
    PROVE  /\ LET new == [timing EXCEPT !.read = r] IN
                 /\ new = [read |-> new.read, write |-> new.write, sid |-> new.sid]
                 /\ new.read = r /\ new.write = timing.write
           /\ LET new == [timing EXCEPT !.write = w] IN
                 /\ new = [read |-> new.read, write |-> new.write, sid |-> new.sid]
                 /\ new.write = w
           /\ LET new == [timing EXCEPT !.sid = s] IN
                 /\ new = [read |-> new.read, write |-> new.write, sid |-> new.sid]
                 /\ new.sid = s /\ new.write = timing.write
OBVIOUS

\* The write scan chooses a point of the grid or keeps the one in use.
LEMMA WriteTimingType ==
    ASSUME NEW seen \in SUBSET Grid, NEW w \in WritePoints
    PROVE  WriteTiming(seen, w) \in WritePoints
<1>1. CASE seen = {}
  BY <1>1 DEF WriteTiming
<1>2. CASE seen # {}
  <2>1. BestPoint(seen, w) \in Grid
    BY <1>2, BestPointBest
  <2> QED
    BY <1>2, <2>1, GridFacts DEF WriteTiming
<1> QED
  BY <1>1, <1>2

\* Only the calibrations and a restart touch the points and the eye.
LEMMA CalStep ==
    ASSUME TypeInv, CalInv, [Next]_vars
    PROVE  CalInv'
<1> USE DEF CalInv, CalAt
<1>1. CASE UltimaxSteps /\ UNCHANGED bootVars
  <2>1. CASE UltimaxHold
    BY <1>1, <2>1 DEF UltimaxHold, bootVars
  <2>2. CASE UltimaxLet
    BY <1>1, <2>2 DEF UltimaxLet, bootVars
  <2>3. CASE UltimaxTaken
    BY <1>1, <2>3 DEF UltimaxTaken, bootVars
  <2>4. CASE UltimaxTimeout
    BY <1>1, <2>4 DEF UltimaxTimeout, bootVars
  <2>5. CASE UltimaxGiveUp
    BY <1>1, <2>5 DEF UltimaxGiveUp, bootVars
  <2> QED
    BY <1>1, <2>1, <2>2, <2>3, <2>4, <2>5 DEF UltimaxSteps
<1>2. CASE AcquireSteps /\ UNCHANGED bootVars
  <2>1. CASE NoMachine
    BY <1>2, <2>1 DEF NoMachine, bootVars
  <2>2. CASE CleanStart
    BY <1>2, <2>2 DEF CleanStart, bootVars
  <2>3. CASE Settled
    BY <1>2, <2>3 DEF Settled, bootVars
  <2>4. CASE HijackOnBadline
    BY <1>2, <2>4 DEF HijackOnBadline, bootVars
  <2>5. CASE NoBadline
    BY <1>2, <2>5 DEF NoBadline, bootVars
  <2>6. CASE LegacyAcquired
    BY <1>2, <2>6 DEF LegacyAcquired, bootVars
  <2>7. CASE UltimaxAcquired
    BY <1>2, <2>7 DEF UltimaxAcquired, bootVars
  <2>8. CASE RefreshRequest
    BY <1>2, <2>8 DEF RefreshRequest, bootVars
  <2>9. CASE RefreshRunning
    BY <1>2, <2>9 DEF RefreshRunning, bootVars
  <2>10. CASE RefreshNotStarted
    BY <1>2, <2>10 DEF RefreshNotStarted, bootVars
  <2>11. CASE ScanRead
    <3>1. eye' \in EyeType
      BY <2>11, EyesAssumption DEF ScanRead, TypeInv, HostType
    <3> QED
      BY <2>11, <3>1 DEF ScanRead
  <2>12. CASE SelectRead
    BY <2>12, TimingFacts DEF SelectRead
  <2>13. CASE CalibrateWrite
    <3>1. eye \in EyeType
      BY <2>13 DEF CalibrateWrite
    <3>2. WriteTiming(eye.write, timing.write) \in WritePoints
      BY <3>1, WriteTimingType DEF EyeType
    <3> QED
      BY <2>13, <3>1, <3>2, TimingFacts DEF CalibrateWrite
  <2>14. CASE CalibrateSID
    BY <2>14, TimingFacts DEF CalibrateSID
  <2>15. CASE DetectVideo
    BY <1>2, <2>15 DEF DetectVideo, bootVars
  <2>16. CASE LineSynced
    BY <1>2, <2>16 DEF LineSynced, bootVars
  <2>17. CASE LineNotSynced
    BY <1>2, <2>17 DEF LineNotSynced, Release, bootVars
  <2> QED
    BY <1>2, <2>1, <2>2, <2>3, <2>4, <2>5, <2>6, <2>7, <2>8, <2>9, <2>10, <2>11, <2>12,
       <2>13, <2>14, <2>15, <2>16, <2>17 DEF AcquireSteps
<1>3. CASE ReleaseSteps /\ UNCHANGED bootVars
  <2>1. CASE NotHeld
    BY <1>3, <2>1 DEF TypeInv, NotHeld, radVars, bootVars
  <2>2. CASE StopRefresh
    BY <1>3, <2>2 DEF StopRefresh, bootVars
  <2>3. CASE RestoreHost
    BY <1>3, <2>3 DEF RestoreHost, bootVars
  <2>4. CASE LetGo
    BY <1>3, <2>4 DEF TypeInv, LetGo, bootVars
  <2> QED
    BY <1>3, <2>1, <2>2, <2>3, <2>4 DEF ReleaseSteps
<1>4. CASE (Prepare \/ ProbePasses \/ ProbeFails) /\ UNCHANGED bootVars
  <2>1. CASE Prepare
    BY <1>4, <2>1 DEF Prepare, bootVars
  <2>2. CASE ProbePasses
    BY <1>4, <2>2 DEF ProbePasses, bootVars
  <2>3. CASE ProbeFails
    BY <1>4, <2>3 DEF ProbeFails,
       bootVars
  <2> QED
    BY <1>4, <2>1, <2>2, <2>3
<1>5. CASE BootSteps
  <2>1. CASE ROMs \/ NotAcquired \/ InitRest \/ UnderIO \/ Prepared
    BY <2>1 DEF ROMs, Acquire, radVars, bootVars, NotAcquired, InitRest, UnderIO, Prepared
  <2>2. CASE SeedCIA2
    BY <2>2 DEF SeedCIA2
  <2>3. CASE SelfTest
    BY <2>3 DEF SelfTest, Release, bootVars
  <2>4. CASE SentinelRun
    BY <2>4 DEF SentinelRun, Release, bootVars
  <2>5. CASE NotPrepared \/ AcquiredAgain \/ HDMI \/ UnderLoad
    BY <2>5 DEF NotPrepared, Acquire, radVars, AcquiredAgain, HDMI, bootVars, UnderLoad
  <2> QED
    BY <1>5, <2>1, <2>2, <2>3, <2>4, <2>5 DEF BootSteps
<1>6. CASE HookSteps
  <2>1. CASE HookFreezes
    BY <2>1 DEF HookFreezes, bootVars
  <2>2. CASE HookButton \/ HookSeesReset \/ HookResetReleased \/ HookReset \/ HookMapLost
    BY <2>2 DEF HookButton, Release, radVars, bootVars, HookSeesReset, HookResetReleased,
       HookReset, HookMapLost
  <2>3. CASE HookHalts
    BY <2>3 DEF HookHalts, bootVars
  <2> QED
    BY <1>6, <2>1, <2>2, <2>3 DEF HookSteps
<1>7. CASE Traffic \/ WaitForButton
  <2>1. CASE Traffic
    BY <2>1 DEF Traffic, bootVars
  <2>2. CASE WaitForButton
    BY <2>2 DEF WaitForButton, radVars, bootVars
  <2> QED
    BY <1>7, <2>1, <2>2
<1>8. CASE Host
  BY <1>8 DEF Host, HostKernal, bootVars, HostRuns, StubStores
<1>9. CASE Core3 /\ UNCHANGED bootVars
  <2>1. CASE Core3Takes
    BY <1>9, <2>1 DEF Core3Takes, bootVars
  <2>2. CASE Core3Quits
    BY <1>9, <2>2 DEF Core3Quits, bootVars
  <2> QED
    BY <1>9, <2>1, <2>2 DEF Core3
<1>10. CASE User \/ PiRestarts
  <2>1. CASE PressButton
    BY <2>1 DEF PressButton, radVars
  <2>2. CASE PressReset
    BY <2>2 DEF PressReset
  <2>3. CASE ReleaseReset
    BY <2>3 DEF ReleaseReset, radVars
  <2>4. CASE PiRestarts
    BY <2>4 DEF PiRestarts, ConfiguredTiming, WritePoints
  <2> QED
    BY <1>10, <2>1, <2>2, <2>3, <2>4 DEF User
<1>11. CASE UNCHANGED vars
  BY <1>11 DEF vars, radVars, bootVars
<1> QED
  BY <1>1, <1>2, <1>3, <1>4, <1>5, <1>6, <1>7, <1>8, <1>9, <1>10, <1>11 DEF Next, Core0,
     RadSteps

--------------------------------------------------------------------------------
(* The invariant and the theorems.                                            *)

\* A power-on starts with the machine its own and the bus knowing nothing.
LEMMA InitIInv == Init => IInv
<1> SUFFICES ASSUME Init PROVE IInv
  OBVIOUS
<1>1. cfg \in Configs /\ cfg.machine \in {"C64", "C128"}
  BY ConfigsAssumption DEF Init
<1>2. /\ bus \in BusType /\ ~bus.acquired /\ ~bus.ready /\ ~bus.selectIO
      /\ pins \in PinsType /\ ~pins.dma /\ ~pins.game /\ ~pins.reset
  BY DEF Init, RadInit, BusType, PinsType
<1>3. host \in HostType /\ host.port = "kernal"
  BY <1>1 DEF Init, RadInit, HostType, Ports
<1>4. /\ core3 \in Core3Type /\ stub \in [port : Ports, left : Nat]
      /\ user \in UserType /\ accessible \in BOOLEAN /\ ~accessible
  BY DEF Init, RadInit, Core3Type, UserType, Ports
<1>5. wire \in WireType
  BY DEF Init, RadInit, WireType
<1>6. pc = "roms" /\ caller = "init" /\ after = "wait"
  BY DEF Init
<1>7. TypeInv
  BY <1>1, <1>2, <1>3, <1>4, <1>6 DEF TypeInv
<1>8. HoldInv
  BY <1>2, <1>6 DEF HoldInv, HeldAt, FreeAt, TakeoverAt
<1>9. PortInv /\ RefreshInv
  <2>1. bus.ready = bus.selectIO
    BY DEF Init, RadInit
  <2> QED
    BY <1>2, <1>3, <1>6, <2>1 DEF PortInv, RefreshInv, TakeoverAt
<1>10. C128Refreshed /\ AccessInv
  BY <1>2, <1>4, <1>6 DEF C128Refreshed, AccessInv, TakeoverAt
<1>11. WireInv
  BY <1>2, <1>5, <1>6 DEF WireInv, TurnAt
<1> QED
  BY <1>7, <1>8, <1>9, <1>10, <1>11 DEF IInv

LEMMA InductiveStep == IInv /\ [Next]_vars => IInv'
<1> SUFFICES ASSUME IInv, [Next]_vars PROVE IInv'
  OBVIOUS
<1> USE DEF IInv
<1>1. TypeInv' /\ HoldInv'
  BY TypeStep, HoldStep
<1>2. PortInv' /\ RefreshInv'
  BY PortStep, RefreshStep
<1>3. C128Refreshed' /\ AccessInv' /\ WireInv'
  BY C128RefreshedStep, AccessStep, WireStep
<1> QED
  BY <1>1, <1>2, <1>3

\* Where startup or the run gives up, the machine is its own again and out of
\* the all-RAM map, for every number of takeover attempts and every order of
\* core 0's, core 3's, the machine's and the user's steps (release(),
\* radHijackCPUWithUltimax, prepareRAMUnderIOAccess).
THEOREM MachineReturned == Spec => []MachineGivenBack
<1>1. IInv => MachineGivenBack
  <2> SUFFICES ASSUME IInv PROVE MachineGivenBack
    OBVIOUS
  <2>1. ASSUME pc \in Ended
        PROVE  /\ ~pins.dma /\ ~pins.game /\ ~pins.reset
               /\ ~bus.acquired /\ ~bus.ready /\ host.port # "ram"
    <3>1. pc \in FreeAt /\ pc \notin TakeoverAt \union {"probe", "taken", "giveUp"}
      BY <2>1 DEF Ended, FreeAt, TakeoverAt
    <3>2. ~pins.dma /\ ~pins.game /\ ~pins.reset /\ ~bus.acquired
      BY <3>1 DEF IInv, HoldInv, TakeoverAt
    <3>3. ~bus.ready /\ host.port # "ram"
      BY <3>1, <3>2 DEF IInv, PortInv, TakeoverAt
    <3> QED
      BY <3>2, <3>3
  <2>2. ASSUME HostRuns, ~pins.game, host.port = "ram" PROVE pc = "giveUp"
    <3>1. ~pins.dma
      BY <2>2 DEF HostRuns
    <3>2. CASE bus.ready
      <4>1. bus.acquired /\ pc \in ReadyAt
        BY <3>2 DEF IInv, PortInv
      <4>2. pc \in HeldAt \union {"notPrepared", "release"}
        BY <4>1 DEF ReadyAt, HeldAt
      <4> QED
        BY <3>1, <4>1, <4>2 DEF IInv, HoldInv
    <3>3. CASE pc \in {"ultimax", "stub", "giveUp", "probe"}
      BY <2>2, <3>1, <3>3 DEF IInv, HoldInv, PortInv, HeldAt
    <3> QED
      BY <2>2, <3>2, <3>3 DEF IInv, PortInv
  <2> QED
    BY <2>1, <2>2 DEF MachineGivenBack
<1> QED
  BY <1>1, InitIInv, InductiveStep, PTL DEF Spec

\* From the start of calibration until release() a held C128 has core 3's
\* refresh service (c128RefreshStart, c128RefreshStop).
THEOREM RefreshHolds == Spec => []C128Refreshed
<1>1. IInv => C128Refreshed
  BY DEF IInv
<1> QED
  BY <1>1, InitIInv, InductiveStep, PTL DEF Spec

\* In the run loop, but for a RESET the hook has not served, the mirror's
\* m_RAMUnderIOAccessible, the bus's m_RAMUnderIOReady and the processor port
\* agree, whichever of the three callers of the takeover got there.
THEOREM MapInForce == Spec => []MapAgrees
<1>1. IInv => MapAgrees
  <2> SUFFICES ASSUME IInv, pc = "run", ~user.pending PROVE OneMap
    BY DEF MapAgrees
  <2>1. accessible = bus.ready
    BY DEF IInv, AccessInv
  <2>2. bus.ready = bus.selectIO
    BY DEF IInv, PortInv
  <2>3. bus.ready <=> host.port = "ram"
    BY DEF IInv, PortInv
  <2>4. bus.ready \in BOOLEAN
    BY DEF IInv, TypeInv, BusType
  <2>5. bus.ready = (host.port = "ram")
    BY <2>3, <2>4
  <2> QED
    BY <2>1, <2>2, <2>5 DEF OneMap
<1> QED
  BY <1>1, InitIInv, InductiveStep, PTL DEF Spec

\* No write but the spare ones to $02FE follows a read on a bus that has not
\* turned round, on either machine (busWriteByte_p1, busBeginBurstWrites and
\* every place that sets busWriteTurnaroundNeeded and its passes).
THEOREM WritesLand == Spec => []OrdinaryWritesLand
<1>1. IInv => OrdinaryWritesLand
  BY DEF IInv, WireInv, WireType, OrdinaryWritesLand
<1> QED
  BY <1>1, InitIInv, InductiveStep, PTL DEF Spec

\* The scans choose what their description says, whatever they see and however
\* the sample points and the grid are laid out: the middle of a longest run of
\* good read samples, for the RAM and for the SID, and the write point with the
\* best neighbourhood nearest to the one in use (calibrateReadTiming,
\* calibrateSIDReadTiming, calibrateWriteTiming).
THEOREM PointsChosen == Spec => PointsCentred
<1>1. Init => TypeInv /\ CalInv
  <2>1. Init => TypeInv
    BY InitIInv DEF IInv
  <2>2. Init => CalInv
    BY DEF Init, RadInit, ConfiguredTiming, CalInv, CalAt, WritePoints
  <2> QED
    BY <2>1, <2>2
<1>2. TypeInv /\ CalInv /\ [Next]_vars => (TypeInv /\ CalInv)'
  BY TypeStep, CalStep
<1> DEFINE Reads == SelectRead /\ eye.read # {} => Centred(timing'.read.selected, eye.read)
           SIDs == CalibrateSID /\ eye.sid # {} => Centred(timing'.sid.at, eye.sid)
           Writes == CalibrateWrite /\ eye.write # {} =>
                       BestWrite(timing'.write, eye.write, timing.write)
<1>3. ASSUME CalInv PROVE Reads
  <2> SUFFICES ASSUME SelectRead, eye.read # {}
               PROVE  Centred(timing'.read.selected, eye.read)
    OBVIOUS
  <2>1. eye.read \in SUBSET Samples
    BY <1>3 DEF SelectRead, CalInv, CalAt, EyeType
  <2> DEFINE run == LongestRun[eye.read]
             chosen == ReadTiming(eye.read, timing.read.selected)
  <2>2. run.best > 0 /\ Centred(Centre(run), eye.read)
    BY <2>1, LongestRunCentred
  <2>3. chosen.selected = Centre(run)
    BY <2>2 DEF ReadTiming
  <2>4. timing'.read = chosen
    BY <1>3, TimingFacts DEF SelectRead, CalInv
  <2> QED
    BY <2>2, <2>3, <2>4
<1>4. ASSUME CalInv PROVE SIDs
  <2> SUFFICES ASSUME CalibrateSID, eye.sid # {}
               PROVE  Centred(timing'.sid.at, eye.sid)
    OBVIOUS
  <2>1. eye.sid \in SUBSET Samples
    BY <1>4 DEF CalibrateSID, CalInv, CalAt, EyeType
  <2> DEFINE run == LongestRun[eye.sid]
             chosen == SIDTiming(eye.sid, eye.edge, timing.sid.at)
  <2>2. run.best > 0 /\ Centred(Centre(run), eye.sid)
    BY <2>1, LongestRunCentred
  <2>3. chosen.at = Centre(run)
    <3>1. ~(run.best = 0 /\ eye.edge)
      BY <2>2
    <3> HIDE DEF run
    <3>2. chosen = [at |-> Centre(run), edge |-> FALSE, reliable |-> TRUE]
      BY <2>2, <3>1 DEF SIDTiming, run
    <3> QED
      BY <3>2
  <2>4. timing'.sid = chosen
    BY <1>4, TimingFacts DEF CalibrateSID, CalInv
  <2> QED
    BY <2>2, <2>3, <2>4
<1>5. ASSUME CalInv PROVE Writes
  <2> SUFFICES ASSUME CalibrateWrite, eye.write # {}
               PROVE  BestWrite(timing'.write, eye.write, timing.write)
    OBVIOUS
  <2>1. eye.write \in SUBSET Grid /\ timing.write \in WritePoints
    BY <1>5 DEF CalibrateWrite, CalInv, CalAt, EyeType
  <2> DEFINE p == BestPoint(eye.write, timing.write)
  <2>2. p \in eye.write /\ \A q \in eye.write : AsGood(p, q, eye.write, timing.write)
    BY <2>1, BestPointBest
  <2>3. timing'.write = WriteTiming(eye.write, timing.write)
    BY <1>5, TimingFacts DEF CalibrateWrite, CalInv
  <2>4. timing'.write = <<AddrTimes[p[1]], DataTimes[p[2]]>>
    BY <2>3 DEF WriteTiming
  <2> HIDE DEF p
  <2> QED
    BY <2>2, <2>4 DEF BestWrite, AsGood
<1>6. CalInv => Reads /\ SIDs /\ Writes
  BY <1>3, <1>4, <1>5
<1>7. TypeInv /\ CalInv /\ [Next]_vars => [Reads /\ SIDs /\ Writes]_vars
  BY <1>6
<1> QED
  BY <1>1, <1>2, <1>7, PTL DEF Spec, PointsCentred
=============================================================================
