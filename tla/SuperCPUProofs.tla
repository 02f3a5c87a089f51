---------------------------- MODULE SuperCPUProofs ----------------------------
(***************************************************************************)
(* Proofs about the SuperCPU: Registers, for every set of machines,        *)
(* addresses and register values the assumptions on the constants admit;   *)
(* and FrameScheduler, for every slicing of the frame, all budgets and     *)
(* every overrun.                                                          *)
(***************************************************************************)
EXTENDS Registers, FrameScheduler, TLAPS

\* The parts of the state the arguments below compute with.
TypeInv ==
    /\ config \in Configs
    /\ sys1MHz \in BOOLEAN /\ soft1MHz \in BOOLEAN /\ switchSlow \in BOOLEAN
    /\ hwRegs \in BOOLEAN /\ bootmap \in BOOLEAN
    /\ bootmapActive \in BOOLEAN /\ kernalBase \in {"KS", "KT"}
    /\ optim \subseteq {0, 2, 6, 7}
    /\ pacedFast \in BOOLEAN /\ speedChanged \in BOOLEAN

\* The two windows, as the registers select them.
KernalInv == kernalBase = "KS" <=> hwRegs
BootInv == bootmapActive <=> bootmap /\ BootmapUsable

\* Between two slices a reset may leave the pacer behind, and then says so.
PaceInv == pacedFast = FastMode \/ (speedChanged /\ ~running)

--------------------------------------------------------------------------------
(* The decoders: facts about a single state.                                  *)

\* The four lines that choose a page's region choose it for the whole page.
LEMMA VectorPage == Region(\hFF00, bankMode) = Region(\hFFFE, bankMode)
<1>1. \hFF00 \div 4096 = 15 /\ \hFFFE \div 4096 = 15
  OBVIOUS
<1> QED
  BY <1>1, SMT DEF Region

\* A bank-0 address is a number of 16 bits.
LEMMA AddressRange == \A a \in Addrs : a \in Int /\ a < 65536
BY AddressAssumption, SMT

\* A vector is fetched from the EPROM, through the boot window or the reroute.
LEMMA VectorFromROM ==
    ASSUME NEW v \in Addrs, v >= \hFFE4, config.romLength \in Nat, config.romLength >= 65536,
           ~emulation \/ InterruptRerouteRequested,
           bootmapActive \/ Region(\hFFFE, bankMode) = "kernal"
    PROVE  VectorStore(v) = <<"rom", v>>
<1>1. v \in Int /\ v < 65536
  BY AddressRange, SMT
<1>2. CASE bootmapActive
  <2>1. ~RerouteActive
    BY <1>2, SMT DEF RerouteActive
  <2>2. ~DosExtensionMapsBank1(v) /\ ~MMURegister(v) /\ ~(v <= 1) /\ v >= \hE000
        /\ ~In(v, \h1000, \h5FFF)
    BY <1>1, SMT DEF DosExtensionMapsBank1, MMURegister, In
  <2>3. Read8(v) = <<"rom", v>>
    BY <1>2, <2>2, SMT DEF Read8
  <2>4. ReadFast(v) = Read8(v)
    BY <1>2, <2>2, SMT DEF ReadFast
  <2> QED
    BY <2>1, <2>3, <2>4, SMT DEF VectorStore
<1>3. CASE ~bootmapActive
  <2>1. RerouteActive
    BY <1>3, VectorPage, SMT DEF RerouteActive
  <2>2. v % config.romLength = v
    BY <1>1, SMT
  <2> QED
    BY <2>1, <2>2, SMT DEF VectorStore
<1> QED
  BY <1>2, <1>3, SMT

\* The inline read skips the full decoder only where both pick DRAM or bank 1.
LEMMA ReadPathsAgree ==
    ASSUME NEW a \in Addrs, ~(config.scpu128 /\ MMURegister(a))
    PROVE  ReadFast(a) = Read8(a)
<1>1. a \in Int
  BY AddressRange, SMT
<1>2. CASE DosExtensionMapsBank1(a)
  <2>1. ~(a <= 1)
    BY <1>1, <1>2, SMT DEF DosExtensionMapsBank1, In
  <2> QED
    BY <1>2, <2>1, SMT DEF ReadFast, Read8
<1>3. CASE ~DosExtensionMapsBank1(a) /\ a > 1 /\ ~bootmapActive /\ Region(a, bankMode) = "ram"
  <2>1. ~(a <= 1)
    BY <1>1, <1>3, SMT
  <2> QED
    BY <1>3, <2>1, SMT DEF ReadFast, Read8
<1>4. CASE ~DosExtensionMapsBank1(a) /\ ~(a > 1 /\ ~bootmapActive /\ Region(a, bankMode) = "ram")
  BY <1>4, SMT DEF ReadFast
<1> QED
  BY <1>2, <1>3, <1>4, SMT

\* The inline write skips it only where no I/O register can be hit.
LEMMA WritePathsAgree ==
    ASSUME NEW a \in Addrs, ~(config.scpu128 /\ MMURegister(a))
    PROVE  WriteFast(a) = Write8(a)
<1>1. a \in Int
  BY AddressRange, SMT
<1>2. CASE DosExtensionMapsBank1(a)
  <2>1. ~(a <= 1)
    BY <1>1, <1>2, SMT DEF DosExtensionMapsBank1, In
  <2> QED
    BY <1>2, <2>1, SMT DEF WriteFast, Write8
<1>3. CASE ~DosExtensionMapsBank1(a) /\ a > 1 /\ Region(a, bankMode) # "io"
  <2>1. ~(a <= 1)
    BY <1>1, <1>3, SMT
  <2> QED
    BY <1>3, <2>1, SMT DEF WriteFast, Write8
<1>4. CASE ~DosExtensionMapsBank1(a) /\ ~(a > 1 /\ Region(a, bankMode) # "io")
  BY <1>4, SMT DEF WriteFast
<1> QED
  BY <1>2, <1>3, <1>4, SMT

\* What a linear write reaches in the SIMM, both views of that offset read back.
LEMMA SIMMPathsAgree ==
    ASSUME NEW o \in Offsets, WriteAbove(o, FALSE)[1] = "simm"
    PROVE  /\ ReadAbove(o, TRUE) = WriteAbove(o, FALSE)
           /\ ReadAbove(o, FALSE) = WriteAbove(o, FALSE)
<1>1. config.simmSize # 0 /\ o < config.simmSize
  BY SMT DEF WriteAbove
<1> QED
  BY <1>1, SMT DEF WriteAbove, ReadAbove

--------------------------------------------------------------------------------
(* The steps.                                                                 *)

\* The handlers that leave a part of the state alone, once for all of them.
LEMMA TypeStep == ASSUME TypeInv, [Next]_vars PROVE TypeInv'
<1> USE DEF TypeInv
<1>0. NoteSpeedChange => pacedFast' \in BOOLEAN /\ speedChanged' \in BOOLEAN
  <2>1. FastMode' \in BOOLEAN
    BY Zenon DEF FastMode
  <2> QED
    BY <2>1, Zenon DEF NoteSpeedChange, paceVars
<1> USE DEF RegWrite, speedVars, gateVars, mirrorVars, windowVars, simmVars, plaVars, coreVars
<1>1. ASSUME NEW b \in BOOLEAN, NEW c \in BOOLEAN, WriteSpeedStrobe(b, c) PROVE TypeInv'
  BY <1>0, <1>1 DEF WriteSpeedStrobe
<1>2. ASSUME NEW b \in BOOLEAN, NEW c \in BOOLEAN, WriteStatus(b, c) PROVE TypeInv'
  <2>1. hwRegs' \in BOOLEAN /\ kernalBase' \in {"KS", "KT"}
    BY <1>2, Zenon DEF WriteStatus, ApplyKernalShadow
  <2> QED
    BY <1>0, <1>2, <2>1 DEF WriteStatus
<1>3. ASSUME NEW b \in BOOLEAN, WriteGate(b) PROVE TypeInv'
  BY <1>0, <1>3 DEF WriteGate, ApplyKernalShadow
<1>4. ASSUME NEW b \in BOOLEAN, WriteSpeedFlags(b) PROVE TypeInv'
  BY <1>0, <1>4 DEF WriteSpeedFlags
<1>5. ASSUME NEW b \in BOOLEAN, WriteBootmap(b) PROVE TypeInv'
  <2>1. bootmapActive' \in BOOLEAN
    BY <1>5, Zenon DEF WriteBootmap, ApplyBootmap
  <2> QED
    BY <1>0, <1>5, <2>1 DEF WriteBootmap, ApplyBootmap
<1>6. ASSUME NEW b \in BOOLEAN, WriteDOSExt(b) PROVE TypeInv'
  BY <1>0, <1>6 DEF WriteDOSExt
<1>7. ASSUME NEW b \in BOOLEAN, WriteRAMLink(b) PROVE TypeInv'
  BY <1>7 DEF WriteRAMLink, paceVars
<1>8. ASSUME NEW b \in BOOLEAN, SetSpeedSwitch(b) PROVE TypeInv'
  BY <1>0, <1>8 DEF SetSpeedSwitch
<1>9. ASSUME NEW bits \in OptimWrites, WriteLegacyOptim(bits) PROVE TypeInv'
  BY <1>0, <1>9, ValueAssumption DEF WriteLegacyOptim, ApplyOptimisation
<1>10. ASSUME NEW bits \in OptimWrites, NEW v2 \in BOOLEAN, WriteOptim(bits, v2) PROVE TypeInv'
  <2>1. optim' \subseteq {0, 2, 6, 7}
    BY <1>10, ValueAssumption DEF WriteOptim, ApplyOptimisation
  <2> QED
    BY <1>0, <1>10, <2>1 DEF WriteOptim
<1>11. ASSUME NEW c \in SIMMConfigs, WriteSIMMConfig(c) PROVE TypeInv'
  BY <1>0, <1>11 DEF WriteSIMMConfig
<1>12. ASSUME NEW w \in PortWrites, WritePort(w[1], w[2]) PROVE TypeInv'
  BY <1>12 DEF WritePort, paceVars
<1>13. CASE ExchangeEmulation
  BY <1>13 DEF ExchangeEmulation, paceVars
<1>14. CASE StartSlice
  <2>1. pacedFast' \in BOOLEAN
    BY <1>14, Zenon DEF StartSlice, FastMode
  <2> QED
    BY <1>14, <2>1 DEF StartSlice
<1>15. CASE EndSlice
  BY <1>15 DEF EndSlice, paceVars
<1>16. CASE Reset
  <2>1. config.scpu128 \in BOOLEAN
    BY ConfigAssumption
  <2>2. bootmapActive' \in BOOLEAN
    <3>1. BootmapUsable \in BOOLEAN
      BY DEF BootmapUsable
    <3> QED
      BY <1>16, <3>1, Zenon DEF Reset
  <2> QED
    BY <1>16, <2>1, <2>2 DEF Reset, ApplyKernalShadow, ApplyOptimisation
<1>17. CASE UNCHANGED vars
  BY <1>17 DEF vars, paceVars
<1> QED
  BY <1>1, <1>2, <1>3, <1>4, <1>5, <1>6, <1>7, <1>8, <1>9, <1>10, <1>11, <1>12, <1>13, <1>14,
     <1>15, <1>16, <1>17 DEF Next

\* Each handler that writes a gate moves its window with it.
LEMMA WindowStep ==
    ASSUME TypeInv, KernalInv, BootInv, [Next]_vars PROVE KernalInv' /\ BootInv'
<1>1. KernalInv'
  <2> USE DEF KernalInv, RegWrite, speedVars, gateVars, windowVars
  <2>1. ASSUME NEW b, ApplyKernalShadow(b) PROVE KernalInv'
    BY <2>1 DEF ApplyKernalShadow
  <2>2. ASSUME UNCHANGED <<hwRegs, kernalBase>> PROVE KernalInv'
    BY <2>2
  <2>3. ASSUME NEW b \in BOOLEAN, NEW c \in BOOLEAN, WriteSpeedStrobe(b, c) \/ WriteStatus(b, c)
        PROVE  KernalInv'
    BY <2>1, <2>2, <2>3, Zenon DEF WriteSpeedStrobe, WriteStatus
  <2>4. ASSUME NEW b \in BOOLEAN, WriteGate(b) \/ WriteSpeedFlags(b) \/ WriteBootmap(b)
        PROVE  KernalInv'
    BY <2>1, <2>2, <2>4, Zenon DEF WriteGate, WriteSpeedFlags, WriteBootmap
  <2>5. ASSUME NEW b \in BOOLEAN, WriteDOSExt(b) \/ WriteRAMLink(b) \/ SetSpeedSwitch(b)
        PROVE  KernalInv'
    BY <2>2, <2>5, Zenon DEF WriteDOSExt, WriteRAMLink, SetSpeedSwitch
  <2>6. ASSUME NEW bits \in OptimWrites, NEW v2 \in BOOLEAN,
               WriteLegacyOptim(bits) \/ WriteOptim(bits, v2)
        PROVE  KernalInv'
    BY <2>2, <2>6, Zenon DEF WriteLegacyOptim, WriteOptim
  <2>7. ASSUME NEW c \in SIMMConfigs, WriteSIMMConfig(c) PROVE KernalInv'
    BY <2>2, <2>7, Zenon DEF WriteSIMMConfig
  <2>8. ASSUME NEW w \in PortWrites, WritePort(w[1], w[2]) PROVE KernalInv'
    BY <2>2, <2>8, Zenon DEF WritePort
  <2>9. CASE ExchangeEmulation \/ StartSlice \/ EndSlice
    BY <2>2, <2>9, Zenon DEF ExchangeEmulation, StartSlice, EndSlice
  <2>10. CASE Reset
    BY <2>1, <2>10, Zenon DEF Reset
  <2>11. CASE UNCHANGED vars
    BY <2>2, <2>11, Zenon DEF vars
  <2> QED
    BY <2>3, <2>4, <2>5, <2>6, <2>7, <2>8, <2>9, <2>10, <2>11, Zenon DEF Next
<1>2. BootInv'
  <2> USE DEF BootInv, RegWrite, speedVars, gateVars, windowVars, coreVars
  <2>1. ASSUME UNCHANGED <<config, bootmap, bootmapActive>> PROVE BootInv'
    BY <2>1 DEF BootmapUsable
  <2>2. ASSUME NEW b \in BOOLEAN, NEW c \in BOOLEAN, WriteSpeedStrobe(b, c) \/ WriteStatus(b, c)
        PROVE  BootInv'
    BY <2>1, <2>2, Zenon DEF WriteSpeedStrobe, WriteStatus
  <2>3. ASSUME NEW b \in BOOLEAN, WriteGate(b) \/ WriteSpeedFlags(b) PROVE BootInv'
    BY <2>1, <2>3, Zenon DEF WriteGate, WriteSpeedFlags
  <2>4. ASSUME NEW b \in BOOLEAN, WriteBootmap(b) PROVE BootInv'
    <3>1. BootmapUsable' = BootmapUsable
      BY <2>4 DEF WriteBootmap, BootmapUsable
    <3> QED
      BY <2>4, <3>1, Zenon DEF WriteBootmap, ApplyBootmap
  <2>5. ASSUME NEW b \in BOOLEAN, WriteDOSExt(b) \/ WriteRAMLink(b) \/ SetSpeedSwitch(b)
        PROVE  BootInv'
    BY <2>1, <2>5, Zenon DEF WriteDOSExt, WriteRAMLink, SetSpeedSwitch
  <2>6. ASSUME NEW bits \in OptimWrites, NEW v2 \in BOOLEAN,
               WriteLegacyOptim(bits) \/ WriteOptim(bits, v2)
        PROVE  BootInv'
    BY <2>1, <2>6, Zenon DEF WriteLegacyOptim, WriteOptim
  <2>7. ASSUME NEW c \in SIMMConfigs, WriteSIMMConfig(c) PROVE BootInv'
    BY <2>1, <2>7, Zenon DEF WriteSIMMConfig
  <2>8. ASSUME NEW w \in PortWrites, WritePort(w[1], w[2]) PROVE BootInv'
    BY <2>1, <2>8, Zenon DEF WritePort
  <2>9. CASE ExchangeEmulation \/ StartSlice \/ EndSlice
    BY <2>1, <2>9, Zenon DEF ExchangeEmulation, StartSlice, EndSlice
  <2>10. CASE Reset
    <3>1. BootmapUsable' = BootmapUsable
      BY <2>10 DEF Reset, BootmapUsable
    <3> QED
      BY <2>10, <3>1, Zenon DEF Reset
  <2>11. CASE UNCHANGED vars
    BY <2>1, <2>11, Zenon DEF vars
  <2> QED
    BY <2>2, <2>3, <2>4, <2>5, <2>6, <2>7, <2>8, <2>9, <2>10, <2>11, Zenon DEF Next
<1> QED
  BY <1>1, <1>2

\* The speed hook keeps the pacer at the speed the registers select.
LEMMA PaceStep == ASSUME TypeInv, PaceInv, [Next]_vars PROVE PaceInv'
<1> USE DEF PaceInv, RegWrite, coreVars
<1>1. ASSUME NoteSpeedChange, running' = running PROVE PaceInv'
  BY <1>1, Zenon DEF NoteSpeedChange, paceVars
<1>2. ASSUME UNCHANGED <<speedVars, hwRegs, paceVars>>, running' => running PROVE PaceInv'
  BY <1>2, Zenon DEF FastMode, speedVars, paceVars
<1>3. ASSUME NEW b \in BOOLEAN, NEW c \in BOOLEAN, WriteSpeedStrobe(b, c) \/ WriteStatus(b, c)
      PROVE  PaceInv'
  BY <1>1, <1>3, Zenon DEF WriteSpeedStrobe, WriteStatus
<1>4. ASSUME NEW b \in BOOLEAN, WriteGate(b) \/ WriteSpeedFlags(b) \/ WriteBootmap(b)
      PROVE  PaceInv'
  BY <1>1, <1>4, Zenon DEF WriteGate, WriteSpeedFlags, WriteBootmap
<1>5. ASSUME NEW b \in BOOLEAN, WriteDOSExt(b) \/ SetSpeedSwitch(b) PROVE PaceInv'
  BY <1>1, <1>5, Zenon DEF WriteDOSExt, SetSpeedSwitch
<1>6. ASSUME NEW b \in BOOLEAN, WriteRAMLink(b) PROVE PaceInv'
  BY <1>2, <1>6, Zenon DEF WriteRAMLink
<1>7. ASSUME NEW bits \in OptimWrites, NEW v2 \in BOOLEAN,
             WriteLegacyOptim(bits) \/ WriteOptim(bits, v2)
      PROVE  PaceInv'
  BY <1>1, <1>7, Zenon DEF WriteLegacyOptim, WriteOptim
<1>8. ASSUME NEW c \in SIMMConfigs, WriteSIMMConfig(c) PROVE PaceInv'
  BY <1>1, <1>8, Zenon DEF WriteSIMMConfig
<1>9. ASSUME NEW w \in PortWrites, WritePort(w[1], w[2]) PROVE PaceInv'
  BY <1>2, <1>9, Zenon DEF WritePort, gateVars
<1>10. CASE ExchangeEmulation \/ EndSlice
  BY <1>2, <1>10, Zenon DEF ExchangeEmulation, EndSlice, gateVars
<1>11. CASE StartSlice
  <2>1. FastMode' = FastMode
    BY <1>11, Zenon DEF StartSlice, FastMode, speedVars, gateVars
  <2> QED
    BY <1>11, <2>1, Zenon DEF StartSlice
<1>12. CASE Reset
  BY <1>12, Zenon DEF Reset
<1>13. CASE UNCHANGED vars
  BY <1>2, <1>13, Zenon DEF vars, gateVars
<1> QED
  BY <1>3, <1>4, <1>5, <1>6, <1>7, <1>8, <1>9, <1>10, <1>11, <1>12, <1>13, Zenon DEF Next

--------------------------------------------------------------------------------
(* The results.                                                               *)

IInv == TypeInv /\ KernalInv /\ BootInv /\ PaceInv

\* The power-on state, with the pacer armed before the reset that ends init().
LEMMA InitIInv == Init => IInv
<1> SUFFICES ASSUME Init PROVE IInv
  OBVIOUS
<1>1. config \in Configs /\ config.scpu128 \in BOOLEAN /\ BootmapUsable \in BOOLEAN
  BY ConfigAssumption DEF Init, BootmapUsable
<1>2. TypeInv
  BY <1>1 DEF Init, TypeInv
<1>3. KernalInv
  BY <1>1 DEF Init, KernalInv
<1>4. BootInv
  BY <1>1, Zenon DEF Init, BootInv
<1>5. PaceInv
  BY Zenon DEF Init, PaceInv
<1> QED
  BY <1>2, <1>3, <1>4, <1>5 DEF IInv

LEMMA InductiveStep == IInv /\ [Next]_vars => IInv'
BY TypeStep, WindowStep, PaceStep, Zenon DEF IInv

\* Every register write, reset and slice leaves the KERNAL and boot windows
\* where the registers say (applyKernalShadow, applyBootmap), and an accelerator
\* that claims its interrupts gets its vectors from the EPROM.
THEOREM WindowsCorrect == Spec => []WindowsFollowRegisters
<1>1. IInv => WindowsFollowRegisters
  <2> SUFFICES ASSUME IInv PROVE WindowsFollowRegisters
    OBVIOUS
  <2>1. config.romLength \in Nat
    BY ConfigAssumption DEF IInv, TypeInv
  <2>2. ASSUME config.romLength >= 65536, ~emulation \/ InterruptRerouteRequested,
               bootmapActive \/ Region(\hFFFE, bankMode) = "kernal",
               NEW v \in Addrs, v >= \hFFE4
        PROVE  VectorStore(v) = <<"rom", v>>
    BY <2>1, <2>2, VectorFromROM
  <2>3. (kernalBase = "KS" <=> hwRegs) /\ (bootmapActive <=> bootmap /\ BootmapUsable)
    BY DEF IInv, KernalInv, BootInv
  <2> QED
    BY <2>2, <2>3, SMT DEF WindowsFollowRegisters
<1> QED
  BY <1>1, InitIInv, InductiveStep, PTL DEF Spec

\* While the guest runs the pacer is at the speed $D0B8 reports (noteSpeedChange,
\* setPacing, consumeSpeedChanged), whatever order the three requests, the gate,
\* the switch and a reset come in.
THEOREM SpeedCorrect == Spec => []ReportedSpeedIsPaced
<1>1. IInv => ReportedSpeedIsPaced
  <2> SUFFICES ASSUME IInv, running PROVE pacedFast <=> 6 \notin ReadRegister(\hD0B8)
    BY DEF ReportedSpeedIsPaced
  <2>1. pacedFast = FastMode
    BY Zenon DEF IInv, PaceInv
  <2>2. 6 \in ReadRegister(\hD0B8) <=> soft1MHz \/ (switchSlow /\ ~hwRegs) \/ sys1MHz
    BY DEF ReadRegister, Bit
  <2>3. pacedFast <=> ~(soft1MHz \/ (switchSlow /\ ~hwRegs) \/ sys1MHz)
    BY <2>1, Zenon DEF FastMode
  <2> QED
    BY <2>2, <2>3, SMT
<1> QED
  BY <1>1, InitIInv, InductiveStep, PTL DEF Spec

\* The inline and the full decoders pick one store for every address, and the
\* linear SIMM and its window one cell (readFast/read8, writeFast/write8,
\* readAbove/writeAbove).
THEOREM DecodersAgree == Spec => []PathsAgree
<1>1. PathsAgree
  BY ReadPathsAgree, WritePathsAgree, SIMMPathsAgree DEF PathsAgree
<1> QED
  BY <1>1, PTL

--------------------------------------------------------------------------------
(* The frame: mirror traffic stays off a live serial bus and off a halted       *)
(* mirror, and no emulated time is lost or given away.                          *)

\* Where runFrame has looked at the bus and may still send without another look.
Looked == {"approach", "flush", "hidden", "picture", "sweep"}

\* The strengthening: between the look and the last byte nothing gives the
\* guest a chance to start serial traffic, nor the hook one to halt the mirror.
LookHolds == pc \in Looked => ~iec /\ ~halted

\* A drain returns to the scrub of its slice or to the sweep of its border.
ReturnsKnown == after \in {"scrub", "sweep"}

SerialInv == SerialUndisturbed /\ LookHolds /\ ReturnsKnown

LEMMA SerialInit == FrameInit => SerialInv
  BY DEF FrameInit, SerialInv, SerialUndisturbed, LookHolds, ReturnsKnown, Looked

\* The end of a drain keeps the bus as it found it.
LEMMA DrainEnds == ASSUME SerialInv, pc \in Looked, FlushEnds PROVE SerialInv'
  BY DEF FlushEnds, guest, SerialInv, SerialUndisturbed, LookHolds, ReturnsKnown, Looked

\* A burst goes out on the bus the drain has looked at.
LEMMA BurstSent ==
  ASSUME SerialInv, pc \in Looked, NEW class, NEW n, Sends(class, n) PROVE SerialInv'
  BY DEF Sends, SerialInv, SerialUndisturbed, LookHolds, ReturnsKnown, Looked

LEMMA SerialNext == SerialInv /\ [FrameNext]_frameVars => SerialInv'
<1> SUFFICES ASSUME SerialInv, [FrameNext]_frameVars PROVE SerialInv'
  OBVIOUS
<1> USE DEF SerialInv, SerialUndisturbed, LookHolds, ReturnsKnown, Looked
<1>1. CASE BeginFrame
  <2>1. xfer' = FALSE /\ pc' \in {"slice", "diag"} /\ after' = after
    BY <1>1 DEF BeginFrame
  <2> QED BY <2>1
<1>2. CASE Slice
  <2>1. xfer' = FALSE /\ halted' = halted /\ iec' \in BOOLEAN
    BY <1>2 DEF Slice, GuestRuns
  <2>2. \/ pc' = "flush" /\ after' = "scrub" /\ ~iec' /\ ~halted
        \/ pc' = "scrub" /\ after' = after
    BY <1>2 DEF Slice
  <2> QED BY <2>1, <2>2
<1>3. CASE FlushDone
  BY <1>3, DrainEnds DEF FlushDone
<1>4. CASE SampleRaster
  <2>1. CASE FlushEnds
    BY <1>4, <2>1, DrainEnds DEF SampleRaster
  <2>2. CASE ~FlushEnds
    BY <1>4, <2>2 DEF SampleRaster, guest
  <2> QED BY <2>1, <2>2
<1>5. CASE FlushPicture
  BY <1>5, BurstSent DEF FlushPicture
<1>6. CASE FlushBorder
  BY <1>6, BurstSent DEF FlushBorder
<1>7. CASE FlushDisplay
  BY <1>7, BurstSent DEF FlushDisplay
<1>8. CASE FlushBreaks
  BY <1>8, DrainEnds DEF FlushBreaks
<1>9. CASE ScrubStep
  <2>1. /\ pc' \in {"slice", "diag"} /\ UNCHANGED <<after, iec, halted>>
        /\ xfer' => ~iec /\ ~halted
    BY <1>9 DEF ScrubStep, MayScrub, guest
  <2> QED BY <2>1
<1>10. CASE EndSlices
  <2>1. /\ xfer' = FALSE /\ UNCHANGED <<after, iec, halted>>
        /\ pc' = "repair" \/ (pc' = "approach" /\ ~iec /\ ~halted)
    BY <1>10 DEF EndSlices, guest
  <2> QED BY <2>1
<1>11. CASE NoApproach
  BY <1>11 DEF NoApproach, StartDrain, guest
<1>12. CASE Approach
  <2>1. xfer' = FALSE /\ halted' = halted /\ ~halted
    BY <1>12 DEF Approach
  <2>2. \/ iec' /\ pc' = "repair" /\ after' = after
        \/ ~iec' /\ pc' = "flush" /\ after' = "sweep"
    BY <1>12 DEF Approach, StartDrain
  <2> QED BY <2>1, <2>2
<1>13. CASE Sweep
  <2>1. pc = "sweep" /\ pc' = "repair" /\ UNCHANGED <<after, iec, halted>>
    BY <1>13 DEF Sweep, guest
  <2> QED BY <2>1
<1>14. CASE Repair
  <2>1. /\ pc' = "hook" /\ UNCHANGED <<after, iec, halted>>
        /\ xfer' => ~iec /\ ~halted
    BY <1>14 DEF Repair, MayRepair, guest
  <2> QED BY <2>1
<1>15. CASE FrameHook
  BY <1>15 DEF FrameHook
<1>16. CASE FrameReset
  BY <1>16 DEF FrameReset
<1>17. CASE UNCHANGED frameVars
  BY <1>17 DEF frameVars, guest
<1> QED
  BY <1>1, <1>2, <1>3, <1>4, <1>5, <1>6, <1>7, <1>8, <1>9, <1>10, <1>11, <1>12,
     <1>13, <1>14, <1>15, <1>16, <1>17 DEF FrameNext

\* No path of runFrame puts a mirror byte on a live serial bus or sends one for
\* a halted mirror (flushMirrorsRasterAware, the scrub, the sweep, the repair).
THEOREM MirrorYieldsToSerial == FrameSpec => []SerialUndisturbed
<1>1. SerialInv => SerialUndisturbed
  BY DEF SerialInv
<1> QED
  BY <1>1, SerialInit, SerialNext, PTL DEF FrameSpec

-----------------------------------------------------------------------------
(* The clock.                                                               *)

LEMMA MinPair ==
  ASSUME NEW a \in Int, NEW b \in Int
  PROVE  Min({a, b}) \in {a, b} /\ Min({a, b}) <= a /\ Min({a, b}) <= b
<1>1. \E x \in {a, b} : \A y \in {a, b} : x <= y
  <2>1. CASE a <= b
    BY <2>1
  <2>2. CASE ~(a <= b)
    BY <2>2
  <2> QED BY <2>1, <2>2
<1> QED BY <1>1 DEF Min

\* Whole cycles of b ticks: rounded down they fit into a, rounded up they
\* exceed it by less than a cycle.
LEMMA CyclesFit ==
  ASSUME NEW a \in Nat, NEW b \in Nat \ {0}
  PROVE  a \div b \in Nat /\ (a \div b) * b <= a
  OBVIOUS

LEMMA CeilBound ==
  ASSUME NEW a \in Nat, NEW b \in Nat \ {0}
  PROVE  Ceil(a, b) \in Nat /\ Ceil(a, b) * b < a + b
<1>1. a + b - 1 \in Nat
  OBVIOUS
<1>2. Ceil(a, b) \in Nat /\ Ceil(a, b) * b <= a + b - 1
  BY <1>1, CyclesFit DEF Ceil
<1>3. Ceil(a, b) * b \in Int
  BY <1>2
<1> QED BY <1>2, <1>3

\* n cycles of t ticks, of which at most c + Over are run.
LEMMA Overrun ==
  ASSUME NEW n \in Nat, NEW c \in Nat, NEW t \in {1, Slow}, n <= c + Over
  PROVE  n * t \in Nat /\ n * t <= c * t + Over * Slow
<1> USE FrameAssumption
<1>1. n * t \in Nat /\ n * t <= (c + Over) * t
  OBVIOUS
<1>2. (c + Over) * t = c * t + Over * t
  OBVIOUS
<1>3. Over * t <= Over * Slow
  OBVIOUS
<1> QED BY <1>1, <1>2, <1>3

\* The slices of a frame, with the drains between them.
InSlices ==
  \/ pc \in {"slice", "scrub", "diag"}
  \/ pc \in {"flush", "hidden", "picture"} /\ after = "scrub"

\* The strengthening: while the slices run, the ticks used are the debt the
\* frame began with and what was executed since, and nothing is owed; a debt is
\* made only after the slices, once, by the approach.
TimeTyped == {used, debt, start, granted} \subseteq Nat /\ slow \in BOOLEAN
TimeKept ==
  /\ InSlices => /\ used = start + granted /\ debt = 0
                 /\ used < FrameTicks + (1 + Over) * Slow
  /\ pc = "diag" => used >= FrameTicks
  /\ pc = "approach" => debt = 0
  /\ debt <= MaxApproach + Over * Slow
TimeInv == TimeTyped /\ TimeKept

LEMMA TimeInit == ASSUME FrameInit PROVE TimeInv
<1>1. 0 <= MaxApproach + Over * Slow
  <2>1. Over * Slow \in Nat /\ MaxApproach \in Nat
    BY FrameAssumption
  <2> QED BY <2>1
<1>2. pc = "frame" /\ used = 0 /\ debt = 0 /\ start = 0 /\ granted = 0
  BY DEF FrameInit
<1>3. slow \in BOOLEAN
  BY Zenon DEF FrameInit
<1>4. TimeKept
  BY <1>1, <1>2 DEF TimeKept, InSlices
<1>5. {used, debt, start, granted} \subseteq Nat
  BY <1>2
<1> QED BY <1>3, <1>4, <1>5 DEF TimeInv, TimeTyped

\* A step of a drain, the scrub apart, spends no emulated time.
LEMMA DrainKeepsTime ==
  ASSUME TimeInv, ReturnsKnown, UNCHANGED <<clock, slow>>,
         pc \in {"flush", "hidden", "picture"},
         \/ pc' \in {"flush", "hidden", "picture"} /\ after' = after
         \/ pc' = after
  PROVE  TimeInv'
  BY DEF clock, TimeInv, TimeTyped, TimeKept, InSlices, ReturnsKnown

LEMMA TimeNext ==
  ASSUME SerialInv, TimeInv, [FrameNext]_frameVars PROVE TimeInv'
<1>0. /\ {FrameTicks, Slow, MaxApproach} \subseteq Nat \ {0} /\ Over \in Nat
      /\ Over * Slow \in Nat /\ MaxApproach + Over * Slow < FrameTicks
      /\ (1 + Over) * Slow = Slow + Over * Slow /\ ReturnsKnown
  BY FrameAssumption DEF SerialInv
<1> USE DEF TimeInv, TimeTyped, TimeKept, InSlices
<1>1. CASE BeginFrame
  <2>1. Min({debt, FrameTicks}) = debt
    <3>1. debt \in Int /\ FrameTicks \in Int /\ debt < FrameTicks
      BY <1>0
    <3>2. Min({debt, FrameTicks}) \in {debt, FrameTicks} /\ Min({debt, FrameTicks}) <= debt
      BY <3>1, MinPair
    <3> QED BY <3>1, <3>2
  <2>2. used' = debt /\ debt' = 0 /\ start' = debt /\ granted' = 0 /\ slow' = slow
    BY <1>1, <2>1, <1>0 DEF BeginFrame, guest
  <2>3. pc' = "slice"
    BY <1>1, <1>0 DEF BeginFrame
  <2> QED BY <2>2, <2>3, <1>0
<1>2. CASE Slice
  <2> DEFINE t == TicksPerCycle
             c == Ceil(FrameTicks - used, t)
  <2>1. t \in {1, Slow} /\ t \in Nat \ {0} /\ FrameTicks - used \in Nat /\ t <= Slow
    BY <1>2, <1>0 DEF Slice, TicksPerCycle
  <2>2. c \in Nat /\ c * t < FrameTicks - used + t
    <3> HIDE DEF t
    <3> QED BY <2>1, CeilBound
  <2>3. Ceil(SliceTicks, t) \in Nat
    BY <2>1, FrameAssumption, CeilBound
  <2>4. PICK ran \in 1 .. Min({c, Ceil(SliceTicks, t)}) + Over :
               used' = used + ran * t /\ granted' = granted + ran * t
    BY <1>2 DEF Slice
  <2> HIDE DEF t, c
  <2>5. Min({c, Ceil(SliceTicks, t)}) \in Int /\ Min({c, Ceil(SliceTicks, t)}) <= c
    BY <2>2, <2>3, MinPair
  <2>6. ran \in Nat /\ ran <= c + Over
    BY <2>2, <2>4, <2>5, <1>0
  <2>7. ran * t \in Nat /\ ran * t <= c * t + Over * Slow
    BY <2>1, <2>2, <2>6, Overrun
  <2>8. c * t \in Int
    BY <2>1, <2>2, <1>0
  <2>9. used' < FrameTicks + (1 + Over) * Slow
    BY <1>0, <2>1, <2>2, <2>4, <2>7, <2>8
  <2>10. /\ UNCHANGED <<debt, start>> /\ slow' \in BOOLEAN /\ pc = "slice"
         /\ pc' = "scrub" \/ (pc' = "flush" /\ after' = "scrub")
    BY <1>2 DEF Slice, GuestRuns
  <2> QED BY <2>4, <2>7, <2>9, <2>10
<1>3. CASE FlushDone
  BY <1>0, <1>3, DrainKeepsTime DEF FlushDone, FlushEnds, guest
<1>4. CASE SampleRaster
  <2>1. /\ UNCHANGED <<clock, slow>> /\ pc = "flush"
        /\ \/ pc' \in {"hidden", "picture"} /\ after' = after
           \/ pc' = after
    BY <1>4 DEF SampleRaster, FlushEnds, guest
  <2> QED BY <2>1, <1>0, DrainKeepsTime
<1>5. CASE FlushPicture \/ FlushBorder \/ FlushDisplay
  <2>1. /\ UNCHANGED <<clock, slow>> /\ pc \in {"hidden", "picture"}
        /\ pc' = "flush" /\ after' = after
    BY <1>5, Zenon DEF FlushPicture, FlushBorder, FlushDisplay, Sends
  <2> QED BY <2>1, <1>0, DrainKeepsTime
<1>6. CASE FlushBreaks
  BY <1>0, <1>6, DrainKeepsTime DEF FlushBreaks, FlushEnds, guest
<1>7. CASE ScrubStep
  <2>1. /\ UNCHANGED <<used, debt, start, granted, slow>> /\ pc = "scrub"
        /\ \/ pc' = "slice"
           \/ pc' = "diag" /\ ~(used < FrameTicks)
    BY <1>7 DEF ScrubStep, clock, guest
  <2> QED BY <2>1, <1>0
<1>8. CASE EndSlices
  <2>1. /\ used' = 0 /\ start' = 0 /\ granted' = 0 /\ UNCHANGED <<debt, slow>>
        /\ pc = "diag" /\ pc' \in {"approach", "repair"}
    BY <1>8 DEF EndSlices, guest
  <2> QED BY <2>1, <1>0
<1>9. CASE NoApproach
  BY <1>9, <1>0 DEF NoApproach, StartDrain, clock, guest
<1>10. CASE Approach
  <2> DEFINE t == TicksPerCycle
  <2>1. t \in {1, Slow}
    BY DEF TicksPerCycle
  <2>2. PICK ticks \in 1 .. MaxApproach :
            \/ debt' = debt /\ slow' = slow
            \/ /\ \E ran \in 1 .. (ticks \div t) + Over : debt' = debt + ran * t
               /\ slow' \in BOOLEAN
    BY <1>10 DEF Approach, RunAhead, GuestRuns, guest
  <2>3. pc = "approach" /\ debt = 0 /\ slow \in BOOLEAN
    BY <1>10 DEF Approach
  <2>4. debt' \in Nat /\ debt' <= MaxApproach + Over * Slow
    <3>1. CASE debt' = debt
      BY <1>0, <2>3, <3>1
    <3>2. CASE \E ran \in 1 .. (ticks \div t) + Over : debt' = debt + ran * t
      <4>1. ticks \in Nat /\ ticks <= MaxApproach
        BY <1>0
      <4>2. ticks \div t \in Nat /\ (ticks \div t) * t <= ticks
        BY <1>0, <2>1, <4>1, CyclesFit
      <4>3. PICK ran \in 1 .. (ticks \div t) + Over : debt' = debt + ran * t
        BY <3>2
      <4> HIDE DEF t
      <4>4. ran \in Nat /\ ran <= (ticks \div t) + Over
        BY <1>0, <4>2
      <4>5. ran * t \in Nat /\ ran * t <= (ticks \div t) * t + Over * Slow
        BY <2>1, <4>2, <4>4, Overrun
      <4>6. (ticks \div t) * t \in Int
        BY <2>1, <4>2, <1>0
      <4> QED BY <1>0, <2>3, <4>1, <4>2, <4>3, <4>5, <4>6
    <3> QED BY <2>2, <3>1, <3>2
  <2>5. /\ UNCHANGED <<used, start, granted>> /\ slow' \in BOOLEAN
        /\ pc' = "repair" \/ (pc' = "flush" /\ after' = "sweep")
    BY <1>10, <2>2, <2>3 DEF Approach, StartDrain
  <2> QED BY <2>4, <2>5
<1>11. CASE Sweep
  BY <1>11, <1>0 DEF Sweep, clock, guest
<1>12. CASE Repair
  <2>1. pc' = "hook" /\ UNCHANGED <<used, debt, start, granted, slow>>
    BY <1>12 DEF Repair, clock, guest
  <2> QED BY <2>1, <1>0
<1>13. CASE FrameHook
  <2>1. pc' = "frame" /\ UNCHANGED <<used, debt, start, granted, slow>>
    BY <1>13 DEF FrameHook, clock
  <2> QED BY <2>1, <1>0
<1>14. CASE FrameReset
  <2>1. pc' = "frame" /\ debt' = 0 /\ slow' \in BOOLEAN /\ UNCHANGED <<used, start, granted>>
    BY <1>14 DEF FrameReset
  <2> QED BY <2>1, <1>0
<1>15. CASE UNCHANGED frameVars
  BY <1>15 DEF frameVars, clock, guest
<1> QED
  BY <1>1, <1>2, <1>3, <1>4, <1>5, <1>6, <1>7, <1>8, <1>9, <1>10, <1>11, <1>12,
     <1>13, <1>14, <1>15 DEF FrameNext

\* What a frame executes and what it began with add up to one frame and at most
\* the overrun of its last slice, and the debt handed on stays below a frame
\* (runFrame's m_FrameTickDebt).
THEOREM NoTimeLost == FrameSpec => []WorkRepaid
<1>1. TimeInv => WorkRepaid
  BY DEF TimeInv, TimeKept, InSlices, WorkRepaid
<1> QED
  BY <1>1, SerialInit, SerialNext, TimeInit, TimeNext, PTL DEF FrameSpec
================================================================================
