------------------------------- MODULE Registers -------------------------------
(***************************************************************************)
(* The SuperCPU's register file and everything it steers in one step: the  *)
(* mirror policy, the boot and KERNAL windows, the SIMM decoder and the    *)
(* pacer (src/Source/SuperCPU/registers.cpp, registers.h), the C64's PLA   *)
(* (src/Source/C64/banking.cpp), and the decoders of an access to bank 0   *)
(* (src/Source/C64/c64_memory.cpp and .h) and to the banks above it        *)
(* (src/Source/SuperCPU/memory_map.cpp, fast_ram.cpp).                     *)
(*                                                                         *)
(* Each decoder answers with the store an access lands in, <<name, cell>>; *)
(* what a store holds is not modelled.  Registers that only appear in      *)
(* reads (version, Jiffy switch, bit 1 of the optimisation register) and   *)
(* the emulator's own $D0BA (module VideoSwitch) are left out.             *)
(***************************************************************************)
EXTENDS Integers, FiniteSets

CONSTANTS
    Addrs,       \* bank-0 addresses a guest touches, one of each decoded range
    Offsets,     \* SIMM offsets a guest touches
    Configs,     \* the machines: [scpu128, romLength, bootEnabled, simmSize]
    OptimWrites, \* values written to the optimisation register, as sets of bits
    PortWrites,  \* <<$00, $01>> values written, as sets of bits
    SIMMConfigs, \* values written to $D078
    MB           \* bytes of a megabyte of SIMM

ASSUME AddressAssumption == Addrs \subseteq Nat /\ \A a \in Addrs : a < 65536
ASSUME SizeAssumption == Offsets \subseteq Nat /\ MB \in Nat \ {0}
ASSUME ValueAssumption ==
    OptimWrites \subseteq SUBSET {0, 2, 6, 7} /\ SIMMConfigs \subseteq 0..7
ASSUME PortAssumption ==
    PortWrites \subseteq (SUBSET {0, 1, 2}) \X (SUBSET {0, 1, 2})
\* config.cpp and init(): 128 mode needs both halves of the ROM image.
ASSUME ConfigAssumption ==
    \A c \in Configs :
        /\ c.scpu128 \in BOOLEAN /\ c.bootEnabled \in BOOLEAN /\ c.romLength \in Nat
        /\ c.simmSize \in {0, MB, 4 * MB, 8 * MB, 16 * MB}
        /\ c.scpu128 => c.romLength >= 131072

VARIABLES
    config,             \* the machine, fixed at power-on
    sys1MHz, soft1MHz,  \* m_Sys1MHz, m_Soft1MHz
    switchSlow,         \* m_SwitchSlow
    hwRegs,             \* m_HWRegsEnabled
    bootmap,            \* m_Bootmap
    dosExt, ramLink,    \* m_DOSExt, m_RAMLink
    optim,              \* the bits of m_Optim that are decoded: 7, 6, 2 and 0
    simmConfig,         \* m_SIMMConfig & 7
    speedChanged,       \* m_SpeedChanged
    policy, excludeZP,  \* the write buffer's m_OptMode and m_ExcludeZeroPageStack
    bootmapActive,      \* CC64Memory::m_BootmapActive
    kernalBase,         \* CC64Memory::m_KernalShadowBase
    decodeSize,         \* m_DecodeMask + 1
    ddr, port,          \* bits 0-2 of m_Port00 and m_Port01, as sets
    bankMode,           \* m_BankMode: the lines that are high
    pacedFast,          \* m_SelectedEmulatedHz is the turbo clock
    runBreak,           \* the core was asked to end its run
    emulation,          \* the 65816's E flag
    running             \* the core is inside run(); otherwise the frame hook

speedVars  == <<sys1MHz, soft1MHz, switchSlow>>
gateVars   == <<hwRegs, bootmap, dosExt, ramLink>>
mirrorVars == <<optim, policy, excludeZP>>
windowVars == <<bootmapActive, kernalBase>>
simmVars   == <<simmConfig, decodeSize>>
plaVars    == <<ddr, port, bankMode>>
paceVars   == <<speedChanged, pacedFast, runBreak>>
coreVars   == <<config, emulation, running>>
vars == <<speedVars, gateVars, mirrorVars, windowVars, simmVars, plaVars, paceVars, coreVars>>

--------------------------------------------------------------------------------
(* The register file's derived state.                                         *)

FastMode == ~(sys1MHz \/ soft1MHz \/ (switchSlow /\ ~hwRegs))
InterruptRerouteRequested == hwRegs \/ sys1MHz \/ dosExt \/ ramLink
BootmapUsable == config.bootEnabled /\ config.romLength >= 65536

\* applyOptimisation: bits 7, 6, 2, 0 select a policy and the page 0/1 exclusion.
PolicyOf(bits) ==
    IF {6, 7} \subseteq bits THEN IF 0 \in bits THEN "default" ELSE "none"
    ELSE IF 7 \in bits THEN IF 2 \in bits THEN "full" ELSE "basic"
    ELSE IF 6 \in bits THEN IF 2 \in bits THEN "vicbank3" ELSE "vicbank1"
    ELSE IF 2 \in bits THEN "vicbank0" ELSE "vicbank2"
ExcludesZP(bits) == 0 \in bits /\ ({6, 7} \subseteq bits \/ bits \cap {2, 6, 7} = {2})

ApplyOptimisation(bits) ==
    optim' = bits /\ policy' = PolicyOf(bits) /\ excludeZP' = ExcludesZP(bits)
ApplyBootmap(on) ==
    bootmap' = on /\ bootmapActive' = IF BootmapUsable THEN on ELSE bootmapActive
\* Mutant: the window stays when the gate closes.
ApplyKernalShadowOnOpen(open) ==
    hwRegs' = open /\ kernalBase' = IF open THEN "KS" ELSE kernalBase

ApplyKernalShadow(open) == hwRegs' = open /\ kernalBase' = IF open THEN "KS" ELSE "KT"

\* CFastRAM::setConfig.
ConfiguredSize(c) == CASE c = 0 -> MB [] c = 1 -> 4 * MB [] c = 2 -> 8 * MB [] OTHER -> 16 * MB
SetConfig(c) ==
    /\ simmConfig' = c
    /\ decodeSize' = IF config.simmSize # 0 /\ config.simmSize < ConfiguredSize(c)
                     THEN config.simmSize ELSE ConfiguredSize(c)

\* Mutant: only the two software requests are compared, not the switch.
NoteSpeedChangeRequests ==
    IF (sys1MHz' \/ soft1MHz') # (sys1MHz \/ soft1MHz)
    THEN speedChanged' = TRUE /\ pacedFast' = FastMode' /\ runBreak' = TRUE
    ELSE UNCHANGED paceVars

\* noteSpeedChange and the hook: setPacing at once, and the run ends.
NoteSpeedChange ==
    IF FastMode' # FastMode
    THEN speedChanged' = TRUE /\ pacedFast' = FastMode' /\ runBreak' = TRUE
    ELSE UNCHANGED paceVars

--------------------------------------------------------------------------------
(* Register writes of a running guest.                                        *)

RegWrite == running /\ ~runBreak /\ UNCHANGED <<plaVars, coreVars, switchSlow, ramLink>>

\* $D072, $D073, $D07A, $D07B, $D079: never gated.
WriteSpeedStrobe(sys, soft) ==
    /\ RegWrite
    /\ (sys = sys1MHz \/ soft = soft1MHz)
    /\ sys1MHz' = sys /\ soft1MHz' = soft
    /\ UNCHANGED <<hwRegs, bootmap, dosExt, mirrorVars, windowVars, simmVars>>
    /\ NoteSpeedChange

\* $D07E, and $D07D/$D07F.
WriteGate(open) ==
    /\ RegWrite
    /\ ApplyKernalShadow(open)
    /\ UNCHANGED <<sys1MHz, soft1MHz, bootmap, dosExt, mirrorVars, bootmapActive, simmVars>>
    /\ NoteSpeedChange

\* $D0B2: bit 6 is the system request, and bit 7 clear closes the gate.
WriteStatus(sys, keepOpen) ==
    /\ RegWrite /\ hwRegs
    /\ sys1MHz' = sys
    /\ IF keepOpen THEN UNCHANGED <<hwRegs, kernalBase>> ELSE ApplyKernalShadow(FALSE)
    /\ UNCHANGED <<soft1MHz, bootmap, dosExt, mirrorVars, bootmapActive, simmVars>>
    /\ NoteSpeedChange

\* $D0B8: bit 7 is the software request.
WriteSpeedFlags(soft) ==
    /\ RegWrite /\ hwRegs
    /\ soft1MHz' = soft
    /\ UNCHANGED <<sys1MHz, hwRegs, bootmap, dosExt, mirrorVars, windowVars, simmVars>>
    /\ NoteSpeedChange

\* $D074-$D077: the address supplies bits 7 and 6, and the others are cleared.
WriteLegacyOptim(bits) ==
    /\ RegWrite /\ hwRegs
    /\ ApplyOptimisation(bits \cap {6, 7})
    /\ UNCHANGED <<sys1MHz, soft1MHz, hwRegs, bootmap, dosExt, windowVars, simmVars>>
    /\ NoteSpeedChange

\* $D0B3 writes every bit, $D0B4 bits 7 and 6 only.
WriteOptim(bits, v2) ==
    /\ RegWrite /\ hwRegs
    /\ ApplyOptimisation(IF v2 THEN bits ELSE (optim \ {6, 7}) \cup (bits \cap {6, 7}))
    /\ UNCHANGED <<sys1MHz, soft1MHz, hwRegs, bootmap, dosExt, windowVars, simmVars>>
    /\ NoteSpeedChange

\* $D0B6 (off) and $D0B7 (on).
WriteBootmap(on) ==
    /\ RegWrite /\ hwRegs
    /\ ApplyBootmap(on)
    /\ UNCHANGED <<sys1MHz, soft1MHz, hwRegs, dosExt, mirrorVars, kernalBase, simmVars>>
    /\ NoteSpeedChange

\* $D0BC and $D0BE need the gate; $D0BD and $D0BF do not.
WriteDOSExt(on) ==
    /\ RegWrite /\ (on => hwRegs)
    /\ dosExt' = on
    /\ UNCHANGED <<sys1MHz, soft1MHz, hwRegs, bootmap, mirrorVars, windowVars, simmVars>>
    /\ NoteSpeedChange

\* $D078.
WriteSIMMConfig(c) ==
    /\ RegWrite /\ hwRegs
    /\ SetConfig(c)
    /\ UNCHANGED <<sys1MHz, soft1MHz, hwRegs, bootmap, dosExt, mirrorVars, windowVars>>
    /\ NoteSpeedChange

\* $DF7E/$DF7F: seen on their way to the cartridge port, outside the register block.
WriteRAMLink(on) ==
    /\ running /\ ~runBreak
    /\ ramLink' = on
    /\ UNCHANGED <<speedVars, hwRegs, bootmap, dosExt, mirrorVars, windowVars, simmVars,
                   plaVars, paceVars, coreVars>>

\* setSpeedSwitchAllowsTurbo.
SetSpeedSwitch(slow) ==
    /\ switchSlow' = slow
    /\ UNCHANGED <<sys1MHz, soft1MHz, gateVars, mirrorVars, windowVars, simmVars, plaVars, coreVars>>
    /\ NoteSpeedChange

--------------------------------------------------------------------------------
(* The PLA and the decoders.                                                  *)

\* c64PortEffective; without a cartridge /GAME and /EXROM are high.
BankMode(d, p) == (p \cap d) \cup ({0, 1, 2} \ d)

\* c64BankingInit for the modes with both cartridge lines high.
Region(a, mode) ==
    LET page == a \div 4096
        loram == 0 \in mode   hiram == 1 \in mode   charen == 2 \in mode
    IN  CASE page \in {10, 11} /\ loram /\ hiram -> "basic"
          [] page = 13 /\ (loram \/ hiram) -> IF charen THEN "io" ELSE "char"
          [] page \in {14, 15} /\ hiram -> "kernal"
          [] OTHER -> "ram"

In(a, lo, hi) == lo <= a /\ a <= hi
MMURegister(a) == In(a, \hD500, \hD50B) \/ In(a, \hD600, \hD601) \/ In(a, \hFF00, \hFF04)

DosExtensionMapsBank1(a) ==
    (In(a, \h1000, \h5FFF) \/ In(a, \h8000, \h9FFF)) /\ ~bootmapActive /\ dosExt

\* ioRead of the status block, as the set of bits that read one (bit 1 and the
\* version and switch registers left out); the low bits of optim are in every read.
Bit(n, on) == IF on THEN {n} ELSE {}
ReadRegister(r) ==
    (optim \ {6, 7}) \cup
    CASE r = \hD0B2 -> Bit(7, hwRegs) \cup Bit(6, sys1MHz)
      [] r \in {\hD0B3, \hD0B4} -> optim \cap {6, 7}
      [] r = \hD0B6 -> Bit(7, emulation)
      [] r \in {\hD0B8, \hD0B9} ->
           Bit(7, soft1MHz) \cup Bit(6, soft1MHz \/ (switchSlow /\ ~hwRegs) \/ sys1MHz)
      [] r \in \hD0BC..\hD0BF -> Bit(7, dosExt) \cup Bit(6, ramLink)
      [] OTHER -> {}

\* CSuperCPURegisters::ioRead, and what it leaves to the host.
IOReadStore(a) ==
    IF In(a, \hD800, \hDBFF) \/ In(a, \hD200, \hD3FF) THEN <<"bank1", a>>
    ELSE IF In(a, \hD0B0, \hD0BF) THEN <<"register", a>> ELSE <<"bus", a>>

\* CC64Memory::read8.
Read8(a) ==
    IF a <= 1 THEN <<"port", a>>
    ELSE IF DosExtensionMapsBank1(a) THEN <<"bank1", a>>
    ELSE IF config.scpu128 /\ MMURegister(a) THEN <<"bus", a>>
    ELSE IF bootmapActive /\ config.scpu128 /\ config.romLength >= 131072 /\ In(a, \h1000, \h5FFF)
         THEN <<"rom", 65536 + a>>
    ELSE IF bootmapActive /\ (In(a, \h8000, \hCFFF) \/ a >= \hE000) THEN <<"rom", a>>
    ELSE CASE Region(a, bankMode) = "ram" -> <<"ram", a>>
           [] Region(a, bankMode) = "basic" -> <<"bank1", a>>
           [] Region(a, bankMode) = "kernal" ->
                <<"bank1", IF kernalBase = "KS" THEN a - 32768 ELSE a>>
           [] Region(a, bankMode) = "char" -> <<"char", a>>
           [] Region(a, bankMode) = "io" -> IOReadStore(a)

\* Mutant: the inline read trusts the PLA while the boot ROM is mapped.
ReadFastUnderBootmap(a) ==
    IF DosExtensionMapsBank1(a) THEN <<"bank1", a>>
    ELSE IF a > 1 /\ Region(a, bankMode) = "ram" THEN <<"ram", a>> ELSE Read8(a)

\* CC64Memory::readFast, the inline path every read of the core takes.
ReadFast(a) ==
    IF DosExtensionMapsBank1(a) THEN <<"bank1", a>>
    ELSE IF a > 1 /\ ~bootmapActive /\ Region(a, bankMode) = "ram" THEN <<"ram", a>>
    ELSE Read8(a)

\* CSuperCPURegisters::ioWrite for the ranges that are not register strobes.
IOWriteStore(a) ==
    IF In(a, \hD200, \hD3FF)
    THEN IF hwRegs \/ a = \hD27E THEN <<"bank1", a>> ELSE <<"none", a>>
    ELSE IF In(a, \hD071, \hD07F) \/ In(a, \hD0B0, \hD0BF) THEN <<"register", a>>
    ELSE <<"bus", a>>

\* CC64Memory::write8.
Write8(a) ==
    IF a <= 1 THEN <<"port", a>>
    ELSE IF DosExtensionMapsBank1(a) THEN <<"bank1", a>>
    ELSE IF config.scpu128 /\ MMURegister(a) THEN <<"bus", a>>
    ELSE IF Region(a, bankMode) = "io" THEN IOWriteStore(a) ELSE <<"ram", a>>

\* CC64Memory::writeFast.
WriteFast(a) ==
    IF DosExtensionMapsBank1(a) THEN <<"bank1", a>>
    ELSE IF a > 1 /\ Region(a, bankMode) # "io" THEN <<"ram", a>> ELSE Write8(a)

\* interruptRerouteActive and rerouteVector: where a vector at a is fetched.
RerouteActive ==
    /\ config.romLength # 0 /\ ~bootmapActive /\ Region(\hFF00, bankMode) = "kernal"
    /\ ~emulation \/ InterruptRerouteRequested
VectorStore(a) == IF RerouteActive THEN <<"rom", a % config.romLength>> ELSE ReadFast(a)

\* readAbove/writeAbove: banks $02 up, the window at $F6 and the ROM at $F8.
SIMMCell(o) == o % decodeSize
ReadAbove(o, window) ==
    IF config.simmSize # 0 /\ (window \/ o < config.simmSize) THEN <<"simm", SIMMCell(o)>> ELSE <<"open", o>>
WriteAbove(o, window) ==
    IF config.simmSize # 0 /\ IF window THEN hwRegs ELSE o < config.simmSize
    THEN <<"simm", SIMMCell(o)>> ELSE <<"none", o>>

--------------------------------------------------------------------------------
(* Accesses that change decoder state.                                        *)

\* A write to $00 or $01, in bank 0 or through bank 1's alias of it.
WritePort(d, p) ==
    /\ running /\ ~runBreak
    /\ ddr' = d /\ port' = p /\ bankMode' = BankMode(d, p)
    /\ UNCHANGED <<speedVars, gateVars, mirrorVars, windowVars, simmVars, paceVars, coreVars>>

\* XCE.
ExchangeEmulation ==
    /\ running /\ ~runBreak
    /\ emulation' = ~emulation
    /\ UNCHANGED <<speedVars, gateVars, mirrorVars, windowVars, simmVars, plaVars, paceVars, config, running>>

--------------------------------------------------------------------------------
(* The frame loop around the guest.                                           *)

\* The start of a slice in runFrame: consumeSpeedChanged and setPacing.
StartSlice ==
    /\ ~running /\ running' = TRUE /\ runBreak' = FALSE
    /\ speedChanged' = FALSE
    /\ pacedFast' = IF speedChanged THEN FastMode ELSE pacedFast
    /\ UNCHANGED <<speedVars, gateVars, mirrorVars, windowVars, simmVars, plaVars, config, emulation>>

\* run() returns: its budget is spent or a break was asked for.
EndSlice ==
    /\ running /\ running' = FALSE
    /\ UNCHANGED <<speedVars, gateVars, mirrorVars, windowVars, simmVars, plaVars, paceVars, config, emulation>>

\* CSuperCPU::reset from the frame hook: CC64Memory::reset, the windows, then
\* CSuperCPURegisters::reset and the core.  No speed hook: the flag is set instead.
Reset ==
    /\ ~running
    /\ sys1MHz' = FALSE /\ soft1MHz' = FALSE
    /\ ApplyKernalShadow(config.scpu128)
    /\ bootmap' = TRUE /\ bootmapActive' = BootmapUsable
    /\ dosExt' = FALSE /\ ramLink' = FALSE
    /\ ApplyOptimisation(IF config.scpu128 THEN {0, 6, 7} ELSE {0, 2, 6, 7})
    /\ SetConfig(4)
    /\ ddr' = {0, 1, 2} /\ port' = {0, 1, 2} /\ bankMode' = {0, 1, 2}
    /\ emulation' = TRUE
    /\ speedChanged' = TRUE
    /\ UNCHANGED <<switchSlow, pacedFast, runBreak, config, running>>

\* After init(), whose last act is a reset, with the pacer armed before it.
Init ==
    /\ config \in Configs
    /\ sys1MHz = FALSE /\ soft1MHz = FALSE /\ switchSlow = FALSE
    /\ hwRegs = config.scpu128 /\ kernalBase = (IF config.scpu128 THEN "KS" ELSE "KT")
    /\ bootmap = TRUE /\ bootmapActive = BootmapUsable
    /\ dosExt = FALSE /\ ramLink = FALSE
    /\ optim = (IF config.scpu128 THEN {0, 6, 7} ELSE {0, 2, 6, 7})
    /\ policy = "default" /\ excludeZP = TRUE
    /\ simmConfig = 4 
    /\ decodeSize = (IF config.simmSize # 0 THEN config.simmSize ELSE 16 * MB)
    /\ ddr = {0, 1, 2} /\ port = {0, 1, 2} /\ bankMode = {0, 1, 2}
    /\ pacedFast = TRUE /\ runBreak = FALSE /\ speedChanged = TRUE
    /\ emulation = TRUE /\ running = FALSE

Next ==
    \/ \E b, c \in BOOLEAN : WriteSpeedStrobe(b, c) \/ WriteStatus(b, c)
    \/ \E b \in BOOLEAN : \/ WriteGate(b) \/ WriteSpeedFlags(b) \/ WriteBootmap(b)
                          \/ WriteDOSExt(b) \/ WriteRAMLink(b) \/ SetSpeedSwitch(b)
    \/ \E bits \in OptimWrites : WriteLegacyOptim(bits) \/ \E v2 \in BOOLEAN : WriteOptim(bits, v2)
    \/ \E c \in SIMMConfigs : WriteSIMMConfig(c)
    \/ \E w \in PortWrites : WritePort(w[1], w[2])
    \/ ExchangeEmulation \/ StartSlice \/ EndSlice \/ Reset

Spec == Init /\ [][Next]_vars
--------------------------------------------------------------------------------
(* What must hold.                                                            *)

\* The windows the decoders read are the ones the registers last selected:
\* the KS image exactly while the register bank is open, the boot ROM exactly
\* while it is selected and there is an image to map.  The core fetches its
\* next instruction through them, so no write may leave one behind.  Its
\* vectors too: an accelerator that claims its interrupts gets them from its
\* EPROM, through the boot window or the reroute, unless DRAM is banked in.
WindowsFollowRegisters ==
    /\ kernalBase = "KS" <=> hwRegs
    /\ bootmapActive <=> bootmap /\ BootmapUsable
    /\ config.romLength >= 65536 /\ (~emulation \/ InterruptRerouteRequested)
         /\ (bootmapActive \/ Region(\hFFFE, bankMode) = "kernal")
       => \A v \in Addrs : v >= \hFFE4 => VectorStore(v) = <<"rom", v>>

\* While the guest runs, the pacer is at the speed $D0B8 reports: three sources
\* ask for 1 MHz, one of them counts only while the gate is closed, and a reset
\* restores the registers without calling the speed hook.
ReportedSpeedIsPaced ==
    running => (pacedFast <=> 6 \notin ReadRegister(\hD0B8))

\* Every path to a byte finds the same store.  The inline paths pick the one the
\* full decoders pick, for every address and every combination of port, windows
\* and DOS extension (the registers of the 8722 in native C128 mode excepted: see
\* the claim below).  A byte written at its linear address is the one both that
\* address and the window at $F6 read back, whatever size $D078 selects and
\* however small the card.
PathsAgree ==
    /\ \A a \in Addrs : ~(config.scpu128 /\ MMURegister(a)) =>
           ReadFast(a) = Read8(a) /\ WriteFast(a) = Write8(a)
    /\ \A o \in Offsets : WriteAbove(o, FALSE)[1] = "simm" =>
           /\ ReadAbove(o, TRUE) = WriteAbove(o, FALSE)
           /\ ReadAbove(o, FALSE) = WriteAbove(o, FALSE)

\* Claim (c64_memory.cpp:599-602): in native C128 mode the 8722's registers are
\* decoded by the host whatever the PLA and the boot ROM say.
MMUAlwaysVisible ==
    config.scpu128 => \A a \in Addrs : MMURegister(a) /\ ~DosExtensionMapsBank1(a)
                     => ReadFast(a)[1] = "bus" /\ WriteFast(a)[1] = "bus"
================================================================================
