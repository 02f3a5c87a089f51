-------------------------------- MODULE REU --------------------------------
(***************************************************************************)
(* The RAM expansion unit (Source/REU/reu.cpp, reu.h) and its wiring into  *)
(* the memory layer (reu_wiring.h, CSuperCPU::init and the $FF00 hook).    *)
(*                                                                         *)
(* executeTransfer() moves one byte per step here, because every byte goes *)
(* through the ordinary memory path: a fetch that runs over $FF00 calls    *)
(* noteFF00Write() from inside the transfer.  A register byte has Radix    *)
(* values, so the C64 has Radix^2 bytes and a length of zero means that.   *)
(*                                                                         *)
(* A unit is fitted (init() with a size); a machine reset does not reach   *)
(* the unit.  The guest keeps I/O out of the target of a transfer: one     *)
(* that lands on the unit's own registers would re-enter executeTransfer.  *)
(***************************************************************************)
EXTENDS Integers, FiniteSets

CONSTANTS Radix, BankValues, TopSpace, Fitted, Trigger, C64Init, ExpInit,
          Stores, Commands, Controls, Masks, Bytes,
          MaxWrites    \* register writes and stores of a program: bounds the model

VARIABLES
    c64,           \* the C64's memory, behind reuHostRead and reuHostWrite
    exp,           \* m_RAM
    live,          \* m_C64Base, m_REUBase, m_Length
    shadow,        \* m_C64Shadow, m_REUShadow, m_LengthShadow
    cmd,           \* m_Command: type, autoload, execute
    ctl,           \* m_AddressControl
    mask,          \* m_IRQMask
    status,        \* m_IRQPending, m_EndOfBlock, m_Fault
    pending,       \* m_PendingFF00
    run,           \* the locals of executeTransfer while it runs
    nested,        \* a transfer was started from inside a transfer
    start,         \* history: the memories when the transfer began
    writes         \* writes made so far

vars == <<c64, exp, live, shadow, cmd, ctl, mask, status, pending, run, nested, start, writes>>

Space == Radix * Radix

\* What a program writes to a register is one byte, both memories are there in
\* full, and a command has one of the four types.  (The code fits a power of
\* two, whose mask is the remainder below.)
ASSUME UnitAssumption ==
    /\ {Radix, BankValues, TopSpace, Fitted} \subseteq Nat \ {0}
    /\ C64Init = [a \in 0 .. Space - 1 |-> C64Init[a]]
    /\ ExpInit = [o \in 0 .. Fitted - 1 |-> ExpInit[o]]
    /\ Bytes \subseteq 0 .. Radix - 1
    /\ \A c \in Commands : /\ c.type \in {"stash", "fetch", "swap", "verify"}
                            /\ {c.autoload, c.execute, c.now} \subseteq BOOLEAN

AddressMask(x) == x % Fitted

Idle == [active |-> FALSE, remaining |-> 0, c64 |-> 0, reu |-> 0, fault |-> FALSE]

\* CREU::reset after init(): the registers, not the expansion's contents.
Reset ==
    /\ c64 = C64Init /\ exp = ExpInit
    /\ live = [c64 |-> 0, reu |-> 0, length |-> 0] /\ shadow = live
    /\ cmd = [type |-> "stash", autoload |-> FALSE, execute |-> FALSE]
    /\ ctl = {} /\ mask = {} /\ status = {} /\ pending = FALSE
    /\ run = Idle /\ nested = FALSE
    /\ start = <<c64, exp>>
    /\ writes = 0

-----------------------------------------------------------------------------
\* executeTransfer().

\* Mutant: a length of zero moves nothing but one wrapped byte.
LocalsZeroIsOne == [active |-> TRUE, remaining |-> IF live.length = 0 THEN 1 ELSE live.length,
                    c64 |-> live.c64, reu |-> live.reu, fault |-> FALSE]
\* The locals at entry; a length of zero means the whole space.
Locals == [active |-> TRUE, remaining |-> IF live.length = 0 THEN Space ELSE live.length,
           c64 |-> live.c64, reu |-> live.reu, fault |-> FALSE]

\* Mutant: entry leaves a command that was armed before in place.
BeginKeepsPending(memory) ==
    /\ run' = Locals
    /\ start' = <<memory, exp>>
    /\ pending' = pending
\* Entry: whatever was armed is dropped before the first byte moves.
Begin(memory) ==
    /\ run' = Locals
    /\ start' = <<memory, exp>>
    /\ pending' = FALSE

\* One byte of each transfer type: the C64's memory, the expansion's and
\* whether a verify failed.
Byte ==
    LET a == run.c64
        o == AddressMask(run.reu)
    IN  CASE cmd.type = "stash" -> <<c64, [exp EXCEPT ![o] = c64[a]], FALSE>>
          [] cmd.type = "fetch" -> <<[c64 EXCEPT ![a] = exp[o]], exp, FALSE>>
          [] cmd.type = "swap" -> <<[c64 EXCEPT ![a] = exp[o]], [exp EXCEPT ![o] = c64[a]], FALSE>>
          [] cmd.type = "verify" -> <<c64, exp, c64[a] # exp[o]>>

\* reuHostWrite reaches write8, whose hook sees a store to $FF00.
HostWrites == cmd.type \in {"fetch", "swap"}
NoteFF00Inside == HostWrites /\ run.c64 = Trigger /\ pending

\* One round of the loop.  A mismatch stops before the addresses advance.
MoveByte ==
    /\ run.active /\ run.remaining > 0 /\ ~run.fault
    /\ c64' = Byte[1]
    /\ exp' = Byte[2]
    /\ run' = [run EXCEPT !.remaining = @ - 1, !.fault = Byte[3],
                          !.c64 = IF Byte[3] \/ "c64" \in ctl THEN @ ELSE (@ + 1) % Space,
                          !.reu = IF Byte[3] \/ "reu" \in ctl THEN @ ELSE @ + 1]
    /\ nested' = (nested \/ NoteFF00Inside)
    /\ pending' = (pending /\ ~NoteFF00Inside)
    /\ UNCHANGED <<live, shadow, cmd, ctl, mask, status, start, writes>>

\* finishTransfer(): the outcome replaces the last one, an interrupt stays.
FinishTransfer(fault) ==
    LET what == IF fault THEN "fault" ELSE "done"
    IN  /\ status' = (status \cap {"irq"}) \cup {what}
                     \cup (IF {"on", what} \subseteq mask THEN {"irq"} ELSE {})
        /\ cmd' = [cmd EXCEPT !.execute = FALSE]

\* The end of executeTransfer().
EndTransfer ==
    /\ run.active /\ (run.remaining = 0 \/ run.fault)
    /\ live' = IF cmd.autoload THEN shadow
               ELSE [c64 |-> run.c64, reu |-> run.reu % TopSpace,
                     length |-> IF run.fault THEN (run.remaining + 1) % Space ELSE 1]
    /\ FinishTransfer(run.fault)
    /\ run' = Idle
    /\ start' = <<c64, exp>>
    /\ UNCHANGED <<c64, exp, shadow, ctl, mask, pending, nested, writes>>

-----------------------------------------------------------------------------
\* The register file and the guest.

Program == ~run.active /\ writes < MaxWrites /\ writes' = writes + 1

\* $DF01.  A command without the execute bit leaves an armed one armed.
WriteCommand(c) ==
    /\ Program
    /\ cmd' = [type |-> c.type, autoload |-> c.autoload, execute |-> c.execute]
    /\ IF c.execute /\ c.now THEN Begin(c64)
       ELSE /\ pending' = (pending \/ c.execute)
            /\ UNCHANGED <<run, start>>
    /\ UNCHANGED <<c64, exp, live, shadow, ctl, mask, status, nested>>

Low(x, b) == x - (x % Radix) + b
High(x, b) == x - (x % Space) + (x % Radix) + Radix * b
Banked(x, b) == (x % Space) + Space * (b % BankValues)

\* $DF02 to $DF08: the live register and its shadow.
WriteAddress(field, v) ==
    /\ Program
    /\ live' = [live EXCEPT ![field] = v]
    /\ shadow' = [shadow EXCEPT ![field] = v]
    /\ UNCHANGED <<c64, exp, cmd, ctl, mask, status, pending, run, nested, start>>

WriteControl(k) ==
    /\ Program /\ ctl' = k
    /\ UNCHANGED <<c64, exp, live, shadow, cmd, mask, status, pending, run, nested, start>>

WriteMask(k) ==
    /\ Program /\ mask' = k
    /\ UNCHANGED <<c64, exp, live, shadow, cmd, ctl, status, pending, run, nested, start>>

\* $DF00: the read is the acknowledge.
ReadStatus ==
    /\ ~run.active /\ status' = {}
    /\ UNCHANGED <<c64, exp, live, shadow, cmd, ctl, mask, pending, run, nested, start, writes>>

\* A store of the program.  noteRAMWriteSideEffects calls the unit after
\* the byte is in memory, whether or not it changed.
HostStore(s) ==
    LET memory == [c64 EXCEPT ![s[1]] = s[2]]
    IN  /\ Program
        /\ c64' = memory
        /\ IF s[1] = Trigger /\ pending THEN Begin(memory)
           ELSE /\ start' = <<memory, exp>>
                /\ UNCHANGED <<run, pending>>
        /\ UNCHANGED <<exp, live, shadow, cmd, ctl, mask, status, nested>>

WriteRegister(b) ==
    \/ \E f \in {"c64", "reu", "length"} :
          WriteAddress(f, Low(live[f], b)) \/ WriteAddress(f, High(live[f], b))
    \/ WriteAddress("reu", Banked(live.reu, b))

Init == Reset

Next ==
    \/ MoveByte \/ EndTransfer \/ ReadStatus
    \/ \E c \in Commands : WriteCommand(c)
    \/ \E b \in Bytes : WriteRegister(b)
    \/ \E k \in Controls : WriteControl(k)
    \/ \E k \in Masks : WriteMask(k)
    \/ \E s \in Stores : HostStore(s)

Spec == Init /\ [][Next]_vars

-----------------------------------------------------------------------------
Event == IF "done" \in status THEN "done" ELSE IF "fault" \in status THEN "fault" ELSE "none"

Abstract == INSTANCE REUAbstract WITH
    c64 <- start[1], exp <- start[2], reg <- live, command <- cmd, control <- ctl,
    armed <- pending, busy <- run.active, event <- Event, irq <- "irq" \in status

\* The byte loop with its wraps, early stop, autoload and status updates is
\* the one-step block transfer the guest was promised, whatever sequence of
\* register writes, triggers and acknowledges came before.
ImplementsBlockTransfer == Abstract!Spec

\* A transfer is never started from inside a transfer, though its own bytes
\* may land on the trigger; an interrupt always has a cause to report.
OneTransferAtATime ==
    /\ ~nested
    /\ "irq" \in status => status \cap {"done", "fault"} # {}
=============================================================================
