---------------------------- MODULE REUAbstract ----------------------------
(***************************************************************************)
(* What the RAM expansion unit promises the guest: a command moves a whole *)
(* block between the C64's memory and the expansion in one step, and       *)
(* leaves the registers and the status saying what it did.  The byte loop  *)
(* of Source/REU/reu.cpp (REU.tla) is shown to implement this.             *)
(***************************************************************************)
EXTENDS Integers, FiniteSets, FiniteSetsExt

CONSTANTS
    Radix,         \* values of a register byte; an address is two of them
    BankValues,    \* values the bank register keeps (three bits)
    TopSpace,      \* where the live expansion address wraps (23 bits)
    Fitted,        \* fitted expansion bytes; the unit ignores higher lines
    Trigger,       \* the address $FF00
    C64Init, ExpInit,   \* memory contents at power-up
    Stores,        \* the plain stores a program makes: <<address, value>>
    Commands, Controls, Masks, Bytes  \* the values it writes to registers

VARIABLES
    c64, exp,      \* the two memories
    reg,           \* c64, reu, length: the live addresses and length
    shadow,        \* the same as last written by the program
    command,       \* type, autoload; execute until the transfer has run
    control,       \* which address is fixed
    mask,          \* interrupt enable and causes: "on", "done", "fault"
    armed,         \* a command waits for a write to $FF00
    busy,          \* a command is running
    event,         \* what the status has to tell: "none", "done", "fault"
    irq            \* and whether it interrupts

vars == <<c64, exp, reg, shadow, command, control, mask, armed, busy, event, irq>>

Space == Radix * Radix
Size(length) == IF length = 0 THEN Space ELSE length

\* The locations of the k-th byte of the transfer.
C64At(k) == IF "c64" \in control THEN reg.c64 ELSE (reg.c64 + k) % Space
ExpAddress(k) == IF "reu" \in control THEN reg.reu ELSE reg.reu + k
ExpAt(k) == ExpAddress(k) % Fitted

Block == 0 .. Size(reg.length) - 1
Over(where(_)) == {where(k) : k \in Block}
LastOn(where(_), x) == Max({k \in Block : where(k) = x})

Stash ==
    /\ exp' = [o \in DOMAIN exp |-> IF o \in Over(ExpAt) THEN c64[C64At(LastOn(ExpAt, o))] ELSE exp[o]]
    /\ c64' = c64

Fetch ==
    /\ c64' = [a \in DOMAIN c64 |-> IF a \in Over(C64At) THEN exp[ExpAt(LastOn(C64At, a))] ELSE c64[a]]
    /\ exp' = exp

\* How often a value occurs in the two memories together.
Count(c, e, v) == Cardinality({a \in DOMAIN c : c[a] = v}) + Cardinality({o \in DOMAIN e : e[o] = v})

\* The two blocks change places.  Where the transfer comes back to a byte it
\* already exchanged, no byte is lost or made and none outside is touched.
Swap ==
    /\ DOMAIN c64' = DOMAIN c64 /\ DOMAIN exp' = DOMAIN exp
    /\ \A a \in DOMAIN c64 \ Over(C64At) : c64'[a] = c64[a]
    /\ \A o \in DOMAIN exp \ Over(ExpAt) : exp'[o] = exp[o]
    /\ \A v \in {c64[a] : a \in DOMAIN c64} \cup {exp[o] : o \in DOMAIN exp} :
          Count(c64', exp', v) = Count(c64, exp, v)
    /\ Cardinality(Over(C64At)) = Cardinality(Block) /\ Cardinality(Over(ExpAt)) = Cardinality(Block)
         => \A k \in Block : c64'[C64At(k)] = exp[ExpAt(k)] /\ exp'[ExpAt(k)] = c64[C64At(k)]

Mismatches == {k \in Block : c64[C64At(k)] # exp[ExpAt(k)]}

\* Autoload brings the registers back to what the program wrote.  Without it
\* they are where the transfer ended, and after a mismatch they name the
\* offending byte and count the bytes from it on.
Leave(done, fault) ==
    reg' = IF command.autoload THEN shadow
           ELSE [c64 |-> C64At(done), reu |-> ExpAddress(done) % TopSpace,
                 length |-> IF fault THEN (Size(reg.length) - done) % Space ELSE 1]

Transfer ==
    LET fault == command.type = "verify" /\ Mismatches # {}
        what == IF fault THEN "fault" ELSE "done"
    IN  /\ busy /\ busy' = FALSE
        /\ CASE command.type = "stash" -> Stash
             [] command.type = "fetch" -> Fetch
             [] command.type = "swap" -> Swap
             [] command.type = "verify" -> UNCHANGED <<c64, exp>>
        /\ Leave(IF fault THEN Min(Mismatches) ELSE Size(reg.length), fault)
        /\ command' = [command EXCEPT !.execute = FALSE]
        /\ event' = what
        /\ irq' = (irq \/ {"on", what} \subseteq mask)
        /\ UNCHANGED <<shadow, control, mask, armed>>

\* A command runs at once or waits for the trigger.
Command(c) ==
    /\ ~busy
    /\ command' = [type |-> c.type, autoload |-> c.autoload, execute |-> c.execute]
    /\ busy' = (c.execute /\ c.now)
    /\ armed' = IF c.execute THEN ~c.now ELSE armed
    /\ UNCHANGED <<c64, exp, reg, shadow, control, mask, event, irq>>

\* Writing one byte of an address or the length keeps the live other bytes,
\* and the result is what autoload will bring back.
Load(field, value) ==
    /\ ~busy
    /\ reg' = [reg EXCEPT ![field] = value]
    /\ shadow' = [shadow EXCEPT ![field] = value]
    /\ UNCHANGED <<c64, exp, command, control, mask, armed, busy, event, irq>>

Low(x, b) == Radix * (x \div Radix) + b
High(x, b) == Space * (x \div Space) + Radix * b + (x % Radix)
Banked(x, b) == Space * (b % BankValues) + (x % Space)

Address(b) ==
    \/ \E f \in {"c64", "reu", "length"} : Load(f, Low(reg[f], b)) \/ Load(f, High(reg[f], b))
    \/ Load("reu", Banked(reg.reu, b))

Control(k) == ~busy /\ control' = k
              /\ UNCHANGED <<c64, exp, reg, shadow, command, mask, armed, busy, event, irq>>
Mask(k) == ~busy /\ mask' = k
           /\ UNCHANGED <<c64, exp, reg, shadow, command, control, armed, busy, event, irq>>

\* Reading the status is its only acknowledge.
ReadStatus == ~busy /\ event' = "none" /\ irq' = FALSE
              /\ UNCHANGED <<c64, exp, reg, shadow, command, control, mask, armed, busy>>

\* A store of the program; one to $FF00 starts an armed command.
Store(s) ==
    /\ ~busy
    /\ c64' = [c64 EXCEPT ![s[1]] = s[2]]
    /\ busy' = (armed /\ s[1] = Trigger)
    /\ armed' = (armed /\ s[1] # Trigger)
    /\ UNCHANGED <<exp, reg, shadow, command, control, mask, event, irq>>

Init ==
    /\ c64 = C64Init /\ exp = ExpInit
    /\ reg = [c64 |-> 0, reu |-> 0, length |-> 0] /\ shadow = reg
    /\ command = [type |-> "stash", autoload |-> FALSE, execute |-> FALSE]
    /\ control = {} /\ mask = {}
    /\ armed = FALSE /\ busy = FALSE /\ event = "none" /\ irq = FALSE

Next ==
    \/ Transfer \/ ReadStatus
    \/ \E c \in Commands : Command(c)
    \/ \E b \in Bytes : Address(b)
    \/ \E k \in Controls : Control(k)
    \/ \E k \in Masks : Mask(k)
    \/ \E s \in Stores : Store(s)

Spec == Init /\ [][Next]_vars
=============================================================================
