------------------------------ MODULE W65C816 ------------------------------
(***************************************************************************)
(* The WDC 65C816 core (Source/CPU/W65C816): registers whose width follows *)
(* the E, M and X state, three classes of address wrap, two stack classes, *)
(* a fast path for emulation mode beside the generic switch, and caches of *)
(* the register widths and of the cycle-table key that only the            *)
(* instructions changing E, M, X or D refresh (applyE).                    *)
(*                                                                         *)
(* The instruction stream is an input.  Vector fetches read bank 0; their  *)
(* redirection into the EPROM is Registers.tla's.  The interrupt lines and *)
(* the batching of run() are CpuLoop.tla's: here an interrupt is a step.   *)
(***************************************************************************)
EXTENDS CpuWords

CONSTANTS
    Stream,        \* the instructions the fetch may deliver
    Starts,        \* the register files a program's preamble has set up
    Setup,         \* the operations that may come before the last one
    MaxSetup       \* how many of them

VARIABLES
    cpu,           \* register file, memory, write log and cycles
    ir,            \* the instruction just executed
    left           \* instructions left to run: bounds the model

vars == <<cpu, ir, left>>

Bank == 65536
Masked(a) == a % 16777216

\* What a 6502 has of the register file: A, X, Y and S are the low bytes,
\* the bits of P that M and X occupy are B and the unused one.
AsM6502(s) ==
    [A |-> Lo(s.C), X |-> Lo(s.X), Y |-> Lo(s.Y), S |-> Lo(s.S), P |-> s.P \ {"M", "X"},
     PC |-> s.PC, mem |-> s.mem, log |-> s.log, cyc |-> s.cyc]

M == INSTANCE M6502 WITH m6502 <- AsM6502(cpu)

-----------------------------------------------------------------------------
\* Register widths.

CycKey(s) == <<s.M8, s.X8, s.E, s.D % 256 # 0>>

\* Narrowing destroys the index registers' high bytes and keeps the
\* accumulator's.
ApplyE(s) ==
    LET n == IF s.E THEN [s EXCEPT !.P = @ \cup {"M", "X"}, !.S = 256 + Lo(@),
                                   !.X = Lo(@), !.Y = Lo(@)]
             ELSE IF "X" \in s.P THEN [s EXCEPT !.X = Lo(@), !.Y = Lo(@)]
             ELSE s
        w == [n EXCEPT !.M8 = n.E \/ "M" \in n.P, !.X8 = n.E \/ "X" \in n.P]
    IN  [w EXCEPT !.key = CycKey(w)]

GetAcc(s) == IF s.M8 THEN Lo(s.C) ELSE s.C
SetAcc(s, v) == [s EXCEPT !.C = IF s.M8 THEN Word(Lo(v), Hi(@)) ELSE v % Bank]
GetX(s) == IF s.X8 THEN Lo(s.X) ELSE s.X
GetY(s) == IF s.X8 THEN Lo(s.Y) ELSE s.Y
ByIndexWidth(s, v) == IF s.X8 THEN Lo(v) ELSE v % Bank

SetZNM(s, v) == [s EXCEPT !.P = SetZN(@, v, s.M8)]
SetZNX(s, v) == [s EXCEPT !.P = SetZN(@, v, s.X8)]
SetZN16(s, v) == [s EXCEPT !.P = SetZN(@, v, FALSE)]
SetZN8(s, v) == [s EXCEPT !.P = SetZN(@, v, TRUE)]

-----------------------------------------------------------------------------
\* The stack.  The old class stays in page 1 in emulation mode, the new
\* class uses 16 bits and is put back by ApplyE.

StackAt(s, k) == IF s.E THEN 256 + Lo(s.S + k) ELSE (s.S + k) % Bank
Push8(s, v) == [Wr(s, s.S, v) EXCEPT !.S = StackAt(s, -1)]
Push16(s, v) == Push8(Push8(s, Hi(v)), Lo(v))
Peek(s, k) == Rd(s, StackAt(s, k))
Peek16(s, k) == Word(Peek(s, k), Peek(s, k + 1))
Drop(s, k) == [s EXCEPT !.S = StackAt(s, k)]

Push8New(s, v) == [Wr(s, s.S, v) EXCEPT !.S = (@ - 1) % Bank]
Push16New(s, v) == Push8New(Push8New(s, Hi(v)), Lo(v))
PeekNew(s, k) == Rd(s, (s.S + k) % Bank)
DropNew(s, k) == [s EXCEPT !.S = (@ + k) % Bank]

-----------------------------------------------------------------------------
\* Effective addresses: [a, b0, cross], b0 when a 16-bit operand's second
\* byte wraps inside bank 0 (m_EABank0), cross when the index left the page.

Bank0Word(s, a) == Word(Rd(s, a % Bank), Rd(s, (a + 1) % Bank))
PageWraps(s) == s.E /\ s.D % 256 = 0

Direct(s, i) == (i.lo + s.D) % Bank
DirectIndexed(s, i, index) ==
    IF PageWraps(s) THEN Lo(i.lo + index) + s.D
    ELSE (i.lo + index + s.D) % Bank

DPPointer(s, p) ==
    Word(Rd(s, p), Rd(s, IF PageWraps(s) THEN 256 * Hi(s.D) + Lo(p + 1) ELSE (p + 1) % Bank))

InBank0(a) == [a |-> a, b0 |-> TRUE, cross |-> FALSE]
Data(a) == [a |-> Masked(a), b0 |-> FALSE, cross |-> FALSE]
Indexed(s, base, index) ==
    [a |-> Masked(s.DBR * Bank + base + index), b0 |-> FALSE,
     cross |-> ~SamePage(base, (base + index) % Bank)]

EA(s, i) ==
    LET w == Word(i.lo, i.hi)
        long == i.bk * Bank + w
        far == Bank0Word(s, Direct(s, i)) + Bank * Rd(s, (Direct(s, i) + 2) % Bank)
        sr == (i.lo + s.S) % Bank
    IN  CASE i.mode = "zp" -> InBank0(Direct(s, i))
          [] i.mode = "zpx" -> InBank0(DirectIndexed(s, i, GetX(s)))
          [] i.mode = "zpy" -> InBank0(DirectIndexed(s, i, GetY(s)))
          [] i.mode = "abs" -> Data(s.DBR * Bank + w)
          [] i.mode = "abx" -> Indexed(s, w, GetX(s))
          [] i.mode = "aby" -> Indexed(s, w, GetY(s))
          [] i.mode = "abl" -> Data(long)
          [] i.mode = "ablx" -> Data(long + GetX(s))
          [] i.mode = "izp" -> Data(s.DBR * Bank + DPPointer(s, Direct(s, i)))
          [] i.mode = "izx" -> Data(s.DBR * Bank + DPPointer(s, DirectIndexed(s, i, GetX(s))))
          [] i.mode = "izy" -> Indexed(s, DPPointer(s, Direct(s, i)), GetY(s))
          [] i.mode = "izl" -> Data(far)
          [] i.mode = "izly" -> Data(Masked(far) + GetY(s))
          [] i.mode = "sr" -> InBank0(sr)
          [] i.mode = "sry" -> Data(s.DBR * Bank + Bank0Word(s, sr) + GetY(s))

OperandNext(e) == IF e.b0 THEN (e.a + 1) % Bank ELSE Masked(e.a + 1)

ReadOperand(s, i, eight) ==
    IF i.mode = "imm" THEN IF eight THEN i.lo ELSE Word(i.lo, i.hi)
    ELSE LET e == EA(s, i)
         IN  IF eight THEN Rd(s, e.a) ELSE Word(Rd(s, e.a), Rd(s, OperandNext(e)))

WriteOperand(s, i, v, eight) ==
    LET e == EA(s, i)
    IN  IF eight THEN Wr(s, e.a, Lo(v)) ELSE Wr(Wr(s, e.a, Lo(v)), OperandNext(e), Hi(v))

\* Mutant: emulation mode skips the write of the original byte.
RmwWriteOnce(s, e, original, v) ==
    IF s.M8 THEN Wr(s, e.a, Lo(v)) ELSE Wr(Wr(s, OperandNext(e), Hi(v)), e.a, Lo(v))
\* Emulation mode writes the original back first; a 16-bit result goes out
\* high byte first.
RmwWrite(s, e, original, v) ==
    IF s.E THEN Wr(Wr(s, e.a, Lo(original)), e.a, Lo(v))
    ELSE IF s.M8 THEN Wr(s, e.a, Lo(v))
    ELSE Wr(Wr(s, OperandNext(e), Hi(v)), e.a, Lo(v))

-----------------------------------------------------------------------------
\* Arithmetic.

\* One decimal digit with its carry or borrow; raw is the digit before its
\* fixup.
AddDigit(a, v, c) ==
    LET t == a + v + c
    IN  [raw |-> t, carry |-> IF t > 9 THEN 1 ELSE 0, sum |-> IF t > 9 THEN (t + 6) % 16 ELSE t]
SubDigit(a, v, b) ==
    LET t == a - v - b
    IN  [carry |-> IF t < 0 THEN 1 ELSE 0, sum |-> (IF t < 0 THEN t - 6 ELSE t) % 16]

Digit(x, unit) == (x \div unit) % 16

\* The decimal sum: [sum, carry, raw], raw of the top digit, which decides V.
DecimalAdd(a, v, c, eight) ==
    LET d0 == AddDigit(Digit(a, 1), Digit(v, 1), c)
        d1 == AddDigit(Digit(a, 16), Digit(v, 16), d0.carry)
        d2 == AddDigit(Digit(a, 256), Digit(v, 256), d1.carry)
        d3 == AddDigit(Digit(a, 4096), Digit(v, 4096), d2.carry)
        low == d0.sum + 16 * d1.sum
    IN  IF eight THEN [sum |-> low, carry |-> d1.carry, raw |-> 16 * d1.raw]
        ELSE [sum |-> low + 256 * d2.sum + 4096 * d3.sum, carry |-> d3.carry, raw |-> 4096 * d3.raw]

DecimalSub(a, v, borrow, eight) ==
    LET d0 == SubDigit(Digit(a, 1), Digit(v, 1), borrow)
        d1 == SubDigit(Digit(a, 16), Digit(v, 16), d0.carry)
        d2 == SubDigit(Digit(a, 256), Digit(v, 256), d1.carry)
        d3 == SubDigit(Digit(a, 4096), Digit(v, 4096), d2.carry)
        low == d0.sum + 16 * d1.sum
    IN  IF eight THEN low ELSE low + 256 * d2.sum + 4096 * d3.sum

AddBinary(s, v) ==
    LET a == GetAcc(s)
        bin == a + v + Carry(s.P)
    IN  SetZNM([SetAcc(s, bin) EXCEPT
                   !.P = SetFlag(SetFlag(@, "C", bin >= Wide(s.M8)),
                                 "V", Overflow(a, v, bin, s.M8))], bin)

\* Mutant: the carry into the first digit is dropped.
AddDecimalNoCarryIn(s, v) ==
    LET d == DecimalAdd(GetAcc(s), v, 0, s.M8)
    IN  SetZNM([SetAcc(s, d.sum) EXCEPT !.P = SetFlag(@, "C", d.carry = 1)], d.sum)

\* N and Z come from the decimal result; V from the top digit before fixup.
AddDecimal(s, v) ==
    LET a == GetAcc(s)
        d == DecimalAdd(a, v, Carry(s.P), s.M8)
    IN  SetZNM([SetAcc(s, d.sum) EXCEPT
                   !.P = SetFlag(SetFlag(@, "C", d.carry = 1),
                                 "V", Overflow(a, v, d.raw, s.M8))], d.sum)

ADC(s, v) == IF "D" \in s.P THEN AddDecimal(s, v) ELSE AddBinary(s, v)

SBC(s, v) ==
    LET a == GetAcc(s)
        comp == Wide(s.M8) - 1 - v
        bin == a + comp + Carry(s.P)
        res == IF "D" \in s.P THEN DecimalSub(a, v, 1 - Carry(s.P), s.M8) ELSE bin
    IN  SetZNM([SetAcc(s, res) EXCEPT
                   !.P = SetFlag(SetFlag(@, "C", bin >= Wide(s.M8)),
                                 "V", Overflow(a, comp, bin, s.M8))], res)

CMP(s, reg, v, eight) ==
    [s EXCEPT !.P = SetZN(SetFlag(@, "C", reg >= v), (reg - v) % Bank, eight)]

\* BIT # sets only Z.
BIT(s, i) ==
    LET v == ReadOperand(s, i, s.M8)
        z == SetFlag(s.P, "Z", BitAnd(GetAcc(s), v) = 0)
    IN  [s EXCEPT !.P = IF i.mode = "imm" THEN z
                        ELSE SetFlag(SetFlag(z, "N", Negative(v, s.M8)), "V", Negative(2 * v, s.M8))]

-----------------------------------------------------------------------------
\* One operator per group of the interpreter's switch.

Load(s, i) ==
    CASE i.op = "LDA" -> LET v == ReadOperand(s, i, s.M8) IN SetZNM(SetAcc(s, v), v)
      [] i.op = "LDX" -> LET v == ReadOperand(s, i, s.X8) IN SetZNX([s EXCEPT !.X = v], v)
      [] i.op = "LDY" -> LET v == ReadOperand(s, i, s.X8) IN SetZNX([s EXCEPT !.Y = v], v)

Store(s, i) ==
    CASE i.op = "STA" -> WriteOperand(s, i, GetAcc(s), s.M8)
      [] i.op = "STZ" -> WriteOperand(s, i, 0, s.M8)
      [] i.op = "STX" -> WriteOperand(s, i, s.X, s.X8)
      [] i.op = "STY" -> WriteOperand(s, i, s.Y, s.X8)

\* Mutant: TCD leaves the direct-page bit of the key alone.
TCDKeepsKey(s) == SetZN16([s EXCEPT !.D = s.C], s.C)
\* The one writer of D that does not call applyE refreshes the key itself.
TCD(s) == SetZN16([s EXCEPT !.D = s.C, !.key = <<@[1], @[2], @[3], s.C % 256 # 0>>], s.C)

\* The width follows the destination; the 16-bit group ignores M and E.
Transfer(s, i) ==
    CASE i.op = "TAX" -> LET v == ByIndexWidth(s, s.C) IN SetZNX([s EXCEPT !.X = v], v)
      [] i.op = "TAY" -> LET v == ByIndexWidth(s, s.C) IN SetZNX([s EXCEPT !.Y = v], v)
      [] i.op = "TSX" -> LET v == ByIndexWidth(s, s.S) IN SetZNX([s EXCEPT !.X = v], v)
      [] i.op = "TXY" -> LET v == ByIndexWidth(s, s.X) IN SetZNX([s EXCEPT !.Y = v], v)
      [] i.op = "TYX" -> LET v == ByIndexWidth(s, s.Y) IN SetZNX([s EXCEPT !.X = v], v)
      [] i.op = "TXA" -> LET t == SetAcc(s, GetX(s)) IN SetZNM(t, GetAcc(t))
      [] i.op = "TYA" -> LET t == SetAcc(s, GetY(s)) IN SetZNM(t, GetAcc(t))
      [] i.op = "TXS" -> [s EXCEPT !.S = IF s.E THEN 256 + Lo(s.X) ELSE GetX(s)]
      [] i.op = "TCS" -> [s EXCEPT !.S = IF s.E THEN 256 + Lo(s.C) ELSE s.C]
      [] i.op = "TSC" -> SetZN16([s EXCEPT !.C = s.S], s.S)
      [] i.op = "TDC" -> SetZN16([s EXCEPT !.C = s.D], s.D)
      [] i.op = "TCD" -> TCD(s)
      [] i.op = "XBA" -> SetZN8([s EXCEPT !.C = Word(Hi(@), Lo(@))], Hi(s.C))

PushReg(s, v, eight) == IF eight THEN Push8(s, Lo(v)) ELSE Push16(s, v)
Pulled(s, eight) == IF eight THEN Peek(s, 1) ELSE Peek16(s, 1)
Popped(s, eight) == Drop(s, IF eight THEN 1 ELSE 2)

PLP(s) == ApplyE([Drop(s, 1) EXCEPT !.P = FlagsOf(Peek(s, 1))])

Stack(s, i) ==
    CASE i.op = "PHA" -> PushReg(s, s.C, s.M8)
      [] i.op = "PHX" -> PushReg(s, s.X, s.X8)
      [] i.op = "PHY" -> PushReg(s, s.Y, s.X8)
      [] i.op = "PHP" -> Push8(s, ByteOf(IF s.E THEN s.P \cup {"X"} ELSE s.P))
      [] i.op = "PHB" -> Push8(s, s.DBR)
      [] i.op = "PHK" -> Push8(s, s.PBR)
      [] i.op = "PLA" -> LET v == Pulled(s, s.M8) IN SetZNM(SetAcc(Popped(s, s.M8), v), v)
      [] i.op = "PLX" -> LET v == Pulled(s, s.X8) IN SetZNX([Popped(s, s.X8) EXCEPT !.X = v], v)
      [] i.op = "PLY" -> LET v == Pulled(s, s.X8) IN SetZNX([Popped(s, s.X8) EXCEPT !.Y = v], v)
      [] i.op = "PLP" -> PLP(s)
      [] i.op = "PLB" -> SetZN8([Drop(s, 1) EXCEPT !.DBR = Peek(s, 1)], Peek(s, 1))

\* The new stack class.  PEI is exempt from the direct-page wrap.
StackNew(s, i) ==
    LET w == Word(i.lo, i.hi)
        pulledD == Word(PeekNew(s, 1), PeekNew(s, 2))
    IN  ApplyE(
          CASE i.op = "PHD" -> Push16New(s, s.D)
            [] i.op = "PLD" -> SetZN16([DropNew(s, 2) EXCEPT !.D = pulledD], pulledD)
            [] i.op = "PEA" -> Push16New(s, w)
            [] i.op = "PEI" -> Push16New(s, Bank0Word(s, Direct(s, i)))
            [] i.op = "PER" -> Push16New(s, (s.PC + Signed16(w)) % Bank))

Logic(s, i) ==
    LET v == ReadOperand(s, i, s.M8)
        a == GetAcc(s)
        t == SetAcc(s, CASE i.op = "AND" -> BitAnd(a, v)
                         [] i.op = "EOR" -> BitXor(a, v)
                         [] i.op = "ORA" -> BitOr(a, v))
    IN  SetZNM(t, GetAcc(t))

Arithmetic(s, i) ==
    CASE i.op = "ADC" -> ADC(s, ReadOperand(s, i, s.M8))
      [] i.op = "SBC" -> SBC(s, ReadOperand(s, i, s.M8))
      [] i.op = "CMP" -> CMP(s, GetAcc(s), ReadOperand(s, i, s.M8), s.key[1])
      [] i.op = "CPX" -> CMP(s, GetX(s), ReadOperand(s, i, s.X8), s.key[2])
      [] i.op = "CPY" -> CMP(s, GetY(s), ReadOperand(s, i, s.X8), s.key[2])

CountXY(s, i) ==
    CASE i.op = "INX" -> LET v == ByIndexWidth(s, s.X + 1) IN SetZNX([s EXCEPT !.X = v], v)
      [] i.op = "DEX" -> LET v == ByIndexWidth(s, s.X - 1) IN SetZNX([s EXCEPT !.X = v], v)
      [] i.op = "INY" -> LET v == ByIndexWidth(s, s.Y + 1) IN SetZNX([s EXCEPT !.Y = v], v)
      [] i.op = "DEY" -> LET v == ByIndexWidth(s, s.Y - 1) IN SetZNX([s EXCEPT !.Y = v], v)

\* The result of a read-modify-write at the current width, and its carry.
Modified(s, op, v) ==
    LET w == Wide(s.M8)
        in == Carry(s.P)
    IN  CASE op = "INC" -> <<(v + 1) % w, in = 1>>
          [] op = "DEC" -> <<(v - 1) % w, in = 1>>
          [] op = "ASL" -> <<(2 * v) % w, Negative(v, s.M8)>>
          [] op = "LSR" -> <<v \div 2, v % 2 = 1>>
          [] op = "ROL" -> <<(2 * v + in) % w, Negative(v, s.M8)>>
          [] op = "ROR" -> <<v \div 2 + in * (w \div 2), v % 2 = 1>>

Modify(s, i) ==
    LET v == IF i.mode = "acc" THEN GetAcc(s) ELSE ReadOperand(s, i, s.M8)
        m == Modified(s, i.op, v)
        t == IF i.mode = "acc" THEN SetAcc(s, m[1]) ELSE RmwWrite(s, EA(s, i), v, m[1])
    IN  SetZNM([t EXCEPT !.P = SetFlag(@, "C", m[2])], m[1])

TestBits(s, i) ==
    LET v == ReadOperand(s, i, s.M8)
        a == GetAcc(s)
        r == CASE i.op = "TSB" -> BitOr(v, a) [] i.op = "TRB" -> v - BitAnd(v, a)
    IN  RmwWrite([s EXCEPT !.P = SetFlag(@, "Z", BitAnd(a, v) = 0)], EA(s, i), v, r)

\* Pointers of JMP (abs) and JML [abs] come from bank 0, those of (abs,X)
\* from the program bank.  JSR and RTS use the old stack, JSL, RTL and
\* JSR (abs,X) the new one.
Jump(s, i) ==
    LET w == Word(i.lo, i.hi)
        K == s.PBR * Bank
        x == (w + GetX(s)) % Bank
        ret == (s.PC - 1) % Bank
        table(r) == Word(Rd(r, K + x), Rd(r, K + ((x + 1) % Bank)))
    IN  CASE i.op = "JMP" /\ i.mode = "abs" -> [s EXCEPT !.PC = w]
          [] i.op = "JMP" /\ i.mode = "ind" -> [s EXCEPT !.PC = Bank0Word(s, w)]
          [] i.op = "JMP" /\ i.mode = "iax" -> [s EXCEPT !.PC = table(s)]
          [] i.op = "JML" /\ i.mode = "abl" -> [s EXCEPT !.PC = w, !.PBR = i.bk]
          [] i.op = "JML" /\ i.mode = "indl" ->
               [s EXCEPT !.PC = Bank0Word(s, w), !.PBR = Rd(s, (w + 2) % Bank)]
          [] i.op = "JSR" /\ i.mode = "abs" -> [Push16(s, ret) EXCEPT !.PC = w]
          [] i.op = "JSR" /\ i.mode = "iax" ->
               LET t == Push16New(s, ret) IN ApplyE([t EXCEPT !.PC = table(t)])
          [] i.op = "JSL" ->
               ApplyE([Push16New(Push8New(s, s.PBR), ret) EXCEPT !.PC = w, !.PBR = i.bk])
          [] i.op = "RTS" -> [Drop(s, 2) EXCEPT !.PC = (Peek16(s, 1) + 1) % Bank]
          [] i.op = "RTL" ->
               ApplyE([DropNew(s, 3) EXCEPT
                          !.PC = (Word(PeekNew(s, 1), PeekNew(s, 2)) + 1) % Bank,
                          !.PBR = PeekNew(s, 3)])

\* Mutant: RTI pulls the program bank in both modes.
RTIAlwaysBank(s) ==
    ApplyE([Drop(s, 4) EXCEPT
               !.P = FlagsOf(Peek(s, 1)), !.PC = Peek16(s, 2), !.PBR = Peek(s, 4)])
\* RTI restores M and X but never E; the bank only in native mode.
RTI(s) ==
    ApplyE([Drop(s, IF s.E THEN 3 ELSE 4) EXCEPT
               !.P = FlagsOf(Peek(s, 1)), !.PC = Peek16(s, 2),
               !.PBR = IF s.E THEN @ ELSE Peek(s, 4)])

\* serviceInterrupt: P is pushed before I is set and D cleared, and the
\* program bank is cleared in both modes though only native mode saves it.
ServiceInterrupt(s, native, emu, brk) ==
    LET pushed == IF s.E THEN ByteOf(IF brk THEN s.P \cup {"X"} ELSE s.P \ {"X"}) ELSE ByteOf(s.P)
        t == Push8(Push16(IF s.E THEN s ELSE Push8(s, s.PBR), s.PC), pushed)
    IN  ApplyE([t EXCEPT !.P = (@ \cup {"I"}) \ {"D"}, !.PBR = 0,
                         !.PC = Bank0Word(t, IF s.E THEN emu ELSE native)])

NativeVector(op) ==
    CASE op = "COP" -> 65508 [] op = "BRK" -> 65510 [] op = "NMI" -> 65514 [] op = "IRQ" -> 65518
EmulationVector(op) ==
    CASE op = "COP" -> 65524 [] op = "NMI" -> 65530 [] op \in {"BRK", "IRQ"} -> 65534
Interrupt(s, i) ==
    ServiceInterrupt(s, NativeVector(i.op), EmulationVector(i.op), i.op \in {"BRK", "COP"})

BranchTarget(s, i) == (s.PC + Signed8(i.lo)) % Bank
Taken(s, i) == i.op = "BRA" \/ BranchTaken(s.P, i.op)
Branch(s, i) ==
    IF i.op = "BRL" THEN [s EXCEPT !.PC = (@ + Signed16(Word(i.lo, i.hi))) % Bank]
    ELSE IF Taken(s, i) THEN [s EXCEPT !.PC = BranchTarget(s, i)] ELSE s

\* XCE is the only way in or out of native mode.
XCE(s) ==
    ApplyE([s EXCEPT !.E = "C" \in s.P, !.P = SetFlag(@, "C", s.E)])

Flag(s, i) ==
    CASE i.op = "REP" -> ApplyE([s EXCEPT !.P = @ \ FlagsOf(i.lo)])
      [] i.op = "SEP" -> ApplyE([s EXCEPT !.P = @ \cup FlagsOf(i.lo)])
      [] i.op = "XCE" -> XCE(s)
      [] OTHER -> [s EXCEPT !.P = SetFlag(@, FlagOps[i.op][1], FlagOps[i.op][2])]

\* One byte per execution with the PC parked on the opcode until the count
\* runs out; the operands are destination bank, then source bank.
BlockMove(s, i) ==
    LET step == IF i.op = "MVN" THEN 1 ELSE -1
        t == Wr(s, i.lo * Bank + GetY(s), Rd(s, i.hi * Bank + GetX(s)))
        c == (s.C - 1) % Bank
    IN  [t EXCEPT !.DBR = i.lo, !.C = c,
                  !.X = ByIndexWidth(s, @ + step), !.Y = ByIndexWidth(s, @ + step),
                  !.PC = IF c = Bank - 1 THEN @ ELSE (@ - 3) % Bank]

-----------------------------------------------------------------------------
\* The opcode table: lengths, base cycles and the cycle adjustments.

AccReads == {"LDA", "AND", "EOR", "ORA", "ADC", "SBC", "CMP", "BIT"}
IndexReads == {"LDX", "LDY", "CPX", "CPY"}
ReadModifyWrites == Modifies \cup {"TSB", "TRB"}
DirectModes == {"zp", "zpx", "zpy", "izx", "izy", "izp", "izl", "izly"}

Length(s, i) ==
    CASE i.mode \in {"imp", "acc"} -> 1
      [] i.mode = "imm" -> IF (i.op \in AccReads /\ ~s.M8) \/ (i.op \in IndexReads /\ ~s.X8)
                           THEN 3 ELSE 2
      [] i.mode \in DirectModes \cup {"sr", "sry", "rel"} -> 2
      [] i.mode \in {"abs", "abx", "aby", "ind", "iax", "indl", "rell", "bm"} -> 3
      [] i.mode \in {"abl", "ablx"} -> 4

AccessCycles ==
    [imm |-> 2, zp |-> 3, zpx |-> 4, zpy |-> 4, izx |-> 6, izy |-> 5, izp |-> 5, izl |-> 6,
     izly |-> 6, abs |-> 4, abx |-> 4, aby |-> 4, abl |-> 5, ablx |-> 5, sr |-> 4, sry |-> 7]

BaseCycles(i) ==
    CASE i.op \in AccReads \cup IndexReads -> AccessCycles[i.mode]
      [] i.op \in {"STA", "STX", "STY", "STZ"} ->
           AccessCycles[i.mode] + (IF i.mode \in {"abx", "aby", "izy"} THEN 1 ELSE 0)
      [] i.op \in ReadModifyWrites /\ i.mode # "acc" ->
           AccessCycles[i.mode] + (IF i.mode = "abx" THEN 3 ELSE 2)
      [] i.op \in {"PHA", "PHX", "PHY", "PHP", "PHB", "PHK", "BRA", "REP", "SEP", "XBA"} -> 3
      [] i.op = "JMP" -> (CASE i.mode = "abs" -> 3 [] i.mode = "ind" -> 5 [] i.mode = "iax" -> 6)
      [] i.op \in {"PLA", "PLX", "PLY", "PLP", "PLB", "PHD", "BRL"} -> 4
      [] i.op = "JML" -> IF i.mode = "abl" THEN 4 ELSE 6
      [] i.op \in {"PLD", "PEA"} -> 5
      [] i.op \in {"PEI", "PER", "RTS", "RTL", "RTI"} -> 6
      [] i.op = "JSR" -> IF i.mode = "abs" THEN 6 ELSE 8
      [] i.op \in {"MVN", "MVP", "BRK", "COP", "NMI", "IRQ"} -> 7
      [] i.op = "JSL" -> 8
      [] OTHER -> 2

Adjust(i) ==
    LET when(c, f) == IF c THEN {f} ELSE {}
        reads == i.op \in AccReads \cup IndexReads
    IN  when(i.op \in AccReads \cup {"STA", "STZ", "PHA", "PLA"}, "M1")
        \cup when(i.op \in ReadModifyWrites /\ i.mode # "acc", "M2")
        \cup when(i.op \in IndexReads \cup {"STX", "STY", "PHX", "PHY", "PLX", "PLY"}, "X1")
        \cup when(i.mode \in DirectModes, "W")
        \cup when(reads /\ i.mode \in {"abx", "aby", "izy"}, "P")
        \cup when(i.op \in {"BRK", "COP", "RTI", "NMI", "IRQ"}, "E0")
        \cup when(i.op \in Branches, "BR")
        \cup when(i.op = "BRA", "PE")

\* The encodings of the table, and the two interrupts.  STP and WAI, which
\* stop the loop and change no register, are CpuLoop.tla's.
MemoryModes == DirectModes \cup {"abs", "abx", "aby", "abl", "ablx", "sr", "sry"}
Implied ==
    {"TAX", "TAY", "TSX", "TXY", "TYX", "TXA", "TYA", "TXS", "TCS", "TSC", "TDC", "TCD", "XBA",
     "PHA", "PHX", "PHY", "PHP", "PHB", "PHK", "PLA", "PLX", "PLY", "PLP", "PLB", "PHD", "PLD",
     "INX", "INY", "DEX", "DEY", "RTS", "RTL", "RTI", "XCE", "NOP"} \cup DOMAIN FlagOps
ModesOf(op) ==
    CASE op \in AccReads \ {"BIT"} -> (MemoryModes \ {"zpy"}) \cup {"imm"}
      [] op = "STA" -> MemoryModes \ {"zpy"}
      [] op \in {"BIT", "LDY"} -> {"imm", "zp", "zpx", "abs", "abx"}
      [] op = "LDX" -> {"imm", "zp", "zpy", "abs", "aby"}
      [] op \in {"CPX", "CPY"} -> {"imm", "zp", "abs"}
      [] op = "STX" -> {"zp", "zpy", "abs"} [] op = "STY" -> {"zp", "zpx", "abs"}
      [] op = "STZ" -> {"zp", "zpx", "abs", "abx"}
      [] op \in Modifies -> {"acc", "zp", "zpx", "abs", "abx"}
      [] op \in {"TSB", "TRB"} -> {"zp", "abs"}
      [] op \in Branches \cup {"BRA"} -> {"rel"} [] op \in {"BRL", "PER"} -> {"rell"}
      [] op = "JMP" -> {"abs", "ind", "iax"} [] op = "JML" -> {"abl", "indl"}
      [] op = "JSR" -> {"abs", "iax"} [] op = "JSL" -> {"abl"}
      [] op = "PEA" -> {"abs"} [] op = "PEI" -> {"zp"} [] op \in {"MVN", "MVP"} -> {"bm"}
      [] op \in {"BRK", "COP", "WDM", "REP", "SEP"} -> {"imm"}
      [] op \in Implied \cup {"NMI", "IRQ"} -> {"imp"}
      [] OTHER -> {}

ASSUME StreamAssumption ==
    \A i \in Stream : i.mode \in ModesOf(i.op) /\ {i.lo, i.hi, i.bk} \subseteq Byte
ASSUME StartsAssumption ==
    \A r \in Starts :
        /\ {r.C, r.X, r.Y, r.S, r.D, r.PC} \subseteq 0 .. Bank - 1 /\ r.DBR \in Byte
        /\ r.P \subseteq AllFlags /\ r.E \in BOOLEAN

\* w65c816Cycles for the state key <<m8, x8, e, dp unaligned>>.
Cycles(i, key, cross, taken) ==
    LET f == Adjust(i)
        one(c) == IF c THEN 1 ELSE 0
    IN  BaseCycles(i) + one("M1" \in f /\ ~key[1]) + 2 * one("M2" \in f /\ ~key[1])
        + one("X1" \in f /\ ~key[2]) + one("W" \in f /\ key[4]) + one("E0" \in f /\ ~key[3])
        + one("P" \in f /\ (~key[2] \/ cross))
        + one("BR" \in f /\ taken) + one("BR" \in f /\ taken /\ key[3] /\ cross)
        + one("PE" \in f /\ key[3] /\ cross)

\* The packed table: the state's share folded into a base, the rest left as
\* residual bits the epilogue applies.
CycleLUT(key, i) ==
    [base |-> Cycles(i, key, FALSE, FALSE),
     P |-> "P" \in Adjust(i) /\ key[2], BR |-> "BR" \in Adjust(i),
     PE |-> "PE" \in Adjust(i) /\ key[3]]

Epilogue(key, i, cross, taken) ==
    LET enc == CycleLUT(key, i)
        one(c) == IF c THEN 1 ELSE 0
    IN  enc.base + one(enc.P /\ cross) + one(enc.BR /\ taken)
        + one(enc.BR /\ taken /\ key[3] /\ cross) + one(enc.PE /\ cross)

-----------------------------------------------------------------------------
\* The emulation-mode fast path: the hottest 6502 opcodes flattened, with
\* their own accesses, flags and cycle counts.

FastOps ==
    ({"LDA"} \X {"imm", "zp", "abs", "abx", "aby"}) \cup ({"LDX", "LDY"} \X {"imm"})
    \cup ({"STA"} \X {"zp", "abs"}) \cup ({"EOR", "AND", "ORA", "CMP"} \X {"imm"})
    \cup ({"INX", "DEX", "INY", "DEY", "RTS", "CLC", "SEC"} \X {"imp"})
    \cup ({"BPL", "BMI", "BCC", "BCS", "BNE", "BEQ"} \X {"rel"}) \cup ({"JMP", "JSR"} \X {"abs"})

ZnE(s, v) == [s EXCEPT !.P = SetZN(@, v, TRUE)]
SetA(s, v) == ZnE([s EXCEPT !.C = Word(v, Hi(@))], v)
DoneE(s, n) == [s EXCEPT !.cyc = n]
DLPenalty(s) == IF s.D % 256 # 0 THEN 1 ELSE 0

\* Mutant: the indexed load adds the index inside the data bank.
FastLoadWrapped(s, i) ==
    LET w == Word(i.lo, i.hi)
        index == IF i.mode = "abx" THEN s.X ELSE s.Y
    IN  CASE i.mode = "imm" -> DoneE(SetA(s, i.lo), 2)
          [] i.mode = "zp" -> DoneE(SetA(s, Rd(s, (i.lo + s.D) % Bank)), 3 + DLPenalty(s))
          [] i.mode = "abs" -> DoneE(SetA(s, Rd(s, s.DBR * Bank + w)), 4)
          [] OTHER -> DoneE(SetA(s, Rd(s, s.DBR * Bank + ((w + index) % Bank))),
                            IF SamePage(w, (w + index) % Bank) THEN 4 ELSE 5)
FastLoad(s, i) ==
    LET w == Word(i.lo, i.hi)
        index == IF i.mode = "abx" THEN s.X ELSE s.Y
    IN  CASE i.mode = "imm" -> DoneE(SetA(s, i.lo), 2)
          [] i.mode = "zp" -> DoneE(SetA(s, Rd(s, (i.lo + s.D) % Bank)), 3 + DLPenalty(s))
          [] i.mode = "abs" -> DoneE(SetA(s, Rd(s, s.DBR * Bank + w)), 4)
          [] OTHER -> DoneE(SetA(s, Rd(s, Masked(s.DBR * Bank + w + index))),
                            IF SamePage(w, (w + index) % Bank) THEN 4 ELSE 5)

FastStore(s, i) ==
    IF i.mode = "zp" THEN DoneE(Wr(s, (i.lo + s.D) % Bank, Lo(s.C)), 3 + DLPenalty(s))
    ELSE DoneE(Wr(s, s.DBR * Bank + Word(i.lo, i.hi), Lo(s.C)), 4)

FastAlu(s, i) ==
    LET a == Lo(s.C)
    IN  DoneE(CASE i.op = "EOR" -> SetA(s, BitXor(a, i.lo))
                [] i.op = "AND" -> SetA(s, BitAnd(a, i.lo))
                [] i.op = "ORA" -> SetA(s, BitOr(a, i.lo))
                [] i.op = "CMP" -> ZnE([s EXCEPT !.P = SetFlag(@, "C", a >= i.lo)],
                                       (a - i.lo) % 256), 2)

FastIndex(s, i) ==
    LET x(v) == ZnE([s EXCEPT !.X = v % 256], v % 256)
        y(v) == ZnE([s EXCEPT !.Y = v % 256], v % 256)
    IN  DoneE(CASE i.op = "LDX" -> x(i.lo) [] i.op = "LDY" -> y(i.lo)
                [] i.op = "INX" -> x(s.X + 1) [] i.op = "DEX" -> x(s.X - 1)
                [] i.op = "INY" -> y(s.Y + 1) [] i.op = "DEY" -> y(s.Y - 1), 2)

FastBranch(s, i) ==
    LET target == (s.PC + Signed8(i.lo)) % Bank
    IN  IF ~BranchTaken(s.P, i.op) THEN DoneE(s, 2)
        ELSE DoneE([s EXCEPT !.PC = target], IF SamePage(s.PC, target) THEN 3 ELSE 4)

FastFlow(s, i) ==
    LET w == Word(i.lo, i.hi)
        ret == (s.PC - 1) % Bank
        below == 256 + Lo(s.S - 1)
        up(k) == Rd(s, 256 + Lo(s.S + k))
    IN  CASE i.op = "JMP" -> DoneE([s EXCEPT !.PC = w], 3)
          [] i.op = "JSR" -> DoneE([Wr(Wr(s, s.S, Hi(ret)), below, Lo(ret)) EXCEPT
                                       !.S = 256 + Lo(@ - 2), !.PC = w], 6)
          [] i.op = "RTS" -> DoneE([s EXCEPT !.S = 256 + Lo(@ + 2),
                                             !.PC = (Word(up(1), up(2)) + 1) % Bank], 6)

Fast(s, i) ==
    CASE i.op = "LDA" -> FastLoad(s, i)
      [] i.op = "STA" -> FastStore(s, i)
      [] i.op \in {"EOR", "AND", "ORA", "CMP"} -> FastAlu(s, i)
      [] i.op \in {"LDX", "LDY", "INX", "DEX", "INY", "DEY"} -> FastIndex(s, i)
      [] i.op \in Branches -> FastBranch(s, i)
      [] i.op \in {"JMP", "JSR", "RTS"} -> FastFlow(s, i)
      [] i.op \in {"CLC", "SEC"} -> DoneE([s EXCEPT !.P = SetFlag(@, "C", i.op = "SEC")], 2)

-----------------------------------------------------------------------------
\* The generic switch and its cycle epilogue, which uses the key captured
\* before the instruction could change it.

Dispatch(s, i) ==
    CASE i.op \in {"LDA", "LDX", "LDY"} -> Load(s, i)
      [] i.op \in {"STA", "STX", "STY", "STZ"} -> Store(s, i)
      [] i.op \in {"TAX", "TAY", "TSX", "TXY", "TYX", "TXA", "TYA", "TXS", "TCS", "TSC",
                   "TDC", "TCD", "XBA"} -> Transfer(s, i)
      [] i.op \in {"PHA", "PHX", "PHY", "PHP", "PHB", "PHK", "PLA", "PLX", "PLY", "PLP",
                   "PLB"} -> Stack(s, i)
      [] i.op \in {"PHD", "PLD", "PEA", "PEI", "PER"} -> StackNew(s, i)
      [] i.op \in {"AND", "EOR", "ORA"} -> Logic(s, i)
      [] i.op = "BIT" -> BIT(s, i)
      [] i.op \in {"ADC", "SBC", "CMP", "CPX", "CPY"} -> Arithmetic(s, i)
      [] i.op \in {"INX", "INY", "DEX", "DEY"} -> CountXY(s, i)
      [] i.op \in Modifies -> Modify(s, i)
      [] i.op \in {"TSB", "TRB"} -> TestBits(s, i)
      [] i.op \in {"JMP", "JML", "JSR", "JSL", "RTS", "RTL"} -> Jump(s, i)
      [] i.op = "RTI" -> RTI(s)
      [] i.op \in {"BRK", "COP", "NMI", "IRQ"} -> Interrupt(s, i)
      [] i.op \in Branches \cup {"BRA", "BRL"} -> Branch(s, i)
      [] i.op \in {"MVN", "MVP"} -> BlockMove(s, i)
      [] i.op \in DOMAIN FlagOps \cup {"REP", "SEP", "XCE"} -> Flag(s, i)
      [] i.op \in {"NOP", "WDM"} -> s

Generic(s, i) ==
    LET cross == CASE i.mode = "rel" -> ~SamePage(s.PC, BranchTarget(s, i))
                   [] i.mode \in {"abx", "aby", "izy"} -> EA(s, i).cross
                   [] OTHER -> FALSE
        taken == i.mode = "rel" /\ Taken(s, i)
    IN  [Dispatch(s, i) EXCEPT !.cyc = Epilogue(s.key, i, cross, taken)]

\* fetch8: the program counter wraps inside the program bank.
Fetched(r, i) ==
    [r EXCEPT !.log = <<>>, !.PC = IF i.op \in {"NMI", "IRQ"} THEN @
                                   ELSE (@ + Length(r, i)) % Bank]

Exec(r, i) ==
    LET s == Fetched(r, i)
    IN  IF r.E /\ <<i.op, i.mode>> \in FastOps THEN Fast(s, i) ELSE Generic(s, i)

-----------------------------------------------------------------------------
\* reset() and a preamble that loads the registers.
Init ==
    /\ \E r \in Starts :
          cpu = ApplyE([C |-> r.C, X |-> r.X, Y |-> r.Y, S |-> r.S, D |-> r.D, PC |-> r.PC,
                        PBR |-> 0, DBR |-> r.DBR, P |-> r.P, E |-> r.E, M8 |-> TRUE,
                        X8 |-> TRUE, key |-> <<TRUE, TRUE, TRUE, FALSE>>,
                        mem |-> <<>>, log |-> <<>>, cyc |-> 0])
    /\ ir = [op |-> "RES", mode |-> "imp", lo |-> 0, hi |-> 0, bk |-> 0]
    /\ left = MaxSetup

Execute(i) ==
    /\ left > 0
    /\ i.op = "IRQ" => "I" \notin cpu.P
    /\ cpu' = Exec(cpu, i)
    /\ ir' = i
    /\ left' = IF i.op \in Setup THEN left - 1 ELSE 0

Next == \E i \in Stream : Execute(i)

Spec == Init /\ [][Next]_vars

-----------------------------------------------------------------------------
\* The instructions on which the two chips are the same: the documented
\* encodings, minus the differences the hardware has (a bank carry of an
\* indexed address, JMP ($xxFF), D cleared by an interrupt).
SameOnBoth(s, i) ==
    /\ s.E /\ s.D = 0 /\ s.DBR = 0 /\ s.PBR = 0
    /\ i.op \in M!Documented /\ i.mode \in DOMAIN M!ModeLength
    /\ i.op = "BIT" => i.mode \in {"zp", "abs"}
    /\ i.op \in {"INC", "DEC"} => i.mode # "acc"
    /\ i.mode = "ind" => i.lo # 255
    /\ i.mode \in {"abx", "aby", "izy"} => EA(s, i).a < Bank
    /\ i.op \in {"BRK", "NMI", "IRQ"} => "D" \notin s.P

DecimalOp(s, i) == i.op \in {"ADC", "SBC"} /\ "D" \in s.P

\* In emulation mode the 65816 is a 6502: every documented instruction
\* leaves the same registers, program counter, memory, cycle count and bus
\* writes in the same order, whatever instructions came before (a decimal
\* result's N and Z apart, which the 65816 defines and the 6502 does not).
EmulationIs6502 ==
    [][SameOnBoth(cpu, ir') =>
         IF DecimalOp(cpu, ir')
         THEN LET n(r) == [r EXCEPT !.P = @ \ {"N", "Z"}]
              IN  n(AsM6502(cpu')) = n(M!Exec(AsM6502(cpu), ir'))
         ELSE M!Step(ir')]_vars

\* The emulation-mode fast path does to every register, flag, byte and cycle
\* count exactly what the generic switch would have done.
FastPathAgrees ==
    [][cpu.E /\ <<ir'.op, ir'.mode>> \in FastOps
         => cpu' = Generic(Fetched(cpu, ir'), ir')]_vars

\* After any sequence of instructions and interrupts the cached widths and
\* the cycle key are those of E, P and D, and the registers obey them: the
\* index registers fit their width and an emulation-mode stack is in page 1.
WidthsFresh ==
    /\ cpu.M8 = (cpu.E \/ "M" \in cpu.P)
    /\ cpu.X8 = (cpu.E \/ "X" \in cpu.P)
    /\ cpu.key = CycKey(cpu)
    /\ cpu.X8 => cpu.X < 256 /\ cpu.Y < 256
    /\ cpu.E => {"M", "X"} \subseteq cpu.P /\ Hi(cpu.S) = 1

\* A BCD value, the number it stands for, and the range of such numbers.
Units(eight) == IF eight THEN {1, 16} ELSE {1, 16, 256, 4096}
IsBCD(v, eight) == \A u \in Units(eight) : Digit(v, u) < 10
Decimal(v, eight) ==
    Digit(v, 1) + 10 * Digit(v, 16)
      + (IF eight THEN 0 ELSE 100 * Digit(v, 256) + 1000 * Digit(v, 4096))
Hundreds(eight) == IF eight THEN 100 ELSE 10000

\* Decimal ADC and SBC of valid operands add and subtract decimal numbers at
\* both widths, with the carry telling whether the result fits.
DecimalArithmetic ==
    [][DecimalOp(cpu, ir') =>
         LET k == cpu.M8
             a == GetAcc(cpu)
             v == ReadOperand(cpu, ir', cpu.M8)
             r == IF ir'.op = "ADC" THEN Decimal(a, k) + Decimal(v, k) + Carry(cpu.P)
                  ELSE Decimal(a, k) - Decimal(v, k) - (1 - Carry(cpu.P))
         IN  IsBCD(a, k) /\ IsBCD(v, k) =>
               /\ IsBCD(GetAcc(cpu'), k)
               /\ Decimal(GetAcc(cpu'), k) = r % Hundreds(k)
               /\ ("C" \in cpu'.P) = (IF ir'.op = "ADC" THEN r >= Hundreds(k) ELSE r >= 0)]_vars

Instruction(op, mode) == [op |-> op, mode |-> mode, lo |-> 0, hi |-> 32, bk |-> 1]
Saved(s) == [s EXCEPT !.mem = <<>>, !.log = <<>>, !.cyc = 0]

\* The calls possible in a state, each with its return.  An emulation-mode
\* interrupt outside bank 0 cannot come back, and a long call there may leave
\* page 1.
CallsFrom(s) ==
    {<<Instruction("JSR", "abs"), Instruction("RTS", "imp")>>}
    \cup (IF s.E /\ s.PBR # 0 THEN {}
          ELSE {<<Instruction("NMI", "imp"), Instruction("RTI", "imp")>>,
                <<Instruction("BRK", "imm"), Instruction("RTI", "imp")>>})
    \cup (IF s.E THEN {} ELSE {<<Instruction("JSL", "abl"), Instruction("RTL", "imp")>>})

\* From every state an interrupt followed by RTI, and a call followed by its
\* return, come back to the very instruction and register file they left, in
\* the middle of a block move too.
ReturnsToCaller ==
    \A p \in CallsFrom(cpu) : \A called \in {Exec(cpu, p[1])} :
        Saved(Exec(called, p[2])) = Saved(Fetched(cpu, p[1]))
=============================================================================
