------------------------------- MODULE M6502 -------------------------------
(***************************************************************************)
(* The MOS 6502 core (Source/CPU/M6502/m6502.cpp, m6502.h, m6502_opcodes): *)
(* what one instruction does to the registers, the status, the program     *)
(* counter, the bus and the cycle count.  The core stands in for the       *)
(* 65816's emulation mode, and is the reference W65C816 is compared with.  *)
(*                                                                         *)
(* Documented encodings only.  The undocumented ones run as no-ops of      *)
(* their length here and are other instructions on the 65816.              *)
(***************************************************************************)
EXTENDS CpuWords

CONSTANT Stream    \* the instructions the fetch may deliver

VARIABLE m6502     \* registers, memory, write log and cycles of the last step

\* m_P without B and U: B exists only in the pushed copy, U always reads 1.
Status == {"C", "Z", "I", "D", "V", "N"}

Vector16(s, a) == Word(Rd(s, a), Rd(s, (a + 1) % 65536))

Push(s, v) == [Wr(s, 256 + s.S, v) EXCEPT !.S = (@ - 1) % 256]
Push16(s, v) == Push(Push(s, Hi(v)), Lo(v))
\* The k-th byte above the stack pointer, and the stack with k bytes pulled.
Peek(s, k) == Rd(s, 256 + ((s.S + k) % 256))
Drop(s, k) == [s EXCEPT !.S = (@ + k) % 256]

SetP(s, v) == [s EXCEPT !.P = SetZN(@, v, TRUE)]

-----------------------------------------------------------------------------
\* The opcode table, by instruction class and addressing mode.

Reads == {"LDA", "LDX", "LDY", "AND", "EOR", "ORA", "BIT", "ADC", "SBC", "CMP", "CPX", "CPY"}
Stores == {"STA", "STX", "STY"}

ModeLength ==
    [imp |-> 1, acc |-> 1, imm |-> 2, zp |-> 2, zpx |-> 2, zpy |-> 2, izx |-> 2, izy |-> 2,
     rel |-> 2, abs |-> 3, abx |-> 3, aby |-> 3, ind |-> 3]

AccessCycles ==
    [imm |-> 2, zp |-> 3, zpx |-> 4, zpy |-> 4, abs |-> 4, abx |-> 4, aby |-> 4,
     izx |-> 6, izy |-> 5]

BaseCycles(i) ==
    CASE i.op \in Reads -> AccessCycles[i.mode]
      [] i.op \in Stores ->
           AccessCycles[i.mode] + (IF i.mode \in {"abx", "aby", "izy"} THEN 1 ELSE 0)
      [] i.op \in Modifies /\ i.mode # "acc" ->
           AccessCycles[i.mode] + (IF i.mode = "abx" THEN 3 ELSE 2)
      [] i.op \in {"PHA", "PHP"} \/ (i.op = "JMP" /\ i.mode = "abs") -> 3
      [] i.op \in {"PLA", "PLP"} -> 4
      [] i.op = "JMP" /\ i.mode = "ind" -> 5
      [] i.op \in {"JSR", "RTS", "RTI"} -> 6
      [] i.op \in {"BRK", "NMI", "IRQ"} -> 7
      [] OTHER -> 2

-----------------------------------------------------------------------------
\* Effective addresses (the EA_ macros).  Every sum stays in its page or in
\* the 64K, and a zero-page pointer's high byte wraps to the page's start.

Pointer(s, z) == Word(Rd(s, z), Rd(s, (z + 1) % 256))

\* The address before the index, where the penalty for a crossing applies.
Unindexed(s, i) ==
    IF i.mode = "izy" THEN Pointer(s, i.lo) ELSE Word(i.lo, i.hi)

EA(s, i) ==
    CASE i.mode = "zp" -> i.lo
      [] i.mode = "zpx" -> (i.lo + s.X) % 256
      [] i.mode = "zpy" -> (i.lo + s.Y) % 256
      [] i.mode = "abs" -> Word(i.lo, i.hi)
      [] i.mode = "abx" -> (Unindexed(s, i) + s.X) % 65536
      [] i.mode = "aby" -> (Unindexed(s, i) + s.Y) % 65536
      [] i.mode = "izx" -> Pointer(s, (i.lo + s.X) % 256)
      [] i.mode = "izy" -> (Unindexed(s, i) + s.Y) % 65536

CrossCycle(s, i) ==
    IF i.op \in Reads /\ i.mode \in {"abx", "aby", "izy"} /\ ~SamePage(Unindexed(s, i), EA(s, i))
    THEN 1 ELSE 0

Operand(s, i) == IF i.mode = "imm" THEN i.lo ELSE Rd(s, EA(s, i))

-----------------------------------------------------------------------------
\* NMOS arithmetic.  In decimal mode Z is the binary result's, N and V come
\* from the high digit before its fixup.

ADC(s, v) ==
    LET c == Carry(s.P)
        bin == s.A + v + c
        low == (s.A % 16) + (v % 16) + c
        high == 16 * (s.A \div 16 + v \div 16 + (IF low > 9 THEN 1 ELSE 0))
        fixed == IF high > 144 THEN high + 96 ELSE high
        dec == ((low + (IF low > 9 THEN 6 ELSE 0)) % 16) + 16 * ((fixed \div 16) % 16)
    IN  IF "D" \in s.P
        THEN [s EXCEPT !.A = dec,
                       !.P = SetFlag(SetFlag(SetFlag(SetFlag(@,
                                 "Z", bin % 256 = 0), "N", Negative(high, TRUE)),
                                 "V", Overflow(s.A, v, high, TRUE)), "C", fixed > 255)]
        ELSE [s EXCEPT !.A = bin % 256,
                       !.P = SetZN(SetFlag(SetFlag(@, "C", bin > 255),
                                 "V", Overflow(s.A, v, bin, TRUE)), bin, TRUE)]

SBC(s, v) ==
    LET b == 1 - Carry(s.P)
        bin == s.A - v - b
        low == (s.A % 16) - (v % 16) - b
        high == 16 * (s.A \div 16 - v \div 16) - (IF low < 0 THEN 16 ELSE 0)
        dec == ((IF low < 0 THEN low - 6 ELSE low) % 16)
               + 16 * (((IF high < 0 THEN high - 96 ELSE high) \div 16) % 16)
    IN  [s EXCEPT !.A = IF "D" \in s.P THEN dec ELSE bin % 256,
                  !.P = SetZN(SetFlag(SetFlag(@, "C", bin >= 0),
                            "V", Overflow(s.A, 255 - v, bin % 256, TRUE)), bin % 256, TRUE)]

CMP(s, reg, v) == [s EXCEPT !.P = SetZN(SetFlag(@, "C", reg >= v), (reg - v) % 256, TRUE)]

-----------------------------------------------------------------------------
\* One operator per group of the interpreter's switch.

Load(s, i) ==
    LET v == Operand(s, i)
    IN  SetP(CASE i.op = "LDA" -> [s EXCEPT !.A = v]
               [] i.op = "LDX" -> [s EXCEPT !.X = v]
               [] i.op = "LDY" -> [s EXCEPT !.Y = v], v)

Store(s, i) ==
    Wr(s, EA(s, i), CASE i.op = "STA" -> s.A [] i.op = "STX" -> s.X [] i.op = "STY" -> s.Y)

Transfer(s, i) ==
    CASE i.op = "TAX" -> SetP([s EXCEPT !.X = s.A], s.A)
      [] i.op = "TAY" -> SetP([s EXCEPT !.Y = s.A], s.A)
      [] i.op = "TSX" -> SetP([s EXCEPT !.X = s.S], s.S)
      [] i.op = "TXA" -> SetP([s EXCEPT !.A = s.X], s.X)
      [] i.op = "TYA" -> SetP([s EXCEPT !.A = s.Y], s.Y)
      [] i.op = "TXS" -> [s EXCEPT !.S = s.X]

Pulled(b) == FlagsOf(b) \cap Status

Stack(s, i) ==
    CASE i.op = "PHA" -> Push(s, s.A)
      [] i.op = "PHP" -> Push(s, ByteOf(s.P \cup {"X", "M"}))
      [] i.op = "PLA" -> SetP([Drop(s, 1) EXCEPT !.A = Peek(s, 1)], Peek(s, 1))
      [] i.op = "PLP" -> [Drop(s, 1) EXCEPT !.P = Pulled(Peek(s, 1))]

Logic(s, i) ==
    LET v == Operand(s, i)
        r == CASE i.op = "AND" -> BitAnd(s.A, v)
               [] i.op = "EOR" -> BitXor(s.A, v)
               [] i.op = "ORA" -> BitOr(s.A, v)
    IN  SetP([s EXCEPT !.A = r], r)

BIT(s, i) ==
    LET v == Operand(s, i)
    IN  [s EXCEPT !.P = SetFlag(SetFlag(SetFlag(@, "Z", BitAnd(s.A, v) = 0),
                            "N", Negative(v, TRUE)), "V", (v \div 64) % 2 = 1)]

Arithmetic(s, i) ==
    LET v == Operand(s, i)
    IN  CASE i.op = "ADC" -> ADC(s, v)
          [] i.op = "SBC" -> SBC(s, v)
          [] i.op = "CMP" -> CMP(s, s.A, v)
          [] i.op = "CPX" -> CMP(s, s.X, v)
          [] i.op = "CPY" -> CMP(s, s.Y, v)

CountXY(s, i) ==
    CASE i.op = "INX" -> SetP([s EXCEPT !.X = (@ + 1) % 256], (s.X + 1) % 256)
      [] i.op = "INY" -> SetP([s EXCEPT !.Y = (@ + 1) % 256], (s.Y + 1) % 256)
      [] i.op = "DEX" -> SetP([s EXCEPT !.X = (@ - 1) % 256], (s.X - 1) % 256)
      [] i.op = "DEY" -> SetP([s EXCEPT !.Y = (@ - 1) % 256], (s.Y - 1) % 256)

\* The result of a shift, increment or decrement, and the carry it leaves.
Modified(op, v, P) ==
    CASE op = "INC" -> <<(v + 1) % 256, "C" \in P>>
      [] op = "DEC" -> <<(v - 1) % 256, "C" \in P>>
      [] op = "ASL" -> <<(2 * v) % 256, v >= 128>>
      [] op = "LSR" -> <<v \div 2, v % 2 = 1>>
      [] op = "ROL" -> <<(2 * v + Carry(P)) % 256, v >= 128>>
      [] op = "ROR" -> <<v \div 2 + 128 * Carry(P), v % 2 = 1>>

\* Read-modify-write.  m_RMWDummyWrite is on: the original byte is written
\* back before the modified one.
Modify(s, i) ==
    LET v == IF i.mode = "acc" THEN s.A ELSE Operand(s, i)
        m == Modified(i.op, v, s.P)
        t == IF i.mode = "acc" THEN [s EXCEPT !.A = m[1]]
             ELSE Wr(Wr(s, EA(s, i), v), EA(s, i), m[1])
    IN  SetP([t EXCEPT !.P = SetFlag(@, "C", m[2])], m[1])

\* JMP (abs) reads its high byte from the start of the pointer's own page.
Jump(s, i) ==
    LET w == Word(i.lo, i.hi)
        wrap == 256 * (w \div 256) + ((w + 1) % 256)
    IN  CASE i.op = "JMP" /\ i.mode = "abs" -> [s EXCEPT !.PC = w]
          [] i.op = "JMP" /\ i.mode = "ind" -> [s EXCEPT !.PC = Word(Rd(s, w), Rd(s, wrap))]
          [] i.op = "JSR" -> [Push16(s, (s.PC - 1) % 65536) EXCEPT !.PC = w]
          [] i.op = "RTS" -> [Drop(s, 2) EXCEPT !.PC = (Word(Peek(s, 1), Peek(s, 2)) + 1) % 65536]
          [] i.op = "RTI" -> [Drop(s, 3) EXCEPT !.P = Pulled(Peek(s, 1)),
                                                !.PC = Word(Peek(s, 2), Peek(s, 3))]

\* BRK, and the IRQ and NMI sequences of serviceIRQ and serviceNMI.
ServiceInterrupt(s, vector, b) ==
    LET t == Push(Push16(s, s.PC), ByteOf(s.P \cup {"M"} \cup b))
    IN  [t EXCEPT !.P = @ \cup {"I"}, !.PC = Vector16(t, vector)]

Interrupt(s, i) ==
    CASE i.op = "BRK" -> ServiceInterrupt(s, 65534, {"X"})
      [] i.op = "IRQ" -> ServiceInterrupt(s, 65534, {})
      [] i.op = "NMI" -> ServiceInterrupt(s, 65530, {})

Branch(s, i) ==
    LET target == (s.PC + Signed8(i.lo)) % 65536
    IN  IF BranchTaken(s.P, i.op)
        THEN [s EXCEPT !.PC = target, !.cyc = @ + 1 + (IF SamePage(s.PC, target) THEN 0 ELSE 1)]
        ELSE s

Flag(s, i) == [s EXCEPT !.P = SetFlag(@, FlagOps[i.op][1], FlagOps[i.op][2])]

Documented ==
    Reads \cup Stores \cup Modifies \cup Branches \cup DOMAIN FlagOps
    \cup {"TAX", "TAY", "TSX", "TXA", "TYA", "TXS", "PHA", "PHP", "PLA", "PLP",
          "INX", "INY", "DEX", "DEY", "JMP", "JSR", "RTS", "RTI", "BRK", "NOP", "NMI", "IRQ"}

\* step(): fetch, dispatch, cycles.  An interrupt sequence fetches nothing.
Exec(r, i) ==
    LET s == [r EXCEPT !.PC = IF i.op \in {"NMI", "IRQ"} THEN @
                              ELSE (@ + ModeLength[i.mode]) % 65536,
                       !.log = <<>>, !.cyc = BaseCycles(i) + CrossCycle(r, i)]
    IN  CASE i.op \in {"LDA", "LDX", "LDY"} -> Load(s, i)
          [] i.op \in Stores -> Store(s, i)
          [] i.op \in {"TAX", "TAY", "TSX", "TXA", "TYA", "TXS"} -> Transfer(s, i)
          [] i.op \in {"PHA", "PHP", "PLA", "PLP"} -> Stack(s, i)
          [] i.op \in {"AND", "EOR", "ORA"} -> Logic(s, i)
          [] i.op = "BIT" -> BIT(s, i)
          [] i.op \in {"ADC", "SBC", "CMP", "CPX", "CPY"} -> Arithmetic(s, i)
          [] i.op \in {"INX", "INY", "DEX", "DEY"} -> CountXY(s, i)
          [] i.op \in Modifies -> Modify(s, i)
          [] i.op \in {"JMP", "JSR", "RTS", "RTI"} -> Jump(s, i)
          [] i.op \in {"BRK", "NMI", "IRQ"} -> Interrupt(s, i)
          [] i.op \in Branches -> Branch(s, i)
          [] i.op \in DOMAIN FlagOps -> Flag(s, i)
          [] i.op = "NOP" -> s

Reset ==
    m6502 = [A |-> 0, X |-> 0, Y |-> 0, S |-> 253, P |-> {"I"},
             PC |-> Word(Fill(65532), Fill(65533)), mem |-> <<>>, log |-> <<>>, cyc |-> 0]

Step(i) == m6502' = Exec(m6502, i)

\* An IRQ is taken only while I is clear; an NMI always.
Next == \E i \in Stream : (i.op = "IRQ" => "I" \notin m6502.P) /\ Step(i)

Spec == Reset /\ [][Next]_m6502
=============================================================================
