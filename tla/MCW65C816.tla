----------------------------- MODULE MCW65C816 -----------------------------
(***************************************************************************)
(* Small instance of W65C816.  Every mnemonic in every addressing mode,    *)
(* with operands on both sides of the page, bank and direct-page edges,    *)
(* from register files around the sign, carry and decimal boundaries.      *)
(***************************************************************************)
EXTENDS W65C816

Ins(ops, mode, operands) ==
    {[op |-> o, mode |-> mode, lo |-> b[1], hi |-> b[2], bk |-> b[3]] : o \in ops, b \in operands}

NoOperand == {<<0, 0, 0>>}
Values == {<<25, 39, 0>>, <<255, 128, 0>>}
Offsets == {<<32, 0, 0>>, <<255, 0, 0>>}
Addresses == {<<128, 18, 0>>, <<144, 255, 0>>}
LongAddresses == {<<240, 255, 1>>}

Everywhere(ops) ==
    UNION {Ins(ops, m, Offsets) : m \in {"zp", "zpx", "izx", "izy", "izp", "izl", "izly", "sr", "sry"}}
    \cup UNION {Ins(ops, m, Addresses) : m \in {"abs", "abx", "aby"}}
    \cup UNION {Ins(ops, m, LongAddresses) : m \in {"abl", "ablx"}}

MCStream ==
    Everywhere({"LDA", "STA", "ADC", "SBC", "CMP", "EOR"})
    \cup Ins({"LDA", "ADC", "SBC", "CMP", "EOR", "AND", "ORA", "BIT", "LDX", "LDY", "CPX", "CPY"},
             "imm", Values)
    \cup Ins({"AND", "ORA", "LDX", "LDY", "CPX", "CPY", "STX", "STY", "STZ", "BIT", "TSB", "TRB",
              "INC", "DEC", "ASL", "LSR", "ROL", "ROR", "PEI"}, "zp", Offsets)
    \cup Ins({"LDY", "STY", "STZ", "BIT", "INC", "ROL", "ROR"}, "zpx", Offsets)
    \cup Ins({"LDX", "STX"}, "zpy", Offsets)
    \cup Ins({"BIT", "TSB", "INC", "ASL", "JMP", "JSR", "LDX", "STY"}, "abs", Addresses)
    \cup Ins({"DEC", "LSR", "STZ", "BIT"}, "abx", Addresses)
    \cup Ins({"LDX"}, "aby", Addresses)
    \cup Ins({"JMP"}, "ind", Addresses) \cup Ins({"JML"}, "indl", Addresses)
    \cup Ins({"JMP", "JSR"}, "iax", Addresses) \cup Ins({"JSL", "JML"}, "abl", LongAddresses)
    \cup Ins({"INC", "DEC", "ASL", "LSR", "ROL", "ROR"}, "acc", NoOperand)
    \cup Ins({"TAX", "TAY", "TSX", "TXY", "TYX", "TXA", "TYA", "TXS", "TCS", "TSC", "TDC", "TCD",
              "XBA", "PHA", "PHX", "PHY", "PHP", "PHB", "PHK", "PLA", "PLX", "PLY", "PLP", "PLB",
              "PHD", "PLD", "INX", "INY", "DEX", "DEY", "RTS", "RTL", "RTI", "CLC", "SEC", "CLI",
              "SEI", "CLV", "CLD", "SED", "XCE", "NOP", "NMI", "IRQ"}, "imp", NoOperand)
    \cup Ins({"BRK", "COP", "WDM"}, "imm", NoOperand)
    \cup Ins({"REP", "SEP"}, "imm", {<<48, 0, 0>>, <<9, 0, 0>>})
    \cup Ins({"PEA"}, "abs", Addresses) \cup Ins({"PER", "BRL"}, "rell", Addresses)
    \cup Ins(Branches \cup {"BRA"}, "rel", {<<16, 0, 0>>, <<240, 0, 0>>})
    \cup Ins({"MVN", "MVP"}, "bm", {<<1, 0, 0>>})

MCSetup == {"XCE", "REP", "PLP", "RTI", "TCD", "PLD", "MVN", "NMI"}

File(c, x, y, s, d, b, p, e) ==
    [C |-> c, X |-> x, Y |-> y, S |-> s, D |-> d, DBR |-> b, P |-> p, E |-> e, PC |-> 4344]

MCStarts ==
    {File(r[1], r[2], 128, r[3], r[4], 0, p, TRUE) :
        r \in {<<10137, 1, 509, 0>>, <<33023, 496, 256, 0>>,
               <<10137, 496, 256, 0>>, <<33023, 1, 509, 261>>},
        p \in {{"C"}, {"D", "Z"}, {"C", "D", "N"}}}
    \cup {File(10137, 496, 384, 256, 261, 2, p \cup q, FALSE) :
        p \in SUBSET {"M", "X"}, q \in {{}, {"C", "D"}}}
=============================================================================
