----------------------------- MODULE CpuWords -----------------------------
(***************************************************************************)
(* Machine words, the processor status and the bus seen by the two         *)
(* processor cores (Source/CPU/M6502, Source/CPU/W65C816).  A core's       *)
(* memory is the partial function of the bytes written so far over a       *)
(* fixed background, and its log is the list of bus writes of the          *)
(* instruction in progress, in order: what a register with write side      *)
(* effects can tell apart.                                                 *)
(*                                                                         *)
(* An instruction is what the core fetches: [op, mode, lo, hi, bk], the    *)
(* mnemonic, the addressing mode and up to three operand bytes.            *)
(***************************************************************************)
EXTENDS Integers, Sequences

Byte == 0 .. 255
Lo(v) == v % 256
Hi(v) == (v \div 256) % 256
Word(lo, hi) == lo + 256 * hi

\* Bit by bit, for values of 16 bits.
BitAnd(v, w) ==
    LET b(p) == IF (v \div p) % 2 = 1 /\ (w \div p) % 2 = 1 THEN p ELSE 0
    IN  b(1) + b(2) + b(4) + b(8) + b(16) + b(32) + b(64) + b(128)
        + b(256) + b(512) + b(1024) + b(2048) + b(4096) + b(8192) + b(16384) + b(32768)
BitOr(v, w) == v + w - BitAnd(v, w)
BitXor(v, w) == v + w - 2 * BitAnd(v, w)

\* Bit 7 or bit 15 of a value, for the width in use.
Negative(v, eight) == IF eight THEN (v \div 128) % 2 = 1 ELSE (v \div 32768) % 2 = 1
Wide(eight) == IF eight THEN 256 ELSE 65536

Signed8(v) == IF v < 128 THEN v ELSE v - 256
Signed16(v) == IF v < 32768 THEN v ELSE v - 65536

SamePage(v, w) == v \div 256 = w \div 256

\* Status bits; X and M are B and the unused bit on the 6502.
Weight == [C |-> 1, Z |-> 2, I |-> 4, D |-> 8, X |-> 16, M |-> 32, V |-> 64, N |-> 128]
AllFlags == DOMAIN Weight
FlagsOf(b) == {f \in AllFlags : (b \div Weight[f]) % 2 = 1}
ByteOf(P) ==
    LET w(f) == IF f \in P THEN Weight[f] ELSE 0
    IN  w("C") + w("Z") + w("I") + w("D") + w("X") + w("M") + w("V") + w("N")
SetFlag(P, f, on) == IF on THEN P \cup {f} ELSE P \ {f}
SetZN(P, v, eight) ==
    SetFlag(SetFlag(P, "Z", v % Wide(eight) = 0), "N", Negative(v, eight))
Carry(P) == IF "C" \in P THEN 1 ELSE 0

\* The overflow rule of an addition: both operands have one sign, the sum
\* the other.
Overflow(a, v, r, eight) ==
    /\ Negative(a, eight) = Negative(v, eight)
    /\ Negative(a, eight) # Negative(r, eight)

\* The background memory: neighbouring bytes and pages all differ.
Fill(a) == (37 * a + 11 * (a \div 256) + 5 * (a \div 65536) + 5) % 256

Rd(s, a) == IF a \in DOMAIN s.mem THEN s.mem[a] ELSE Fill(a)
Wr(s, a, v) ==
    [s EXCEPT !.mem = [b \in DOMAIN @ \cup {a} |-> IF b = a THEN v ELSE @[b]],
              !.log = Append(@, <<a, v>>)]

\* The instructions that are the same in both opcode tables: read, change and
\* write back, branch on a flag, set or clear a flag.
Modifies == {"INC", "DEC", "ASL", "LSR", "ROL", "ROR"}
Branches == {"BPL", "BMI", "BVC", "BVS", "BCC", "BCS", "BNE", "BEQ"}

BranchTaken(P, op) ==
    CASE op = "BPL" -> "N" \notin P [] op = "BMI" -> "N" \in P
      [] op = "BVC" -> "V" \notin P [] op = "BVS" -> "V" \in P
      [] op = "BCC" -> "C" \notin P [] op = "BCS" -> "C" \in P
      [] op = "BNE" -> "Z" \notin P [] op = "BEQ" -> "Z" \in P

FlagOps == [CLC |-> <<"C", FALSE>>, SEC |-> <<"C", TRUE>>, CLI |-> <<"I", FALSE>>,
            SEI |-> <<"I", TRUE>>, CLV |-> <<"V", FALSE>>, CLD |-> <<"D", FALSE>>,
            SED |-> <<"D", TRUE>>]
=============================================================================
