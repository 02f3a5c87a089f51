----------------------------- MODULE REUProofs -----------------------------
(***************************************************************************)
(* Proofs about REU: a transfer never nests, an interrupt always has a     *)
(* cause, and the byte loop implements the block transfer of REUAbstract,  *)
(* for every register width, expansion size, program and trigger.          *)
(***************************************************************************)
EXTENDS REU, FiniteSetTheorems, TLAPS

\* The strengthening: nothing is armed while a transfer runs, so a byte that
\* lands on the trigger finds nothing to start.
NothingArmedInside == run.active => ~pending

StatusExplained == "irq" \in status => status \cap {"done", "fault"} # {}

Typed == pending \in BOOLEAN /\ nested \in BOOLEAN

Inv == Typed /\ ~nested /\ NothingArmedInside /\ StatusExplained

LEMMA InitInv == Init => Inv
  BY DEF Init, Reset, Inv, Typed, NothingArmedInside, StatusExplained, Idle

LEMMA NextInv == Inv /\ [Next]_vars => Inv'
<1> SUFFICES ASSUME Inv, [Next]_vars PROVE Inv'
  OBVIOUS
<1> USE DEF Inv, Typed
<1>1. CASE MoveByte
  <2>1. ~pending
    BY <1>1 DEF MoveByte, NothingArmedInside
  <2>2. nested' = FALSE /\ pending' = FALSE
    BY <1>1, <2>1, Zenon DEF MoveByte, NoteFF00Inside
  <2>3. status' = status
    BY <1>1 DEF MoveByte
  <2> QED BY <2>2, <2>3 DEF NothingArmedInside, StatusExplained
<1>2. CASE EndTransfer
  <2>1. nested' = nested /\ pending' = pending /\ run'.active = FALSE
    BY <1>2 DEF EndTransfer, Idle
  <2>2. status' \cap {"done", "fault"} # {}
    BY <1>2 DEF EndTransfer, FinishTransfer
  <2> QED BY <2>1, <2>2 DEF NothingArmedInside, StatusExplained
<1>3. CASE ReadStatus
  BY <1>3 DEF ReadStatus, NothingArmedInside, StatusExplained
<1>4. CASE \E c \in Commands : WriteCommand(c)
  <2> PICK c \in Commands : WriteCommand(c)
    BY <1>4
  <2>1. nested' = nested /\ status' = status /\ ~run.active
    BY DEF WriteCommand, Program
  <2>2. CASE c.execute /\ c.now
    <3>1. pending' = FALSE BY <2>2 DEF WriteCommand, Begin
    <3> QED BY <2>1, <3>1 DEF NothingArmedInside, StatusExplained
  <2>3. CASE ~(c.execute /\ c.now)
    <3>1. run' = run BY <2>3 DEF WriteCommand
    <3>2. pending' = (pending \/ c.execute) BY <2>3 DEF WriteCommand
    <3>3. pending' \in BOOLEAN BY <3>2, Zenon
    <3> QED BY <2>1, <3>1, <3>3 DEF NothingArmedInside, StatusExplained
  <2> QED BY <2>2, <2>3
<1>5. CASE \E b \in Bytes : WriteRegister(b)
  BY <1>5 DEF WriteRegister, WriteAddress, NothingArmedInside, StatusExplained
<1>6. CASE \E k \in Controls : WriteControl(k)
  BY <1>6 DEF WriteControl, NothingArmedInside, StatusExplained
<1>7. CASE \E k \in Masks : WriteMask(k)
  BY <1>7 DEF WriteMask, NothingArmedInside, StatusExplained
<1>8. CASE \E s \in Stores : HostStore(s)
  <2> PICK s \in Stores : HostStore(s)
    BY <1>8
  <2>1. nested' = nested /\ status' = status /\ ~run.active
    BY DEF HostStore, Program
  <2>2. CASE s[1] = Trigger /\ pending
    <3>1. pending' = FALSE BY <2>2 DEF HostStore, Begin
    <3> QED BY <2>1, <3>1 DEF NothingArmedInside, StatusExplained
  <2>3. CASE ~(s[1] = Trigger /\ pending)
    <3>1. run' = run /\ pending' = pending BY <2>3 DEF HostStore
    <3> QED BY <2>1, <3>1 DEF NothingArmedInside, StatusExplained
  <2> QED BY <2>2, <2>3
<1>9. CASE UNCHANGED vars
  BY <1>9 DEF vars, NothingArmedInside, StatusExplained
<1> QED BY <1>1, <1>2, <1>3, <1>4, <1>5, <1>6, <1>7, <1>8, <1>9 DEF Next

\* executeTransfer drops what was armed before its first byte, so a fetch or
\* swap running over $FF00 never re-enters it; and an interrupt the guest
\* sees in the status always comes with the end-of-block or fault bit.
THEOREM TransferNeverNests == Spec => []OneTransferAtATime
<1>1. Inv => OneTransferAtATime
  BY DEF Inv, OneTransferAtATime, StatusExplained
<1> QED BY InitInv, NextInv, <1>1, PTL DEF Spec

-----------------------------------------------------------------------------
(***************************************************************************)
(* The byte loop implements the block transfer of REUAbstract.  While it   *)
(* runs, the abstract memories are the ones it started from (start), and   *)
(* the inductive invariant says how far the concrete ones have come.       *)
(***************************************************************************)
Cells == {C64Init[a] : a \in 0 .. Space - 1} \cup {ExpInit[o] : o \in 0 .. Fitted - 1}
         \cup {s[2] : s \in Stores}
C64Type == [0 .. Space - 1 -> Cells]
ExpType == [0 .. Fitted - 1 -> Cells]
Types == {"stash", "fetch", "swap", "verify"}
RegType == [c64 : 0 .. Space - 1, reu : Nat, length : Nat]
RunType == [active : BOOLEAN, remaining : Nat, c64 : 0 .. Space - 1, reu : Nat, fault : BOOLEAN]

TypeInv ==
    /\ c64 \in C64Type /\ exp \in ExpType
    /\ live \in RegType /\ shadow \in RegType
    /\ cmd \in [type : Types, autoload : BOOLEAN, execute : BOOLEAN]
    /\ run \in RunType
    /\ start \in C64Type \X ExpType

\* Where the k-th byte of the block is on either side, and how many bytes of
\* the block the loop has finished with; the one that failed a verify is not.
Total == IF live.length = 0 THEN Space ELSE live.length
At(k) == IF "c64" \in ctl THEN live.c64 ELSE (live.c64 + k) % Space
Off(k) == IF "reu" \in ctl THEN live.reu ELSE live.reu + k
Cell(k) == Off(k) % Fitted
Done == Total - run.remaining - (IF run.fault THEN 1 ELSE 0)

\* The loop's locals are a function of the number of bytes it has done.
LoopInv ==
    run.active =>
        /\ Done >= 0 /\ Done <= Total
        /\ run.c64 = At(Done) /\ run.reu = Off(Done)
        /\ run.fault => cmd.type = "verify" /\ start[1][At(Done)] # start[2][Cell(Done)]

\* A byte on the receiving side is old, or came with the last of the bytes
\* done so far that go there.
StashedTo(o) ==
    \/ (\A j \in 0 .. Done - 1 : Cell(j) # o) /\ exp[o] = start[2][o]
    \/ \E j \in 0 .. Done - 1 : /\ Cell(j) = o /\ exp[o] = start[1][At(j)]
                                /\ \A i \in j + 1 .. Done - 1 : Cell(i) # o
FetchedTo(a) ==
    \/ (\A j \in 0 .. Done - 1 : At(j) # a) /\ c64[a] = start[1][a]
    \/ \E j \in 0 .. Done - 1 : /\ At(j) = a /\ c64[a] = start[2][Cell(j)]
                                /\ \A i \in j + 1 .. Done - 1 : At(i) # a

Count(c, e, v) == Cardinality({a \in DOMAIN c : c[a] = v}) + Cardinality({o \in DOMAIN e : e[o] = v})
NoLap == \A i, j \in 0 .. Total - 1 : At(i) = At(j) \/ Cell(i) = Cell(j) => i = j

\* A swap exchanges bytes: it touches only its blocks, loses none, and if it
\* never comes back to a byte each one is where its counterpart was.
Swapped ==
    /\ \A a \in 0 .. Space - 1 : (\A j \in 0 .. Done - 1 : At(j) # a) => c64[a] = start[1][a]
    /\ \A o \in 0 .. Fitted - 1 : (\A j \in 0 .. Done - 1 : Cell(j) # o) => exp[o] = start[2][o]
    /\ \A v \in Cells : Count(c64, exp, v) = Count(start[1], start[2], v)
    /\ NoLap => \A j \in 0 .. Done - 1 :
                   c64[At(j)] = start[2][Cell(j)] /\ exp[Cell(j)] = start[1][At(j)]

Verified ==
    /\ c64 = start[1] /\ exp = start[2]
    /\ \A j \in 0 .. Done - 1 : start[1][At(j)] = start[2][Cell(j)]

DataInv ==
    /\ ~run.active => start = <<c64, exp>>
    /\ run.active =>
        /\ cmd.type = "stash" => c64 = start[1] /\ \A o \in 0 .. Fitted - 1 : StashedTo(o)
        /\ cmd.type = "fetch" => exp = start[2] /\ \A a \in 0 .. Space - 1 : FetchedTo(a)
        /\ cmd.type = "swap" => Swapped
        /\ cmd.type = "verify" => Verified

IInv == Inv /\ TypeInv /\ LoopInv /\ DataInv

\* Arithmetic of a wrapping address and of a byte within it.
LEMMA Wrap == ASSUME NEW n \in Nat \ {0}, NEW q \in Nat, NEW r \in 0 .. n - 1 PROVE (n * q + r) % n = r
  OBVIOUS

LEMMA Divide ==
    ASSUME NEW n \in Nat \ {0}, NEW x \in Nat
    PROVE  /\ x = n * (x \div n) + (x % n)
           /\ x % n \in 0 .. n - 1 /\ x \div n \in Nat
           /\ x < n => x % n = x /\ x \div n = 0
  OBVIOUS

LEMMA Step ==
    ASSUME NEW n \in Nat \ {0}, NEW x \in Nat
    PROVE  (x + 1) % n = ((x % n) + 1) % n
<1> PICK q \in Nat : q = x \div n
  BY Divide
<1> PICK r \in 0 .. n - 1 : r = x % n
  BY Divide
<1>1. x + 1 = n * q + (r + 1)
  BY Divide
<1>2. CASE r + 1 < n
  <2> PICK t \in 0 .. n - 1 : t = r + 1
    BY <1>2
  <2>0. (n * q + t) % n = t
    BY Wrap
  <2>1. (x + 1) % n = r + 1
    BY <1>1, <2>0
  <2>2. (r + 1) % n = r + 1
    BY <1>2
  <2> QED BY <2>1, <2>2
<1>3. CASE r + 1 = n
  <2>1. x + 1 = n * (q + 1) + 0
    BY <1>1, <1>3
  <2> PICK p \in Nat : p = q + 1
    OBVIOUS
  <2>a. 0 \in 0 .. n - 1
    OBVIOUS
  <2>b. (n * p + 0) % n = 0
    BY <2>a, Wrap
  <2>2. (x + 1) % n = 0
    BY <2>1, <2>b
  <2>3. n = n * 1 + 0
    OBVIOUS
  <2>4. n % n = 0
    BY <2>3, Wrap
  <2> QED BY <2>2, <2>4, <1>3
<1> QED BY <1>2, <1>3

LEMMA Numbers ==
    /\ Space \in Nat \ {0} /\ Radix \in Nat \ {0} /\ Fitted \in Nat \ {0}
    /\ TopSpace \in Nat \ {0} /\ BankValues \in Nat \ {0}
<1>1. {Radix, BankValues, TopSpace, Fitted} \subseteq Nat \ {0}
  BY UnitAssumption
<1>2. Radix \in Nat \ {0}
  BY <1>1
<1>3. Radix * Radix \in Nat \ {0}
  BY <1>2
<1> QED BY <1>1, <1>3 DEF Space

LEMMA LowByte ==
    ASSUME NEW x \in Nat, NEW b \in 0 .. Radix - 1
    PROVE  /\ Low(x, b) = Abstract!Low(x, b)
           /\ Low(x, b) \in Nat
           /\ x < Space => Low(x, b) < Space
<1> USE Numbers
<1> PICK q \in Nat : q = x \div Radix
  BY Divide
<1> PICK r \in 0 .. Radix - 1 : r = x % Radix
  BY Divide
<1>1. x = Radix * q + r
  BY Divide
<1>2. Low(x, b) = Radix * q + b
  BY <1>1 DEF Low
<1>3. Radix * q \in Nat
  OBVIOUS
<1>4. ASSUME x < Space PROVE Low(x, b) < Space
  <2>1. q < Radix
    <3> SUFFICES ASSUME q >= Radix PROVE FALSE
      OBVIOUS
    <3>1. Radix * q >= Radix * Radix
      OBVIOUS
    <3> QED BY <3>1, <1>1, <1>4 DEF Space
  <2>2. Radix * q + Radix <= Radix * Radix
    BY <2>1
  <2> QED BY <1>2, <2>2 DEF Space
<1> QED BY <1>2, <1>3, <1>4 DEF Abstract!Low

LEMMA HighByte ==
    ASSUME NEW x \in Nat, NEW b \in 0 .. Radix - 1
    PROVE  /\ High(x, b) = Abstract!High(x, b)
           /\ High(x, b) \in Nat
           /\ x < Space => High(x, b) < Space
<1> USE Numbers
<1> PICK q \in Nat : q = x \div Space
  BY Divide
<1> PICK r \in 0 .. Space - 1 : r = x % Space
  BY Divide
<1> PICK l \in 0 .. Radix - 1 : l = x % Radix
  BY Divide
<1>1. x = Space * q + r
  BY Divide
<1>2. High(x, b) = Space * q + l + Radix * b
  BY <1>1 DEF High
<1>3. Space * q \in Nat /\ Radix * b \in Nat
  OBVIOUS
<1>4. ASSUME x < Space PROVE High(x, b) < Space
  <2>1. q = 0
    BY <1>4, Divide
  <2>2. Radix * b + Radix <= Radix * Radix
    OBVIOUS
  <2>3. Space * q = 0
    BY <2>1
  <2>4. High(x, b) = l + Radix * b
    BY <1>2, <1>3, <2>3
  <2> QED BY <2>2, <2>4, <1>3 DEF Space
<1>5. Abstract!High(x, b) = Space * q + Radix * b + l
  BY DEF Abstract!High, Abstract!Space, Space
<1> QED BY <1>2, <1>3, <1>4, <1>5

LEMMA BankByte ==
    ASSUME NEW x \in Nat, NEW b \in 0 .. Radix - 1
    PROVE  Banked(x, b) = Abstract!Banked(x, b) /\ Banked(x, b) \in Nat
<1>1. x % Space \in Nat /\ b % BankValues \in Nat
  BY Numbers, Divide
<1>2. Space * (b % BankValues) \in Nat
  BY <1>1, Numbers
<1> QED BY <1>1, <1>2 DEF Banked, Abstract!Banked, Abstract!Space, Space

\* One byte moves: what each transfer type does with it.
LEMMA ByteMoved ==
    ASSUME TypeInv, MoveByte
    PROVE  LET a == run.c64
               o == run.reu % Fitted
           IN  /\ a \in 0 .. Space - 1 /\ o \in 0 .. Fitted - 1
               /\ c64[a] \in Cells /\ exp[o] \in Cells
               /\ cmd.type \in Types
               /\ c64' = IF cmd.type \in {"fetch", "swap"} THEN [c64 EXCEPT ![a] = exp[o]] ELSE c64
               /\ exp' = IF cmd.type \in {"stash", "swap"} THEN [exp EXCEPT ![o] = c64[a]] ELSE exp
               /\ run' = [run EXCEPT !.remaining = @ - 1,
                             !.fault = run'.fault,
                             !.c64 = IF run'.fault \/ "c64" \in ctl THEN @ ELSE (@ + 1) % Space,
                             !.reu = IF run'.fault \/ "reu" \in ctl THEN @ ELSE @ + 1]
               /\ run'.fault = (cmd.type = "verify" /\ c64[a] # exp[o])
               /\ run.active /\ run.remaining > 0 /\ ~run.fault
               /\ UNCHANGED <<live, shadow, cmd, ctl, start>>
<1>0. UNCHANGED <<live, shadow, cmd, ctl, start>> /\ run.active /\ run.remaining > 0 /\ ~run.fault
  BY DEF MoveByte
<1> PICK a \in 0 .. Space - 1 : a = run.c64
  BY DEF TypeInv, RunType
<1> PICK o \in 0 .. Fitted - 1 : o = run.reu % Fitted
  BY Numbers, Divide DEF TypeInv, RunType
<1>1. c64[a] \in Cells /\ exp[o] \in Cells /\ cmd.type \in Types
  BY DEF TypeInv, C64Type, ExpType
<1>2. /\ c64' = Byte[1] /\ exp' = Byte[2]
      /\ run' = [run EXCEPT !.remaining = @ - 1, !.fault = Byte[3],
                            !.c64 = IF Byte[3] \/ "c64" \in ctl THEN @ ELSE (@ + 1) % Space,
                            !.reu = IF Byte[3] \/ "reu" \in ctl THEN @ ELSE @ + 1]
  BY DEF MoveByte
<1>3. CASE cmd.type = "stash"
  <2>1. Byte = <<c64, [exp EXCEPT ![o] = c64[a]], FALSE>>
    BY <1>3 DEF Byte, AddressMask
  <2>2. run'.fault = FALSE
    BY <1>2, <2>1 DEF TypeInv, RunType
  <2> QED BY <1>0, <1>1, <1>2, <1>3, <2>1, <2>2
<1>4. CASE cmd.type = "fetch"
  <2>1. Byte = <<[c64 EXCEPT ![a] = exp[o]], exp, FALSE>>
    BY <1>4 DEF Byte, AddressMask
  <2>2. run'.fault = FALSE
    BY <1>2, <2>1 DEF TypeInv, RunType
  <2> QED BY <1>0, <1>1, <1>2, <1>4, <2>1, <2>2
<1>5. CASE cmd.type = "swap"
  <2>1. Byte = <<[c64 EXCEPT ![a] = exp[o]], [exp EXCEPT ![o] = c64[a]], FALSE>>
    BY <1>5 DEF Byte, AddressMask
  <2>2. run'.fault = FALSE
    BY <1>2, <2>1 DEF TypeInv, RunType
  <2> QED BY <1>0, <1>1, <1>2, <1>5, <2>1, <2>2
<1>6. CASE cmd.type = "verify"
  <2>1. Byte = <<c64, exp, c64[a] # exp[o]>>
    BY <1>6 DEF Byte, AddressMask
  <2>2. run'.fault = (c64[a] # exp[o])
    BY <1>2, <2>1 DEF TypeInv, RunType
  <2>3. Byte[3] = run'.fault
    BY <2>1, <2>2
  <2> QED BY <1>0, <1>1, <1>2, <1>6, <2>1, <2>2, <2>3
<1> QED BY <1>1, <1>3, <1>4, <1>5, <1>6 DEF Types

LEMMA LocalsTyped == ASSUME TypeInv PROVE Locals \in RunType /\ Total \in Nat \ {0}
  BY Numbers DEF TypeInv, RegType, RunType, Locals, Total

LEMMA TypeInit == Init => TypeInv
<1> SUFFICES ASSUME Init PROVE TypeInv
  OBVIOUS
<1>1. c64 \in C64Type
  BY UnitAssumption DEF Init, Reset, C64Type, Cells
<1>2. exp \in ExpType
  BY UnitAssumption DEF Init, Reset, ExpType, Cells
<1>3. live \in RegType /\ shadow \in RegType
  BY Numbers DEF Init, Reset, RegType
<1>4. cmd \in [type : Types, autoload : BOOLEAN, execute : BOOLEAN]
  BY DEF Init, Reset, Types
<1>5. run \in RunType
  BY Numbers DEF Init, Reset, RunType, Idle
<1>6. start \in C64Type \X ExpType
  BY <1>1, <1>2 DEF Init, Reset
<1> QED BY <1>1, <1>2, <1>3, <1>4, <1>5, <1>6 DEF TypeInv

\* A register write keeps the registers' ranges and is one of the abstract
\* unit's loads.
LEMMA Loaded ==
    ASSUME TypeInv, NEW b \in Bytes, WriteRegister(b)
    PROVE  /\ live' \in RegType /\ shadow' \in RegType
           /\ ~run.active
           /\ UNCHANGED <<c64, exp, cmd, ctl, mask, status, pending, run, nested, start>>
           /\ \/ \E f \in {"c64", "reu", "length"} : \E v \in {Low(live[f], b), High(live[f], b)} :
                    live' = [live EXCEPT ![f] = v] /\ shadow' = [shadow EXCEPT ![f] = v]
              \/ live' = [live EXCEPT !.reu = Banked(live.reu, b)]
                 /\ shadow' = [shadow EXCEPT !.reu = Banked(live.reu, b)]
<1>0. b \in 0 .. Radix - 1
  BY UnitAssumption
<1>1. CASE WriteAddress("reu", Banked(live.reu, b))
  <2>1. Banked(live.reu, b) \in Nat
    BY <1>0, BankByte DEF TypeInv, RegType
  <2> QED BY <1>1, <2>1 DEF WriteAddress, Program, TypeInv, RegType
<1>2. CASE \E f \in {"c64", "reu", "length"} :
             WriteAddress(f, Low(live[f], b)) \/ WriteAddress(f, High(live[f], b))
  <2> PICK f \in {"c64", "reu", "length"} :
         WriteAddress(f, Low(live[f], b)) \/ WriteAddress(f, High(live[f], b))
    BY <1>2
  <2> PICK v \in {Low(live[f], b), High(live[f], b)} : WriteAddress(f, v)
    OBVIOUS
  <2>1. live[f] \in Nat /\ (f = "c64" => live[f] < Space)
    BY Numbers DEF TypeInv, RegType
  <2>2. v \in Nat /\ (f = "c64" => v \in 0 .. Space - 1)
    BY <1>0, <2>1, LowByte, HighByte, Numbers, SMTT(30)
  <2>3. live' = [live EXCEPT ![f] = v] /\ shadow' = [shadow EXCEPT ![f] = v]
    BY DEF WriteAddress
  <2>4. live' \in RegType /\ shadow' \in RegType
    BY <2>2, <2>3 DEF TypeInv, RegType
  <2>5. ~run.active /\ UNCHANGED <<c64, exp, cmd, ctl, mask, status, pending, run, nested, start>>
    BY DEF WriteAddress, Program
  <2> QED BY <2>3, <2>4, <2>5
<1> QED BY <1>1, <1>2 DEF WriteRegister

LEMMA TypeStep == ASSUME TypeInv, [Next]_vars PROVE TypeInv'
<1>1. CASE MoveByte
  <2>1. run.c64 \in 0 .. Space - 1 /\ run.reu \in Nat /\ (run.c64 + 1) % Space \in 0 .. Space - 1
    BY Numbers, Divide DEF TypeInv, RunType
  <2>a. run'.fault \in BOOLEAN
    BY <1>1, ByteMoved, Zenon
  <2>b. run.remaining - 1 \in Nat
    BY <1>1, ByteMoved DEF TypeInv, RunType
  <2>2. run' \in RunType
    <3>1. PICK x \in 0 .. Space - 1 : x = IF run'.fault \/ "c64" \in ctl THEN run.c64 ELSE (run.c64 + 1) % Space
      BY <2>1
    <3>2. PICK y \in Nat : y = IF run'.fault \/ "reu" \in ctl THEN run.reu ELSE run.reu + 1
      BY <2>1
    <3>3. PICK f \in BOOLEAN : f = run'.fault
      BY <2>a
    <3>4. run' = [run EXCEPT !.remaining = run.remaining - 1, !.fault = f, !.c64 = x, !.reu = y]
      BY <1>1, <3>1, <3>2, <3>3, ByteMoved
    <3> QED BY <3>4, <2>b DEF TypeInv, RunType
  <2>3. c64' \in C64Type /\ exp' \in ExpType
    BY <1>1, ByteMoved DEF TypeInv, C64Type, ExpType
  <2> QED BY <1>1, <2>2, <2>3, ByteMoved DEF TypeInv
<1>2. CASE EndTransfer
  <2>1. live' \in RegType
    <3>0. run.reu \in Nat /\ run.remaining + 1 \in Nat
      BY DEF TypeInv, RunType
    <3>1. run.reu % TopSpace \in Nat /\ (run.remaining + 1) % Space \in Nat
      BY <3>0, Numbers, Divide
    <3> QED BY <1>2, <3>1 DEF EndTransfer, TypeInv, RegType, RunType
  <2>2. run' \in RunType
    BY <1>2, Numbers DEF EndTransfer, Idle, RunType
  <2>3. cmd' \in [type : Types, autoload : BOOLEAN, execute : BOOLEAN]
    BY <1>2 DEF EndTransfer, FinishTransfer, TypeInv
  <2> QED BY <1>2, <2>1, <2>2, <2>3 DEF EndTransfer, TypeInv
<1>3. CASE ReadStatus
  BY <1>3 DEF ReadStatus, TypeInv
<1>4. ASSUME NEW c \in Commands, WriteCommand(c) PROVE TypeInv'
  <2>1. run' \in RunType /\ start' \in C64Type \X ExpType
    BY <1>4, LocalsTyped DEF WriteCommand, Begin, TypeInv
  <2>2. cmd' \in [type : Types, autoload : BOOLEAN, execute : BOOLEAN]
    BY <1>4, UnitAssumption DEF WriteCommand, Types
  <2> QED BY <1>4, <2>1, <2>2 DEF WriteCommand, TypeInv
<1>5. ASSUME NEW b \in Bytes, WriteRegister(b) PROVE TypeInv'
  BY <1>5, Loaded DEF TypeInv
<1>6. ASSUME NEW k \in Controls, WriteControl(k) PROVE TypeInv'
  BY <1>6 DEF WriteControl, TypeInv
<1>7. ASSUME NEW k \in Masks, WriteMask(k) PROVE TypeInv'
  BY <1>7 DEF WriteMask, TypeInv
<1>8. ASSUME NEW s \in Stores, HostStore(s) PROVE TypeInv'
  <2>1. [c64 EXCEPT ![s[1]] = s[2]] \in C64Type
    BY DEF TypeInv, C64Type, Cells
  <2>2. CASE s[1] = Trigger /\ pending
    <3>1. run' = Locals /\ start' = <<[c64 EXCEPT ![s[1]] = s[2]], exp>>
      BY <1>8, <2>2 DEF HostStore, Begin
    <3> QED BY <1>8, <2>1, <3>1, LocalsTyped DEF HostStore, TypeInv
  <2>3. CASE ~(s[1] = Trigger /\ pending)
    <3>1. run' = run /\ start' = <<[c64 EXCEPT ![s[1]] = s[2]], exp>>
      BY <1>8, <2>3 DEF HostStore
    <3> QED BY <1>8, <2>1, <3>1 DEF HostStore, TypeInv
  <2> QED BY <2>2, <2>3
<1>9. CASE UNCHANGED vars
  BY <1>9 DEF vars, TypeInv
<1> QED BY <1>1, <1>2, <1>3, <1>4, <1>5, <1>6, <1>7, <1>8, <1>9 DEF Next

LEMMA Positions ==
    ASSUME TypeInv
    PROVE  /\ At(0) = live.c64 /\ Off(0) = live.reu
           /\ \A k \in Nat :
                 /\ At(k) \in 0 .. Space - 1 /\ Off(k) \in Nat /\ Cell(k) \in 0 .. Fitted - 1
                 /\ At(k + 1) = IF "c64" \in ctl THEN At(k) ELSE (At(k) + 1) % Space
                 /\ Off(k + 1) = IF "reu" \in ctl THEN Off(k) ELSE Off(k) + 1
<1> PICK b \in 0 .. Space - 1 : b = live.c64
  BY DEF TypeInv, RegType
<1> PICK r \in Nat : r = live.reu
  BY DEF TypeInv, RegType
<1>1. At(0) = b /\ Off(0) = r
  <2>a. Space \in Nat \ {0} /\ b \in Nat /\ b < Space
    BY Numbers
  <2>b. b % Space = b
    BY <2>a, Divide
  <2>c. b + 0 = b
    OBVIOUS
  <2>1. (b + 0) % Space = b
    BY <2>b, <2>c
  <2> QED BY <2>1 DEF At, Off
<1>2. ASSUME NEW k \in Nat
      PROVE  /\ At(k) \in 0 .. Space - 1 /\ Off(k) \in Nat /\ Cell(k) \in 0 .. Fitted - 1
             /\ At(k + 1) = IF "c64" \in ctl THEN At(k) ELSE (At(k) + 1) % Space
             /\ Off(k + 1) = IF "reu" \in ctl THEN Off(k) ELSE Off(k) + 1
  <2> PICK x \in Nat : x = b + k
    OBVIOUS
  <2>1. x % Space \in 0 .. Space - 1 /\ (x + 1) % Space = ((x % Space) + 1) % Space
    BY Numbers, Divide, Step
  <2>2. Off(k) \in Nat
    BY DEF Off
  <2>3. Cell(k) \in 0 .. Fitted - 1
    BY <2>2, Numbers, Divide DEF Cell
  <2>4. At(k) \in 0 .. Space - 1
    BY <2>1 DEF At
  <2>5. b + (k + 1) = x + 1
    OBVIOUS
  <2>6. At(k + 1) = IF "c64" \in ctl THEN At(k) ELSE (At(k) + 1) % Space
    BY <2>1, <2>5 DEF At
  <2>7. Off(k + 1) = IF "reu" \in ctl THEN Off(k) ELSE Off(k) + 1
    BY DEF Off
  <2> QED BY <2>2, <2>3, <2>4, <2>6, <2>7
<1> QED BY <1>1, <1>2

\* The loop has begun: nothing is done yet and nothing has moved.
LEMMA Begun ==
    ASSUME TypeInv, TypeInv', run' = Locals, UNCHANGED <<live, ctl>>, start' = <<c64', exp'>>
    PROVE  LoopInv' /\ DataInv'
<1>1. Total' = Total /\ Total \in Nat \ {0}
  BY LocalsTyped DEF Total
<1>2. run'.remaining = Total /\ run'.active = TRUE /\ run'.fault = FALSE
      /\ run'.c64 = live'.c64 /\ run'.reu = live'.reu
  BY DEF Locals, Total
<1> PICK t \in Nat : t = Total
  BY <1>1
<1>3. Done' = 0
  <2>1. Done' = t - t - 0
    BY <1>1, <1>2, Zenon DEF Done
  <2> QED BY <2>1
<1>4. At(0)' = live'.c64 /\ Off(0)' = live'.reu
  <2>1. At(0) = live.c64 /\ Off(0) = live.reu
    BY Positions
  <2> QED BY <2>1 DEF At, Off
<1>5. LoopInv'
  BY <1>1, <1>2, <1>3, <1>4 DEF LoopInv, At, Off
<1>6. 0 .. Done' - 1 = {}
  BY <1>3
<1>7. start[1]' = c64' /\ start[2]' = exp'
  OBVIOUS
<1>8. \A o : StashedTo(o)'
  BY <1>6, <1>7 DEF StashedTo
<1>9. \A a : FetchedTo(a)'
  BY <1>6, <1>7 DEF FetchedTo
<1>10. Swapped'
  BY <1>6, <1>7 DEF Swapped
<1>11. Verified'
  BY <1>6, <1>7 DEF Verified
<1>12. DataInv'
  BY <1>2, <1>7, <1>8, <1>9, <1>10, <1>11 DEF DataInv
<1> QED BY <1>5, <1>12

\* The frame of one byte of the loop: the block stays what it is, and the
\* byte that moves is the one after those done.
LEMMA Advance ==
    ASSUME TypeInv, LoopInv, DataInv, MoveByte
    PROVE  /\ Total' = Total /\ Done \in 0 .. Total - 1
           /\ \A k : At(k)' = At(k) /\ Off(k)' = Off(k) /\ Cell(k)' = Cell(k)
           /\ run.c64 = At(Done) /\ run.reu % Fitted = Cell(Done)
           /\ Done' = IF run'.fault THEN Done ELSE Done + 1
           /\ LoopInv'
<1> PICK t \in Nat \ {0} : t = Total
  BY LocalsTyped
<1>1. Total' = Total /\ \A k : At(k)' = At(k) /\ Off(k)' = Off(k) /\ Cell(k)' = Cell(k)
  BY ByteMoved DEF Total, At, Off, Cell
<1> PICK m \in Nat \ {0} : m = run.remaining
  BY ByteMoved DEF TypeInv, RunType
<1>2. ~run.fault /\ run.active /\ Done = t - m
  BY ByteMoved DEF Done
<1>3. Done >= 0 /\ Done <= t /\ run.c64 = At(Done) /\ run.reu = Off(Done)
  BY <1>2 DEF LoopInv
<1> PICK d \in 0 .. t - 1 : d = Done
  BY <1>2, <1>3
<1>4. run'.remaining = m - 1 /\ run'.active
  BY <1>2, ByteMoved DEF TypeInv, RunType
<1>5. Done' = IF run'.fault THEN d ELSE d + 1
  BY <1>1, <1>2, <1>4 DEF Done
<1>6. run.reu % Fitted = Cell(d)
  BY <1>3 DEF Cell
<1>7. run'.c64 = (IF run'.fault \/ "c64" \in ctl THEN At(d) ELSE (At(d) + 1) % Space)
      /\ run'.reu = (IF run'.fault \/ "reu" \in ctl THEN Off(d) ELSE Off(d) + 1)
  BY <1>3, ByteMoved, ZenonT(30) DEF TypeInv, RunType
<1>8. At(d + 1) = (IF "c64" \in ctl THEN At(d) ELSE (At(d) + 1) % Space)
      /\ Off(d + 1) = (IF "reu" \in ctl THEN Off(d) ELSE Off(d) + 1)
  BY Positions
<1>9. run'.c64 = At(Done') /\ run'.reu = Off(Done')
  <2>1. CASE run'.fault
    BY <1>5, <1>7, <2>1
  <2>2. CASE ~run'.fault
    BY <1>5, <1>7, <1>8, <2>2
  <2> QED BY <2>1, <2>2
<1>10. ASSUME run'.fault
       PROVE  cmd'.type = "verify" /\ start'[1][At(d)] # start'[2][Cell(d)]
  <2>1. cmd.type = "verify" /\ c64[At(d)] # exp[Cell(d)]
    BY <1>3, <1>6, <1>10, ByteMoved
  <2>2. c64 = start[1] /\ exp = start[2]
    BY <1>2, <2>1 DEF DataInv, Verified
  <2> QED BY <2>1, <2>2, ByteMoved
<1>11. LoopInv'
  <2>1. Done' >= 0 /\ Done' <= t
    BY <1>5
  <2>2. run'.c64 = At(Done)' /\ run'.reu = Off(Done)'
    BY <1>1, <1>9 DEF At, Off
  <2>3. run'.fault => cmd'.type = "verify" /\ (start[1][At(Done)] # start[2][Cell(Done)])'
    BY <1>1, <1>5, <1>10 DEF At, Cell, Off
  <2> QED BY <1>1, <2>1, <2>2, <2>3 DEF LoopInv
<1> QED BY <1>1, <1>3, <1>5, <1>6, <1>11

\* Exchanging a byte of one memory with a byte of the other changes no count.
LEMMA Exchange ==
    ASSUME NEW c \in C64Type, NEW e \in ExpType, NEW a \in 0 .. Space - 1, NEW o \in 0 .. Fitted - 1, NEW v
    PROVE  Count([c EXCEPT ![a] = e[o]], [e EXCEPT ![o] = c[a]], v) = Count(c, e, v)
<1> DEFINE d == [c EXCEPT ![a] = e[o]]
           f == [e EXCEPT ![o] = c[a]]
           C == {x \in 0 .. Space - 1 : c[x] = v}
           E == {x \in 0 .. Fitted - 1 : e[x] = v}
           D == {x \in 0 .. Space - 1 : d[x] = v}
           F == {x \in 0 .. Fitted - 1 : f[x] = v}
<1>1. /\ DOMAIN c = 0 .. Space - 1 /\ DOMAIN d = 0 .. Space - 1
      /\ DOMAIN e = 0 .. Fitted - 1 /\ DOMAIN f = 0 .. Fitted - 1
  BY DEF C64Type, ExpType
<1>2. Count(d, f, v) = Cardinality(D) + Cardinality(F) /\ Count(c, e, v) = Cardinality(C) + Cardinality(E)
  BY <1>1, Zenon DEF Count
<1>3. IsFiniteSet(C) /\ IsFiniteSet(E)
  <2>1. IsFiniteSet(0 .. Space - 1) /\ IsFiniteSet(0 .. Fitted - 1)
    BY FS_Interval, Numbers
  <2>2. C \in SUBSET (0 .. Space - 1) /\ E \in SUBSET (0 .. Fitted - 1)
    OBVIOUS
  <2> QED BY <2>1, <2>2, FS_Subset
<1>4. Cardinality(C) \in Nat /\ Cardinality(E) \in Nat
  BY <1>3, FS_CardinalityType
<1>5. \A x \in 0 .. Space - 1 : d[x] = IF x = a THEN e[o] ELSE c[x]
  BY DEF C64Type
<1>6. \A x \in 0 .. Fitted - 1 : f[x] = IF x = o THEN c[a] ELSE e[x]
  BY DEF ExpType
<1> HIDE DEF d, f
<1>7. CASE c[a] = v /\ e[o] # v
  <2>1. D = C \ {a} /\ F = E \cup {o} /\ a \in C /\ o \notin E
    BY <1>5, <1>6, <1>7
  <2> HIDE DEF C, D, E, F
  <2>2. Cardinality(C \ {a}) = Cardinality(C) - 1 /\ Cardinality(E \cup {o}) = Cardinality(E) + 1
    BY <1>3, <2>1, FS_AddElement, FS_RemoveElement
  <2> QED BY <1>2, <1>4, <2>1, <2>2 DEF d, f
<1>8. CASE c[a] # v /\ e[o] = v
  <2>1. D = C \cup {a} /\ F = E \ {o} /\ a \notin C /\ o \in E
    BY <1>5, <1>6, <1>8
  <2> HIDE DEF C, D, E, F
  <2>2. Cardinality(C \cup {a}) = Cardinality(C) + 1 /\ Cardinality(E \ {o}) = Cardinality(E) - 1
    BY <1>3, <2>1, FS_AddElement, FS_RemoveElement
  <2> QED BY <1>2, <1>4, <2>1, <2>2 DEF d, f
<1>9. CASE (c[a] = v) <=> (e[o] = v)
  <2>1. D = C /\ F = E
    BY <1>5, <1>6, <1>9
  <2> HIDE DEF C, D, E, F
  <2> QED BY <1>2, <2>1 DEF d, f
<1> QED BY <1>7, <1>8, <1>9

\* What the byte does to the memories, by transfer type, with d bytes done.
LEMMA DataMoves ==
    ASSUME TypeInv, LoopInv, DataInv, MoveByte, TypeInv'
    PROVE  DataInv'
<1>0. run.active /\ run'.active
  BY ByteMoved DEF TypeInv, RunType
<1> PICK d \in Nat : d = Done
  BY Advance, LocalsTyped
<1>1. d \in 0 .. Total - 1 /\ Done' = IF run'.fault THEN d ELSE d + 1
  BY Advance
<1> PICK a \in 0 .. Space - 1 : a = At(d)
  BY Positions
<1> PICK o \in 0 .. Fitted - 1 : o = Cell(d)
  BY Positions
<1>2. run.c64 = a /\ run.reu % Fitted = o
  BY Advance
<1>3. \A k : At(k)' = At(k) /\ Cell(k)' = Cell(k)
  BY Advance
<1>4. start' = start /\ cmd' = cmd /\ cmd.type \in Types
  BY ByteMoved
<1>5. CASE cmd.type = "stash"
  <2>1. c64' = c64 /\ exp' = [exp EXCEPT ![o] = c64[a]] /\ c64 = start[1] /\ ~run'.fault
    BY <1>0, <1>2, <1>5, ByteMoved DEF DataInv
  <2>2. ASSUME NEW x \in 0 .. Fitted - 1 PROVE StashedTo(x)'
    <3>0. StashedTo(x) /\ Done' = d + 1
      BY <1>0, <1>1, <1>5, <2>1 DEF DataInv
    <3>1. CASE x = o
      <4>1. exp'[x] = start[1][At(d)]
        BY <2>1, <3>1 DEF TypeInv, ExpType
      <4> QED BY <1>3, <1>4, <3>0, <3>1, <4>1 DEF StashedTo
    <3>2. CASE x # o
      <4>1. exp'[x] = exp[x]
        BY <2>1, <3>2 DEF TypeInv, ExpType
      <4>2. CASE (\A j \in 0 .. d - 1 : Cell(j) # x) /\ exp[x] = start[2][x]
        <5>1. \A j \in 0 .. d : Cell(j) # x
          BY <3>2, <4>2
        <5> QED BY <1>3, <1>4, <3>0, <4>1, <4>2, <5>1 DEF StashedTo
      <4>3. CASE \E j \in 0 .. d - 1 : /\ Cell(j) = x /\ exp[x] = start[1][At(j)]
                                       /\ \A i \in j + 1 .. d - 1 : Cell(i) # x
        <5> PICK j \in 0 .. d - 1 : /\ Cell(j) = x /\ exp[x] = start[1][At(j)]
                                    /\ \A i \in j + 1 .. d - 1 : Cell(i) # x
          BY <4>3
        <5>1. \A i \in j + 1 .. d : Cell(i) # x
          BY <3>2
        <5> QED BY <1>3, <1>4, <3>0, <4>1, <5>1 DEF StashedTo
      <4> QED BY <3>0, <4>2, <4>3 DEF StashedTo
    <3> QED BY <3>1, <3>2
  <2> QED BY <1>0, <1>4, <1>5, <2>1, <2>2 DEF DataInv
<1>6. CASE cmd.type = "fetch"
  <2>1. exp' = exp /\ c64' = [c64 EXCEPT ![a] = exp[o]] /\ exp = start[2] /\ ~run'.fault
    BY <1>0, <1>2, <1>6, ByteMoved DEF DataInv
  <2>2. ASSUME NEW x \in 0 .. Space - 1 PROVE FetchedTo(x)'
    <3>0. FetchedTo(x) /\ Done' = d + 1
      BY <1>0, <1>1, <1>6, <2>1 DEF DataInv
    <3>1. CASE x = a
      <4>1. c64'[x] = start[2][Cell(d)]
        BY <2>1, <3>1 DEF TypeInv, C64Type
      <4> QED BY <1>3, <1>4, <3>0, <3>1, <4>1 DEF FetchedTo
    <3>2. CASE x # a
      <4>1. c64'[x] = c64[x]
        BY <2>1, <3>2 DEF TypeInv, C64Type
      <4>2. CASE (\A j \in 0 .. d - 1 : At(j) # x) /\ c64[x] = start[1][x]
        <5>1. \A j \in 0 .. d : At(j) # x
          BY <3>2, <4>2
        <5> QED BY <1>3, <1>4, <3>0, <4>1, <4>2, <5>1 DEF FetchedTo
      <4>3. CASE \E j \in 0 .. d - 1 : /\ At(j) = x /\ c64[x] = start[2][Cell(j)]
                                       /\ \A i \in j + 1 .. d - 1 : At(i) # x
        <5> PICK j \in 0 .. d - 1 : /\ At(j) = x /\ c64[x] = start[2][Cell(j)]
                                    /\ \A i \in j + 1 .. d - 1 : At(i) # x
          BY <4>3
        <5>1. \A i \in j + 1 .. d : At(i) # x
          BY <3>2
        <5> QED BY <1>3, <1>4, <3>0, <4>1, <5>1 DEF FetchedTo
      <4> QED BY <3>0, <4>2, <4>3 DEF FetchedTo
    <3> QED BY <3>1, <3>2
  <2> QED BY <1>0, <1>4, <1>6, <2>1, <2>2 DEF DataInv
<1>7. CASE cmd.type = "swap"
  <2>1. /\ c64' = [c64 EXCEPT ![a] = exp[o]] /\ exp' = [exp EXCEPT ![o] = c64[a]]
        /\ Swapped /\ ~run'.fault /\ Done' = d + 1
    BY <1>0, <1>1, <1>2, <1>7, ByteMoved DEF DataInv
  <2>2. \A x \in 0 .. Space - 1 : c64'[x] = IF x = a THEN exp[o] ELSE c64[x]
    BY <2>1 DEF TypeInv, C64Type
  <2>3. \A x \in 0 .. Fitted - 1 : exp'[x] = IF x = o THEN c64[a] ELSE exp[x]
    BY <2>1 DEF TypeInv, ExpType
  <2>4. ASSUME NEW x \in 0 .. Space - 1, \A j \in 0 .. d : At(j) # x PROVE c64'[x] = start[1][x]
    BY <2>1, <2>2, <2>4 DEF Swapped
  <2>5. ASSUME NEW x \in 0 .. Fitted - 1, \A j \in 0 .. d : Cell(j) # x PROVE exp'[x] = start[2][x]
    BY <2>1, <2>3, <2>5 DEF Swapped
  <2>6. ASSUME NEW v \in Cells PROVE Count(c64', exp', v) = Count(start[1], start[2], v)
    <3>0. Count([c64 EXCEPT ![a] = exp[o]], [exp EXCEPT ![o] = c64[a]], v) = Count(c64, exp, v)
      BY Exchange DEF TypeInv
    <3>1. Count(c64', exp', v) = Count(c64, exp, v)
      BY <2>1, <3>0, Zenon
    <3> QED BY <2>1, <3>1 DEF Swapped
  <2>7. ASSUME NoLap, NEW j \in 0 .. d
        PROVE  c64'[At(j)] = start[2][Cell(j)] /\ exp'[Cell(j)] = start[1][At(j)]
    <3>0. At(j) \in 0 .. Space - 1 /\ Cell(j) \in 0 .. Fitted - 1
      BY Positions
    <3>1. CASE j = d
      <4>1. \A i \in 0 .. d - 1 : At(i) # a /\ Cell(i) # o
        BY <1>1, <2>7, LocalsTyped DEF NoLap
      <4>2. c64[a] = start[1][a] /\ exp[o] = start[2][o]
        BY <2>1, <4>1 DEF Swapped
      <4> QED BY <2>2, <2>3, <3>0, <3>1, <4>2
    <3>2. CASE j # d
      <4>1. At(j) # a /\ Cell(j) # o
        BY <1>1, <2>7, <3>2, LocalsTyped DEF NoLap
      <4>2. c64[At(j)] = start[2][Cell(j)] /\ exp[Cell(j)] = start[1][At(j)]
        BY <2>1, <2>7, <3>2 DEF Swapped
      <4> QED BY <2>2, <2>3, <3>0, <4>1, <4>2
    <3> QED BY <3>1, <3>2
  <2>8. NoLap' => NoLap
    BY <1>3, Advance DEF NoLap
  <2>9. Swapped'
    <3>1. \A x \in 0 .. Space - 1 : (\A j \in 0 .. Done' - 1 : At(j)' # x) => c64'[x] = start'[1][x]
      BY <1>3, <1>4, <2>1, <2>4
    <3>2. \A x \in 0 .. Fitted - 1 : (\A j \in 0 .. Done' - 1 : Cell(j)' # x) => exp'[x] = start'[2][x]
      BY <1>3, <1>4, <2>1, <2>5
    <3>3. \A v \in Cells : Count(c64, exp, v)' = Count(start[1], start[2], v)'
      BY <1>4, <2>6 DEF Count
    <3>4. NoLap' => \A j \in 0 .. Done' - 1 :
             c64'[At(j)'] = start'[2][Cell(j)'] /\ exp'[Cell(j)'] = start'[1][At(j)']
      BY <1>3, <1>4, <2>1, <2>7, <2>8
    <3> QED BY <3>1, <3>2, <3>3, <3>4, Zenon DEF Swapped
  <2> QED BY <1>0, <1>4, <1>7, <2>9 DEF DataInv
<1>8. CASE cmd.type = "verify"
  <2>1. c64' = c64 /\ exp' = exp /\ Verified /\ (~run'.fault => c64[a] = exp[o])
    BY <1>0, <1>2, <1>8, ByteMoved DEF DataInv
  <2>2. ASSUME NEW j \in 0 .. Done' - 1 PROVE start[1][At(j)] = start[2][Cell(j)]
    BY <1>1, <2>1, <2>2 DEF Verified
  <2>3. Verified'
    BY <1>3, <1>4, <2>1, <2>2 DEF Verified
  <2> QED BY <1>0, <1>4, <1>8, <2>3 DEF DataInv
<1> QED BY <1>4, <1>5, <1>6, <1>7, <1>8 DEF Types

LEMMA IInvInit == Init => IInv
<1> SUFFICES ASSUME Init PROVE IInv
  OBVIOUS
<1>1. ~run.active /\ start = <<c64, exp>>
  BY DEF Init, Reset, Idle
<1> QED BY <1>1, InitInv, TypeInit DEF IInv, LoopInv, DataInv

LEMMA IInvStep == IInv /\ [Next]_vars => IInv'
<1> SUFFICES ASSUME IInv, [Next]_vars PROVE IInv'
  OBVIOUS
<1>0. Inv' /\ TypeInv'
  BY NextInv, TypeStep DEF IInv
<1> SUFFICES LoopInv' /\ DataInv'
  BY <1>0 DEF IInv
<1> USE DEF IInv
<1>a. ASSUME ~run.active, UNCHANGED <<run, c64, exp, start>> PROVE LoopInv' /\ DataInv'
  BY <1>a DEF LoopInv, DataInv
<1>1. CASE MoveByte
  BY <1>0, <1>1, Advance, DataMoves
<1>2. CASE EndTransfer
  <2>1. ~run'.active /\ start' = <<c64', exp'>>
    BY <1>2 DEF EndTransfer, Idle
  <2> QED BY <2>1 DEF LoopInv, DataInv
<1>3. CASE ReadStatus
  BY <1>3, <1>a DEF ReadStatus
<1>4. ASSUME NEW c \in Commands, WriteCommand(c) PROVE LoopInv' /\ DataInv'
  <2>1. CASE c.execute /\ c.now
    <3>1. run' = Locals /\ UNCHANGED <<live, ctl, c64, exp>> /\ start' = <<c64', exp'>>
      BY <1>4, <2>1 DEF WriteCommand, Begin
    <3> QED BY <1>0, <3>1, Begun
  <2>2. CASE ~(c.execute /\ c.now)
    BY <1>4, <1>a, <2>2 DEF WriteCommand, Program
  <2> QED BY <2>1, <2>2
<1>5. ASSUME NEW b \in Bytes, WriteRegister(b) PROVE LoopInv' /\ DataInv'
  BY <1>5, <1>a, Loaded
<1>6. ASSUME NEW k \in Controls, WriteControl(k) PROVE LoopInv' /\ DataInv'
  BY <1>6, <1>a DEF WriteControl, Program
<1>7. ASSUME NEW k \in Masks, WriteMask(k) PROVE LoopInv' /\ DataInv'
  BY <1>7, <1>a DEF WriteMask, Program
<1>8. ASSUME NEW s \in Stores, HostStore(s) PROVE LoopInv' /\ DataInv'
  <2>1. UNCHANGED <<live, ctl, exp>> /\ ~run.active
    BY <1>8 DEF HostStore, Program
  <2>2. start' = <<c64', exp'>>
    BY <1>8, <2>1 DEF HostStore, Begin
  <2>3. CASE s[1] = Trigger /\ pending
    <3>1. run' = Locals
      BY <1>8, <2>3 DEF HostStore, Begin
    <3> QED BY <1>0, <2>1, <2>2, <3>1, Begun
  <2>4. CASE ~(s[1] = Trigger /\ pending)
    <3>1. run' = run
      BY <1>8, <2>4 DEF HostStore
    <3> QED BY <2>1, <2>2, <3>1 DEF LoopInv, DataInv
  <2> QED BY <2>3, <2>4
<1>9. CASE UNCHANGED vars
  <2>1. \A k : At(k)' = At(k) /\ Off(k)' = Off(k) /\ Cell(k)' = Cell(k)
    BY <1>9 DEF vars, At, Off, Cell
  <2>2. Total' = Total /\ Done' = Done
    BY <1>9 DEF vars, Total, Done
  <2> QED BY <1>9, <2>1, <2>2 DEF vars, LoopInv, DataInv, StashedTo, FetchedTo, Swapped, Verified, Count, NoLap
<1> QED BY <1>1, <1>2, <1>3, <1>4, <1>5, <1>6, <1>7, <1>8, <1>9 DEF Next

-----------------------------------------------------------------------------
\* The names of the abstract unit under the refinement mapping.
LEMMA AbstractNames ==
    ASSUME TypeInv
    PROVE  /\ Abstract!Space = Space /\ Abstract!Size(live.length) = Total
           /\ Abstract!Block = 0 .. Total - 1
           /\ \A k : Abstract!C64At(k) = At(k) /\ Abstract!ExpAddress(k) = Off(k) /\ Abstract!ExpAt(k) = Cell(k)
<1>1. Abstract!Space = Space
  BY DEF Abstract!Space, Space
<1>2. Abstract!Size(live.length) = Total
  BY <1>1 DEF Abstract!Size, Total
<1>3. \A k : Abstract!C64At(k) = At(k) /\ Abstract!ExpAddress(k) = Off(k)
  BY <1>1 DEF Abstract!C64At, At, Abstract!ExpAddress, Off
<1>4. \A k : Abstract!ExpAt(k) = Cell(k)
  BY <1>3 DEF Abstract!ExpAt, Cell
<1> QED BY <1>1, <1>2, <1>3, <1>4 DEF Abstract!Block

\* The last byte of the block that goes to a location, and the first that
\* differs, are the ones the loop's history names.
LEMMA Latest ==
    ASSUME NEW S \in SUBSET Int, NEW j \in S, \A i \in S : i <= j
    PROVE  Abstract!Max(S) = j
<1>1. \A x \in S : (\A y \in S : x >= y) => x = j
  OBVIOUS
<1> QED BY <1>1 DEF Abstract!Max

LEMMA Earliest ==
    ASSUME NEW S \in SUBSET Int, NEW j \in S, \A i \in S : j <= i
    PROVE  Abstract!Min(S) = j
<1>1. \A x \in S : (\A y \in S : x <= y) => x = j
  OBVIOUS
<1> QED BY <1>1 DEF Abstract!Min

LEMMA InitRefines == Init => Abstract!Init
  BY DEF Init, Reset, Idle, Abstract!Init, Event

\* A whole stash, fetch or swap, read off the invariant when the loop ends.
LEMMA StashDone ==
    ASSUME IInv, EndTransfer, cmd.type = "stash"
    PROVE  Abstract!Stash
<1>1. run.active /\ ~run.fault /\ run.remaining = 0 /\ start' = <<c64, exp>>
  BY DEF EndTransfer, IInv, LoopInv
<1> PICK t \in Nat \ {0} : t = Total
  BY LocalsTyped DEF IInv
<1>2. Done = t
  BY <1>1 DEF Done
<1>3. c64 = start[1] /\ \A o \in 0 .. Fitted - 1 : StashedTo(o)
  BY <1>1 DEF IInv, DataInv
<1>4. DOMAIN start[2] = 0 .. Fitted - 1 /\ exp = [o \in 0 .. Fitted - 1 |-> exp[o]]
  BY DEF IInv, TypeInv, ExpType
<1>5. ASSUME NEW o \in 0 .. Fitted - 1
      PROVE  exp[o] = IF o \in {Cell(k) : k \in 0 .. t - 1}
                      THEN start[1][At(Abstract!Max({k \in 0 .. t - 1 : Cell(k) = o}))] ELSE start[2][o]
  <2>1. CASE (\A j \in 0 .. t - 1 : Cell(j) # o) /\ exp[o] = start[2][o]
    BY <2>1
  <2>2. CASE \E j \in 0 .. t - 1 : /\ Cell(j) = o /\ exp[o] = start[1][At(j)]
                                   /\ \A i \in j + 1 .. t - 1 : Cell(i) # o
    <3> PICK j \in 0 .. t - 1 : /\ Cell(j) = o /\ exp[o] = start[1][At(j)]
                                /\ \A i \in j + 1 .. t - 1 : Cell(i) # o
      BY <2>2
    <3> DEFINE S == {k \in 0 .. t - 1 : Cell(k) = o}
    <3>1. S \in SUBSET Int /\ j \in S /\ \A i \in S : i <= j
      OBVIOUS
    <3>2. Abstract!Max(S) = j
      BY <3>1, Latest
    <3> QED BY <3>2
  <2> QED BY <1>2, <1>3, <2>1, <2>2 DEF StashedTo
<1>6. exp = [o \in 0 .. Fitted - 1 |->
               IF o \in {Cell(k) : k \in 0 .. t - 1}
               THEN start[1][At(Abstract!Max({k \in 0 .. t - 1 : Cell(k) = o}))] ELSE start[2][o]]
  BY <1>4, <1>5
<1> QED BY <1>1, <1>3, <1>4, <1>6, AbstractNames DEF IInv, Abstract!Stash, Abstract!Over, Abstract!LastOn

LEMMA FetchDone ==
    ASSUME IInv, EndTransfer, cmd.type = "fetch"
    PROVE  Abstract!Fetch
<1>1. run.active /\ ~run.fault /\ run.remaining = 0 /\ start' = <<c64, exp>>
  BY DEF EndTransfer, IInv, LoopInv
<1> PICK t \in Nat \ {0} : t = Total
  BY LocalsTyped DEF IInv
<1>2. Done = t
  BY <1>1 DEF Done
<1>3. exp = start[2] /\ \A a \in 0 .. Space - 1 : FetchedTo(a)
  BY <1>1 DEF IInv, DataInv
<1>4. DOMAIN start[1] = 0 .. Space - 1 /\ c64 = [a \in 0 .. Space - 1 |-> c64[a]]
  BY DEF IInv, TypeInv, C64Type
<1>5. ASSUME NEW a \in 0 .. Space - 1
      PROVE  c64[a] = IF a \in {At(k) : k \in 0 .. t - 1}
                      THEN start[2][Cell(Abstract!Max({k \in 0 .. t - 1 : At(k) = a}))] ELSE start[1][a]
  <2>1. CASE (\A j \in 0 .. t - 1 : At(j) # a) /\ c64[a] = start[1][a]
    BY <2>1
  <2>2. CASE \E j \in 0 .. t - 1 : /\ At(j) = a /\ c64[a] = start[2][Cell(j)]
                                   /\ \A i \in j + 1 .. t - 1 : At(i) # a
    <3> PICK j \in 0 .. t - 1 : /\ At(j) = a /\ c64[a] = start[2][Cell(j)]
                                /\ \A i \in j + 1 .. t - 1 : At(i) # a
      BY <2>2
    <3> DEFINE S == {k \in 0 .. t - 1 : At(k) = a}
    <3>1. S \in SUBSET Int /\ j \in S /\ \A i \in S : i <= j
      OBVIOUS
    <3>2. Abstract!Max(S) = j
      BY <3>1, Latest
    <3> QED BY <3>2
  <2> QED BY <1>2, <1>3, <2>1, <2>2 DEF FetchedTo
<1>6. c64 = [a \in 0 .. Space - 1 |->
               IF a \in {At(k) : k \in 0 .. t - 1}
               THEN start[2][Cell(Abstract!Max({k \in 0 .. t - 1 : At(k) = a}))] ELSE start[1][a]]
  BY <1>4, <1>5
<1> QED BY <1>1, <1>3, <1>4, <1>6, AbstractNames DEF IInv, Abstract!Fetch, Abstract!Over, Abstract!LastOn

\* Sets of as many locations as there are bytes: no byte comes back.
LEMMA NeverBack ==
    ASSUME NEW n \in Nat, NEW p, p = [k \in 0 .. n - 1 |-> p[k]],
           Cardinality({p[k] : k \in 0 .. n - 1}) = Cardinality(0 .. n - 1)
    PROVE  \A i, j \in 0 .. n - 1 : p[i] = p[j] => i = j
<1> DEFINE B == 0 .. n - 1
           T == {p[k] : k \in B}
<1>1. p \in Surjection(B, T)
  BY DEF Surjection
<1>2. IsFiniteSet(B)
  <2>1. 0 \in Int /\ n - 1 \in Int
    OBVIOUS
  <2> QED BY <2>1, FS_Interval
<1> HIDE DEF T, B
<1>3. Cardinality(B) = Cardinality(T)
  BY DEF T, B
<1>4. p \in Injection(B, T)
  BY <1>1, <1>2, <1>3, FS_SurjSameCardinalityImpliesInj
<1> QED BY <1>4 DEF Injection, IsInjective, B

\* The instance has its own copy of the standard operator.
LEMMA SameCardinality == \A S : Abstract!Cardinality(S) = Cardinality(S)
  BY DEF Abstract!Cardinality, Cardinality

LEMMA SwapDone ==
    ASSUME IInv, EndTransfer, cmd.type = "swap"
    PROVE  Abstract!Swap
<1>1. run.active /\ ~run.fault /\ run.remaining = 0 /\ start' = <<c64, exp>>
  BY DEF EndTransfer, IInv, LoopInv
<1> PICK t \in Nat \ {0} : t = Total
  BY LocalsTyped DEF IInv
<1>2. Done = t /\ Swapped
  BY <1>1 DEF Done, IInv, DataInv
<1>3. /\ DOMAIN start[1] = 0 .. Space - 1 /\ DOMAIN c64 = 0 .. Space - 1
      /\ DOMAIN start[2] = 0 .. Fitted - 1 /\ DOMAIN exp = 0 .. Fitted - 1
      /\ \A a \in DOMAIN start[1] : start[1][a] \in Cells
      /\ \A o \in DOMAIN start[2] : start[2][o] \in Cells
  BY DEF IInv, TypeInv, C64Type, ExpType
<1> DEFINE Ats == {At(k) : k \in 0 .. t - 1}
           Offs == {Cell(k) : k \in 0 .. t - 1}
<1>4. Abstract!Over(Abstract!C64At) = Ats /\ Abstract!Over(Abstract!ExpAt) = Offs
      /\ Abstract!Block = 0 .. t - 1
  BY AbstractNames DEF IInv, Abstract!Over
<1>5. \A a \in DOMAIN start[1] \ Ats : c64[a] = start[1][a]
  BY <1>2, <1>3 DEF Swapped
<1>6. \A o \in DOMAIN start[2] \ Offs : exp[o] = start[2][o]
  BY <1>2, <1>3 DEF Swapped
<1>7. \A v \in Cells : Abstract!Count(c64, exp, v) = Abstract!Count(start[1], start[2], v)
  <2>1. \A c, e, v : Abstract!Count(c, e, v) = Count(c, e, v)
    BY SameCardinality DEF Count, Abstract!Count
  <2> QED BY <1>2, <2>1 DEF Swapped
<1>8. ASSUME Cardinality(Ats) = Cardinality(0 .. t - 1), Cardinality(Offs) = Cardinality(0 .. t - 1)
      PROVE  \A k \in 0 .. t - 1 : c64[At(k)] = start[2][Cell(k)] /\ exp[Cell(k)] = start[1][At(k)]
  <2> DEFINE p == [k \in 0 .. t - 1 |-> At(k)]
             q == [k \in 0 .. t - 1 |-> Cell(k)]
  <2>1. Ats = {p[k] : k \in 0 .. t - 1} /\ Offs = {q[k] : k \in 0 .. t - 1}
    OBVIOUS
  <2>2. p = [k \in 0 .. t - 1 |-> p[k]] /\ q = [k \in 0 .. t - 1 |-> q[k]]
    OBVIOUS
  <2>3. \A k \in 0 .. t - 1 : p[k] = At(k) /\ q[k] = Cell(k)
    OBVIOUS
  <2> HIDE DEF p, q, Ats, Offs
  <2>4. \A i, j \in 0 .. t - 1 : p[i] = p[j] => i = j
    BY <1>8, <2>1, <2>2, NeverBack
  <2>5. \A i, j \in 0 .. t - 1 : q[i] = q[j] => i = j
    BY <1>8, <2>1, <2>2, NeverBack
  <2>6. NoLap
    BY <2>3, <2>4, <2>5 DEF NoLap
  <2> QED BY <1>2, <2>6 DEF Swapped
<1>9. \A v \in {start[1][a] : a \in DOMAIN start[1]} \cup {start[2][o] : o \in DOMAIN start[2]} :
         Abstract!Count(c64, exp, v) = Abstract!Count(start[1], start[2], v)
  BY <1>3, <1>7
<1>10. start'[1] = c64 /\ start'[2] = exp
  BY <1>1
<1> HIDE DEF Ats, Offs
<1>11. \A k : Abstract!C64At(k) = At(k) /\ Abstract!ExpAt(k) = Cell(k)
  BY AbstractNames DEF IInv
<1>12. DOMAIN start'[1] = DOMAIN start[1] /\ DOMAIN start'[2] = DOMAIN start[2]
  BY <1>3, <1>10
<1>13. /\ \A a \in DOMAIN start[1] \ Abstract!Over(Abstract!C64At) : start'[1][a] = start[1][a]
       /\ \A o \in DOMAIN start[2] \ Abstract!Over(Abstract!ExpAt) : start'[2][o] = start[2][o]
  BY <1>4, <1>5, <1>6, <1>10
<1>14. \A v \in {start[1][a] : a \in DOMAIN start[1]} \cup {start[2][o] : o \in DOMAIN start[2]} :
          Abstract!Count(start'[1], start'[2], v) = Abstract!Count(start[1], start[2], v)
  BY <1>9, <1>10
<1>15. Abstract!Cardinality(Abstract!Over(Abstract!C64At)) = Abstract!Cardinality(Abstract!Block)
       /\ Abstract!Cardinality(Abstract!Over(Abstract!ExpAt)) = Abstract!Cardinality(Abstract!Block)
       => \A k \in Abstract!Block : start'[1][Abstract!C64At(k)] = start[2][Abstract!ExpAt(k)]
                                   /\ start'[2][Abstract!ExpAt(k)] = start[1][Abstract!C64At(k)]
  BY <1>4, <1>8, <1>10, <1>11, SameCardinality
<1> QED BY <1>12, <1>13, <1>14, <1>15, Zenon DEF Abstract!Swap

\* The loop stopped early exactly when a verify met a difference, and then
\* at the first one.
LEMMA Outcome ==
    ASSUME IInv, EndTransfer
    PROVE  /\ run.fault = (cmd.type = "verify" /\ Abstract!Mismatches # {})
           /\ run.fault => Abstract!Min(Abstract!Mismatches) = Done /\ Total - Done = run.remaining + 1
           /\ ~run.fault => Done = Total
<1> PICK t \in Nat \ {0} : t = Total
  BY LocalsTyped DEF IInv
<1> PICK m \in Nat : m = run.remaining
  BY DEF IInv, TypeInv, RunType
<1>0. run.active /\ (m = 0 \/ run.fault) /\ run.fault \in BOOLEAN
  BY DEF EndTransfer, IInv, TypeInv, RunType
<1>1. Abstract!Mismatches = {k \in 0 .. t - 1 : start[1][At(k)] # start[2][Cell(k)]}
  BY AbstractNames DEF IInv, Abstract!Mismatches
<1> DEFINE M == {k \in 0 .. t - 1 : start[1][At(k)] # start[2][Cell(k)]}
<1>2. CASE run.fault
  <2>1. Done = t - m - 1
    BY <1>2 DEF Done
  <2>2. Done >= 0 /\ cmd.type = "verify" /\ start[1][At(Done)] # start[2][Cell(Done)]
    BY <1>0, <1>2 DEF IInv, LoopInv
  <2> PICK d \in 0 .. t - 1 : d = Done
    BY <2>1, <2>2
  <2>3. \A j \in 0 .. d - 1 : start[1][At(j)] = start[2][Cell(j)]
    BY <1>0, <2>2 DEF IInv, DataInv, Verified
  <2>4. M \in SUBSET Int /\ d \in M /\ \A i \in M : d <= i
    BY <2>2, <2>3
  <2>5. Abstract!Min(M) = d
    BY <2>4, Earliest
  <2>6. Abstract!Mismatches # {} /\ Abstract!Min(Abstract!Mismatches) = Done
    BY <1>1, <2>4, <2>5
  <2>7. Total - Done = run.remaining + 1
    BY <2>1
  <2>8. run.fault = (cmd.type = "verify" /\ Abstract!Mismatches # {})
    BY <1>0, <1>2, <2>2, <2>6, Zenon
  <2> QED BY <1>2, <2>6, <2>7, <2>8
<1>3. CASE ~run.fault
  <2>1. Done = t
    BY <1>0, <1>3 DEF Done
  <2>2. cmd.type = "verify" => \A j \in 0 .. t - 1 : start[1][At(j)] = start[2][Cell(j)]
    BY <1>0, <2>1 DEF IInv, DataInv, Verified
  <2>3. ~(cmd.type = "verify" /\ Abstract!Mismatches # {})
    BY <1>1, <2>2
  <2> QED BY <1>0, <1>3, <2>1, <2>3
<1> QED BY <1>2, <1>3

LEMMA Status ==
    ASSUME NEW f \in BOOLEAN, FinishTransfer(f)
    PROVE  /\ Event' = IF f THEN "fault" ELSE "done"
           /\ ("irq" \in status)' = ("irq" \in status \/ {"on", IF f THEN "fault" ELSE "done"} \subseteq mask)
  BY DEF FinishTransfer, Event

\* The end of the loop is the abstract unit's one step.
LEMMA TransferRefines ==
    ASSUME IInv, EndTransfer
    PROVE  Abstract!Transfer
<1> PICK f \in BOOLEAN : f = run.fault
  BY DEF IInv, TypeInv, RunType
<1>1. f = (cmd.type = "verify" /\ Abstract!Mismatches # {})
  BY Outcome
<1> PICK done : done = IF f THEN Abstract!Min(Abstract!Mismatches) ELSE Abstract!Size(live.length)
  OBVIOUS
<1>2. done = Done /\ (f => Total - Done = run.remaining + 1)
  BY Outcome, AbstractNames DEF IInv
<1>3. run.active /\ run'.active = FALSE
  BY DEF EndTransfer, Idle
<1>4. run.c64 = At(Done) /\ run.reu = Off(Done)
  BY <1>3 DEF IInv, LoopInv
<1>5. Abstract!Leave(done, f)
  <2>1. live' = IF cmd.autoload THEN shadow
                ELSE [c64 |-> At(Done), reu |-> Off(Done) % TopSpace,
                      length |-> IF f THEN (Total - Done) % Space ELSE 1]
    BY <1>2, <1>4 DEF EndTransfer
  <2> QED BY <1>2, <2>1, AbstractNames DEF IInv, Abstract!Leave
<1>6. FinishTransfer(f) /\ UNCHANGED <<c64, exp, shadow, ctl, mask, pending>> /\ start' = <<c64, exp>>
  BY DEF EndTransfer
<1>7. cmd' = [cmd EXCEPT !.execute = FALSE]
  BY <1>6 DEF FinishTransfer
<1>8. cmd.type \in Types
  BY DEF IInv, TypeInv
<1>9. cmd.type = "verify" => UNCHANGED <<start[1], start[2]>>
  BY <1>3, <1>6 DEF IInv, DataInv, Verified
<1>10. (CASE cmd.type = "stash" -> Abstract!Stash
          [] cmd.type = "fetch" -> Abstract!Fetch
          [] cmd.type = "swap" -> Abstract!Swap
          [] cmd.type = "verify" -> UNCHANGED <<start[1], start[2]>>)
  BY <1>8, <1>9, StashDone, FetchDone, SwapDone DEF Types
<1>11. Event' = (IF f THEN "fault" ELSE "done")
       /\ ("irq" \in status)' = ("irq" \in status \/ {"on", IF f THEN "fault" ELSE "done"} \subseteq mask)
  BY <1>6, Status
<1> QED BY <1>1, <1>3, <1>5, <1>6, <1>7, <1>10, <1>11 DEF Abstract!Transfer

\* Every step of the unit is a step of the abstract one or leaves it alone:
\* the bytes of a transfer are invisible until its end.
LEMMA NextRefines ==
    ASSUME IInv, [Next]_vars
    PROVE  [Abstract!Next]_(Abstract!vars)
<1>1. CASE MoveByte
  <2>1. ~pending /\ pending \in BOOLEAN
    BY <1>1 DEF MoveByte, IInv, Inv, Typed, NothingArmedInside
  <2>2. pending' = pending
    BY <1>1, <2>1 DEF MoveByte, NoteFF00Inside
  <2>3. run'.active = run.active /\ UNCHANGED <<start, live, shadow, cmd, ctl, mask, status>>
    BY <1>1, ByteMoved DEF MoveByte, IInv, TypeInv, RunType
  <2> QED BY <2>2, <2>3 DEF Abstract!vars, Event
<1>2. CASE EndTransfer
  BY <1>2, TransferRefines DEF Abstract!Next
<1>3. CASE ReadStatus
  <2>1. Abstract!ReadStatus
    BY <1>3 DEF ReadStatus, Abstract!ReadStatus, Event
  <2> QED BY <2>1 DEF Abstract!Next
<1>4. ASSUME NEW c \in Commands, WriteCommand(c) PROVE Abstract!Next
  <2>0. /\ ~run.active /\ pending \in BOOLEAN /\ UNCHANGED <<c64, exp, live, shadow, ctl, mask, status>>
        /\ cmd' = [type |-> c.type, autoload |-> c.autoload, execute |-> c.execute]
        /\ start = <<c64, exp>>
    BY <1>4 DEF WriteCommand, Program, IInv, Inv, Typed, DataInv
  <2>a. {c.execute, c.now} \subseteq BOOLEAN
    BY UnitAssumption
  <2>1. run'.active = (c.execute /\ c.now) /\ start' = start
    <3>1. CASE c.execute /\ c.now
      <4>1. run'.active = TRUE /\ start' = start
        BY <1>4, <2>0, <3>1 DEF WriteCommand, Begin, Locals
      <4> QED BY <3>1, <4>1, <2>a, Zenon
    <3>2. CASE ~(c.execute /\ c.now)
      BY <1>4, <2>0, <3>2 DEF WriteCommand, IInv, TypeInv, RunType
    <3> QED BY <3>1, <3>2
  <2>2. pending' = IF c.execute THEN ~c.now ELSE pending
    <3>1. CASE c.execute /\ c.now
      BY <1>4, <3>1 DEF WriteCommand, Begin
    <3>2. CASE ~(c.execute /\ c.now)
      <4>1. pending' = (pending \/ c.execute)
        BY <1>4, <3>2 DEF WriteCommand
      <4> QED BY <2>0, <2>a, <3>2, <4>1, Zenon
    <3> QED BY <3>1, <3>2
  <2>3. Abstract!Command(c)
    BY <2>0, <2>1, <2>2 DEF Abstract!Command, Event
  <2> QED BY <2>3 DEF Abstract!Next
<1>5. ASSUME NEW b \in Bytes, WriteRegister(b) PROVE Abstract!Next
  <2>0. b \in 0 .. Radix - 1 /\ TypeInv
    BY UnitAssumption DEF IInv
  <2>1. ASSUME NEW f \in {"c64", "reu", "length"}, NEW v,
               live' = [live EXCEPT ![f] = v] /\ shadow' = [shadow EXCEPT ![f] = v]
        PROVE  Abstract!Load(f, v)
    BY <1>5, <2>0, <2>1, Loaded DEF Abstract!Load, Event
  <2>2. \A f \in {"c64", "reu", "length"} : live[f] \in Nat
    BY <2>0 DEF TypeInv, RegType
  <2>3. CASE \E f \in {"c64", "reu", "length"} : \E v \in {Low(live[f], b), High(live[f], b)} :
                live' = [live EXCEPT ![f] = v] /\ shadow' = [shadow EXCEPT ![f] = v]
    <3> PICK f \in {"c64", "reu", "length"} : \E v \in {Low(live[f], b), High(live[f], b)} :
                live' = [live EXCEPT ![f] = v] /\ shadow' = [shadow EXCEPT ![f] = v]
      BY <2>3
    <3>1. Low(live[f], b) = Abstract!Low(live[f], b) /\ High(live[f], b) = Abstract!High(live[f], b)
      BY <2>0, <2>2, LowByte, HighByte
    <3>2. Abstract!Load(f, Abstract!Low(live[f], b)) \/ Abstract!Load(f, Abstract!High(live[f], b))
      BY <2>1, <3>1
    <3> QED BY <3>2 DEF Abstract!Next, Abstract!Address
  <2>4. CASE live' = [live EXCEPT !.reu = Banked(live.reu, b)]
             /\ shadow' = [shadow EXCEPT !.reu = Banked(live.reu, b)]
    <3>1. Banked(live.reu, b) = Abstract!Banked(live.reu, b)
      BY <2>0, <2>2, BankByte DEF TypeInv, RegType
    <3>2. Abstract!Load("reu", Abstract!Banked(live.reu, b))
      BY <2>1, <2>4, <3>1
    <3> QED BY <3>2 DEF Abstract!Next, Abstract!Address
  <2> QED BY <1>5, <2>0, <2>3, <2>4, Loaded
<1>6. ASSUME NEW k \in Controls, WriteControl(k) PROVE Abstract!Next
  <2>1. Abstract!Control(k)
    BY <1>6 DEF WriteControl, Program, Abstract!Control, Event
  <2> QED BY <2>1 DEF Abstract!Next
<1>7. ASSUME NEW k \in Masks, WriteMask(k) PROVE Abstract!Next
  <2>1. Abstract!Mask(k)
    BY <1>7 DEF WriteMask, Program, Abstract!Mask, Event
  <2> QED BY <2>1 DEF Abstract!Next
<1>8. ASSUME NEW s \in Stores, HostStore(s) PROVE Abstract!Next
  <2>0. /\ ~run.active /\ pending \in BOOLEAN
        /\ UNCHANGED <<exp, live, shadow, cmd, ctl, mask, status>>
        /\ start = <<c64, exp>>
    BY <1>8 DEF HostStore, Program, IInv, Inv, Typed, DataInv
  <2>1. start' = <<[c64 EXCEPT ![s[1]] = s[2]], exp>>
    BY <1>8 DEF HostStore, Begin
  <2>2. run'.active = (pending /\ s[1] = Trigger) /\ pending' = (pending /\ s[1] # Trigger)
    <3>1. CASE s[1] = Trigger /\ pending
      <4>1. run'.active = TRUE /\ pending' = FALSE
        BY <1>8, <3>1 DEF HostStore, Begin, Locals
      <4> QED BY <2>0, <3>1, <4>1, Zenon
    <3>2. CASE ~(s[1] = Trigger /\ pending)
      <4>1. run' = run /\ pending' = pending
        BY <1>8, <3>2 DEF HostStore
      <4>2. run.active = FALSE
        BY <2>0 DEF IInv, TypeInv, RunType
      <4> QED BY <2>0, <3>2, <4>1, <4>2, Zenon
    <3> QED BY <3>1, <3>2
  <2>3. Abstract!Store(s)
    BY <2>0, <2>1, <2>2 DEF Abstract!Store, Event
  <2> QED BY <2>3 DEF Abstract!Next
<1>9. CASE UNCHANGED vars
  BY <1>9 DEF vars, Abstract!vars, Event
<1> QED BY <1>1, <1>2, <1>3, <1>4, <1>5, <1>6, <1>7, <1>8, <1>9 DEF Next

\* The unit implements the block transfer it promises: the byte loop of
\* executeTransfer with its wraps, early stop, autoload and status updates is
\* one abstract step, for every register width, fitted size and program.
THEOREM BlockTransferImplemented == Spec => ImplementsBlockTransfer
<1>1. Init => Abstract!Init
  BY InitRefines
<1>2. IInv /\ [Next]_vars => [Abstract!Next]_(Abstract!vars)
  BY NextRefines
<1> QED BY IInvInit, IInvStep, <1>1, <1>2, PTL DEF Spec, ImplementsBlockTransfer, Abstract!Spec
=============================================================================
