--------------------------- MODULE WriteBufferProofs ---------------------------
(***************************************************************************)
(* Proofs about WriteBuffer, for every address space, policy and schedule. *)
(***************************************************************************)
EXTENDS PointerOrder, FiniteSetTheorems, TLAPS

\* A call in progress: a drain and a bulk re-issue never overlap, a drain runs
\* only while the mirror is enabled, and its chunk never exceeds its budget.
CallInv ==
    /\ ~scan.on => scan = NoScan
    /\ scan.on => delivery /\ replay = <<>>
    /\ scan.room <= scan.budget

--------------------------------------------------------------------------------
(* Facts about the operators.                                                 *)

\* A relocated byte is delivered to an address, whatever the tables hold.
LEMMA TargetType ==
    ASSUME TypeOK, NEW a \in Addr
    PROVE  Target(a) \in Addr
  BY RelocationAssumption DEF Target, Relocated, TypeOK, Addr, Block, Offset

\* What is delivered is a byte value, translated or not.
LEMMA DeliverValueType ==
    ASSUME TypeOK, NEW a \in Addr, NEW v \in Value
    PROVE  DeliverValue(a, v) \in Value
  BY RelocationAssumption DEF DeliverValue, Relocated, TypeOK

\* The authoritative shadow byte is a byte value.
LEMMA AuthorityType ==
    ASSUME TypeOK, NEW a \in Addr
    PROVE  Authority(a) \in Value
<1>1. CASE Stolen(a[1])
  <2>1. SourceOf(a[1]) \in UnderIO
    BY <1>1 DEF Stolen, SourceOf
  <2>2. <<SourceOf(a[1]), a[2]>> \in Addr
    BY <2>1, RelocationAssumption DEF Addr
  <2> QED BY <1>1, <2>2 DEF Authority, TypeOK
<1>2. CASE ~Stolen(a[1])
  BY <1>2 DEF Authority, TypeOK
<1> QED BY <1>1, <1>2

\* Moving an entry to the tail keeps a sequence of addresses of equal length.
LEMMA MoveToTailType ==
    ASSUME TypeOK, NEW a \in Addr
    PROVE  MoveToTail(a) \in Seq(Addr)
<1> DEFINE p == CHOOSE i \in DOMAIN queue : queue[i] = a
           q == MoveToTail(a)
<1>1. q = [i \in 1 .. Len(queue) |-> IF i < p THEN queue[i]
                                ELSE IF i < Len(queue) THEN queue[i + 1] ELSE a]
  BY DEF MoveToTail, TypeOK
<1>2. \A i \in 1 .. Len(queue) :
         (IF i < p THEN queue[i] ELSE IF i < Len(queue) THEN queue[i + 1] ELSE a)
         \in Addr
  BY DEF TypeOK
<1> HIDE DEF p, q
<1>3. q \in [1 .. Len(queue) -> Addr]
  BY <1>1, <1>2
<1>4. Len(queue) \in Nat
  BY DEF TypeOK
<1>5. q \in Seq(Addr)
  BY <1>3, <1>4
<1> QED BY <1>5 DEF q

\* The cursor of the background sweep stays inside the address space.
LEMMA NextAddrType ==
    ASSUME TypeOK, NEW a \in Addr
    PROVE  NextAddr(a) \in Addr
<1>1. OptRange[mode] \in Block \X Block
  BY PolicyAssumption DEF TypeOK
<1>2. a[1] \in Block /\ a[2] \in Offset /\ TopOffset \in Offset /\ 0 \in Offset /\ 0 \in Block
  BY SpaceAssumption DEF Addr, Block, Offset
<1>3. OptRange[mode][1] \in Block
  BY <1>1
<1> QED BY <1>2, <1>3, SpaceAssumption DEF NextAddr, Addr, Block, Offset

\* onRamWrite keeps the types of everything it changes.
LEMMA OnRamWriteType ==
    ASSUME TypeOK, NEW a \in Addr, NEW v \in Value, OnRamWrite(a, v)
    PROVE  /\ pending' \in [Addr -> Value]
           /\ dirty' \in SUBSET Addr
           /\ synced' \in SUBSET Addr
           /\ queue' \in Seq(Addr)
           /\ queueLag' \in 0 .. GenMod - 1
           /\ Suspects(a, v) \in SUBSET Addr
<1> DEFINE t == Target(a)
<1>1. t \in Addr
  BY TargetType
<1>2. MoveToTail(t) \in Seq(Addr)
  BY <1>1, MoveToTailType
<1>3. Suspects(a, v) \in SUBSET Addr
  BY <1>1 DEF Suspects, TypeOK
<1>4. CASE TimingOnly
  BY <1>3, <1>4 DEF TimingOnly, bufferVars, TypeOK
<1>5. CASE Skipped(a)
  BY <1>3, <1>5 DEF Skipped, TypeOK
<1>6. CASE Eliminated(a, v)
  BY <1>3, <1>6 DEF Eliminated, bufferVars, TypeOK
<1>7. CASE Accepted(a, v)
  <2> HIDE DEF t
  <2>1. /\ synced' \in SUBSET Addr
        /\ pending' \in [Addr -> Value]
        /\ dirty' \in SUBSET Addr
    BY <1>1, <1>7 DEF Accepted, TypeOK, t
  <2>5. Append(queue, t) \in Seq(Addr)
    BY <1>1 DEF TypeOK
  <2>6. queue' \in {queue, MoveToTail(t), Append(queue, t)}
    BY <1>7 DEF Accepted, Requeued, t
  <2>2. queue' \in Seq(Addr)
    BY <1>2, <2>5, <2>6 DEF TypeOK
  <2>3. (queueLag + 1) % GenMod \in 0 .. GenMod - 1 /\ 0 \in 0 .. GenMod - 1
    BY SpaceAssumption DEF TypeOK
  <2>4. queueLag' \in 0 .. GenMod - 1
    BY <1>7, <2>3 DEF Accepted, TypeOK
  <2> QED BY <1>3, <2>1, <2>2, <2>4
<1> QED BY <1>4, <1>5, <1>6, <1>7 DEF OnRamWrite

--------------------------------------------------------------------------------
(* Types and the call discipline.                                             *)

\* Every record of a drain in progress is well typed and within its budget.
LEMMA NewChunkType ==
    ASSUME NEW d \in DrainArgs, NEW n \in Nat, NEW q \in Seq(Addr), NEW e \in Seq(Addr)
    PROVE  /\ NewChunk(d, n, q, e) \in
                 [on : BOOLEAN, args : DrainArgs, left : Nat, room : Nat,
                  budget : Nat, burst : SUBSET Addr, entry : Seq(Addr)]
           /\ NewChunk(d, n, q, e).on
           /\ NewChunk(d, n, q, e).room <= NewChunk(d, n, q, e).budget
<1>1. Lesser(n, Chunk) \in Nat /\ Lesser(n, Chunk) <= n
  BY DrainAssumption DEF Lesser
<1>2. Len(q) \in Nat
  OBVIOUS
<1> QED BY <1>1, <1>2 DEF NewChunk

\* The record of no drain is well typed.
LEMMA NoScanType ==
    /\ NoScan \in [on : BOOLEAN, args : DrainArgs, left : Nat, room : Nat,
                   budget : Nat, burst : SUBSET Addr, entry : Seq(Addr)]
    /\ ~NoScan.on
    /\ NoScan.room <= NoScan.budget
    /\ NoScan.burst = {}
    /\ NoArgs \in DrainArgs
<1>1. NoArgs \in DrainArgs
  BY DEF NoArgs, DrainArgs
<1>2. <<>> \in Seq(Addr)
  OBVIOUS
<1> QED BY <1>1, <1>2 DEF NoScan

\* The initial state is well typed and idle.
LEMMA InitType == Init => TypeOK /\ CallInv
<1> SUFFICES ASSUME Init PROVE TypeOK /\ CallInv
  OBVIOUS
<1>1. scan = NoScan /\ replay = <<>> /\ delivery
  BY DEF Init
<1>2. CallInv
  BY <1>1, NoScanType DEF CallInv
<1>3. scan \in [on : BOOLEAN, args : DrainArgs, left : Nat, room : Nat,
                budget : Nat, burst : SUBSET Addr, entry : Seq(Addr)]
  BY <1>1, NoScanType
<1>4. cursor \in Addr /\ queueLag \in 0 .. GenMod - 1
  BY SpaceAssumption DEF Init, Addr, Block, Offset
<1>5. noProgress \in [valid : BOOLEAN, args : DrainArgs]
  BY NoScanType DEF Init
<1>6. hot \in SUBSET Block
  BY DrainAssumption DEF Init
<1>7. /\ ram \in [Addr -> Value] /\ dram \in [Addr -> Value] /\ pending \in [Addr -> Value]
      /\ reloc \in [UnderIO -> Low \cup {NoBlock}]
  BY SpaceAssumption DEF Init
<1>8. queue \in Seq(Addr) /\ replay \in Seq(Addr)
  BY DEF Init
<1>9. /\ mode \in OptMode /\ excludeZP \in BOOLEAN /\ delivery \in BOOLEAN
      /\ dirty \in SUBSET Addr /\ synced \in SUBSET Addr /\ suspect \in SUBSET Addr
      /\ hotMoved \in BOOLEAN
  BY DEF Init, OptMode
<1> QED BY <1>2, <1>3, <1>4, <1>5, <1>6, <1>7, <1>8, <1>9 DEF TypeOK

\* The part of the state that a store, direct or re-issued, leaves alone.
LEMMA StoreType ==
    ASSUME TypeOK, CallInv, NEW a \in Addr, NEW v \in Value, OnRamWrite(a, v),
           suspect' \in SUBSET Addr, UNCHANGED <<policyVars, noProgress, cursor, scan>>,
           hotMoved' \in BOOLEAN, ram' \in [Addr -> Value], dram' \in [Addr -> Value],
           hot' \in SUBSET Block, reloc' \in [UnderIO -> Low \cup {NoBlock}],
           replay' \in Seq(Addr), ~scan.on
    PROVE  TypeOK' /\ CallInv'
<1>1. /\ pending' \in [Addr -> Value] /\ dirty' \in SUBSET Addr
      /\ synced' \in SUBSET Addr /\ queue' \in Seq(Addr)
      /\ queueLag' \in 0 .. GenMod - 1
  BY OnRamWriteType
<1>2. CallInv'
  BY DEF CallInv
<1>3. TypeOK'
  BY <1>1 DEF TypeOK, policyVars
<1> QED BY <1>2, <1>3

\* Every action keeps the types and the call discipline.
LEMMA NextType == TypeOK /\ CallInv /\ [Next]_vars => TypeOK' /\ CallInv'
<1> SUFFICES ASSUME TypeOK, CallInv, [Next]_vars PROVE TypeOK' /\ CallInv'
  OBVIOUS
<1>a. ASSUME NEW a \in Addr, NEW v \in Value, Write(a, v)
      PROVE  TypeOK' /\ CallInv'
  <2>1. suspect' \in SUBSET Addr
    BY <1>a, OnRamWriteType DEF Write
  <2>2. ram' \in [Addr -> Value]
    BY <1>a DEF Write, TypeOK
  <2>3. /\ OnRamWrite(a, v) /\ ~scan.on
        /\ UNCHANGED <<policyVars, noProgress, hotMoved, dram, hot, reloc, cursor, scan, replay>>
    BY <1>a DEF Write, Idle, cacheVars
  <2>4. /\ hotMoved' \in BOOLEAN /\ dram' \in [Addr -> Value] /\ hot' \in SUBSET Block
        /\ reloc' \in [UnderIO -> Low \cup {NoBlock}] /\ replay' \in Seq(Addr)
    BY <2>3 DEF TypeOK
  <2> QED BY <2>1, <2>2, <2>3, <2>4, StoreType
<1>b. ASSUME NEW a \in Addr, NEW v \in Value, NEW h \in HotSets, PointerWrite(a, v, h)
      PROVE  TypeOK' /\ CallInv'
  <2>1. suspect' \in SUBSET Addr
    BY <1>b, OnRamWriteType DEF PointerWrite
  <2>2. ram' \in [Addr -> Value]
    BY <1>b DEF PointerWrite, TypeOK
  <2>3. /\ OnRamWrite(a, v) /\ ~scan.on
        /\ UNCHANGED <<policyVars, noProgress, reloc, cursor, scan, replay>>
    BY <1>b DEF PointerWrite, Idle
  <2>4. (IF a \in Bank3Row /\ Relocated(v) THEN reloc[v] ELSE v) \in Value
    BY RelocationAssumption DEF Relocated, TypeOK
  <2>5. dram' \in [Addr -> Value]
    BY <1>b, <2>4 DEF PointerWrite, TypeOK
  <2>6. /\ hotMoved' \in BOOLEAN /\ hot' \in SUBSET Block
        /\ reloc' \in [UnderIO -> Low \cup {NoBlock}] /\ replay' \in Seq(Addr)
    BY <1>b, <2>3, DrainAssumption DEF TypeOK, PointerWrite
  <2> QED BY <2>1, <2>2, <2>3, <2>5, <2>6, StoreType
<1>c. ASSUME NEW a \in Addr, NEW v \in Value, NEW r \in Low, NEW h \in HotSets,
             AllocRelocBlock(a, v, r, h)
      PROVE  TypeOK' /\ CallInv'
  <2>1. suspect' \in SUBSET Addr
    BY <1>c, OnRamWriteType, RelocationAssumption DEF AllocRelocBlock
  <2>2. ram' \in [Addr -> Value]
    BY <1>c DEF AllocRelocBlock, TypeOK
  <2>3. /\ OnRamWrite(a, v) /\ ~scan.on
        /\ UNCHANGED <<policyVars, noProgress, cursor, scan>>
    BY <1>c DEF AllocRelocBlock, Idle
  <2>4. dram' \in [Addr -> Value] /\ reloc' \in [UnderIO -> Low \cup {NoBlock}]
    BY <1>c, RelocationAssumption DEF AllocRelocBlock, TypeOK
  <2>5. hotMoved' \in BOOLEAN /\ hot' \in SUBSET Block
    BY <1>c, DrainAssumption DEF AllocRelocBlock
  <2>6. replay' \in Seq(Addr)
    <3>1. v \in Block
      BY <1>c, RelocationAssumption DEF AllocRelocBlock
    <3>2. \A i \in 1 .. TopOffset + 1 : <<v, i - 1>> \in Addr
      BY <3>1, SpaceAssumption DEF Addr, Offset
    <3>3. replay' \in [1 .. TopOffset + 1 -> Addr]
      BY <1>c, <3>2 DEF AllocRelocBlock
    <3> QED BY <3>3, SpaceAssumption
  <2> QED BY <2>1, <2>2, <2>3, <2>4, <2>5, <2>6, StoreType
<1>d. CASE Replay
  <2>1. Head(replay) \in Addr /\ Tail(replay) \in Seq(Addr)
    BY <1>d DEF Replay, TypeOK
  <2>2. ram[Head(replay)] \in Value
    BY <2>1 DEF TypeOK
  <2>3. /\ OnRamWrite(Head(replay), ram[Head(replay)]) /\ ~scan.on
        /\ UNCHANGED <<policyVars, noProgress, hotMoved, ram, dram, hot, reloc, cursor, scan>>
        /\ replay' = Tail(replay)
    BY <1>d DEF Replay, CallInv, cacheVars, sharedVars
  <2>4. suspect' \in SUBSET Addr
    BY <1>d, <2>1, <2>2, <2>3, OnRamWriteType DEF Replay
  <2>5. /\ hotMoved' \in BOOLEAN /\ dram' \in [Addr -> Value] /\ hot' \in SUBSET Block
        /\ ram' \in [Addr -> Value]
        /\ reloc' \in [UnderIO -> Low \cup {NoBlock}] /\ replay' \in Seq(Addr)
    BY <2>1, <2>3 DEF TypeOK
  <2> QED BY <2>1, <2>2, <2>3, <2>4, <2>5, StoreType
<1>e. ASSUME NEW h \in HotSets, UpdateHotShapeBlocks(h)
      PROVE  TypeOK' /\ CallInv'
  BY <1>e, DrainAssumption
  DEF UpdateHotShapeBlocks, TypeOK, CallInv, bufferVars, policyVars
<1>f. ASSUME NEW p \in Policies, SetOptimisation(p)
      PROVE  TypeOK' /\ CallInv'
  <2>1. p[1] \in OptMode /\ p[2] \in BOOLEAN
    BY PolicyAssumption
  <2> QED BY <1>f, <2>1
          DEF SetOptimisation, TypeOK, CallInv, bufferVars, cacheVars, sharedVars
<1>0. ASSUME Discard
      PROVE  /\ dirty' \in SUBSET Addr /\ synced' \in SUBSET Addr /\ queue' \in Seq(Addr)
             /\ queueLag' \in 0 .. GenMod - 1 /\ suspect' \in SUBSET Addr
             /\ noProgress' \in [valid : BOOLEAN, args : DrainArgs]
             /\ pending' \in [Addr -> Value]
  <2>1. 0 \in 0 .. GenMod - 1
    BY SpaceAssumption
  <2>2. noProgress' \in [valid : BOOLEAN, args : DrainArgs]
    BY <1>0 DEF Discard, TypeOK
  <2> QED BY <1>0, <2>1, <2>2 DEF Discard, TypeOK
<1>g. CASE Reset
  <2>1. /\ ram' \in [Addr -> Value] /\ hot' \in SUBSET Block
        /\ reloc' \in [UnderIO -> Low \cup {NoBlock}]
    BY <1>g, SpaceAssumption, DrainAssumption DEF Reset
  <2>2. CallInv'
    BY <1>g DEF Reset, CallInv
  <2> QED BY <1>g, <1>0, <2>1, <2>2 DEF Reset, TypeOK, OptMode
<1>h. CASE DisablePhysicalMirror
  BY <1>h, <1>0 DEF DisablePhysicalMirror, TypeOK, CallInv, sharedVars, Idle
<1>i. ASSUME NEW s \in WorkingSets, EnablePhysicalMirror(s)
      PROVE  TypeOK' /\ CallInv'
  <2>1. s \in Seq(Addr)
    BY DrainAssumption
  <2> QED BY <1>i, <1>0, <2>1
          DEF EnablePhysicalMirror, TypeOK, CallInv, sharedVars, Idle
<1>j. ASSUME NEW d \in Drains, NEW n \in MaxBytes, FlushBegin(d, n)
      PROVE  TypeOK' /\ CallInv'
  <2>1. d \in DrainArgs /\ n \in Nat /\ queue \in Seq(Addr)
    BY DrainAssumption DEF TypeOK
  <2>2. /\ scan' \in [on : BOOLEAN, args : DrainArgs, left : Nat, room : Nat,
                      budget : Nat, burst : SUBSET Addr, entry : Seq(Addr)]
        /\ scan'.on /\ scan'.room <= scan'.budget
    BY <1>j, <2>1, NewChunkType DEF FlushBegin
  <2>3. CallInv'
    BY <1>j, <2>2 DEF FlushBegin, CallInv, Idle, policyVars
  <2> QED BY <1>j, <2>2, <2>3
          DEF FlushBegin, TypeOK, bufferVars, policyVars, cacheVars, sharedVars
<1>k. CASE Take
  <2>1. queue' \in Seq(Addr) /\ Head(queue) \in Addr
    BY <1>k DEF Take, Scanning, TypeOK
  <2>2. /\ scan.left - 1 \in Nat /\ scan.room - 1 \in Nat /\ scan.budget - 1 \in Nat
    BY <1>k, SMTT(30) DEF Take, Scanning, TypeOK, CallInv
  <2>3. scan' \in [on : BOOLEAN, args : DrainArgs, left : Nat, room : Nat,
                   budget : Nat, burst : SUBSET Addr, entry : Seq(Addr)]
    BY <1>k, <2>1, <2>2 DEF Take, TypeOK
  <2>4. /\ scan'.on = scan.on /\ scan'.room = scan.room - 1
        /\ scan'.budget = scan.budget - 1 /\ scan.on
    BY <1>k DEF Take, Scanning, TypeOK
  <2>5. scan'.room <= scan'.budget
    BY <2>4 DEF CallInv, TypeOK
  <2>6. CallInv'
    BY <1>k, <2>4, <2>5 DEF Take, CallInv, policyVars
  <2> QED BY <1>k, <2>1, <2>3, <2>6 DEF Take, TypeOK, policyVars, cacheVars, sharedVars
<1>l. CASE Defer
  <2>1. queue' \in Seq(Addr)
    <3>1. Tail(queue) \in Seq(Addr) /\ Head(queue) \in Addr
      BY <1>l DEF Defer, Scanning, TypeOK
    <3> QED BY <1>l, <3>1 DEF Defer
  <2>2. scan.left - 1 \in Nat
    BY <1>l DEF Defer, Scanning, TypeOK
  <2>3. scan' \in [on : BOOLEAN, args : DrainArgs, left : Nat, room : Nat,
                   budget : Nat, burst : SUBSET Addr, entry : Seq(Addr)]
    BY <1>l, <2>2 DEF Defer, TypeOK
  <2>4. /\ scan'.on = scan.on /\ scan'.room = scan.room
        /\ scan'.budget = scan.budget /\ scan.on
    BY <1>l DEF Defer, Scanning, TypeOK
  <2>5. CallInv'
    BY <1>l, <2>4 DEF Defer, CallInv, policyVars
  <2> QED BY <1>l, <2>1, <2>3, <2>5 DEF Defer, TypeOK, policyVars, cacheVars, sharedVars
<1>m. CASE SendBurst
  <2>1. dram' \in [Addr -> Value]
    <3>1. \A a \in Addr : DeliverValue(a, pending[a]) \in Value
      BY DeliverValueType DEF TypeOK
    <3> QED BY <1>m, <3>1 DEF SendBurst, TypeOK
  <2>2. scan' \in {NoScan, NewChunk(scan.args, scan.budget, queue, scan.entry)}
    BY <1>m DEF SendBurst
  <2>3. /\ scan.args \in DrainArgs /\ scan.budget \in Nat /\ queue \in Seq(Addr)
        /\ scan.entry \in Seq(Addr)
    BY DEF TypeOK
  <2>4. /\ scan' \in [on : BOOLEAN, args : DrainArgs, left : Nat, room : Nat,
                      budget : Nat, burst : SUBSET Addr, entry : Seq(Addr)]
        /\ scan'.room <= scan'.budget
        /\ ~scan'.on => scan' = NoScan
    BY <2>2, <2>3, NewChunkType, NoScanType, SMTT(30)
  <2>5. CallInv'
    BY <1>m, <2>4 DEF SendBurst, CallInv, policyVars
  <2>6. queueLag' \in 0 .. GenMod - 1
    BY <1>m, SpaceAssumption DEF SendBurst
  <2>7. noProgress' \in [valid : BOOLEAN, args : DrainArgs]
    BY <1>m DEF SendBurst, TypeOK
  <2>8. dirty' \in SUBSET Addr /\ synced' \in SUBSET Addr
    BY <1>m DEF SendBurst, TypeOK
  <2> QED BY <1>m, <2>1, <2>4, <2>5, <2>6, <2>7, <2>8 DEF SendBurst, TypeOK, policyVars
<1>n. CASE NoneTaken
  <2>1. CallInv' /\ scan' = NoScan
    BY <1>n, NoScanType DEF NoneTaken, CallInv
  <2>2. /\ noProgress' \in [valid : BOOLEAN, args : DrainArgs]
        /\ queueLag' \in 0 .. GenMod - 1 /\ hotMoved' \in BOOLEAN
    <3>1. 0 \in 0 .. GenMod - 1 /\ scan.args \in DrainArgs
      BY SpaceAssumption DEF TypeOK
    <3>2. CASE scan.args.only
      BY <1>n, <3>2 DEF NoneTaken, TypeOK, cacheVars
    <3>3. CASE ~scan.args.only
      <4>1. /\ noProgress' = [valid |-> TRUE, args |-> scan.args]
            /\ queueLag' = 0 /\ hotMoved' = FALSE
        BY <1>n, <3>3 DEF NoneTaken
      <4> QED BY <3>1, <4>1
    <3> QED BY <3>2, <3>3
  <2> QED BY <1>n, <2>1, <2>2, NoScanType
          DEF NoneTaken, TypeOK, policyVars, sharedVars
<1>0b. ASSUME NEW a \in Addr, Redeliver(a)
       PROVE  /\ dram' \in [Addr -> Value] /\ synced' \in SUBSET Addr
              /\ suspect' \in SUBSET Addr
  <2>1. DeliverValue(a, Authority(a)) \in Value
    BY AuthorityType, DeliverValueType
  <2> QED BY <1>0b, <2>1 DEF Redeliver, TypeOK
<1>o. CASE ResyncSweep
  <2>1. cursor \in Addr /\ cursor' \in Addr
    BY <1>o, NextAddrType DEF ResyncSweep, TypeOK
  <2>2. /\ dram' \in [Addr -> Value] /\ synced' \in SUBSET Addr
        /\ suspect' \in SUBSET Addr
    BY <1>o, <1>0b, <2>1 DEF ResyncSweep, TypeOK
  <2> QED BY <1>o, <2>1, <2>2 DEF ResyncSweep, TypeOK, CallInv, policyVars, cacheVars
<1>p. ASSUME NEW a \in Addr, ResyncDisplayed(a)
      PROVE  TypeOK' /\ CallInv'
  <2>1. /\ dram' \in [Addr -> Value] /\ synced' \in SUBSET Addr
        /\ suspect' \in SUBSET Addr
    BY <1>p, <1>0b DEF ResyncDisplayed
  <2> QED BY <1>p, <2>1 DEF ResyncDisplayed, TypeOK, CallInv, policyVars, cacheVars
<1>q. CASE UNCHANGED vars
  BY <1>q DEF vars, bufferVars, policyVars, cacheVars, sharedVars, TypeOK, CallInv
<1> QED BY <1>a, <1>b, <1>c, <1>d, <1>e, <1>f, <1>g, <1>h, <1>i, <1>j, <1>k, <1>l,
           <1>m, <1>n, <1>o, <1>p, <1>q
        DEF Next, Program, Control, Drain, Resync

\* Type correctness of the mirror queue, for every constant.
THEOREM TypeCorrect == Spec => []TypeOK
<1>1. Init => TypeOK /\ CallInv
  BY InitType
<1>2. (TypeOK /\ CallInv) /\ [Next]_vars => (TypeOK /\ CallInv)'
  BY NextType
<1> QED BY <1>1, <1>2, PTL DEF Spec

--------------------------------------------------------------------------------
(* The ring: facts about sequences without repetition.                        *)

Elems(q) == {q[i] : i \in DOMAIN q}
Distinct(q) == \A i, j \in DOMAIN q : q[i] = q[j] => i = j

\* There are finitely many addresses, and at most Capacity of them.
LEMMA AddrFinite == IsFiniteSet(Addr)
<1>1. IsFiniteSet(Block) /\ IsFiniteSet(Offset)
  BY FS_Interval, SpaceAssumption DEF Block, Offset
<1> QED BY <1>1, FS_Product DEF Addr

\* A queue without repetition that lacks an address has a free slot, so the
\* overflow branch of onRamWrite, which would mark a byte dirty without
\* queueing it, is never taken.
LEMMA FreeSlot ==
    ASSUME NEW q \in Seq(Addr), Distinct(q), NEW t \in Addr, t \notin Elems(q)
    PROVE  Len(q) < Capacity
<1> DEFINE T == Addr \ {t}
           S == 1 .. Len(q)
<1>1. IsFiniteSet(T) /\ Cardinality(T) = Cardinality(Addr) - 1
  BY AddrFinite, FS_RemoveElement
<1>2. IsFiniteSet(S) /\ Cardinality(S) = Len(q)
  <2>1. Len(q) \in Nat
    OBVIOUS
  <2> QED BY <2>1, FS_Interval, SMTT(30)
<1>3. q \in [S -> T]
  <2>1. q \in [S -> Addr]
    OBVIOUS
  <2>2. \A i \in S : q[i] # t
    BY DEF Elems
  <2> QED BY <2>1, <2>2
<1>4. ~ \E x, y \in S : x # y /\ q[x] = q[y]
  BY DEF Distinct
<1>5. ~(Cardinality(T) < Cardinality(S))
  <2> HIDE DEF S, T
  <2> QED BY <1>1, <1>2, <1>3, <1>4, FS_PigeonHole
<1>6. Cardinality(Addr) \in Nat /\ Len(q) \in Nat
  BY AddrFinite, FS_CardinalityType
<1> QED BY <1>1, <1>2, <1>5, <1>6, SpaceAssumption

\* Queueing an address that is not queued.
LEMMA AppendRing ==
    ASSUME NEW q \in Seq(Addr), Distinct(q), NEW t \in Addr, t \notin Elems(q)
    PROVE  Distinct(Append(q, t)) /\ Elems(Append(q, t)) = Elems(q) \cup {t}
<1> DEFINE r == Append(q, t)
<1>1. /\ DOMAIN q = 1 .. Len(q) /\ DOMAIN r = 1 .. Len(q) + 1
      /\ Len(q) \in Nat
      /\ \A i \in 1 .. Len(q) : r[i] = q[i]
      /\ r[Len(q) + 1] = t
  OBVIOUS
<1>2. DOMAIN r = DOMAIN q \cup {Len(q) + 1}
  BY <1>1
<1> HIDE DEF r
<1>3. Distinct(r)
  BY <1>1, <1>2 DEF Distinct, Elems
<1>4. Elems(r) = Elems(q) \cup {t}
  BY <1>1, <1>2 DEF Elems
<1> QED BY <1>3, <1>4 DEF r

\* Taking the oldest entry.
LEMMA TailRing ==
    ASSUME NEW q \in Seq(Addr), Distinct(q), q # <<>>
    PROVE  /\ Distinct(Tail(q)) /\ Elems(Tail(q)) = Elems(q) \ {Head(q)}
           /\ Head(q) \in Elems(q) /\ Head(q) \notin Elems(Tail(q))
<1>1. /\ DOMAIN q = 1 .. Len(q) /\ Len(q) \in Nat /\ Len(q) > 0
      /\ Tail(q) \in Seq(Addr) /\ Len(Tail(q)) = Len(q) - 1
      /\ DOMAIN Tail(q) = 1 .. Len(q) - 1
      /\ \A i \in 1 .. Len(q) - 1 : Tail(q)[i] = q[i + 1]
      /\ Head(q) = q[1]
  OBVIOUS
<1> DEFINE r == Tail(q)
<1> HIDE DEF r
<1>2. Distinct(r)
  BY <1>1 DEF Distinct, r
<1>3. Head(q) \in Elems(q) /\ Head(q) \notin Elems(r)
  BY <1>1 DEF Distinct, Elems, r
<1>4. Elems(r) \subseteq Elems(q)
  BY <1>1 DEF Elems, r
<1>5. ASSUME NEW x \in Elems(q), x # Head(q) PROVE x \in Elems(r)
  <2>1. PICK i \in 1 .. Len(q) : x = q[i]
    BY <1>1 DEF Elems
  <2>2. i # 1
    BY <1>1, <1>5, <2>1
  <2>3. i - 1 \in 1 .. Len(q) - 1 /\ x = r[i - 1]
    BY <1>1, <2>1, <2>2 DEF r
  <2> QED BY <1>1, <2>3 DEF Elems, r
<1> QED BY <1>2, <1>3, <1>4, <1>5 DEF r

\* moveDirtyToTail permutes the ring.
LEMMA MoveToTailRing ==
    ASSUME TypeOK, Distinct(queue), NEW a \in Elems(queue)
    PROVE  Distinct(MoveToTail(a)) /\ Elems(MoveToTail(a)) = Elems(queue)
<1> DEFINE p == CHOOSE i \in DOMAIN queue : queue[i] = a
           n == Len(queue)
           q == MoveToTail(a)
<1>1. p \in 1 .. n /\ queue[p] = a /\ n \in Nat /\ DOMAIN queue = 1 .. n
  BY DEF Elems, TypeOK
<1>2. q = [i \in 1 .. n |-> IF i < p THEN queue[i]
                             ELSE IF i < n THEN queue[i + 1] ELSE a]
  BY <1>1 DEF MoveToTail
<1> HIDE DEF p, n, q
<1>3. /\ DOMAIN q = 1 .. n
      /\ \A i \in 1 .. n : i < p => q[i] = queue[i]
      /\ \A i \in 1 .. n : ~(i < p) /\ i < n => q[i] = queue[i + 1]
      /\ q[n] = queue[p]
  BY <1>1, <1>2
<1>4. \A i, j \in 1 .. n : queue[i] = queue[j] => i = j
  BY <1>1 DEF Distinct
<1>5. Distinct(q)
  <2> SUFFICES ASSUME NEW i \in 1 .. n, NEW j \in 1 .. n, q[i] = q[j] PROVE i = j
    BY <1>3 DEF Distinct
  <2> DEFINE s(k) == IF k = n THEN p ELSE IF k < p THEN k ELSE k + 1
  <2>1. s(i) \in 1 .. n /\ q[i] = queue[s(i)]
    BY <1>1, <1>3
  <2>2. s(j) \in 1 .. n /\ q[j] = queue[s(j)]
    BY <1>1, <1>3
  <2>3. s(i) = s(j)
    <3> HIDE DEF s
    <3> QED BY <1>4, <2>1, <2>2
  <2> QED BY <1>1, <2>3
<1>6. Elems(q) \subseteq Elems(queue)
  <2> SUFFICES ASSUME NEW i \in 1 .. n PROVE q[i] \in Elems(queue)
    BY <1>3 DEF Elems
  <2>1. CASE i = n
    BY <1>1, <1>3, <2>1 DEF Elems
  <2>2. CASE i # n /\ i < p
    BY <1>1, <1>3, <2>2 DEF Elems
  <2>3. CASE i # n /\ ~(i < p)
    BY <1>1, <1>3, <2>3 DEF Elems
  <2> QED BY <2>1, <2>2, <2>3
<1>7. Elems(queue) \subseteq Elems(q)
  <2> SUFFICES ASSUME NEW i \in 1 .. n PROVE queue[i] \in Elems(q)
    BY <1>1 DEF Elems
  <2>1. CASE i = p
    BY <1>1, <1>3, <2>1 DEF Elems
  <2>2. CASE i < p
    BY <1>1, <1>3, <2>2 DEF Elems
  <2>3. CASE i > p
    <3>1. i - 1 \in 1 .. n /\ ~(i - 1 < p) /\ i - 1 < n /\ queue[i] = queue[(i - 1) + 1]
      BY <1>1, <2>3
    <3>2. q[i - 1] = queue[i]
      BY <1>3, <3>1
    <3> QED BY <1>3, <3>1, <3>2 DEF Elems
  <2> QED BY <1>1, <2>1, <2>2, <2>3
<1> QED BY <1>5, <1>6, <1>7 DEF q

\* onRamWrite keeps the ring and the bitmap in agreement.  Outside a drain.
LEMMA OnRamWriteRing ==
    ASSUME TypeOK, RingMatchesBitmap, scan.burst = {}, scan' = scan,
           NEW a \in Addr, NEW v \in Value, OnRamWrite(a, v)
    PROVE  RingMatchesBitmap'
<1> DEFINE t == Target(a)
<1>1. t \in Addr
  BY TargetType
<1>2. Distinct(queue) /\ dirty = Elems(queue) /\ queue \in Seq(Addr)
  BY DEF RingMatchesBitmap, Distinct, Elems, Queued, TypeOK
<1>3. SUFFICES Distinct(queue') /\ dirty' = Elems(queue')
  BY DEF RingMatchesBitmap, Distinct, Elems, Queued
<1>4. CASE TimingOnly \/ Skipped(a) \/ Eliminated(a, v)
  BY <1>2, <1>4 DEF TimingOnly, Skipped, Eliminated, bufferVars
<1>5. CASE Accepted(a, v)
  <2>1. CASE t \in dirty
    <3>1. Distinct(MoveToTail(t)) /\ Elems(MoveToTail(t)) = Elems(queue)
      BY <1>2, <2>1, MoveToTailRing
    <3>2. dirty' = dirty /\ queue' \in {queue, MoveToTail(t)}
      BY <1>5, <2>1 DEF Accepted, Requeued
    <3> QED BY <1>2, <3>1, <3>2
  <2>2. CASE t \notin dirty
    <3> HIDE DEF t
    <3>1. Len(queue) < Capacity
      BY <1>1, <1>2, <2>2, FreeSlot
    <3>2. dirty' = dirty \cup {t} /\ queue' = Append(queue, t)
      BY <1>5, <2>2, <3>1 DEF Accepted, t
    <3>3. /\ Distinct(Append(queue, t))
          /\ Elems(Append(queue, t)) = Elems(queue) \cup {t}
      BY <1>1, <1>2, <2>2, AppendRing
    <3> QED BY <1>2, <3>2, <3>3
  <2> QED BY <2>1, <2>2
<1> QED BY <1>4, <1>5 DEF OnRamWrite

\* No drain in progress, no burst being put together.
LEMMA IdleNoBurst ==
    ASSUME CallInv, ~scan.on
    PROVE  scan.burst = {}
  BY NoScanType DEF CallInv

\* Every action keeps the ring and the bitmap in agreement.
LEMMA NextRing ==
    ASSUME TypeOK, CallInv, RingMatchesBitmap, [Next]_vars
    PROVE  RingMatchesBitmap'
<1>1. queue \in Seq(Addr) /\ Distinct(queue)
  BY DEF RingMatchesBitmap, Distinct, TypeOK
<1>2. ASSUME UNCHANGED <<queue, dirty>>, scan'.burst = scan.burst
      PROVE  RingMatchesBitmap'
  BY <1>2 DEF RingMatchesBitmap, Queued
<1>3. ASSUME Discard, scan' = scan, ~scan.on
      PROVE  RingMatchesBitmap'
  BY <1>3, IdleNoBurst DEF Discard, RingMatchesBitmap, Queued
<1>a. ASSUME NEW a \in Addr, NEW v \in Value, Write(a, v)
      PROVE  RingMatchesBitmap'
  BY <1>a, OnRamWriteRing, IdleNoBurst DEF Write, Idle
<1>b. ASSUME NEW a \in Addr, NEW v \in Value, NEW h \in HotSets, PointerWrite(a, v, h)
      PROVE  RingMatchesBitmap'
  BY <1>b, OnRamWriteRing, IdleNoBurst DEF PointerWrite, Idle
<1>c. ASSUME NEW a \in Addr, NEW v \in Value, NEW r \in Low, NEW h \in HotSets,
             AllocRelocBlock(a, v, r, h)
      PROVE  RingMatchesBitmap'
  BY <1>c, OnRamWriteRing, IdleNoBurst DEF AllocRelocBlock, Idle
<1>d. CASE Replay
  <2>1. Head(replay) \in Addr /\ ~scan.on
    BY <1>d DEF Replay, TypeOK, CallInv
  <2>2. ram[Head(replay)] \in Value
    BY <2>1 DEF TypeOK
  <2> QED BY <1>d, <2>1, <2>2, OnRamWriteRing, IdleNoBurst DEF Replay
<1>e. ASSUME NEW h \in HotSets, UpdateHotShapeBlocks(h)
      PROVE  RingMatchesBitmap'
  BY <1>e, <1>2 DEF UpdateHotShapeBlocks, bufferVars
<1>f. ASSUME NEW p \in Policies, SetOptimisation(p)
      PROVE  RingMatchesBitmap'
  BY <1>f, <1>2 DEF SetOptimisation, bufferVars
<1>g. CASE Reset
  BY <1>g, <1>3 DEF Reset, Idle
<1>h. CASE DisablePhysicalMirror
  BY <1>h, <1>3 DEF DisablePhysicalMirror, Idle
<1>i. ASSUME NEW s \in WorkingSets, EnablePhysicalMirror(s)
      PROVE  RingMatchesBitmap'
  BY <1>i, <1>3 DEF EnablePhysicalMirror, Idle
<1>j. ASSUME NEW d \in Drains, NEW n \in MaxBytes, FlushBegin(d, n)
      PROVE  RingMatchesBitmap'
  <2>1. scan.burst = {} /\ scan'.burst = {}
    BY <1>j, IdleNoBurst DEF FlushBegin, Idle, NewChunk
  <2> QED BY <1>j, <1>2, <2>1 DEF FlushBegin, bufferVars
<1>k. CASE Take
  <2>1. /\ Distinct(Tail(queue)) /\ Elems(Tail(queue)) = Elems(queue) \ {Head(queue)}
        /\ Head(queue) \in Elems(queue)
    BY <1>1, <1>k, TailRing DEF Take, Scanning
  <2>2. /\ scan'.burst = scan.burst \cup {Head(queue)}
        /\ queue' = Tail(queue) /\ dirty' = dirty
    BY <1>k DEF Take, TypeOK
  <2>3. Elems(queue) \cap scan.burst = {} /\ dirty = Elems(queue) \cup scan.burst
    BY DEF RingMatchesBitmap, Elems, Queued
  <2>4. /\ Distinct(queue') /\ Elems(queue') \cap scan'.burst = {}
        /\ dirty' = Elems(queue') \cup scan'.burst
    BY <2>1, <2>2, <2>3
  <2> QED BY <2>4 DEF RingMatchesBitmap, Elems, Queued, Distinct
<1>l. CASE Defer
  <2>1. /\ Distinct(Tail(queue)) /\ Elems(Tail(queue)) = Elems(queue) \ {Head(queue)}
        /\ Head(queue) \in Elems(queue) /\ Head(queue) \notin Elems(Tail(queue))
        /\ Tail(queue) \in Seq(Addr) /\ Head(queue) \in Addr
    BY <1>1, <1>l, TailRing DEF Defer, Scanning
  <2> DEFINE r == Append(Tail(queue), Head(queue))
  <2>2. Distinct(r) /\ Elems(r) = Elems(Tail(queue)) \cup {Head(queue)}
    BY <2>1, AppendRing
  <2>3. queue' = r /\ dirty' = dirty /\ scan'.burst = scan.burst
    BY <1>l DEF Defer, TypeOK
  <2> HIDE DEF r
  <2>4. Distinct(queue') /\ Elems(queue') = Elems(queue)
    BY <2>1, <2>2, <2>3
  <2> QED BY <2>3, <2>4 DEF RingMatchesBitmap, Elems, Queued, Distinct
<1>m. CASE SendBurst
  <2>1. scan'.burst = {}
    BY <1>m, NoScanType DEF SendBurst, NewChunk
  <2>2. queue' = queue /\ dirty' = dirty \ scan.burst
    BY <1>m DEF SendBurst
  <2> QED BY <2>1, <2>2 DEF RingMatchesBitmap, Queued
<1>n. CASE NoneTaken
  BY <1>n, <1>2, NoScanType DEF NoneTaken
<1>o. CASE ResyncSweep
  BY <1>o, <1>2 DEF ResyncSweep
<1>p. ASSUME NEW a \in Addr, ResyncDisplayed(a)
      PROVE  RingMatchesBitmap'
  BY <1>p, <1>2 DEF ResyncDisplayed
<1>q. CASE UNCHANGED vars
  BY <1>q, <1>2 DEF vars, bufferVars
<1> QED BY <1>a, <1>b, <1>c, <1>d, <1>e, <1>f, <1>g, <1>h, <1>i, <1>j, <1>k, <1>l,
           <1>m, <1>n, <1>o, <1>p, <1>q
        DEF Next, Program, Control, Drain, Resync

\* The dirty bitmap and the ring always agree: a byte marked dirty is queued
\* exactly once or is in the burst being sent, whatever stores, drains, resets
\* and presentation switches happened.
THEOREM RingCorrect == Spec => []RingMatchesBitmap
<1> DEFINE Inv == TypeOK /\ CallInv /\ RingMatchesBitmap
<1>1. Init => Inv
  <2>1. Init => RingMatchesBitmap
    BY NoScanType DEF Init, RingMatchesBitmap, Queued
  <2> QED BY <2>1, InitType
<1>2. Inv /\ [Next]_vars => Inv'
  BY NextType, NextRing
<1> QED BY <1>1, <1>2, PTL DEF Spec

--------------------------------------------------------------------------------
(* The switch to HDMI presentation.                                           *)

\* A store changes the queue only while the mirror is enabled.
LEMMA OnRamWriteHalted ==
    ASSUME ~delivery, NEW a, NEW v, OnRamWrite(a, v)
    PROVE  UNCHANGED <<dirty, synced>>
  BY DEF OnRamWrite, TimingOnly, Skipped, Eliminated, Accepted, bufferVars

\* Every action keeps the queue and the elimination bitmap empty under HDMI.
LEMMA NextHDMI ==
    ASSUME TypeOK, CallInv, NothingQueuedForHDMI, [Next]_vars
    PROVE  NothingQueuedForHDMI'
<1>1. ASSUME delivery' = delivery, ~delivery => UNCHANGED <<dirty, synced>>
      PROVE  NothingQueuedForHDMI'
  BY <1>1 DEF NothingQueuedForHDMI
<1>2. ASSUME Discard PROVE NothingQueuedForHDMI'
  BY <1>2 DEF Discard, NothingQueuedForHDMI
<1>3. CASE Program
  BY <1>3, <1>1, OnRamWriteHalted
  DEF Program, Write, PointerWrite, AllocRelocBlock, Replay, UpdateHotShapeBlocks,
      SetOptimisation, policyVars, bufferVars
<1>4. CASE Control
  BY <1>4, <1>2 DEF Control, Reset, DisablePhysicalMirror, EnablePhysicalMirror
<1>5. CASE Drain
  <2>1. ASSUME NEW d \in Drains, NEW n \in MaxBytes, FlushBegin(d, n)
        PROVE  NothingQueuedForHDMI'
    BY <2>1, <1>1 DEF FlushBegin, bufferVars, policyVars
  <2>2. CASE Take
    BY <2>2, <1>1 DEF Take, policyVars
  <2>3. CASE Defer
    BY <2>3, <1>1 DEF Defer, policyVars
  <2>4. CASE SendBurst
    BY <2>4, <1>1 DEF SendBurst, policyVars, CallInv
  <2>5. CASE NoneTaken
    BY <2>5, <1>1 DEF NoneTaken, policyVars
  <2> QED BY <1>5, <2>1, <2>2, <2>3, <2>4, <2>5 DEF Drain
<1>6. CASE Resync
  BY <1>6, <1>1 DEF Resync, ResyncSweep, ResyncDisplayed, policyVars
<1>7. CASE UNCHANGED vars
  BY <1>7, <1>1 DEF vars, bufferVars, policyVars
<1> QED BY <1>3, <1>4, <1>5, <1>6, <1>7 DEF Next

\* While HDMI owns the picture, nothing is queued and no delivery is believed.
THEOREM HDMICorrect == Spec => []NothingQueuedForHDMI
<1> DEFINE Inv == TypeOK /\ CallInv /\ NothingQueuedForHDMI
<1>1. Init => Inv
  <2>1. Init => NothingQueuedForHDMI
    BY DEF Init, NothingQueuedForHDMI
  <2> QED BY <2>1, InitType
<1>2. Inv /\ [Next]_vars => Inv'
  BY NextType, NextHDMI
<1> QED BY <1>1, <1>2, PTL DEF Spec

--------------------------------------------------------------------------------
(* The cached negative answer.                                                *)

\* Eligible, with the hot blocks as a parameter.
EligibleIn(h, a, d) ==
    IF d.only THEN a \in Region(d)
    ELSE a \notin Region(d) /\ ~(d.hotWait /\ a[1] \in h)

NoneEligible(q, d) == \A i \in DOMAIN q : ~Eligible(q[i], d)

\* A scan that has taken nothing yet: it has room, it has not looked at more
\* entries than there are, and those it looked at, now at the end of the ring,
\* could not be sent.
ScanInv ==
    scan.on /\ scan.burst = {} =>
        /\ scan.room > 0 /\ queue # <<>> /\ scan.left <= Len(queue)
        /\ \A i \in DOMAIN queue : i > scan.left => ~Eligible(queue[i], scan.args)

\* While the cached answer is valid every change since is counted: the count is
\* below the queue's length, so it cannot wrap around, and while it is zero no
\* entry could be sent.
CacheInv ==
    noProgress.valid =>
        /\ scan.burst = {} => queueLag < Len(queue)
        /\ queueLag = 0 /\ ~(noProgress.args.hotWait /\ hotMoved)
              => NoneEligible(queue, noProgress.args)

\* The cached answer is right in every state of the inductive invariant.
LEMMA CacheInvSuffices == CacheInv => CacheNeverHidesWork
  BY DEF CacheInv, CacheNeverHidesWork, CacheMatches, NoneEligible

\* onRamWrite is counted, or leaves the set of queued addresses alone.
LEMMA OnRamWriteCache ==
    ASSUME TypeOK, RingMatchesBitmap, CacheInv, scan.burst = {},
           UNCHANGED <<noProgress, scan>>, hotMoved' \/ UNCHANGED <<hot, hotMoved>>,
           NEW a \in Addr, NEW v \in Value, OnRamWrite(a, v)
    PROVE  CacheInv'
<1> DEFINE t == Target(a)
<1>1. t \in Addr
  BY TargetType
<1>2. Distinct(queue) /\ dirty = Elems(queue) /\ queue \in Seq(Addr) /\ Len(queue) \in Nat
  BY DEF RingMatchesBitmap, Distinct, Elems, Queued, TypeOK
<1> SUFFICES ASSUME noProgress.valid PROVE CacheInv'
  BY DEF CacheInv
<1>3. queueLag < Len(queue)
  BY DEF CacheInv
<1>4. ASSUME Elems(queue') = Elems(queue), Len(queue') = Len(queue), queueLag' = queueLag
      PROVE  CacheInv'
  <2> SUFFICES ASSUME queueLag = 0, ~(noProgress.args.hotWait /\ hotMoved'),
                      NEW i \in DOMAIN queue'
               PROVE  ~EligibleIn(hot', queue'[i], noProgress.args)
    BY <1>3, <1>4 DEF CacheInv, NoneEligible, Eligible, EligibleIn, Region
  <2>1. PICK j \in DOMAIN queue : queue[j] = queue'[i]
    BY <1>4 DEF Elems
  <2>2. ~Eligible(queue[j], noProgress.args)
    BY DEF CacheInv, NoneEligible
  <2>3. CASE ~noProgress.args.hotWait
    BY <2>1, <2>2, <2>3 DEF Eligible, EligibleIn
  <2>4. CASE UNCHANGED hot
    BY <2>1, <2>2, <2>4 DEF Eligible, EligibleIn
  <2> QED BY <2>3, <2>4
<1>5. CASE TimingOnly \/ Skipped(a) \/ Eliminated(a, v)
  BY <1>4, <1>5 DEF TimingOnly, Skipped, Eliminated, bufferVars
<1>6. CASE Accepted(a, v) /\ t \in dirty
  <2>1. Elems(MoveToTail(t)) = Elems(queue)
    BY <1>2, <1>6, MoveToTailRing
  <2>2. Len(MoveToTail(t)) = Len(queue)
    <3>1. DOMAIN MoveToTail(t) = DOMAIN queue
      BY DEF MoveToTail
    <3>2. MoveToTail(t) \in Seq(Addr)
      BY <1>1, MoveToTailType
    <3> HIDE DEF t
    <3> QED BY <1>2, <3>1, <3>2
  <2>3. queue' \in {queue, MoveToTail(t)} /\ queueLag' = queueLag
    BY <1>6 DEF Accepted, Requeued
  <2> QED BY <1>4, <2>1, <2>2, <2>3
<1>7. CASE Accepted(a, v) /\ t \notin dirty
  <2> HIDE DEF t
  <2>1. Len(queue) < Capacity
    BY <1>1, <1>2, <1>7, FreeSlot
  <2>2. queue' = Append(queue, t) /\ queueLag' = (queueLag + 1) % GenMod
    BY <1>7, <2>1 DEF Accepted, t
  <2>3. Len(queue') = Len(queue) + 1
    BY <1>1, <1>2, <2>2
  <2>4. queueLag + 1 \in 1 .. GenMod - 1
    BY <1>2, <1>3, <2>1, SpaceAssumption DEF TypeOK
  <2>5. (queueLag + 1) % GenMod = queueLag + 1
    BY <2>4, SpaceAssumption
  <2>6. queueLag' = queueLag + 1 /\ queueLag' # 0
    BY <2>2, <2>4, <2>5
  <2>7. queueLag' < Len(queue')
    BY <1>2, <1>3, <2>3, <2>6 DEF TypeOK
  <2> QED BY <2>6, <2>7 DEF CacheInv
<1> QED BY <1>5, <1>6, <1>7 DEF OnRamWrite

\* A chunk has room for at least one byte while there is budget.
LEMMA NewChunkScan ==
    ASSUME TypeOK, NEW d, NEW n \in Nat \ {0}, NEW e, queue # <<>>,
           scan' = NewChunk(d, n, queue, e), queue' = queue
    PROVE  ScanInv'
<1>1. Lesser(n, Chunk) > 0
  BY DrainAssumption DEF Lesser
<1>2. scan'.room = Lesser(n, Chunk) /\ scan'.left = Len(queue)
  BY DEF NewChunk
<1>3. DOMAIN queue = 1 .. Len(queue) /\ Len(queue) \in Nat
  BY DEF TypeOK
<1> QED BY <1>1, <1>2, <1>3 DEF ScanInv

\* Every action keeps the cache exact.
LEMMA NextCache ==
    ASSUME TypeOK, CallInv, RingMatchesBitmap, ScanInv, CacheInv, [Next]_vars
    PROVE  ScanInv' /\ CacheInv'
<1>0. queue \in Seq(Addr) /\ Distinct(queue) /\ Len(queue) \in Nat
      /\ DOMAIN queue = 1 .. Len(queue)
  BY DEF RingMatchesBitmap, Distinct, TypeOK
<1>1. ASSUME ~scan.on, scan' = scan PROVE ScanInv'
  BY <1>1 DEF ScanInv
<1>2. ASSUME UNCHANGED <<queue, queueLag, hot, hotMoved, noProgress>>,
             scan'.burst = scan.burst
      PROVE  CacheInv'
  BY <1>2 DEF CacheInv, NoneEligible, Eligible, Region
<1>3. ASSUME Discard PROVE CacheInv'
  BY <1>3 DEF Discard, CacheInv, TypeOK
<1>a. ASSUME NEW a \in Addr, NEW v \in Value, Write(a, v)
      PROVE  ScanInv' /\ CacheInv'
  BY <1>a, <1>1, OnRamWriteCache, IdleNoBurst DEF Write, Idle, cacheVars
<1>b. ASSUME NEW a \in Addr, NEW v \in Value, NEW h \in HotSets, PointerWrite(a, v, h)
      PROVE  ScanInv' /\ CacheInv'
  BY <1>b, <1>1, OnRamWriteCache, IdleNoBurst DEF PointerWrite, Idle
<1>c. ASSUME NEW a \in Addr, NEW v \in Value, NEW r \in Low, NEW h \in HotSets,
             AllocRelocBlock(a, v, r, h)
      PROVE  ScanInv' /\ CacheInv'
  BY <1>c, <1>1, OnRamWriteCache, IdleNoBurst DEF AllocRelocBlock, Idle
<1>d. CASE Replay
  <2>1. Head(replay) \in Addr /\ ~scan.on
    BY <1>d DEF Replay, TypeOK, CallInv
  <2>2. ram[Head(replay)] \in Value
    BY <2>1 DEF TypeOK
  <2> QED BY <1>d, <1>1, <2>1, <2>2, OnRamWriteCache, IdleNoBurst
          DEF Replay, cacheVars, sharedVars
<1>e. ASSUME NEW h \in HotSets, UpdateHotShapeBlocks(h)
      PROVE  ScanInv' /\ CacheInv'
  <2>1. /\ ~scan.on /\ scan' = scan /\ hotMoved' = TRUE
        /\ UNCHANGED <<queue, queueLag, noProgress>>
    BY <1>e DEF UpdateHotShapeBlocks, Idle, bufferVars
  <2>2. ASSUME noProgress.valid, queueLag = 0, ~noProgress.args.hotWait,
               NEW i \in DOMAIN queue
        PROVE  ~EligibleIn(hot', queue[i], noProgress.args)
    BY <2>2 DEF CacheInv, NoneEligible, Eligible, EligibleIn
  <2>3. CacheInv'
    BY <2>1, <2>2 DEF CacheInv, NoneEligible, Eligible, EligibleIn, Region
  <2> QED BY <1>1, <2>1, <2>3
<1>f. ASSUME NEW p \in Policies, SetOptimisation(p)
      PROVE  ScanInv' /\ CacheInv'
  BY <1>f, <1>1, <1>2 DEF SetOptimisation, bufferVars, cacheVars, sharedVars, Idle
<1>g. CASE Reset
  BY <1>g, <1>1, <1>3 DEF Reset, Idle
<1>h. CASE DisablePhysicalMirror
  BY <1>h, <1>1, <1>3 DEF DisablePhysicalMirror, Idle
<1>i. ASSUME NEW s \in WorkingSets, EnablePhysicalMirror(s)
      PROVE  ScanInv' /\ CacheInv'
  BY <1>i, <1>1, <1>3 DEF EnablePhysicalMirror, Idle
<1>j. ASSUME NEW d \in Drains, NEW n \in MaxBytes, FlushBegin(d, n)
      PROVE  ScanInv' /\ CacheInv'
  <2>1. scan.burst = {} /\ scan'.burst = {}
    BY <1>j, IdleNoBurst DEF FlushBegin, Idle, NewChunk
  <2>2. n \in Nat \ {0}
    BY DrainAssumption
  <2>3. ScanInv'
    BY <1>j, <2>2, NewChunkScan DEF FlushBegin, bufferVars
  <2> QED BY <1>j, <1>2, <2>1, <2>3 DEF FlushBegin, bufferVars, cacheVars, sharedVars
<1>k. CASE Take
  <2>1. /\ scan'.burst # {} /\ queue' = Tail(queue)
        /\ UNCHANGED <<queueLag, noProgress, hotMoved, hot>>
    BY <1>k DEF Take, TypeOK, cacheVars, sharedVars
  <2>2. \A i \in DOMAIN queue' : queue'[i] \in Elems(queue)
    BY <1>0, <1>k, <2>1 DEF Elems, Take, Scanning
  <2>3. ASSUME NoneEligible(queue, noProgress.args), NEW i \in DOMAIN queue'
        PROVE  ~EligibleIn(hot, queue'[i], noProgress.args)
    BY <2>2, <2>3 DEF NoneEligible, Elems, Eligible, EligibleIn
  <2>4. CacheInv'
    BY <2>1, <2>3 DEF CacheInv, NoneEligible, Eligible, EligibleIn, Region
  <2> QED BY <2>1, <2>4 DEF ScanInv
<1>l. CASE Defer
  <2>1. /\ scan'.burst = scan.burst /\ scan'.on = scan.on /\ scan'.room = scan.room
        /\ scan'.left = scan.left - 1 /\ scan'.args = scan.args
        /\ UNCHANGED <<queueLag, noProgress, hotMoved, hot>>
        /\ queue # <<>> /\ scan.left > 0 /\ scan.left \in Nat
    BY <1>l DEF Defer, Scanning, TypeOK, cacheVars, sharedVars
  <2>2. queue' = Append(Tail(queue), Head(queue))
    BY <1>l DEF Defer
  <2>3. /\ Len(queue') = Len(queue) /\ DOMAIN queue' = 1 .. Len(queue) /\ queue' # <<>>
        /\ \A i \in 1 .. Len(queue) - 1 : queue'[i] = queue[i + 1]
        /\ queue'[Len(queue)] = queue[1] /\ Head(queue) = queue[1]
        /\ Len(queue) > 0
    BY <1>0, <2>1, <2>2
  <2>4. ASSUME NoneEligible(queue, noProgress.args), NEW i \in DOMAIN queue'
        PROVE  ~EligibleIn(hot, queue'[i], noProgress.args)
    <3>1. \E j \in DOMAIN queue : queue'[i] = queue[j]
      <4>1. CASE i = Len(queue)
        BY <1>0, <2>3, <4>1
      <4>2. CASE i \in 1 .. Len(queue) - 1
        BY <1>0, <2>3, <4>2
      <4> QED BY <1>0, <2>3, <4>1, <4>2
    <3> QED BY <2>4, <3>1 DEF NoneEligible, Eligible, EligibleIn
  <2>5. CacheInv'
    BY <2>1, <2>3, <2>4 DEF CacheInv, NoneEligible, Eligible, EligibleIn, Region
  <2>6. ASSUME scan.burst = {}, NEW i \in DOMAIN queue', i > scan.left - 1
        PROVE  ~EligibleIn(hot, queue'[i], scan.args)
    <3>1. CASE i = Len(queue)
      BY <1>l, <2>3, <3>1 DEF Defer, Eligible, EligibleIn
    <3>2. CASE i \in 1 .. Len(queue) - 1
      <4>1. i + 1 \in DOMAIN queue /\ i + 1 > scan.left
        BY <1>0, <2>1, <2>6, <3>2
      <4>2. ~Eligible(queue[i + 1], scan.args)
        BY <1>l, <2>6, <4>1 DEF ScanInv, Defer, Scanning
      <4> QED BY <2>3, <3>2, <4>2 DEF Eligible, EligibleIn
    <3> QED BY <1>0, <2>3, <3>1, <3>2
  <2>7. ASSUME scan.burst = {}
        PROVE  scan.room > 0 /\ scan.left - 1 <= Len(queue')
    BY <1>0, <1>l, <2>1, <2>3, <2>7 DEF ScanInv, Defer, Scanning
  <2>8. ScanInv'
    BY <2>1, <2>3, <2>6, <2>7 DEF ScanInv, Eligible, EligibleIn, Region
  <2> QED BY <2>5, <2>8
<1>m. CASE SendBurst
  <2>1. CacheInv'
    BY <1>m DEF SendBurst, CacheInv, TypeOK
  <2>2. CASE scan' = NoScan
    <3>1. ~scan'.on
      BY <2>2, NoScanType
    <3> QED BY <2>1, <3>1 DEF ScanInv
  <2>3. CASE scan' # NoScan
    <3>1. queue # <<>> /\ scan.budget \in Nat \ {0} /\ queue' = queue
          /\ scan' = NewChunk(scan.args, scan.budget, queue, scan.entry)
      BY <1>m, <2>3 DEF SendBurst, TypeOK
    <3> DEFINE d == scan.args
               n == scan.budget
               e == scan.entry
    <3>2. n \in Nat \ {0} /\ scan' = NewChunk(d, n, queue, e)
      BY <3>1
    <3> HIDE DEF d, n, e
    <3> QED BY <2>1, <3>1, <3>2, NewChunkScan
  <2> QED BY <2>1, <2>2, <2>3
<1>n. CASE NoneTaken
  <2>1. ScanInv' /\ scan'.burst = {} /\ scan.burst = {} /\ scan.on /\ queue' = queue
        /\ hot' = hot
    BY <1>n, NoScanType DEF NoneTaken, ScanInv, sharedVars
  <2>2. CASE scan.args.only
    BY <1>n, <1>2, <2>1, <2>2 DEF NoneTaken, cacheVars, sharedVars
  <2>3. CASE ~scan.args.only
    <3>1. scan.left = 0 /\ queue # <<>>
      BY <1>n, <2>1 DEF ScanInv, NoneTaken, Scanning, TypeOK
    <3>2. \A i \in DOMAIN queue : ~Eligible(queue[i], scan.args)
      BY <1>0, <2>1, <3>1 DEF ScanInv
    <3>3. noProgress' = [valid |-> TRUE, args |-> scan.args] /\ queueLag' = 0
      BY <1>n, <2>3 DEF NoneTaken
    <3>4. 0 < Len(queue)
      BY <1>0, <3>1
    <3> QED BY <2>1, <3>2, <3>3, <3>4 DEF CacheInv, NoneEligible, Eligible, Region
  <2> QED BY <2>1, <2>2, <2>3
<1>o. CASE ResyncSweep
  BY <1>o, <1>1, <1>2 DEF ResyncSweep, Idle, cacheVars
<1>p. ASSUME NEW a \in Addr, ResyncDisplayed(a)
      PROVE  ScanInv' /\ CacheInv'
  BY <1>p, <1>1, <1>2 DEF ResyncDisplayed, Idle, cacheVars
<1>q. CASE UNCHANGED vars
  <2>1. UNCHANGED <<queue, queueLag, hot, hotMoved, noProgress, scan>>
    BY <1>q DEF vars, bufferVars, cacheVars, sharedVars
  <2> QED BY <1>2, <2>1 DEF ScanInv, Eligible, Region
<1> QED BY <1>a, <1>b, <1>c, <1>d, <1>e, <1>f, <1>g, <1>h, <1>i, <1>j, <1>k, <1>l,
           <1>m, <1>n, <1>o, <1>p, <1>q
        DEF Next, Program, Control, Drain, Resync

\* The negative answer a display-time scan caches never hides a byte that could
\* be sent, for every queue length, budget and chunk size.
THEOREM CacheCorrect == Spec => []CacheNeverHidesWork
<1> DEFINE Inv == TypeOK /\ CallInv /\ RingMatchesBitmap /\ ScanInv /\ CacheInv
<1>1. Init => Inv
  <2>1. Init => RingMatchesBitmap /\ ScanInv
    BY NoScanType DEF Init, RingMatchesBitmap, Queued, ScanInv
  <2>2. Init => CacheInv
    BY DEF Init, CacheInv
  <2> QED BY <2>1, <2>2, InitType
<1>2. Inv /\ [Next]_vars => Inv'
  BY NextType, NextRing, NextCache
<1>3. Inv => CacheNeverHidesWork
  BY CacheInvSuffices
<1> QED BY <1>1, <1>2, <1>3, PTL DEF Spec

--------------------------------------------------------------------------------
(* Same-value elimination.                                                    *)

\* A block carries at most one relocated shape, and shapes are only relocated
\* on a machine whose RAM under the I/O window cannot be reached.
RelocInv ==
    /\ \A u, w \in UnderIO : reloc[u] = reloc[w] /\ reloc[u] # NoBlock => u = w
    /\ \A u \in UnderIO : reloc[u] # NoBlock => ~UnderIOAccessible

\* There, nothing is queued for or believed of that RAM.
ReachInv ==
    ~UnderIOAccessible => \A a \in dirty \cup synced : a[1] \notin UnderIO

\* CleanBytesEqual of one address.
Agrees(a) ==
    /\ a \in dirty => pending[a] = Authority(a)
    /\ a \in synced \ dirty => dram[a] = DeliverValue(a, Authority(a))

\* A pair is its two components.
LEMMA AddrPair ==
    ASSUME NEW a \in Addr
    PROVE  a = <<a[1], a[2]>> /\ a[1] \in Block /\ a[2] \in Offset /\ a[1] # NoBlock
  BY RelocationAssumption DEF Addr

\* A stolen block lies in the relocation pool, which is not under the window.
LEMMA StolenIsLow ==
    ASSUME TypeOK, NEW b \in Block, Stolen(b)
    PROVE  b \in Low /\ b \notin UnderIO /\ ~Relocated(b)
<1>1. PICK u \in UnderIO : reloc[u] = b
  BY DEF Stolen
<1>2. b # NoBlock
  BY RelocationAssumption
<1>3. b \in Low
  BY <1>1, <1>2 DEF TypeOK
<1> QED BY <1>3, RelocationAssumption DEF Relocated

\* The one source of a block, in a table without repetition.
LEMMA OneSource ==
    ASSUME NEW f, NEW b, b # NoBlock, NEW u \in UnderIO, f[u] = b,
           \A x, y \in UnderIO : f[x] = f[y] /\ f[x] # NoBlock => x = y
    PROVE  (CHOOSE w \in UnderIO : f[w] = b) = u
<1> DEFINE c == CHOOSE w \in UnderIO : f[w] = b
<1>1. c \in UnderIO /\ f[c] = b
  OBVIOUS
<1> HIDE DEF c
<1>2. c = u
  BY <1>1
<1> QED BY <1>2 DEF c

\* The authority over a stolen block is the shape it carries, over any other
\* the block itself; before a step and after it.
LEMMA StolenAuthority ==
    ASSUME RelocInv, NEW b \in Addr, NEW u \in UnderIO, reloc[u] = b[1]
    PROVE  Authority(b) = ram[<<u, b[2]>>]
<1>1. SourceOf(b[1]) = u
  BY OneSource, AddrPair DEF RelocInv, SourceOf
<1>2. Stolen(b[1])
  BY DEF Stolen
<1> QED BY <1>1, <1>2 DEF Authority

LEMMA StolenAuthorityNext ==
    ASSUME RelocInv', NEW b \in Addr, NEW u \in UnderIO, reloc'[u] = b[1]
    PROVE  Authority(b)' = ram'[<<u, b[2]>>]
<1>1. SourceOf(b[1])' = u
  BY OneSource, AddrPair DEF RelocInv, SourceOf
<1>2. Stolen(b[1])'
  BY DEF Stolen
<1> QED BY <1>1, <1>2 DEF Authority

\* A store of v to a changes the authority at the target of a only, unless a
\* lies in a stolen block.
LEMMA StoreAuthority ==
    ASSUME TypeOK, RelocInv, NEW a \in Addr, NEW v \in Value,
           ram' = [ram EXCEPT ![a] = v], reloc' = reloc,
           NEW b \in Addr, ~Relocated(b[1])
    PROVE  Authority(b)' = IF ~Stolen(a[1]) /\ b = Target(a) THEN v ELSE Authority(b)
<1>1. /\ a = <<a[1], a[2]>> /\ b = <<b[1], b[2]>> /\ b[1] # NoBlock
      /\ a[1] \in Block /\ b[1] \in Block
  BY AddrPair
<1>2. ram'[a] = v /\ \A c \in Addr : c # a => ram'[c] = ram[c]
  BY DEF TypeOK
<1>3. RelocInv'
  BY DEF RelocInv
<1>4. CASE Stolen(b[1])
  <2>1. PICK u \in UnderIO : reloc[u] = b[1]
    BY <1>4 DEF Stolen
  <2>2. Authority(b) = ram[<<u, b[2]>>] /\ Authority(b)' = ram'[<<u, b[2]>>]
    BY <1>3, <2>1, StolenAuthority, StolenAuthorityNext
  <2>3. <<u, b[2]>> \in Addr
    BY RelocationAssumption, AddrPair DEF Addr
  <2>4. CASE a = <<u, b[2]>>
    <3>1. a[1] = u /\ a[2] = b[2] /\ Relocated(a[1])
      BY <1>1, <2>1, <2>4 DEF Relocated
    <3>2. ~Stolen(a[1])
      BY <1>1, <3>1, StolenIsLow
    <3>3. Target(a) = b
      BY <1>1, <2>1, <3>1 DEF Target
    <3> QED BY <1>2, <2>2, <2>4, <3>2, <3>3
  <2>5. CASE a # <<u, b[2]>>
    <3>1. ASSUME ~Stolen(a[1]), b = Target(a) PROVE FALSE
      <4>1. CASE Relocated(a[1])
        <5>1. a[1] \in UnderIO /\ reloc[a[1]] = b[1] /\ a[2] = b[2]
          BY <3>1, <4>1, <1>1 DEF Target, Relocated
        <5>2. a[1] = u
          BY <1>1, <2>1, <5>1 DEF RelocInv
        <5> QED BY <1>1, <2>5, <5>1, <5>2
      <4>2. CASE ~Relocated(a[1])
        BY <1>4, <3>1, <4>2 DEF Target
      <4> QED BY <4>1, <4>2
    <3> QED BY <1>2, <2>2, <2>3, <2>5, <3>1
  <2> QED BY <2>4, <2>5
<1>5. CASE ~Stolen(b[1])
  <2>1. Authority(b) = ram[b] /\ Authority(b)' = ram'[b]
    BY <1>5 DEF Authority, Stolen
  <2>2. CASE b = a
    BY <1>2, <1>5, <2>1, <2>2 DEF Target
  <2>3. CASE b # a
    <3>1. b # Target(a)
      BY <1>1, <1>5, <2>3 DEF Target, Relocated, Stolen
    <3> QED BY <1>2, <2>1, <2>3, <3>1
  <2> QED BY <2>2, <2>3
<1> QED BY <1>4, <1>5

\* What onRamWrite does to its target, and that it leaves every other address
\* alone.
LEMMA OnRamWriteEffect ==
    ASSUME TypeOK, delivery, NEW a \in Addr, NEW v \in Value, OnRamWrite(a, v),
           NEW t, t = Target(a)
    PROVE  /\ \A b \in Addr : b # t =>
                /\ b \in dirty' <=> b \in dirty
                /\ b \in synced' <=> b \in synced
                /\ pending'[b] = pending[b]
                /\ b \in Suspects(a, v) <=> b \in suspect
           /\ \/ /\ Stolen(a[1]) /\ t \notin synced' /\ UNCHANGED <<dirty, pending>>
                 /\ Suspects(a, v) = suspect
              \/ /\ ~Stolen(a[1]) /\ t \notin synced' /\ UNCHANGED <<dirty, pending>>
                 /\ t \in dirty => t \in Suspects(a, v)
              \/ /\ ~Stolen(a[1]) /\ t = a /\ v = ram[a] /\ UNCHANGED bufferVars
                 /\ Suspects(a, v) = suspect
              \/ /\ ~Stolen(a[1]) /\ t \in dirty' /\ pending'[t] = v
                 /\ ShouldMirror(t)
<1>1. t \in Addr
  BY TargetType
<1>2. CASE Skipped(a)
  <2>1. synced' = synced \ {t} /\ UNCHANGED <<dirty, pending>> /\ Refuses(a)
    BY <1>2 DEF Skipped
  <2>2. CASE Stolen(a[1])
    BY <2>1, <2>2 DEF Suspects
  <2>3. CASE ~Stolen(a[1])
    <3>1. Suspects(a, v) = suspect \cup ({t} \cap dirty)
      BY <2>1, <2>3 DEF Suspects
    <3> QED BY <2>1, <2>3, <3>1
  <2> QED BY <2>2, <2>3
<1>3. CASE Eliminated(a, v)
  <2>1. ~Refuses(a) /\ Redundant(a, v) /\ UNCHANGED bufferVars
    BY <1>3 DEF Eliminated
  <2>2. ~Stolen(a[1]) /\ ~Relocated(a[1]) /\ v = ram[a] /\ Suspects(a, v) = suspect
    BY <2>1 DEF Refuses, Redundant, Suspects
  <2>3. t = a
    BY <2>2 DEF Target
  <2> QED BY <2>1, <2>2, <2>3 DEF bufferVars
<1>4. CASE Accepted(a, v)
  <2>1. /\ ~Refuses(a) /\ ~Redundant(a, v)
        /\ synced' = IF Relocated(a[1]) THEN synced \ {t} ELSE synced
        /\ pending' = [pending EXCEPT ![t] = v] /\ dirty' = dirty \cup {t}
    BY <1>4 DEF Accepted
  <2>2. ~Stolen(a[1]) /\ ShouldMirror(t) /\ Suspects(a, v) = suspect \ {t}
    BY <2>1 DEF Refuses, Suspects
  <2>3. pending'[t] = v /\ \A b \in Addr : b # t => pending'[b] = pending[b]
    BY <1>1, <2>1 DEF TypeOK
  <2> QED BY <2>1, <2>2, <2>3
<1> QED BY <1>2, <1>3, <1>4 DEF OnRamWrite, TimingOnly

\* Every action keeps the relocation table one-to-one, and away from a machine
\* whose RAM under the window can be reached.
LEMMA NextReloc ==
    ASSUME TypeOK, RelocInv, [Next]_vars
    PROVE  RelocInv'
<1>1. ASSUME reloc' = reloc PROVE RelocInv'
  BY <1>1 DEF RelocInv
<1>2. ASSUME NEW a \in Addr, NEW v \in Value, NEW r \in Low, NEW h \in HotSets,
             AllocRelocBlock(a, v, r, h)
      PROVE  RelocInv'
  <2>1. /\ v \in UnderIO /\ ~UnderIOAccessible /\ ~Stolen(r)
        /\ reloc' = [reloc EXCEPT ![v] = r]
    BY <1>2 DEF AllocRelocBlock
  <2>2. \A u \in UnderIO : reloc'[u] = IF u = v THEN r ELSE reloc[u]
    BY <2>1 DEF TypeOK
  <2>3. \A u \in UnderIO : reloc[u] # r
    BY <2>1 DEF Stolen
  <2> QED BY <2>1, <2>2, <2>3 DEF RelocInv
<1>3. CASE Reset
  BY <1>3 DEF Reset, RelocInv
<1>4. CASE Program
  BY <1>4, <1>1, <1>2 DEF Program, Write, PointerWrite, UpdateHotShapeBlocks,
     SetOptimisation, Replay, sharedVars
<1>5. CASE Control
  BY <1>5, <1>1, <1>3 DEF Control, DisablePhysicalMirror, EnablePhysicalMirror, sharedVars
<1>6. CASE Drain
  BY <1>6, <1>1 DEF Drain, FlushBegin, Take, Defer, SendBurst, NoneTaken, sharedVars
<1>7. CASE Resync
  BY <1>7, <1>1 DEF Resync, ResyncSweep, ResyncDisplayed
<1>8. CASE UNCHANGED vars
  BY <1>8, <1>1 DEF vars, sharedVars
<1> QED BY <1>4, <1>5, <1>6, <1>7, <1>8 DEF Next

\* The policy keeps what cannot be reached out of the queue.
LEMMA OnRamWriteReach ==
    ASSUME TypeOK, ReachInv, NEW a \in Addr, NEW v \in Value, OnRamWrite(a, v)
    PROVE  ReachInv'
<1>1. CASE ~delivery
  BY <1>1, OnRamWriteHalted DEF ReachInv
<1>2. CASE delivery
  <2> DEFINE t == Target(a)
  <2>1. t \in Addr
    BY TargetType
  <2>2. dirty' \subseteq dirty \cup {t} /\ synced' \subseteq synced
    BY <1>2 DEF OnRamWrite, TimingOnly, Skipped, Eliminated, Accepted, bufferVars
  <2>3. t \in dirty \/ t \notin dirty' \/ ShouldMirror(t)
    BY <1>2 DEF OnRamWrite, TimingOnly, Skipped, Eliminated, Accepted, bufferVars, Refuses
  <2>4. ShouldMirror(t) => (t[1] \in UnderIO => UnderIOAccessible)
    BY DEF ShouldMirror
  <2> HIDE DEF t
  <2> QED BY <2>2, <2>3, <2>4 DEF ReachInv
<1> QED BY <1>1, <1>2

\* Every action keeps it out.
LEMMA NextReach ==
    ASSUME TypeOK, CallInv, RingMatchesBitmap, ReachInv, [Next]_vars
    PROVE  ReachInv'
<1>1. ASSUME UNCHANGED <<dirty, synced>> PROVE ReachInv'
  BY <1>1 DEF ReachInv
<1>2. ASSUME Discard PROVE ReachInv'
  BY <1>2 DEF Discard, ReachInv
<1>3. ASSUME NEW a \in Addr, ShouldMirror(a), Redeliver(a), UNCHANGED dirty
      PROVE  ReachInv'
  BY <1>3 DEF ReachInv, Redeliver, ShouldMirror
<1>4. CASE Program
  <2>1. CASE Replay
    <3>1. Head(replay) \in Addr
      BY <2>1 DEF Replay, TypeOK
    <3>2. ram[Head(replay)] \in Value
      BY <3>1 DEF TypeOK
    <3> QED BY <2>1, <3>1, <3>2, OnRamWriteReach DEF Replay
  <2>2. CASE ~Replay
    BY <1>4, <2>2, <1>1, OnRamWriteReach
    DEF Program, Write, PointerWrite, AllocRelocBlock, UpdateHotShapeBlocks,
        SetOptimisation, bufferVars
  <2> QED BY <2>1, <2>2
<1>5. CASE Control
  BY <1>5, <1>2 DEF Control, Reset, DisablePhysicalMirror, EnablePhysicalMirror
<1>6. CASE Drain
  <2>1. CASE SendBurst
    <3>1. scan.burst \subseteq dirty
      BY DEF RingMatchesBitmap
    <3>2. dirty' \subseteq dirty /\ synced' = synced \cup scan.burst
      BY <2>1 DEF SendBurst
    <3> QED BY <3>1, <3>2 DEF ReachInv
  <2>2. CASE ~SendBurst
    BY <1>6, <2>2, <1>1 DEF Drain, FlushBegin, Take, Defer, NoneTaken, bufferVars
  <2> QED BY <2>1, <2>2
<1>7. CASE Resync
  <2>1. cursor \in Addr
    BY DEF TypeOK
  <2> QED BY <1>7, <2>1, <1>1, <1>3 DEF Resync, ResyncSweep, ResyncDisplayed
<1>8. CASE UNCHANGED vars
  BY <1>8, <1>1 DEF vars, bufferVars
<1> QED BY <1>4, <1>5, <1>6, <1>7, <1>8 DEF Next

\* A store, direct or re-issued, leaves every address in agreement that was so
\* or is the relocated target of the store.  A byte that went straight to the
\* bus is dirty, or no longer believed.
LEMMA StoreAgrees ==
    ASSUME TypeOK, RelocInv, ReachInv', NothingQueuedForHDMI,
           NEW a \in Addr, NEW v \in Value, OnRamWrite(a, v),
           ram' = [ram EXCEPT ![a] = v], reloc' = reloc, suspect' = Suspects(a, v),
           \A c \in Addr : dram'[c] = dram[c] \/ (c = a /\ (c \in synced' => c \in dirty')),
           NEW b \in Addr, b \notin suspect',
           b \in suspect \/ Agrees(b) \/ (b = Target(a) /\ Relocated(a[1]))
    PROVE  Agrees(b)'
<1>1. CASE ~delivery
  <2>1. dirty' = {} /\ synced' = {}
    BY <1>1, OnRamWriteHalted DEF NothingQueuedForHDMI
  <2> QED BY <2>1 DEF Agrees
<1>2. CASE Relocated(b[1])
  <2>1. b[1] \in UnderIO /\ ~UnderIOAccessible
    BY <1>2 DEF RelocInv, Relocated
  <2>2. b \notin dirty' /\ b \notin synced'
    BY <2>1 DEF ReachInv
  <2> QED BY <2>2 DEF Agrees
<1>3. CASE delivery /\ ~Relocated(b[1])
  <2> DEFINE t == Target(a)
             w == Authority(b)
  <2>1. Authority(b)' = IF ~Stolen(a[1]) /\ b = t THEN v ELSE w
    BY <1>3, StoreAuthority
  <2>2. \A x : DeliverValue(b, x)' = DeliverValue(b, x)
    BY DEF DeliverValue, Stolen, Relocated
  <2>3. /\ \A c \in Addr : c # t =>
             /\ c \in dirty' <=> c \in dirty
             /\ c \in synced' <=> c \in synced
             /\ pending'[c] = pending[c]
             /\ c \in suspect' <=> c \in suspect
        /\ \/ /\ Stolen(a[1]) /\ t \notin synced' /\ UNCHANGED <<dirty, pending>>
              /\ suspect' = suspect
           \/ /\ ~Stolen(a[1]) /\ t \notin synced' /\ UNCHANGED <<dirty, pending>>
              /\ t \in dirty => t \in suspect'
           \/ /\ ~Stolen(a[1]) /\ t = a /\ v = ram[a] /\ UNCHANGED bufferVars
              /\ suspect' = suspect
           \/ ~Stolen(a[1]) /\ t \in dirty' /\ pending'[t] = v
    BY <1>3, OnRamWriteEffect
  <2>4. Stolen(a[1]) => ~Relocated(a[1])
    BY AddrPair, StolenIsLow
  <2>5. t = a \/ Relocated(a[1])
    BY DEF Target
  <2>6. ~Stolen(a[1]) => Authority(a) = ram[a]
    BY DEF Authority
  <2> HIDE DEF t
  <2>7. CASE b # t
    <3>1. b # a
      BY <1>3, <2>5, <2>7
    <3>2. Agrees(b)
      BY <2>3, <2>7 DEF t
    <3>3. /\ b \in dirty' <=> b \in dirty
          /\ b \in synced' <=> b \in synced
          /\ pending'[b] = pending[b] /\ dram'[b] = dram[b] /\ Authority(b)' = w
      BY <2>1, <2>3, <2>7, <3>1
    <3> QED BY <2>2, <3>2, <3>3 DEF Agrees
  <2>8. CASE b = t /\ Stolen(a[1])
    <3>1. Agrees(b)
      BY <2>3, <2>4, <2>8
    <3>2. b \notin synced' /\ UNCHANGED <<dirty, pending>> /\ Authority(b)' = w
      BY <2>1, <2>3, <2>8
    <3> QED BY <3>1, <3>2 DEF Agrees
  <2>9. CASE b = t /\ ~Stolen(a[1])
    <3>1. Authority(b)' = v
      BY <2>1, <2>9
    <3>2. CASE t \notin synced' /\ UNCHANGED <<dirty, pending>> /\ (t \in dirty => t \in suspect')
      BY <2>9, <3>2 DEF Agrees
    <3>3. CASE t = a /\ v = ram[a] /\ UNCHANGED bufferVars /\ suspect' = suspect
      <4>1. w = v
        BY <2>6, <2>9, <3>3
      <4>2. Agrees(b)
        BY <1>3, <2>9, <3>3
      <4>3. UNCHANGED <<dirty, synced, pending>>
        BY <3>3 DEF bufferVars
      <4>4. b \in synced' \ dirty' => dram'[b] = dram[b]
        OBVIOUS
      <4> QED BY <2>2, <3>1, <4>1, <4>2, <4>3, <4>4 DEF Agrees
    <3>4. CASE t \in dirty' /\ pending'[t] = v
      BY <2>9, <3>1, <3>4 DEF Agrees
    <3> QED BY <2>3, <2>9, <3>2, <3>3, <3>4
  <2> QED BY <2>7, <2>8, <2>9
<1> QED BY <1>1, <1>2, <1>3

\* The same when a block is claimed for a shape: the bytes of the block are
\* still to be re-issued, and delivered pointers to the shape are suspect.
LEMMA AllocAgrees ==
    ASSUME TypeOK, RelocInv, RelocInv', ReachInv', NothingQueuedForHDMI, CleanBytesEqual,
           NEW a \in Addr, NEW v \in Value, NEW r \in Low, NEW h \in HotSets,
           AllocRelocBlock(a, v, r, h), NEW b \in Addr, b \notin suspect', b \notin Reissued'
    PROVE  Agrees(b)'
<1>1. /\ a[1] \notin UnderIO /\ v \in UnderIO /\ ~UnderIOAccessible /\ v # ram[a]
      /\ a \in Bank3Row /\ ~Relocated(v) /\ ~Stolen(r) /\ r # a[1] /\ replay = <<>>
      /\ OnRamWrite(a, v)
      /\ suspect' = Suspects(a, v) \cup {p \in Bank3Row \ dirty : ram[p] = v}
      /\ ram' = [ram EXCEPT ![a] = v] /\ dram' = [dram EXCEPT ![a] = r]
      /\ reloc' = [reloc EXCEPT ![v] = r]
      /\ replay' = [i \in 1 .. TopOffset + 1 |-> <<v, i - 1>>]
  BY DEF AllocRelocBlock, Idle
<1>2. /\ ram'[a] = v /\ dram'[a] = r
      /\ \A c \in Addr : c # a => ram'[c] = ram[c] /\ dram'[c] = dram[c]
  BY <1>1 DEF TypeOK
<1>3. /\ reloc[v] = NoBlock /\ reloc'[v] = r /\ r # NoBlock
      /\ \A u \in UnderIO : u # v => reloc'[u] = reloc[u]
  BY <1>1, RelocationAssumption DEF TypeOK, Relocated
<1>4. /\ a = <<a[1], a[2]>> /\ a[1] \in Block
      /\ b = <<b[1], b[2]>> /\ b[1] \in Block /\ b[2] \in Offset /\ b[1] # NoBlock
  BY AddrPair
<1>5. b[1] # r
  <2> SUFFICES ASSUME b[1] = r PROVE FALSE
    OBVIOUS
  <2> DEFINE i == b[2] + 1
  <2>1. i \in 1 .. TopOffset + 1 /\ i - 1 = b[2]
    BY <1>4, SpaceAssumption DEF Offset
  <2>2. i \in DOMAIN replay' /\ replay'[i] = <<v, b[2]>>
    BY <1>1, <2>1
  <2>3. Relocated(v)'
    BY <1>1, <1>3 DEF Relocated
  <2>4. Target(<<v, b[2]>>)' = b
    BY <1>3, <1>4, <2>3 DEF Target
  <2>5. Target(replay[i])' = b /\ Relocated(replay[i][1])'
    BY <2>2, <2>3, <2>4
  <2> HIDE DEF i
  <2> QED BY <2>2, <2>5 DEF Reissued
<1>6. Stolen(b[1])' <=> Stolen(b[1])
  BY <1>1, <1>3, <1>4, <1>5 DEF Stolen
<1>7. ~Stolen(b[1]) => Authority(b) = ram[b] /\ Authority(b)' = ram'[b]
  BY <1>6 DEF Authority
<1>8. Stolen(b[1]) => Authority(b)' = Authority(b)
  <2> SUFFICES ASSUME Stolen(b[1]) PROVE Authority(b)' = Authority(b)
    OBVIOUS
  <2>1. PICK u \in UnderIO : reloc[u] = b[1]
    BY DEF Stolen
  <2>2. reloc'[u] = b[1]
    BY <1>3, <1>4, <2>1
  <2>3. Authority(b) = ram[<<u, b[2]>>] /\ Authority(b)' = ram'[<<u, b[2]>>]
    BY <2>1, <2>2, StolenAuthority, StolenAuthorityNext
  <2>4. <<u, b[2]>> \in Addr /\ <<u, b[2]>> # a
    BY <1>1, <1>4, RelocationAssumption DEF Addr
  <2> QED BY <1>2, <2>3, <2>4
<1>9. CASE ~delivery
  <2>1. dirty' = {} /\ synced' = {}
    BY <1>1, <1>9, OnRamWriteHalted DEF NothingQueuedForHDMI
  <2> QED BY <2>1 DEF Agrees
<1>10. CASE delivery
  <2>1. Target(a) = a
    BY <1>1 DEF Target, Relocated
  <2>2. /\ \A c \in Addr : c # a =>
             /\ c \in dirty' <=> c \in dirty
             /\ c \in synced' <=> c \in synced
             /\ pending'[c] = pending[c]
             /\ c \in Suspects(a, v) <=> c \in suspect
        /\ \/ /\ Stolen(a[1]) /\ a \notin synced' /\ UNCHANGED <<dirty, pending>>
              /\ Suspects(a, v) = suspect
           \/ /\ ~Stolen(a[1]) /\ a \notin synced' /\ UNCHANGED <<dirty, pending>>
              /\ a \in dirty => a \in Suspects(a, v)
           \/ ~Stolen(a[1]) /\ a \in dirty' /\ pending'[a] = v
    BY <1>1, <1>10, <2>1, OnRamWriteEffect
  <2>3. Reissued = {}
    BY <1>1 DEF Reissued
  <2>4. b \notin suspect => Agrees(b)
    BY <2>3 DEF CleanBytesEqual, Agrees
  <2>5. CASE b = a
    <3>1. CASE Stolen(a[1])
      BY <1>1, <1>8, <2>2, <2>4, <2>5, <3>1 DEF Agrees
    <3>2. CASE ~Stolen(a[1])
      <4>1. Authority(b)' = v
        BY <1>2, <1>7, <2>5, <3>2
      <4> QED BY <1>1, <2>2, <2>5, <3>2, <4>1 DEF Agrees
    <3> QED BY <3>1, <3>2
  <2>6. CASE b # a
    <3>0. PICK w : w = Authority(b)
      OBVIOUS
    <3>1. Authority(b)' = w
      BY <1>2, <1>7, <1>8, <2>6, <3>0
    <3>2. Agrees(b)
      BY <1>1, <2>2, <2>4, <2>6
    <3>3. ASSUME b \in synced' \ dirty' PROVE DeliverValue(b, w)' = DeliverValue(b, w)
      <4>1. CASE b \in Bank3Row /\ ~Stolen(b[1]) /\ w = v
        <5>1. ram[b] = v /\ b \notin dirty
          BY <1>7, <2>2, <2>6, <3>0, <3>3, <4>1
        <5> QED BY <1>1, <4>1, <5>1
      <4>2. CASE w # v
        BY <1>3, <1>6, <4>2 DEF DeliverValue, Relocated
      <4>3. CASE ~(b \in Bank3Row /\ ~Stolen(b[1]))
        BY <1>6, <4>3 DEF DeliverValue
      <4> QED BY <4>1, <4>2, <4>3
    <3>4. /\ b \in dirty' <=> b \in dirty
          /\ b \in synced' <=> b \in synced
          /\ pending'[b] = pending[b] /\ dram'[b] = dram[b]
      BY <1>2, <2>2, <2>6
    <3>5. b \in dirty' => pending'[b] = w
      BY <3>0, <3>2, <3>4 DEF Agrees
    <3>6. b \in synced' \ dirty' => dram'[b] = DeliverValue(b, w)'
      BY <3>0, <3>2, <3>3, <3>4 DEF Agrees
    <3> QED BY <3>1, <3>5, <3>6 DEF Agrees
  <2> QED BY <2>5, <2>6
<1> QED BY <1>9, <1>10

\* Every action keeps same-value elimination sound.
LEMMA NextEqual ==
    ASSUME TypeOK, CallInv, RingMatchesBitmap, NothingQueuedForHDMI, RelocInv, RelocInv',
           ReachInv', CleanBytesEqual, [Next]_vars
    PROVE  CleanBytesEqual'
<1>0. SUFFICES ASSUME NEW b \in Addr, b \notin suspect', b \notin Reissued'
               PROVE  Agrees(b)'
  BY DEF CleanBytesEqual, Agrees
<1>1. b \in suspect \/ b \in Reissued \/ Agrees(b)
  BY DEF CleanBytesEqual, Agrees
<1>2. ASSUME replay = <<>> PROVE Reissued = {}
  BY <1>2 DEF Reissued
<1>3. ASSUME UNCHANGED <<dirty, synced, pending, dram, ram, reloc, replay, suspect>>
      PROVE  Agrees(b)'
  <2>1. b \in Reissued' <=> b \in Reissued
    BY <1>3 DEF Reissued, Target, Relocated
  <2>2. Agrees(b)
    BY <1>0, <1>1, <1>3, <2>1
  <2> QED BY <1>3, <2>2 DEF Agrees, Authority, Stolen, SourceOf, DeliverValue, Relocated
<1>4. ASSUME Discard PROVE Agrees(b)'
  BY <1>4 DEF Discard, Agrees
<1>5. ASSUME NEW a \in Addr, Redeliver(a), a \notin dirty, Idle,
             UNCHANGED <<dirty, pending, ram, reloc, replay>>
      PROVE  Agrees(b)'
  <2>0. PICK w, d : w = Authority(b) /\ d = DeliverValue(b, w)
    OBVIOUS
  <2>1. Authority(b)' = w /\ DeliverValue(b, w)' = d
    BY <1>5, <2>0 DEF Authority, Stolen, SourceOf, DeliverValue, Relocated
  <2>2. /\ dram'[b] = IF b = a THEN d ELSE dram[b]
        /\ synced' = synced \cup {a} /\ suspect' = suspect \ {a}
    BY <1>5, <2>0 DEF Redeliver, TypeOK
  <2>3. b # a => Agrees(b)
    BY <1>0, <1>1, <1>2, <1>5, <2>2 DEF Idle
  <2>4. b # a => (b \in dirty => pending[b] = w) /\ (b \in synced \ dirty => dram[b] = d)
    BY <2>0, <2>3 DEF Agrees
  <2> QED BY <1>5, <2>1, <2>2, <2>4 DEF Agrees
<1>a. ASSUME NEW a \in Addr, NEW v \in Value, Write(a, v)
      PROVE  Agrees(b)'
  <2>1. b \in suspect \/ Agrees(b)
    BY <1>1, <1>2, <1>a DEF Write, Idle
  <2> QED BY <1>0, <1>a, <2>1, StoreAgrees DEF Write
<1>b. ASSUME NEW a \in Addr, NEW v \in Value, NEW h \in HotSets, PointerWrite(a, v, h)
      PROVE  Agrees(b)'
  <2>1. b \in suspect \/ Agrees(b)
    BY <1>1, <1>2, <1>b DEF PointerWrite, Idle
  <2>2. /\ OnRamWrite(a, v) /\ v # ram[a] /\ (a[1] \in UnderIO => UnderIOAccessible)
        /\ dram' = [dram EXCEPT ![a] = IF a \in Bank3Row /\ Relocated(v)
                                       THEN reloc[v] ELSE v]
        /\ ram' = [ram EXCEPT ![a] = v] /\ reloc' = reloc /\ suspect' = Suspects(a, v)
    BY <1>b DEF PointerWrite
  <2>3. ~Relocated(a[1])
    BY <2>2 DEF Relocated, RelocInv
  <2>4. Target(a) = a
    BY <2>3 DEF Target
  <2>5. a \in synced' => a \in dirty'
    <3>1. CASE ~delivery
      BY <2>2, <3>1, OnRamWriteHalted DEF NothingQueuedForHDMI
    <3>2. CASE delivery
      BY <2>2, <2>4, <3>2, OnRamWriteEffect
    <3> QED BY <3>1, <3>2
  <2>6. \A c \in Addr : dram'[c] = dram[c] \/ (c = a /\ (c \in synced' => c \in dirty'))
    BY <2>2, <2>5 DEF TypeOK
  <2> QED BY <1>0, <2>1, <2>2, <2>6, StoreAgrees
<1>c. ASSUME NEW a \in Addr, NEW v \in Value, NEW r \in Low, NEW h \in HotSets,
             AllocRelocBlock(a, v, r, h)
      PROVE  Agrees(b)'
  BY <1>0, <1>c, AllocAgrees
<1>d. CASE Replay
  <2> DEFINE a == Head(replay)
             v == ram[a]
  <2>1. replay \in Seq(Addr) /\ replay # <<>>
    BY <1>d DEF Replay, TypeOK
  <2>2. a \in Addr /\ v \in Value
    BY <2>1 DEF TypeOK
  <2>3. /\ OnRamWrite(a, v) /\ suspect' = Suspects(a, v) /\ replay' = Tail(replay)
        /\ UNCHANGED <<ram, dram, reloc>>
    BY <1>d DEF Replay, sharedVars
  <2>4. ram' = [ram EXCEPT ![a] = v]
    BY <2>2, <2>3 DEF TypeOK
  <2>5. ASSUME b \in Reissued PROVE b = Target(a) /\ Relocated(a[1])
    <3>1. PICK i \in DOMAIN replay : Relocated(replay[i][1]) /\ b = Target(replay[i])
      BY <2>5 DEF Reissued
    <3>2. i \in 1 .. Len(replay) /\ Len(replay) \in Nat
      BY <2>1
    <3>3. ASSUME i # 1 PROVE FALSE
      <4> DEFINE j == i - 1
      <4>1. j \in DOMAIN replay' /\ replay'[j] = replay[i]
        BY <2>1, <2>3, <3>2, <3>3
      <4>2. Relocated(replay[j][1])' /\ b = Target(replay[j])'
        BY <2>3, <3>1, <4>1 DEF Relocated, Target
      <4> HIDE DEF j
      <4> QED BY <1>0, <4>1, <4>2 DEF Reissued
    <3>4. a = replay[1]
      BY <2>1
    <3> QED BY <3>1, <3>3, <3>4
  <2>6. b \in suspect \/ Agrees(b) \/ (b = Target(a) /\ Relocated(a[1]))
    BY <1>1, <2>5
  <2>7. \A c \in Addr : dram'[c] = dram[c] \/ (c = a /\ (c \in synced' => c \in dirty'))
    BY <2>3
  <2> HIDE DEF a, v
  <2> QED BY <1>0, <2>2, <2>3, <2>4, <2>6, <2>7, StoreAgrees
<1>e. ASSUME NEW h \in HotSets, UpdateHotShapeBlocks(h)
      PROVE  Agrees(b)'
  BY <1>e, <1>3 DEF UpdateHotShapeBlocks, bufferVars
<1>f. ASSUME NEW p \in Policies, SetOptimisation(p)
      PROVE  Agrees(b)'
  BY <1>f, <1>3 DEF SetOptimisation, bufferVars, sharedVars
<1>g. CASE Control
  BY <1>g, <1>4 DEF Control, Reset, DisablePhysicalMirror, EnablePhysicalMirror
<1>h. ASSUME NEW d \in Drains, NEW n \in MaxBytes, FlushBegin(d, n)
      PROVE  Agrees(b)'
  BY <1>h, <1>3 DEF FlushBegin, bufferVars, sharedVars
<1>i. CASE Take \/ Defer \/ NoneTaken
  BY <1>i, <1>3 DEF Take, Defer, NoneTaken, sharedVars
<1>j. CASE SendBurst
  <2>0. PICK w, d : w = Authority(b) /\ d = DeliverValue(b, w)
    OBVIOUS
  <2>1. scan.burst \subseteq dirty /\ replay = <<>>
    BY <1>j DEF RingMatchesBitmap, SendBurst, CallInv
  <2>2. /\ dram'[b] = IF b \in scan.burst THEN DeliverValue(b, pending[b]) ELSE dram[b]
        /\ dirty' = dirty \ scan.burst /\ synced' = synced \cup scan.burst
        /\ UNCHANGED <<pending, ram, reloc, replay, suspect>>
    BY <1>j DEF SendBurst
  <2>3. Authority(b)' = w /\ DeliverValue(b, w)' = d
    BY <2>0, <2>2 DEF Authority, Stolen, SourceOf, DeliverValue, Relocated
  <2>4. Agrees(b)
    BY <1>0, <1>1, <1>2, <2>1, <2>2
  <2>5. /\ b \in dirty => pending[b] = w /\ DeliverValue(b, pending[b]) = d
        /\ b \in synced \ dirty => dram[b] = d
    BY <2>0, <2>4 DEF Agrees
  <2> QED BY <2>1, <2>2, <2>3, <2>5 DEF Agrees
<1>k. CASE ResyncSweep
  <2>1. cursor \in Addr
    BY DEF TypeOK
  <2>2. CASE ShouldMirror(cursor) /\ cursor \notin dirty
    BY <1>k, <1>5, <2>1, <2>2 DEF ResyncSweep
  <2>3. CASE ~(ShouldMirror(cursor) /\ cursor \notin dirty)
    BY <1>k, <1>3, <2>3 DEF ResyncSweep
  <2> QED BY <2>2, <2>3
<1>l. ASSUME NEW a \in Addr, ResyncDisplayed(a)
      PROVE  Agrees(b)'
  BY <1>l, <1>5 DEF ResyncDisplayed
<1>m. CASE UNCHANGED vars
  BY <1>m, <1>3 DEF vars, bufferVars, sharedVars
<1> QED BY <1>a, <1>b, <1>c, <1>d, <1>e, <1>f, <1>g, <1>h, <1>i, <1>j, <1>k, <1>l, <1>m
        DEF Next, Program, Drain, Resync

\* A queued byte carries the shadow's value and a delivered clean byte is equal
\* in DRAM, but for the suspect addresses: what makes it right not to send a
\* store of the same value, for every address space, policy, relocation and
\* order of stores, drains, sweeps, resets and switches.
THEOREM EliminationSound == Spec => []CleanBytesEqual
<1> DEFINE Inv == /\ TypeOK /\ CallInv /\ RingMatchesBitmap /\ NothingQueuedForHDMI
                  /\ RelocInv /\ ReachInv /\ CleanBytesEqual
<1>1. Init => Inv
  <2>1. Init => RingMatchesBitmap /\ NothingQueuedForHDMI
    BY NoScanType DEF Init, RingMatchesBitmap, Queued, NothingQueuedForHDMI
  <2>2. Init => RelocInv /\ ReachInv /\ CleanBytesEqual
    BY DEF Init, RelocInv, ReachInv, CleanBytesEqual
  <2> QED BY <2>1, <2>2, InitType
<1>2. Inv /\ [Next]_vars => Inv'
  <2> SUFFICES ASSUME Inv, [Next]_vars PROVE Inv'
    OBVIOUS
  <2>1. TypeOK' /\ CallInv' /\ RingMatchesBitmap' /\ NothingQueuedForHDMI'
    BY NextType, NextRing, NextHDMI
  <2>2. RelocInv' /\ ReachInv'
    BY NextReloc, NextReach
  <2>3. CleanBytesEqual'
    BY <2>2, NextEqual
  <2> QED BY <2>1, <2>2, <2>3
<1> QED BY <1>1, <1>2, PTL DEF Spec

--------------------------------------------------------------------------------
(* The order of the ring.                                                     *)

\* Two entries of the ring, as a scan has it: first those it has still to look
\* at, then those it put back; each part in the order the scan began with, and
\* what was put back came first.
Sorted(i, j) ==
    IF i <= scan.left /\ scan.left < j THEN Before(scan.entry, queue[j], queue[i])
    ELSE Before(scan.entry, queue[i], queue[j])

\* A drain that stops early has used up its budget.
StableInv ==
    scan.on =>
        /\ scan.room = scan.budget /\ scan.budget <= Chunk /\ scan.left <= Len(queue)
        /\ Distinct(scan.entry)
        /\ \A i, j \in DOMAIN queue : i < j => Sorted(i, j)

\* Every action keeps a scan in order.
LEMMA NextStable ==
    ASSUME TypeOK, CallInv, RingMatchesBitmap, StableInv, [Next]_vars
    PROVE  StableInv'
<1>0. /\ queue \in Seq(Addr) /\ Distinct(queue) /\ Len(queue) \in Nat
      /\ DOMAIN queue = 1 .. Len(queue)
      /\ scan.left \in Nat /\ scan.room \in Nat /\ scan.budget \in Nat
  BY DEF RingMatchesBitmap, Distinct, TypeOK
<1>1. ASSUME ~scan'.on PROVE StableInv'
  BY <1>1 DEF StableInv
<1>2. ASSUME NEW d \in Drains, NEW n \in MaxBytes, FlushBegin(d, n)
      PROVE  StableInv'
  <2>1. scan' = NewChunk(d, n, queue, queue) /\ queue' = queue
    BY <1>2 DEF FlushBegin, bufferVars
  <2>2. n <= Chunk /\ n \in Nat /\ Chunk \in Nat
    BY SchedulerAssumption, DrainAssumption
  <2>3. Lesser(n, Chunk) = n
    BY <2>2 DEF Lesser
  <2>4. /\ scan'.room = n /\ scan'.budget = n /\ scan'.left = Len(queue)
        /\ scan'.entry = queue
    BY <2>1, <2>3 DEF NewChunk
  <2>5. ASSUME NEW i \in DOMAIN queue, NEW j \in DOMAIN queue, i < j PROVE Sorted(i, j)'
    BY <1>0, <2>1, <2>4, <2>5 DEF Sorted, Before
  <2> QED BY <1>0, <2>1, <2>2, <2>4, <2>5 DEF StableInv
<1>3. CASE Take
  <2>1. /\ scan.on /\ scan.left > 0 /\ scan.room > 0 /\ queue # <<>>
        /\ scan'.left = scan.left - 1 /\ scan'.room = scan.room - 1
        /\ scan'.budget = scan.budget - 1 /\ scan'.entry = scan.entry
        /\ queue' = Tail(queue)
    BY <1>3 DEF Take, Scanning, TypeOK
  <2>2. /\ Len(queue') = Len(queue) - 1 /\ DOMAIN queue' = 1 .. Len(queue) - 1
        /\ \A i \in 1 .. Len(queue) - 1 : queue'[i] = queue[i + 1]
    BY <1>0, <2>1
  <2>3. ASSUME NEW i \in DOMAIN queue', NEW j \in DOMAIN queue', i < j PROVE Sorted(i, j)'
    <3>1. /\ i \in Nat /\ j \in Nat
          /\ i + 1 \in DOMAIN queue /\ j + 1 \in DOMAIN queue /\ i + 1 < j + 1
      BY <1>0, <2>2, <2>3
    <3>2. Sorted(i + 1, j + 1)
      BY <2>1, <3>1 DEF StableInv
    <3>3. queue'[i] = queue[i + 1] /\ queue'[j] = queue[j + 1]
      BY <2>2
    <3>4. i <= scan'.left /\ scan'.left < j <=> i + 1 <= scan.left /\ scan.left < j + 1
      BY <1>0, <2>1, <3>1
    <3> QED BY <2>1, <3>2, <3>3, <3>4 DEF Sorted
  <2>4. /\ scan.room = scan.budget /\ scan.budget <= Chunk /\ scan.left <= Len(queue)
        /\ Distinct(scan.entry)
    BY <2>1 DEF StableInv
  <2>5. scan'.room = scan'.budget /\ scan'.budget <= Chunk /\ scan'.left <= Len(queue')
    BY <1>0, <2>1, <2>2, <2>4, DrainAssumption
  <2> QED BY <2>1, <2>3, <2>4, <2>5 DEF StableInv
<1>4. CASE Defer
  <2>1. /\ scan.on /\ scan.left > 0 /\ queue # <<>>
        /\ scan'.left = scan.left - 1 /\ scan'.room = scan.room
        /\ scan'.budget = scan.budget /\ scan'.entry = scan.entry
        /\ queue' = Append(Tail(queue), Head(queue))
    BY <1>4 DEF Defer, Scanning, TypeOK
  <2>2. /\ Len(queue') = Len(queue) /\ DOMAIN queue' = 1 .. Len(queue) /\ Len(queue) > 0
        /\ \A i \in 1 .. Len(queue) - 1 : queue'[i] = queue[i + 1]
        /\ queue'[Len(queue)] = queue[1]
    BY <1>0, <2>1
  <2>3. ASSUME NEW i \in DOMAIN queue', NEW j \in DOMAIN queue', i < j PROVE Sorted(i, j)'
    <3>1. /\ i \in Nat /\ j \in Nat /\ i \in 1 .. Len(queue) - 1
          /\ 1 \in DOMAIN queue /\ i + 1 \in DOMAIN queue /\ 1 < i + 1
      BY <1>0, <2>2, <2>3
    <3>2. CASE j < Len(queue)
      <4>1. j + 1 \in DOMAIN queue /\ i + 1 < j + 1
        BY <1>0, <2>3, <3>1, <3>2
      <4>2. Sorted(i + 1, j + 1)
        BY <2>1, <3>1, <4>1 DEF StableInv
      <4>3. queue'[i] = queue[i + 1] /\ queue'[j] = queue[j + 1]
        BY <2>2, <2>3, <3>1, <3>2
      <4>4. i <= scan'.left /\ scan'.left < j <=> i + 1 <= scan.left /\ scan.left < j + 1
        BY <1>0, <2>1, <3>1
      <4> QED BY <2>1, <4>2, <4>3, <4>4 DEF Sorted
    <3>3. CASE j = Len(queue)
      <4>1. Sorted(1, i + 1)
        BY <2>1, <3>1 DEF StableInv
      <4>2. queue'[i] = queue[i + 1] /\ queue'[j] = queue[1]
        BY <2>2, <3>1, <3>3
      <4>3. 1 <= scan.left /\ (scan.left < i + 1 <=> ~(i <= scan'.left))
        BY <1>0, <2>1, <3>1
      <4>4. scan'.left < j
        BY <1>0, <2>1, <3>3 DEF StableInv
      <4> QED BY <2>1, <4>1, <4>2, <4>3, <4>4 DEF Sorted
    <3> QED BY <1>0, <2>2, <3>1, <3>2, <3>3
  <2>4. /\ scan.room = scan.budget /\ scan.budget <= Chunk /\ scan.left <= Len(queue)
        /\ Distinct(scan.entry)
    BY <2>1 DEF StableInv
  <2>5. scan'.left <= Len(queue')
    BY <1>0, <2>1, <2>2, <2>4
  <2> QED BY <2>1, <2>3, <2>4, <2>5 DEF StableInv
<1>5. CASE SendBurst /\ scan'.on
  <2>1. /\ scan.on /\ ~Scanning /\ queue # <<>> /\ scan.budget > 0 /\ queue' = queue
        /\ scan' = NewChunk(scan.args, scan.budget, queue, scan.entry)
    BY <1>5, NoScanType DEF SendBurst
  <2>2. /\ scan.room = scan.budget /\ scan.budget <= Chunk /\ Distinct(scan.entry)
    BY <2>1 DEF StableInv
  <2>3. scan.left = 0
    BY <1>0, <2>1, <2>2 DEF Scanning
  <2>4. Lesser(scan.budget, Chunk) = scan.budget
    BY <1>0, <2>2, DrainAssumption DEF Lesser
  <2>5. /\ scan'.room = scan.budget /\ scan'.budget = scan.budget
        /\ scan'.left = Len(queue) /\ scan'.entry = scan.entry
    BY <2>1, <2>4 DEF NewChunk
  <2>6. ASSUME NEW i \in DOMAIN queue, NEW j \in DOMAIN queue, i < j PROVE Sorted(i, j)'
    <3>1. Before(scan.entry, queue[i], queue[j])
      <4>1. Sorted(i, j)
        BY <2>1, <2>6 DEF StableInv
      <4>2. ~(i <= scan.left)
        BY <1>0, <2>3
      <4> QED BY <4>1, <4>2 DEF Sorted
    <3>2. ~(scan'.left < j)
      BY <1>0, <2>5
    <3> QED BY <2>1, <2>5, <3>1, <3>2 DEF Sorted
  <2> QED BY <1>0, <2>1, <2>2, <2>5, <2>6 DEF StableInv
<1>6. CASE NoneTaken
  BY <1>1, <1>6, NoScanType DEF NoneTaken
<1>7. CASE Drain
  BY <1>1, <1>2, <1>3, <1>4, <1>5, <1>6, <1>7 DEF Drain
<1>8. CASE Program \/ Control \/ Resync
  <2>1. ~scan.on /\ scan' = scan
    BY <1>8 DEF Program, Control, Resync, Write, PointerWrite, AllocRelocBlock, Replay,
       UpdateHotShapeBlocks, SetOptimisation, Reset, DisablePhysicalMirror,
       EnablePhysicalMirror, ResyncSweep, ResyncDisplayed, Idle, CallInv
  <2> QED BY <1>1, <2>1
<1>9. CASE UNCHANGED vars
  BY <1>9 DEF vars, bufferVars, StableInv, Sorted
<1> QED BY <1>7, <1>8, <1>9 DEF Next

\* A drain that looked at the whole queue leaves the entries it did not send in
\* the order in which it found them, for every queue length and every set of
\* spared addresses, with budgets that fit a chunk (flushSelectedChunk).
THEOREM CompleteScansStable == Spec => CompleteScanKeepsOrder
<1> DEFINE Inv == TypeOK /\ CallInv /\ RingMatchesBitmap /\ StableInv
           Kept == scan.on /\ ~scan'.on /\ scan.left = 0 =>
                     \A a, b \in Queued' : Before(scan.entry, a, b) => Before(queue', a, b)
<1>1. Init => Inv
  <2>1. Init => RingMatchesBitmap /\ StableInv
    BY NoScanType DEF Init, RingMatchesBitmap, Queued, StableInv
  <2> QED BY <2>1, InitType
<1>2. Inv /\ [Next]_vars => Inv'
  BY NextType, NextRing, NextStable
<1>3. Inv /\ [Next]_vars => [Kept]_vars
  <2> SUFFICES ASSUME Inv, Next, scan.on, ~scan'.on, scan.left = 0,
                      NEW a \in Queued', NEW b \in Queued', Before(scan.entry, a, b)
               PROVE  Before(queue', a, b)
    OBVIOUS
  <2>1. queue' = queue
    BY DEF Next, Program, Control, Drain, Resync, Write, PointerWrite, AllocRelocBlock,
       Replay, UpdateHotShapeBlocks, SetOptimisation, Reset, DisablePhysicalMirror,
       EnablePhysicalMirror, ResyncSweep, ResyncDisplayed, Idle, CallInv, FlushBegin,
       Take, Defer, SendBurst, NoneTaken, TypeOK
  <2>2. PICK i, j \in DOMAIN queue : queue[i] = a /\ queue[j] = b
    BY <2>1 DEF Queued
  <2>3. i \in Nat \ {0} /\ j \in Nat \ {0}
    BY DEF TypeOK
  <2>4. PICK k, l \in DOMAIN scan.entry : k < l /\ scan.entry[k] = a /\ scan.entry[l] = b
    BY DEF Before
  <2>5. k \in Nat /\ l \in Nat
    BY DEF TypeOK
  <2>6. Distinct(scan.entry)
    BY DEF StableInv
  <2>7. ~Before(scan.entry, b, a)
    <3> SUFFICES ASSUME NEW m \in DOMAIN scan.entry, NEW n \in DOMAIN scan.entry, m < n,
                        scan.entry[m] = b, scan.entry[n] = a
                 PROVE  FALSE
      BY DEF Before
    <3>1. m = l /\ n = k
      BY <2>4, <2>6 DEF Distinct
    <3> QED BY <2>4, <2>5, <3>1
  <2>8. a # b
    BY <2>4, <2>5, <2>6 DEF Distinct
  <2>9. ~(j < i)
    <3> SUFFICES ASSUME j < i PROVE FALSE
      OBVIOUS
    <3>1. Sorted(j, i) /\ ~(j <= scan.left)
      BY <2>2, <2>3 DEF StableInv
    <3> QED BY <2>2, <2>7, <3>1 DEF Sorted
  <2>10. i < j
    BY <2>2, <2>3, <2>8, <2>9
  <2> QED BY <2>1, <2>2, <2>10 DEF Before
<1> QED BY <1>1, <1>2, <1>3, PTL DEF Spec, CompleteScanKeepsOrder

--------------------------------------------------------------------------------
(* Sprite pointers (module PointerOrder).                                     *)

\* The drains that leave entries behind.
Spares(d) == d.only \/ d.hotWait

\* While such a drain runs nothing is promised.
HistoryInv ==
    /\ older \in [PointerRow -> SUBSET Addr]
    /\ scan.on => scan.args \in Drains
    /\ scan.on /\ Spares(scan.args) => \A p \in PointerRow : older[p] = {}

\* Putting an entry at the tail keeps the order of all others, before it.
LEMMA MoveToTailOrder ==
    ASSUME TypeOK, Distinct(queue), NEW a \in Elems(queue)
    PROVE  /\ \A i, j \in DOMAIN queue :
                 i < j /\ queue[i] # a /\ queue[j] # a
                 => Before(MoveToTail(a), queue[i], queue[j])
           /\ \A i \in DOMAIN queue :
                 queue[i] # a => Before(MoveToTail(a), queue[i], a)
<1> DEFINE p == CHOOSE i \in DOMAIN queue : queue[i] = a
           n == Len(queue)
           q == MoveToTail(a)
           s(k) == IF k < p THEN k ELSE k - 1
<1>1. p \in 1 .. n /\ queue[p] = a /\ n \in Nat /\ DOMAIN queue = 1 .. n
  BY DEF Elems, TypeOK
<1>2. q = [i \in 1 .. n |-> IF i < p THEN queue[i]
                             ELSE IF i < n THEN queue[i + 1] ELSE a]
  BY <1>1 DEF MoveToTail
<1> HIDE DEF p, n, q
<1>3. ASSUME NEW k \in 1 .. n, queue[k] # a
      PROVE  s(k) \in 1 .. n /\ s(k) < n /\ q[s(k)] = queue[k]
  <2>1. CASE k < p
    BY <1>1, <1>2, <2>1
  <2>2. CASE k > p
    <3>1. k - 1 \in 1 .. n /\ ~(k - 1 < p) /\ k - 1 < n /\ (k - 1) + 1 = k
      BY <1>1, <2>2
    <3>2. q[k - 1] = queue[k]
      BY <1>2, <3>1
    <3> QED BY <1>1, <2>2, <3>1, <3>2
  <2> QED BY <1>1, <1>3, <2>1, <2>2
<1>4. DOMAIN q = 1 .. n /\ q[n] = a /\ n \in 1 .. n
  BY <1>1, <1>2
<1>5. ASSUME NEW i \in 1 .. n, NEW j \in 1 .. n, i < j, queue[i] # a, queue[j] # a
      PROVE  Before(q, queue[i], queue[j])
  <2>1. s(i) \in 1 .. n /\ q[s(i)] = queue[i] /\ s(j) \in 1 .. n /\ q[s(j)] = queue[j]
    BY <1>3, <1>5
  <2>2. s(i) < s(j)
    BY <1>1, <1>5
  <2> HIDE DEF s
  <2> QED BY <1>4, <2>1, <2>2 DEF Before
<1>6. ASSUME NEW i \in 1 .. n, queue[i] # a PROVE Before(q, queue[i], a)
  <2>1. s(i) \in 1 .. n /\ s(i) < n /\ q[s(i)] = queue[i]
    BY <1>3, <1>6
  <2> HIDE DEF s
  <2> QED BY <1>4, <2>1 DEF Before
<1> QED BY <1>1, <1>5, <1>6 DEF q

\* In a queue without repetition, Before says what is in front of an entry.
LEMMA BeforeEntry ==
    ASSUME NEW q, Distinct(q), NEW c, NEW i \in DOMAIN q, Before(q, c, q[i])
    PROVE  \E j \in DOMAIN q : j < i /\ q[j] = c
<1>1. PICK k, l \in DOMAIN q : k < l /\ q[k] = c /\ q[l] = q[i]
  BY DEF Before
<1>2. l = i
  BY <1>1 DEF Distinct
<1> QED BY <1>1, <1>2

\* A store leaves every pointer behind what was accepted before it.
LEMMA StoreOrder ==
    ASSUME TypeOK, RingMatchesBitmap, RingMatchesBitmap', HistoryInv,
           PointerFollowsItsData, scan.burst = {}, scan' = scan, ~scan.on,
           NEW a \in Addr, NEW v \in Value, OnRamWrite(a, v), NoteWrite(a, v)
    PROVE  HistoryInv' /\ PointerFollowsItsData'
<1> DEFINE t == Target(a)
<1>1. t \in Addr
  BY TargetType
<1>2. Distinct(queue) /\ dirty = Elems(queue) /\ queue \in Seq(Addr) /\ Len(queue) \in Nat
      /\ DOMAIN queue = 1 .. Len(queue)
  BY DEF RingMatchesBitmap, Distinct, Elems, Queued, TypeOK
<1>3. Distinct(queue')
  BY DEF RingMatchesBitmap, Distinct
<1>4. older \in [PointerRow -> SUBSET Addr] /\ dirty \subseteq Addr
  BY DEF HistoryInv, TypeOK
<1>5. ASSUME NEW i \in DOMAIN queue, queue[i] \in PointerRow, NEW c \in older[queue[i]]
      PROVE  \E j \in DOMAIN queue : j < i /\ queue[j] = c
  BY <1>5 DEF PointerFollowsItsData
<1>6. CASE ~delivery \/ Refuses(a) \/ Redundant(a, v)
  <2>1. older' = older
    BY <1>6 DEF NoteWrite
  <2>2. queue' = queue
    BY <1>6 DEF OnRamWrite, TimingOnly, Skipped, Eliminated, Accepted, bufferVars
  <2> QED BY <2>1, <2>2 DEF HistoryInv, PointerFollowsItsData
<1>7. CASE ~(~delivery \/ Refuses(a) \/ Redundant(a, v))
  <2>1. older' = [p \in PointerRow |-> IF p = t THEN dirty \ {t}
                                       ELSE older[p] \ ({t} \cap PointerRow)]
    BY <1>7 DEF NoteWrite
  <2>2. Accepted(a, v)
    BY <1>7 DEF OnRamWrite, TimingOnly, Skipped, Eliminated
  <2>3. HistoryInv'
    BY <1>4, <2>1 DEF HistoryInv
  <2> SUFFICES ASSUME NEW i \in DOMAIN queue', queue'[i] \in PointerRow,
                      NEW c \in older'[queue'[i]]
               PROVE  \E j \in DOMAIN queue' : j < i /\ queue'[j] = c
    BY <2>3 DEF PointerFollowsItsData
  <2> DEFINE w == queue'[i]
  <2>4. IF w = t THEN c \in dirty \ {t}
        ELSE c \in older[w] /\ (t \in PointerRow => c # t)
    BY <2>1
  <2>5. CASE t \in dirty /\ t \notin PointerRow
    <3>1. queue' = queue
      BY <2>2, <2>5 DEF Accepted, Requeued
    <3> QED BY <1>5, <2>4, <2>5, <3>1
  <2>6. CASE t \in dirty /\ t \in PointerRow
    <3>1. queue' = MoveToTail(t)
      BY <2>2, <2>6 DEF Accepted, Requeued
    <3>2. /\ \A k, l \in DOMAIN queue :
                k < l /\ queue[k] # t /\ queue[l] # t => Before(queue', queue[k], queue[l])
          /\ \A k \in DOMAIN queue : queue[k] # t => Before(queue', queue[k], t)
      BY <1>2, <2>6, <3>1, MoveToTailOrder
    <3>3. Elems(queue') = Elems(queue)
      BY <1>2, <2>6, <3>1, MoveToTailRing
    <3> HIDE DEF t
    <3>4. Before(queue', c, w)
      <4>1. CASE w = t
        <5>1. PICK k \in DOMAIN queue : queue[k] = c
          BY <1>2, <2>4, <4>1 DEF Elems
        <5> QED BY <2>4, <3>2, <4>1, <5>1
      <4>2. CASE w # t
        <5>1. w \in Elems(queue)
          BY <3>3 DEF Elems
        <5>2. PICK l \in DOMAIN queue : queue[l] = w
          BY <5>1 DEF Elems
        <5>3. PICK k \in DOMAIN queue : k < l /\ queue[k] = c
          BY <1>5, <2>4, <4>2, <5>2
        <5>4. queue[k] # t /\ queue[l] # t
          BY <2>4, <2>6, <4>2, <5>2, <5>3
        <5> QED BY <3>2, <5>2, <5>3, <5>4
      <4> QED BY <4>1, <4>2
    <3> QED BY <1>3, <3>4, BeforeEntry
  <2>7. CASE t \notin dirty
    <3> HIDE DEF t
    <3>1. Len(queue) < Capacity
      BY <1>1, <1>2, <2>7, FreeSlot
    <3>2. queue' = Append(queue, t)
      BY <2>2, <2>7, <3>1 DEF Accepted, t
    <3>3. /\ DOMAIN queue' = 1 .. Len(queue) + 1 /\ queue'[Len(queue) + 1] = t
          /\ \A k \in 1 .. Len(queue) : queue'[k] = queue[k]
      BY <1>1, <1>2, <3>2
    <3>4. CASE i = Len(queue) + 1
      <4>1. PICK k \in DOMAIN queue : queue[k] = c
        BY <1>2, <2>4, <3>3, <3>4 DEF Elems
      <4>2. k \in DOMAIN queue' /\ k < i /\ queue'[k] = c
        BY <1>2, <3>3, <3>4, <4>1
      <4> QED BY <4>2
    <3>5. CASE i # Len(queue) + 1
      <4>1. i \in DOMAIN queue /\ w = queue[i]
        BY <1>2, <3>3, <3>5
      <4>2. w # t
        BY <1>2, <2>7, <4>1 DEF Elems
      <4>3. PICK k \in DOMAIN queue : k < i /\ queue[k] = c
        BY <1>5, <2>4, <4>1, <4>2
      <4>4. k \in DOMAIN queue' /\ queue'[k] = c
        BY <1>2, <3>3, <4>3
      <4> QED BY <4>3, <4>4
    <3> QED BY <3>4, <3>5
  <2> QED BY <2>5, <2>6, <2>7
<1> QED BY <1>6, <1>7

\* A step with the history is a step of WriteBuffer.
LEMMA OrderNextIsNext == [OrderNext]_<<vars, older>> => [Next]_vars
  BY DEF OrderNext, Next, Program

\* Every step keeps pointers behind their data.
LEMMA NextOrder ==
    ASSUME TypeOK, CallInv, RingMatchesBitmap, RingMatchesBitmap', HistoryInv,
           PointerFollowsItsData, [OrderNext]_<<vars, older>>
    PROVE  HistoryInv' /\ PointerFollowsItsData'
<1>0. /\ queue \in Seq(Addr) /\ Len(queue) \in Nat /\ DOMAIN queue = 1 .. Len(queue)
      /\ older \in [PointerRow -> SUBSET Addr]
  BY DEF HistoryInv, TypeOK
<1>1. ASSUME NoteDrain
      PROVE  /\ older' \in [PointerRow -> SUBSET Addr]
             /\ \A p \in PointerRow : older'[p] \subseteq older[p] \cap dirty'
             /\ scan'.on /\ Spares(scan'.args) => \A p \in PointerRow : older'[p] = {}
  BY <1>0, <1>1 DEF NoteDrain, Spares
<1>2. ASSUME NoteDrain, queue' = queue, scan'.burst = scan.burst \/ dirty' \cap scan.burst = {},
             scan'.on => scan'.args \in Drains
      PROVE  HistoryInv' /\ PointerFollowsItsData'
  <2>1. HistoryInv'
    BY <1>1, <1>2 DEF HistoryInv
  <2>2. ASSUME NEW i \in DOMAIN queue, queue[i] \in PointerRow, NEW c \in older'[queue[i]]
        PROVE  c \in scan'.burst \/ \E j \in DOMAIN queue : j < i /\ queue[j] = c
    <3>1. c \in older[queue[i]] /\ c \in dirty'
      BY <1>1, <1>2, <2>2
    <3>2. c \in scan.burst \/ \E j \in DOMAIN queue : j < i /\ queue[j] = c
      BY <2>2, <3>1 DEF PointerFollowsItsData
    <3> QED BY <1>2, <3>1, <3>2
  <2> QED BY <1>2, <2>1, <2>2 DEF PointerFollowsItsData
<1>3. ASSUME NEW a \in Addr, NEW v \in Value, Write(a, v), NoteWrite(a, v)
      PROVE  HistoryInv' /\ PointerFollowsItsData'
  BY <1>3, StoreOrder, IdleNoBurst DEF Write, Idle
<1>4. CASE Replay /\ NoteWrite(Head(replay), ram[Head(replay)])
  <2>1. Head(replay) \in Addr /\ ~scan.on
    BY <1>4 DEF Replay, TypeOK, CallInv
  <2>2. ram[Head(replay)] \in Value
    BY <2>1 DEF TypeOK
  <2> QED BY <1>4, <2>1, <2>2, StoreOrder, IdleNoBurst DEF Replay
<1>5. CASE Control /\ NoteDrain
  <2>1. queue' = <<>> /\ scan' = scan
    BY <1>5 DEF Control, Reset, DisablePhysicalMirror, EnablePhysicalMirror, Discard
  <2>2. HistoryInv'
    BY <1>1, <1>5, <2>1 DEF HistoryInv
  <2> QED BY <2>1, <2>2 DEF PointerFollowsItsData
<1>6. CASE Take /\ NoteDrain
  <2>1. /\ scan'.on = scan.on /\ scan'.args = scan.args /\ queue # <<>>
        /\ scan'.burst = scan.burst \cup {Head(queue)} /\ queue' = Tail(queue)
    BY <1>6 DEF Take, Scanning, TypeOK
  <2>2. /\ DOMAIN queue' = 1 .. Len(queue) - 1 /\ Head(queue) = queue[1]
        /\ \A i \in 1 .. Len(queue) - 1 : queue'[i] = queue[i + 1]
    BY <1>0, <2>1
  <2>3. HistoryInv'
    BY <1>1, <1>6, <2>1 DEF HistoryInv
  <2>4. ASSUME NEW i \in DOMAIN queue', queue'[i] \in PointerRow, NEW c \in older'[queue'[i]]
        PROVE  c \in scan'.burst \/ \E j \in DOMAIN queue' : j < i /\ queue'[j] = c
    <3>1. i + 1 \in DOMAIN queue /\ queue'[i] = queue[i + 1] /\ i \in Nat
      BY <1>0, <2>2
    <3>2. c \in older[queue[i + 1]]
      BY <1>1, <1>6, <2>4, <3>1
    <3>3. c \in scan.burst \/ \E j \in DOMAIN queue : j < i + 1 /\ queue[j] = c
      BY <2>4, <3>1, <3>2 DEF PointerFollowsItsData
    <3>4. ASSUME NEW j \in DOMAIN queue, j < i + 1, queue[j] = c, j # 1
          PROVE  \E k \in DOMAIN queue' : k < i /\ queue'[k] = c
      <4>1. j - 1 \in DOMAIN queue' /\ j - 1 < i /\ queue'[j - 1] = c
        BY <1>0, <2>2, <3>1, <3>4
      <4> QED BY <4>1
    <3> QED BY <2>1, <2>2, <3>3, <3>4
  <2> QED BY <2>3, <2>4 DEF PointerFollowsItsData
<1>7. CASE Defer /\ NoteDrain
  <2>1. /\ scan.on /\ scan'.on = scan.on /\ scan'.args = scan.args
        /\ ~Eligible(Head(queue), scan.args)
    BY <1>7 DEF Defer, Scanning, TypeOK
  <2>2. scan.args \in Drains
    BY <2>1 DEF HistoryInv
  <2>3. Spares(scan.args)
    BY <2>1, <2>2, SchedulerAssumption DEF Eligible, Spares
  <2>4. \A p \in PointerRow : older'[p] = {}
    BY <1>1, <1>7, <2>1, <2>3
  <2>5. HistoryInv'
    BY <1>1, <1>7, <2>1, <2>2 DEF HistoryInv
  <2> QED BY <2>4, <2>5 DEF PointerFollowsItsData
<1>8. CASE SendBurst /\ NoteDrain
  <2>1. queue' = queue /\ dirty' \cap scan.burst = {} /\ scan.on
    BY <1>8 DEF SendBurst
  <2>2. scan'.on => scan'.args = scan.args
    BY <1>8, NoScanType DEF SendBurst, NewChunk
  <2> QED BY <1>2, <1>8, <2>1, <2>2 DEF HistoryInv
<1>9. CASE NoneTaken /\ NoteDrain
  BY <1>2, <1>9, NoScanType DEF NoneTaken
<1>10. ASSUME NEW d \in Drains, NEW n \in MaxBytes, FlushBegin(d, n), NoteDrain
       PROVE  HistoryInv' /\ PointerFollowsItsData'
  <2>1. scan'.args = d /\ scan'.burst = {} /\ scan.burst = {} /\ queue' = queue
    BY <1>10, IdleNoBurst DEF FlushBegin, NewChunk, Idle, bufferVars
  <2> QED BY <1>2, <1>10, <2>1
<1>11. CASE Drain /\ NoteDrain
  BY <1>6, <1>7, <1>8, <1>9, <1>10, <1>11 DEF Drain
<1>12. CASE Resync /\ NoteDrain
  <2>1. queue' = queue /\ scan' = scan
    BY <1>12 DEF Resync, ResyncSweep, ResyncDisplayed
  <2> QED BY <1>2, <1>12, <2>1 DEF HistoryInv
<1>13. ASSUME NoteDrain, \/ \E h \in HotSets : UpdateHotShapeBlocks(h)
                         \/ \E p \in Policies : SetOptimisation(p)
       PROVE  HistoryInv' /\ PointerFollowsItsData'
  <2>1. queue' = queue /\ scan' = scan
    BY <1>13 DEF UpdateHotShapeBlocks, SetOptimisation, bufferVars
  <2> QED BY <1>2, <1>13, <2>1 DEF HistoryInv
<1>14. CASE UNCHANGED <<vars, older>>
  <2>1. queue' = queue /\ scan' = scan /\ older' = older
    BY <1>14 DEF vars, bufferVars
  <2> QED BY <2>1 DEF HistoryInv, PointerFollowsItsData
<1> QED BY <1>3, <1>4, <1>5, <1>11, <1>12, <1>13, <1>14 DEF OrderNext

\* A sprite pointer is never sent while a byte accepted before it waits behind
\* it, unless a drain that spares entries came between: for every queue length,
\* pointer row and order of stores, drains and resets (moveDirtyToTail).
THEOREM PointersCommit == OrderSpec => []PointerFollowsItsData
<1> DEFINE Inv == TypeOK /\ CallInv /\ RingMatchesBitmap /\ HistoryInv
                    /\ PointerFollowsItsData
<1>1. OrderInit => Inv
  <2>1. OrderInit => RingMatchesBitmap
    BY NoScanType DEF OrderInit, Init, RingMatchesBitmap, Queued
  <2>2. OrderInit => HistoryInv /\ PointerFollowsItsData
    BY NoScanType DEF OrderInit, Init, HistoryInv, PointerFollowsItsData
  <2> QED BY <2>1, <2>2, InitType DEF OrderInit
<1>2. Inv /\ [OrderNext]_<<vars, older>> => Inv'
  <2> SUFFICES ASSUME Inv, [OrderNext]_<<vars, older>> PROVE Inv'
    OBVIOUS
  <2>1. TypeOK' /\ CallInv' /\ RingMatchesBitmap'
    BY OrderNextIsNext, NextType, NextRing
  <2> QED BY <2>1, NextOrder
<1> QED BY <1>1, <1>2, PTL DEF OrderSpec

--------------------------------------------------------------------------------
(* Whose turn it is.                                                          *)

\* In a ring without repetition one of two entries is before the other.
LEMMA OneBeforeOther ==
    ASSUME NEW q \in Seq(Addr), Distinct(q), NEW a \in Elems(q), NEW b \in Elems(q), a # b
    PROVE  Before(q, a, b) \/ Before(q, b, a)
<1>1. PICK i, j \in DOMAIN q : q[i] = a /\ q[j] = b
  BY DEF Elems
<1>2. i \in Nat /\ j \in Nat /\ i # j
  BY <1>1
<1> QED BY <1>1, <1>2 DEF Before

\* And not the other way round.
LEMMA NotBothWays ==
    ASSUME NEW q \in Seq(Addr), Distinct(q), NEW a, NEW b, Before(q, a, b)
    PROVE  ~Before(q, b, a) /\ a # b /\ a \in Elems(q) /\ b \in Elems(q)
<1>1. PICK i, j \in DOMAIN q : i < j /\ q[i] = a /\ q[j] = b
  BY DEF Before
<1>2. i \in Nat /\ j \in Nat /\ i # j
  BY <1>1
<1>3. a # b
  BY <1>1, <1>2 DEF Distinct
<1>4. ~Before(q, b, a)
  <2> SUFFICES ASSUME NEW k \in DOMAIN q, NEW l \in DOMAIN q, k < l, q[k] = b, q[l] = a
               PROVE  FALSE
    BY DEF Before
  <2>1. k = j /\ l = i
    BY <1>1 DEF Distinct
  <2> QED BY <1>1, <1>2, <2>1
<1> QED BY <1>1, <1>3, <1>4 DEF Elems

\* Taking the head off, or adding a byte at the end, changes no order.
LEMMA TailOrder ==
    ASSUME NEW q \in Seq(Addr), q # <<>>, NEW a, NEW b, Before(Tail(q), b, a)
    PROVE  Before(q, b, a)
<1>1. /\ Len(q) \in Nat /\ DOMAIN q = 1 .. Len(q) /\ DOMAIN Tail(q) = 1 .. Len(q) - 1
      /\ \A i \in 1 .. Len(q) - 1 : Tail(q)[i] = q[i + 1]
  OBVIOUS
<1>2. PICK i, j \in 1 .. Len(q) - 1 : i < j /\ Tail(q)[i] = b /\ Tail(q)[j] = a
  BY <1>1 DEF Before
<1>3. i + 1 \in DOMAIN q /\ j + 1 \in DOMAIN q /\ i + 1 < j + 1
  BY <1>1, <1>2
<1> QED BY <1>1, <1>2, <1>3 DEF Before

LEMMA AppendOrder ==
    ASSUME NEW q \in Seq(Addr), NEW t \in Addr, NEW a, NEW b, a # t,
           Before(Append(q, t), b, a)
    PROVE  Before(q, b, a)
<1> DEFINE r == Append(q, t)
<1>1. /\ Len(q) \in Nat /\ DOMAIN q = 1 .. Len(q) /\ DOMAIN r = 1 .. Len(q) + 1
      /\ r[Len(q) + 1] = t /\ \A i \in 1 .. Len(q) : r[i] = q[i]
  OBVIOUS
<1> HIDE DEF r
<1>2. PICK i, j \in 1 .. Len(q) + 1 : i < j /\ r[i] = b /\ r[j] = a
  BY <1>1 DEF Before, r
<1>3. i \in 1 .. Len(q) /\ j \in 1 .. Len(q)
  BY <1>1, <1>2
<1> QED BY <1>1, <1>2, <1>3 DEF Before

\* Moving an entry to the tail brings nothing in front of any other.
LEMMA MoveToTailAhead ==
    ASSUME TypeOK, Distinct(queue), NEW t \in Elems(queue), NEW a, NEW b, a # t,
           Before(MoveToTail(t), b, a)
    PROVE  Before(queue, b, a)
<1> DEFINE q == MoveToTail(t)
<1>1. q \in Seq(Addr) /\ Distinct(q) /\ Elems(q) = Elems(queue) /\ queue \in Seq(Addr)
  <2>1. queue \in Seq(Addr) /\ t \in Addr
    BY DEF TypeOK, Elems
  <2> QED BY <2>1, MoveToTailType, MoveToTailRing
<1> HIDE DEF q
<1>2. ~Before(q, a, b) /\ a # b /\ a \in Elems(queue) /\ b \in Elems(queue)
  BY <1>1, NotBothWays DEF q
<1>3. SUFFICES ASSUME Before(queue, a, b) PROVE FALSE
  BY <1>1, <1>2, OneBeforeOther
<1>4. PICK i, j \in DOMAIN queue : i < j /\ queue[i] = a /\ queue[j] = b
  BY <1>3 DEF Before
<1>5. Before(q, a, b)
  <2>1. CASE b = t
    BY <1>4, <2>1, MoveToTailOrder DEF q
  <2>2. CASE b # t
    BY <1>4, <2>2, MoveToTailOrder DEF q
  <2> QED BY <2>1, <2>2
<1> QED BY <1>2, <1>5

\* While an ordinary drain runs, what is left is in the order the drain found,
\* and either the drain still has to take its first entry, or something it took
\* was ahead of all that is left.
TurnInv ==
    scan.on /\ scan.args = NoArgs =>
        /\ \A a, b \in Queued : Before(queue, b, a) => Before(scan.entry, b, a)
        /\ \/ /\ scan.entry = queue /\ queue # <<>>
              /\ scan.left > 0 /\ scan.room > 0
           \/ \E c \in Addr \ Queued : \A a \in Queued : Before(scan.entry, c, a)

\* Every action keeps the turns of a drain.
LEMMA NextTurn ==
    ASSUME TypeOK, CallInv, RingMatchesBitmap, TurnInv, [Next]_vars
    PROVE  TurnInv'
<1>0. queue \in Seq(Addr) /\ Distinct(queue) /\ Len(queue) \in Nat /\ Queued = Elems(queue)
  BY DEF RingMatchesBitmap, Distinct, TypeOK, Queued, Elems
<1>1. ASSUME ~scan'.on PROVE TurnInv'
  BY <1>1 DEF TurnInv
<1>2. ASSUME NEW d \in Drains, NEW n \in MaxBytes, FlushBegin(d, n)
      PROVE  TurnInv'
  <2>1. scan' = NewChunk(d, n, queue, queue) /\ queue' = queue /\ queue # <<>>
    BY <1>2 DEF FlushBegin, bufferVars
  <2>2. Lesser(n, Chunk) > 0 /\ Len(queue) > 0
    BY <1>0, <2>1, DrainAssumption DEF Lesser
  <2>3. scan'.entry = queue /\ scan'.left > 0 /\ scan'.room > 0
    BY <2>1, <2>2 DEF NewChunk
  <2> QED BY <2>1, <2>3 DEF TurnInv
<1>3. CASE Take
  <2>1. /\ scan.on /\ queue # <<>> /\ queue' = Tail(queue)
        /\ scan'.args = scan.args /\ scan'.entry = scan.entry
    BY <1>3 DEF Take, Scanning, TypeOK
  <2>2. SUFFICES ASSUME scan.args = NoArgs PROVE TurnInv'
    BY <2>1 DEF TurnInv
  <2>3. /\ Queued' = Elems(queue) \ {Head(queue)}
        /\ Head(queue) \in Addr /\ Head(queue) \in Elems(queue)
    BY <1>0, <2>1, TailRing DEF Queued, Elems
  <2>4. ASSUME NEW a \in Queued', NEW b \in Queued', Before(queue', b, a)
        PROVE  Before(scan'.entry, b, a)
    BY <1>0, <2>1, <2>2, <2>3, <2>4, TailOrder DEF TurnInv
  <2>5. \E c \in Addr \ Queued' : \A a \in Queued' : Before(scan'.entry, c, a)
    <3>1. CASE scan.entry = queue
      <4>1. ASSUME NEW a \in Queued' PROVE Before(queue, Head(queue), a)
        <5>1. PICK i \in DOMAIN queue : queue[i] = a
          BY <2>3 DEF Elems
        <5>2. 1 \in DOMAIN queue /\ queue[1] = Head(queue) /\ i \in Nat /\ 1 <= i
          BY <1>0, <2>1
        <5>3. i # 1
          BY <2>3, <5>1, <5>2
        <5> QED BY <5>1, <5>2, <5>3 DEF Before
      <4> QED BY <2>1, <2>3, <3>1, <4>1
    <3>2. CASE scan.entry # queue
      <4>1. PICK c \in Addr \ Queued : \A a \in Queued : Before(scan.entry, c, a)
        BY <2>1, <2>2, <3>2 DEF TurnInv
      <4> QED BY <1>0, <2>1, <2>3, <4>1
    <3> QED BY <3>1, <3>2
  <2> QED BY <2>4, <2>5 DEF TurnInv
<1>4. CASE Defer
  <2>1. scan'.args = scan.args /\ ~Eligible(Head(queue), scan.args)
    BY <1>4 DEF Defer, TypeOK
  <2>2. scan'.args # NoArgs
    BY <2>1 DEF Eligible, NoArgs, Region
  <2> QED BY <2>2 DEF TurnInv
<1>5. CASE SendBurst /\ scan'.on
  <2>1. /\ scan.on /\ ~Scanning /\ queue # <<>> /\ queue' = queue
        /\ scan' = NewChunk(scan.args, scan.budget, queue, scan.entry)
    BY <1>5, NoScanType DEF SendBurst
  <2>2. scan'.args = scan.args /\ scan'.entry = scan.entry
    BY <2>1 DEF NewChunk
  <2>3. SUFFICES ASSUME scan.args = NoArgs PROVE TurnInv'
    BY <2>2 DEF TurnInv
  <2>4. \E c \in Addr \ Queued : \A a \in Queued : Before(scan.entry, c, a)
    BY <2>1, <2>3 DEF TurnInv, Scanning
  <2>5. \A a, b \in Queued : Before(queue, b, a) => Before(scan.entry, b, a)
    BY <2>1, <2>3 DEF TurnInv
  <2>6. Queued' = Queued
    BY <2>1 DEF Queued
  <2> QED BY <2>1, <2>2, <2>4, <2>5, <2>6 DEF TurnInv
<1>6. CASE NoneTaken
  BY <1>1, <1>6, NoScanType DEF NoneTaken
<1>7. CASE Drain
  BY <1>1, <1>2, <1>3, <1>4, <1>5, <1>6, <1>7 DEF Drain
<1>8. CASE Program \/ Control \/ Resync
  <2>1. ~scan.on /\ scan' = scan
    BY <1>8 DEF Program, Control, Resync, Write, PointerWrite, AllocRelocBlock, Replay,
       UpdateHotShapeBlocks, SetOptimisation, Reset, DisablePhysicalMirror,
       EnablePhysicalMirror, ResyncSweep, ResyncDisplayed, Idle, CallInv
  <2> QED BY <1>1, <2>1
<1>9. CASE UNCHANGED vars
  BY <1>9 DEF vars, bufferVars, TurnInv, Queued
<1> QED BY <1>7, <1>8, <1>9 DEF Next

\* A store brings nothing in front of an ordinary byte.
LEMMA StoreAhead ==
    ASSUME TypeOK, CallInv, RingMatchesBitmap, ~scan.on,
           NEW x \in Addr, NEW v \in Value, OnRamWrite(x, v),
           NEW a \in Queued, a \notin PointerRow, NEW b, Before(queue', b, a)
    PROVE  Before(queue, b, a)
<1>0. /\ queue \in Seq(Addr) /\ Distinct(queue) /\ Queued = Elems(queue)
      /\ dirty = Elems(queue) /\ Target(x) \in Addr
  BY IdleNoBurst, TargetType DEF RingMatchesBitmap, Distinct, TypeOK, Queued, Elems
<1>1. CASE queue' = queue
  BY <1>1
<1>2. CASE queue' # queue
  <2>1. Accepted(x, v)
    BY <1>2 DEF OnRamWrite, TimingOnly, Skipped, Eliminated, bufferVars
  <2>2. CASE Target(x) \in dirty
    <3>1. queue' = MoveToTail(Target(x)) /\ Target(x) \in PointerRow
      BY <1>2, <2>1, <2>2 DEF Accepted, Requeued
    <3> QED BY <1>0, <2>2, <3>1, MoveToTailAhead
  <2>3. CASE Target(x) \notin dirty
    <3>1. queue' = Append(queue, Target(x))
      BY <1>2, <2>1, <2>3 DEF Accepted
    <3> QED BY <1>0, <2>3, <3>1, AppendOrder
  <2> QED BY <2>2, <2>3
<1> QED BY <1>1, <1>2

\* Nothing gets ahead of an ordinary byte that is not rotated, and every border
\* drain brings each byte it leaves nearer to its turn, for every address space,
\* policy, schedule and budget (onRamWrite, flushSelectedChunk).
THEOREM TurnsCome == Spec => TurnsComeNearer
<1> DEFINE Inv == TypeOK /\ CallInv /\ RingMatchesBitmap /\ TurnInv
           Kept == queue' # queue =>
                     \A a \in (Queued \cap Queued') \ PointerRow, b \in Queued' :
                        Before(queue', b, a) =>
                          Before(queue, b, a) \/ (Defer /\ a = Head(queue))
           Nearer == scan.on /\ ~scan'.on /\ scan.args = NoArgs =>
                     \A a \in Queued' :
                        /\ \A b \in Queued' : Before(queue', b, a) => Before(scan.entry, b, a)
                        /\ \E b \in Addr \ Queued' : Before(scan.entry, b, a)
<1>1. Init => Inv
  <2>1. Init => RingMatchesBitmap /\ TurnInv
    BY NoScanType DEF Init, RingMatchesBitmap, Queued, TurnInv
  <2> QED BY <2>1, InitType
<1>2. Inv /\ [Next]_vars => Inv'
  BY NextType, NextRing, NextTurn
<1>3. Inv /\ Next => Kept
  <2> SUFFICES ASSUME Inv, Next, NEW a \in (Queued \cap Queued') \ PointerRow,
                      NEW b \in Queued', Before(queue', b, a), queue' # queue,
                      ~(Defer /\ a = Head(queue))
               PROVE  Before(queue, b, a)
    OBVIOUS
  <2>0. queue \in Seq(Addr) /\ Distinct(queue) /\ Queued = Elems(queue)
    BY DEF RingMatchesBitmap, Distinct, TypeOK, Queued, Elems
  <2>1. CASE Drain
    <3>1. CASE Take
      BY <2>0, <3>1, TailOrder DEF Take, Scanning
    <3>2. CASE Defer
      <4>1. queue' = Append(Tail(queue), Head(queue)) /\ queue # <<>> /\ a # Head(queue)
        BY <3>2 DEF Defer, Scanning
      <4>2. Tail(queue) \in Seq(Addr) /\ Head(queue) \in Addr
        BY <2>0, <4>1
      <4> QED BY <2>0, <4>1, <4>2, AppendOrder, TailOrder
    <3> QED BY <2>1, <3>1, <3>2 DEF Drain, FlushBegin, SendBurst, NoneTaken, bufferVars
  <2>2. CASE Program
    <3>1. ~scan.on
      BY <2>2 DEF Program, Write, PointerWrite, AllocRelocBlock, Replay,
         UpdateHotShapeBlocks, SetOptimisation, Idle, CallInv
    <3>2. \E x \in Addr, v \in Value : OnRamWrite(x, v)
      <4>1. CASE Replay
        <5>1. Head(replay) \in Addr /\ ram[Head(replay)] \in Value
          BY <4>1 DEF Replay, TypeOK
        <5> QED BY <4>1, <5>1 DEF Replay
      <4> QED BY <2>2, <4>1 DEF Program, Write, PointerWrite, AllocRelocBlock,
                 UpdateHotShapeBlocks, SetOptimisation, bufferVars
    <3> QED BY <3>1, <3>2, StoreAhead
  <2>3. CASE Control
    <3>1. queue' = <<>>
      BY <2>3 DEF Control, Reset, DisablePhysicalMirror, EnablePhysicalMirror, Discard
    <3> QED BY <3>1 DEF Queued
  <2>4. CASE Resync
    BY <2>4 DEF Resync, ResyncSweep, ResyncDisplayed
  <2> QED BY <2>1, <2>2, <2>3, <2>4 DEF Next
<1>4. Inv /\ Next => Nearer
  <2> SUFFICES ASSUME Inv, Next, scan.on, ~scan'.on, scan.args = NoArgs PROVE Nearer
    OBVIOUS
  <2>1. SendBurst \/ NoneTaken
    BY DEF Next, Program, Control, Drain, Resync, Write, PointerWrite, AllocRelocBlock,
       Replay, UpdateHotShapeBlocks, SetOptimisation, Reset, DisablePhysicalMirror,
       EnablePhysicalMirror, ResyncSweep, ResyncDisplayed, Idle, CallInv, FlushBegin,
       Take, Defer, TypeOK
  <2>2. queue' = queue /\ ~Scanning
    BY <2>1 DEF SendBurst, NoneTaken
  <2>3. Queued' = Queued
    BY <2>2 DEF Queued
  <2>4. \A a, b \in Queued : Before(queue, b, a) => Before(scan.entry, b, a)
    BY DEF TurnInv
  <2>5. \E c \in Addr \ Queued : \A a \in Queued : Before(scan.entry, c, a)
    BY <2>2 DEF TurnInv, Scanning
  <2> QED BY <2>2, <2>3, <2>4, <2>5
<1>5. Inv /\ [Next]_vars => [Kept /\ Nearer]_vars
  BY <1>3, <1>4
<1> QED BY <1>1, <1>2, <1>5, PTL DEF Spec, TurnsComeNearer
================================================================================
