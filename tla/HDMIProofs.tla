----------------------------- MODULE HDMIProofs -----------------------------
(***************************************************************************)
(* Proofs about the HDMI picture: VICLog, the log core 1 replays, for      *)
(* every ring, raster and set of values; and VideoSwitch, the choice       *)
(* between the two pictures, for every length of the debounce.             *)
(***************************************************************************)
EXTENDS VICLog, VideoSwitch, WellFoundedInduction, FiniteSetTheorems, TLAPS

-----------------------------------------------------------------------------
(* Types of the log and of the replay.                                      *)

Kinds == {"d018", "bank", "ptr", "compare"}
Values == Matrices \cup Banks \cup PtrValues \cup {0}
OfKind(e) ==
  /\ e.reg = "d018" => e.value \in Matrices
  /\ e.reg = "bank" => e.value \in Banks
  /\ e.reg = "ptr" => e.value \in PtrValues
EventType ==
  {e \in [reg : Kinds, value : Values, cycle : Int, line : Int \cup {None}] : OfKind(e)}
PendingType == {e \in [reg : Kinds, value : Values] : OfKind(e)}
ReplayType == [primed : BOOLEAN, gen : Int, tail : Nat, m : Matrices, bank : Banks,
               ptr : PtrValues \cup {0}, valid : BOOLEAN]
LiveType == [before : Int, gen : Int, head : Nat, m : Matrices, bank : Banks,
             settled : BOOLEAN]
AnchorType == [cycle : Int, line : Int, precise : BOOLEAN, at : Int]

TypeInv ==
  /\ clock \in Int /\ head \in Nat /\ gen \in Nat
  /\ shadow \in Matrices /\ latch \in Banks \cup {None}
  /\ ring \in [0 .. LogSize - 1 -> EventType]
  /\ ram \in [Bases -> PtrValues \cup {0}]
  /\ pending = None \/ pending \in PendingType
  /\ anchor = None \/ anchor \in AnchorType
  /\ replay \in ReplayType /\ live \in LiveType
  /\ damage \subseteq {"torn", "overrun", "astray"}

\* A rendered frame is of a primed replay, and its events are between the
\* replay's tail and the latched head.
FrameInv ==
  /\ cstep \in {"apply", "pages", "check"} => replay.primed
  /\ cstep = "apply" => /\ frame.tailAfter \in replay.tail .. live.head
                        /\ live.head - replay.tail <= LogSize

-----------------------------------------------------------------------------
(* Induction, and what a replay of a range of events leaves.                *)

\* The order of the naturals, as a relation.
Below == {ss \in Nat \X Nat : ss[1] < ss[2]}

\* The naturals are well-founded.
LEMMA BelowWellFounded == IsWellFoundedOn(Below, Nat)
<1>1. OpToRel(<, Nat) = Below
  BY DEF OpToRel, Below
<1> QED
  BY <1>1, NatLessThanWellFounded, Zenon

\* A set of naturals has a least element.
LEMMA LeastOf ==
  ASSUME NEW S \in SUBSET Nat, S # {}
  PROVE  \E x \in S : \A y \in S : x <= y
<1>1. PICK x \in S : \A y \in S : ~(<<y, x>> \in Below)
  <2>1. \E x \in S : \A y \in S : ~(<<y, x>> \in Below)
    BY BelowWellFounded, WFMin
  <2> QED
    BY <2>1
<1>2. ASSUME NEW y \in S PROVE x <= y
  <2>1. ~(<<y, x>> \in Below)
    BY <1>1
  <2>2. x \in Nat /\ y \in Nat
    OBVIOUS
  <2> QED
    BY <2>1, <2>2 DEF Below
<1> QED
  BY <1>2

\* Induction on the naturals, over a set instead of a predicate.
LEMMA SetInduction ==
  ASSUME NEW S, 0 \in S, \A n \in Nat : n \in S => n + 1 \in S
  PROVE  Nat \subseteq S
<1> SUFFICES ASSUME Nat \ S # {} PROVE FALSE
  OBVIOUS
<1>1. PICK x \in Nat \ S : \A y \in Nat \ S : x <= y
  BY LeastOf
<1>2. x # 0 /\ x - 1 \in Nat /\ x - 1 \in S
  BY <1>1
<1> QED
  BY <1>1, <1>2

\* One event keeps the type of the replayed state.
LEMMA ApplyOne ==
  ASSUME NEW r \in ReplayType, NEW e \in EventType
  PROVE  applyEvent(r, e) \in ReplayType
<1>1. CASE e.reg = "d018"
  <2>1. [r EXCEPT !.m = e.value] \in ReplayType
    BY <1>1 DEF ReplayType, EventType, OfKind
  <2>2. (r.valid /\ r.m = e.value) \in BOOLEAN
    BY Zenon
  <2>3. [[r EXCEPT !.m = e.value] EXCEPT !.valid = r.valid /\ r.m = e.value] \in ReplayType
    BY <2>1, <2>2 DEF ReplayType
  <2>4. [r EXCEPT !.m = e.value, !.valid = r.valid /\ r.m = e.value]
           = [[r EXCEPT !.m = e.value] EXCEPT !.valid = r.valid /\ r.m = e.value]
    BY Zenon
  <2> QED
    BY <1>1, <2>3, <2>4 DEF applyEvent
<1>2. CASE e.reg = "bank"
  <2>1. [r EXCEPT !.bank = e.value] \in ReplayType
    BY <1>2 DEF ReplayType, EventType, OfKind
  <2>2. (r.valid /\ r.bank = e.value) \in BOOLEAN
    BY Zenon
  <2>3. [[r EXCEPT !.bank = e.value] EXCEPT !.valid = r.valid /\ r.bank = e.value] \in ReplayType
    BY <2>1, <2>2 DEF ReplayType
  <2>4. [r EXCEPT !.bank = e.value, !.valid = r.valid /\ r.bank = e.value]
           = [[r EXCEPT !.bank = e.value] EXCEPT !.valid = r.valid /\ r.bank = e.value]
    BY Zenon
  <2> QED
    BY <1>2, <2>3, <2>4 DEF applyEvent
<1>3. CASE e.reg = "ptr"
  BY <1>3 DEF applyEvent, ReplayType, EventType, OfKind
<1>4. CASE e.reg \notin {"d018", "bank", "ptr"}
  BY <1>4 DEF applyEvent
<1> QED
  BY <1>1, <1>2, <1>3, <1>4

\* Every index of the log names a well-formed event of the ring.
LEMMA EventFacts ==
  ASSUME TypeInv, NEW i \in Int
  PROVE  rasterEvent(i) \in EventType
<1>1. i % LogSize \in 0 .. LogSize - 1
  BY VICLogAssumption
<1> QED
  BY <1>1 DEF TypeInv, rasterEvent

\* f is the replay of the n events from index from on, starting from r.
Applies(f, r, from, n) ==
  /\ f \in [0 .. n -> ReplayType] /\ f[0] = r
  /\ \A k \in 0 .. n - 1 : f[k + 1] = applyEvent(f[k], rasterEvent(from + k))

\* Every range of events can be replayed, by induction on its length.
LEMMA AppliesExists ==
  ASSUME TypeInv, NEW r \in ReplayType, NEW from \in Int, NEW n \in Nat
  PROVE  \E f : Applies(f, r, from, n)
<1> DEFINE G == {k \in Nat : \E f : Applies(f, r, from, k)}
<1>1. 0 \in G
  <2> DEFINE f == [k \in 0 .. 0 |-> r]
  <2>1. Applies(f, r, from, 0)
    BY DEF Applies
  <2> QED
    BY <2>1
<1>2. ASSUME NEW k \in Nat, k \in G PROVE k + 1 \in G
  <2>1. PICK f : Applies(f, r, from, k)
    BY <1>2
  <2> DEFINE e == rasterEvent(from + k)
             g == [l \in 0 .. k + 1 |-> IF l = k + 1 THEN applyEvent(f[k], e) ELSE f[l]]
  <2>2. f[k] \in ReplayType /\ e \in EventType
    BY <2>1, EventFacts DEF Applies
  <2>3. applyEvent(f[k], e) \in ReplayType
    BY <2>2, ApplyOne
  <2>4. g \in [0 .. k + 1 -> ReplayType] /\ g[0] = r
    BY <2>1, <2>3 DEF Applies
  <2>5. ASSUME NEW l \in 0 .. (k + 1) - 1
        PROVE  g[l + 1] = applyEvent(g[l], rasterEvent(from + l))
    <3>1. CASE l = k
      <4>1. g[l] = f[k] /\ g[l + 1] = applyEvent(f[k], e)
        BY <3>1
      <4> QED
        BY <3>1, <4>1
    <3>2. CASE l # k
      <4>1. l \in 0 .. k - 1 /\ g[l] = f[l] /\ g[l + 1] = f[l + 1]
        BY <3>2
      <4> QED
        BY <2>1, <4>1 DEF Applies
    <3> QED
      BY <3>1, <3>2
  <2> HIDE DEF g
  <2>6. Applies(g, r, from, k + 1)
    BY <2>4, <2>5 DEF Applies
  <2> QED
    BY <2>6
<1>3. Nat \subseteq G
  <2> HIDE DEF G
  <2> QED
    BY <1>1, <1>2, SetInduction
<1> QED
  BY <1>3

\* ApplyRange is such a replay: its recursive function is the one there is.
LEMMA ApplyRangeDef ==
  ASSUME TypeInv, NEW r \in ReplayType, NEW from \in Int, NEW to \in Int, from <= to
  PROVE  \E f : Applies(f, r, from, to - from) /\ ApplyRange(r, from, to) = f[to - from]
<1> DEFINE n == to - from
           Rec(f) == [k \in 0 .. n |->
                        IF k = 0 THEN r ELSE applyEvent(f[k - 1], rasterEvent(from + k - 1))]
           g == CHOOSE f : f = Rec(f)
<1>1. n \in Nat
  OBVIOUS
<1> HIDE DEF n
<1>2. PICK f : Applies(f, r, from, n)
  BY <1>1, AppliesExists
<1>3. f = Rec(f)
  <2>1. ASSUME NEW k \in 0 .. n PROVE f[k] = Rec(f)[k]
    <3>1. CASE k = 0
      BY <1>2, <3>1 DEF Applies
    <3>2. CASE k # 0
      <4>1. k - 1 \in 0 .. n - 1 /\ (k - 1) + 1 = k /\ from + (k - 1) = from + k - 1
        BY <1>1, <3>2
      <4>2. f[(k - 1) + 1] = applyEvent(f[k - 1], rasterEvent(from + (k - 1)))
        BY <1>2, <4>1 DEF Applies
      <4> QED
        BY <3>2, <4>1, <4>2
    <3> QED
      BY <3>1, <3>2
  <2>2. f \in [0 .. n -> ReplayType]
    BY <1>2 DEF Applies
  <2> QED
    BY <2>1, <2>2
<1>4. g = Rec(g)
  <2>1. \E h : h = Rec(h)
    BY <1>3
  <2> HIDE DEF Rec
  <2> QED
    BY <2>1, Zenon
<1>5. ApplyRange(r, from, to) = g[n]
  BY Zenon DEF ApplyRange, n
<1> HIDE DEF g
<1>6. \A k \in 0 .. n : g[k] = IF k = 0 THEN r ELSE applyEvent(g[k - 1], rasterEvent(from + k - 1))
  BY <1>4
<1>7. g[0] = r /\ \A k \in 0 .. n - 1 : g[k + 1] = applyEvent(g[k], rasterEvent(from + k))
  <2>1. g[0] = r
    BY <1>1, <1>6
  <2>2. ASSUME NEW k \in 0 .. n - 1 PROVE g[k + 1] = applyEvent(g[k], rasterEvent(from + k))
    <3>1. k + 1 \in 0 .. n /\ k + 1 # 0 /\ (k + 1) - 1 = k /\ from + (k + 1) - 1 = from + k
      BY <1>1
    <3> QED
      BY <1>6, <3>1
  <2> QED
    BY <2>1, <2>2
<1>8. g \in [0 .. n -> ReplayType]
  <2> DEFINE G == {k \in Nat : k <= n => g[k] \in ReplayType}
  <2>1. 0 \in G
    BY <1>7
  <2>2. ASSUME NEW k \in Nat, k \in G PROVE k + 1 \in G
    <3> SUFFICES ASSUME k + 1 <= n PROVE g[k + 1] \in ReplayType
      OBVIOUS
    <3>1. k \in 0 .. n - 1 /\ g[k] \in ReplayType /\ from + k \in Int
      BY <1>1, <2>2
    <3>2. rasterEvent(from + k) \in EventType
      BY <3>1, EventFacts
    <3> QED
      BY <1>7, <3>1, <3>2, ApplyOne
  <2>3. Nat \subseteq G
    <3> HIDE DEF G
    <3> QED
      BY <2>1, <2>2, SetInduction
  <2>4. \A k \in 0 .. n : g[k] \in ReplayType
    BY <1>1, <2>3
  <2>5. g = [k \in 0 .. n |-> g[k]]
    BY <1>4
  <2> QED
    BY <2>4, <2>5
<1>9. Applies(g, r, from, n)
  BY <1>7, <1>8 DEF Applies
<1> QED
  BY <1>5, <1>9 DEF n

\* What one event does to the row of pointer bytes, to the pointer and to the
\* matrix.
RowStep(row, e) ==
  IF e.reg = "d018" THEN <<row[1], e.value>>
  ELSE IF e.reg = "bank" THEN <<e.value, row[2]>> ELSE row

\* What applyEvent does to the row, to its validity, to the pointer and to the matrix.
LEMMA ApplyFacts ==
  ASSUME NEW r \in ReplayType, NEW e \in EventType
  PROVE  LET a == applyEvent(r, e) IN
         /\ <<a.bank, a.m>> = RowStep(<<r.bank, r.m>>, e)
         /\ a.valid => r.valid /\ <<a.bank, a.m>> = <<r.bank, r.m>>
         /\ a.ptr = IF e.reg = "ptr" THEN e.value ELSE r.ptr
         /\ a.m = IF e.reg = "d018" THEN e.value ELSE r.m
<1>1. CASE e.reg = "d018"
  BY <1>1 DEF applyEvent, RowStep, ReplayType
<1>2. CASE e.reg = "bank"
  BY <1>2 DEF applyEvent, RowStep, ReplayType
<1>3. CASE e.reg = "ptr"
  BY <1>3 DEF applyEvent, RowStep, ReplayType
<1>4. CASE e.reg \notin {"d018", "bank", "ptr"}
  BY <1>4 DEF applyEvent, RowStep
<1> QED
  BY <1>1, <1>2, <1>3, <1>4

\* v is the value of the last event of a kind in from..to-1, or was there before.
LastOf(kind, from, to, before, v) ==
  \/ v = before /\ \A i \in from .. to - 1 : rasterEvent(i).reg # kind
  \/ \E i \in from .. to - 1 :
       /\ rasterEvent(i).reg = kind /\ rasterEvent(i).value = v
       /\ \A j \in i + 1 .. to - 1 : rasterEvent(j).reg # kind

\* The last event of a kind, after one more event.
LEMMA LastStep ==
  ASSUME NEW kind, NEW from \in Int, NEW to \in Int, from <= to, NEW before, NEW v, NEW w,
         LastOf(kind, from, to, before, v),
         w = IF rasterEvent(to).reg = kind THEN rasterEvent(to).value ELSE v
  PROVE  LastOf(kind, from, to + 1, before, w)
<1>1. CASE rasterEvent(to).reg = kind
  <2>1. to \in from .. (to + 1) - 1 /\ \A j \in to + 1 .. (to + 1) - 1 : FALSE
    OBVIOUS
  <2> QED
    BY <1>1, <2>1 DEF LastOf
<1>2. CASE rasterEvent(to).reg # kind
  <2>1. CASE v = before /\ \A i \in from .. to - 1 : rasterEvent(i).reg # kind
    <3>1. \A i \in from .. (to + 1) - 1 : i = to \/ i \in from .. to - 1
      OBVIOUS
    <3> QED
      BY <1>2, <2>1, <3>1 DEF LastOf
  <2>2. CASE \E i \in from .. to - 1 :
               /\ rasterEvent(i).reg = kind /\ rasterEvent(i).value = v
               /\ \A j \in i + 1 .. to - 1 : rasterEvent(j).reg # kind
    <3>1. PICK i \in from .. to - 1 :
               /\ rasterEvent(i).reg = kind /\ rasterEvent(i).value = v
               /\ \A j \in i + 1 .. to - 1 : rasterEvent(j).reg # kind
      BY <2>2
    <3>2. i \in from .. (to + 1) - 1
      OBVIOUS
    <3>3. \A j \in i + 1 .. (to + 1) - 1 : j = to \/ j \in i + 1 .. to - 1
      OBVIOUS
    <3>4. \A j \in i + 1 .. (to + 1) - 1 : rasterEvent(j).reg # kind
      BY <1>2, <3>1, <3>3
    <3> QED
      BY <1>2, <3>1, <3>2, <3>4 DEF LastOf
  <2> QED
    BY <2>1, <2>2 DEF LastOf
<1> QED
  BY <1>1, <1>2

\* s gives the row before every event of from..to, starting from start.
Rows(s, start, from, to) ==
  s[from] = start /\ \A k \in from .. to - 1 : s[k + 1] = RowStep(s[k], rasterEvent(k))

\* What a replay of the events from..to-1 leaves.
LEMMA ApplyRangeFacts ==
  ASSUME TypeInv, NEW r \in ReplayType, NEW from \in Int, NEW to \in Int, from <= to,
         NEW s, Rows(s, <<r.bank, r.m>>, from, to)
  PROVE  LET a == ApplyRange(r, from, to) IN
         /\ a \in ReplayType
         /\ <<a.bank, a.m>> = s[to]
         /\ a.valid => \A k \in from .. to : s[k] = <<r.bank, r.m>>
         /\ LastOf("ptr", from, to, r.ptr, a.ptr)
         /\ LastOf("d018", from, to, r.m, a.m)
<1> DEFINE n == to - from
           row0 == <<r.bank, r.m>>
<1>1. n \in Nat /\ from + n = to
  OBVIOUS
<1>2. PICK f : Applies(f, r, from, n) /\ ApplyRange(r, from, to) = f[n]
  BY ApplyRangeDef
<1> DEFINE Q(k) == /\ <<f[k].bank, f[k].m>> = s[from + k]
                   /\ f[k].valid => \A l \in from .. from + k : s[l] = row0
                   /\ LastOf("ptr", from, from + k, r.ptr, f[k].ptr)
                   /\ LastOf("d018", from, from + k, r.m, f[k].m)
           G == {k \in Nat : k <= n => Q(k)}
<1> HIDE DEF n
<1>3. 0 \in G
  <2>1. f[0] = r /\ from + 0 = from /\ \A i \in from .. from - 1 : FALSE
    BY <1>1, <1>2 DEF Applies
  <2>2. LastOf("ptr", from, from, r.ptr, r.ptr) /\ LastOf("d018", from, from, r.m, r.m)
    BY <2>1 DEF LastOf
  <2>3. <<r.bank, r.m>> = s[from] /\ \A l \in from .. from : s[l] = row0
    BY DEF Rows
  <2>4. Q(0)
    BY <2>1, <2>2, <2>3
  <2> QED
    BY <2>4
<1>4. ASSUME NEW k \in Nat, k \in G PROVE k + 1 \in G
  <2> SUFFICES ASSUME k + 1 <= n PROVE Q(k + 1)
    OBVIOUS
  <2> DEFINE e == rasterEvent(from + k)
  <2>1. Q(k) /\ k \in 0 .. n - 1 /\ k \in 0 .. n /\ from + k \in Int /\ from <= from + k
        /\ from + (k + 1) = (from + k) + 1 /\ from + k \in from .. to - 1
    BY <1>1, <1>4
  <2>2. f[k] \in ReplayType /\ e \in EventType /\ f[k + 1] = applyEvent(f[k], e)
    BY <1>2, <2>1, EventFacts DEF Applies
  <2>3. s[(from + k) + 1] = RowStep(s[from + k], e)
    BY <2>1 DEF Rows
  <2> HIDE DEF Q, e
  <2>4. /\ <<f[k + 1].bank, f[k + 1].m>> = RowStep(<<f[k].bank, f[k].m>>, e)
        /\ f[k + 1].valid => f[k].valid /\ <<f[k + 1].bank, f[k + 1].m>> = <<f[k].bank, f[k].m>>
        /\ f[k + 1].ptr = IF e.reg = "ptr" THEN e.value ELSE f[k].ptr
        /\ f[k + 1].m = IF e.reg = "d018" THEN e.value ELSE f[k].m
    BY <2>2, ApplyFacts
  <2>5. <<f[k + 1].bank, f[k + 1].m>> = s[(from + k) + 1]
    BY <2>1, <2>3, <2>4 DEF Q
  <2>6. LastOf("ptr", from, (from + k) + 1, r.ptr, f[k + 1].ptr)
    BY <2>1, <2>4, LastStep DEF Q, e
  <2>7. LastOf("d018", from, (from + k) + 1, r.m, f[k + 1].m)
    BY <2>1, <2>4, LastStep DEF Q, e
  <2>8. ASSUME f[k + 1].valid, NEW l \in from .. (from + k) + 1 PROVE s[l] = row0
    <3>1. \A x \in from .. from + k : s[x] = row0
      BY <2>1, <2>4, <2>8 DEF Q
    <3>2. from + k \in from .. from + k
      BY <2>1
    <3>3. s[(from + k) + 1] = row0
      BY <2>1, <2>4, <2>5, <2>8, <3>1, <3>2 DEF Q
    <3>4. l = (from + k) + 1 \/ l \in from .. from + k
      OBVIOUS
    <3> QED
      BY <3>1, <3>3, <3>4
  <2> QED
    BY <2>1, <2>5, <2>6, <2>7, <2>8 DEF Q
<1>5. Nat \subseteq G
  <2> HIDE DEF G
  <2> QED
    BY <1>3, <1>4, SetInduction
<1>6. Q(n)
  BY <1>1, <1>5
<1>7. f[n] \in ReplayType
  BY <1>1, <1>2 DEF Applies
<1> QED
  BY <1>1, <1>2, <1>6, <1>7

-----------------------------------------------------------------------------
(* Every step keeps the types.                                              *)

\* The greatest of a set of integers that has an upper bound.
LEMMA GreatestOf ==
  ASSUME NEW S \in SUBSET Int, S # {}, NEW b \in Int, \A x \in S : x <= b
  PROVE  Max(S) \in S /\ \A x \in S : x <= Max(S)
<1> DEFINE T == {b - x : x \in S}
<1>1. T \in SUBSET Nat /\ T # {}
  <2>1. \A x \in S : b - x \in Nat
    OBVIOUS
  <2> QED
    BY <2>1
<1>2. PICK t \in T : \A y \in T : t <= y
  BY <1>1, LeastOf
<1>3. PICK x \in S : t = b - x
  BY <1>2
<1>4. \A y \in S : x >= y
  <2> TAKE y \in S
  <2>1. t <= b - y
    BY <1>2
  <2> QED
    BY <1>3, <2>1
<1>5. \E z \in S : \A y \in S : z >= y
  BY <1>4
<1>6. Max(S) \in S /\ \A y \in S : Max(S) >= y
  BY <1>5, Zenon DEF Max
<1> QED
  BY <1>6

\* The events that are tagged after the fact are in the log.
LEMMA TagFacts ==
  ASSUME TypeInv, BackTagged # {}
  PROVE  rasterEvent(Min(BackTagged)).cycle \in Int
<1>1. BackTagged \in SUBSET Nat
  BY VICLogAssumption DEF BackTagged, TypeInv
<1>2. \E z \in BackTagged : \A y \in BackTagged : z <= y
  BY <1>1, LeastOf
<1>3. Min(BackTagged) \in BackTagged
  BY <1>2, Zenon DEF Min
<1>4. Min(BackTagged) \in Int
  <2> DEFINE least == Min(BackTagged)
  <2>1. least \in BackTagged
    BY <1>3
  <2> HIDE DEF least
  <2>2. least \in Int
    BY <1>1, <2>1
  <2> QED
    BY <2>2 DEF least
<1>5. rasterEvent(Min(BackTagged)) \in EventType
  BY <1>4, EventFacts
<1> QED
  BY <1>5 DEF EventType

\* Where a timeline leaves the tail.
LEMMA TimelineEnds ==
  ASSUME NEW tail \in Int, NEW to \in Int, tail <= to
  PROVE  /\ Timeline(tail, to).tailAfter \in tail .. to
         /\ Timeline(tail, to).result \in {"replay", "snapshot", "hold"}
<1> DEFINE starts == FrameStarts(tail, to)
           frameStart == Max(starts \cup {tail})
<1>1. frameStart \in tail .. to
  <2>1. starts \cup {tail} \in SUBSET (tail .. to)
    BY DEF FrameStarts
  <2>2. starts \cup {tail} # {} /\ starts \cup {tail} \in SUBSET Int
        /\ \A x \in starts \cup {tail} : x <= to
    BY <2>1
  <2> HIDE DEF starts
  <2>3. frameStart \in starts \cup {tail}
    BY <2>2, GreatestOf
  <2> QED
    BY <2>1, <2>3
<1> HIDE DEF frameStart
<1> QED
  BY <1>1 DEF Timeline, frameStart

\* The first state is well-typed.
LEMMA InitTypes == Init => TypeInv /\ FrameInv
<1> SUFFICES ASSUME Init PROVE TypeInv /\ FrameInv
  OBVIOUS
<1> USE VICLogAssumption
<1>1. ring \in [0 .. LogSize - 1 -> EventType]
  <2> DEFINE e == [reg |-> "d018", value |-> 0, cycle |-> 0, line |-> None]
  <2>1. e \in EventType
    BY DEF EventType, Values, OfKind, Kinds
  <2>2. ring = [i \in 0 .. LogSize - 1 |-> e]
    BY DEF Init
  <2> HIDE DEF e
  <2> QED
    BY <2>1, <2>2
<1>2. replay \in ReplayType /\ live \in LiveType
  BY DEF Init, Unprimed, NoLatch, ReplayType, LiveType
<1>3. /\ clock = 0 /\ head = 0 /\ gen = 1 /\ shadow = 0 /\ latch = 0
      /\ ram = [b \in Bases |-> 0] /\ pending = None /\ anchor = None
      /\ damage = {} /\ cstep = "idle"
  BY DEF Init
<1> QED
  BY <1>1, <1>2, <1>3 DEF TypeInv, FrameInv

\* A write posts a well-formed event or none.
LEMMA PendingFacts ==
  ASSUME NEW reg \in {"d018", "bank", "ptr"}, NEW v \in Values, Posts(reg, v),
         reg = "d018" => v \in Matrices, reg = "bank" => v \in Banks,
         reg = "ptr" => v \in PtrValues
  PROVE  pending' = None \/ pending' \in PendingType
<1>1. [reg |-> reg, value |-> v] \in PendingType
  BY DEF PendingType, OfKind, Kinds
<1> QED
  BY <1>1 DEF Posts

\* The steps of core 0 keep the types.
LEMMA ProducerTypes ==
  ASSUME TypeInv, FrameInv, Producer
  PROVE  TypeInv' /\ FrameInv'
<1> USE VICLogAssumption
<1>1. CASE Tick
  BY <1>1 DEF Tick, TypeInv, FrameInv, consVars, histVars
<1>2. CASE appendVICLog
  <2> DEFINE line == IF /\ anchor # None /\ anchor.precise /\ clock - anchor.at < TagCycles
                     THEN anchor.line ELSE None
             e == [reg |-> pending.reg, value |-> pending.value, cycle |-> clock, line |-> line]
  <2>1. line \in Int \cup {None}
    BY DEF TypeInv, AnchorType
  <2> HIDE DEF line
  <2>2. e \in EventType
    BY <1>2, <2>1 DEF appendVICLog, TypeInv, PendingType, EventType, OfKind
  <2> HIDE DEF e
  <2>3. ring' = [ring EXCEPT ![head % LogSize] = e]
    BY <1>2 DEF appendVICLog, e, line
  <2>4. ring' \in [0 .. LogSize - 1 -> EventType]
    BY <2>2, <2>3 DEF TypeInv
  <2>5. damage' \subseteq {"torn", "overrun", "astray"}
    BY <1>2 DEF appendVICLog, TypeInv
  <2>6. head' \in Nat /\ pending' = None
    BY <1>2 DEF appendVICLog, TypeInv
  <2> QED
    BY <1>2, <2>4, <2>5, <2>6 DEF appendVICLog, TypeInv, FrameInv, consVars
<1>3. CASE WriteCompare
  <2>1. BeamLine \in Int
    BY DEF BeamLine, TypeInv
  <2>2. ring' \in [0 .. LogSize - 1 -> EventType]
    <3> DEFINE Tag(s) == /\ \E i \in BackTagged : i % LogSize = s
                         /\ ring[s].line = None
    <3>1. ring' = [s \in DOMAIN ring |->
                     IF Tag(s) THEN [ring[s] EXCEPT !.line = BeamLine] ELSE ring[s]]
      BY <1>3 DEF WriteCompare, noteRasterPrecise
    <3> HIDE DEF Tag
    <3>2. \A e \in EventType : [e EXCEPT !.line = BeamLine] \in EventType
      BY <2>1 DEF EventType, OfKind
    <3> QED
      BY <3>1, <3>2 DEF TypeInv
  <2>3. anchor' \in AnchorType
    <3> DEFINE start == IF BackTagged = {} THEN clock ELSE rasterEvent(Min(BackTagged)).cycle
    <3>1. start \in Int
      BY TagFacts DEF TypeInv
    <3> HIDE DEF start
    <3>2. anchor' = [cycle |-> start, line |-> BeamLine, precise |-> TRUE, at |-> clock]
      BY <1>3 DEF WriteCompare, noteRasterPrecise, start
    <3> QED
      BY <2>1, <3>1, <3>2 DEF AnchorType, TypeInv
  <2>4. pending' \in PendingType
    <3>1. [reg |-> "compare", value |-> 0] \in PendingType
      BY DEF PendingType, OfKind, Values, Kinds
    <3> QED
      BY <1>3, <3>1 DEF WriteCompare
  <2> QED
    BY <1>3, <2>2, <2>3, <2>4 DEF WriteCompare, TypeInv, FrameInv, consVars
<1>4. CASE noteRasterCoarse
  <2>1. BeamLine \in Int
    BY DEF BeamLine, TypeInv
  <2>2. anchor' \in AnchorType
    BY <1>4, <2>1 DEF noteRasterCoarse, AnchorType, TypeInv
  <2> QED
    BY <1>4, <2>2 DEF noteRasterCoarse, TypeInv, FrameInv, consVars
<1>5. ASSUME NEW m \in Matrices, WriteD018(m) PROVE TypeInv' /\ FrameInv'
  <2>1. pending' = None \/ pending' \in PendingType
    BY <1>5, PendingFacts DEF WriteD018, Values
  <2> QED
    BY <1>5, <2>1 DEF WriteD018, TypeInv, FrameInv, consVars
<1>6. ASSUME NEW b \in Banks, WriteDD00(b) PROVE TypeInv' /\ FrameInv'
  <2>1. pending' = None \/ pending' \in PendingType
    BY <1>6, PendingFacts DEF WriteDD00, Values
  <2> QED
    BY <1>6, <2>1 DEF WriteDD00, TypeInv, FrameInv, consVars
<1>7. ASSUME NEW at \in Bases, NEW v \in PtrValues, WritePointer(at, v)
      PROVE  TypeInv' /\ FrameInv'
  <2>1. pending' = None \/ pending' \in PendingType
    BY <1>7, PendingFacts DEF WritePointer, Values
  <2>2. ram' \in [Bases -> PtrValues \cup {0}]
    BY <1>7 DEF WritePointer, TypeInv
  <2>3. damage' \subseteq {"torn", "overrun", "astray"}
    BY <1>7 DEF WritePointer, TypeInv
  <2> QED
    BY <1>7, <2>1, <2>2, <2>3 DEF WritePointer, TypeInv, FrameInv, consVars
<1>8. CASE ResetShadow \/ ResetHead \/ ResetRAM \/ ResetPublish
  BY <1>8, SMTT(30) DEF ResetShadow, ResetHead, ResetRAM, ResetPublish, TypeInv, FrameInv, consVars, histVars
<1>9. CASE DisableVICLog \/ EnableVICLog \/ EnablePublish
  <2>1. CASE DisableVICLog
    BY <2>1 DEF DisableVICLog, TypeInv, FrameInv, consVars, histVars
  <2>2. CASE EnableVICLog
    BY <2>2 DEF EnableVICLog, TypeInv, FrameInv, consVars, histVars
  <2>3. CASE EnablePublish
    BY <2>3 DEF EnablePublish, TypeInv, FrameInv, consVars, histVars
  <2> QED
    BY <1>9, <2>1, <2>2, <2>3
<1> QED
  BY <1>1, <1>2, <1>3, <1>4, <1>5, <1>6, <1>7, <1>8, <1>9 DEF Producer

\* A replay keeps the fields that events do not carry.
LEMMA KeepsPrimed ==
  ASSUME TypeInv, NEW r \in ReplayType, NEW from \in Int, NEW to \in Int, from <= to
  PROVE  LET a == ApplyRange(r, from, to)
         IN  a \in ReplayType /\ a.primed = r.primed /\ a.gen = r.gen
<1> DEFINE n == to - from
<1>1. n \in Nat
  OBVIOUS
<1>2. PICK f : Applies(f, r, from, n) /\ ApplyRange(r, from, to) = f[n]
  BY ApplyRangeDef
<1> DEFINE G == {k \in Nat : k <= n => f[k].primed = r.primed /\ f[k].gen = r.gen}
<1> HIDE DEF n
<1>3. 0 \in G
  BY <1>2 DEF Applies
<1>4. ASSUME NEW k \in Nat, k \in G PROVE k + 1 \in G
  <2> SUFFICES ASSUME k + 1 <= n PROVE f[k + 1].primed = r.primed /\ f[k + 1].gen = r.gen
    OBVIOUS
  <2> DEFINE e == rasterEvent(from + k)
  <2>1. f[k] \in ReplayType /\ f[k + 1] = applyEvent(f[k], e)
        /\ f[k].primed = r.primed /\ f[k].gen = r.gen
    BY <1>1, <1>2, <1>4 DEF Applies
  <2>2. applyEvent(f[k], e).primed = f[k].primed /\ applyEvent(f[k], e).gen = f[k].gen
    <3> DEFINE x == f[k]
    <3>1. x \in ReplayType
      BY <2>1
    <3> HIDE DEF x, e
    <3>2. applyEvent(x, e).primed = x.primed /\ applyEvent(x, e).gen = x.gen
      BY <3>1 DEF applyEvent, ReplayType
    <3> QED
      BY <3>2 DEF x
  <2> QED
    BY <2>1, <2>2
<1>5. Nat \subseteq G
  <2> HIDE DEF G
  <2> QED
    BY <1>3, <1>4, SetInduction
<1>6. f[n] \in ReplayType /\ f[n].primed = r.primed /\ f[n].gen = r.gen
  BY <1>1, <1>2, <1>5 DEF Applies
<1> QED
  BY <1>2, <1>6

\* What Apply leaves is well-typed.
LEMMA ReplayedType ==
  ASSUME TypeInv, NEW to \in Nat, replay.tail <= to
  PROVE  LET a == [ApplyRange(replay, replay.tail, to) EXCEPT !.tail = to]
         IN  a \in ReplayType /\ Reseed(a) \in ReplayType
<1> DEFINE r == ApplyRange(replay, replay.tail, to)
           a == [r EXCEPT !.tail = to]
<1>1. replay \in ReplayType /\ replay.tail \in Int
  BY DEF TypeInv, ReplayType
<1>2. PICK f : Applies(f, replay, replay.tail, to - replay.tail) /\ r = f[to - replay.tail]
  BY <1>1, ApplyRangeDef
<1>3. r \in ReplayType
  BY <1>1, <1>2 DEF Applies
<1> HIDE DEF r
<1>4. a \in ReplayType
  BY <1>3 DEF ReplayType
<1> HIDE DEF a
<1>5. Reseed(a) \in ReplayType
  <2>1. CASE a.valid
    BY <1>4, <2>1 DEF Reseed
  <2>2. CASE ~a.valid
    <3>1. ram[<<a.bank, a.m>>] \in PtrValues \cup {0}
      BY <1>4 DEF TypeInv, Bases, ReplayType
    <3> DEFINE b == [a EXCEPT !.ptr = ram[<<a.bank, a.m>>]]
    <3>2. b \in ReplayType
      BY <1>4, <3>1 DEF ReplayType
    <3>3. [b EXCEPT !.valid = TRUE] \in ReplayType
      BY <3>2 DEF ReplayType
    <3>4. Reseed(a) = [b EXCEPT !.valid = TRUE]
      BY <2>2, Zenon DEF Reseed
    <3> QED
      BY <3>3, <3>4
  <2> QED
    BY <2>1, <2>2
<1> QED
  BY <1>4, <1>5 DEF a, r

\* So is a fresh start.
LEMMA PrimedType ==
  ASSUME TypeInv
  PROVE  rePrime(live.head, live.gen) \in ReplayType
<1>1. ram[<<live.bank, live.m>>] \in PtrValues \cup {0}
  BY DEF TypeInv, Bases, LiveType
<1> QED
  BY <1>1 DEF rePrime, ReplayType, TypeInv, LiveType

\* The steps of renderFrame keep the types, and its frame within the log.
LEMMA ConsumerTypes ==
  ASSUME TypeInv, FrameInv, Consumer
  PROVE  TypeInv' /\ FrameInv'
<1> USE DEF prodVars, histVars
<1>1. CASE LatchBegin
  <2>1. live' \in LiveType
    <3>1. [live EXCEPT !.before = gen] \in LiveType
      BY DEF TypeInv, LiveType
    <3>2. [[[live EXCEPT !.before = gen] EXCEPT !.gen = gen] EXCEPT !.head = head] \in LiveType
      <4> DEFINE k == [live EXCEPT !.before = gen]
                 l == [k EXCEPT !.gen = gen]
      <4>1. k \in LiveType /\ gen \in Int /\ head \in Nat
        BY <3>1 DEF TypeInv
      <4> HIDE DEF k
      <4>2. l \in LiveType
        BY <4>1 DEF LiveType
      <4> HIDE DEF l
      <4>3. [l EXCEPT !.head = head] \in LiveType
        BY <4>1, <4>2 DEF LiveType
      <4> QED
        BY <4>3 DEF k, l
    <3>3. live' = [[[live EXCEPT !.before = gen] EXCEPT !.gen = gen] EXCEPT !.head = head]
      BY <1>1, Zenon DEF LatchBegin
    <3> QED
      BY <3>2, <3>3
  <2> QED
    BY <1>1, <2>1 DEF LatchBegin, TypeInv, FrameInv
<1>2. CASE LatchCopy
  <2>1. live' \in LiveType
    <3>1. [live EXCEPT !.m = shadow] \in LiveType
      BY DEF TypeInv, LiveType
    <3>2. activeVICBank(latch) \in Banks
      BY VICLogAssumption DEF TypeInv, activeVICBank
    <3>3. [[live EXCEPT !.m = shadow] EXCEPT !.bank = activeVICBank(latch)] \in LiveType
      BY <3>1, <3>2 DEF TypeInv, LiveType
    <3>4. live' = [[live EXCEPT !.m = shadow] EXCEPT !.bank = activeVICBank(latch)]
      BY <1>2, Zenon DEF LatchCopy
    <3> QED
      BY <3>3, <3>4
  <2> QED
    BY <1>2, <2>1 DEF LatchCopy, TypeInv, FrameInv
<1>3. CASE LatchHead
  <2>1. live' \in LiveType
    <3>1. [live EXCEPT !.head = head] \in LiveType
      BY DEF TypeInv, LiveType
    <3>2. (head = live.head) \in BOOLEAN
      BY Zenon
    <3>3. [[live EXCEPT !.head = head] EXCEPT !.settled = (head = live.head)] \in LiveType
      BY <3>1, <3>2 DEF LiveType
    <3>4. live' = [[live EXCEPT !.head = head] EXCEPT !.settled = (head = live.head)]
      BY <1>3, Zenon DEF LatchHead
    <3> QED
      BY <3>3, <3>4
  <2> QED
    BY <1>3, <2>1 DEF LatchHead, TypeInv, FrameInv
<1>4. CASE LatchGeneration
  <2>1. live' \in LiveType
    <3>1. [live EXCEPT !.gen = gen] \in LiveType
      BY DEF TypeInv, LiveType
    <3>2. (live.settled /\ gen = live.gen) \in BOOLEAN
      BY Zenon
    <3>3. [[live EXCEPT !.gen = gen] EXCEPT !.settled = (live.settled /\ gen = live.gen)] \in LiveType
      BY <3>1, <3>2 DEF LiveType
    <3>4. live' = [[live EXCEPT !.gen = gen] EXCEPT !.settled = (live.settled /\ gen = live.gen)]
      BY <1>4, Zenon DEF LatchGeneration
    <3> QED
      BY <3>3, <3>4
  <2>2. cstep' \in {"scan", "idle"}
    BY <1>4 DEF LatchGeneration
  <2> QED
    BY <1>4, <2>1, <2>2 DEF LatchGeneration, TypeInv, FrameInv
<1>5. CASE Build
  <2> DEFINE t == Timeline(replay.tail, live.head)
             again == \/ ~replay.primed \/ live.gen # replay.gen \/ Lost
                      \/ t.result = "snapshot"
  <2>1. CASE again
    <3>0. t.result = "snapshot" => t.result \notin {"hold", "replay"}
      OBVIOUS
    <3>1. /\ replay' = rePrime(live.head, live.gen) /\ cstep' = "pages"
          /\ damage' = (damage \cap {"astray"}) \cup (IF live.settled THEN {} ELSE {"torn"})
          /\ UNCHANGED <<frame, live>>
      BY <1>5, <2>1 DEF Build
    <3>2. replay'.primed
      BY <3>1 DEF rePrime
    <3>3. damage' \subseteq {"torn", "overrun", "astray"}
      BY <3>1
    <3> QED
      BY <1>5, <3>1, <3>2, <3>3, PrimedType DEF Build, TypeInv, FrameInv
  <2>2. CASE ~again /\ t.result = "hold"
    <3>1. live' = NoLatch /\ cstep' = "idle" /\ UNCHANGED <<replay, frame, damage>>
      BY <1>5, <2>2 DEF Build, Return
    <3>2. live' \in LiveType
      BY <3>1, VICLogAssumption DEF NoLatch, LiveType
    <3> QED
      BY <1>5, <3>1, <3>2 DEF Build, TypeInv, FrameInv
  <2>3. CASE ~again /\ t.result = "replay"
    <3>1. frame' = t /\ cstep' = "apply" /\ UNCHANGED <<replay, damage, live, epochs>>
      BY <1>5, <2>3 DEF Build
    <3>2. /\ replay.primed /\ replay.tail <= live.head /\ replay.tail \in Int /\ live.head \in Int
          /\ live.head - replay.tail <= LogSize
      BY <2>3, VICLogAssumption DEF Lost, TypeInv, ReplayType, LiveType
    <3>3. t.tailAfter \in replay.tail .. live.head
      BY <3>2, TimelineEnds
    <3> HIDE DEF t
    <3> QED
      BY <1>5, <3>1, <3>2, <3>3 DEF Build, TypeInv, FrameInv
  <2> HIDE DEF t
  <2> QED
    BY <1>5, <2>1, <2>2, <2>3 DEF Build, t
<1>6. CASE Apply
  <2>1. frame.tailAfter \in Nat /\ replay.tail <= frame.tailAfter /\ replay.primed
    BY <1>6 DEF Apply, FrameInv, TypeInv, ReplayType, LiveType
  <2>2. replay' \in ReplayType
    BY <1>6, <2>1, ReplayedType DEF Apply
  <2>3. replay'.primed
    <3> DEFINE r == ApplyRange(replay, replay.tail, frame.tailAfter)
    <3>1. replay \in ReplayType /\ replay.tail \in Int
      BY DEF TypeInv, ReplayType
    <3>2. r.primed /\ r \in ReplayType
      BY <2>1, <3>1, KeepsPrimed
    <3> HIDE DEF r
    <3> QED
      BY <1>6, <3>2 DEF Apply, Reseed, ReplayType, r
  <2> QED
    BY <1>6, <2>2, <2>3 DEF Apply, TypeInv, FrameInv
<1>7. CASE CopyPages
  BY <1>7 DEF CopyPages, TypeInv, FrameInv
<1>8. CASE CheckGeneration
  <2>1. replay' \in ReplayType
    <3>1. (gen = live.gen) \in BOOLEAN
      BY Zenon
    <3> QED
      BY <1>8, <3>1 DEF CheckGeneration, TypeInv, ReplayType
  <2>2. live' \in LiveType /\ cstep' = "idle"
    BY <1>8, VICLogAssumption DEF CheckGeneration, Return, NoLatch, LiveType
  <2> QED
    BY <1>8, <2>1, <2>2 DEF CheckGeneration, TypeInv, FrameInv
<1> QED
  BY <1>1, <1>2, <1>3, <1>4, <1>5, <1>6, <1>7, <1>8 DEF Consumer

-----------------------------------------------------------------------------
(* The invariant.                                                           *)

\* A write that is not logged yet has already been made.
PendInv ==
  pending # None =>
    /\ enabled /\ rstep = "idle"
    /\ pending.reg = "d018" => pending.value = shadow
    /\ pending.reg = "bank" => pending.value = activeVICBank(latch)
    /\ pending.reg = "ptr" /\ "astray" \notin damage => pending.value = ram[ActiveRow]

AfterPending(row) == IF pending = None THEN row ELSE RowStep(row, pending)
PtrPending == pending # None /\ pending.reg = "ptr"

\* The logged events from index from on, and the pending one, lead from the row
\* start to the row the VIC reads; the last pointer they carry for that row, if
\* they have not left it since, is the one in memory.
Trace(s, start, from) ==
  /\ from <= head /\ Rows(s, start, from, head)
  /\ AfterPending(s[head]) = ActiveRow
  /\ "astray" \notin damage /\ ~PtrPending =>
       \A i \in from .. head - 1 :
         /\ rasterEvent(i).reg = "ptr"
         /\ \A j \in i + 1 .. head - 1 : rasterEvent(j).reg # "ptr"
         /\ \A k \in i .. head : s[k] = ActiveRow
         => rasterEvent(i).value = ram[ActiveRow]

\* A pointer no logged event replaces is the one in memory.
Known(s, ptr, from) ==
  /\ "astray" \notin damage /\ ~PtrPending
  /\ \A i \in from .. head - 1 : rasterEvent(i).reg # "ptr"
  /\ \A k \in from .. head : s[k] = ActiveRow
  => ptr = ram[ActiveRow]

\* Capture is on, and no reset is between its stores.
Capturing == rstep = "idle" /\ enabled

\* What is sampled is never of a generation to come, and no head but that of an
\* unsettled latch is ahead of the log.
SampleInv ==
  /\ replay.gen <= gen /\ live.gen <= gen
  /\ \/ cstep \in {"copy", "head", "generation"}
     \/ cstep = "scan" /\ live.settled
     => (live.gen = gen /\ rstep = "idle" => live.head <= head)

\* The events core 1 is about to apply are still in the ring, unless an overrun
\* was noted.
RingInv ==
  cstep \in {"generation", "scan", "apply"} /\ replay.primed /\ replay.gen = gen
    /\ rstep = "idle"
  => /\ live.head <= head
     /\ /\ "overrun" \notin damage /\ replay.tail < live.head
        /\ live.head - replay.tail <= LogSize
        => head - replay.tail <= LogSize

\* The latched registers belong to the latched head, where both samples agree.
Latched ==
  /\ cstep \in {"head", "generation", "scan"} /\ live.gen = gen /\ Capturing
  /\ IF cstep = "head" THEN live.head = head ELSE live.settled
  /\ head - live.head <= LogSize
LiveInv == Latched => \E s : Trace(s, <<live.bank, live.m>>, live.head)

\* What the replay has kept belongs to its tail.
Followed ==
  /\ replay.primed /\ replay.gen = gen /\ Capturing
  /\ "torn" \notin damage /\ "overrun" \notin damage
  /\ head - replay.tail <= LogSize
ReplayInv ==
  Followed => \E s : /\ Trace(s, <<replay.bank, replay.m>>, replay.tail)
                     /\ Known(s, replay.ptr, replay.tail)

\* No reset is between its stores.
Quiet == rstep \in {"idle", "enable"}

\* Between the first and the third store of a reset the registers are an epoch
\* ahead of the memory.
EpochsApart ==
  /\ rstep \in {"idle", "enable", "shadow", "head", "ram"}
  /\ epochs \in [regs : Int, ram : Int, latched : Int, replay : Int, drawn : Int,
                 pages : Int, crossed : BOOLEAN]
  /\ epochs.regs = IF rstep \in {"shadow", "head"} THEN epochs.ram + 1 ELSE epochs.ram

\* The generations that one pass of renderFrame reads never go down, and the
\* replay it goes on with is of the last one.
SampleOrder ==
  /\ live.before <= live.gen
  /\ cstep \in {"copy", "head", "generation"} => live.before = live.gen
  /\ cstep \in {"copy", "head", "generation", "scan", "apply"} => replay.gen <= live.before
  /\ cstep \in {"apply", "pages", "check"} => replay.gen = live.gen

\* What was copied in the current generation is of the current epoch: the
\* registers between two equal samples, the replay primed from such registers,
\* the frame drawn from either, and the memory.
EpochsSeen ==
  Quiet =>
    /\ cstep \in {"head", "generation", "scan", "apply"} /\ live.before = gen
         => epochs.latched = epochs.regs
    /\ replay.primed /\ replay.gen = gen /\ ~epochs.crossed => epochs.replay = epochs.regs
    /\ cstep \in {"pages", "check"} /\ live.gen = gen /\ ~epochs.crossed
         => epochs.drawn = epochs.regs
    /\ cstep = "check" /\ live.gen = gen => epochs.pages = epochs.ram

EpochInv == EpochsApart /\ SampleOrder /\ EpochsSeen

-----------------------------------------------------------------------------
(* Traces under the producer's steps.                                       *)

\* The row depends only on the register and the value of an event.
LEMMA RowStepSame ==
  ASSUME NEW row, NEW e, NEW f, e.reg = f.reg, e.value = f.value
  PROVE  RowStep(row, e) = RowStep(row, f)
BY DEF RowStep

\* A step that changes nothing a trace is about.
LEMMA TraceSame ==
  ASSUME NEW s, NEW start, NEW from, NEW ptr,
         UNCHANGED <<head, pending, ring, ram, shadow, latch>>,
         "astray" \in damage' <=> "astray" \in damage
  PROVE  /\ Trace(s, start, from) => Trace(s, start, from)'
         /\ Known(s, ptr, from) => Known(s, ptr, from)'
<1>1. ActiveRow' = ActiveRow /\ PtrPending' = PtrPending
  BY DEF ActiveRow, activeVICBank, PtrPending
<1>2. \A i : rasterEvent(i)' = rasterEvent(i)
  BY DEF rasterEvent
<1>3. Rows(s, start, from, head)' = Rows(s, start, from, head)
  BY DEF Rows, rasterEvent
<1>4. AfterPending(s[head])' = AfterPending(s[head])
  BY DEF AfterPending
<1> QED
  BY <1>1, <1>2, <1>3, <1>4 DEF Trace, Known

\* A write between two events: the row is that of the trace, and the memory
\* behind it changes only together with a pending pointer.
LEMMA TraceWrite ==
  ASSUME TypeInv, NEW s, NEW start, NEW from \in Int, NEW ptr, Trace(s, start, from),
         pending = None, head' = head,
         \A i \in Int : /\ rasterEvent(i)'.reg = rasterEvent(i).reg
                        /\ rasterEvent(i)'.value = rasterEvent(i).value,
         IF pending' = None THEN ActiveRow' = ActiveRow
                            ELSE RowStep(ActiveRow, pending') = ActiveRow',
         "astray" \notin damage' => "astray" \notin damage,
         "astray" \notin damage' /\ ~PtrPending' => ram'[ActiveRow] = ram[ActiveRow]
  PROVE  Trace(s, start, from)' /\ (Known(s, ptr, from) => Known(s, ptr, from)')
<1>1. head \in Int /\ from <= head /\ s[head] = ActiveRow /\ ~PtrPending /\ head \in from .. head
  BY DEF Trace, AfterPending, PtrPending, TypeInv
<1>2. Rows(s, start, from, head)'
  <2>1. s[from] = start
    BY DEF Trace, Rows
  <2>2. ASSUME NEW k \in from .. head - 1 PROVE s[k + 1] = RowStep(s[k], rasterEvent(k)')
    <3>1. s[k + 1] = RowStep(s[k], rasterEvent(k)) /\ k \in Int
      BY DEF Trace, Rows
    <3> QED
      BY <3>1, RowStepSame
  <2> QED
    BY <2>1, <2>2 DEF Rows
<1>3. AfterPending(s[head])' = ActiveRow'
  BY <1>1 DEF AfterPending
<1>4. ASSUME "astray" \notin damage', ~PtrPending', NEW i \in from .. head - 1,
             rasterEvent(i)'.reg = "ptr",
             \A j \in i + 1 .. head - 1 : rasterEvent(j)'.reg # "ptr",
             \A k \in i .. head : s[k] = ActiveRow'
      PROVE  rasterEvent(i)'.value = ram'[ActiveRow']
  <2>1. i \in Int /\ rasterEvent(i).reg = "ptr"
        /\ \A j \in i + 1 .. head - 1 : rasterEvent(j).reg # "ptr"
    BY <1>1, <1>4
  <2>2. ActiveRow' = ActiveRow
    BY <1>1, <1>4
  <2>3. rasterEvent(i).value = ram[ActiveRow]
    BY <1>1, <1>4, <2>1, <2>2 DEF Trace
  <2> QED
    BY <1>4, <2>1, <2>2, <2>3
<1>5. Trace(s, start, from)'
  BY <1>1, <1>2, <1>3, <1>4 DEF Trace
<1>6. ASSUME Known(s, ptr, from), "astray" \notin damage', ~PtrPending',
             \A i \in from .. head - 1 : rasterEvent(i)'.reg # "ptr",
             \A k \in from .. head : s[k] = ActiveRow'
      PROVE  ptr = ram'[ActiveRow']
  <2>1. ActiveRow' = ActiveRow
    BY <1>1, <1>6
  <2>2. \A i \in from .. head - 1 : rasterEvent(i).reg # "ptr"
    BY <1>1, <1>6
  <2>3. ptr = ram[ActiveRow]
    BY <1>1, <1>6, <2>1, <2>2 DEF Known
  <2> QED
    BY <1>6, <2>1, <2>3
<1> QED
  BY <1>5, <1>6 DEF Known

\* Two indices less than LogSize apart have different slots.
LEMMA SlotsApart ==
  ASSUME NEW i \in Int, NEW h \in Int, i < h, h - i < LogSize
  PROVE  i % LogSize # h % LogSize
<1>1. LogSize \in Nat \ {0}
  BY VICLogAssumption
<1>2. /\ i = LogSize * (i \div LogSize) + (i % LogSize)
      /\ h = LogSize * (h \div LogSize) + (h % LogSize)
      /\ i \div LogSize \in Int /\ h \div LogSize \in Int
      /\ i % LogSize \in Int /\ h % LogSize \in Int
  BY <1>1
<1>3. ASSUME NEW a \in Int, NEW b \in Int, 0 < LogSize * b - LogSize * a,
             LogSize * b - LogSize * a < LogSize
      PROVE  FALSE
  <2>1. LogSize * b - LogSize * a = LogSize * (b - a)
    BY <1>1
  <2>2. \A d \in Int : d <= 0 => LogSize * d <= 0
    BY <1>1
  <2>3. \A d \in Int : d >= 1 => LogSize * d >= LogSize
    BY <1>1
  <2>4. b - a \in Int /\ (b - a <= 0 \/ b - a >= 1)
    OBVIOUS
  <2> QED
    BY <1>1, <1>3, <2>1, <2>2, <2>3, <2>4
<1> SUFFICES ASSUME i % LogSize = h % LogSize PROVE FALSE
  OBVIOUS
<1>4. h - i = LogSize * (h \div LogSize) - LogSize * (i \div LogSize)
  BY <1>1, <1>2
<1> QED
  BY <1>2, <1>3, <1>4

\* An event that is appended extends the trace.
LEMMA TraceAppend ==
  ASSUME TypeInv, PendInv, NEW s, NEW start, NEW from \in Int, NEW ptr, Trace(s, start, from),
         appendVICLog, (head + 1) - from <= LogSize
  PROVE  \E t : Trace(t, start, from)' /\ (Known(s, ptr, from) => Known(t, ptr, from)')
<1>a. PICK h : h = head
  OBVIOUS
<1>b. PICK row : row = ActiveRow
  OBVIOUS
<1> DEFINE t == [k \in from .. h + 1 |-> IF k = h + 1 THEN row ELSE s[k]]
<1>1. h \in Int /\ from <= h /\ pending # None /\ pending' = None /\ head' = h + 1
  BY <1>a DEF Trace, TypeInv, appendVICLog
<1>2. ActiveRow' = row /\ ram' = ram /\ ~PtrPending'
      /\ ("astray" \notin damage' => "astray" \notin damage)
  BY <1>1, <1>b DEF appendVICLog, ActiveRow, activeVICBank, PtrPending
<1>3. /\ \A i \in from .. h - 1 : rasterEvent(i)' = rasterEvent(i)
      /\ rasterEvent(h)'.reg = pending.reg /\ rasterEvent(h)'.value = pending.value
  <2>1. h % LogSize \in 0 .. LogSize - 1
    BY <1>1, VICLogAssumption
  <2>2. ASSUME NEW i \in from .. h - 1 PROVE rasterEvent(i)' = rasterEvent(i)
    <3>1. i \in Int /\ i < h /\ h - i < LogSize
      BY <1>1, <1>a, VICLogAssumption
    <3>2. i % LogSize # h % LogSize
      BY <1>1, <3>1, SlotsApart
    <3>3. i % LogSize \in 0 .. LogSize - 1
      BY <3>1, VICLogAssumption
    <3> QED
      BY <1>a, <3>2, <3>3 DEF appendVICLog, rasterEvent, TypeInv
  <2>3. rasterEvent(h)'.reg = pending.reg /\ rasterEvent(h)'.value = pending.value
    BY <1>a, <2>1 DEF appendVICLog, rasterEvent, TypeInv
  <2> QED
    BY <2>2, <2>3
<1>4. /\ t[h + 1] = row /\ \A k \in from .. h : t[k] = s[k]
  BY <1>1
<1> HIDE DEF t
<1>5. RowStep(s[h], pending) = row /\ h \in from .. h
  BY <1>1, <1>a, <1>b DEF Trace, AfterPending
<1>6. Rows(t, start, from, head)'
  <2>1. t[from] = start
    BY <1>1, <1>4 DEF Trace, Rows
  <2>2. ASSUME NEW k \in from .. (h + 1) - 1 PROVE t[k + 1] = RowStep(t[k], rasterEvent(k)')
    <3>1. CASE k = h
      <4>1. RowStep(s[h], rasterEvent(h)') = RowStep(s[h], pending)
        BY <1>3, RowStepSame
      <4> QED
        BY <1>4, <1>5, <3>1, <4>1
    <3>2. CASE k # h
      <4>1. k \in from .. h - 1 /\ k \in from .. h /\ k + 1 \in from .. h
        BY <1>1, <3>2
      <4>2. s[k + 1] = RowStep(s[k], rasterEvent(k))
        BY <1>a, <4>1 DEF Trace, Rows
      <4> QED
        BY <1>3, <1>4, <4>1, <4>2
    <3> QED
      BY <3>1, <3>2
  <2> QED
    BY <1>1, <2>1, <2>2 DEF Rows
<1>7. AfterPending(t[head])' = ActiveRow'
  BY <1>1, <1>2, <1>4 DEF AfterPending
<1>8. pending.reg = "ptr" /\ "astray" \notin damage => pending.value = ram[row]
  BY <1>1, <1>b DEF PendInv
<1>9. ASSUME "astray" \notin damage', NEW i \in from .. (h + 1) - 1,
             rasterEvent(i)'.reg = "ptr",
             \A j \in i + 1 .. (h + 1) - 1 : rasterEvent(j)'.reg # "ptr",
             \A k \in i .. h + 1 : t[k] = row
      PROVE  rasterEvent(i)'.value = ram[row]
  <2>1. CASE i = h
    BY <1>2, <1>3, <1>8, <1>9, <2>1
  <2>2. CASE i # h
    <3>1. i \in from .. h - 1 /\ h \in i + 1 .. (h + 1) - 1
      BY <1>1, <2>2
    <3>2. ~PtrPending
      BY <1>3, <1>9, <3>1 DEF PtrPending
    <3>3. \A j \in i + 1 .. h - 1 : /\ j \in i + 1 .. (h + 1) - 1
                                       /\ j \in from .. h - 1
      BY <1>1, <3>1
    <3>4. \A j \in i + 1 .. h - 1 : rasterEvent(j).reg # "ptr"
      BY <1>3, <1>9, <3>3
    <3>5. \A k \in i .. h : k \in i .. h + 1 /\ k \in from .. h
      BY <1>1, <3>1
    <3>6. \A k \in i .. h : s[k] = row
      BY <1>4, <1>9, <3>5
    <3>7. rasterEvent(i).reg = "ptr"
      BY <1>3, <1>9, <3>1
    <3>8. rasterEvent(i).value = ram[row]
      BY <1>a, <1>b, <1>2, <1>9, <3>1, <3>2, <3>4, <3>6, <3>7 DEF Trace
    <3> QED
      BY <1>3, <3>1, <3>8
  <2> QED
    BY <2>1, <2>2
<1>10. Trace(t, start, from)'
  BY <1>1, <1>2, <1>6, <1>7, <1>9 DEF Trace
<1>11. ASSUME Known(s, ptr, from), "astray" \notin damage',
              \A i \in from .. (h + 1) - 1 : rasterEvent(i)'.reg # "ptr",
              \A k \in from .. h + 1 : t[k] = row
       PROVE  ptr = ram[row]
  <2>1. h \in from .. (h + 1) - 1 /\ (\A i \in from .. h - 1 : i \in from .. (h + 1) - 1)
        /\ (\A k \in from .. h : k \in from .. h + 1)
    BY <1>1
  <2>2. ~PtrPending
    BY <1>3, <1>11, <2>1 DEF PtrPending
  <2>3. \A i \in from .. h - 1 : rasterEvent(i).reg # "ptr"
    BY <1>3, <1>11, <2>1
  <2>4. \A k \in from .. h : s[k] = row
    BY <1>4, <1>11, <2>1
  <2> QED
    BY <1>a, <1>b, <1>2, <1>11, <2>2, <2>3, <2>4 DEF Known
<1>12. Known(s, ptr, from) => Known(t, ptr, from)'
  BY <1>1, <1>2, <1>11 DEF Known
<1> QED
  BY <1>10, <1>12

\* Every producer step but the publishing ones keeps the generation; while
\* capture stays on the log only grows.
LEMMA ProducerFacts ==
  ASSUME TypeInv, Producer
  PROVE  /\ gen' \in {gen, gen + 1}
         /\ UNCHANGED consVars
         /\ damage \subseteq damage'
         /\ Capturing' /\ gen' = gen => Capturing
         /\ rstep' = "idle" /\ gen' = gen => rstep = "idle" /\ head' \in {head, head + 1}
<1> DEFINE P == /\ gen' \in {gen, gen + 1}
                /\ UNCHANGED consVars
                /\ damage \subseteq damage'
                /\ Capturing' /\ gen' = gen => Capturing
                /\ rstep' = "idle" /\ gen' = gen
                     => rstep = "idle" /\ head' \in {head, head + 1}
<1> USE DEF Capturing, ProducerFree, TypeInv
<1>1. CASE Tick \/ noteRasterCoarse \/ WriteCompare
  BY <1>1 DEF Tick, noteRasterCoarse, WriteCompare, histVars
<1>2. CASE appendVICLog
  BY <1>2 DEF appendVICLog
<1>3. ASSUME NEW m \in Matrices, WriteD018(m) PROVE P
  BY <1>3 DEF WriteD018
<1>4. ASSUME NEW b \in Banks, WriteDD00(b) PROVE P
  BY <1>4 DEF WriteDD00
<1>5. ASSUME NEW at \in Bases, NEW v \in PtrValues, WritePointer(at, v) PROVE P
  BY <1>5 DEF WritePointer
<1>6. CASE ResetShadow \/ ResetHead \/ ResetRAM \/ ResetPublish
  BY <1>6 DEF ResetShadow, ResetHead, ResetRAM, ResetPublish, histVars
<1>7. CASE DisableVICLog \/ EnableVICLog \/ EnablePublish
  BY <1>7 DEF DisableVICLog, EnableVICLog, EnablePublish, histVars
<1> QED
  BY <1>1, <1>2, <1>3, <1>4, <1>5, <1>6, <1>7 DEF Producer

\* While capture goes on, a trace goes on.
LEMMA TraceStep ==
  ASSUME TypeInv, PendInv, Producer, Capturing, Capturing', gen' = gen,
         NEW s, NEW start, NEW from \in Int, NEW ptr, Trace(s, start, from),
         head' - from <= LogSize
  PROVE  \E t : Trace(t, start, from)' /\ (Known(s, ptr, from) => Known(t, ptr, from)')
<1> DEFINE P == Trace(s, start, from)' /\ (Known(s, ptr, from) => Known(s, ptr, from)')
           SameEvents == \A i \in Int : /\ rasterEvent(i)'.reg = rasterEvent(i).reg
                                        /\ rasterEvent(i)'.value = rasterEvent(i).value
<1>0. \A k \in Kinds, v \in Values : [reg |-> k, value |-> v] # None
  BY VICLogAssumption DEF Kinds, Values
<1>1. CASE Tick \/ noteRasterCoarse
  <2>1. UNCHANGED <<head, pending, ring, ram, shadow, latch, damage>>
    BY <1>1 DEF Tick, noteRasterCoarse, histVars
  <2> QED
    BY <2>1, TraceSame
<1>2. CASE appendVICLog
  <2>1. (head + 1) - from <= LogSize
    BY <1>2 DEF appendVICLog
  <2> QED
    BY <1>2, <2>1, TraceAppend
<1>3. CASE WriteCompare
  <2>1. /\ pending = None /\ pending' = [reg |-> "compare", value |-> 0]
        /\ UNCHANGED <<head, ram, shadow, latch, damage>>
    BY <1>3 DEF WriteCompare, ProducerFree
  <2>2. SameEvents
    <3> SUFFICES ASSUME NEW i \in Int
                 PROVE  /\ rasterEvent(i)'.reg = rasterEvent(i).reg
                        /\ rasterEvent(i)'.value = rasterEvent(i).value
      OBVIOUS
    <3>1. i % LogSize \in DOMAIN ring
      BY VICLogAssumption DEF TypeInv
    <3>2. PICK l : ring'[i % LogSize] \in {ring[i % LogSize], [ring[i % LogSize] EXCEPT !.line = l]}
      BY <1>3, <3>1 DEF WriteCompare, noteRasterPrecise
    <3>3. ring[i % LogSize] \in EventType
      BY <3>1 DEF TypeInv
    <3> QED
      BY <3>2, <3>3 DEF rasterEvent, EventType
  <2>3. ActiveRow' = ActiveRow /\ RowStep(ActiveRow, pending') = ActiveRow'
        /\ pending' # None
    BY <1>0, <2>1 DEF ActiveRow, activeVICBank, RowStep, Kinds, Values
  <2> HIDE DEF SameEvents
  <2> QED
    BY <2>1, <2>2, <2>3, TraceWrite DEF SameEvents
<1>4. ASSUME NEW m \in Matrices, WriteD018(m) PROVE P
  <2>1. /\ pending = None /\ pending' = [reg |-> "d018", value |-> m] /\ shadow' = m
        /\ UNCHANGED <<head, ram, latch, damage, ring>>
    BY <1>4 DEF WriteD018, ProducerFree, Posts, Capturing
  <2>2. SameEvents
    BY <2>1 DEF rasterEvent
  <2>3. RowStep(ActiveRow, pending') = ActiveRow' /\ pending' # None
    BY <1>0, <2>1 DEF ActiveRow, activeVICBank, RowStep, Kinds, Values
  <2> HIDE DEF SameEvents
  <2> QED
    BY <2>1, <2>2, <2>3, TraceWrite DEF SameEvents
<1>5. ASSUME NEW b \in Banks, WriteDD00(b) PROVE P
  <2>1. /\ pending = None /\ pending' = [reg |-> "bank", value |-> b] /\ latch' = b
        /\ UNCHANGED <<head, ram, shadow, damage, ring>>
    BY <1>5 DEF WriteDD00, ProducerFree, Posts, Capturing
  <2>2. SameEvents
    BY <2>1 DEF rasterEvent
  <2>3. RowStep(ActiveRow, pending') = ActiveRow' /\ pending' # None
    BY <1>0, <2>1, VICLogAssumption DEF ActiveRow, activeVICBank, RowStep, Kinds, Values
  <2> HIDE DEF SameEvents
  <2> QED
    BY <2>1, <2>2, <2>3, TraceWrite DEF SameEvents
<1>6. ASSUME NEW at \in Bases, NEW v \in PtrValues, WritePointer(at, v) PROVE P
  <2>1. /\ pending = None /\ ram' = [ram EXCEPT ![at] = v]
        /\ IF at = ptrBase /\ ram[at] # v THEN pending' = [reg |-> "ptr", value |-> v]
                                          ELSE pending' = None
        /\ damage' = IF ptrBase # ActiveRow /\ at \in {ptrBase, ActiveRow}
                     THEN damage \cup {"astray"} ELSE damage
        /\ UNCHANGED <<head, latch, shadow, ring>>
    BY <1>6 DEF WritePointer, ProducerFree, Posts, Capturing
  <2>2. SameEvents
    BY <2>1 DEF rasterEvent
  <2>3. ActiveRow' = ActiveRow /\ (pending' # None => RowStep(ActiveRow, pending') = ActiveRow')
    BY <2>1 DEF ActiveRow, activeVICBank, RowStep
  <2>4. "astray" \notin damage' => "astray" \notin damage
    BY <2>1
  <2>5. "astray" \notin damage' /\ ~PtrPending' => ram'[ActiveRow] = ram[ActiveRow]
    <3>1. ASSUME "astray" \notin damage', ~PtrPending', ram'[ActiveRow] # ram[ActiveRow]
          PROVE  FALSE
      <4>1. at = ActiveRow /\ ram[at] # v
        BY <2>1, <3>1 DEF TypeInv
      <4>2. ptrBase = ActiveRow
        BY <2>1, <3>1, <4>1
      <4>3. pending' = [reg |-> "ptr", value |-> v]
        BY <2>1, <4>1, <4>2
      <4>4. pending' # None
        BY <4>3, <1>0, <1>6 DEF Kinds, Values
      <4> QED
        BY <3>1, <4>3, <4>4 DEF PtrPending
    <3> QED
      BY <3>1
  <2> HIDE DEF SameEvents
  <2> QED
    BY <2>1, <2>2, <2>3, <2>4, <2>5, TraceWrite DEF SameEvents
<1>7. CASE ResetShadow \/ ResetHead \/ ResetRAM \/ ResetPublish
  BY <1>7 DEF ResetShadow, ResetHead, ResetRAM, ResetPublish, Capturing
<1>8. CASE DisableVICLog \/ EnableVICLog \/ EnablePublish
  BY <1>8 DEF DisableVICLog, EnableVICLog, EnablePublish, Capturing
<1>9. P => \E t : Trace(t, start, from)' /\ (Known(s, ptr, from) => Known(t, ptr, from)')
  OBVIOUS
<1> HIDE DEF P
<1> QED
  BY <1>1, <1>2, <1>3, <1>4, <1>5, <1>6, <1>7, <1>8, <1>9 DEF Producer

-----------------------------------------------------------------------------
(* The invariant is inductive.                                              *)

VICInv == TypeInv /\ FrameInv /\ PendInv /\ SampleInv /\ RingInv /\ LiveInv /\ ReplayInv

\* An event to be logged never disagrees with the registers.
LEMMA PendStep ==
  ASSUME TypeInv, PendInv, Next
  PROVE  PendInv'
<1>1. CASE Consumer
  <2>1. UNCHANGED prodVars /\ ("astray" \in damage' <=> "astray" \in damage)
    <3>1. CASE LatchBegin \/ LatchCopy \/ LatchHead \/ LatchGeneration
      BY <3>1 DEF LatchBegin, LatchCopy, LatchHead, LatchGeneration, histVars
    <3>2. CASE Build
      BY <3>2 DEF Build
    <3>3. CASE Apply \/ CopyPages \/ CheckGeneration
      BY <3>3 DEF Apply, CopyPages, CheckGeneration, histVars
    <3> QED
      BY <1>1, <3>1, <3>2, <3>3 DEF Consumer
  <2> QED
    BY <2>1 DEF prodVars, PendInv, ActiveRow
<1>2. CASE Tick \/ appendVICLog \/ noteRasterCoarse
  BY <1>2 DEF Tick, appendVICLog, noteRasterCoarse, PendInv, ActiveRow, histVars, ProducerFree
<1>3. CASE WriteCompare
  BY <1>3 DEF WriteCompare, PendInv, ProducerFree
<1>4. ASSUME NEW m \in Matrices, WriteD018(m) PROVE PendInv'
  BY <1>4 DEF WriteD018, PendInv, ProducerFree, Posts
<1>5. ASSUME NEW b \in Banks, WriteDD00(b) PROVE PendInv'
  BY <1>5, VICLogAssumption DEF WriteDD00, PendInv, ProducerFree, Posts, activeVICBank
<1>6. ASSUME NEW at \in Bases, NEW v \in PtrValues, WritePointer(at, v) PROVE PendInv'
  <2> SUFFICES ASSUME pending' # None PROVE PendInv'
    BY DEF PendInv
  <2>1. /\ enabled /\ rstep = "idle" /\ at = ptrBase
        /\ pending' = [reg |-> "ptr", value |-> v] /\ ram' = [ram EXCEPT ![at] = v]
        /\ damage' = IF ptrBase # ActiveRow /\ at \in {ptrBase, ActiveRow}
                     THEN damage \cup {"astray"} ELSE damage
        /\ UNCHANGED <<enabled, rstep, shadow, latch>>
    BY <1>6 DEF WritePointer, ProducerFree, Posts
  <2>2. ASSUME "astray" \notin damage' PROVE v = ram'[ActiveRow']
    <3>1. at = ActiveRow /\ ActiveRow' = ActiveRow
      BY <2>1, <2>2 DEF ActiveRow
    <3> QED
      BY <2>1, <3>1 DEF TypeInv
  <2> QED
    BY <2>1, <2>2 DEF PendInv
<1>7. CASE ResetShadow \/ ResetHead \/ ResetRAM \/ ResetPublish
  BY <1>7 DEF ResetShadow, ResetHead, ResetRAM, ResetPublish, PendInv, ProducerFree, ActiveRow, histVars
<1>8. CASE DisableVICLog \/ EnableVICLog \/ EnablePublish
  BY <1>8 DEF DisableVICLog, EnableVICLog, EnablePublish, PendInv, ProducerFree, ActiveRow, histVars
<1> QED
  BY <1>1, <1>2, <1>3, <1>4, <1>5, <1>6, <1>7, <1>8 DEF Next, Producer

\* Samples stay behind the log while core 0 runs, and an append notes an overrun.
LEMMA ProducerSamples ==
  ASSUME TypeInv, SampleInv, RingInv, Producer
  PROVE  SampleInv' /\ RingInv'
<1>1. /\ gen' \in {gen, gen + 1} /\ damage \subseteq damage'
      /\ UNCHANGED <<cstep, live, replay>>
      /\ rstep' = "idle" /\ gen' = gen => rstep = "idle" /\ head' \in {head, head + 1}
  BY ProducerFacts DEF consVars
<1>2. /\ gen \in Int /\ head \in Int /\ replay.gen \in Int /\ live.gen \in Int
      /\ replay.tail \in Int /\ live.head \in Int /\ LogSize \in Nat
  BY VICLogAssumption DEF TypeInv, ReplayType, LiveType
<1>3. SampleInv'
  <2>1. replay'.gen <= gen' /\ live'.gen <= gen'
    BY <1>1, <1>2 DEF SampleInv
  <2>2. ASSUME \/ cstep \in {"copy", "head", "generation"}
               \/ cstep = "scan" /\ live.settled,
               live.gen = gen', rstep' = "idle"
        PROVE  live.head <= head'
    <3>1. gen' = gen
      BY <1>1, <1>2, <2>2 DEF SampleInv
    <3>2. live.head <= head
      BY <1>1, <2>2, <3>1 DEF SampleInv
    <3> QED
      BY <1>1, <1>2, <2>2, <3>1, <3>2
  <2> QED
    BY <1>1, <2>1, <2>2 DEF SampleInv
<1>4. RingInv'
  <2> SUFFICES ASSUME cstep \in {"generation", "scan", "apply"}, replay.primed,
                      replay.gen = gen', rstep' = "idle"
               PROVE  /\ live.head <= head'
                      /\ /\ "overrun" \notin damage' /\ replay.tail < live.head
                         /\ live.head - replay.tail <= LogSize
                         => head' - replay.tail <= LogSize
    BY <1>1 DEF RingInv
  <2>1. gen' = gen
    BY <1>1, <1>2 DEF SampleInv
  <2>2. rstep = "idle" /\ head' \in {head, head + 1}
    BY <1>1, <2>1
  <2>3. live.head <= head
    BY <2>1, <2>2 DEF RingInv
  <2>4. ASSUME "overrun" \notin damage', replay.tail < live.head,
               live.head - replay.tail <= LogSize
        PROVE  head' - replay.tail <= LogSize
    <3>1. head - replay.tail <= LogSize
      BY <1>1, <2>1, <2>2, <2>4 DEF RingInv
    <3>2. CASE head' = head
      BY <3>1, <3>2
    <3>3. CASE head' = head + 1 /\ appendVICLog
      <4>1. ~(head - LogSize \in replay.tail .. live.head - 1)
        BY <2>4, <3>3 DEF appendVICLog
      <4> QED
        BY <1>2, <2>3, <2>4, <3>1, <3>3, <4>1
    <3>4. head' = head \/ appendVICLog
      BY <2>1, <2>2, <1>2 DEF Producer, Tick, WriteCompare, noteRasterCoarse, WriteD018, WriteDD00,
         WritePointer, ResetShadow, ResetHead, ResetRAM, ResetPublish, DisableVICLog,
         EnableVICLog, EnablePublish
    <3> QED
      BY <2>2, <3>2, <3>3, <3>4
  <2> QED
    BY <1>2, <2>2, <2>3, <2>4
<1> QED
  BY <1>3, <1>4

\* What is latched or replayed keeps its trace while core 0 runs.
LEMMA ProducerTraces ==
  ASSUME TypeInv, PendInv, SampleInv, LiveInv, ReplayInv, Producer
  PROVE  LiveInv' /\ ReplayInv'
<1>1. /\ gen' \in {gen, gen + 1} /\ damage \subseteq damage'
      /\ UNCHANGED <<cstep, live, replay>>
      /\ Capturing' /\ gen' = gen => Capturing
      /\ rstep' = "idle" /\ gen' = gen => rstep = "idle" /\ head' \in {head, head + 1}
  BY ProducerFacts DEF consVars
<1>2. /\ gen \in Int /\ head \in Int /\ replay.gen \in Int /\ live.gen \in Int
      /\ replay.tail \in Int /\ live.head \in Int /\ LogSize \in Nat
  BY VICLogAssumption DEF TypeInv, ReplayType, LiveType
<1>3. ASSUME Latched' PROVE \E s : Trace(s, <<live.bank, live.m>>, live.head)'
  <2>1. gen' = gen /\ Capturing' /\ Capturing /\ live.gen = gen
    BY <1>1, <1>2, <1>3 DEF Latched, SampleInv
  <2>2. head' \in {head, head + 1} /\ head' - live.head <= LogSize
    BY <1>1, <1>3, <2>1 DEF Latched, Capturing
  <2>3. cstep = "head" => live.head = head
    <3>1. cstep = "head" => live.head <= head /\ live.head = head'
      BY <1>1, <1>3, <2>1 DEF SampleInv, Latched, Capturing
    <3> QED
      BY <1>2, <2>2, <3>1
  <2>4. Latched
    BY <1>1, <1>2, <1>3, <2>1, <2>2, <2>3 DEF Latched
  <2>5. PICK row : row = <<live.bank, live.m>>
    OBVIOUS
  <2>6. PICK from : from = live.head
    OBVIOUS
  <2>7. PICK s : Trace(s, row, from)
    BY <2>4, <2>5, <2>6 DEF LiveInv
  <2>8. \E t : Trace(t, row, from)'
    BY <1>2, <2>1, <2>2, <2>6, <2>7, TraceStep
  <2> QED
    BY <1>1, <2>5, <2>6, <2>8
<1>4. ASSUME Followed'
      PROVE  \E s : Trace(s, <<replay.bank, replay.m>>, replay.tail)'
                    /\ Known(s, replay.ptr, replay.tail)'
  <2>1. gen' = gen /\ Capturing' /\ Capturing /\ replay.gen = gen
    BY <1>1, <1>2, <1>4 DEF Followed, SampleInv
  <2>2. head' \in {head, head + 1} /\ head' - replay.tail <= LogSize
    BY <1>1, <1>4, <2>1 DEF Followed, Capturing
  <2>3. Followed
    BY <1>1, <1>2, <1>4, <2>1, <2>2 DEF Followed
  <2>4. PICK row : row = <<replay.bank, replay.m>>
    OBVIOUS
  <2>5. PICK from : from = replay.tail
    OBVIOUS
  <2>6. PICK ptr : ptr = replay.ptr
    OBVIOUS
  <2>7. PICK s : Trace(s, row, from) /\ Known(s, ptr, from)
    BY <2>3, <2>4, <2>5, <2>6 DEF ReplayInv
  <2>8. \E t : Trace(t, row, from)' /\ Known(t, ptr, from)'
    BY <1>2, <2>1, <2>2, <2>5, <2>7, TraceStep
  <2> QED
    BY <1>1, <2>4, <2>5, <2>6, <2>8
<1> QED
  BY <1>1, <1>3, <1>4 DEF LiveInv, ReplayInv

\* renderFrame samples no head and no generation to come.
LEMMA ConsumerSamples ==
  ASSUME TypeInv, FrameInv, SampleInv, RingInv, Consumer
  PROVE  SampleInv' /\ RingInv'
<1> USE DEF prodVars, histVars
<1>0. /\ gen \in Int /\ head \in Int /\ replay.gen \in Int /\ live.gen \in Int
      /\ replay.tail \in Int /\ live.head \in Int /\ LogSize \in Nat
  BY VICLogAssumption DEF TypeInv, ReplayType, LiveType
<1>1. CASE LatchBegin
  <2>1. live'.gen = gen /\ live'.head = head /\ cstep' = "copy" /\ UNCHANGED <<prodVars, replay>>
    BY <1>1 DEF LatchBegin, TypeInv, LiveType
  <2> QED
    BY <1>0, <2>1 DEF SampleInv, RingInv
<1>2. CASE LatchCopy
  <2>1. live'.gen = live.gen /\ live'.head = live.head /\ cstep = "copy" /\ cstep' = "head"
        /\ UNCHANGED <<prodVars, replay>>
    BY <1>2 DEF LatchCopy, TypeInv, LiveType
  <2> QED
    BY <1>0, <2>1 DEF SampleInv, RingInv
<1>3. CASE LatchHead
  <2>1. live'.gen = live.gen /\ live'.head = head /\ cstep' = "generation"
        /\ UNCHANGED <<prodVars, replay>>
    BY <1>3 DEF LatchHead, TypeInv, LiveType
  <2> QED
    BY <1>0, <2>1 DEF SampleInv, RingInv
<1>4. CASE LatchGeneration
  <2>1. /\ live'.gen = gen /\ live'.head = live.head /\ cstep = "generation"
        /\ live'.settled => live.settled /\ gen = live.gen
        /\ cstep' \in {"scan", "idle"} /\ UNCHANGED <<prodVars, replay, damage>>
    BY <1>4 DEF LatchGeneration, TypeInv, LiveType
  <2> QED
    BY <1>0, <2>1 DEF SampleInv, RingInv
<1>5. CASE Build
  <2>1. \/ replay'.gen = live.gen /\ cstep' = "pages" /\ UNCHANGED live
        \/ cstep' = "idle" /\ live' = NoLatch /\ UNCHANGED replay
        \/ cstep' = "apply" /\ UNCHANGED <<live, replay, damage>>
    BY <1>5 DEF Build, Return, rePrime
  <2>2. cstep = "scan" /\ UNCHANGED prodVars
    BY <1>5 DEF Build
  <2>3. CASE replay'.gen = live.gen /\ cstep' = "pages" /\ UNCHANGED live
    BY <1>0, <2>2, <2>3 DEF SampleInv, RingInv
  <2>4. CASE cstep' = "idle" /\ live' = NoLatch /\ UNCHANGED replay
    <3>1. live'.gen = 0 /\ gen >= 0
      BY <2>4 DEF NoLatch, TypeInv
    <3> QED
      BY <1>0, <2>2, <2>4, <3>1 DEF SampleInv, RingInv
  <2>5. CASE cstep' = "apply" /\ UNCHANGED <<live, replay, damage>>
    BY <1>0, <2>2, <2>5 DEF SampleInv, RingInv
  <2> QED
    BY <2>1, <2>3, <2>4, <2>5
<1>6. CASE Apply
  <2> DEFINE r == ApplyRange(replay, replay.tail, frame.tailAfter)
  <2>1. frame.tailAfter \in Int /\ replay.tail <= frame.tailAfter
    BY <1>0, <1>6 DEF Apply, FrameInv
  <2>2. r.gen = replay.gen /\ r \in ReplayType
    BY <1>0, <2>1, KeepsPrimed DEF TypeInv
  <2> HIDE DEF r
  <2>3. replay'.gen = replay.gen
    BY <1>6, <2>2 DEF Apply, Reseed, ReplayType, r
  <2>4. cstep' = "pages" /\ UNCHANGED <<prodVars, live>>
    BY <1>6 DEF Apply
  <2> QED
    BY <1>0, <2>3, <2>4 DEF SampleInv, RingInv
<1>7. CASE CopyPages
  BY <1>0, <1>7 DEF CopyPages, SampleInv, RingInv
<1>8. CASE CheckGeneration
  <2>1. replay'.gen = replay.gen /\ live'.gen = 0 /\ gen >= 0 /\ cstep' = "idle" /\ UNCHANGED prodVars
    BY <1>8 DEF CheckGeneration, Return, NoLatch, TypeInv, ReplayType
  <2> QED
    BY <1>0, <2>1 DEF SampleInv, RingInv
<1> QED
  BY <1>1, <1>2, <1>3, <1>4, <1>5, <1>6, <1>7, <1>8 DEF Consumer

\* The registers latched at the head belong to it, because a write that is still to be
\* logged only repeats what they show.
LEMMA LatchTrace ==
  ASSUME TypeInv, PendInv
  PROVE  \E s : Trace(s, ActiveRow, head)
<1> DEFINE s == [k \in {head} |-> ActiveRow]
<1>1. head \in Int /\ s[head] = ActiveRow /\ (\A i \in head .. head - 1 : FALSE) /\ head <= head
  BY DEF TypeInv
<1>2. AfterPending(ActiveRow) = ActiveRow
  BY DEF AfterPending, PendInv, RowStep, ActiveRow
<1> HIDE DEF s
<1>3. Rows(s, ActiveRow, head, head)
  BY <1>1 DEF Rows
<1>4. Trace(s, ActiveRow, head)
  BY <1>1, <1>2, <1>3 DEF Trace
<1> QED
  BY <1>4

\* A consumer step that keeps the replay keeps what is known of it.
LEMMA ReplaySame ==
  ASSUME TypeInv, ReplayInv, UNCHANGED prodVars, UNCHANGED damage, replay'.primed => replay.primed,
         replay'.gen = replay.gen, replay'.tail = replay.tail, replay'.ptr = replay.ptr,
         replay'.bank = replay.bank, replay'.m = replay.m
  PROVE  ReplayInv'
<1> SUFFICES ASSUME Followed'
             PROVE  \E s : Trace(s, <<replay.bank, replay.m>>, replay.tail)'
                           /\ Known(s, replay.ptr, replay.tail)'
  BY DEF ReplayInv
<1>1. Followed
  BY DEF Followed, Capturing, prodVars
<1>2. PICK row : row = <<replay.bank, replay.m>>
  OBVIOUS
<1>3. PICK from : from = replay.tail
  OBVIOUS
<1>4. PICK ptr : ptr = replay.ptr
  OBVIOUS
<1>5. PICK s : Trace(s, row, from) /\ Known(s, ptr, from)
  BY <1>1, <1>2, <1>3, <1>4 DEF ReplayInv
<1>6. Trace(s, row, from)' /\ Known(s, ptr, from)'
  BY <1>5, TraceSame DEF prodVars
<1> QED
  BY <1>2, <1>3, <1>4, <1>6

\* The latched registers under a step of renderFrame that keeps them.
LEMMA LiveSame ==
  ASSUME TypeInv, LiveInv, UNCHANGED prodVars, UNCHANGED damage, Latched' => Latched,
         Latched' => live'.bank = live.bank /\ live'.m = live.m /\ live'.head = live.head
  PROVE  LiveInv'
<1> SUFFICES ASSUME Latched' PROVE \E s : Trace(s, <<live.bank, live.m>>, live.head)'
  BY DEF LiveInv
<1>1. PICK row : row = <<live.bank, live.m>>
  OBVIOUS
<1>2. PICK from : from = live.head
  OBVIOUS
<1>3. PICK s : Trace(s, row, from)
  BY <1>1, <1>2 DEF LiveInv
<1>4. Trace(s, row, from)'
  BY <1>3, TraceSame DEF prodVars
<1> QED
  BY <1>1, <1>2, <1>4

\* A again start takes over the latched registers, and the pointer from memory.
LEMMA PrimeTrace ==
  ASSUME TypeInv, LiveInv, UNCHANGED prodVars, cstep = "scan",
         replay' = rePrime(live.head, live.gen),
         damage' = (damage \cap {"astray"}) \cup (IF live.settled THEN {} ELSE {"torn"})
  PROVE  ReplayInv'
<1> SUFFICES ASSUME Followed'
             PROVE  \E s : Trace(s, <<replay.bank, replay.m>>, replay.tail)'
                           /\ Known(s, replay.ptr, replay.tail)'
  BY DEF ReplayInv
<1>1. /\ replay'.gen = live.gen /\ replay'.tail = live.head
      /\ <<replay'.bank, replay'.m>> = <<live.bank, live.m>>
      /\ replay'.ptr = ram[<<live.bank, live.m>>]
  BY DEF rePrime
<1>2. live.settled /\ ("astray" \in damage' <=> "astray" \in damage)
  BY DEF Followed
<1>3. Latched
  BY <1>1, <1>2 DEF Latched, Followed, Capturing, prodVars
<1>4. PICK row : row = <<live.bank, live.m>>
  OBVIOUS
<1>5. PICK from : from = live.head
  OBVIOUS
<1>6. PICK ptr : ptr = ram[row]
  OBVIOUS
<1>7. PICK s : Trace(s, row, from)
  BY <1>3, <1>4, <1>5 DEF LiveInv
<1>8. Known(s, ptr, from)
  <2>1. from \in from .. head /\ s[from] = row
    BY <1>5, <1>7 DEF Trace, Rows, TypeInv, LiveType
  <2> QED
    BY <1>6, <2>1 DEF Known
<1>9. Trace(s, row, from)' /\ Known(s, ptr, from)'
  BY <1>2, <1>7, <1>8, TraceSame DEF prodVars
<1> QED
  BY <1>1, <1>4, <1>5, <1>6, <1>9

\* The replay after its events of from..to-1: the row and the pointer belong to the new
\* tail.
LEMMA ApplyTrace ==
  ASSUME TypeInv, NEW s, NEW r \in ReplayType, NEW from \in Int, NEW to \in Int,
         from <= to, to <= head, NEW a, a = ApplyRange(r, from, to),
         Trace(s, <<r.bank, r.m>>, from), Known(s, r.ptr, from)
  PROVE  /\ a \in ReplayType
         /\ Trace(s, <<a.bank, a.m>>, to)
         /\ a.valid => Known(s, a.ptr, to)
         /\ Known(s, ram[<<a.bank, a.m>>], to)
<1>0. head \in Int
  BY DEF TypeInv
<1>1. Rows(s, <<r.bank, r.m>>, from, to)
  <2>1. \A k \in from .. to - 1 : k \in from .. head - 1
    BY <1>0
  <2> QED
    BY <2>1 DEF Trace, Rows
<1>2. /\ a \in ReplayType
      /\ <<a.bank, a.m>> = s[to]
      /\ a.valid => \A k \in from .. to : s[k] = <<r.bank, r.m>>
      /\ LastOf("ptr", from, to, r.ptr, a.ptr)
  BY <1>1, ApplyRangeFacts
<1>3. Trace(s, <<a.bank, a.m>>, to)
  <2>1. \A k \in to .. head - 1 : k \in from .. head - 1
    BY <1>0
  <2>2. Rows(s, <<a.bank, a.m>>, to, head)
    BY <1>2, <2>1 DEF Trace, Rows
  <2> QED
    BY <1>0, <2>1, <2>2 DEF Trace
<1>4. Known(s, ram[<<a.bank, a.m>>], to)
  <2>1. to \in to .. head
    BY <1>0
  <2> QED
    BY <1>2, <2>1 DEF Known
<1>5. ASSUME a.valid, "astray" \notin damage, ~PtrPending,
             \A i \in to .. head - 1 : rasterEvent(i).reg # "ptr",
             \A k \in to .. head : s[k] = ActiveRow
      PROVE  a.ptr = ram[ActiveRow]
  <2>1. to \in to .. head /\ to \in from .. to
    BY <1>0
  <2>2. <<r.bank, r.m>> = ActiveRow
    BY <1>2, <1>5, <2>1
  <2>3. \A k \in from .. head : k \in from .. to \/ k \in to .. head
    BY <1>0
  <2>4. \A k \in from .. head : s[k] = ActiveRow
    BY <1>2, <1>5, <2>2, <2>3
  <2>5. CASE a.ptr = r.ptr /\ \A i \in from .. to - 1 : rasterEvent(i).reg # "ptr"
    <3>1. \A i \in from .. head - 1 : i \in from .. to - 1 \/ i \in to .. head - 1
      BY <1>0
    <3>2. \A i \in from .. head - 1 : rasterEvent(i).reg # "ptr"
      BY <1>5, <2>5, <3>1
    <3> QED
      BY <1>5, <2>4, <2>5, <3>2 DEF Known
  <2>6. ASSUME NEW i \in from .. to - 1, rasterEvent(i).reg = "ptr", rasterEvent(i).value = a.ptr,
               \A j \in i + 1 .. to - 1 : rasterEvent(j).reg # "ptr"
        PROVE  a.ptr = ram[ActiveRow]
    <3>1. i \in from .. head - 1
      BY <1>0
    <3>2. \A j \in i + 1 .. head - 1 : j \in i + 1 .. to - 1 \/ j \in to .. head - 1
      BY <1>0
    <3>3. \A j \in i + 1 .. head - 1 : rasterEvent(j).reg # "ptr"
      BY <1>5, <2>6, <3>2
    <3>4. \A k \in i .. head : k \in from .. head
      BY <1>0
    <3>5. \A k \in i .. head : s[k] = ActiveRow
      BY <2>4, <3>4
    <3> QED
      BY <1>5, <2>6, <3>1, <3>3, <3>5 DEF Trace
  <2> QED
    BY <1>2, <2>5, <2>6 DEF LastOf
<1> QED
  BY <1>2, <1>3, <1>4, <1>5 DEF Known

\* The second pass over the ring moves the trace to the new tail.
LEMMA ApplyStep ==
  ASSUME TypeInv, FrameInv, RingInv, ReplayInv, Apply
  PROVE  ReplayInv'
<1> SUFFICES ASSUME Followed'
             PROVE  \E s : Trace(s, <<replay.bank, replay.m>>, replay.tail)'
                           /\ Known(s, replay.ptr, replay.tail)'
  BY DEF ReplayInv
<1>1. PICK from : from = replay.tail
  OBVIOUS
<1>2. PICK to : to = frame.tailAfter
  OBVIOUS
<1>3. PICK a : a = ApplyRange(replay, from, to)
  OBVIOUS
<1>4. /\ cstep = "apply" /\ UNCHANGED prodVars /\ UNCHANGED damage /\ replay.primed
      /\ head \in Int /\ live.head \in Int /\ from \in Int /\ to \in from .. live.head
      /\ live.head - from <= LogSize /\ LogSize \in Int
  BY <1>1, <1>2, VICLogAssumption DEF Apply, FrameInv, TypeInv, ReplayType, LiveType, histVars
<1>5. to \in Nat /\ from <= to /\ to <= live.head
  BY <1>1, <1>4 DEF TypeInv, ReplayType
<1>6. a \in ReplayType /\ a.gen = replay.gen
  BY <1>1, <1>3, <1>4, <1>5, KeepsPrimed DEF TypeInv
<1> DEFINE b == [a EXCEPT !.tail = to]
<1>7. /\ b \in ReplayType /\ b.gen = a.gen /\ b.tail = to /\ b.bank = a.bank /\ b.m = a.m
      /\ b.ptr = a.ptr /\ b.valid = a.valid
  BY <1>5, <1>6 DEF ReplayType
<1>8. replay' = Reseed(b)
  BY <1>1, <1>2, <1>3 DEF Apply
<1> HIDE DEF b
<1>9. /\ replay'.gen = replay.gen /\ replay'.tail = to
      /\ <<replay'.bank, replay'.m>> = <<a.bank, a.m>>
      /\ replay'.ptr = IF a.valid THEN a.ptr ELSE ram[<<a.bank, a.m>>]
  BY <1>6, <1>7, <1>8 DEF Reseed, ReplayType
<1>10. replay.gen = gen /\ Capturing /\ rstep = "idle" /\ "overrun" \notin damage
       /\ "torn" \notin damage /\ head - to <= LogSize
  BY <1>4, <1>9 DEF Followed, Capturing, prodVars
<1>11. live.head <= head
  BY <1>4, <1>10 DEF RingInv
<1>12. head - from <= LogSize
  <2>1. CASE from < live.head
    BY <1>1, <1>4, <1>10, <2>1 DEF RingInv
  <2>2. CASE ~(from < live.head)
    BY <1>4, <1>10, <2>2
  <2> QED
    BY <2>1, <2>2
<1>13. Followed
  BY <1>1, <1>4, <1>10, <1>12 DEF Followed
<1>14. PICK s : Trace(s, <<replay.bank, replay.m>>, from) /\ Known(s, replay.ptr, from)
  BY <1>1, <1>13 DEF ReplayInv
<1>15. PICK row : row = <<a.bank, a.m>>
  OBVIOUS
<1>16. PICK ptr : ptr = IF a.valid THEN a.ptr ELSE ram[<<a.bank, a.m>>]
  OBVIOUS
<1>17. to <= head /\ replay \in ReplayType
  BY <1>4, <1>5, <1>11 DEF TypeInv
<1>18. Trace(s, row, to) /\ Known(s, ptr, to)
  <2>1. /\ Trace(s, <<a.bank, a.m>>, to)
        /\ a.valid => Known(s, a.ptr, to)
        /\ Known(s, ram[<<a.bank, a.m>>], to)
    BY <1>3, <1>4, <1>5, <1>14, <1>17, ApplyTrace
  <2> QED
    BY <1>15, <1>16, <2>1
<1>19. Trace(s, row, to)' /\ Known(s, ptr, to)'
  BY <1>4, <1>18, TraceSame DEF prodVars
<1> QED
  BY <1>9, <1>15, <1>16, <1>19

\* What is latched or replayed keeps or gains its trace under renderFrame.
LEMMA ConsumerTraces ==
  ASSUME TypeInv, FrameInv, PendInv, RingInv, LiveInv, ReplayInv, Consumer
  PROVE  LiveInv' /\ ReplayInv'
<1> USE DEF histVars
<1>1. CASE LatchBegin
  <2>1. cstep' = "copy" /\ UNCHANGED <<prodVars, replay, damage>>
    BY <1>1 DEF LatchBegin
  <2> QED
    BY <2>1, ReplaySame DEF LiveInv, Latched
<1>2. CASE LatchCopy
  <2>1. cstep' = "head" /\ UNCHANGED <<prodVars, replay, damage>>
        /\ <<live'.bank, live'.m>> = ActiveRow /\ live'.head = live.head
    BY <1>2 DEF LatchCopy, ActiveRow, TypeInv, LiveType
  <2>2. ASSUME Latched' PROVE (\E s : Trace(s, <<live.bank, live.m>>, live.head))'
    <3>1. live'.head = head
      BY <2>1, <2>2 DEF Latched, prodVars
    <3>2. PICK row : row = ActiveRow
      OBVIOUS
    <3>3. PICK from : from = head
      OBVIOUS
    <3>4. PICK s : Trace(s, row, from)
      BY <3>2, <3>3, LatchTrace
    <3>5. Trace(s, row, from)'
      BY <2>1, <3>4, TraceSame DEF prodVars
    <3> QED
      BY <2>1, <3>1, <3>2, <3>3, <3>5
  <2> QED
    BY <2>1, <2>2, ReplaySame DEF LiveInv
<1>3. CASE LatchHead
  <2>1. /\ cstep = "head" /\ cstep' = "generation" /\ UNCHANGED <<prodVars, replay, damage>>
        /\ live'.bank = live.bank /\ live'.m = live.m /\ live'.gen = live.gen
        /\ live'.head = head /\ (live'.settled => head = live.head)
    BY <1>3 DEF LatchHead, TypeInv, LiveType
  <2>2. Latched' => Latched /\ live'.head = live.head
    BY <2>1 DEF Latched, Capturing, prodVars
  <2> QED
    BY <2>1, <2>2, ReplaySame, LiveSame
<1>4. CASE LatchGeneration
  <2>1. /\ cstep = "generation" /\ cstep' \in {"scan", "idle"}
        /\ UNCHANGED <<prodVars, replay, damage>>
        /\ live'.bank = live.bank /\ live'.m = live.m /\ live'.head = live.head
        /\ live'.settled => live.settled /\ gen = live.gen
    BY <1>4 DEF LatchGeneration, TypeInv, LiveType
  <2>2. Latched' => Latched
    BY <2>1 DEF Latched, Capturing, prodVars
  <2> QED
    BY <2>1, <2>2, ReplaySame, LiveSame
<1>5. CASE Build
  <2>1. cstep = "scan" /\ UNCHANGED prodVars
    BY <1>5 DEF Build
  <2>2. \/ /\ replay' = rePrime(live.head, live.gen) /\ cstep' = "pages"
           /\ damage' = (damage \cap {"astray"}) \cup (IF live.settled THEN {} ELSE {"torn"})
        \/ cstep' \in {"idle", "apply"} /\ UNCHANGED <<replay, damage>>
    BY <1>5 DEF Build, Return
  <2>3. LiveInv'
    BY <2>2 DEF LiveInv, Latched
  <2>4. ReplayInv'
    BY <2>1, <2>2, PrimeTrace, ReplaySame
  <2> QED
    BY <2>3, <2>4
<1>6. CASE Apply
  <2>1. LiveInv'
    BY <1>6 DEF Apply, LiveInv, Latched
  <2> QED
    BY <1>6, <2>1, ApplyStep
<1>7. CASE CopyPages
  <2>1. cstep' = "check" /\ UNCHANGED <<prodVars, replay, damage>>
    BY <1>7 DEF CopyPages
  <2> QED
    BY <2>1, ReplaySame DEF LiveInv, Latched
<1>8. CASE CheckGeneration
  <2>1. /\ cstep' = "idle" /\ UNCHANGED <<prodVars, damage>> /\ replay.primed
        /\ replay'.gen = replay.gen /\ replay'.tail = replay.tail /\ replay'.ptr = replay.ptr
        /\ replay'.bank = replay.bank /\ replay'.m = replay.m
    BY <1>8 DEF CheckGeneration, Return, FrameInv, TypeInv, ReplayType
  <2> QED
    BY <2>1, ReplaySame DEF LiveInv, Latched
<1> QED
  BY <1>1, <1>2, <1>3, <1>4, <1>5, <1>6, <1>7, <1>8 DEF Consumer

\* The invariant holds in every reachable state.
LEMMA VICInvHolds == Spec => []VICInv
<1>1. Init => VICInv
  <2> SUFFICES ASSUME Init PROVE VICInv
    OBVIOUS
  <2>1. TypeInv /\ FrameInv
    BY InitTypes
  <2>2. PendInv /\ LiveInv /\ ReplayInv /\ RingInv
    BY DEF Init, PendInv, LiveInv, Latched, ReplayInv, Followed, RingInv, Unprimed
  <2>3. SampleInv
    BY DEF Init, SampleInv, Unprimed, NoLatch
  <2> QED
    BY <2>1, <2>2, <2>3 DEF VICInv
<1>2. VICInv /\ [Next]_vars => VICInv'
  <2> SUFFICES ASSUME VICInv, [Next]_vars PROVE VICInv'
    OBVIOUS
  <2> USE DEF VICInv
  <2>1. CASE Producer
    <3>1. TypeInv' /\ FrameInv'
      BY <2>1, ProducerTypes
    <3> QED
      BY <2>1, <3>1, PendStep, ProducerSamples, ProducerTraces DEF Next
  <2>2. CASE Consumer
    <3>1. TypeInv' /\ FrameInv'
      BY <2>2, ConsumerTypes
    <3> QED
      BY <2>2, <3>1, PendStep, ConsumerSamples, ConsumerTraces DEF Next
  <2>3. CASE UNCHANGED vars
    <3>1. UNCHANGED prodVars /\ UNCHANGED damage /\ UNCHANGED replay /\ UNCHANGED live
          /\ UNCHANGED cstep /\ UNCHANGED frame
      BY <2>3 DEF vars, consVars, histVars
    <3>2. TypeInv' /\ FrameInv'
      BY <3>1 DEF TypeInv, FrameInv, prodVars
    <3>3. PendInv' /\ SampleInv' /\ RingInv'
      BY <3>1 DEF PendInv, SampleInv, RingInv, prodVars, ActiveRow
    <3>4. Latched' => Latched
      BY <3>1 DEF Latched, Capturing, prodVars
    <3> QED
      BY <3>1, <3>2, <3>3, <3>4, ReplaySame, LiveSame
  <2> QED
    BY <2>1, <2>2, <2>3 DEF Next
<1> QED
  BY <1>1, <1>2, PTL DEF Spec

\* Once core 1 has taken every event of the log, what CVICRasterReplay has
\* replayed is what the guest sees: matrix, bank and sprite pointer, whatever
\* write8, a reset or a switch of capture did between renderFrame's samples.
THEOREM ReplayTrue == Spec => []ReplayTruth
<1>1. VICInv => ReplayTruth
  <2> SUFFICES ASSUME VICInv, ProducerFree, enabled, replay.primed, replay.gen = gen,
                      replay.tail = head, damage = {}
               PROVE  /\ replay.m = shadow
                      /\ replay.bank = activeVICBank(latch)
                      /\ ptrBase = <<replay.bank, replay.m>> => replay.ptr = ram[ptrBase]
    BY DEF ReplayTruth
  <2>1. head \in Int /\ LogSize \in Nat /\ pending = None
    BY VICLogAssumption DEF VICInv, TypeInv, ProducerFree
  <2>2. Followed
    BY <2>1 DEF Followed, Capturing, ProducerFree
  <2>3. PICK s : Trace(s, <<replay.bank, replay.m>>, head) /\ Known(s, replay.ptr, head)
    BY <2>2 DEF VICInv, ReplayInv
  <2>4. s[head] = <<replay.bank, replay.m>> /\ s[head] = ActiveRow
    BY <2>1, <2>3 DEF Trace, Rows, AfterPending
  <2>5. replay.ptr = ram[ActiveRow]
    <3>1. \A k \in head .. head : k = head
      BY <2>1
    <3>2. \A i \in head .. head - 1 : FALSE
      BY <2>1
    <3> QED
      BY <2>1, <2>3, <2>4, <3>1, <3>2 DEF Known, PtrPending
  <2> QED
    BY <2>4, <2>5 DEF ActiveRow
<1> QED
  BY <1>1, VICInvHolds, PTL

-----------------------------------------------------------------------------
(* One epoch.                                                               *)

\* The steps of core 0 and of core 1 keep the epochs apart.
LEMMA EpochStep ==
  ASSUME TypeInv, FrameInv, SampleInv, EpochInv, [Next]_vars
  PROVE  EpochInv'
<1> DEFINE Epochs == [regs : Int, ram : Int, latched : Int, replay : Int, drawn : Int,
                      pages : Int, crossed : BOOLEAN]
<1>0. /\ gen \in Int /\ live.gen \in Int /\ live.before \in Int /\ replay.gen \in Int
      /\ live.gen <= gen /\ replay.gen <= gen /\ gen >= 0
      /\ epochs \in Epochs /\ live \in LiveType /\ replay \in ReplayType
  BY DEF TypeInv, LiveType, ReplayType, SampleInv, EpochInv, EpochsApart
<1>18. ASSUME epochs' = [epochs EXCEPT !.latched = 0, !.drawn = 0, !.pages = 0]
       PROVE  /\ epochs' \in Epochs /\ epochs'.regs = epochs.regs /\ epochs'.ram = epochs.ram
              /\ epochs'.replay = epochs.replay /\ epochs'.crossed = epochs.crossed
  <2> DEFINE a == [epochs EXCEPT !.latched = 0]
             b == [a EXCEPT !.drawn = 0]
             c == [b EXCEPT !.pages = 0]
  <2>1. epochs' = c
    BY <1>18, Zenon
  <2>2. a \in Epochs /\ a.regs = epochs.regs /\ a.ram = epochs.ram
        /\ a.replay = epochs.replay /\ a.crossed = epochs.crossed
    BY <1>0
  <2> HIDE DEF a
  <2>3. b \in Epochs /\ b.regs = a.regs /\ b.ram = a.ram /\ b.replay = a.replay
        /\ b.crossed = a.crossed
    BY <2>2
  <2> HIDE DEF b
  <2>4. c \in Epochs /\ c.regs = b.regs /\ c.ram = b.ram /\ c.replay = b.replay
        /\ c.crossed = b.crossed
    BY <2>3
  <2> HIDE DEF c
  <2> QED
    BY <2>1, <2>2, <2>3, <2>4
<1> USE DEF EpochInv, EpochsApart, SampleOrder, EpochsSeen, Quiet
<1>1. CASE UNCHANGED <<rstep, epochs, cstep, live, replay, gen>>
  BY <1>1
<1>2. CASE ResetShadow
  <2>1. rstep = "idle" /\ rstep' = "shadow" /\ epochs' = [epochs EXCEPT !.regs = @ + 1]
        /\ UNCHANGED <<cstep, live, replay>>
    BY <1>2 DEF ResetShadow, ProducerFree, consVars
  <2> QED
    BY <1>0, <2>1
<1>3. CASE ResetHead
  BY <1>0, <1>3 DEF ResetHead, histVars, consVars
<1>4. CASE ResetRAM
  <2>1. rstep = "head" /\ rstep' = "ram" /\ epochs' = [epochs EXCEPT !.ram = @ + 1]
        /\ UNCHANGED <<cstep, live, replay>>
    BY <1>4 DEF ResetRAM, consVars
  <2> QED
    BY <1>0, <2>1
<1>5. CASE ResetPublish \/ EnablePublish
  <2>1. /\ rstep \in {"ram", "enable"} /\ rstep' = "idle" /\ gen' = gen + 1
        /\ UNCHANGED <<epochs, live, replay, cstep>>
    BY <1>5 DEF ResetPublish, EnablePublish, histVars, consVars
  <2> QED
    BY <1>0, <2>1
<1>6. CASE EnableVICLog
  BY <1>0, <1>6 DEF EnableVICLog, ProducerFree, histVars, consVars
<1>7. CASE LatchBegin
  <2>1. /\ live'.before = gen /\ live'.gen = gen /\ cstep' = "copy"
        /\ UNCHANGED <<rstep, gen, epochs, replay>>
    BY <1>0, <1>7 DEF LatchBegin, LiveType, prodVars, histVars
  <2> QED
    BY <1>0, <2>1
<1>8. CASE LatchCopy
  <2>1. /\ live'.before = live.before /\ live'.gen = live.gen
        /\ cstep = "copy" /\ cstep' = "head" /\ epochs' = [epochs EXCEPT !.latched = epochs.regs]
        /\ UNCHANGED <<rstep, gen, replay>>
    BY <1>0, <1>8 DEF LatchCopy, LiveType, prodVars
  <2> QED
    BY <1>0, <2>1
<1>9. CASE LatchHead
  <2>1. /\ live'.before = live.before /\ live'.gen = live.gen
        /\ cstep = "head" /\ cstep' = "generation" /\ UNCHANGED <<rstep, gen, replay, epochs>>
    BY <1>0, <1>9 DEF LatchHead, LiveType, prodVars, histVars
  <2> QED
    BY <1>0, <2>1
<1>10. CASE LatchGeneration
  <2>1. /\ live'.before = live.before /\ live'.gen = gen
        /\ cstep = "generation" /\ cstep' \in {"scan", "idle"}
        /\ UNCHANGED <<rstep, gen, replay, epochs>>
    BY <1>0, <1>10 DEF LatchGeneration, LiveType, prodVars, histVars
  <2> QED
    BY <1>0, <2>1
<1>11. CASE Build
  <2>1. cstep = "scan" /\ UNCHANGED <<rstep, gen>>
    BY <1>11 DEF Build, prodVars
  <2>2. CASE /\ replay' = rePrime(live.head, live.gen) /\ cstep' = "pages" /\ UNCHANGED live
             /\ epochs' = [epochs EXCEPT !.replay = epochs.latched, !.drawn = epochs.latched,
                                         !.crossed = live.before # live.gen]
    <3>1. replay'.gen = live.gen
      BY <2>2 DEF rePrime
    <3>2. /\ epochs' \in Epochs /\ epochs'.regs = epochs.regs /\ epochs'.ram = epochs.ram
          /\ epochs'.replay = epochs.latched /\ epochs'.drawn = epochs.latched
          /\ ~epochs'.crossed => live.before = live.gen
      <4>1. (live.before # live.gen) \in BOOLEAN
        BY Zenon
      <4> QED
        BY <1>0, <2>2, <4>1
    <3> QED
      BY <1>0, <2>1, <2>2, <3>1, <3>2
  <2>3. CASE Return /\ UNCHANGED replay
    <3>1. live'.before = 0 /\ live'.gen = 0 /\ cstep' = "idle"
      BY <2>3 DEF Return, NoLatch
    <3>2. /\ epochs' \in Epochs /\ epochs'.regs = epochs.regs /\ epochs'.ram = epochs.ram
          /\ epochs'.replay = epochs.replay /\ epochs'.crossed = epochs.crossed
      BY <1>18, <2>3 DEF Return
    <3> QED
      BY <1>0, <2>1, <2>3, <3>1, <3>2
  <2>4. CASE live.gen = replay.gen /\ cstep' = "apply" /\ UNCHANGED <<replay, live, epochs>>
    BY <1>0, <2>1, <2>4
  <2> QED
    BY <1>11, <2>2, <2>3, <2>4 DEF Build
<1>12. CASE Apply
  <2> DEFINE r == ApplyRange(replay, replay.tail, frame.tailAfter)
  <2>1. frame.tailAfter \in Int /\ replay.tail \in Int /\ replay.tail <= frame.tailAfter
        /\ replay.primed
    BY <1>12 DEF Apply, FrameInv, TypeInv, ReplayType, LiveType
  <2>2. r.gen = replay.gen /\ r.primed = replay.primed /\ r \in ReplayType
    BY <1>0, <2>1, KeepsPrimed
  <2> HIDE DEF r
  <2>3. replay'.gen = replay.gen /\ replay'.primed = replay.primed
    BY <1>12, <2>2 DEF Apply, Reseed, ReplayType, r
  <2>4. cstep = "apply" /\ cstep' = "pages" /\ UNCHANGED <<rstep, gen, live>>
    BY <1>12 DEF Apply, prodVars
  <2>5. PICK drawn \in {epochs.replay, epochs.latched} : epochs' = [epochs EXCEPT !.drawn = drawn]
    BY <1>12 DEF Apply
  <2>6. /\ epochs' \in Epochs /\ epochs'.regs = epochs.regs /\ epochs'.ram = epochs.ram
        /\ epochs'.replay = epochs.replay /\ epochs'.crossed = epochs.crossed
        /\ epochs'.drawn \in {epochs.replay, epochs.latched}
    BY <1>0, <2>5
  <2>7. ASSUME Quiet, live.gen = gen, ~epochs.crossed PROVE epochs'.drawn = epochs.regs
    BY <1>0, <2>1, <2>4, <2>6, <2>7
  <2> QED
    BY <1>0, <2>1, <2>3, <2>4, <2>6, <2>7
<1>13. CASE CopyPages
  <2>1. /\ cstep = "pages" /\ cstep' = "check" /\ UNCHANGED <<rstep, gen, live, replay>>
        /\ epochs' = [epochs EXCEPT !.pages = epochs.ram]
    BY <1>13 DEF CopyPages, prodVars
  <2> QED
    BY <1>0, <2>1
<1>14. CASE CheckGeneration
  <2>1. live'.before = 0 /\ live'.gen = 0 /\ cstep' = "idle" /\ UNCHANGED <<rstep, gen>>
    BY <1>14 DEF CheckGeneration, Return, NoLatch, prodVars
  <2>2. /\ epochs' \in Epochs /\ epochs'.regs = epochs.regs /\ epochs'.ram = epochs.ram
        /\ epochs'.replay = epochs.replay /\ epochs'.crossed = epochs.crossed
    BY <1>18, <1>14 DEF CheckGeneration, Return
  <2>3. replay'.gen = replay.gen /\ (replay'.primed => gen = live.gen)
    BY <1>0, <1>14 DEF CheckGeneration, ReplayType
  <2>4. cstep = "check"
    BY <1>14 DEF CheckGeneration
  <2>5. replay.primed
    BY <2>4 DEF FrameInv
  <2> QED
    BY <1>0, <2>1, <2>2, <2>3, <2>5
<1>15. CASE Tick \/ noteRasterCoarse \/ appendVICLog \/ WriteCompare \/ DisableVICLog
  BY <1>1, <1>15 DEF Tick, noteRasterCoarse, appendVICLog, WriteCompare, DisableVICLog, consVars, histVars
<1>16. CASE (\E m \in Matrices : WriteD018(m)) \/ (\E b \in Banks : WriteDD00(b))
            \/ (\E at \in Bases, v \in PtrValues : WritePointer(at, v))
  BY <1>1, <1>16 DEF WriteD018, WriteDD00, WritePointer, consVars
<1>17. CASE UNCHANGED vars
  BY <1>1, <1>17 DEF vars, prodVars, consVars, histVars
<1> QED
  BY <1>2, <1>3, <1>4, <1>5, <1>6, <1>7, <1>8, <1>9, <1>10, <1>11, <1>12, <1>13, <1>14, <1>15,
     <1>16, <1>17 DEF Next, Producer, Consumer

\* The epochs are kept apart in every reachable state.
LEMMA EpochInvHolds == Spec => []EpochInv
<1>1. Init => EpochInv
  BY DEF Init, EpochInv, EpochsApart, SampleOrder, EpochsSeen, Quiet, NoLatch, Unprimed
<1>2. VICInv /\ EpochInv /\ [Next]_vars => EpochInv'
  BY EpochStep DEF VICInv
<1> QED
  BY <1>1, <1>2, VICInvHolds, PTL DEF Spec

\* A frame of two epochs is shown by renderFrame only while a reset is running,
\* or after its replay was primed from a copy that a new generation crossed.
THEOREM MixedOnlyAroundReset == Spec => MixedFramesExplained
<1>1. ASSUME VICInv, EpochInv, [Next]_vars, Presented, ~ResetRunning, ~epochs.crossed
      PROVE  epochs.drawn = epochs.pages
  <2>1. CheckGeneration
    BY <1>1 DEF Presented, Next, Producer, Consumer, Tick, appendVICLog, WriteCompare,
       noteRasterCoarse, WriteD018, WriteDD00, WritePointer, ResetShadow, ResetHead, ResetRAM,
       ResetPublish, DisableVICLog, EnableVICLog, EnablePublish, LatchBegin, LatchCopy,
       LatchHead, LatchGeneration, Build, Apply, CopyPages, vars, consVars
  <2>2. gen = live.gen /\ cstep = "check"
    BY <1>1, <2>1 DEF CheckGeneration, Presented, VICInv, TypeInv, ReplayType
  <2>3. Quiet
    BY <1>1 DEF EpochInv, EpochsApart, Quiet, ResetRunning
  <2> QED
    BY <1>1, <2>2, <2>3 DEF EpochInv, EpochsApart, EpochsSeen, Quiet
<1>2. VICInv /\ EpochInv /\ [Next]_vars
      => [Presented /\ epochs.drawn # epochs.pages => ResetRunning \/ epochs.crossed]_vars
  BY <1>1
<1> QED
  BY <1>2, VICInvHolds, EpochInvHolds, PTL DEF Spec, MixedFramesExplained

-----------------------------------------------------------------------------
(* Rows.                                                                    *)

\* A function that never falls from one index to the next never falls.
LEMMA NeverFalls ==
  ASSUME NEW f, NEW from \in Int, NEW end \in Int,
         \A i \in from .. end - 1 : f[i] \in Int,
         \A i \in from + 1 .. end - 1 : f[i - 1] <= f[i]
  PROVE  \A i, j \in from .. end - 1 : i <= j => f[i] <= f[j]
<1> SUFFICES ASSUME NEW i \in from .. end - 1
             PROVE  \A j \in from .. end - 1 : i <= j => f[i] <= f[j]
  OBVIOUS
<1> DEFINE G == {n \in Nat : i + n <= end - 1 => f[i] <= f[i + n]}
<1>1. 0 \in G
  BY i + 0 = i
<1>2. ASSUME NEW n \in Nat, n \in G PROVE n + 1 \in G
  <2> SUFFICES ASSUME i + (n + 1) <= end - 1 PROVE f[i] <= f[i + (n + 1)]
    OBVIOUS
  <2>1. /\ i + n \in from .. end - 1 /\ i + (n + 1) \in from + 1 .. end - 1
        /\ i + (n + 1) \in from .. end - 1 /\ (i + (n + 1)) - 1 = i + n
    OBVIOUS
  <2>2. f[i] <= f[i + n] /\ f[i + n] <= f[i + (n + 1)]
    BY <1>2, <2>1
  <2>3. f[i] \in Int /\ f[i + n] \in Int /\ f[i + (n + 1)] \in Int
    BY <2>1
  <2> QED
    BY <2>2, <2>3
<1>3. Nat \subseteq G
  <2> HIDE DEF G
  <2> QED
    BY <1>1, <1>2, SetInduction
<1>4. ASSUME NEW j \in from .. end - 1, i <= j PROVE f[i] <= f[j]
  <2>1. j - i \in Nat /\ i + (j - i) = j
    BY <1>4
  <2>2. j - i \in G
    BY <1>3, <2>1
  <2> QED
    BY <2>1, <2>2
<1> QED
  BY <1>4

\* The split above a place is the nearest one.
LEMMA AboveFacts ==
  ASSUME NEW S \in SUBSET Nat, NEW i \in Nat
  PROVE  /\ Above(S, i) = -1 \/ (Above(S, i) \in S /\ Above(S, i) < i)
         /\ \A j \in S : j < i => j <= Above(S, i)
<1> DEFINE T == {-1} \cup {j \in S : j < i}
           m == Max(T)
<1>1. T \in SUBSET Int /\ T # {} /\ (\A x \in T : x <= i) /\ i \in Int
  <2>1. \A x \in T : x \in Int /\ x <= i
    OBVIOUS
  <2>2. -1 \in T
    OBVIOUS
  <2> HIDE DEF T
  <2> QED
    BY <2>1, <2>2
<1>2. m \in T /\ \A x \in T : x <= m
  <2> HIDE DEF T
  <2> QED
    BY <1>1, GreatestOf
<1>3. Above(S, i) = m
  BY DEF Above
<1> HIDE DEF m
<1> QED
  BY <1>2, <1>3

\* Splits, in terms of SplitRow.
LEMMA SplitsAre ==
  ASSUME NEW from \in Nat, NEW end \in Nat
  PROVE  Splits(from, end) =
           {i \in from .. end - 1 : \A j \in {-1} \cup (from .. i - 1) : SplitRow(i) > SplitRow(j)}
<1>1. ASSUME NEW i \in from .. end - 1
      PROVE  (\A j \in {-1} \cup (from .. i - 1) :
                rowOfEvent(rasterEvent(i), anchor) >
                  IF j = -1 THEN 0 ELSE rowOfEvent(rasterEvent(j), anchor))
             <=> \A j \in {-1} \cup (from .. i - 1) : SplitRow(i) > SplitRow(j)
  <2>1. i # -1
    OBVIOUS
  <2> QED
    BY <2>1 DEF SplitRow
<1> QED
  BY <1>1 DEF Splits

RowsRise(from, end) ==
  /\ \A i \in from .. end - 1 : SplitRow(i) \in 0 .. FrameRows
  /\ \A i, j \in from .. end - 1 : i <= j => SplitRow(i) <= SplitRow(j)

\* One band shows row r, and the events it has applied are those before the
\* first one that is further down.
OneBand(tail, from, end, r) ==
  \E c \in from .. end :
    /\ \A i \in from .. c - 1 : SplitRow(i) <= r
    /\ \A i \in c .. end - 1 : SplitRow(i) > r
    /\ \E b : /\ b.applyEnd = c
              /\ {x \in Bands(tail, from, end) :
                    r \in x.firstRow .. x.firstRow + x.rowCount - 1} = {b}

\* Where the rows of the events never fall, every row of the picture is in one
\* band, and that band ends before the first event that is further down.
LEMMA BandFacts ==
  ASSUME NEW tail \in Nat, NEW from \in Nat, NEW end \in Nat, from <= end,
         RowsRise(from, end), NEW r \in 0 .. FrameRows - 1
  PROVE  OneBand(tail, from, end, r)
<1> USE DEF RowsRise, OneBand
<1> DEFINE S == Splits(from, end)
           D == {x \in Bands(tail, from, end) :
                   r \in x.firstRow .. x.firstRow + x.rowCount - 1}
           Of(i) == Band(SplitRow(Above(S, i)), SplitRow(i), SplitAt(tail, Above(S, i)), i)
           last == Above(S, end)
           Foot == Band(SplitRow(last), FrameRows, SplitAt(tail, last), end)
<1>0. FrameRows \in Nat
  BY VICLogAssumption
<1>1. /\ S = {i \in from .. end - 1 : \A j \in {-1} \cup (from .. i - 1) : SplitRow(i) > SplitRow(j)}
      /\ S \in SUBSET Nat
  BY SplitsAre
<1>2. Bands(tail, from, end) = {Of(i) : i \in S} \cup (IF SplitRow(last) < FrameRows THEN {Foot} ELSE {})
  BY Zenon DEF Bands
<1>3. SplitRow(-1) = 0
  BY DEF SplitRow
<1>4. \A i \in S : i \in from .. end - 1 /\ SplitRow(i) \in 0 .. FrameRows
  BY <1>1
<1>5. ASSUME NEW i \in Nat
      PROVE  /\ Above(S, i) = -1 \/ (Above(S, i) \in S /\ Above(S, i) < i)
             /\ \A j \in S : j < i => j <= Above(S, i)
             /\ SplitRow(Above(S, i)) \in 0 .. FrameRows
  <2>1. /\ Above(S, i) = -1 \/ (Above(S, i) \in S /\ Above(S, i) < i)
        /\ \A j \in S : j < i => j <= Above(S, i)
    BY <1>1, AboveFacts
  <2> HIDE DEF S
  <2> QED
    BY <1>0, <1>3, <1>4, <2>1
<1>6. ASSUME NEW a \in 0 .. FrameRows, NEW z \in 0 .. FrameRows, NEW x, NEW y
      PROVE  /\ r \in Band(a, z, x, y).firstRow
                        .. Band(a, z, x, y).firstRow + Band(a, z, x, y).rowCount - 1
                <=> a <= r /\ r < z
             /\ Band(a, z, x, y).applyEnd = y
  BY <1>0 DEF Band
<1> HIDE DEF S
<1>7. \A i \in S : r \in Of(i).firstRow .. Of(i).firstRow + Of(i).rowCount - 1
                   <=> SplitRow(Above(S, i)) <= r /\ r < SplitRow(i)
  <2> TAKE i \in S
  <2>1. i \in Nat
    BY <1>1
  <2> QED
    BY <1>4, <1>5, <1>6, <2>1
<1>8. (r \in Foot.firstRow .. Foot.firstRow + Foot.rowCount - 1) <=> SplitRow(last) <= r
  BY <1>0, <1>5, <1>6
<1>9. CASE \A i \in from .. end - 1 : SplitRow(i) <= r
  <2>1. \A i \in S : ~(r < SplitRow(i))
    BY <1>4, <1>9
  <2>2. SplitRow(last) <= r /\ SplitRow(last) < FrameRows
    <3>1. SplitRow(last) <= r
      BY <1>3, <1>4, <1>5, <1>9
    <3> QED
      BY <1>0, <1>5, <3>1
  <2> HIDE DEF Of, Foot, last
  <2>3. D = {Foot}
    BY <1>2, <1>7, <1>8, <2>1, <2>2
  <2>4. Foot.applyEnd = end
    BY DEF Foot, Band
  <2>5. end \in from .. end /\ \A i \in end .. end - 1 : FALSE
    OBVIOUS
  <2> QED
    BY <1>9, <2>3, <2>4, <2>5
<1>10. CASE \E i \in from .. end - 1 : SplitRow(i) > r
  <2> DEFINE W == {i \in from .. end - 1 : SplitRow(i) > r}
  <2>1. W \in SUBSET Nat /\ W # {}
    BY <1>10
  <2>2. PICK c \in W : \A i \in W : c <= i
    BY <2>1, LeastOf
  <2>3. c \in from .. end - 1 /\ c \in from .. end /\ c \in Nat /\ SplitRow(c) > r
        /\ SplitRow(c) \in 0 .. FrameRows
    BY <2>2
  <2>4. \A i \in from .. c - 1 : SplitRow(i) <= r
    <3> TAKE i \in from .. c - 1
    <3>1. i \in from .. end - 1 /\ ~(i \in W)
      BY <2>2, <2>3
    <3> QED
      BY <1>0, <3>1
  <2>5. \A i \in c .. end - 1 : SplitRow(i) > r
    <3> TAKE i \in c .. end - 1
    <3>1. i \in from .. end - 1 /\ c <= i
      BY <2>3
    <3>2. SplitRow(c) <= SplitRow(i) /\ SplitRow(i) \in 0 .. FrameRows
      BY <2>3, <3>1
    <3> QED
      BY <1>0, <2>3, <3>2
  <2>6. c \in S
    <3>1. ASSUME NEW j \in {-1} \cup (from .. c - 1) PROVE SplitRow(c) > SplitRow(j)
      <4>1. CASE j = -1
        BY <1>0, <1>3, <2>3, <4>1
      <4>2. CASE j \in from .. c - 1
        <5>1. j \in from .. end - 1 /\ SplitRow(j) <= r /\ SplitRow(j) \in 0 .. FrameRows
          BY <2>3, <2>4, <4>2
        <5> QED
          BY <1>0, <2>3, <5>1
      <4> QED
        BY <4>1, <4>2
    <3> QED
      BY <1>1, <2>3, <3>1
  <2>7. \A i \in Nat : i > c /\ i <= end => SplitRow(Above(S, i)) > r
    <3> SUFFICES ASSUME NEW i \in Nat, i > c, i <= end PROVE SplitRow(Above(S, i)) > r
      OBVIOUS
    <3>1. PICK p : p = Above(S, i)
      OBVIOUS
    <3>2. (p = -1 \/ (p \in S /\ p < i)) /\ c <= p
      BY <1>5, <2>3, <2>6, <3>1
    <3>3. p \in c .. end - 1
      BY <1>4, <2>3, <3>2
    <3> QED
      BY <2>5, <3>1, <3>3
  <2>8. SplitRow(Above(S, c)) <= r
    <3>1. PICK p : p = Above(S, c)
      OBVIOUS
    <3>2. p = -1 \/ (p \in S /\ p < c)
      BY <1>5, <2>3, <3>1
    <3>3. p = -1 \/ p \in from .. c - 1
      BY <1>4, <2>3, <3>2
    <3> QED
      BY <1>3, <2>4, <3>1, <3>3
  <2>9. ASSUME NEW i \in S, SplitRow(Above(S, i)) <= r, r < SplitRow(i) PROVE i = c
    <3>1. i \in W /\ i \in Nat /\ i <= end
      BY <1>0, <1>4, <2>9
    <3>2. c <= i
      BY <2>2, <3>1
    <3>3. ~(SplitRow(Above(S, i)) > r)
      BY <1>0, <1>5, <2>9, <3>1
    <3> QED
      BY <2>3, <2>7, <3>1, <3>2, <3>3
  <2>10. ~(SplitRow(last) <= r)
    <3>1. SplitRow(last) > r /\ SplitRow(last) \in 0 .. FrameRows
      BY <1>5, <2>3, <2>7
    <3> QED
      BY <1>0, <3>1
  <2> HIDE DEF Of, Foot, last, W
  <2>11. Of(c) \in D
    BY <1>0, <1>2, <1>7, <2>3, <2>6, <2>8
  <2>12. ASSUME NEW x \in D PROVE x = Of(c)
    <3>1. CASE x = Foot
      BY <1>8, <2>10, <2>12, <3>1
    <3>2. CASE \E i \in S : x = Of(i)
      BY <1>7, <2>9, <2>12, <3>2
    <3> QED
      BY <1>2, <2>12, <3>1, <3>2
  <2> HIDE DEF D
  <2>13. D = {Of(c)}
    BY <2>11, <2>12
  <2>14. Of(c).applyEnd = c
    BY DEF Of, Band
  <2> QED
    BY <2>3, <2>4, <2>5, <2>13, <2>14 DEF D
<1>11. \A i \in from .. end - 1 : SplitRow(i) <= r \/ SplitRow(i) > r
  BY <1>0
<1> QED
  BY <1>9, <1>10, <1>11

\* A replayed timeline draws the events between two frame starts, none of which
\* opens a frame of its own.
LEMMA TimelineFrames ==
  ASSUME NEW tail \in Nat, NEW to \in Nat, tail < to, Timeline(tail, to).result = "replay"
  PROVE  /\ \A i \in tail .. to - 1 : lineOfEvent(rasterEvent(i), anchor) # None
         /\ \E from \in tail .. to, end \in tail .. to :
              /\ from <= end
              /\ Timeline(tail, to).drawStart = from
              /\ Timeline(tail, to).tailAfter = end
              /\ Timeline(tail, to).bands = Bands(tail, from, end)
              /\ \A i \in from + 1 .. end - 1 : i \notin FrameStarts(tail, to)
<1> DEFINE starts == FrameStarts(tail, to)
           frameStart == Max(starts \cup {tail})
           previousStart == Max({tail} \cup (starts \ {frameStart}))
           newest == rasterEvent(to - 1).cycle
           stale == clock < newest \/ clock - newest > (FrameCycles * 3) \div 2
           Replayed(from, end) ==
             [result |-> "replay", drawStart |-> from, tailAfter |-> end,
              bands |-> Bands(tail, from, end)]
           Kept(x) == [result |-> x, drawStart |-> tail, tailAfter |-> tail, bands |-> {}]
           known == ~ \E i \in tail .. to - 1 : lineOfEvent(rasterEvent(i), anchor) = None
<1>1. Timeline(tail, to) = IF to = tail
                           THEN [Kept("replay") EXCEPT !.bands = {Band(0, FrameRows, tail, tail)}]
                           ELSE IF ~known THEN Kept("snapshot")
                           ELSE IF stale THEN Replayed(frameStart, to)
                           ELSE IF frameStart # tail THEN Replayed(previousStart, frameStart)
                           ELSE Kept("hold")
  BY Zenon DEF Timeline
<1>2. \A x \in starts : x \in tail + 1 .. to - 1
  BY DEF FrameStarts
<1>3. frameStart \in starts \cup {tail} /\ \A x \in starts \cup {tail} : x <= frameStart
  <2>1. starts \cup {tail} \in SUBSET Int /\ starts \cup {tail} # {}
        /\ (\A x \in starts \cup {tail} : x <= to) /\ to \in Int
    BY <1>2
  <2> HIDE DEF starts
  <2> QED
    BY <2>1, GreatestOf
<1> HIDE DEF starts, frameStart
<1>4. /\ previousStart \in {tail} \cup (starts \ {frameStart})
      /\ \A x \in {tail} \cup (starts \ {frameStart}) : x <= previousStart
  <2>1. {tail} \cup (starts \ {frameStart}) \in SUBSET Int
        /\ {tail} \cup (starts \ {frameStart}) # {}
        /\ (\A x \in {tail} \cup (starts \ {frameStart}) : x <= to) /\ to \in Int
    BY <1>2
  <2> QED
    BY <2>1, GreatestOf
<1> HIDE DEF previousStart, stale
<1>5. frameStart \in tail .. to /\ previousStart \in tail .. to /\ previousStart <= frameStart
  <2>1. frameStart \in tail .. to
    BY <1>2, <1>3
  <2>2. previousStart \in tail .. to
    BY <1>2, <1>4
  <2>3. previousStart \in starts \cup {tail}
    BY <1>4
  <2> QED
    BY <1>3, <2>1, <2>2, <2>3
<1>6. \A i \in frameStart + 1 .. to - 1 : i \notin starts
  BY <1>3, <1>5
<1>7. \A i \in previousStart + 1 .. frameStart - 1 : i \notin starts
  BY <1>4, <1>5
<1> HIDE DEF known
<1>8. known
  BY <1>1
<1>9. \/ Timeline(tail, to) = Replayed(frameStart, to)
      \/ Timeline(tail, to) = Replayed(previousStart, frameStart)
  BY <1>1, <1>8
<1>10. to \in tail .. to
  OBVIOUS
<1>11. CASE Timeline(tail, to) = Replayed(frameStart, to)
  <2>1. /\ Timeline(tail, to).drawStart = frameStart /\ Timeline(tail, to).tailAfter = to
        /\ Timeline(tail, to).bands = Bands(tail, frameStart, to) /\ frameStart <= to
    BY <1>5, <1>11
  <2> QED
    BY <1>5, <1>6, <1>8, <1>10, <2>1 DEF starts, known
<1>12. CASE Timeline(tail, to) = Replayed(previousStart, frameStart)
  <2>1. /\ Timeline(tail, to).drawStart = previousStart
        /\ Timeline(tail, to).tailAfter = frameStart
        /\ Timeline(tail, to).bands = Bands(tail, previousStart, frameStart)
    BY <1>12
  <2> QED
    BY <1>5, <1>7, <1>8, <2>1 DEF starts, known
<1> QED
  BY <1>9, <1>11, <1>12

\* A line that is known is a number.
LEMMA LineType ==
  ASSUME TypeInv, NEW i \in Int, lineOfEvent(rasterEvent(i), anchor) # None
  PROVE  lineOfEvent(rasterEvent(i), anchor) \in Int
<1>1. PICK e : e = rasterEvent(i)
  OBVIOUS
<1>2. e \in EventType /\ RasterLines \in Nat \ {0} /\ CyclesPerLine \in Nat \ {0}
  BY <1>1, EventFacts, VICLogAssumption
<1>3. e.cycle \in Int /\ (e.line # None => e.line \in Int)
  BY <1>2 DEF EventType
<1>4. CASE e.line # None
  BY <1>1, <1>2, <1>3, <1>4 DEF lineOfEvent
<1>5. CASE e.line = None
  <2>1. anchor # None /\ lineOfEvent(e, anchor) = (anchor.line + ((e.cycle - anchor.cycle) \div CyclesPerLine)) % RasterLines
    BY <1>1, <1>5 DEF lineOfEvent, lineOfCycle
  <2>2. anchor.line \in Int /\ anchor.cycle \in Int
    BY <2>1 DEF TypeInv, AnchorType
  <2> QED
    BY <1>1, <1>2, <1>3, <2>1, <2>2
<1> QED
  BY <1>4, <1>5

\* The row of an event of the picture that moves no pointer is the beam's, down
\* to the foot.
LEMMA RowFacts ==
  ASSUME TypeInv, NEW i \in Nat, lineOfEvent(rasterEvent(i), anchor) # None,
         rasterEvent(i).reg # "ptr", BeamRow(rasterEvent(i)) # -1
  PROVE  /\ lineOfEvent(rasterEvent(i), anchor) >= TopRaster
         /\ BeamRow(rasterEvent(i)) = lineOfEvent(rasterEvent(i), anchor) - TopRaster
         /\ SplitRow(i) = IF BeamRow(rasterEvent(i)) > FrameRows THEN FrameRows
                          ELSE BeamRow(rasterEvent(i))
<1>1. PICK l : l = lineOfEvent(rasterEvent(i), anchor)
  OBVIOUS
<1>2. l \in Int /\ TopRaster \in Int /\ FrameRows \in Int /\ RasterLines \in Int /\ i # -1
  BY <1>1, LineType, VICLogAssumption
<1>3. l >= TopRaster /\ BeamRow(rasterEvent(i)) = l - TopRaster
  BY <1>1, <1>2 DEF BeamRow
<1>4. SplitRow(i) = IF l - TopRaster > FrameRows THEN FrameRows ELSE l - TopRaster
  BY <1>1, <1>2, <1>3 DEF SplitRow, rowOfEvent
<1> QED
  BY <1>1, <1>3, <1>4

\* The matrix after a replay is that of its last $D018 event.
LEMMA LastMatrix ==
  ASSUME TypeInv, NEW r \in ReplayType, NEW from \in Int, NEW to \in Int, from <= to
  PROVE  LastOf("d018", from, to, r.m, ApplyRange(r, from, to).m)
<1> DEFINE n == to - from
<1>1. PICK f : Applies(f, r, from, n)
  BY AppliesExists
<1> DEFINE s == [k \in from .. to |-> <<f[k - from].bank, f[k - from].m>>]
<1>2. Rows(s, <<r.bank, r.m>>, from, to)
  <2>1. s[from] = <<r.bank, r.m>>
    BY <1>1 DEF Applies
  <2>2. ASSUME NEW k \in from .. to - 1 PROVE s[k + 1] = RowStep(s[k], rasterEvent(k))
    <3>1. PICK l : l = k - from
      OBVIOUS
    <3>2. l \in 0 .. n - 1 /\ l \in 0 .. n /\ l + 1 \in 0 .. n /\ from + l = k /\ (k + 1) - from = l + 1
      BY <3>1
    <3>3. f[l] \in ReplayType /\ f[l + 1] = applyEvent(f[l], rasterEvent(k))
      BY <1>1, <3>2 DEF Applies
    <3>4. rasterEvent(k) \in EventType
      BY EventFacts
    <3>5. <<f[l + 1].bank, f[l + 1].m>> = RowStep(<<f[l].bank, f[l].m>>, rasterEvent(k))
      BY <3>3, <3>4, ApplyFacts
    <3>6. s[k] = <<f[l].bank, f[l].m>> /\ s[k + 1] = <<f[l + 1].bank, f[l + 1].m>>
      BY <3>1, <3>2
    <3> QED
      BY <3>5, <3>6
  <2> HIDE DEF s
  <2> QED
    BY <2>1, <2>2 DEF Rows
<1> HIDE DEF s
<1> QED
  BY <1>2, ApplyRangeFacts

\* The value the last of a set of events carries.
LEMMA LastIsGreatest ==
  ASSUME NEW kind, NEW from \in Int, NEW to \in Int, NEW before, NEW v,
         LastOf(kind, from, to, before, v), NEW S,
         S = {i \in from .. to - 1 : rasterEvent(i).reg = kind}
  PROVE  v = IF S = {} THEN before ELSE rasterEvent(Max(S)).value
<1>1. CASE v = before /\ \A i \in from .. to - 1 : rasterEvent(i).reg # kind
  BY <1>1
<1>2. ASSUME NEW i \in from .. to - 1, rasterEvent(i).reg = kind, rasterEvent(i).value = v,
             \A j \in i + 1 .. to - 1 : rasterEvent(j).reg # kind
      PROVE  v = IF S = {} THEN before ELSE rasterEvent(Max(S)).value
  <2>1. i \in S /\ S \in SUBSET Int /\ \A x \in S : x <= i
    <3>1. ASSUME NEW x \in S PROVE x <= i
      <4>1. x \in from .. to - 1 /\ x \notin i + 1 .. to - 1
        BY <1>2
      <4> QED
        BY <4>1
    <3> QED
      BY <1>2, <3>1
  <2>2. Max(S) \in S /\ \A x \in S : x <= Max(S)
    BY <2>1, GreatestOf
  <2>3. Max(S) = i
    BY <2>1, <2>2
  <2> QED
    BY <1>2, <2>1, <2>3
<1> QED
  BY <1>1, <1>2 DEF LastOf

\* One row of a frame with events.
LEMMA RowDrawn ==
  ASSUME TypeInv, NEW to \in Nat, replay.tail < to, NEW f, f = Timeline(replay.tail, to),
         f.result = "replay",
         \A i \in f.drawStart .. f.tailAfter - 1 :
           rasterEvent(i).reg # "ptr" /\ BeamRow(rasterEvent(i)) # -1,
         NEW r \in 0 .. FrameRows - 1
  PROVE  \E b : /\ {x \in f.bands : r \in x.firstRow .. x.firstRow + x.rowCount - 1} = {b}
                /\ ApplyRange(replay, replay.tail, b.applyEnd).m = BeamMatrix(f, r)
<1>1. PICK tail \in Nat : tail = replay.tail
  BY DEF TypeInv, ReplayType
<1>2. \A i \in tail .. to - 1 : lineOfEvent(rasterEvent(i), anchor) # None
  BY <1>1, TimelineFrames
<1>3. PICK from \in tail .. to, end \in tail .. to :
        /\ from <= end /\ f.drawStart = from /\ f.tailAfter = end
        /\ f.bands = Bands(tail, from, end)
        /\ \A i \in from + 1 .. end - 1 : i \notin FrameStarts(tail, to)
  BY <1>1, TimelineFrames
<1>4. from \in Nat /\ end \in Nat /\ tail <= from /\ end <= to /\ FrameRows \in Nat /\ TopRaster \in Int
      /\ from \in Int /\ end \in Int
  BY <1>1, <1>3, VICLogAssumption
<1> DEFINE L == [i \in from .. end - 1 |-> lineOfEvent(rasterEvent(i), anchor)]
<1>5. ASSUME NEW i \in from .. end - 1
      PROVE  /\ i \in Nat /\ L[i] \in Int /\ L[i] >= TopRaster /\ L[i] = lineOfEvent(rasterEvent(i), anchor)
             /\ BeamRow(rasterEvent(i)) = L[i] - TopRaster
             /\ SplitRow(i) = IF L[i] - TopRaster > FrameRows THEN FrameRows ELSE L[i] - TopRaster
  <2>1. i \in Nat /\ i \in tail .. to - 1 /\ i \in Int
    BY <1>4
  <2>2. rasterEvent(i).reg # "ptr" /\ BeamRow(rasterEvent(i)) # -1
    BY <1>3
  <2>3. lineOfEvent(rasterEvent(i), anchor) # None
    BY <1>2, <2>1
  <2>4. lineOfEvent(rasterEvent(i), anchor) \in Int
    BY <2>1, <2>3, LineType
  <2> QED
    BY <2>1, <2>2, <2>3, <2>4, RowFacts
<1>6. ASSUME NEW i \in from + 1 .. end - 1 PROVE L[i - 1] <= L[i]
  <2>1. i \in tail + 1 .. to - 1 /\ i \in from .. end - 1 /\ i - 1 \in from .. end - 1
    BY <1>4
  <2>2. ~(lineOfEvent(rasterEvent(i), anchor) < lineOfEvent(rasterEvent(i - 1), anchor))
    BY <1>3, <2>1 DEF FrameStarts
  <2>3. L[i] = lineOfEvent(rasterEvent(i), anchor) /\ L[i - 1] = lineOfEvent(rasterEvent(i - 1), anchor)
        /\ L[i] \in Int /\ L[i - 1] \in Int
    BY <1>5, <2>1
  <2> QED
    BY <2>2, <2>3
<1> HIDE DEF L
<1>7. \A i, j \in from .. end - 1 : i <= j => L[i] <= L[j]
  BY <1>4, <1>5, <1>6, NeverFalls
<1>8. \A i \in from .. end - 1 : SplitRow(i) \in 0 .. FrameRows
  BY <1>4, <1>5
<1>9. \A i, j \in from .. end - 1 : i <= j => SplitRow(i) <= SplitRow(j)
  <2> TAKE i, j \in from .. end - 1
  <2>1. i <= j => L[i] <= L[j]
    BY <1>7
  <2> QED
    BY <1>4, <1>5, <2>1
<1>10. PICK c \in from .. end :
         /\ \A i \in from .. c - 1 : SplitRow(i) <= r
         /\ \A i \in c .. end - 1 : SplitRow(i) > r
         /\ \E b : /\ b.applyEnd = c
                   /\ {x \in Bands(tail, from, end) :
                         r \in x.firstRow .. x.firstRow + x.rowCount - 1} = {b}
  <2>1. from <= end
    BY <1>3
  <2>2. RowsRise(from, end)
    BY <1>8, <1>9 DEF RowsRise
  <2>3. OneBand(tail, from, end, r)
    BY <1>4, <2>1, <2>2, BandFacts
  <2> QED
    BY <2>3 DEF OneBand
<1>11. PICK b : /\ b.applyEnd = c
                /\ {x \in f.bands : r \in x.firstRow .. x.firstRow + x.rowCount - 1} = {b}
  BY <1>3, <1>10
<1>12. ASSUME NEW i \in from .. end - 1 PROVE BeamRow(rasterEvent(i)) <= r <=> i < c
  <2>1. SplitRow(i) <= r <=> BeamRow(rasterEvent(i)) <= r
    BY <1>4, <1>5
  <2>2. CASE i < c
    BY <1>4, <1>10, <2>1, <2>2
  <2>3. CASE ~(i < c)
    <3>1. i \in c .. end - 1
      BY <1>4, <2>3
    <3>2. SplitRow(i) > r /\ SplitRow(i) \in Int
      BY <1>8, <1>10, <3>1
    <3> QED
      BY <1>4, <2>1, <2>3, <3>2
  <2> QED
    BY <2>2, <2>3
<1> DEFINE seen == {i \in replay.tail .. f.tailAfter - 1 :
                      /\ rasterEvent(i).reg = "d018"
                      /\ i < f.drawStart \/ BeamRow(rasterEvent(i)) <= r}
           Z == {i \in tail .. c - 1 : rasterEvent(i).reg = "d018"}
<1>13. seen = Z
  <2>1. ASSUME NEW i \in tail .. end - 1
        PROVE  (i < from \/ BeamRow(rasterEvent(i)) <= r) <=> i \in tail .. c - 1
    <3>1. CASE i < from
      BY <1>4, <3>1
    <3>2. CASE ~(i < from)
      <4>1. i \in from .. end - 1
        BY <1>4, <3>2
      <4> QED
        BY <1>4, <1>12, <3>2, <4>1
    <3> QED
      BY <3>1, <3>2
  <2>2. \A i \in tail .. c - 1 : i \in tail .. end - 1
    BY <1>4
  <2> QED
    BY <1>1, <1>3, <2>1, <2>2
<1>14. BeamMatrix(f, r) = IF Z = {} THEN replay.m ELSE rasterEvent(Max(Z)).value
  <2>1. BeamMatrix(f, r) = IF seen = {} THEN replay.m ELSE rasterEvent(Max(seen)).value
    BY Zenon DEF BeamMatrix
  <2> HIDE DEF seen, Z
  <2> QED
    BY <1>13, <2>1
<1>15. LastOf("d018", tail, c, replay.m, ApplyRange(replay, tail, c).m)
  <2>1. replay \in ReplayType /\ tail \in Int /\ c \in Int /\ tail <= c
    BY <1>4 DEF TypeInv
  <2> QED
    BY <2>1, LastMatrix
<1>16. ApplyRange(replay, tail, c).m = IF Z = {} THEN replay.m ELSE rasterEvent(Max(Z)).value
  <2>1. tail \in Int /\ c \in Int
    BY <1>4
  <2> QED
    BY <1>15, <2>1, LastIsGreatest
<1> QED
  BY <1>1, <1>11, <1>14, <1>16

\* One row of a frame without events.
LEMMA QuietRow ==
  ASSUME TypeInv, NEW f, f = Timeline(replay.tail, replay.tail), NEW r \in 0 .. FrameRows - 1
  PROVE  \E b : /\ {x \in f.bands : r \in x.firstRow .. x.firstRow + x.rowCount - 1} = {b}
                /\ ApplyRange(replay, replay.tail, b.applyEnd).m = BeamMatrix(f, r)
<1>1. PICK tail \in Nat : tail = replay.tail
  BY DEF TypeInv, ReplayType
<1> DEFINE b == Band(0, FrameRows, tail, tail)
<1>2. f.bands = {b} /\ f.tailAfter = tail
  BY <1>1 DEF Timeline
<1>3. b.firstRow = 0 /\ b.rowCount = FrameRows /\ b.applyEnd = tail /\ FrameRows \in Nat
  BY VICLogAssumption DEF Band
<1> HIDE DEF b
<1>4. r \in b.firstRow .. b.firstRow + b.rowCount - 1
  BY <1>3
<1>5. {x \in f.bands : r \in x.firstRow .. x.firstRow + x.rowCount - 1} = {b}
  BY <1>2, <1>4
<1>6. \A i \in tail .. tail - 1 : FALSE
  OBVIOUS
<1>7. LastOf("d018", tail, tail, replay.m, ApplyRange(replay, tail, tail).m)
  BY LastMatrix DEF TypeInv
<1>8. ApplyRange(replay, tail, tail).m = replay.m
  BY <1>6, <1>7 DEF LastOf
<1>9. BeamMatrix(f, r) = replay.m
  BY <1>1, <1>2, <1>6 DEF BeamMatrix
<1> QED
  BY <1>1, <1>3, <1>5, <1>8, <1>9

\* Every row of a replayed frame is in one band of CVICRasterTimeline::build, and
\* drawn with the matrix the beam saw there.
THEOREM RowsTrue == Spec => RowsShowBeamState
<1> DEFINE Plain == \A e \in DrawnEvents(frame') : e.reg # "ptr" /\ BeamRow(e) # -1
<1>1. ASSUME TypeInv, [Next]_vars, FrameBuilt, Plain
      PROVE  RowsShown(frame')
  <2>0. cstep = "scan" /\ cstep' = "apply"
    BY <1>1 DEF FrameBuilt
  <2>1. Build
    BY <1>1, <2>0 DEF Next, Producer, Consumer, Tick, appendVICLog, WriteCompare,
       noteRasterCoarse, WriteD018, WriteDD00, WritePointer, ResetShadow, ResetHead, ResetRAM,
       ResetPublish, DisableVICLog, EnableVICLog, EnablePublish, LatchBegin, LatchCopy,
       LatchHead, LatchGeneration, Apply, CopyPages, CheckGeneration, vars, consVars
  <2>2. PICK f : f = frame'
    OBVIOUS
  <2>3. PICK to : to = live.head
    OBVIOUS
  <2>4. f = Timeline(replay.tail, to) /\ f.result = "replay" /\ ~Lost
    BY <1>1, <2>0, <2>1, <2>2, <2>3 DEF Build, Return
  <2>5. to \in Nat /\ replay.tail \in Nat /\ ~(to < replay.tail)
    BY <1>1, <2>3, <2>4 DEF Lost, TypeInv, LiveType, ReplayType
  <2>6. \A i \in f.drawStart .. f.tailAfter - 1 :
          rasterEvent(i).reg # "ptr" /\ BeamRow(rasterEvent(i)) # -1
    BY <1>1, <2>2 DEF DrawnEvents
  <2>7. ASSUME NEW r \in 0 .. FrameRows - 1
        PROVE  \E b : /\ {x \in f.bands : r \in x.firstRow .. x.firstRow + x.rowCount - 1} = {b}
                      /\ ApplyRange(replay, replay.tail, b.applyEnd).m = BeamMatrix(f, r)
    <3>1. CASE replay.tail < to
      BY <1>1, <2>4, <2>5, <2>6, <3>1, RowDrawn
    <3>2. CASE to = replay.tail
      BY <1>1, <2>4, <3>2, QuietRow
    <3> QED
      BY <2>5, <3>1, <3>2
  <2>8. RowsShown(f)
    <3> SUFFICES ASSUME NEW r \in 0 .. FrameRows - 1
                 PROVE  LET drawn == {b \in f.bands :
                                        r \in b.firstRow .. b.firstRow + b.rowCount - 1}
                        IN /\ Cardinality(drawn) = 1
                           /\ \A b \in drawn :
                                ApplyRange(replay, replay.tail, b.applyEnd).m = BeamMatrix(f, r)
      BY DEF RowsShown
    <3> DEFINE drawn == {b \in f.bands : r \in b.firstRow .. b.firstRow + b.rowCount - 1}
    <3>1. PICK b : drawn = {b} /\ ApplyRange(replay, replay.tail, b.applyEnd).m = BeamMatrix(f, r)
      BY <2>7
    <3>2. Cardinality(drawn) = 1
      BY <3>1, FS_Singleton
    <3> HIDE DEF drawn
    <3>3. \A x \in drawn : ApplyRange(replay, replay.tail, x.applyEnd).m = BeamMatrix(f, r)
      BY <3>1
    <3> QED
      BY <3>2, <3>3 DEF drawn
  <2> QED
    BY <2>2, <2>8
<1>2. TypeInv /\ [Next]_vars => [FrameBuilt /\ Plain => RowsShown(frame')]_vars
  <2> HIDE DEF Plain
  <2> QED
    BY <1>1
<1>3. VICInv => TypeInv
  BY DEF VICInv
<1> QED
  BY <1>2, <1>3, VICInvHolds, PTL DEF Spec, RowsShowBeamState

-----------------------------------------------------------------------------
(* VideoSwitch.                                                             *)

\* m_PictureParked is set only while core 1 is outside a frame, and a core that
\* has loaded a stale m_PictureEnabled has been overtaken by the hook, which then
\* waits for core 1's store.
ParkInv ==
    /\ parked => pc \in {"top", "parking", "asleep", "waking"}
    /\ pc = "waking" /\ ~pictureEnabled => hooked

\* HDMI owns the picture, or is about to, only by an accepted transition.
AcceptInv == exclusive \/ transition # "none" => accepted

IInv == TypeOK /\ ModeAgrees /\ ParkInv /\ AcceptInv

-----------------------------------------------------------------------------
\* Every action of the guest, the hook and core 1 keeps the types.
LEMMA TypeStep ==
  ASSUME TypeOK, [SwitchNext]_switchVars PROVE TypeOK'
<1> USE DEF TypeOK
<1>1. CASE Guest
  <2> USE DEF hookVars, sharedVars, core1Vars, historyVars
  <2>1. ASSUME NEW v \in {"knock", "vic", "hdmi", "other"}, WriteVideo(v) PROVE TypeOK'
    <3>1. knock' \in BOOLEAN /\ request' \in BOOLEAN
      BY <2>1, Zenon DEF WriteVideo
    <3> QED
      BY <2>1, <3>1 DEF WriteVideo
  <2>2. CASE ReadVideo
    <3>1. knock' \in BOOLEAN
      BY <2>2, Zenon DEF ReadVideo
    <3> QED
      BY <2>2, <3>1 DEF ReadVideo
  <2>3. CASE SerialBusChanges
    BY <2>3 DEF SerialBusChanges
  <2>4. CASE Reset
    <3>1. request' \in BOOLEAN /\ knock' \in BOOLEAN /\ iec' \in BOOLEAN /\ newEpoch' \in BOOLEAN
      BY <2>4, Zenon DEF Reset
    <3> QED
      BY <2>4, <3>1 DEF Reset
  <2> QED
    BY <1>1, <2>1, <2>2, <2>3, <2>4 DEF Guest
<1>2. CASE UpdateVideoSelection
  <2> USE DEF Hook, SwitchLogOn, SwitchLogOff, guestVars, historyVars
  <2>1. Ticked \in 0..DebounceFrames /\ 0 \in 0..DebounceFrames
    BY DebounceAssumption DEF Ticked
  <2>2. CASE AcceptHDMI
    BY <2>1, <2>2 DEF AcceptHDMI
  <2>3. CASE AcceptVIC
    BY <2>1, <2>3, ZenonT(30) DEF AcceptVIC
  <2>4. CASE CancelHDMI
    <3>1. pictureEnabled' \in BOOLEAN /\ log' \in BOOLEAN
      BY <2>4, Zenon DEF CancelHDMI
    <3> QED
      BY <2>1, <2>4, <3>1 DEF CancelHDMI
  <2>5. CASE CancelVIC
    BY <2>1, <2>5 DEF CancelVIC
  <2>6. CASE CompleteHDMI
    BY <2>1, <2>6, ZenonT(30) DEF CompleteHDMI
  <2>7. CASE CompleteVIC
    BY <2>1, <2>7 DEF CompleteVIC
  <2>8. CASE HookWaits
    BY <2>1, <2>8 DEF HookWaits
  <2> QED
    BY <1>2, <2>2, <2>3, <2>4, <2>5, <2>6, <2>7, <2>8 DEF UpdateVideoSelection
<1>3. CASE Core1
  <2> USE DEF Core1Leaves, guestVars, hookVars
  <2>1. CASE LoadEnabled
    <3>1. hooked' \in BOOLEAN
      BY <2>1, Zenon DEF LoadEnabled
    <3> QED
      BY <2>1, <3>1 DEF LoadEnabled
  <2>2. CASE Park
    BY <2>2 DEF Park
  <2>3. CASE FrameOver
    BY <2>3 DEF FrameOver
  <2>4. CASE Unpark
    <3>1. parked' \in BOOLEAN
      BY <2>4, Zenon DEF Unpark
    <3> QED
      BY <2>4, <3>1 DEF Unpark
  <2>5. ASSUME NEW held \in BOOLEAN, Sample(held) PROVE TypeOK'
    <3>1. newEpoch' \in BOOLEAN /\ sampledAfter' \in BOOLEAN
      BY <2>5, Zenon DEF Sample
    <3> QED
      BY <2>5, <3>1 DEF Sample
  <2>6. CASE Snapshot
    BY <2>6 DEF Snapshot
  <2>7. CASE Present
    BY <2>7 DEF Present
  <2> QED
    BY <1>3, <2>1, <2>2, <2>3, <2>4, <2>5, <2>6, <2>7 DEF Core1
<1>4. CASE UNCHANGED switchVars
  BY <1>4 DEF switchVars, guestVars, hookVars, sharedVars, core1Vars, historyVars
<1> QED
  BY <1>1, <1>2, <1>3, <1>4 DEF SwitchNext

\* Only the hook moves what ModeAgrees speaks of.
LEMMA ModeStep == ASSUME TypeOK, ModeAgrees, AcceptInv, [SwitchNext]_switchVars PROVE ModeAgrees'
<1> USE DEF TypeOK, ModeAgrees, AcceptInv
<1>1. CASE Guest
  BY <1>1 DEF Guest, WriteVideo, ReadVideo, SerialBusChanges, Reset, hookVars, sharedVars,
              core1Vars, historyVars
<1>2. CASE UpdateVideoSelection
  <2> USE DEF Hook, SwitchLogOn, SwitchLogOff, historyVars
  <2>1. CASE AcceptHDMI
    BY <2>1 DEF AcceptHDMI
  <2>2. CASE AcceptVIC
    BY <2>2 DEF AcceptVIC
  <2>3. CASE CancelHDMI
    BY <2>3 DEF CancelHDMI
  <2>4. CASE CancelVIC
    BY <2>4 DEF CancelVIC
  <2>5. CASE CompleteHDMI
    BY <2>5 DEF CompleteHDMI
  <2>6. CASE CompleteVIC
    BY <2>6 DEF CompleteVIC
  <2>7. CASE HookWaits
    BY <2>7 DEF HookWaits
  <2> QED
    BY <1>2, <2>1, <2>2, <2>3, <2>4, <2>5, <2>6, <2>7 DEF UpdateVideoSelection
<1>3. CASE Core1
  BY <1>3 DEF Core1, LoadEnabled, Park, FrameOver, Unpark, Sample, Snapshot, Present,
              Core1Leaves, guestVars, hookVars
<1>4. CASE UNCHANGED switchVars
  BY <1>4 DEF switchVars, guestVars, hookVars, sharedVars, core1Vars, historyVars
<1> QED
  BY <1>1, <1>2, <1>3, <1>4 DEF SwitchNext

\* Core 1 sets and clears m_PictureParked in step with its frames.
LEMMA ParkStep == ASSUME TypeOK, ParkInv, [SwitchNext]_switchVars PROVE ParkInv'
<1> USE DEF TypeOK, ParkInv
<1>1. CASE Guest
  BY <1>1 DEF Guest, WriteVideo, ReadVideo, SerialBusChanges, Reset, hookVars, sharedVars,
              core1Vars, historyVars
<1>2. CASE UpdateVideoSelection
  BY <1>2 DEF UpdateVideoSelection, AcceptHDMI, AcceptVIC, CancelHDMI, CancelVIC,
              CompleteHDMI, CompleteVIC, HookWaits, Hook
<1>3. CASE Core1
  BY <1>3 DEF Core1, LoadEnabled, Park, FrameOver, Unpark, Sample, Snapshot, Present,
              Core1Leaves
<1>4. CASE UNCHANGED switchVars
  BY <1>4 DEF switchVars, sharedVars, core1Vars
<1> QED
  BY <1>1, <1>2, <1>3, <1>4 DEF SwitchNext

\* The history of acceptances follows the hook.
LEMMA AcceptStep == ASSUME TypeOK, AcceptInv, [SwitchNext]_switchVars PROVE AcceptInv'
<1> USE DEF TypeOK, AcceptInv
<1>1. CASE Guest
  BY <1>1 DEF Guest, WriteVideo, ReadVideo, SerialBusChanges, Reset, hookVars, historyVars
<1>2. CASE UpdateVideoSelection
  BY <1>2 DEF UpdateVideoSelection, AcceptHDMI, AcceptVIC, CancelHDMI, CancelVIC,
              CompleteHDMI, CompleteVIC, HookWaits, historyVars
<1>3. CASE Core1
  BY <1>3 DEF Core1, LoadEnabled, Park, FrameOver, Unpark, Sample, Snapshot, Present,
              Core1Leaves, hookVars
<1>4. CASE UNCHANGED switchVars
  BY <1>4 DEF switchVars, hookVars, historyVars
<1> QED
  BY <1>1, <1>2, <1>3, <1>4 DEF SwitchNext

\* The inductive invariant holds from power-on, through every switch.
LEMMA Invariance == SwitchSpec => []IInv
<1>1. SwitchInit => IInv
  <2> SUFFICES ASSUME SwitchInit PROVE IInv
    OBVIOUS
  <2>1. DebounceFrames \in 0..DebounceFrames
    BY DebounceAssumption
  <2>2. TypeOK
    BY <2>1, Zenon DEF SwitchInit, TypeOK
  <2>3. ModeAgrees /\ ParkInv /\ AcceptInv
    BY DEF SwitchInit, ModeAgrees, ParkInv, AcceptInv
  <2> QED
    BY <2>2, <2>3 DEF IInv
<1>2. IInv /\ [SwitchNext]_switchVars => IInv'
  BY TypeStep, ModeStep, ParkStep, AcceptStep DEF IInv
<1> QED
  BY <1>1, <1>2, PTL DEF SwitchSpec

-----------------------------------------------------------------------------
\* Core 1, the log and the mirror agree with the mode in every reachable state of
\* scpuUpdateVideoSelection and CHDMIDisplay::run, whatever the debounce.
THEOREM ModeCorrect == SwitchSpec => []ModeAgrees
<1>1. IInv => ModeAgrees
  BY DEF IInv
<1> QED
  BY Invariance, <1>1, PTL

\* The mirror never resumes while core 1 is in a frame or about to begin one: the
\* hook that sees m_PictureParked set cannot be looking at a stale value.
THEOREM QuietHandover == SwitchSpec => MirrorResumesQuietly
<1> DEFINE ResumesQuietly == ~delivery /\ delivery' => ~pictureEnabled /\ pc \in {"top", "parking", "asleep"}
<1>1. ASSUME IInv, [SwitchNext]_switchVars PROVE [ResumesQuietly]_switchVars
  <2>1. ASSUME ~delivery, delivery' PROVE CompleteVIC
    <3> USE <1>1, <2>1 DEF IInv, TypeOK
    <3>1. ~Guest /\ ~Core1 /\ ~UNCHANGED switchVars
      BY DEF Guest, WriteVideo, ReadVideo, SerialBusChanges, Reset, Core1, LoadEnabled,
             Park, FrameOver, Unpark, Sample, Snapshot, Present, Core1Leaves, hookVars, switchVars
    <3>2. UpdateVideoSelection
      BY <3>1 DEF SwitchNext
    <3> QED
      BY <3>2 DEF UpdateVideoSelection, AcceptHDMI, AcceptVIC, CancelHDMI, CancelVIC,
                  CompleteHDMI, HookWaits
  <2>2. ASSUME CompleteVIC PROVE ~pictureEnabled /\ pc \in {"top", "parking", "asleep"}
    BY <1>1, <2>2 DEF IInv, ModeAgrees, ParkInv, CompleteVIC, Hook
  <2> QED
    BY <2>1, <2>2
<1> QED
  BY Invariance, <1>1, PTL DEF MirrorResumesQuietly, SwitchSpec
=============================================================================
