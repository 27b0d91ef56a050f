------------------------- MODULE PythonVersionProofs -------------------------
(***************************************************************************)
(* Proofs about PythonVersion, for all versions and constraints: the       *)
(* comparison sort.Slice is given is an order, that of PEP 440, and        *)
(* ResolveVersion finds the highest release that counts.                   *)
(***************************************************************************)
EXTENDS PythonVersion, PEP440, FiniteSetTheorems, TLAPS

Signs == {-1, 0, 1}

(* The fields of a parsed version that are compared. *)
IsVersion(v) ==
    /\ v.epoch \in Nat /\ v.release \in Seq(Nat)
    /\ v.hasPre \in BOOLEAN /\ v.preKind \in Nat /\ v.preNum \in Nat
    /\ v.hasPost \in BOOLEAN /\ v.postNum \in Nat
    /\ v.hasDev \in BOOLEAN /\ v.devNum \in Nat
    /\ v.local \in Seq(Segments)

LEMMA ParsedIsVersion ==
    ASSUME NEW v \in ParsedVersions
    PROVE  IsVersion(v)
BY DEF ParsedVersions, IsVersion

(* a, b and c compare x with y, y with z and x with z in one order. *)
Chained(a, b, c) ==
    a <= 0 /\ b <= 0 => c <= 0 /\ (c = 0 <=> a = 0 /\ b = 0)

(***************************************************************************)
(* The first comparison that tells two things apart.                       *)
(***************************************************************************)
Pos == Nat \ {0}

(* r is the first value of f that is not zero, if there is one. *)
First(f, r) ==
    \/ r = 0 /\ \A i \in Pos : f[i] = 0
    \/ \E i \in Pos : f[i] # 0 /\ r = f[i] /\ \A j \in Pos : j < i => f[j] = 0

(* Lowest is the least number of a set. *)
LEMMA LowestLeast ==
    ASSUME NEW S \in SUBSET Nat, S # {}
    PROVE  Lowest(S) \in S /\ \A m \in S : Lowest(S) <= m
<1> DEFINE R == OpToRel(<, Nat)
<1>0. IsWellFoundedOn(R, Nat)
  BY NatLessThanWellFounded
<1>r. \A x, y \in Nat : x < y => <<x, y>> \in R
  BY DEF OpToRel
<1> HIDE DEF R
<1>1. PICK x \in S : \A y \in S : ~ (<<y, x>> \in R)
  BY <1>0, WFMin
<1>2. ASSUME NEW m \in S PROVE x <= m
  <2>1. m \in Nat /\ x \in Nat
    OBVIOUS
  <2>2. ~ (m < x)
    BY <1>1, <1>r, <2>1, Zenon
  <2> QED
    BY <2>1, <2>2
<1> QED
  BY <1>2 DEF Lowest

(* FirstOf is what its name says. *)
LEMMA FirstOfFirst ==
    ASSUME NEW n \in Nat, NEW cs, DOMAIN cs = 1..n,
           NEW f, \A i \in Pos : f[i] = IF i \in 1..n THEN cs[i] ELSE 0
    PROVE  First(f, FirstOf(cs))
<1> DEFINE differ == {i \in DOMAIN cs : cs[i] # 0}
<1>1. CASE differ = {}
  <2>1. FirstOf(cs) = 0
    BY <1>1 DEF FirstOf
  <2>2. \A i \in Pos : f[i] = 0
    BY <1>1
  <2> QED
    BY <2>1, <2>2 DEF First
<1>2. CASE differ # {}
  <2>1. FirstOf(cs) = cs[Lowest(differ)]
    BY <1>2 DEF FirstOf
  <2>2. differ \in SUBSET Nat
    OBVIOUS
  <2>3. Lowest(differ) \in differ /\ \A m \in differ : Lowest(differ) <= m
    <3> HIDE DEF differ
    <3> QED
      BY <1>2, <2>2, LowestLeast
  <2> DEFINE i == Lowest(differ)
  <2>4. i \in Pos /\ i \in 1..n /\ f[i] = cs[i] /\ cs[i] # 0
    BY <2>3 DEF Pos
  <2>5. ASSUME NEW j \in Pos, j < i PROVE f[j] = 0
    <3>1. j \notin differ
      <4> HIDE DEF differ
      <4> QED
        BY <2>3, <2>4, <2>5 DEF Pos
    <3> QED
      BY <3>1
  <2> HIDE DEF i, differ
  <2> QED
    BY <2>1, <2>4, <2>5 DEF First, i
<1> QED
  BY <1>1, <1>2

(* The first difference is one value. *)
LEMMA FirstUnique ==
    ASSUME NEW f, NEW r, NEW s, First(f, r), First(f, s)
    PROVE  r = s
<1>1. ASSUME NEW i \in Pos, f[i] # 0, \A j \in Pos : j < i => f[j] = 0,
             NEW k \in Pos, f[k] # 0, \A j \in Pos : j < k => f[j] = 0
      PROVE  i = k
  BY <1>1 DEF Pos
<1> QED
  BY <1>1 DEF First

(* Comparisons that chain at every place chain as a whole. *)
LEMMA FirstChained ==
    ASSUME NEW f \in [Pos -> Int], NEW g \in [Pos -> Int], NEW h \in [Pos -> Int],
           NEW a, NEW b, NEW c, First(f, a), First(g, b), First(h, c),
           \A i \in Pos : Chained(f[i], g[i], h[i])
    PROVE  Chained(a, b, c)
<1> SUFFICES ASSUME a <= 0, b <= 0
             PROVE  c <= 0 /\ (c = 0 <=> a = 0 /\ b = 0)
  BY DEF Chained
<1>0. a \in Int /\ b \in Int /\ c \in Int
  BY DEF First
<1>1. CASE a = 0 /\ b = 0
  <2>1. \A i \in Pos : f[i] = 0 /\ g[i] = 0
    BY <1>1 DEF First
  <2>2. \A i \in Pos : h[i] = 0
    BY <2>1 DEF Chained
  <2> QED
    BY <1>1, <2>2 DEF First
<1>2. CASE ~ (a = 0 /\ b = 0)
  <2>1. PICK k \in Pos : /\ f[k] <= 0 /\ g[k] <= 0 /\ (f[k] # 0 \/ g[k] # 0)
                         /\ \A j \in Pos : j < k => f[j] = 0 /\ g[j] = 0
    <3>1. CASE a = 0
      BY <1>0, <1>2, <3>1 DEF First
    <3>2. CASE b = 0
      BY <1>0, <1>2, <3>2 DEF First
    <3>3. CASE a # 0 /\ b # 0
      <4>1. PICK i \in Pos : f[i] # 0 /\ a = f[i] /\ \A j \in Pos : j < i => f[j] = 0
        BY <3>3 DEF First
      <4>2. PICK j \in Pos : g[j] # 0 /\ b = g[j] /\ \A k \in Pos : k < j => g[k] = 0
        BY <3>3 DEF First
      <4>3. i \in Nat /\ j \in Nat
        BY DEF Pos
      <4>4. CASE i < j
        BY <4>1, <4>2, <4>3, <4>4 DEF Pos
      <4>5. CASE j < i
        BY <4>1, <4>2, <4>3, <4>5 DEF Pos
      <4>6. CASE i = j
        BY <4>1, <4>2, <4>6
      <4> QED
        BY <4>3, <4>4, <4>5, <4>6
    <3> QED
      BY <3>1, <3>2, <3>3
  <2>2. h[k] <= 0 /\ h[k] # 0
    BY <2>1 DEF Chained
  <2>3. \A j \in Pos : j < k => h[j] = 0
    BY <2>1 DEF Chained
  <2>4. First(h, h[k])
    BY <2>2, <2>3 DEF First
  <2>5. c = h[k]
    BY <2>4, FirstUnique
  <2> QED
    BY <1>0, <1>2, <2>2, <2>5
<1> QED
  BY <1>1, <1>2

(* Comparisons that are opposite at every place are opposite as a whole. *)
LEMMA FirstOpposite ==
    ASSUME NEW f \in [Pos -> Int], NEW g \in [Pos -> Int], \A i \in Pos : g[i] = -f[i],
           NEW a, NEW b, First(f, a), First(g, b)
    PROVE  b = -a
<1>0. a \in Int /\ b \in Int
  BY DEF First
<1>1. First(g, -a)
  BY <1>0 DEF First
<1> QED
  BY <1>1, FirstUnique

(***************************************************************************)
(* The parts of Compare.                                                   *)
(***************************************************************************)

(* compareInt compares integers. *)
LEMMA IntOrder ==
    ASSUME NEW a \in Int, NEW b \in Int
    PROVE  /\ compareInt(a, b) \in Signs
           /\ compareInt(b, a) = -compareInt(a, b)
           /\ compareInt(a, b) = 0 <=> a = b
BY DEF compareInt, Signs

LEMMA IntChained ==
    ASSUME NEW a \in Int, NEW b \in Int, NEW c \in Int
    PROVE  Chained(compareInt(a, b), compareInt(b, c), compareInt(a, c))
BY DEF compareInt, Chained

ReleaseKey(left, right) == [i \in Pos |-> compareInt(Part(left, i), Part(right, i))]

LEMMA PartType ==
    ASSUME NEW r \in Seq(Nat), NEW i \in Pos
    PROVE  Part(r, i) \in Nat
BY DEF Part, Pos

(* compareRelease pads with zeros: it compares infinite sequences. *)
LEMMA ReleaseFirst ==
    ASSUME NEW l \in Seq(Nat), NEW r \in Seq(Nat)
    PROVE  /\ ReleaseKey(l, r) \in [Pos -> Int]
           /\ \A i \in Pos : ReleaseKey(l, r)[i] \in Signs
           /\ First(ReleaseKey(l, r), compareRelease(l, r))
<1> DEFINE n == Longer(l, r)
           cs == [i \in 1..n |-> compareInt(Part(l, i), Part(r, i))]
           f == ReleaseKey(l, r)
<1>1. n \in Nat /\ n >= Len(l) /\ n >= Len(r)
  BY DEF Longer
<1>2. \A i \in Pos : f[i] = compareInt(Part(l, i), Part(r, i)) /\ f[i] \in Signs /\ f[i] \in Int
  BY PartType, IntOrder DEF ReleaseKey, Signs
<1>3. f \in [Pos -> Int]
  BY <1>2 DEF ReleaseKey
<1>4. ASSUME NEW i \in Pos, i \notin 1..n PROVE f[i] = 0
  <2>1. ~ (i <= Len(l)) /\ ~ (i <= Len(r))
    BY <1>1, <1>4 DEF Pos
  <2> QED
    BY <1>2, <2>1 DEF Part, compareInt
<1>5. compareRelease(l, r) = FirstOf(cs)
  BY DEF compareRelease
<1>6. DOMAIN cs = 1..n /\ \A i \in 1..n : cs[i] = compareInt(Part(l, i), Part(r, i))
  OBVIOUS
<1>7. \A i \in Pos : f[i] = IF i \in 1..n THEN cs[i] ELSE 0
  <2> HIDE DEF f, cs, n
  <2> QED
    BY <1>2, <1>4, <1>6
<1> HIDE DEF n, cs, f
<1>8. First(f, FirstOf(cs))
  BY <1>1, <1>6, <1>7, FirstOfFirst
<1> QED
  BY <1>2, <1>3, <1>5, <1>8 DEF f

(* The sign of a first difference of signs. *)
LEMMA FirstSign ==
    ASSUME NEW f, NEW r, First(f, r), \A i \in Pos : f[i] \in Signs
    PROVE  r \in Signs
BY DEF First, Signs

(* compareRelease is an order. *)
LEMMA ReleaseOrder ==
    ASSUME NEW l \in Seq(Nat), NEW r \in Seq(Nat)
    PROVE  /\ compareRelease(l, r) \in Signs
           /\ compareRelease(r, l) = -compareRelease(l, r)
           /\ compareRelease(l, l) = 0
<1>1. \A i \in Pos : ReleaseKey(r, l)[i] = -ReleaseKey(l, r)[i]
  BY PartType, IntOrder DEF ReleaseKey
<1>2. \A i \in Pos : ReleaseKey(l, l)[i] = 0
  BY PartType, IntOrder DEF ReleaseKey
<1>3. First(ReleaseKey(l, l), compareRelease(l, l)) /\ First(ReleaseKey(l, r), compareRelease(l, r))
  BY ReleaseFirst
<1>4. compareRelease(l, l) = 0
  BY <1>2, <1>3 DEF First
<1>5. compareRelease(l, r) \in Signs
  BY <1>3, ReleaseFirst, FirstSign
<1>6. compareRelease(r, l) = -compareRelease(l, r)
  BY <1>1, ReleaseFirst, FirstOpposite
<1> QED
  BY <1>4, <1>5, <1>6

LEMMA ReleaseChained ==
    ASSUME NEW x \in Seq(Nat), NEW y \in Seq(Nat), NEW z \in Seq(Nat)
    PROVE  Chained(compareRelease(x, y), compareRelease(y, z), compareRelease(x, z))
<1>1. \A i \in Pos : Chained(ReleaseKey(x, y)[i], ReleaseKey(y, z)[i], ReleaseKey(x, z)[i])
  BY PartType, IntChained DEF ReleaseKey
<1> QED
  BY <1>1, ReleaseFirst, FirstChained

(***************************************************************************)
(* Local segments.                                                         *)
(***************************************************************************)
LEMMA SegmentOrder ==
    ASSUME NEW a \in Segments, NEW b \in Segments
    PROVE  /\ compareSegment(a, b) \in Signs
           /\ compareSegment(b, a) = -compareSegment(a, b)
           /\ compareSegment(a, a) = 0
<1>1. a.value \in Int /\ b.value \in Int /\ a.number \in BOOLEAN /\ b.number \in BOOLEAN
  BY DEF Segments
<1> QED
  BY <1>1, IntOrder DEF compareSegment, Signs

LEMMA SegmentChained ==
    ASSUME NEW a \in Segments, NEW b \in Segments, NEW c \in Segments
    PROVE  Chained(compareSegment(a, b), compareSegment(b, c), compareSegment(a, c))
<1>1. /\ a.value \in Int /\ b.value \in Int /\ c.value \in Int
      /\ a.number \in BOOLEAN /\ b.number \in BOOLEAN /\ c.number \in BOOLEAN
  BY DEF Segments
<1>2. CASE a.number = b.number /\ b.number = c.number
  BY <1>1, <1>2, IntChained DEF compareSegment
<1>3. CASE a.number = b.number /\ b.number # c.number
  BY <1>1, <1>3, IntOrder DEF compareSegment, Chained, Signs
<1>4. CASE a.number # b.number /\ b.number = c.number
  BY <1>1, <1>4, IntOrder DEF compareSegment, Chained, Signs
<1>5. CASE a.number # b.number /\ b.number # c.number
  BY <1>1, <1>5, IntOrder DEF compareSegment, Chained, Signs
<1> QED
  BY <1>2, <1>3, <1>4, <1>5

(* Local versions as infinite sequences, in which no segment comes first. *)
LocalKey(left, right) ==
    [i \in Pos |-> IF i <= Len(left) THEN IF i <= Len(right) THEN compareSegment(left[i], right[i]) ELSE 1
                   ELSE IF i <= Len(right) THEN -1 ELSE 0]

LEMMA LocalFirst ==
    ASSUME NEW l \in Seq(Segments), NEW r \in Seq(Segments)
    PROVE  /\ LocalKey(l, r) \in [Pos -> Int]
           /\ \A i \in Pos : LocalKey(l, r)[i] \in Signs
           /\ First(LocalKey(l, r), compareLocal(l, r))
<1> DEFINE n == IF Len(l) < Len(r) THEN Len(l) ELSE Len(r)
           d == compareInt(Len(l), Len(r))
           cs == [i \in 1..n |-> compareSegment(l[i], r[i])] \o <<d>>
           f == LocalKey(l, r)
           g == [i \in Pos |-> IF i \in 1..(n + 1) THEN cs[i] ELSE 0]
<1>0. Len(l) \in Nat /\ Len(r) \in Nat
  OBVIOUS
<1>1. /\ n \in Nat /\ n <= Len(l) /\ n <= Len(r) /\ d \in Signs
      /\ d = 0 <=> Len(l) = n /\ Len(r) = n
  BY <1>0, IntOrder
<1>2. /\ DOMAIN cs = 1..(n + 1)
      /\ \A i \in 1..n : cs[i] = compareSegment(l[i], r[i])
      /\ cs[n + 1] = d
  <2> DEFINE p == [i \in 1..n |-> compareSegment(l[i], r[i])]
  <2>1. p \in Seq(Signs) /\ Len(p) = n /\ \A i \in 1..n : p[i] = compareSegment(l[i], r[i])
    <3>1. \A i \in 1..n : compareSegment(l[i], r[i]) \in Signs
      <4>1. \A i \in 1..n : l[i] \in Segments /\ r[i] \in Segments
        BY <1>0, <1>1
      <4> QED
        BY <4>1, SegmentOrder
    <3> HIDE DEF n
    <3> QED
      BY <1>1, <3>1
  <2> HIDE DEF p, n, d
  <2>2. cs = p \o <<d>>
    BY DEF p
  <2> QED
    BY <1>1, <2>1, <2>2
<1>3. \A i \in Pos : f[i] \in Signs /\ f[i] = IF i <= Len(l)
                THEN IF i <= Len(r) THEN compareSegment(l[i], r[i]) ELSE 1
                ELSE IF i <= Len(r) THEN -1 ELSE 0
  <2>1. \A i \in Pos : /\ i <= Len(l) => l[i] \in Segments
                       /\ i <= Len(r) => r[i] \in Segments
    BY DEF Pos
  <2> QED
    BY <2>1, SegmentOrder DEF LocalKey, Signs
<1>4. f \in [Pos -> Int]
  BY <1>3 DEF LocalKey, Signs
<1>5. compareLocal(l, r) = FirstOf(cs)
  BY DEF compareLocal
<1>6. \A i \in Pos : g[i] = IF i \in 1..(n + 1) THEN cs[i] ELSE 0
  OBVIOUS
<1>d. d = IF Len(l) < Len(r) THEN -1 ELSE IF Len(l) > Len(r) THEN 1 ELSE 0
  BY DEF compareInt
<1>n. n = IF Len(l) < Len(r) THEN Len(l) ELSE Len(r)
  OBVIOUS
<1> HIDE DEF n, d, cs, f, g
<1>7. First(g, FirstOf(cs))
  <2>1. n + 1 \in Nat
    BY <1>1
  <2> QED
    BY <1>2, <1>6, <2>1, FirstOfFirst
<1>8. \A i \in 1..(n + 1) : i \in Pos /\ f[i] = g[i]
  <2>1. ASSUME NEW i \in 1..n PROVE i \in Pos /\ f[i] = g[i]
    <3>1. i \in Pos /\ i \in 1..(n + 1) /\ i <= Len(l) /\ i <= Len(r)
      BY <1>0, <1>1 DEF Pos
    <3> QED
      BY <1>2, <1>3, <1>6, <3>1
  <2>2. n + 1 \in Pos /\ f[n + 1] = g[n + 1]
    <3>1. n + 1 \in Pos /\ n + 1 \in 1..(n + 1)
      BY <1>1 DEF Pos
    <3>2. g[n + 1] = d
      BY <1>2, <1>6, <3>1
    <3>3. f[n + 1] = d
      BY <1>0, <1>1, <1>3, <1>d, <1>n, <3>1
    <3> QED
      BY <3>1, <3>2, <3>3
  <2>3. \A i \in 1..(n + 1) : i \in 1..n \/ i = n + 1
    BY <1>1
  <2> QED
    BY <2>1, <2>2, <2>3
<1>9. d = 0 => \A i \in Pos : f[i] = g[i]
  <2> SUFFICES ASSUME d = 0, NEW i \in Pos, i \notin 1..(n + 1) PROVE f[i] = g[i]
    BY <1>8
  <2>1. ~ (i <= Len(l)) /\ ~ (i <= Len(r))
    BY <1>0, <1>1 DEF Pos
  <2> QED
    BY <1>3, <1>6, <2>1
<1>10. ASSUME d = 0 PROVE First(f, FirstOf(cs))
  BY <1>7, <1>9, <1>10 DEF First
<1>11. ASSUME d # 0 PROVE First(f, FirstOf(cs))
  <2>1. n + 1 \in Pos /\ g[n + 1] # 0 /\ n + 1 \in Nat
    <3>1. n + 1 \in Pos /\ n + 1 \in 1..(n + 1)
      BY <1>1 DEF Pos
    <3> QED
      BY <1>2, <1>6, <1>11, <3>1 DEF Pos
  <2>2. PICK i \in Pos : g[i] # 0 /\ FirstOf(cs) = g[i] /\ \A j \in Pos : j < i => g[j] = 0
    BY <1>7, <2>1 DEF First
  <2>3. i \in 1..(n + 1) /\ \A j \in Pos : j < i => j \in 1..(n + 1)
    BY <2>1, <2>2 DEF Pos
  <2>4. f[i] # 0 /\ FirstOf(cs) = f[i] /\ \A j \in Pos : j < i => f[j] = 0
    BY <1>8, <2>2, <2>3
  <2> QED
    BY <2>4 DEF First
<1>12. First(f, FirstOf(cs))
  BY <1>10, <1>11
<1> QED
  BY <1>3, <1>4, <1>5, <1>12 DEF f

LEMMA LocalOrder ==
    ASSUME NEW l \in Seq(Segments), NEW r \in Seq(Segments)
    PROVE  /\ compareLocal(l, r) \in Signs
           /\ compareLocal(r, l) = -compareLocal(l, r)
           /\ compareLocal(l, l) = 0
<1>0. \A i \in Pos : /\ i <= Len(l) => l[i] \in Segments
                     /\ i <= Len(r) => r[i] \in Segments
  BY DEF Pos
<1>1. \A i \in Pos : LocalKey(r, l)[i] = -LocalKey(l, r)[i]
  BY <1>0, SegmentOrder DEF LocalKey
<1>2. \A i \in Pos : LocalKey(l, l)[i] = 0
  BY <1>0, SegmentOrder DEF LocalKey
<1>3. First(LocalKey(l, l), compareLocal(l, l)) /\ First(LocalKey(l, r), compareLocal(l, r))
  BY LocalFirst
<1>4. compareLocal(l, l) = 0
  BY <1>2, <1>3 DEF First
<1>5. compareLocal(l, r) \in Signs
  BY <1>3, LocalFirst, FirstSign
<1>6. compareLocal(r, l) = -compareLocal(l, r)
  BY <1>1, LocalFirst, FirstOpposite
<1> QED
  BY <1>4, <1>5, <1>6

LEMMA LocalChained ==
    ASSUME NEW x \in Seq(Segments), NEW y \in Seq(Segments), NEW z \in Seq(Segments)
    PROVE  Chained(compareLocal(x, y), compareLocal(y, z), compareLocal(x, z))
<1>1. ASSUME NEW i \in Pos PROVE Chained(LocalKey(x, y)[i], LocalKey(y, z)[i], LocalKey(x, z)[i])
  <2>1. /\ i <= Len(x) => x[i] \in Segments
        /\ i <= Len(y) => y[i] \in Segments
        /\ i <= Len(z) => z[i] \in Segments
    BY DEF Pos
  <2>2. CASE i <= Len(x) /\ i <= Len(y) /\ i <= Len(z)
    BY <2>1, <2>2, SegmentChained DEF LocalKey
  <2>3. CASE ~ (i <= Len(x) /\ i <= Len(y) /\ i <= Len(z))
    BY <2>1, <2>3, SegmentOrder DEF LocalKey, Chained, Signs
  <2> QED
    BY <2>2, <2>3
<1> QED
  BY <1>1, LocalFirst, FirstChained

(***************************************************************************)
(* The suffixes, and the whole.                                            *)
(***************************************************************************)

(* The first of three and of six comparisons that is not zero. *)
LEMMA FirstOfThree ==
    ASSUME NEW a \in Int, NEW b \in Int, NEW c \in Int
    PROVE  FirstOf(<<a, b, c>>) = IF a # 0 THEN a ELSE IF b # 0 THEN b ELSE c
<1> DEFINE cs == <<a, b, c>>
           f == [i \in Pos |-> IF i \in 1..3 THEN cs[i] ELSE 0]
           r == IF a # 0 THEN a ELSE IF b # 0 THEN b ELSE c
<1>1. /\ DOMAIN cs = 1..3 /\ 3 \in Nat
      /\ \A i \in Pos : f[i] = IF i \in 1..3 THEN cs[i] ELSE 0
  OBVIOUS
<1>2. f[1] = a /\ f[2] = b /\ f[3] = c /\ \A i \in Pos : i = 1 \/ i = 2 \/ i = 3 \/ f[i] = 0
  BY DEF Pos
<1> HIDE DEF cs, f
<1>3. First(f, FirstOf(cs))
  BY <1>1, FirstOfFirst
<1>4. 1 \in Pos /\ 2 \in Pos /\ 3 \in Pos /\ \A j \in Pos : (j < 2 => j = 1) /\ ~ (j < 1) /\ (j < 3 => j = 1 \/ j = 2)
  BY DEF Pos
<1>5. First(f, r)
  BY <1>2, <1>4 DEF First
<1> HIDE DEF r
<1>6. FirstOf(cs) = r
  BY <1>3, <1>5, FirstUnique
<1> QED
  BY <1>6 DEF cs, r

(* How the six comparisons of Compare are combined. *)
Six(a, b, c, d, e, g) ==
    IF a # 0 THEN a ELSE IF b # 0 THEN b ELSE IF c # 0 THEN c
    ELSE IF d # 0 THEN d ELSE IF e # 0 THEN e ELSE g

LEMMA FirstOfSix ==
    ASSUME NEW a \in Int, NEW b \in Int, NEW c \in Int, NEW d \in Int, NEW e \in Int, NEW g \in Int
    PROVE  FirstOf(<<a, b, c, d, e, g>>) = Six(a, b, c, d, e, g)
<1> DEFINE cs == <<a, b, c, d, e, g>>
           f == [i \in Pos |-> IF i \in 1..6 THEN cs[i] ELSE 0]
           r == IF a # 0 THEN a ELSE IF b # 0 THEN b ELSE IF c # 0 THEN c
                ELSE IF d # 0 THEN d ELSE IF e # 0 THEN e ELSE g
<1>1. /\ DOMAIN cs = 1..6 /\ 6 \in Nat
      /\ \A i \in Pos : f[i] = IF i \in 1..6 THEN cs[i] ELSE 0
  OBVIOUS
<1>2. /\ f[1] = a /\ f[2] = b /\ f[3] = c /\ f[4] = d /\ f[5] = e /\ f[6] = g
      /\ \A i \in Pos : i \in {1, 2, 3, 4, 5, 6} \/ f[i] = 0
  BY DEF Pos
<1> HIDE DEF cs, f
<1>3. First(f, FirstOf(cs))
  BY <1>1, FirstOfFirst
<1>4. /\ {1, 2, 3, 4, 5, 6} \subseteq Pos
      /\ \A j \in Pos : /\ ~ (j < 1)
                        /\ j < 2 => j = 1
                        /\ j < 3 => j \in {1, 2}
                        /\ j < 4 => j \in {1, 2, 3}
                        /\ j < 5 => j \in {1, 2, 3, 4}
                        /\ j < 6 => j \in {1, 2, 3, 4, 5}
  BY DEF Pos
<1>5. First(f, r)
  BY <1>2, <1>4 DEF First
<1> HIDE DEF r
<1>6. FirstOf(cs) = r
  BY <1>3, <1>5, FirstUnique
<1> QED
  BY <1>6 DEF cs, r, Six

LEMMA PreKeyType ==
    ASSUME NEW v, IsVersion(v)
    PROVE  /\ PreKey(v)[1] \in Int /\ PreKey(v)[2] \in Int /\ PreKey(v)[3] \in Int
           /\ PreKey(v) = <<PreKey(v)[1], PreKey(v)[2], PreKey(v)[3]>>
BY DEF PreKey, IsVersion

LEMMA PreFirst ==
    ASSUME NEW v, NEW w, IsVersion(v), IsVersion(w)
    PROVE  comparePre(v, w) =
             LET Of(i) == compareInt(PreKey(v)[i], PreKey(w)[i])
             IN  IF Of(1) # 0 THEN Of(1) ELSE IF Of(2) # 0 THEN Of(2) ELSE Of(3)
<1> DEFINE Of(i) == compareInt(PreKey(v)[i], PreKey(w)[i])
<1>1. Of(1) \in Int /\ Of(2) \in Int /\ Of(3) \in Int
  BY PreKeyType, IntOrder DEF Signs
<1>2. [i \in 1..3 |-> Of(i)] = <<Of(1), Of(2), Of(3)>>
  OBVIOUS
<1>3. comparePre(v, w) = FirstOf(<<Of(1), Of(2), Of(3)>>)
  BY <1>2 DEF comparePre
<1> HIDE DEF Of
<1>4. comparePre(v, w) = IF Of(1) # 0 THEN Of(1) ELSE IF Of(2) # 0 THEN Of(2) ELSE Of(3)
  BY <1>1, <1>3, FirstOfThree
<1> QED
  BY <1>4 DEF Of

LEMMA PreOrder ==
    ASSUME NEW v, NEW w, IsVersion(v), IsVersion(w)
    PROVE  /\ comparePre(v, w) \in Signs
           /\ comparePre(w, v) = -comparePre(v, w)
           /\ comparePre(v, v) = 0
BY PreFirst, PreKeyType, IntOrder DEF Signs

LEMMA PreChained ==
    ASSUME NEW x, NEW y, NEW z, IsVersion(x), IsVersion(y), IsVersion(z)
    PROVE  Chained(comparePre(x, y), comparePre(y, z), comparePre(x, z))
BY PreFirst, PreKeyType DEF Chained, compareInt

(* A missing number comes on one side of all numbers. *)
LEMMA OptionalOrder ==
    ASSUME NEW p \in BOOLEAN, NEW a \in Int, NEW q \in BOOLEAN, NEW b \in Int, NEW rank \in {-1, 1}
    PROVE  /\ compareOptionalNumber(p, a, q, b, rank) \in Signs
           /\ compareOptionalNumber(q, b, p, a, rank) = -compareOptionalNumber(p, a, q, b, rank)
           /\ compareOptionalNumber(p, a, p, a, rank) = 0
BY DEF compareOptionalNumber, compareInt, Signs

LEMMA OptionalChained ==
    ASSUME NEW p \in BOOLEAN, NEW a \in Int, NEW q \in BOOLEAN, NEW b \in Int,
           NEW s \in BOOLEAN, NEW c \in Int, NEW rank \in {-1, 1}
    PROVE  Chained(compareOptionalNumber(p, a, q, b, rank), compareOptionalNumber(q, b, s, c, rank),
                   compareOptionalNumber(p, a, s, c, rank))
BY DEF compareOptionalNumber, compareInt, Chained

(***************************************************************************)
(* The order of versions.                                                  *)
(***************************************************************************)

(* Two of the six comparisons of Compare. *)
ComparePost(v, w) == compareOptionalNumber(v.hasPost, v.postNum, w.hasPost, w.postNum, -1)

CompareDev(v, w) == compareOptionalNumber(v.hasDev, v.devNum, w.hasDev, w.devNum, 1)

LEMMA SixOpposite ==
    ASSUME NEW a \in Signs, NEW b \in Signs, NEW c \in Signs, NEW d \in Signs, NEW e \in Signs, NEW g \in Signs
    PROVE  /\ Six(a, b, c, d, e, g) \in Signs
           /\ Six(-a, -b, -c, -d, -e, -g) = -Six(a, b, c, d, e, g)
BY DEF Six, Signs

LEMMA SixChained ==
    ASSUME NEW a1 \in Signs, NEW b1 \in Signs, NEW c1 \in Signs, NEW d1 \in Signs, NEW e1 \in Signs, NEW g1 \in Signs,
           NEW a2 \in Signs, NEW b2 \in Signs, NEW c2 \in Signs, NEW d2 \in Signs, NEW e2 \in Signs, NEW g2 \in Signs,
           NEW a3 \in Signs, NEW b3 \in Signs, NEW c3 \in Signs, NEW d3 \in Signs, NEW e3 \in Signs, NEW g3 \in Signs,
           Chained(a1, a2, a3), Chained(b1, b2, b3), Chained(c1, c2, c3),
           Chained(d1, d2, d3), Chained(e1, e2, e3), Chained(g1, g2, g3)
    PROVE  Chained(Six(a1, b1, c1, d1, e1, g1), Six(a2, b2, c2, d2, e2, g2), Six(a3, b3, c3, d3, e3, g3))
BY DEF Six, Signs, Chained

LEMMA PostOrder ==
    ASSUME NEW v, NEW w, IsVersion(v), IsVersion(w)
    PROVE  ComparePost(v, w) \in Signs /\ ComparePost(w, v) = -ComparePost(v, w) /\ ComparePost(v, v) = 0
<1>1. v.hasPost \in BOOLEAN /\ v.postNum \in Int /\ w.hasPost \in BOOLEAN /\ w.postNum \in Int
  BY DEF IsVersion
<1> QED
  BY <1>1, OptionalOrder DEF ComparePost

LEMMA PostChained ==
    ASSUME NEW x, NEW y, NEW z, IsVersion(x), IsVersion(y), IsVersion(z)
    PROVE  Chained(ComparePost(x, y), ComparePost(y, z), ComparePost(x, z))
<1>1. /\ x.hasPost \in BOOLEAN /\ x.postNum \in Int /\ y.hasPost \in BOOLEAN /\ y.postNum \in Int
      /\ z.hasPost \in BOOLEAN /\ z.postNum \in Int
  BY DEF IsVersion
<1> QED
  BY <1>1, OptionalChained DEF ComparePost

LEMMA DevOrder ==
    ASSUME NEW v, NEW w, IsVersion(v), IsVersion(w)
    PROVE  CompareDev(v, w) \in Signs /\ CompareDev(w, v) = -CompareDev(v, w) /\ CompareDev(v, v) = 0
<1>1. v.hasDev \in BOOLEAN /\ v.devNum \in Int /\ w.hasDev \in BOOLEAN /\ w.devNum \in Int
  BY DEF IsVersion
<1> QED
  BY <1>1, OptionalOrder DEF CompareDev

LEMMA DevChained ==
    ASSUME NEW x, NEW y, NEW z, IsVersion(x), IsVersion(y), IsVersion(z)
    PROVE  Chained(CompareDev(x, y), CompareDev(y, z), CompareDev(x, z))
<1>1. /\ x.hasDev \in BOOLEAN /\ x.devNum \in Int /\ y.hasDev \in BOOLEAN /\ y.devNum \in Int
      /\ z.hasDev \in BOOLEAN /\ z.devNum \in Int
  BY DEF IsVersion
<1> QED
  BY <1>1, OptionalChained DEF CompareDev

(* The six comparisons, each an order of its own. *)
LEMMA PartsOrder ==
    ASSUME NEW v, NEW w, IsVersion(v), IsVersion(w)
    PROVE  /\ compareInt(v.epoch, w.epoch) \in Signs
           /\ compareInt(w.epoch, v.epoch) = -compareInt(v.epoch, w.epoch)
           /\ compareInt(v.epoch, v.epoch) = 0
           /\ compareRelease(v.release, w.release) \in Signs
           /\ compareRelease(w.release, v.release) = -compareRelease(v.release, w.release)
           /\ compareRelease(v.release, v.release) = 0
           /\ comparePre(v, w) \in Signs /\ comparePre(w, v) = -comparePre(v, w) /\ comparePre(v, v) = 0
           /\ ComparePost(v, w) \in Signs /\ ComparePost(w, v) = -ComparePost(v, w) /\ ComparePost(v, v) = 0
           /\ CompareDev(v, w) \in Signs /\ CompareDev(w, v) = -CompareDev(v, w) /\ CompareDev(v, v) = 0
           /\ compareLocal(v.local, w.local) \in Signs
           /\ compareLocal(w.local, v.local) = -compareLocal(v.local, w.local)
           /\ compareLocal(v.local, v.local) = 0
<1>1. /\ v.epoch \in Int /\ w.epoch \in Int /\ v.release \in Seq(Nat) /\ w.release \in Seq(Nat)
      /\ v.local \in Seq(Segments) /\ w.local \in Seq(Segments)
  BY DEF IsVersion
<1>2. /\ compareInt(v.epoch, w.epoch) \in Signs
      /\ compareInt(w.epoch, v.epoch) = -compareInt(v.epoch, w.epoch)
      /\ compareInt(v.epoch, v.epoch) = 0
  BY <1>1, IntOrder
<1>3. /\ compareRelease(v.release, w.release) \in Signs
      /\ compareRelease(w.release, v.release) = -compareRelease(v.release, w.release)
      /\ compareRelease(v.release, v.release) = 0
  BY <1>1, ReleaseOrder
<1>4. /\ compareLocal(v.local, w.local) \in Signs
      /\ compareLocal(w.local, v.local) = -compareLocal(v.local, w.local)
      /\ compareLocal(v.local, v.local) = 0
  BY <1>1, LocalOrder
<1> QED
  BY <1>2, <1>3, <1>4, PreOrder, PostOrder, DevOrder

LEMMA CompareSix ==
    ASSUME NEW v, NEW w, IsVersion(v), IsVersion(w)
    PROVE  Compare(v, w) = Six(compareInt(v.epoch, w.epoch), compareRelease(v.release, w.release),
                               comparePre(v, w), ComparePost(v, w), CompareDev(v, w),
                               compareLocal(v.local, w.local))
<1> DEFINE a == compareInt(v.epoch, w.epoch)
           b == compareRelease(v.release, w.release)
           c == comparePre(v, w)
           d == ComparePost(v, w)
           e == CompareDev(v, w)
           g == compareLocal(v.local, w.local)
<1>1. a \in Int /\ b \in Int /\ c \in Int /\ d \in Int /\ e \in Int /\ g \in Int
  BY PartsOrder DEF Signs
<1>2. Compare(v, w) = FirstOf(<<a, b, c, d, e, g>>)
  BY DEF Compare, ComparePost, CompareDev
<1>3. Compare(v, w) = Six(a, b, c, d, e, g)
  <2> HIDE DEF a, b, c, d, e, g
  <2> QED
    BY <1>1, <1>2, FirstOfSix
<1> QED
  BY <1>3

(* Version.Compare is an order: exactly one of lower, equal and higher     *)
(* holds between two versions, whichever of them is asked, and a version   *)
(* equals itself.                                                          *)
THEOREM CompareAntisymmetric ==
    ASSUME NEW v, NEW w, IsVersion(v), IsVersion(w)
    PROVE  /\ Compare(v, w) \in Signs
           /\ Compare(w, v) = -Compare(v, w)
           /\ Compare(v, v) = 0
<1> DEFINE a == compareInt(v.epoch, w.epoch)
           b == compareRelease(v.release, w.release)
           c == comparePre(v, w)
           d == ComparePost(v, w)
           e == CompareDev(v, w)
           g == compareLocal(v.local, w.local)
<1>1. /\ a \in Signs /\ b \in Signs /\ c \in Signs /\ d \in Signs /\ e \in Signs /\ g \in Signs
      /\ Compare(v, w) = Six(a, b, c, d, e, g)
  BY PartsOrder, CompareSix
<1>2. Compare(w, v) = Six(-a, -b, -c, -d, -e, -g)
  <2>1. Compare(w, v) = Six(compareInt(w.epoch, v.epoch), compareRelease(w.release, v.release),
                            comparePre(w, v), ComparePost(w, v), CompareDev(w, v),
                            compareLocal(w.local, v.local))
    BY CompareSix
  <2> QED
    BY <2>1, PartsOrder
<1>3. Compare(v, v) = 0
  BY CompareSix, PartsOrder DEF Six
<1> HIDE DEF a, b, c, d, e, g
<1>4. Compare(v, w) \in Signs /\ Compare(w, v) = -Compare(v, w)
  BY <1>1, <1>2, SixOpposite
<1> QED
  BY <1>3, <1>4

LEMMA VersionTypes ==
    ASSUME NEW v, IsVersion(v)
    PROVE  v.epoch \in Int /\ v.release \in Seq(Nat) /\ v.local \in Seq(Segments)
BY DEF IsVersion

LEMMA CompareChained ==
    ASSUME NEW x, NEW y, NEW z, IsVersion(x), IsVersion(y), IsVersion(z)
    PROVE  Chained(Compare(x, y), Compare(y, z), Compare(x, z))
<1>1. /\ x.epoch \in Int /\ y.epoch \in Int /\ z.epoch \in Int
      /\ x.release \in Seq(Nat) /\ y.release \in Seq(Nat) /\ z.release \in Seq(Nat)
      /\ x.local \in Seq(Segments) /\ y.local \in Seq(Segments) /\ z.local \in Seq(Segments)
  BY VersionTypes
<1>2. Chained(compareInt(x.epoch, y.epoch), compareInt(y.epoch, z.epoch), compareInt(x.epoch, z.epoch))
  BY <1>1, IntChained
<1>3. Chained(compareRelease(x.release, y.release), compareRelease(y.release, z.release),
              compareRelease(x.release, z.release))
  BY <1>1, ReleaseChained
<1>4. Chained(comparePre(x, y), comparePre(y, z), comparePre(x, z))
  BY PreChained
<1>5. Chained(compareLocal(x.local, y.local), compareLocal(y.local, z.local), compareLocal(x.local, z.local))
  BY <1>1, LocalChained
<1>6. /\ compareInt(x.epoch, y.epoch) \in Signs /\ compareRelease(x.release, y.release) \in Signs
      /\ comparePre(x, y) \in Signs /\ ComparePost(x, y) \in Signs /\ CompareDev(x, y) \in Signs
      /\ compareLocal(x.local, y.local) \in Signs
  BY PartsOrder
<1>7. /\ compareInt(y.epoch, z.epoch) \in Signs /\ compareRelease(y.release, z.release) \in Signs
      /\ comparePre(y, z) \in Signs /\ ComparePost(y, z) \in Signs /\ CompareDev(y, z) \in Signs
      /\ compareLocal(y.local, z.local) \in Signs
  BY PartsOrder
<1>8. /\ compareInt(x.epoch, z.epoch) \in Signs /\ compareRelease(x.release, z.release) \in Signs
      /\ comparePre(x, z) \in Signs /\ ComparePost(x, z) \in Signs /\ CompareDev(x, z) \in Signs
      /\ compareLocal(x.local, z.local) \in Signs
  BY PartsOrder
<1>9. Chained(Six(compareInt(x.epoch, y.epoch), compareRelease(x.release, y.release), comparePre(x, y),
                  ComparePost(x, y), CompareDev(x, y), compareLocal(x.local, y.local)),
              Six(compareInt(y.epoch, z.epoch), compareRelease(y.release, z.release), comparePre(y, z),
                  ComparePost(y, z), CompareDev(y, z), compareLocal(y.local, z.local)),
              Six(compareInt(x.epoch, z.epoch), compareRelease(x.release, z.release), comparePre(x, z),
                  ComparePost(x, z), CompareDev(x, z), compareLocal(x.local, z.local)))
  <2>1. Chained(ComparePost(x, y), ComparePost(y, z), ComparePost(x, z))
    BY PostChained
  <2>2. Chained(CompareDev(x, y), CompareDev(y, z), CompareDev(x, z))
    BY DevChained
  <2> QED
    BY <1>2, <1>3, <1>4, <1>5, <1>6, <1>7, <1>8, <2>1, <2>2, SixChained
<1> QED
  BY <1>9, CompareSix

(* Version.Compare is transitive, and versions that compare equal are      *)
(* interchangeable: the function ResolveVersion hands to sort.Slice is a   *)
(* strict weak order, without which the last element of the sorted slice   *)
(* would not be the highest version.                                       *)
THEOREM CompareTransitive ==
    ASSUME NEW x, NEW y, NEW z, IsVersion(x), IsVersion(y), IsVersion(z),
           Compare(x, y) <= 0, Compare(y, z) <= 0
    PROVE  /\ Compare(x, z) <= 0
           /\ Compare(x, z) = 0 <=> Compare(x, y) = 0 /\ Compare(y, z) = 0
BY CompareChained DEF Chained

(***************************************************************************)
(* The order is the one of PEP 440.                                        *)
(***************************************************************************)

(* Comparing padded sequences is the order of releases. *)
LEMMA ReleaseMeaning ==
    ASSUME NEW l \in Seq(Nat), NEW r \in Seq(Nat)
    PROVE  /\ compareRelease(l, r) < 0 <=> LowerRelease(l, r)
           /\ compareRelease(l, r) = 0 <=> SameRelease(l, r)
<1> DEFINE f == ReleaseKey(l, r)
           c == compareRelease(l, r)
           places == DOMAIN l \cup DOMAIN r
<1>1. /\ First(f, c) /\ c \in Signs
      /\ \A i \in Pos : f[i] \in Signs
  BY ReleaseFirst, ReleaseOrder
<1>2. \A i \in Pos : /\ Number(l, i) = Part(l, i) /\ Number(r, i) = Part(r, i)
                     /\ Number(l, i) \in Nat /\ Number(r, i) \in Nat
  BY DEF Number, Part, Pos
<1>3. \A i \in Pos : /\ f[i] < 0 <=> Number(l, i) < Number(r, i)
                     /\ f[i] = 0 <=> Number(l, i) = Number(r, i)
  BY <1>2 DEF ReleaseKey, compareInt
<1>4. /\ places \subseteq Pos
      /\ \A i \in Pos : i \notin places => Number(l, i) = 0 /\ Number(r, i) = 0
  BY DEF Number, Pos
<1> HIDE DEF f, c, places
<1>5. ASSUME c < 0 PROVE LowerRelease(l, r)
  <2>1. PICK i \in Pos : f[i] # 0 /\ c = f[i] /\ \A j \in Pos : j < i => f[j] = 0
    BY <1>1, <1>5 DEF First
  <2>2. Number(l, i) < Number(r, i)
    BY <1>3, <1>5, <2>1
  <2>3. i \in places
    BY <1>4, <2>2
  <2>4. \A j \in 1..(i - 1) : Number(l, j) = Number(r, j)
    BY <1>3, <2>1 DEF Pos
  <2> QED
    BY <2>2, <2>3, <2>4 DEF LowerRelease, places
<1>6. ASSUME LowerRelease(l, r) PROVE c < 0
  <2>1. PICK i \in places : /\ Number(l, i) < Number(r, i)
                            /\ \A j \in 1..(i - 1) : Number(l, j) = Number(r, j)
    BY <1>6 DEF LowerRelease, places
  <2>2. i \in Pos /\ f[i] < 0 /\ f[i] \in Signs
    BY <1>1, <1>3, <1>4, <2>1
  <2>3. \A j \in Pos : j < i => f[j] = 0
    BY <1>3, <2>1, <2>2 DEF Pos
  <2>4. First(f, f[i])
    BY <2>2, <2>3 DEF First, Signs
  <2> QED
    BY <1>1, <2>2, <2>4, FirstUnique
<1>7. c = 0 <=> \A i \in Pos : f[i] = 0
  BY <1>1 DEF First
<1>8. (\A i \in Pos : f[i] = 0) <=> SameRelease(l, r)
  BY <1>3, <1>4 DEF SameRelease, places
<1> QED
  BY <1>5, <1>6, <1>7, <1>8 DEF c

LEMMA SegmentMeaning ==
    ASSUME NEW s \in Segments, NEW t \in Segments
    PROVE  /\ compareSegment(s, t) < 0 <=> LowerSegment(s, t)
           /\ compareSegment(s, t) = 0 <=> s = t
<1>1. s.value \in Int /\ t.value \in Int /\ s.number \in BOOLEAN /\ t.number \in BOOLEAN
  BY DEF Segments
<1>2. s = t <=> s.value = t.value /\ s.number = t.number
  BY DEF Segments
<1> QED
  BY <1>1, <1>2 DEF compareSegment, compareInt, LowerSegment

LEMMA LocalMeaning ==
    ASSUME NEW l \in Seq(Segments), NEW r \in Seq(Segments)
    PROVE  compareLocal(l, r) < 0 <=> LowerLocal(l, r)
<1> DEFINE f == LocalKey(l, r)
           c == compareLocal(l, r)
<1>1. /\ First(f, c) /\ c \in Signs
      /\ \A i \in Pos : f[i] \in Signs
  BY LocalFirst, LocalOrder
<1>2. \A i \in Pos : /\ i \in DOMAIN l <=> i <= Len(l)
                     /\ i \in DOMAIN r <=> i <= Len(r)
                     /\ i \in DOMAIN l => l[i] \in Segments
                     /\ i \in DOMAIN r => r[i] \in Segments
  BY DEF Pos
<1>3. \A i \in Pos : /\ f[i] < 0 <=> i \in DOMAIN r /\ (i \in DOMAIN l => LowerSegment(l[i], r[i]))
                     /\ i \in DOMAIN r => (f[i] = 0 <=> i \in DOMAIN l /\ l[i] = r[i])
  BY <1>2, SegmentMeaning DEF LocalKey
<1>4. /\ DOMAIN r \subseteq Pos
      /\ \A i \in DOMAIN r : \A j \in Pos : j < i => j \in DOMAIN r
      /\ \A i, j \in Pos : j \in 1..(i - 1) <=> j < i
  BY DEF Pos
<1>5. \A i \in Pos : \A j \in 1..(i - 1) : j \in Pos
  BY DEF Pos
<1> HIDE DEF f, c
<1>6. ASSUME c < 0 PROVE LowerLocal(l, r)
  <2>1. PICK i \in Pos : f[i] # 0 /\ c = f[i] /\ \A j \in Pos : j < i => f[j] = 0
    BY <1>1, <1>6 DEF First
  <2>2. i \in DOMAIN r /\ (i \in DOMAIN l => LowerSegment(l[i], r[i]))
    BY <1>3, <1>6, <2>1
  <2>3. \A j \in 1..(i - 1) : j \in DOMAIN l /\ l[j] = r[j]
    BY <1>3, <1>4, <1>5, <2>1, <2>2
  <2> QED
    BY <2>2, <2>3 DEF LowerLocal
<1>7. ASSUME LowerLocal(l, r) PROVE c < 0
  <2>1. PICK i \in DOMAIN r : /\ \A j \in 1..(i - 1) : j \in DOMAIN l /\ l[j] = r[j]
                              /\ i \in DOMAIN l => LowerSegment(l[i], r[i])
    BY <1>7 DEF LowerLocal
  <2>2. i \in Pos /\ f[i] < 0 /\ f[i] \in Signs
    BY <1>1, <1>3, <1>4, <2>1
  <2>3. \A j \in Pos : j < i => f[j] = 0
    BY <1>3, <1>4, <2>1, <2>2
  <2>4. First(f, f[i])
    BY <2>2, <2>3 DEF First, Signs
  <2> QED
    BY <1>1, <2>2, <2>4, FirstUnique
<1> QED
  BY <1>6, <1>7 DEF c

LEMMA PhaseMeaning ==
    ASSUME NEW v, NEW w, IsVersion(v), IsVersion(w)
    PROVE  /\ comparePre(v, w) < 0 <=> LowerPhase(v, w)
           /\ comparePre(v, w) = 0 <=> SamePhase(v, w)
<1>1. /\ v.hasPre \in BOOLEAN /\ v.hasPost \in BOOLEAN /\ v.hasDev \in BOOLEAN
      /\ w.hasPre \in BOOLEAN /\ w.hasPost \in BOOLEAN /\ w.hasDev \in BOOLEAN
      /\ v.preKind \in Nat /\ v.preNum \in Nat /\ w.preKind \in Nat /\ w.preNum \in Nat
  BY DEF IsVersion
<1> QED
  BY <1>1, PreFirst DEF PreKey, compareInt, LowerPhase, SamePhase, DevOfRelease

LEMMA SuffixMeaning ==
    ASSUME NEW v, NEW w, IsVersion(v), IsVersion(w)
    PROVE  /\ ComparePost(v, w) < 0 <=> LowerPost(v, w)
           /\ ComparePost(v, w) = 0 <=> SamePost(v, w)
           /\ CompareDev(v, w) < 0 <=> LowerDev(v, w)
           /\ CompareDev(v, w) = 0 <=> SameDev(v, w)
<1>1. /\ v.hasPost \in BOOLEAN /\ v.hasDev \in BOOLEAN /\ w.hasPost \in BOOLEAN /\ w.hasDev \in BOOLEAN
      /\ v.postNum \in Nat /\ v.devNum \in Nat /\ w.postNum \in Nat /\ w.devNum \in Nat
  BY DEF IsVersion
<1> QED
  BY <1>1 DEF ComparePost, CompareDev, compareOptionalNumber, compareInt,
              LowerPost, SamePost, LowerDev, SameDev

(* Version.Compare is the order of PEP 440, for all versions: it says      *)
(* lower exactly when the declarative definition does, and equal exactly   *)
(* when neither version comes before the other.                            *)
THEOREM CompareIsPEP440 ==
    ASSUME NEW v, NEW w, IsVersion(v), IsVersion(w)
    PROVE  /\ Compare(v, w) < 0 <=> Precedes(v, w)
           /\ Compare(v, w) > 0 <=> Precedes(w, v)
           /\ Compare(v, w) = 0 <=> ~Precedes(v, w) /\ ~Precedes(w, v)
<1>1. ASSUME NEW x, NEW y, IsVersion(x), IsVersion(y)
      PROVE  Compare(x, y) < 0 <=> Precedes(x, y)
  <2> DEFINE a == compareInt(x.epoch, y.epoch)
             b == compareRelease(x.release, y.release)
             c == comparePre(x, y)
             d == ComparePost(x, y)
             e == CompareDev(x, y)
             g == compareLocal(x.local, y.local)
  <2>1. a \in Signs /\ b \in Signs /\ c \in Signs /\ d \in Signs /\ e \in Signs /\ g \in Signs
    BY <1>1, PartsOrder
  <2>2. Compare(x, y) = Six(a, b, c, d, e, g)
    BY <1>1, CompareSix
  <2>3. (a < 0 <=> x.epoch < y.epoch) /\ (a = 0 <=> x.epoch = y.epoch)
    <3>1. x.epoch \in Int /\ y.epoch \in Int
      BY <1>1, VersionTypes
    <3> QED
      BY <3>1 DEF compareInt
  <2>4. /\ b < 0 <=> LowerRelease(x.release, y.release)
        /\ b = 0 <=> SameRelease(x.release, y.release)
        /\ g < 0 <=> LowerLocal(x.local, y.local)
    BY <1>1, VersionTypes, ReleaseMeaning, LocalMeaning
  <2>5. (c < 0 <=> LowerPhase(x, y)) /\ (c = 0 <=> SamePhase(x, y))
    BY <1>1, PhaseMeaning
  <2>6. /\ d < 0 <=> LowerPost(x, y)
        /\ d = 0 <=> SamePost(x, y)
        /\ e < 0 <=> LowerDev(x, y)
        /\ e = 0 <=> SameDev(x, y)
    BY <1>1, SuffixMeaning
  <2> HIDE DEF a, b, c, d, e, g
  <2>7. Six(a, b, c, d, e, g) < 0 <=>
          \/ a < 0
          \/ a = 0 /\ (b < 0 \/ (b = 0 /\ (c < 0 \/ (c = 0 /\ (d < 0 \/ (d = 0 /\ (e < 0 \/ (e = 0 /\ g < 0))))))))
    BY <2>1 DEF Six, Signs
  <2> QED
    BY <2>2, <2>3, <2>4, <2>5, <2>6, <2>7 DEF Precedes
<1>2. (Compare(v, w) < 0 <=> Precedes(v, w)) /\ (Compare(w, v) < 0 <=> Precedes(w, v))
  BY <1>1
<1>3. Compare(v, w) \in Signs /\ Compare(w, v) = -Compare(v, w)
  BY CompareAntisymmetric
<1> QED
  BY <1>2, <1>3 DEF Signs

(***************************************************************************)
(* Ranges.                                                                 *)
(***************************************************************************)

(* Taking the local segments away keeps the order of versions. *)
LEMMA PublicOrder ==
    ASSUME NEW v \in ParsedVersions, NEW w \in ParsedVersions, Compare(v, w) <= 0
    PROVE  /\ [v EXCEPT !.local = <<>>] \in ParsedVersions
           /\ [w EXCEPT !.local = <<>>] \in ParsedVersions
           /\ Compare([v EXCEPT !.local = <<>>], [w EXCEPT !.local = <<>>]) <= 0
<1> DEFINE x == [v EXCEPT !.local = <<>>]
           y == [w EXCEPT !.local = <<>>]
           a == compareInt(v.epoch, w.epoch)
           b == compareRelease(v.release, w.release)
           c == comparePre(v, w)
           d == ComparePost(v, w)
           e == CompareDev(v, w)
           g == compareLocal(v.local, w.local)
<1>0. <<>> \in Seq(Segments)
  OBVIOUS
<1>1. /\ x \in ParsedVersions /\ y \in ParsedVersions
      /\ x.local = <<>> /\ y.local = <<>>
  BY <1>0 DEF ParsedVersions
<1>2. IsVersion(v) /\ IsVersion(w) /\ IsVersion(x) /\ IsVersion(y)
  BY <1>1, ParsedIsVersion
<1>3. a \in Signs /\ b \in Signs /\ c \in Signs /\ d \in Signs /\ e \in Signs /\ g \in Signs
  BY <1>2, PartsOrder
<1>4. Compare(v, w) = Six(a, b, c, d, e, g)
  BY <1>2, CompareSix
<1>5. /\ x.epoch = v.epoch /\ x.release = v.release /\ x.hasPre = v.hasPre /\ x.preKind = v.preKind
      /\ x.preNum = v.preNum /\ x.hasPost = v.hasPost /\ x.postNum = v.postNum
      /\ x.hasDev = v.hasDev /\ x.devNum = v.devNum
      /\ y.epoch = w.epoch /\ y.release = w.release /\ y.hasPre = w.hasPre /\ y.preKind = w.preKind
      /\ y.preNum = w.preNum /\ y.hasPost = w.hasPost /\ y.postNum = w.postNum
      /\ y.hasDev = w.hasDev /\ y.devNum = w.devNum
  BY DEF ParsedVersions
<1> HIDE DEF x, y
<1>6. PreKey(x) = PreKey(v) /\ PreKey(y) = PreKey(w)
  BY <1>5 DEF PreKey
<1>7. comparePre(x, y) = c /\ ComparePost(x, y) = d /\ CompareDev(x, y) = e
  BY <1>5, <1>6 DEF comparePre, ComparePost, CompareDev
<1>8. compareLocal(x.local, y.local) = 0
  BY <1>0, <1>1, LocalOrder
<1>9. Compare(x, y) = Six(a, b, c, d, e, 0)
  BY <1>2, <1>5, <1>7, <1>8, CompareSix
<1> HIDE DEF a, b, c, d, e, g
<1>10. Compare(x, y) <= 0
  BY <1>3, <1>4, <1>9 DEF Six, Signs
<1> QED
  BY <1>1, <1>10 DEF x, y

(* Seen through a specified version, versions stay in order. *)
LEMMA SpecifierOrder ==
    ASSUME NEW v \in ParsedVersions, NEW w \in ParsedVersions, NEW s \in ParsedVersions,
           Compare(v, w) <= 0
    PROVE  /\ compareSpecifierVersion(v, s) >= 0 => compareSpecifierVersion(w, s) >= 0
           /\ compareSpecifierVersion(w, s) <= 0 => compareSpecifierVersion(v, s) <= 0
<1>1. PICK x \in ParsedVersions, y \in ParsedVersions :
          /\ compareSpecifierVersion(v, s) = Compare(x, s)
          /\ compareSpecifierVersion(w, s) = Compare(y, s)
          /\ Compare(x, y) <= 0
  <2>1. CASE s.local = <<>>
    BY <2>1, PublicOrder DEF compareSpecifierVersion
  <2>2. CASE s.local # <<>>
    BY <2>2 DEF compareSpecifierVersion
  <2> QED
    BY <2>1, <2>2
<1>2. IsVersion(x) /\ IsVersion(y) /\ IsVersion(s)
  BY ParsedIsVersion
<1>3. /\ Compare(x, s) \in Signs /\ Compare(s, x) = -Compare(x, s)
      /\ Compare(y, s) \in Signs /\ Compare(s, y) = -Compare(y, s)
      /\ Compare(x, y) \in Signs
  BY <1>2, CompareAntisymmetric
<1>4. Compare(y, s) <= 0 => Compare(x, s) <= 0
  BY <1>1, <1>2, CompareTransitive
<1>5. Compare(s, x) <= 0 => Compare(s, y) <= 0
  BY <1>1, <1>2, CompareTransitive
<1> QED
  BY <1>1, <1>3, <1>4, <1>5 DEF Signs

(* A constraint of >= and <= clauses is an interval: a release between two *)
(* that match matches, whatever local segments and spellings they have     *)
(* (matchesClauses, with compareSpecifierVersion taking local segments     *)
(* away on one side only).                                                 *)
THEOREM RangesAreIntervals ==
    ASSUME NEW clauses \in SUBSET Clauses,
           \A c \in clauses : c.operator \in {">=", "<="} /\ ~c.wildcard,
           NEW u \in ParsedVersions, NEW v \in ParsedVersions, NEW w \in ParsedVersions,
           Compare(u, v) <= 0, Compare(v, w) <= 0,
           matchesClauses(u, clauses), matchesClauses(w, clauses)
    PROVE  matchesClauses(v, clauses)
<1> SUFFICES ASSUME NEW c \in clauses PROVE matchesClause(v, c)
  BY DEF matchesClauses
<1>1. c.version \in ParsedVersions /\ c.wildcard \in BOOLEAN
  BY DEF Clauses
<1>2. matchesClause(u, c) /\ matchesClause(w, c)
  BY DEF matchesClauses
<1>3. CASE c.operator = ">="
  <2>1. compareSpecifierVersion(u, c.version) >= 0
    BY <1>2, <1>3 DEF matchesClause
  <2>2. compareSpecifierVersion(v, c.version) >= 0
    BY <1>1, <2>1, SpecifierOrder
  <2> QED
    BY <1>3, <2>2 DEF matchesClause
<1>4. CASE c.operator = "<="
  <2>1. compareSpecifierVersion(w, c.version) <= 0
    BY <1>2, <1>4 DEF matchesClause
  <2>2. compareSpecifierVersion(v, c.version) <= 0
    BY <1>1, <2>1, SpecifierOrder
  <2> QED
    BY <1>4, <2>2 DEF matchesClause
<1> QED
  BY <1>3, <1>4

(***************************************************************************)
(* Resolution.                                                             *)
(***************************************************************************)

(* A finite set of versions that is not empty has a highest one: a         *)
(* smallest set without one would have one less.                           *)
LEMMA HighestVersion ==
    ASSUME NEW S, IsFiniteSet(S), \A v \in S : IsVersion(v), S # {}
    PROVE  \E v \in S : \A w \in S : Compare(w, v) <= 0
<1> DEFINE Bad == {T \in FiniteSubsetsOf(S) : T # {} /\ \A v \in T : \E w \in T : ~ (Compare(w, v) <= 0)}
<1>1. SUFFICES ASSUME Bad # {} PROVE FALSE
  <2>1. S \in FiniteSubsetsOf(S)
    BY DEF FiniteSubsetsOf
  <2>2. S \notin Bad
    BY <1>1
  <2> QED
    BY <2>1, <2>2
<1>2. PICK T \in Bad : \A U \in Bad : ~ (<<U, T>> \in StrictSubsetOrdering(S))
  <2>1. IsWellFoundedOn(StrictSubsetOrdering(S), FiniteSubsetsOf(S))
    BY FS_StrictSubsetOrderingWellFounded
  <2>2. Bad \subseteq FiniteSubsetsOf(S)
    OBVIOUS
  <2> QED
    BY <1>1, <2>1, <2>2, WFMin
<1>3. T \in FiniteSubsetsOf(S) /\ T # {} /\ \A v \in T : \E w \in T : ~ (Compare(w, v) <= 0)
  OBVIOUS
<1>4. PICK x \in T : TRUE
  BY <1>3
<1> DEFINE U == T \ {x}
<1>5. U \in FiniteSubsetsOf(S) /\ <<U, T>> \in StrictSubsetOrdering(S)
  BY <1>3, <1>4, FS_RemoveElement DEF FiniteSubsetsOf, StrictSubsetOrdering
<1>6. U \notin Bad
  BY <1>2, <1>5
<1>7. U = {} \/ \E v \in U : \A w \in U : Compare(w, v) <= 0
  BY <1>5, <1>6
<1>8. \A v \in T : IsVersion(v)
  BY <1>3 DEF FiniteSubsetsOf
<1> HIDE DEF Bad
<1>9. Compare(x, x) = 0
  BY <1>4, <1>8, CompareAntisymmetric
<1>10. CASE U = {}
  BY <1>3, <1>4, <1>9, <1>10
<1>11. CASE \E v \in U : \A w \in U : Compare(w, v) <= 0
  <2>1. PICK v \in U : \A w \in U : Compare(w, v) <= 0
    BY <1>11
  <2>2. CASE Compare(x, v) <= 0
    BY <1>3, <1>4, <2>1, <2>2
  <2>3. CASE ~ (Compare(x, v) <= 0)
    <3>1. Compare(v, x) <= 0
      BY <1>4, <1>8, <2>1, <2>3, CompareAntisymmetric DEF Signs
    <3>2. \A w \in U : Compare(w, x) <= 0
      BY <1>4, <1>8, <2>1, <3>1, CompareTransitive
    <3> QED
      BY <1>3, <1>4, <1>9, <3>2
  <2> QED
    BY <2>2, <2>3
<1> QED
  BY <1>7, <1>10, <1>11

(* ResolveVersion finds a release whenever one that is listed satisfies    *)
(* every clause, and only then ("no version satisfies").                   *)
THEOREM ResolveFinds ==
    ASSUME NEW clauses, NEW available, IsFiniteSet(available), \A v \in available : IsVersion(v)
    PROVE  ResolveVersion(clauses, available) # {} <=> \E v \in available : matchesClauses(v, clauses)
<1> DEFINE found == candidates(clauses, available)
<1>1. found \subseteq {v \in available : matchesClauses(v, clauses)}
  BY DEF candidates
<1>2. found = {} <=> ~ \E v \in available : matchesClauses(v, clauses)
  BY DEF candidates
<1>3. IsFiniteSet(found) /\ \A v \in found : IsVersion(v)
  BY <1>1, FS_Subset
<1>4. ResolveVersion(clauses, available) = {v \in found : \A w \in found : Compare(w, v) <= 0}
  BY DEF ResolveVersion
<1> HIDE DEF found
<1> QED
  BY <1>2, <1>3, <1>4, HighestVersion

(* What ResolveVersion takes is listed and satisfies every clause; a       *)
(* listed release that does so too and is higher is a pre-release that no  *)
(* clause asks for, and then a stable one was taken; a pre-release is      *)
(* taken unasked only if no stable release matches.  Whichever of several  *)
(* answers sort.Slice leaves last, they are spellings of one version.      *)
THEOREM ResolvesToBest ==
    ASSUME NEW clauses, NEW available, \A v \in available : IsVersion(v),
           NEW current \in ResolveVersion(clauses, available)
    PROVE  /\ current \in available /\ matchesClauses(current, clauses)
           /\ \A v \in available :
                 matchesClauses(v, clauses) /\ Compare(v, current) > 0 =>
                    isPrerelease(v) /\ ~isPrerelease(current) /\ ~permitsPrerelease(clauses)
           /\ isPrerelease(current) /\ ~permitsPrerelease(clauses) =>
                 \A v \in available : matchesClauses(v, clauses) => isPrerelease(v)
           /\ \A other \in ResolveVersion(clauses, available) : Compare(other, current) = 0
<1> DEFINE found == candidates(clauses, available)
<1>1. /\ current \in found /\ \A w \in found : Compare(w, current) <= 0
      /\ \A other \in ResolveVersion(clauses, available) : other \in found /\ Compare(current, other) <= 0
  BY DEF ResolveVersion
<1>2. found \subseteq {v \in available : matchesClauses(v, clauses)}
  BY DEF candidates
<1>3. \A v \in found : IsVersion(v)
  BY <1>2
<1>4. \A v \in available : matchesClauses(v, clauses) => v \in found \/ (isPrerelease(v) /\ ~permitsPrerelease(clauses))
  BY DEF candidates
<1>5. ASSUME NEW v \in available, matchesClauses(v, clauses), v \notin found
      PROVE  isPrerelease(v) /\ ~isPrerelease(current) /\ ~permitsPrerelease(clauses)
  BY <1>1, <1>5 DEF candidates
<1>6. ASSUME isPrerelease(current), ~permitsPrerelease(clauses)
      PROVE  \A v \in available : matchesClauses(v, clauses) => isPrerelease(v)
  BY <1>1, <1>6 DEF candidates
<1> HIDE DEF found
<1>7. ASSUME NEW v \in available, matchesClauses(v, clauses), Compare(v, current) > 0
      PROVE  v \notin found
  BY <1>1, <1>3, <1>7, CompareAntisymmetric DEF Signs
<1>8. ASSUME NEW other \in ResolveVersion(clauses, available)
      PROVE  Compare(other, current) = 0
  <2>1. /\ other \in found /\ Compare(current, other) <= 0 /\ Compare(other, current) <= 0
        /\ IsVersion(other) /\ IsVersion(current)
    BY <1>1, <1>3, <1>8
  <2>2. Compare(other, current) \in Signs /\ Compare(current, other) = -Compare(other, current)
    BY <2>1, CompareAntisymmetric
  <2> QED
    BY <2>1, <2>2 DEF Signs
<1> QED
  BY <1>1, <1>2, <1>5, <1>6, <1>7, <1>8

=============================================================================
