---------------------- MODULE IncrementalDecoderProofs ----------------------
(* That the incremental decoder holds what it has still to read, wherever    *)
(* its buffer moves, and shows a progressive image, for every file, every    *)
(* division of it into pieces and every failure.                             *)
EXTENDS IncrementalDecoder, TLAPS, WellFoundedInduction

-----------------------------------------------------------------------------
(* Induction over a set of numbers.                                          *)
LEMMA Least ==
  ASSUME NEW T, T \subseteq Nat, T # {}
  PROVE  \E x \in T : \A y \in T : x <= y
<1> DEFINE Below == OpToRel(<, Nat)
<1>1. \A x, y \in Nat : <<x, y>> \in Below <=> x < y
  BY DEF OpToRel
<1>2. IsWellFoundedOn(Below, Nat)
  BY NatLessThanWellFounded, Zenon
<1> HIDE DEF Below
<1>3. PICK x \in T : \A y \in T : ~(<<y, x>> \in Below)
  BY <1>2, WFMin, Zenon
<1>4. ASSUME NEW y \in T PROVE x <= y
  <2>1. x \in Nat /\ y \in Nat /\ ~(<<y, x>> \in Below)
    BY <1>3
  <2>2. ~(y < x)
    BY <2>1, <1>1, Zenon
  <2> QED BY <2>1, <2>2
<1> QED BY <1>4

LEMMA SetInduction ==
  ASSUME NEW S, 0 \in S, \A n \in Nat : n \in S => n + 1 \in S
  PROVE  Nat \subseteq S
<1> SUFFICES ASSUME NEW n \in Nat, n \notin S PROVE FALSE
  OBVIOUS
<1>1. PICK x \in Nat \ S : \A y \in Nat \ S : x <= y
  BY Least
<1>2. x # 0 /\ x - 1 \in Nat /\ x - 1 \in S
  BY <1>1
<1> QED BY <1>2

-----------------------------------------------------------------------------
(* Sums.                                                                     *)
Sums(g, f, m) == f = [i \in 0..m |-> IF i = 0 THEN 0 ELSE f[i - 1] + g[i]]

LEMMA SumsExist == ASSUME NEW g PROVE \A m \in Nat : \E f : Sums(g, f, m)
<1> DEFINE S == {m \in Nat : \E f : Sums(g, f, m)}
<1>1. 0 \in S
  <2>1. Sums(g, [i \in 0..0 |-> 0], 0)
    BY DEF Sums
  <2> QED BY <2>1
<1>2. ASSUME NEW m \in Nat, m \in S PROVE m + 1 \in S
  <2>1. PICK f : Sums(g, f, m)
    BY <1>2
  <2> DEFINE h == [i \in 0..m + 1 |-> IF i <= m THEN f[i] ELSE f[m] + g[m + 1]]
  <2>2. \A i \in 0..m + 1 : h[i] = IF i = 0 THEN 0 ELSE h[i - 1] + g[i]
    BY <2>1 DEF Sums
  <2>3. h = [i \in 0..m + 1 |-> IF i = 0 THEN 0 ELSE h[i - 1] + g[i]]
    BY <2>2
  <2> HIDE DEF h
  <2>4. Sums(g, h, m + 1)
    BY <2>3 DEF Sums
  <2> QED BY <2>4
<1> HIDE DEF S
<1>3. Nat \subseteq S
  BY <1>1, <1>2, SetInduction
<1> QED BY <1>3 DEF S

LEMMA SumsAgree ==
  ASSUME NEW g, NEW f, NEW h, NEW m \in Nat, NEW n \in Nat, m <= n,
         Sums(g, f, m), Sums(g, h, n)
  PROVE  f[m] = h[m]
<1> DEFINE S == {i \in Nat : i <= m => f[i] = h[i]}
<1>1. 0 \in S
  BY DEF Sums
<1>2. ASSUME NEW i \in Nat, i \in S PROVE i + 1 \in S
  <2> SUFFICES ASSUME i + 1 <= m PROVE f[i + 1] = h[i + 1]
    OBVIOUS
  <2>1. i + 1 \in 0..m /\ i + 1 \in 0..n /\ i + 1 # 0 /\ i + 1 - 1 = i /\ f[i] = h[i]
    BY <1>2
  <2> HIDE DEF S
  <2>2. f[i + 1] = f[i] + g[i + 1]
    BY <2>1 DEF Sums
  <2>3. h[i + 1] = h[i] + g[i + 1]
    BY <2>1 DEF Sums
  <2> QED BY <2>1, <2>2, <2>3
<1> HIDE DEF S
<1>3. Nat \subseteq S
  BY <1>1, <1>2, SetInduction
<1> QED BY <1>3 DEF S

(* Total adds one element after another.                                     *)
LEMMA TotalStep ==
  ASSUME NEW g, NEW n \in Nat
  PROVE  Total(g, 0) = 0 /\ Total(g, n + 1) = Total(g, n) + g[n + 1]
<1>1. \A m \in Nat : \E f : Sums(g, f, m) /\ Total(g, m) = f[m]
  <2> SUFFICES ASSUME NEW m \in Nat PROVE \E f : Sums(g, f, m) /\ Total(g, m) = f[m]
    OBVIOUS
  <2> DEFINE f == CHOOSE f : Sums(g, f, m)
  <2>1. Sums(g, f, m)
    BY SumsExist
  <2>2. Total(g, m) = f[m]
    BY DEF Total, Sums
  <2> QED BY <2>1, <2>2
<1>2. Total(g, 0) = 0
  BY <1>1 DEF Sums
<1>3. PICK f : Sums(g, f, n) /\ Total(g, n) = f[n]
  BY <1>1
<1>4. PICK h : Sums(g, h, n + 1) /\ Total(g, n + 1) = h[n + 1]
  BY <1>1
<1>5. f[n] = h[n]
  <2> DEFINE m == n + 1
  <2>1. m \in Nat /\ n <= m /\ Sums(g, h, m) /\ Sums(g, f, n)
    BY <1>3, <1>4
  <2> HIDE DEF m
  <2> QED BY <2>1, SumsAgree
<1>6. h[n + 1] = h[n] + g[n + 1]
  <2>1. n + 1 \in 0..n + 1 /\ n + 1 # 0 /\ n + 1 - 1 = n
    OBVIOUS
  <2> QED BY <1>4, <2>1 DEF Sums
<1> QED BY <1>2, <1>3, <1>4, <1>5, <1>6

(* Sums of numbers are numbers, and longer ones no smaller.                  *)
LEMMA TotalIsNat ==
  ASSUME NEW g, NEW n \in Nat, \A i \in 1..n : g[i] \in Nat
  PROVE  \A i \in 0..n : Total(g, i) \in Nat
<1> DEFINE S == {i \in Nat : i <= n => Total(g, i) \in Nat}
<1>1. 0 \in S
  BY TotalStep
<1>2. ASSUME NEW i \in Nat, i \in S PROVE i + 1 \in S
  <2> SUFFICES ASSUME i + 1 <= n PROVE Total(g, i + 1) \in Nat
    OBVIOUS
  <2>1. Total(g, i) \in Nat /\ g[i + 1] \in Nat
    BY <1>2
  <2> HIDE DEF S
  <2> QED BY <2>1, TotalStep
<1> HIDE DEF S
<1>3. Nat \subseteq S
  BY <1>1, <1>2, SetInduction
<1> QED BY <1>3 DEF S

LEMMA TotalGrows ==
  ASSUME NEW g, NEW n \in Nat, \A i \in 1..n : g[i] \in Nat, NEW m \in 0..n
  PROVE  Total(g, m) <= Total(g, n)
<1> DEFINE S == {i \in Nat : m + i <= n => Total(g, m) <= Total(g, m + i)}
<1>0. \A i \in 0..n : Total(g, i) \in Nat
  BY TotalIsNat
<1>1. 0 \in S
  BY <1>0
<1>2. ASSUME NEW i \in Nat, i \in S PROVE i + 1 \in S
  <2> SUFFICES ASSUME m + i + 1 <= n PROVE Total(g, m) <= Total(g, m + i + 1)
    OBVIOUS
  <2>1. /\ Total(g, m) \in Nat /\ Total(g, m + i) \in Nat /\ g[m + i + 1] \in Nat
        /\ Total(g, m) <= Total(g, m + i)
    BY <1>0, <1>2
  <2> HIDE DEF S
  <2>2. Total(g, m + i + 1) = Total(g, m + i) + g[m + i + 1]
    BY TotalStep
  <2> QED BY <2>1, <2>2
<1> HIDE DEF S
<1>3. n - m \in S
  BY <1>1, <1>2, SetInduction
<1> QED BY <1>3 DEF S

LEMMA TotalSame ==
  ASSUME NEW g, NEW h, NEW n \in Nat, \A i \in 1..n : g[i] = h[i]
  PROVE  Total(g, n) = Total(h, n)
<1> DEFINE S == {i \in Nat : i <= n => Total(g, i) = Total(h, i)}
<1>1. 0 \in S
  BY TotalStep
<1>2. ASSUME NEW i \in Nat, i \in S PROVE i + 1 \in S
  <2> SUFFICES ASSUME i + 1 <= n PROVE Total(g, i + 1) = Total(h, i + 1)
    OBVIOUS
  <2>1. Total(g, i) = Total(h, i) /\ g[i + 1] = h[i + 1]
    BY <1>2
  <2> HIDE DEF S
  <2> QED BY <2>1, TotalStep
<1> HIDE DEF S
<1>3. Nat \subseteq S
  BY <1>1, <1>2, SetInduction
<1> QED BY <1>3 DEF S

-----------------------------------------------------------------------------
(* The layout of a lossy file.                                               *)
Given == file \in Files /\ caller \in Callers

(* What is assumed of a lossy file, field by field.                          *)
LEMMA LossyFacts ==
  ASSUME Given, IsLossy
  PROVE  /\ file.alpha \in Nat /\ file.payload \in Nat /\ file.alpha < file.payload
         /\ file.part0 \in Nat /\ file.intro \in Nat /\ file.intro <= file.part0
         /\ file.levels \in BOOLEAN
         /\ file.mb_w \in Nat \ {0} /\ file.parts \in Nat \ {0}
         /\ file.cost \in Seq(Nat) /\ MbH \in Nat \ {0} /\ Height = MbH
         /\ \A y \in 1..MbH : file.cost[y] \in Nat
         /\ AlphaAt \in Nat /\ AlphaAt < file.payload
         /\ PartsAt = file.payload + FrameHeaderSize + file.part0 + file.parts - 1
         /\ FrameHeaderSize \in Nat \ {0}
<1>1. file \in LossyFile
  BY FileAssumption DEF Given, IsLossy, LosslessFile
<1>2. file.alpha < file.payload /\ file.intro <= file.part0 /\ file.cost # <<>>
  BY <1>1, FileAssumption DEF Given, IsLossy, LossyFile
<1>3. FrameHeaderSize \in Nat \ {0}
  BY DecoderAssumption
<1>4. /\ file.alpha \in Nat /\ file.payload \in Nat /\ file.part0 \in Nat
      /\ file.intro \in Nat /\ file.levels \in BOOLEAN /\ file.mb_w \in Nat \ {0}
      /\ file.parts \in Nat \ {0} /\ file.cost \in Seq(Nat)
  BY <1>1 DEF LossyFile
<1>5. MbH \in Nat \ {0} /\ Height = MbH /\ \A y \in 1..MbH : file.cost[y] \in Nat
  BY <1>2, <1>4 DEF MbH, Height
<1>6. AlphaAt \in Nat /\ AlphaAt < file.payload
  BY <1>2, <1>4 DEF AlphaAt
<1>7. PartsAt = file.payload + FrameHeaderSize + file.part0 + file.parts - 1
  BY DEF PartsAt, Part0At
<1> QED BY <1>2, <1>3, <1>4, <1>5, <1>6, <1>7

(* Its numbers.                                                              *)
LEMMA LossyNumbers ==
  ASSUME Given, IsLossy
  PROVE  /\ file.parts \in Nat \ {0} /\ file.mb_w \in Nat \ {0} /\ MbH \in Nat \ {0}
         /\ PartsAt \in Nat /\ Part0At \in Nat /\ file.intro \in Nat
<1>1. /\ file.payload \in Nat /\ file.part0 \in Nat /\ file.parts \in Nat \ {0}
      /\ FrameHeaderSize \in Nat /\ file.mb_w \in Nat \ {0} /\ MbH \in Nat \ {0}
      /\ file.intro \in Nat
      /\ PartsAt = file.payload + FrameHeaderSize + file.part0 + file.parts - 1
  BY LossyFacts
<1>2. \A a, b, c \in Nat, d \in Nat \ {0} : a + b + c + d - 1 \in Nat
  OBVIOUS
<1>3. PartsAt \in Nat
  BY <1>1, <1>2
<1> QED BY <1>1, <1>3 DEF Part0At

(* What is assumed of a lossless one.                                        *)
LEMMA LosslessFacts ==
  ASSUME Given, ~IsLossy
  PROVE  /\ file.payload \in Nat /\ file.head \in Nat /\ FrameHeaderSize <= file.head
         /\ FrameHeaderSize \in Nat \ {0}
         /\ file.symbols \in Seq([cost: Nat, rows: Nat])
         /\ caller.crop_bottom \in Nat \ {0} /\ Height = caller.crop_bottom
         /\ caller.crop_bottom <= RowAt(Len(file.symbols))
         /\ \A n \in 1..Len(file.symbols) : Costs[n] \in Nat /\ RowsOf[n] \in Nat
         /\ \A n \in 1..Len(file.symbols) : /\ Costs[n] = file.symbols[n].cost
                                            /\ RowsOf[n] = file.symbols[n].rows
<1>1. file \in LosslessFile
  BY FileAssumption DEF Given, IsLossy, LossyFile
<1>2. file.kind # "lossy"
  BY DEF IsLossy
<1>3. file.head >= FrameHeaderSize /\ caller.crop_bottom <= RowAt(Len(file.symbols))
  BY <1>2, FileAssumption DEF Given, RowAt, RowsOf
<1>4. FrameHeaderSize \in Nat \ {0} /\ caller.crop_bottom \in Nat \ {0}
  BY DecoderAssumption DEF Given
<1>5. /\ file.payload \in Nat /\ file.head \in Nat
      /\ file.symbols \in Seq([cost: Nat, rows: Nat])
  BY <1>1 DEF LosslessFile
<1>6. ASSUME NEW n \in 1..Len(file.symbols)
      PROVE  /\ Costs[n] = file.symbols[n].cost /\ RowsOf[n] = file.symbols[n].rows
             /\ Costs[n] \in Nat /\ RowsOf[n] \in Nat
  <2>1. n \in DOMAIN file.symbols /\ file.symbols[n] \in [cost: Nat, rows: Nat]
    <3> DEFINE Symbol == [cost: Nat, rows: Nat]
    <3>1. file.symbols \in Seq(Symbol)
      BY <1>5
    <3> HIDE DEF Symbol
    <3>2. n \in DOMAIN file.symbols /\ file.symbols[n] \in Symbol
      BY <3>1
    <3> QED BY <3>2 DEF Symbol
  <2> QED BY <2>1 DEF Costs, RowsOf
<1> QED
  BY <1>3, <1>4, <1>5, <1>6 DEF Height

LEMMA PartFacts ==
  ASSUME Given, IsLossy, NEW p \in 0..file.parts - 1
  PROVE  \A y \in 0..MbH :
           /\ Total(InPart(p), y) \in Nat /\ Total(InPart(p), y) <= PartSize(p)
           /\ y < MbH => Total(InPart(p), y + 1) =
                Total(InPart(p), y)
                  + IF y % file.parts = p THEN file.mb_w * file.cost[y + 1] ELSE 0
<1>1. ASSUME NEW y \in 1..MbH PROVE InPart(p)[y] \in Nat
  <2>1. \A a, b \in Nat : a * b \in Nat
    OBVIOUS
  <2>2. file.mb_w * file.cost[y] \in Nat
    BY <2>1, LossyFacts
  <2> QED BY <2>2 DEF InPart
<1>2. \A y \in 0..MbH : Total(InPart(p), y) \in Nat /\ Total(InPart(p), y) <= PartSize(p)
  BY <1>1, LossyFacts, TotalIsNat, TotalGrows DEF PartSize
<1>3. ASSUME NEW y \in 0..MbH, y < MbH
      PROVE  Total(InPart(p), y + 1) =
               Total(InPart(p), y)
                 + IF y % file.parts = p THEN file.mb_w * file.cost[y + 1] ELSE 0
  <2>1. y \in Nat /\ y + 1 \in 1..MbH /\ y + 1 - 1 = y
    BY <1>3, LossyFacts
  <2>2. Total(InPart(p), y + 1) = Total(InPart(p), y) + InPart(p)[y + 1]
    BY <2>1, TotalStep
  <2>3. InPart(p)[y + 1] = IF y % file.parts = p THEN file.mb_w * file.cost[y + 1] ELSE 0
    BY <2>1 DEF InPart
  <2> QED BY <2>2, <2>3
<1> QED BY <1>2, <1>3

LEMMA PartStarts ==
  ASSUME Given, IsLossy
  PROVE  /\ PartAt(0) = PartsAt /\ PartsAt \in Nat
         /\ \A p \in 0..file.parts : PartAt(p) \in Nat /\ PartAt(p) >= PartsAt
         /\ \A p \in 0..file.parts - 1 : /\ PartSize(p) \in Nat
                                         /\ PartAt(p + 1) = PartAt(p) + PartSize(p)
<1> DEFINE sizes(n) == [q \in 1..n |-> PartSize(q - 1)]
<1>0. PartsAt \in Nat
  BY LossyNumbers
<1>1. ASSUME NEW p \in 0..file.parts - 1 PROVE PartSize(p) \in Nat
  <2>1. MbH \in 0..MbH
    BY LossyFacts
  <2> QED BY <2>1, PartFacts DEF PartSize
<1>2. ASSUME NEW p \in 0..file.parts - 1
      PROVE  PartAt(p + 1) = PartAt(p) + PartSize(p)
  <2>0. p \in Nat
    BY LossyFacts
  <2>1. Total(sizes(p + 1), p + 1) = Total(sizes(p + 1), p) + sizes(p + 1)[p + 1]
    BY <2>0, TotalStep
  <2>2. Total(sizes(p + 1), p) = Total(sizes(p), p)
    <3>1. \A n \in 1..p : sizes(p + 1)[n] = sizes(p)[n]
      BY <2>0
    <3> QED BY <2>0, <3>1, TotalSame
  <2>3. sizes(p + 1)[p + 1] = PartSize(p)
    BY <2>0
  <2>4. Total(sizes(p), p) \in Nat
    <3>1. \A n \in 1..p : sizes(p)[n] \in Nat
      BY <1>1, <2>0, LossyNumbers
    <3> HIDE DEF sizes
    <3> QED BY <2>0, <3>1, TotalIsNat
  <2>5. PartAt(p) = PartsAt + Total(sizes(p), p) /\ PartAt(p + 1) = PartsAt + Total(sizes(p + 1), p + 1)
    BY DEF PartAt
  <2> HIDE DEF sizes
  <2> QED BY <1>0, <1>1, <2>1, <2>2, <2>3, <2>4, <2>5
<1>3. ASSUME NEW p \in 0..file.parts PROVE PartAt(p) \in Nat /\ PartAt(p) >= PartsAt
  <2>0. p \in Nat /\ p <= file.parts /\ file.parts \in Nat
    BY LossyFacts
  <2>1. \A n \in 1..p : sizes(p)[n] \in Nat
    BY <1>1, <2>0
  <2>2. PartAt(p) = PartsAt + Total(sizes(p), p)
    BY DEF PartAt
  <2> HIDE DEF sizes
  <2>3. Total(sizes(p), p) \in Nat
    <3>1. p \in 0..p
      BY <2>0
    <3> QED BY <2>0, <2>1, <3>1, TotalIsNat
  <2> QED BY <1>0, <2>2, <2>3
<1>4. PartAt(0) = PartsAt
  <2>1. Total(sizes(0), 0) = 0
    BY TotalStep
  <2>2. PartAt(0) = PartsAt + Total(sizes(0), 0)
    BY DEF PartAt
  <2> HIDE DEF sizes
  <2> QED BY <1>0, <2>1, <2>2
<1> QED BY <1>0, <1>1, <1>2, <1>3, <1>4

(* Where macroblocks are read.                                               *)
LEMMA MbPlaces ==
  ASSUME Given, IsLossy, NEW p \in 0..file.parts - 1
  PROVE  /\ MbAt(p, 0, 0) = PartAt(p)
         /\ \A y \in 0..MbH, x \in Nat :
              MbAt(p, y, x) \in Nat /\ MbAt(p, y, x) >= PartsAt
         /\ \A y \in 0..MbH - 1, x \in Nat :
              MbAt(p, y, x + 1) =
                MbAt(p, y, x) + IF y % file.parts = p THEN file.cost[y + 1] ELSE 0
         /\ \A y \in 0..MbH - 1 : MbAt(p, y + 1, 0) = MbAt(p, y, file.mb_w)
         /\ \A y \in 0..MbH - 1, x \in 0..file.mb_w - 1 :
              y % file.parts = p =>
                MbAt(p, y, x) + file.cost[y + 1] <= PartAt(p + 1)
<1> DEFINE sum(y) == Total(InPart(p), y)
<1>0. /\ \A a, b \in Nat : a * b \in Nat
      /\ \A a, b \in Nat : (a + 1) * b = a * b + b
      /\ \A b \in Nat : 0 * b = 0
      /\ \A a, b, c \in Nat : a <= b => a * c <= b * c
  <2>1. ASSUME NEW a \in Nat, NEW b \in Nat, NEW c \in Nat, a <= b
        PROVE  a * c <= b * c
    <3>1. PICK d \in Nat : b = a + d
      BY <2>1
    <3>2. b * c = a * c + d * c /\ d * c \in Nat /\ a * c \in Nat
      BY <3>1
    <3> QED BY <3>2
  <2> QED BY <2>1
<1>1. /\ MbH \in Nat \ {0} /\ file.mb_w \in Nat \ {0}
      /\ \A y \in 0..MbH - 1 : file.cost[y + 1] \in Nat
  BY LossyFacts
<1>2. /\ PartAt(p) \in Nat /\ PartAt(p) >= PartsAt /\ PartsAt \in Nat
      /\ PartSize(p) \in Nat /\ PartAt(p + 1) = PartAt(p) + PartSize(p)
  <2>1. p \in 0..file.parts
    BY LossyNumbers
  <2> QED BY <2>1, PartStarts
<1>3. \A y \in 0..MbH : sum(y) \in Nat /\ sum(y) <= PartSize(p)
  BY PartFacts
<1>4. \A y \in 0..MbH - 1 :
        sum(y + 1) = sum(y) + IF y % file.parts = p THEN file.mb_w * file.cost[y + 1] ELSE 0
  BY <1>1, PartFacts
<1>5. sum(0) = 0
  BY TotalStep
<1>6. \A y, x : MbAt(p, y, x) =
        PartAt(p) + sum(y) + IF y < MbH /\ y % file.parts = p THEN x * file.cost[y + 1] ELSE 0
  BY DEF MbAt
<1> HIDE DEF sum
<1>7. MbAt(p, 0, 0) = PartAt(p)
  <2>1. 0 * file.cost[0 + 1] = 0
    BY <1>0, <1>1
  <2> QED BY <1>2, <1>5, <1>6, <2>1
<1>8. ASSUME NEW y \in 0..MbH, NEW x \in Nat
      PROVE  MbAt(p, y, x) \in Nat /\ MbAt(p, y, x) >= PartsAt
  <2>1. CASE y < MbH /\ y % file.parts = p
    <3>1. x * file.cost[y + 1] \in Nat
      BY <1>0, <1>1, <2>1
    <3> QED BY <1>2, <1>3, <1>6, <2>1, <3>1
  <2>2. CASE ~(y < MbH /\ y % file.parts = p)
    BY <1>2, <1>3, <1>6, <2>2
  <2> QED BY <2>1, <2>2
<1>9. ASSUME NEW y \in 0..MbH - 1, NEW x \in Nat
      PROVE  MbAt(p, y, x + 1) =
               MbAt(p, y, x) + IF y % file.parts = p THEN file.cost[y + 1] ELSE 0
  <2>1. CASE y % file.parts = p
    <3>1. /\ (x + 1) * file.cost[y + 1] = x * file.cost[y + 1] + file.cost[y + 1]
          /\ x * file.cost[y + 1] \in Nat /\ file.cost[y + 1] \in Nat
      BY <1>0, <1>1
    <3>2. sum(y) \in Nat /\ y < MbH
      BY <1>1, <1>3
    <3>3. /\ MbAt(p, y, x) = PartAt(p) + sum(y) + x * file.cost[y + 1]
          /\ MbAt(p, y, x + 1) = PartAt(p) + sum(y) + (x + 1) * file.cost[y + 1]
      BY <1>6, <2>1, <3>2
    <3> QED BY <1>2, <2>1, <3>1, <3>2, <3>3
  <2>2. CASE y % file.parts # p
    <3>1. sum(y) \in Nat
      BY <1>1, <1>3
    <3> QED BY <1>2, <1>6, <2>2, <3>1
  <2> QED BY <2>1, <2>2
<1>10. ASSUME NEW y \in 0..MbH - 1
       PROVE  MbAt(p, y + 1, 0) = MbAt(p, y, file.mb_w)
  <2>0. y \in Nat /\ y < MbH /\ y + 1 \in 0..MbH /\ y \in 0..MbH
    BY <1>1
  <2>1. MbAt(p, y + 1, 0) = PartAt(p) + sum(y + 1)
    <3>1. CASE y + 1 < MbH
      <4>0. y + 1 \in 0..MbH - 1
        BY <1>1, <2>0, <3>1
      <4>1. 0 * file.cost[y + 1 + 1] = 0
        BY <1>0, <1>1, <4>0
      <4> QED BY <1>2, <1>3, <1>6, <2>0, <4>1
    <3>2. CASE ~(y + 1 < MbH)
      BY <1>2, <1>3, <1>6, <2>0, <3>2
    <3> QED BY <3>1, <3>2
  <2>2. CASE y % file.parts = p
    <3>1. file.mb_w * file.cost[y + 1] \in Nat
      BY <1>0, <1>1
    <3> QED BY <1>2, <1>3, <1>4, <1>6, <2>0, <2>1, <2>2, <3>1
  <2>3. CASE y % file.parts # p
    BY <1>2, <1>3, <1>4, <1>6, <2>0, <2>1, <2>3
  <2> QED BY <2>2, <2>3
<1>11. ASSUME NEW y \in 0..MbH - 1, NEW x \in 0..file.mb_w - 1, y % file.parts = p
       PROVE  MbAt(p, y, x) + file.cost[y + 1] <= PartAt(p + 1)
  <2>0. y < MbH /\ y + 1 \in 0..MbH /\ y \in 0..MbH /\ x \in Nat /\ x + 1 <= file.mb_w
    BY <1>1
  <2>1. MbAt(p, y, x) = PartAt(p) + sum(y) + x * file.cost[y + 1]
    BY <1>6, <1>11, <2>0
  <2>2. /\ x * file.cost[y + 1] \in Nat /\ file.cost[y + 1] \in Nat
        /\ x * file.cost[y + 1] + file.cost[y + 1] = (x + 1) * file.cost[y + 1]
        /\ (x + 1) * file.cost[y + 1] <= file.mb_w * file.cost[y + 1]
        /\ file.mb_w * file.cost[y + 1] \in Nat
    <3>1. x + 1 \in Nat
      BY <2>0
    <3> QED BY <1>0, <1>1, <2>0, <3>1
  <2>3. sum(y + 1) = sum(y) + file.mb_w * file.cost[y + 1]
    BY <1>4, <1>11
  <2>4. sum(y + 1) <= PartSize(p) /\ sum(y) \in Nat
    BY <1>3, <2>0
  <2> QED BY <1>2, <2>1, <2>2, <2>3, <2>4
<1> QED BY <1>7, <1>8, <1>9, <1>10, <1>11

(* The layout of a lossless file.                                            *)
LEMMA SymbolPlaces ==
  ASSUME Given, ~IsLossy
  PROVE  /\ SymbolAt(0) = file.head /\ RowAt(0) = 0
         /\ \A n \in 0..Len(file.symbols) :
              /\ SymbolAt(n) \in Nat /\ SymbolAt(n) >= file.head /\ RowAt(n) \in Nat
              /\ RowAt(n) <= RowAt(Len(file.symbols))
         /\ \A n \in 0..Len(file.symbols) - 1 :
              /\ SymbolAt(n + 1) = SymbolAt(n) + file.symbols[n + 1].cost
              /\ RowAt(n + 1) = RowAt(n) + file.symbols[n + 1].rows
              /\ file.symbols[n + 1].cost \in Nat /\ file.symbols[n + 1].rows \in Nat
<1> DEFINE last == Len(file.symbols)
<1>1. last \in Nat /\ file.head \in Nat
  BY LosslessFacts
<1>2. \A n \in 0..last : /\ Total(Costs, n) \in Nat /\ Total(RowsOf, n) \in Nat
                         /\ Total(RowsOf, n) <= Total(RowsOf, last)
  BY <1>1, LosslessFacts, TotalIsNat, TotalGrows
<1>3. ASSUME NEW n \in 0..last - 1
      PROVE  /\ Total(Costs, n + 1) = Total(Costs, n) + file.symbols[n + 1].cost
             /\ Total(RowsOf, n + 1) = Total(RowsOf, n) + file.symbols[n + 1].rows
             /\ file.symbols[n + 1].cost \in Nat /\ file.symbols[n + 1].rows \in Nat
  <2>1. n \in Nat /\ n + 1 \in 1..last
    BY <1>1
  <2>2. /\ Costs[n + 1] = file.symbols[n + 1].cost /\ Costs[n + 1] \in Nat
        /\ RowsOf[n + 1] = file.symbols[n + 1].rows /\ RowsOf[n + 1] \in Nat
    BY <2>1, LosslessFacts
  <2> QED BY <2>1, <2>2, TotalStep
<1>4. Total(Costs, 0) = 0 /\ Total(RowsOf, 0) = 0
  BY TotalStep
<1> HIDE DEF last
<1>5. \A n : SymbolAt(n) = file.head + Total(Costs, n) /\ RowAt(n) = Total(RowsOf, n)
  BY DEF SymbolAt, RowAt
<1>6. ASSUME NEW n \in 0..last - 1
      PROVE  /\ SymbolAt(n + 1) = SymbolAt(n) + file.symbols[n + 1].cost
             /\ RowAt(n + 1) = RowAt(n) + file.symbols[n + 1].rows
             /\ file.symbols[n + 1].cost \in Nat /\ file.symbols[n + 1].rows \in Nat
  <2>1. n \in 0..last
    BY <1>1
  <2> QED BY <1>1, <1>2, <1>3, <1>5, <2>1
<1> QED BY <1>1, <1>2, <1>4, <1>5, <1>6 DEF last

(* A file is larger than its headers, and goes on past the beginning of its  *)
(* last partition.                                                           *)
LEMMA SizeFacts ==
  ASSUME Given
  PROVE  /\ FileSize \in Nat /\ FileSize >= file.payload + FrameHeaderSize
         /\ file.payload \in Nat /\ FrameHeaderSize \in Nat \ {0}
         /\ IsLossy => /\ FileSize = PartAt(file.parts)
                       /\ PartAt(file.parts - 1) < FileSize
<1>1. CASE IsLossy
  <2> DEFINE p == file.parts - 1
  <2>0. /\ file.parts \in Nat \ {0} /\ file.mb_w \in Nat \ {0} /\ MbH \in Nat
        /\ \A z \in 1..MbH : file.cost[z] \in Nat
    BY <1>1, LossyFacts
  <2>1. p \in 0..file.parts - 1 /\ p + 1 = file.parts
    BY <2>0
  <2>2. PICK y \in 1..MbH : file.cost[y] > 0 /\ (y - 1) % file.parts = p
    <3>1. file.cost \in Seq(Nat)
      BY <1>1, LossyFacts
    <3> QED BY <1>1, <3>1, FileAssumption DEF Given, IsLossy, MbH
  <2>3. file.mb_w * file.cost[y] > 0
    <3>1. \A a, b \in Nat \ {0} : a * b > 0
      OBVIOUS
    <3>2. file.cost[y] \in Nat \ {0} /\ file.mb_w \in Nat \ {0}
      BY <2>0, <2>2
    <3> QED BY <3>1, <3>2
  <2>4. y - 1 \in 0..MbH /\ y \in 0..MbH /\ y - 1 < MbH /\ y - 1 + 1 = y
    BY <2>0
  <2> HIDE DEF p
  <2>5. /\ Total(InPart(p), y - 1) \in Nat
        /\ Total(InPart(p), y) = Total(InPart(p), y - 1) + file.mb_w * file.cost[y]
        /\ Total(InPart(p), y) <= PartSize(p)
    BY <1>1, <2>1, <2>2, <2>4, PartFacts
  <2>6. PartSize(p) > 0
    <3>1. PartSize(p) \in Nat
      BY <1>1, <2>1, PartStarts
    <3>2. file.mb_w * file.cost[y] \in Nat
      <4>1. \A a, b \in Nat : a * b \in Nat
        OBVIOUS
      <4> QED BY <2>0, <2>2, <4>1
    <3> QED BY <2>3, <2>5, <3>1, <3>2
  <2>7. /\ PartAt(p) \in Nat /\ PartSize(p) \in Nat /\ PartAt(p) >= PartsAt
        /\ PartAt(file.parts) = PartAt(p) + PartSize(p)
    <3>1. p \in 0..file.parts
      BY <2>0, <2>1
    <3> QED BY <1>1, <2>1, <3>1, PartStarts
  <2>8. FileSize = PartAt(file.parts) /\ PartsAt >= file.payload + FrameHeaderSize
        /\ file.payload \in Nat /\ PartsAt \in Nat /\ FrameHeaderSize \in Nat \ {0}
    <3>1. /\ PartsAt = file.payload + FrameHeaderSize + file.part0 + file.parts - 1
          /\ FrameHeaderSize \in Nat \ {0} /\ file.payload \in Nat /\ file.part0 \in Nat
      BY <1>1, LossyFacts
    <3> QED BY <1>1, <2>0, <3>1 DEF FileSize
  <2> QED BY <1>1, <2>6, <2>7, <2>8 DEF p
<1>2. CASE ~IsLossy
  <2>1. /\ Len(file.symbols) \in 0..Len(file.symbols) /\ file.payload \in Nat
        /\ file.head \in Nat /\ FrameHeaderSize <= file.head /\ FrameHeaderSize \in Nat \ {0}
    BY <1>2, LosslessFacts
  <2>2. SymbolAt(Len(file.symbols)) \in Nat /\ SymbolAt(Len(file.symbols)) >= file.head
    BY <1>2, <2>1, SymbolPlaces
  <2> QED BY <1>2, <2>1, <2>2 DEF FileSize
<1> QED BY <1>1, <1>2

LEMMA PartsInOrder ==
  ASSUME Given, IsLossy
  PROVE  \A p \in 0..file.parts - 1 : PartAt(p) <= PartAt(file.parts - 1)
<1> DEFINE n == file.parts - 1
           S == {i \in Nat : i <= n => PartAt(n - i) <= PartAt(n)}
<1>1. n \in Nat /\ n + 1 = file.parts
  <2>1. file.parts \in Nat \ {0}
    BY LossyFacts
  <2> QED BY <2>1
<1>2. \A p \in 0..n : PartAt(p) \in Nat /\ PartSize(p) \in Nat
  BY <1>1, PartStarts
<1>3. \A p \in 0..n : PartAt(p + 1) = PartAt(p) + PartSize(p)
  BY <1>1, PartStarts
<1> HIDE DEF n
<1>4. 0 \in S
  BY <1>1, <1>2
<1>5. ASSUME NEW i \in Nat, i \in S PROVE i + 1 \in S
  <2> SUFFICES ASSUME i + 1 <= n PROVE PartAt(n - (i + 1)) <= PartAt(n)
    OBVIOUS
  <2>1. n - (i + 1) \in 0..n /\ n - (i + 1) + 1 = n - i /\ n - i \in 0..n /\ n \in 0..n
    BY <1>1
  <2>2. PartAt(n - i) <= PartAt(n)
    BY <1>1, <1>5
  <2>3. PartAt(n - i) = PartAt(n - (i + 1)) + PartSize(n - (i + 1))
    BY <1>3, <2>1
  <2> HIDE DEF S
  <2> QED BY <1>2, <2>1, <2>2, <2>3
<1> HIDE DEF S
<1>6. Nat \subseteq S
  BY <1>4, <1>5, SetInduction
<1>7. ASSUME NEW p \in 0..n PROVE PartAt(p) <= PartAt(n)
  <2>1. n - p \in Nat /\ n - p <= n /\ n - (n - p) = p
    BY <1>1
  <2>2. n - p \in S
    BY <1>6, <2>1
  <2> QED BY <2>1, <2>2 DEF S
<1> QED BY <1>7 DEF n

(* A buffer rounded up to CHUNK_SIZE has room for what it was asked for.     *)
LEMMA RoundedUpHolds ==
  ASSUME NEW n \in Nat
  PROVE  RoundedUp(n) \in Nat /\ RoundedUp(n) >= n
<1> DEFINE c == ChunkSize
           m == n + c - 1
<1>1. c \in Nat \ {0} /\ m \in Nat
  BY DecoderAssumption
<1>2. m = (m \div c) * c + (m % c) /\ m % c \in 0..c - 1 /\ m \div c \in Nat
  <2> HIDE DEF c, m
  <2> QED BY <1>1
<1>3. (m \div c) * c \in Nat
  <2>1. \A a, b \in Nat : a * b \in Nat
    OBVIOUS
  <2> HIDE DEF c, m
  <2> QED BY <1>1, <1>2, <2>1
<1>4. RoundedUp(n) = (m \div c) * c
  BY DEF RoundedUp
<1> QED BY <1>1, <1>2, <1>3, <1>4

-----------------------------------------------------------------------------
(* The decoder as a record.                                                  *)
Fields ==
  {"state", "status", "fault", "mode", "buf", "buf_size", "start", "end", "first",
   "part0_size", "part0_buf", "io_data", "io_size", "dec", "output", "slow",
   "set_up", "br", "parts", "alpha_data", "alpha_reader", "is_alpha_decoded",
   "mb_x", "mb_y", "last_mb_y", "job", "had_error", "last_y", "vp8l",
   "incremental", "last_pixel", "saved_pos", "saved_last_pixel",
   "next_sync_row", "last_row", "num_rows"}

IsIdec(i) == DOMAIN i = Fields /\ i = [f \in Fields |-> i[f]]

(* The names of its fields.                                                  *)
LEMMA FieldNames ==
  /\ "state" \in Fields /\ "status" \in Fields /\ "fault" \in Fields
  /\ "mode" \in Fields /\ "buf" \in Fields /\ "buf_size" \in Fields
  /\ "start" \in Fields /\ "end" \in Fields /\ "first" \in Fields
  /\ "part0_size" \in Fields /\ "part0_buf" \in Fields /\ "io_data" \in Fields
  /\ "io_size" \in Fields /\ "dec" \in Fields /\ "output" \in Fields
  /\ "slow" \in Fields /\ "set_up" \in Fields /\ "br" \in Fields
  /\ "parts" \in Fields /\ "alpha_data" \in Fields /\ "alpha_reader" \in Fields
  /\ "is_alpha_decoded" \in Fields /\ "mb_x" \in Fields /\ "mb_y" \in Fields
  /\ "last_mb_y" \in Fields /\ "job" \in Fields /\ "had_error" \in Fields
  /\ "last_y" \in Fields /\ "vp8l" \in Fields /\ "incremental" \in Fields
  /\ "last_pixel" \in Fields /\ "saved_pos" \in Fields /\ "saved_last_pixel" \in Fields
  /\ "next_sync_row" \in Fields /\ "last_row" \in Fields /\ "num_rows" \in Fields
BY DEF Fields

(* Positions in the file, and the pointers to them.                          *)
Pos(i) == i.first + i.start
Ptr(i, n) == i.buf + n - i.first

(* The memory, when the file is given up to g.                               *)
Mem(i, g) ==
  /\ i.buf \in Nat /\ i.buf_size \in Nat /\ i.start \in Nat /\ i.end \in Nat
  /\ i.first \in Nat
  /\ i.start <= i.end /\ i.end <= i.buf_size /\ i.first + i.end = g
  /\ i.mode \in {"none", "append", "map"}
  /\ i.mode = "none" => i.buf = Null
  /\ i.buf = Null => i.end = 0 /\ i.first = 0 /\ i.buf_size = 0
  /\ i.mode = "map" => i.first = 0

(* The alpha that is still compressed.                                       *)
Alpha(i) ==
  /\ i.is_alpha_decoded \in BOOLEAN
  /\ NeedCompressedAlpha(i) =>
       /\ IsLossy /\ Pos(i) >= file.payload
       /\ i.alpha_data = Ptr(i, AlphaAt) /\ i.first <= AlphaAt
       /\ i.alpha_reader \in {Null, i.alpha_data + 1}

(* The rows that came out.                                                   *)
Rows(i) ==
  /\ i.last_y \in 0..Height /\ i.job = NoJob /\ i.had_error \in BOOLEAN
  /\ i.num_rows \in 0..NumArgbCacheRows
  /\ ~IsLossy => i.last_y = i.last_row
  /\ i.set_up = IF i.state = "vp8_data" THEN 1 ELSE 0

(* Before the first row.                                                     *)
Fresh(i) ==
  /\ i.mb_x = 0 /\ i.mb_y = 0 /\ i.last_mb_y = -1 /\ ~i.had_error /\ i.last_y = 0
  /\ i.last_pixel = 0 /\ i.last_row = 0 /\ i.num_rows = 0

Unread(i) == /\ i.buf # Null /\ i.mode # "none"
             /\ i.io_data = i.buf + i.start /\ i.io_size = i.end - i.start

AtWebPHeader(i) ==
  /\ i.dec = "none" /\ Fresh(i) /\ Pos(i) = 0
  /\ i.alpha_data = Null /\ i.alpha_reader = Null /\ ~i.is_alpha_decoded

AtLossyHeaders(i) ==
  /\ IsLossy /\ i.dec = "lossy" /\ Fresh(i) /\ Pos(i) = file.payload /\ Unread(i)
  /\ i.state = "vp8_parts0" => i.part0_size = file.part0 + FrameHeaderSize

AtLosslessHeader(i) ==
  /\ ~IsLossy /\ i.dec = "lossless" /\ Fresh(i) /\ Pos(i) = file.payload /\ Unread(i)

(* Where partition p ends, or where as much of it ends as is there.          *)
EndAt(p, g) == IF p = file.parts - 1 THEN g ELSE PartAt(p + 1)

PartReaders(i, g) ==
  i.parts = [q \in 1..file.parts |->
               Reader(Ptr(i, MbAt(q - 1, i.mb_y, i.mb_x)), Ptr(i, EndAt(q - 1, g)))]

ModeReader(i) ==
  \E e \in Int :
    i.br = Reader((IF i.mode = "append" THEN Part0Base ELSE i.buf + Part0At + file.intro)
                    + i.last_mb_y + 1, e)

Unpassed(i) == \A p \in 0..file.parts - 1 : MbAt(p, i.mb_y, i.mb_x) >= Pos(i)

(* Among the macroblocks, between calls and, with a row in the worker, in    *)
(* the loop.                                                                 *)
AmongMacroblocks(i, g) ==
  /\ IsLossy /\ i.dec = "lossy" /\ i.output = "set"
  /\ i.buf # Null /\ i.mode \in {"append", "map"}
  /\ file.payload <= Pos(i)
  /\ i.mb_y \in 0..MbH /\ i.mb_x \in 0..file.mb_w - 1
  /\ i.mb_y = MbH => i.mb_x = 0
  /\ i.last_mb_y \in {i.mb_y - 1, i.mb_y}
  /\ PartReaders(i, g) /\ ModeReader(i) /\ Unpassed(i)
  /\ ~i.had_error /\ i.num_rows = 0

AtMacroblocks(i, g) ==
  AmongMacroblocks(i, g) /\ i.mb_y < MbH /\ i.last_y = i.mb_y

(* The rows that are out when m rows have been decoded.                      *)
BatchedRows(l, m) ==
  LET n == IF m < caller.crop_bottom THEN m ELSE caller.crop_bottom
  IN (\E q \in Nat : l = q * NumArgbCacheRows) /\ l <= n /\ n < l + NumArgbCacheRows

AtPixels(i) ==
  /\ ~IsLossy /\ i.dec = "lossless" /\ i.output = "set"
  /\ i.buf # Null /\ i.mode # "none" /\ Pos(i) = file.payload
  /\ i.last_pixel \in 0..Len(file.symbols)
  /\ i.vp8l = [buf |-> i.buf + i.start, len |-> i.end - i.start,
               pos |-> SymbolAt(i.last_pixel)]
  /\ \E m \in Nat : /\ Row(i) <= m /\ m - Row(i) < SyncEveryNRows
                    /\ BatchedRows(i.last_row, m)

States == {"webp_header", "vp8_header", "vp8_parts0", "vp8_data", "vp8l_header",
           "vp8l_data", "done", "error"}

Phase(i, g) ==
  /\ i.state \in States
  /\ i.state = "webp_header" => AtWebPHeader(i)
  /\ i.state \in {"vp8_header", "vp8_parts0"} => AtLossyHeaders(i)
  /\ i.state = "vp8l_header" => AtLosslessHeader(i)
  /\ i.state = "vp8_data" => AtMacroblocks(i, g)
  /\ i.state = "vp8l_data" => AtPixels(i)

Sound(i, g) == IsIdec(i) /\ Mem(i, g) /\ Alpha(i) /\ Rows(i) /\ Phase(i, g)

-----------------------------------------------------------------------------
(* What stays as it is.                                                      *)
SameFlow(i, j) ==
  /\ j.state = i.state /\ j.status = i.status /\ j.fault = i.fault /\ j.mode = i.mode
  /\ j.part0_size = i.part0_size /\ j.dec = i.dec /\ j.output = i.output
  /\ j.slow = i.slow /\ j.set_up = i.set_up /\ j.part0_buf = i.part0_buf

SameMem(i, j) ==
  /\ j.mode = i.mode /\ j.buf = i.buf /\ j.buf_size = i.buf_size
  /\ j.end = i.end /\ j.first = i.first

SameAlpha(i, j) ==
  /\ j.dec = i.dec /\ j.alpha_data = i.alpha_data /\ j.alpha_reader = i.alpha_reader
  /\ j.is_alpha_decoded = i.is_alpha_decoded

SamePlace(i, j) ==
  j.mb_x = i.mb_x /\ j.mb_y = i.mb_y /\ j.last_mb_y = i.last_mb_y

SameRows(i, j) ==
  /\ j.job = i.job /\ j.had_error = i.had_error /\ j.last_y = i.last_y
  /\ j.last_row = i.last_row /\ j.num_rows = i.num_rows

SamePixel(i, j) ==
  /\ j.last_pixel = i.last_pixel /\ j.incremental = i.incremental
  /\ j.saved_pos = i.saved_pos /\ j.saved_last_pixel = i.saved_last_pixel
  /\ j.next_sync_row = i.next_sync_row

SameReaders(i, j) == j.parts = i.parts /\ j.br = i.br /\ j.vp8l = i.vp8l

(* Only the fields of S change.                                              *)
Changes(i, j, S) == IsIdec(j) /\ \A f \in Fields \ S : j[f] = i[f]

(* A buffer that moves, or grows.                                            *)
Moved(i, j, d) ==
  /\ IsIdec(j)
  /\ SameFlow(i, j) /\ SamePlace(i, j) /\ SameRows(i, j) /\ SamePixel(i, j)
  /\ j.io_data = j.buf + j.start /\ j.io_size = j.end - j.start
  /\ j.is_alpha_decoded = i.is_alpha_decoded
  /\ j.alpha_data = IF NeedCompressedAlpha(i) THEN i.alpha_data + d ELSE i.alpha_data
  /\ j.alpha_reader = IF NeedCompressedAlpha(i) /\ i.alpha_reader # Null
                      THEN i.alpha_data + d + 1 ELSE i.alpha_reader

(* The readers of a buffer that moves.                                       *)
MovedParts(ps, end, d) ==
  LET a == [p \in DOMAIN ps |-> RemapBitReader(ps[p], d)]
  IN IF a = <<>> THEN a ELSE [a EXCEPT ![Len(a)].end = end]

MovedReader(r, mode, d) == IF mode = "map" THEN RemapBitReader(r, d) ELSE r

MovedPixels(v, buf, len) == [[v EXCEPT !.buf = buf] EXCEPT !.len = len]

(* Of a lossy decoder the remapping moves the readers of the partitions,     *)
(* and that of partition #0 when it reads the caller's memory.               *)
LEMMA RemapPartsMoves ==
  ASSUME NEW j, IsIdec(j), NEW d
  PROVE  /\ IsIdec(RemapParts(j, d)) /\ SameFlow(j, RemapParts(j, d))
         /\ SamePlace(j, RemapParts(j, d)) /\ SameRows(j, RemapParts(j, d))
         /\ SamePixel(j, RemapParts(j, d)) /\ SameMem(j, RemapParts(j, d))
         /\ SameAlpha(j, RemapParts(j, d)) /\ RemapParts(j, d).start = j.start
         /\ RemapParts(j, d).io_data = j.io_data /\ RemapParts(j, d).io_size = j.io_size
         /\ RemapParts(j, d).vp8l = j.vp8l
         /\ RemapParts(j, d).parts = MovedParts(j.parts, j.buf + j.end, d)
         /\ RemapParts(j, d).br = MovedReader(j.br, j.mode, d)
<1> DEFINE k == RemapParts(j, d)
           M(q) == RemapBitReader(q, d)
           a == [p \in DOMAIN j.parts |-> M(j.parts[p])]
           b == IF j.mode = "map" THEN M(j.br) ELSE j.br
           m == [j EXCEPT !.parts = a, !.br = b]
           c == [a EXCEPT ![Len(a)].end = j.buf + j.end]
           n == [m EXCEPT !.parts = c]
<1>1. k = IF a = <<>> THEN m ELSE n
  <2>1. m.parts = a
    BY DEF IsIdec, Fields
  <2> QED BY <2>1 DEF RemapParts
<1>2. /\ MovedParts(j.parts, j.buf + j.end, d) = (IF a = <<>> THEN a ELSE c)
      /\ MovedReader(j.br, j.mode, d) = b
  BY DEF MovedParts, MovedReader
<1> HIDE DEF M, a, b, c
<1>3. /\ IsIdec(m) /\ SameFlow(j, m) /\ SamePlace(j, m) /\ SameRows(j, m)
      /\ SamePixel(j, m) /\ SameMem(j, m) /\ SameAlpha(j, m) /\ m.start = j.start
      /\ m.io_data = j.io_data /\ m.io_size = j.io_size /\ m.vp8l = j.vp8l
      /\ m.parts = a /\ m.br = b
  <2>1. IsIdec(j) /\ m = [j EXCEPT !.parts = a, !.br = b]
    OBVIOUS
  <2> HIDE DEF m
  <2>2. Changes(j, m, {"parts", "br"})
    BY <2>1 DEF Changes, IsIdec
  <2>3. m.parts = a /\ m.br = b
    BY <2>1 DEF IsIdec, Fields
  <2> QED
    BY <2>2, <2>3 DEF Changes, Fields, SameFlow, SamePlace, SameRows, SamePixel, SameMem, SameAlpha
<1> HIDE DEF m
<1>4. /\ IsIdec(n) /\ SameFlow(m, n) /\ SamePlace(m, n) /\ SameRows(m, n)
      /\ SamePixel(m, n) /\ SameMem(m, n) /\ SameAlpha(m, n) /\ n.start = m.start
      /\ n.io_data = m.io_data /\ n.io_size = m.io_size /\ n.vp8l = m.vp8l
      /\ n.parts = c /\ n.br = m.br
  <2>1. Changes(m, n, {"parts"})
    BY <1>3 DEF Changes, IsIdec
  <2>2. n.parts = c
    BY <1>3 DEF IsIdec, Fields
  <2> HIDE DEF n
  <2> QED
    BY <2>1, <2>2 DEF Changes, Fields, SameFlow, SamePlace, SameRows, SamePixel, SameMem, SameAlpha
<1> HIDE DEF n, k
<1>5. CASE a = <<>>
  <2>1. k = m
    BY <1>1, <1>5
  <2> QED BY <1>2, <1>3, <1>5, <2>1 DEF k
<1>6. CASE a # <<>>
  <2>1. k = n
    BY <1>1, <1>6
  <2> QED
    BY <1>2, <1>3, <1>4, <1>6, <2>1
    DEF k, SameFlow, SamePlace, SameRows, SamePixel, SameMem, SameAlpha
<1> QED BY <1>5, <1>6

(* DoRemap, for each kind of decoder: what it moves and what it leaves.      *)
LEMMA RemapMoves ==
  ASSUME NEW i, IsIdec(i), NEW d, i.dec \in {"none", "lossy", "lossless"}
  PROVE  /\ Moved(i, DoRemap(i, d), d) /\ SameMem(i, DoRemap(i, d))
         /\ DoRemap(i, d).start = i.start
         /\ i.dec = "lossless" =>
              DoRemap(i, d).vp8l = MovedPixels(i.vp8l, i.buf + i.start, i.end - i.start)
         /\ i.dec = "lossy" =>
              /\ DoRemap(i, d).parts = MovedParts(i.parts, i.buf + i.end, d)
              /\ DoRemap(i, d).br = MovedReader(i.br, i.mode, d)
<1> DEFINE j == [i EXCEPT !.io_data = i.buf + i.start, !.io_size = MemDataSize(i)]
<1>1. /\ IsIdec(j) /\ SameFlow(i, j) /\ SamePlace(i, j) /\ SameRows(i, j)
      /\ SamePixel(i, j) /\ SameMem(i, j) /\ SameAlpha(i, j) /\ j.start = i.start
      /\ j.io_data = i.buf + i.start /\ j.io_size = i.end - i.start
      /\ j.vp8l = i.vp8l /\ j.parts = i.parts /\ j.br = i.br
  <2> DEFINE at == i.buf + i.start
             size == MemDataSize(i)
  <2>1. j = [i EXCEPT !.io_data = at, !.io_size = size] /\ size = i.end - i.start
    BY DEF MemDataSize
  <2> HIDE DEF at, size, j
  <2>2. Changes(i, j, {"io_data", "io_size"})
    BY <2>1 DEF Changes, IsIdec
  <2>3. j.io_data = at /\ j.io_size = size
    BY <2>1 DEF IsIdec, Fields
  <2> QED
    BY <2>1, <2>2, <2>3
    DEF at, Changes, Fields, SameFlow, SamePlace, SameRows, SamePixel, SameMem, SameAlpha
<1> HIDE DEF j
<1>2. MemDataSize(i) = i.end - i.start
  BY DEF MemDataSize
<1>3. NeedCompressedAlpha(j) = NeedCompressedAlpha(i)
  BY <1>1 DEF NeedCompressedAlpha, SameFlow, SameAlpha
<1>4. CASE i.dec = "none"
  <2>1. DoRemap(i, d) = j /\ ~NeedCompressedAlpha(i)
    BY <1>1, <1>4 DEF DoRemap, j, SameFlow, NeedCompressedAlpha
  <2> QED BY <1>1, <1>4, <2>1 DEF Moved, SameAlpha, SameMem
<1>5. CASE i.dec = "lossless"
  <2> DEFINE k == [j EXCEPT !.vp8l.buf = j.io_data, !.vp8l.len = j.io_size]
  <2>1. DoRemap(i, d) = k /\ ~NeedCompressedAlpha(i)
    BY <1>1, <1>5 DEF DoRemap, j, SameFlow, NeedCompressedAlpha
  <2>2. /\ IsIdec(k) /\ SameFlow(j, k) /\ SamePlace(j, k) /\ SameRows(j, k)
        /\ SamePixel(j, k) /\ SameMem(j, k) /\ SameAlpha(j, k) /\ k.start = j.start
        /\ k.io_data = j.io_data /\ k.io_size = j.io_size
        /\ k.vp8l = [[j.vp8l EXCEPT !.buf = j.io_data] EXCEPT !.len = j.io_size]
        /\ k.parts = j.parts /\ k.br = j.br
    <3> DEFINE u == [j.vp8l EXCEPT !.buf = j.io_data]
               v == [u EXCEPT !.len = j.io_size]
               l == [j EXCEPT !.vp8l = u]
               m == [l EXCEPT !.vp8l = v]
    <3>1. k = [l EXCEPT !.vp8l = [l.vp8l EXCEPT !.len = j.io_size]]
      OBVIOUS
    <3> HIDE DEF u, k
    <3>2. l.vp8l = u
      BY <1>1 DEF IsIdec, Fields
    <3>3. k = m
      BY <3>1, <3>2
    <3> HIDE DEF v
    <3>4. /\ IsIdec(l) /\ SameFlow(j, l) /\ SamePlace(j, l) /\ SameRows(j, l)
          /\ SamePixel(j, l) /\ SameMem(j, l) /\ SameAlpha(j, l) /\ l.start = j.start
          /\ l.io_data = j.io_data /\ l.io_size = j.io_size
          /\ l.parts = j.parts /\ l.br = j.br
      <4>1. Changes(j, l, {"vp8l"})
        BY <1>1 DEF Changes, IsIdec
      <4> HIDE DEF l
      <4> QED
        BY <4>1 DEF Changes, Fields, SameFlow, SamePlace, SameRows, SamePixel, SameMem, SameAlpha
    <3> HIDE DEF l
    <3>5. /\ IsIdec(m) /\ SameFlow(l, m) /\ SamePlace(l, m) /\ SameRows(l, m)
          /\ SamePixel(l, m) /\ SameMem(l, m) /\ SameAlpha(l, m) /\ m.start = l.start
          /\ m.io_data = l.io_data /\ m.io_size = l.io_size
          /\ m.parts = l.parts /\ m.br = l.br /\ m.vp8l = v
      <4>1. Changes(l, m, {"vp8l"})
        BY <3>4 DEF Changes, IsIdec
      <4>2. m.vp8l = v
        BY <3>4 DEF IsIdec, Fields
      <4> HIDE DEF m
      <4> QED
        BY <4>1, <4>2
        DEF Changes, Fields, SameFlow, SamePlace, SameRows, SamePixel, SameMem, SameAlpha
    <3> HIDE DEF m
    <3> QED BY <3>3, <3>4, <3>5 DEF v, u, SameFlow, SamePlace, SameRows, SamePixel, SameMem, SameAlpha
  <2> HIDE DEF k
  <2>3. SameFlow(i, k) /\ SamePlace(i, k) /\ SameRows(i, k) /\ SamePixel(i, k)
        /\ SameMem(i, k) /\ SameAlpha(i, k)
    BY <1>1, <2>2 DEF SameFlow, SamePlace, SameRows, SamePixel, SameMem, SameAlpha
  <2> QED BY <1>1, <1>5, <2>1, <2>2, <2>3 DEF Moved, MovedPixels, SameAlpha, SameMem
<1>6. CASE i.dec = "lossy"
  <2> DEFINE k == RemapParts(j, d)
  <2>1. /\ IsIdec(k) /\ SameFlow(j, k) /\ SamePlace(j, k) /\ SameRows(j, k)
        /\ SamePixel(j, k) /\ SameMem(j, k) /\ SameAlpha(j, k) /\ k.start = j.start
        /\ k.io_data = j.io_data /\ k.io_size = j.io_size
        /\ k.parts = MovedParts(j.parts, j.buf + j.end, d)
        /\ k.br = MovedReader(j.br, j.mode, d)
    BY <1>1, RemapPartsMoves
  <2>2. DoRemap(i, d) = RemapAlpha(k, d)
    BY <1>1, <1>6 DEF DoRemap, j, SameFlow
  <2> HIDE DEF k
  <2>3. /\ SameFlow(i, k) /\ SamePlace(i, k) /\ SameRows(i, k) /\ SamePixel(i, k)
        /\ SameMem(i, k) /\ SameAlpha(i, k) /\ k.start = i.start
        /\ k.io_data = i.buf + i.start /\ k.io_size = i.end - i.start
        /\ k.parts = MovedParts(i.parts, i.buf + i.end, d)
        /\ k.br = MovedReader(i.br, i.mode, d)
    BY <1>1, <2>1 DEF SameFlow, SamePlace, SameRows, SamePixel, SameMem, SameAlpha
  <2>4. NeedCompressedAlpha(k) = NeedCompressedAlpha(i)
    BY <2>3 DEF NeedCompressedAlpha, SameFlow, SameAlpha
  <2>5. CASE ~NeedCompressedAlpha(i)
    <3>1. DoRemap(i, d) = k
      BY <2>2, <2>4, <2>5 DEF RemapAlpha
    <3> QED BY <1>6, <2>1, <2>3, <2>5, <3>1 DEF Moved, SameAlpha, SameMem
  <2>6. CASE NeedCompressedAlpha(i)
    <3> DEFINE ad == k.alpha_data + d
               ar == IF k.alpha_reader = Null THEN Null ELSE k.alpha_data + d + 1
               m == [k EXCEPT !.alpha_data = ad, !.alpha_reader = ar]
    <3>1. DoRemap(i, d) = m
      BY <2>2, <2>4, <2>6 DEF RemapAlpha
    <3>2. ad = i.alpha_data + d /\ ar = IF i.alpha_reader = Null THEN i.alpha_reader
                                        ELSE i.alpha_data + d + 1
      BY <2>3 DEF SameAlpha
    <3> HIDE DEF ad, ar
    <3>3. /\ IsIdec(m) /\ SameFlow(k, m) /\ SamePlace(k, m) /\ SameRows(k, m)
          /\ SamePixel(k, m) /\ SameMem(k, m) /\ m.start = k.start
          /\ m.io_data = k.io_data /\ m.io_size = k.io_size
          /\ m.parts = k.parts /\ m.br = k.br
          /\ m.alpha_data = ad /\ m.alpha_reader = ar
          /\ m.is_alpha_decoded = k.is_alpha_decoded
      <4>1. IsIdec(k) /\ m = [k EXCEPT !.alpha_data = ad, !.alpha_reader = ar]
        BY <2>1
      <4> HIDE DEF m
      <4>2. Changes(k, m, {"alpha_data", "alpha_reader"})
        BY <4>1 DEF Changes, IsIdec
      <4>3. m.alpha_data = ad /\ m.alpha_reader = ar
        BY <4>1 DEF IsIdec, Fields
      <4> QED
        BY <4>2, <4>3 DEF Changes, Fields, SameFlow, SamePlace, SameRows, SamePixel, SameMem
    <3> HIDE DEF m
    <3> QED
      BY <1>6, <2>3, <2>6, <3>1, <3>2, <3>3
      DEF Moved, SameFlow, SamePlace, SameRows, SamePixel, SameMem, SameAlpha
  <2> QED BY <2>5, <2>6
<1> QED BY <1>4, <1>5, <1>6

(* Among the macroblocks, every reader moves with its bytes.                 *)
LEMMA PartsMove ==
  ASSUME Given, IsLossy, NEW i, NEW g, NEW h, NEW k, NEW d \in Int,
         AmongMacroblocks(i, g), Mem(i, g), Mem(k, h), k.buf # Null,
         Pos(k) = Pos(i), d = k.buf + k.start - (i.buf + i.start)
  PROVE  /\ MovedParts(i.parts, k.buf + k.end, d) =
              [q \in 1..file.parts |->
                 Reader(Ptr(k, MbAt(q - 1, i.mb_y, i.mb_x)), Ptr(k, EndAt(q - 1, h)))]
<1> DEFINE n == file.parts
           b == [q \in 1..n |-> Ptr(i, MbAt(q - 1, i.mb_y, i.mb_x))]
           e == [q \in 1..n |-> Ptr(i, EndAt(q - 1, g))]
           c == [q \in 1..n |-> Ptr(k, MbAt(q - 1, i.mb_y, i.mb_x))]
           f == [q \in 1..n |-> Ptr(k, EndAt(q - 1, h))]
           a == [q \in 1..n |-> RemapBitReader(i.parts[q], d)]
<1>1. n \in Nat \ {0}
  BY LossyFacts
<1>2. i.parts = [q \in 1..n |-> Reader(b[q], e[q])]
  BY DEF AmongMacroblocks, PartReaders
<1>3. /\ i.buf \in Nat /\ i.start \in Nat /\ i.end \in Nat /\ i.first \in Nat
      /\ k.buf \in Nat /\ k.start \in Nat /\ k.end \in Nat /\ k.first \in Nat
      /\ i.first + i.end = g /\ k.first + k.end = h /\ i.buf # Null
      /\ k.first + k.start = i.first + i.start
  BY DEF Mem, AmongMacroblocks, Pos
<1>4. /\ \A p \in 0..n - 1 : MbAt(p, i.mb_y, i.mb_x) \in Nat
      /\ \A p \in 0..n - 1 : MbAt(p, i.mb_y, i.mb_x) >= i.first + i.start
      /\ \A p \in 1..n : PartAt(p) \in Nat
  <2>1. i.mb_y \in 0..MbH /\ i.mb_x \in Nat
    BY LossyFacts DEF AmongMacroblocks
  <2>2. \A p \in 0..n - 1 : MbAt(p, i.mb_y, i.mb_x) \in Nat
    BY <2>1, MbPlaces
  <2>3. \A p \in 1..n : PartAt(p) \in Nat
    BY <1>1, PartStarts
  <2> QED BY <2>2, <2>3 DEF AmongMacroblocks, Unpassed, Pos
<1>m. ASSUME NEW m \in Nat
      PROVE  /\ Ptr(i, m) \in Int /\ Ptr(i, m) + d = Ptr(k, m)
             /\ m >= i.first + i.start => Ptr(i, m) \in Nat \ {0} /\ Ptr(k, m) \in Nat \ {0}
  <2>1. PICK ib \in Nat, is \in Nat, ia \in Nat, kb \in Nat, ks \in Nat, kf \in Nat :
          /\ ib = i.buf /\ is = i.start /\ ia = i.first
          /\ kb = k.buf /\ ks = k.start /\ kf = k.first
    BY <1>3
  <2>2. ib # 0 /\ kb # 0 /\ kf + ks = ia + is /\ d = kb + ks - (ib + is)
    BY <1>3, <2>1 DEF Null
  <2>3. /\ ib + m - ia \in Int /\ ib + m - ia + d = kb + m - kf
        /\ m >= ia + is => ib + m - ia \in Nat \ {0} /\ kb + m - kf \in Nat \ {0}
    BY <2>2
  <2> QED BY <2>1, <2>3 DEF Ptr
<1>5. ASSUME NEW q \in 1..n
      PROVE  /\ b[q] \in Nat \ {0} /\ b[q] + d = c[q] /\ c[q] \in Nat \ {0}
             /\ q # n => e[q] \in Int /\ e[q] + d = f[q]
             /\ q = n => f[q] = k.buf + k.end
  <2>1. /\ q - 1 \in 0..n - 1 /\ MbAt(q - 1, i.mb_y, i.mb_x) \in Nat
        /\ MbAt(q - 1, i.mb_y, i.mb_x) >= i.first + i.start
    BY <1>1, <1>4
  <2>2. b[q] \in Nat \ {0} /\ b[q] + d = c[q] /\ c[q] \in Nat \ {0}
    BY <1>m, <2>1
  <2>3. ASSUME q # n PROVE e[q] \in Int /\ e[q] + d = f[q]
    <3>1. e[q] = Ptr(i, PartAt(q)) /\ f[q] = Ptr(k, PartAt(q))
      BY <1>1, <2>3 DEF EndAt
    <3> QED BY <1>m, <1>4, <3>1
  <2>4. ASSUME q = n PROVE f[q] = k.buf + k.end
    <3>1. f[q] = k.buf + h - k.first
      BY <1>1, <2>4 DEF Ptr, EndAt
    <3> QED BY <1>3, <3>1
  <2> QED BY <2>2, <2>3, <2>4
<1> HIDE DEF b, e, c, f
<1>6. ASSUME NEW q \in 1..n
      PROVE  a[q] = Reader(c[q], IF q = n THEN e[q] + d ELSE f[q])
  BY <1>2, <1>5 DEF RemapBitReader, Reader, Null
<1>7. a = [q \in 1..n |-> Reader(c[q], IF q = n THEN e[q] + d ELSE f[q])]
  BY <1>6
<1>8. a = [p \in DOMAIN i.parts |-> RemapBitReader(i.parts[p], d)]
  BY <1>2
<1> HIDE DEF a
<1>9. a # <<>> /\ Len(a) = n
  <2>1. DOMAIN a = 1..n
    BY <1>7
  <2> DEFINE r(q) == Reader(c[q], IF q = n THEN e[q] + d ELSE f[q])
             R == {r(q) : q \in 1..n}
  <2>2. a = [q \in 1..n |-> r(q)] /\ \A q \in 1..n : r(q) \in R
    BY <1>7
  <2> HIDE DEF r, R
  <2>3. a \in Seq(R)
    BY <1>1, <2>2
  <2> QED BY <1>1, <2>1, <2>3
<1>10. MovedParts(i.parts, k.buf + k.end, d) = [a EXCEPT ![n].end = k.buf + k.end]
  BY <1>8, <1>9 DEF MovedParts
<1>11. [a EXCEPT ![n].end = k.buf + k.end] = [q \in 1..n |-> Reader(c[q], f[q])]
  <2> DEFINE v == [a EXCEPT ![n].end = k.buf + k.end]
  <2>1. v = [q \in 1..n |-> IF q = n THEN [a[n] EXCEPT !.end = k.buf + k.end] ELSE a[q]]
    BY <1>1, <1>7
  <2>2. [a[n] EXCEPT !.end = k.buf + k.end] = Reader(c[n], f[n])
    <3>1. n \in 1..n /\ f[n] = k.buf + k.end
      BY <1>1, <1>5
    <3>2. a[n] = Reader(c[n], e[n] + d)
      BY <1>7, <3>1
    <3> QED BY <3>1, <3>2 DEF Reader
  <2>3. \A q \in 1..n : q # n => a[q] = Reader(c[q], f[q])
    BY <1>7
  <2> HIDE DEF v
  <2>4. v = [q \in 1..n |-> Reader(c[q], f[q])]
    BY <2>1, <2>2, <2>3
  <2> QED BY <2>4 DEF v
<1> QED BY <1>10, <1>11 DEF c, f

(* The decoder is sound in a buffer that has moved, or has grown.            *)
LEMMA MoveIsSound ==
  ASSUME Given, NEW i, NEW g, NEW h, NEW j, NEW d, Sound(i, g),
         i.state \notin {"done", "error"},
         IsIdec(j), SameFlow(i, j), SamePlace(i, j), SameRows(i, j), SamePixel(i, j),
         SameAlpha(i, j), SameReaders(i, j),
         Mem(j, h), Pos(j) = Pos(i), i.buf # Null => j.buf # Null,
         NeedCompressedAlpha(i) => j.first <= AlphaAt,
         d = j.buf + j.start - (IF i.buf = Null THEN Null ELSE i.buf + i.start)
  PROVE  /\ Sound(DoRemap(j, d), h)
         /\ DoRemap(j, d).state = i.state /\ DoRemap(j, d).last_y = i.last_y
<1> DEFINE k == DoRemap(j, d)
<1>1. i.dec \in {"none", "lossy", "lossless"}
  BY DEF Sound, Phase, States, AtWebPHeader, AtLossyHeaders, AtLosslessHeader,
         AtMacroblocks, AmongMacroblocks, AtPixels
<1>2. /\ Moved(j, k, d) /\ SameMem(j, k) /\ k.start = j.start
      /\ i.dec = "lossless" =>
           k.vp8l = MovedPixels(i.vp8l, j.buf + j.start, j.end - j.start)
      /\ i.dec = "lossy" => /\ k.parts = MovedParts(i.parts, j.buf + j.end, d)
                            /\ k.br = MovedReader(i.br, i.mode, d)
  <2>1. j.dec = i.dec /\ j.parts = i.parts /\ j.br = i.br /\ j.vp8l = i.vp8l /\ j.mode = i.mode
    BY DEF SameFlow, SameReaders
  <2>2. /\ Moved(j, k, d) /\ SameMem(j, k) /\ k.start = j.start
        /\ j.dec = "lossless" =>
             k.vp8l = MovedPixels(j.vp8l, j.buf + j.start, j.end - j.start)
        /\ j.dec = "lossy" => /\ k.parts = MovedParts(j.parts, j.buf + j.end, d)
                              /\ k.br = MovedReader(j.br, j.mode, d)
    <3>1. j.dec \in {"none", "lossy", "lossless"}
      BY <1>1, <2>1
    <3>2. Moved(j, DoRemap(j, d), d)
      BY <3>1, RemapMoves
    <3>3. SameMem(j, DoRemap(j, d)) /\ DoRemap(j, d).start = j.start
      BY <3>1, RemapMoves
    <3>4. j.dec = "lossless" =>
             DoRemap(j, d).vp8l = MovedPixels(j.vp8l, j.buf + j.start, j.end - j.start)
      BY <3>1, RemapMoves
    <3>5. j.dec = "lossy" => /\ DoRemap(j, d).parts = MovedParts(j.parts, j.buf + j.end, d)
                              /\ DoRemap(j, d).br = MovedReader(j.br, j.mode, d)
      BY <3>1, RemapMoves
    <3> QED BY <3>2, <3>3, <3>4, <3>5 DEF k
  <2> HIDE DEF k
  <2> QED BY <2>1, <2>2
<1> HIDE DEF k
<1>3. /\ IsIdec(k) /\ SameFlow(i, k) /\ SamePlace(i, k) /\ SameRows(i, k)
      /\ SamePixel(i, k)
  BY <1>2 DEF Moved, SameFlow, SamePlace, SameRows, SamePixel
<1>4. Mem(k, h) /\ Pos(k) = Pos(i)
  BY <1>2 DEF SameMem, Mem, Pos
<1>5. Rows(k)
  BY <1>3 DEF Sound, Rows, SameRows, SameFlow
<1>6. NeedCompressedAlpha(j) = NeedCompressedAlpha(i)
  BY DEF NeedCompressedAlpha, SameFlow, SameAlpha
<1>7. Alpha(k)
  <2>1. CASE ~NeedCompressedAlpha(i)
    <3>1. k.alpha_data = i.alpha_data /\ k.is_alpha_decoded = i.is_alpha_decoded
      BY <1>2, <1>6, <2>1 DEF Moved, SameAlpha
    <3>2. ~NeedCompressedAlpha(k)
      BY <1>3, <2>1, <3>1 DEF NeedCompressedAlpha, SameFlow
    <3> QED BY <3>1, <3>2 DEF Alpha, Sound
  <2>2. CASE NeedCompressedAlpha(i)
    <3>1. /\ IsLossy /\ i.alpha_data = Ptr(i, AlphaAt)
          /\ i.alpha_reader \in {Null, i.alpha_data + 1} /\ Pos(i) >= file.payload
          /\ i.is_alpha_decoded \in BOOLEAN
      BY <2>2 DEF Sound, Alpha
    <3>2. /\ k.alpha_data = i.alpha_data + d /\ k.is_alpha_decoded = i.is_alpha_decoded
          /\ k.alpha_reader = IF i.alpha_reader # Null THEN i.alpha_data + d + 1
                              ELSE Null
      BY <1>2, <1>6, <2>2 DEF Moved, SameAlpha
    <3>3. AlphaAt \in Nat
      BY <3>1, LossyFacts
    <3>4. i.buf # Null
      <4>1. i.state # "webp_header" /\ i.dec = "lossy"
        BY <2>2 DEF NeedCompressedAlpha
      <4> QED
        BY <4>1 DEF Sound, Phase, States, AtLossyHeaders, Unread, AtLosslessHeader,
                    AtMacroblocks, AmongMacroblocks, AtPixels
    <3>5. k.first = j.first /\ k.buf = j.buf /\ k.start = j.start
      BY <1>2 DEF SameMem
    <3>6. Ptr(i, AlphaAt) + d = Ptr(k, AlphaAt)
      <4>1. PICK ib \in Nat, is \in Nat, ia \in Nat, kb \in Nat, ks \in Nat, kf \in Nat,
                 m \in Nat :
              /\ ib = i.buf /\ is = i.start /\ ia = i.first /\ m = AlphaAt
              /\ kb = k.buf /\ ks = k.start /\ kf = k.first
        BY <1>4, <3>3 DEF Sound, Mem
      <4>2. kf + ks = ia + is /\ d = kb + ks - (ib + is)
        BY <1>4, <3>4, <3>5, <4>1 DEF Pos
      <4>3. ib + m - ia + d = kb + m - kf
        BY <4>2
      <4> QED BY <4>1, <4>3 DEF Ptr
    <3>7. k.first <= AlphaAt
      BY <2>2, <3>5
    <3> QED BY <1>4, <3>1, <3>2, <3>6, <3>7 DEF Alpha
  <2> QED BY <2>1, <2>2
<1>8. Phase(k, h)
  <2>0. k.state = i.state /\ k.dec = i.dec /\ k.mode = i.mode
        /\ (i.buf # Null => k.buf # Null)
    BY <1>2, <1>3 DEF SameFlow, SameMem
  <2>f. Fresh(i) => Fresh(k)
    BY <1>3 DEF Fresh, SamePlace, SameRows, SamePixel
  <2>u. Unread(i) => Unread(k)
    BY <1>2, <2>0 DEF Unread, Moved, SameMem
  <2>1. CASE i.state = "webp_header"
    <3>1. ~NeedCompressedAlpha(i)
      BY <2>1 DEF NeedCompressedAlpha
    <3>2. AtWebPHeader(i)
      BY <2>1 DEF Sound, Phase
    <3>3. AtWebPHeader(k)
      BY <1>2, <1>4, <1>6, <2>0, <2>f, <3>1, <3>2 DEF AtWebPHeader, Moved, SameAlpha
    <3> QED BY <2>0, <2>1, <3>3 DEF Phase, States
  <2>2. CASE i.state \in {"vp8_header", "vp8_parts0"}
    <3>1. AtLossyHeaders(i)
      BY <2>2 DEF Sound, Phase
    <3>2. AtLossyHeaders(k)
      BY <1>3, <1>4, <2>0, <2>f, <2>u, <3>1 DEF AtLossyHeaders, SameFlow
    <3> QED BY <2>0, <2>2, <3>2 DEF Phase, States
  <2>3. CASE i.state = "vp8l_header"
    <3>1. AtLosslessHeader(i)
      BY <2>3 DEF Sound, Phase
    <3>2. AtLosslessHeader(k)
      BY <1>3, <1>4, <2>0, <2>f, <2>u, <3>1 DEF AtLosslessHeader
    <3> QED BY <2>0, <2>3, <3>2 DEF Phase, States
  <2>4. CASE i.state = "vp8_data"
    <3>1. AmongMacroblocks(i, g) /\ i.mb_y < MbH /\ i.last_y = i.mb_y /\ Mem(i, g)
      BY <2>4 DEF Sound, Phase, AtMacroblocks
    <3>2. IsLossy /\ i.dec = "lossy" /\ i.buf # Null /\ i.mode \in {"append", "map"}
      BY <3>1 DEF AmongMacroblocks
    <3>3. /\ k.buf = j.buf /\ k.end = j.end /\ k.start = j.start /\ k.first = j.first
          /\ d = k.buf + k.start - (i.buf + i.start) /\ k.buf # Null
      BY <1>2, <3>2 DEF SameMem
    <3>4. d \in Int
      BY <1>4, <3>1, <3>3 DEF Mem
    <3>5. k.parts = [q \in 1..file.parts |->
                      Reader(Ptr(k, MbAt(q - 1, i.mb_y, i.mb_x)), Ptr(k, EndAt(q - 1, h)))]
      BY <1>2, <1>4, <3>1, <3>2, <3>3, <3>4, PartsMove
    <3>6. PartReaders(k, h)
      BY <1>3, <3>5 DEF PartReaders, SamePlace
    <3>7. Unpassed(k)
      BY <1>3, <1>4, <3>1 DEF AmongMacroblocks, Unpassed, SamePlace
    <3>8. ModeReader(k)
      <4>1. PICK e \in Int :
              i.br = Reader((IF i.mode = "append" THEN Part0Base
                             ELSE i.buf + Part0At + file.intro) + i.last_mb_y + 1, e)
        BY <3>1 DEF AmongMacroblocks, ModeReader
      <4>2. k.br = MovedReader(i.br, i.mode, d) /\ k.last_mb_y = i.last_mb_y
        BY <1>2, <1>3, <3>2 DEF SamePlace
      <4>3. CASE i.mode = "append"
        BY <2>0, <4>1, <4>2, <4>3 DEF MovedReader, ModeReader
      <4>4. CASE i.mode = "map"
        <5>1. PICK ib \in Nat, is \in Nat, kb \in Nat, ks \in Nat, at \in Nat,
                   in \in Nat, y \in Int :
                /\ ib = i.buf /\ is = i.start /\ kb = k.buf /\ ks = k.start
                /\ at = Part0At /\ in = file.intro /\ y = i.last_mb_y /\ y >= -1
          <6>1. Part0At \in Nat /\ file.intro \in Nat
            BY <3>2, LossyNumbers
          <6>2. i.last_mb_y \in Int /\ i.last_mb_y >= -1
            <7>1. MbH \in Nat
              BY <3>2, LossyFacts
            <7> QED BY <3>1, <7>1 DEF AmongMacroblocks
          <6> QED BY <1>4, <3>1, <6>1, <6>2 DEF Mem
        <5>2. i.first = 0 /\ k.first = 0
          BY <1>4, <2>0, <3>1, <4>4 DEF Mem
        <5>3. ks = is /\ d = kb - ib /\ ib > 0
          <6>2. i.buf # 0
            BY <3>2 DEF Null
          <6>3. ks = is
            BY <1>4, <5>1, <5>2 DEF Pos
          <6>4. d = kb + ks - (ib + is)
            BY <3>3, <5>1
          <6> QED BY <5>1, <6>2, <6>3, <6>4
        <5> DEFINE r == ib + at + in + y + 1
        <5>4. i.br = Reader(r, e)
          BY <4>1, <4>4, <5>1
        <5>5. r # Null /\ r + d = kb + at + in + y + 1 /\ e + d \in Int
          BY <5>1, <5>3 DEF Null
        <5> HIDE DEF r
        <5>6. k.br = Reader(kb + at + in + y + 1, e + d)
          BY <4>2, <4>4, <5>4, <5>5 DEF MovedReader, RemapBitReader, Reader
        <5>7. k.br = Reader((IF k.mode = "append" THEN Part0Base
                             ELSE k.buf + Part0At + file.intro) + k.last_mb_y + 1, e + d)
          BY <2>0, <4>2, <4>4, <5>1, <5>6
        <5> QED BY <5>5, <5>7 DEF ModeReader
      <4> QED BY <3>2, <4>3, <4>4
    <3>9. AmongMacroblocks(k, h)
      BY <1>3, <1>4, <2>0, <3>1, <3>3, <3>6, <3>7, <3>8
      DEF AmongMacroblocks, SamePlace, SameRows, SameFlow
    <3> QED
      BY <1>3, <2>0, <2>4, <3>1, <3>9
      DEF Phase, States, AtMacroblocks, SamePlace, SameRows
  <2>5. CASE i.state = "vp8l_data"
    <3>1. AtPixels(i)
      BY <2>5 DEF Sound, Phase
    <3>2. k.vp8l = [buf |-> k.buf + k.start, len |-> k.end - k.start,
                    pos |-> SymbolAt(i.last_pixel)]
      <4>1. PICK b, l, s : i.vp8l = [buf |-> b, len |-> l, pos |-> s] /\ s = SymbolAt(i.last_pixel)
        BY <3>1 DEF AtPixels
      <4>2. /\ k.vp8l = MovedPixels(i.vp8l, j.buf + j.start, j.end - j.start)
            /\ k.buf = j.buf /\ k.start = j.start /\ k.end = j.end
        BY <1>2, <3>1 DEF AtPixels, SameMem
      <4>3. \A x, y : MovedPixels(i.vp8l, x, y) = [buf |-> x, len |-> y, pos |-> s]
        <5> DEFINE v == i.vp8l
        <5>1. v = [buf |-> b, len |-> l, pos |-> s]
          BY <4>1
        <5> HIDE DEF v
        <5>2. ASSUME NEW x, NEW y
              PROVE  MovedPixels(v, x, y) = [buf |-> x, len |-> y, pos |-> s]
          <6> DEFINE u == [v EXCEPT !.buf = x]
          <6>1. u = [buf |-> x, len |-> l, pos |-> s]
            BY <5>1
          <6> HIDE DEF u
          <6>2. [u EXCEPT !.len = y] = [buf |-> x, len |-> y, pos |-> s]
            BY <6>1
          <6> QED BY <6>2 DEF u, MovedPixels
        <5> QED BY <5>2 DEF v
      <4> QED BY <4>1, <4>2, <4>3
    <3>3. AtPixels(k)
      BY <1>3, <1>4, <2>0, <3>1, <3>2 DEF AtPixels, SameFlow, SamePixel, SameRows, Row
    <3> QED BY <2>0, <2>5, <3>3 DEF Phase, States
  <2> QED BY <2>1, <2>2, <2>3, <2>4, <2>5 DEF Sound, Phase, States
<1> QED BY <1>3, <1>4, <1>5, <1>7, <1>8 DEF Sound, SameFlow, SameRows, k

(* Alpha that is still compressed is in a buffer.                            *)
LEMMA AlphaHasBuffer ==
  ASSUME NEW i, NEW g, Sound(i, g), i.state \notin {"done", "error"},
         NeedCompressedAlpha(i)
  PROVE  i.buf # Null
<1>1. i.state # "webp_header" /\ i.dec = "lossy"
  BY DEF NeedCompressedAlpha
<1> QED
  BY <1>1 DEF Sound, Phase, States, AtLossyHeaders, Unread, AtLosslessHeader,
              AtMacroblocks, AmongMacroblocks, AtPixels

(* A decoder of which nothing else has changed.                              *)
LEMMA LikeIsSound ==
  ASSUME NEW i, NEW g, Sound(i, g), NEW j, IsIdec(j),
         SamePlace(i, j), SameRows(i, j), SamePixel(i, j), SameAlpha(i, j),
         SameReaders(i, j), j.buf = i.buf, j.buf_size = i.buf_size, j.start = i.start,
         j.end = i.end, j.first = i.first, j.io_data = i.io_data, j.io_size = i.io_size,
         j.state = i.state, j.output = i.output, j.set_up = i.set_up,
         j.part0_size = i.part0_size,
         j.mode \in {"append", "map"} \/ j.mode = i.mode, i.mode \in {"none", j.mode}
  PROVE  Sound(j, g) /\ j.last_y = i.last_y
<1>1. j.dec = i.dec
  BY DEF SameAlpha
<1>2. Mem(j, g)
  BY DEF Sound, Mem
<1>3. NeedCompressedAlpha(j) = NeedCompressedAlpha(i) /\ Pos(j) = Pos(i)
      /\ \A n : Ptr(j, n) = Ptr(i, n)
  BY DEF NeedCompressedAlpha, SameAlpha, Pos, Ptr
<1>4. Alpha(j)
  BY <1>3 DEF Sound, Alpha, SameAlpha
<1>5. Rows(j)
  BY DEF Sound, Rows, SameRows
<1>6. Phase(j, g)
  <2>f. Fresh(i) => Fresh(j)
    BY DEF Fresh, SamePlace, SameRows, SamePixel
  <2>u. Unread(i) => Unread(j)
    BY DEF Unread
  <2>1. AtWebPHeader(i) => AtWebPHeader(j)
    BY <1>1, <1>3, <2>f DEF AtWebPHeader, SameAlpha
  <2>2. AtLossyHeaders(i) => AtLossyHeaders(j)
    BY <1>1, <1>3, <2>f, <2>u DEF AtLossyHeaders
  <2>3. AtLosslessHeader(i) => AtLosslessHeader(j)
    BY <1>1, <1>3, <2>f, <2>u DEF AtLosslessHeader
  <2>4. AtMacroblocks(i, g) => AtMacroblocks(j, g)
    <3> SUFFICES ASSUME AtMacroblocks(i, g) PROVE AtMacroblocks(j, g)
      OBVIOUS
    <3>1. i.mode = j.mode
      BY DEF AtMacroblocks, AmongMacroblocks
    <3>2. PartReaders(j, g)
      <4>1. i.parts = [q \in 1..file.parts |->
                         Reader(Ptr(i, MbAt(q - 1, i.mb_y, i.mb_x)), Ptr(i, EndAt(q - 1, g)))]
        BY DEF AtMacroblocks, AmongMacroblocks, PartReaders
      <4>2. j.parts = i.parts /\ j.mb_y = i.mb_y /\ j.mb_x = i.mb_x
        BY DEF SamePlace, SameReaders
      <4>3. \A q \in 1..file.parts :
              /\ Ptr(j, MbAt(q - 1, i.mb_y, i.mb_x)) = Ptr(i, MbAt(q - 1, i.mb_y, i.mb_x))
              /\ Ptr(j, EndAt(q - 1, g)) = Ptr(i, EndAt(q - 1, g))
        BY <1>3
      <4> QED BY <4>1, <4>2, <4>3 DEF PartReaders
    <3>3. ModeReader(j)
      BY <3>1 DEF AtMacroblocks, AmongMacroblocks, ModeReader, SamePlace, SameReaders
    <3>4. Unpassed(j)
      BY <1>3 DEF AtMacroblocks, AmongMacroblocks, Unpassed, SamePlace
    <3> QED
      BY <1>1, <1>3, <3>1, <3>2, <3>3, <3>4
      DEF AtMacroblocks, AmongMacroblocks, SamePlace, SameRows
  <2>5. AtPixels(i) => AtPixels(j)
    BY <1>1, <1>3 DEF AtPixels, SameReaders, SamePixel, SameRows, Row
  <2> QED BY <2>1, <2>2, <2>3, <2>4, <2>5 DEF Sound, Phase
<1> QED BY <1>2, <1>4, <1>5, <1>6 DEF Sound, SameRows

(* The caller takes to one of the two kinds of memory.                       *)
WithMode(i, mode, fault) == [i EXCEPT !.mode = mode, !.fault = fault]

LEMMA ModeIsSound ==
  ASSUME NEW i, NEW g, Sound(i, g), NEW mode, NEW fault,
         mode \in {"append", "map"}, i.mode \in {"none", mode},
         NEW j, j = WithMode(i, mode, fault)
  PROVE  /\ Sound(j, g) /\ j.mode = mode /\ j.state = i.state /\ j.last_y = i.last_y
<1>0. IsIdec(i) /\ j = [i EXCEPT !.mode = mode, !.fault = fault]
  BY DEF Sound, WithMode
<1>1. /\ IsIdec(j) /\ SamePlace(i, j) /\ SameRows(i, j) /\ SamePixel(i, j)
      /\ SameAlpha(i, j) /\ SameReaders(i, j)
      /\ j.mode = mode /\ j.buf = i.buf /\ j.buf_size = i.buf_size /\ j.start = i.start
      /\ j.end = i.end /\ j.first = i.first
      /\ j.state = i.state /\ j.output = i.output /\ j.set_up = i.set_up
      /\ j.io_data = i.io_data /\ j.io_size = i.io_size /\ j.part0_size = i.part0_size
  <2>1. Changes(i, j, {"mode", "fault"})
    BY <1>0 DEF Changes, IsIdec
  <2>2. j.mode = mode
    BY <1>0, FieldNames DEF IsIdec
  <2> QED
    BY <2>1, <2>2 DEF Changes, Fields, SamePlace, SameRows, SamePixel, SameAlpha, SameReaders
<1> QED BY <1>1, LikeIsSound

(* After AppendToMemBuffer, in the old buffer or in a new one, every reader  *)
(* is where it was in the file.                                              *)
LEMMA AppendIsSound ==
  ASSUME Given, NEW i, NEW g, Sound(i, g), i.state \notin {"done", "error"},
         i.mode = "append", NEW n \in Nat, NEW base \in Nat \ {Null}
  PROVE  /\ Sound(AppendToMemBuffer(i, base, n), g + n)
         /\ AppendToMemBuffer(i, base, n).state = i.state
         /\ AppendToMemBuffer(i, base, n).last_y = i.last_y
<1> DEFINE old_start == IF i.buf = Null THEN Null ELSE i.buf + i.start
           x == IF i.end + n > i.buf_size THEN Grown(i, base, n) ELSE i
           j == [x EXCEPT !.end = @ + n]
           d == j.buf + j.start - old_start
<1>1. AppendToMemBuffer(i, base, n) = DoRemap(j, d)
  BY DEF AppendToMemBuffer
<1>2. /\ IsIdec(x) /\ SameFlow(i, x) /\ SamePlace(i, x) /\ SameRows(i, x)
      /\ SamePixel(i, x) /\ SameAlpha(i, x) /\ SameReaders(i, x)
      /\ Mem(x, g) /\ Pos(x) = Pos(i) /\ x.end + n <= x.buf_size
      /\ i.buf # Null => x.buf # Null
      /\ n # 0 => x.buf # Null
      /\ NeedCompressedAlpha(i) => x.first <= AlphaAt
  <2>0. Mem(i, g)
    BY DEF Sound
  <2>1. CASE i.end + n <= i.buf_size
    <3>1. x = i
      BY <2>0, <2>1 DEF Mem
    <3>2. n # 0 => i.buf # Null
      BY <2>0, <2>1 DEF Mem
    <3> QED BY <2>0, <2>1, <3>1, <3>2
        DEF Sound, Alpha, SameFlow, SamePlace, SameRows, SamePixel, SameAlpha, SameReaders
  <2>2. CASE i.end + n > i.buf_size
    <3> DEFINE old_base == IF NeedCompressedAlpha(i) THEN i.alpha_data ELSE old_start
               s == old_start - old_base
               c == MemDataSize(i) + s
               b == RoundedUp(c + n)
               f == i.first + old_base - i.buf
               y == [i EXCEPT !.buf = base, !.buf_size = b, !.start = s, !.end = c,
                              !.first = f]
    <3>1. x = y
      BY <2>2 DEF Grown
    <3> HIDE DEF old_base, s, c, b, f, x
    <3>2. /\ IsIdec(y) /\ SameFlow(i, y) /\ SamePlace(i, y) /\ SameRows(i, y)
          /\ SamePixel(i, y) /\ SameAlpha(i, y) /\ SameReaders(i, y)
          /\ y.buf = base /\ y.buf_size = b /\ y.start = s /\ y.end = c /\ y.first = f
      <4>1. IsIdec(i) /\ y = [i EXCEPT !.buf = base, !.buf_size = b, !.start = s,
                                       !.end = c, !.first = f]
        BY DEF Sound
      <4> HIDE DEF y
      <4>2. IsIdec(y)
        <5> DEFINE u == [i EXCEPT !.buf = base, !.buf_size = b, !.start = s]
        <5>1. y = [u EXCEPT !.end = c, !.first = f]
          BY <4>1
        <5>2. IsIdec(u)
          BY <4>1, FieldNames DEF IsIdec
        <5> HIDE DEF u
        <5> QED BY <5>1, <5>2, FieldNames DEF IsIdec
      <4>3. y.buf = base /\ y.buf_size = b /\ y.start = s /\ y.end = c /\ y.first = f
        BY <4>1 DEF IsIdec, Fields
      <4>4. SameFlow(i, y) /\ SamePlace(i, y) /\ SameRows(i, y)
        BY <4>1 DEF IsIdec, Fields, SameFlow, SamePlace, SameRows
      <4>5. SamePixel(i, y) /\ SameAlpha(i, y) /\ SameReaders(i, y)
        BY <4>1 DEF IsIdec, Fields, SamePixel, SameAlpha, SameReaders
      <4> QED BY <4>2, <4>3, <4>4, <4>5
    <3> HIDE DEF y
    <3>3. PICK ib \in Nat, is \in Nat, ie \in Nat, ia \in Nat :
            /\ ib = i.buf /\ is = i.start /\ ie = i.end /\ ia = i.first
            /\ is <= ie /\ ia + ie = g
            /\ ib = 0 => is = 0 /\ ie = 0 /\ ia = 0
      BY <2>0 DEF Mem, Null
    <3>4. old_start = IF ib = 0 THEN 0 ELSE ib + is
      BY <3>3 DEF Null
    <3>5. ASSUME ~NeedCompressedAlpha(i)
          PROVE  /\ s \in Nat /\ c \in Nat /\ f \in Nat /\ s <= c /\ f + c = g /\ f + s = ia + is
                 /\ NeedCompressedAlpha(i) => f <= AlphaAt
      <4>1. old_base = old_start
        BY <3>5 DEF old_base
      <4>2. s = 0 /\ c = ie - is /\ f = ia + is
        <5> HIDE DEF old_start
        <5>1. old_start \in Nat /\ old_start - ib = is
          <6>1. CASE ib = 0
            BY <3>3, <3>4, <6>1
          <6>2. CASE ib # 0
            <7>1. old_start = ib + is
              BY <3>4, <6>2
            <7> QED BY <3>3, <7>1
          <6> QED BY <6>1, <6>2
        <5>2. s = 0
          BY <4>1, <5>1 DEF s
        <5>3. c = ie - is
          BY <3>3, <5>2 DEF c, MemDataSize
        <5>4. f = ia + is
          BY <3>3, <4>1, <5>1 DEF f
        <5> QED BY <5>2, <5>3, <5>4
      <4>3. /\ s \in Nat /\ c \in Nat /\ f \in Nat /\ s <= c /\ f + c = g /\ f + s = ia + is
        <5>1. /\ ie - is \in Nat /\ ia + is \in Nat /\ 0 <= ie - is
              /\ ia + is + (ie - is) = g /\ ia + is + 0 = ia + is
          BY <3>3
        <5> QED BY <4>2, <5>1
      <4> QED BY <3>5, <4>3
    <3>6. ASSUME NeedCompressedAlpha(i)
          PROVE  /\ s \in Nat /\ c \in Nat /\ f \in Nat /\ s <= c /\ f + c = g /\ f + s = ia + is
                 /\ NeedCompressedAlpha(i) => f <= AlphaAt
      <4>1. PICK at \in Nat, p \in Nat : /\ at = AlphaAt /\ p = file.payload /\ at < p
                                         /\ ia <= at /\ p <= ia + is
        BY <3>3, <3>6, LossyFacts DEF Sound, Alpha, Pos
      <4>2. ib # 0 /\ old_start = ib + is
        BY <3>3, <3>4, <3>6, AlphaHasBuffer DEF Null
      <4>3. old_base = ib + at - ia
        BY <3>3, <3>6, <4>1 DEF old_base, Sound, Alpha, Ptr
      <4>4. s = is - at + ia /\ s \in Nat
        BY <3>3, <4>1, <4>2, <4>3 DEF s
      <4>5. c = ie - at + ia /\ c \in Nat
        BY <3>3, <4>1, <4>4 DEF c, MemDataSize
      <4>6. f = at
        BY <3>3, <4>1, <4>3 DEF f
      <4>7. /\ s \in Nat /\ c \in Nat /\ f \in Nat /\ s <= c /\ f + c = g /\ f + s = ia + is
        BY <3>3, <4>1, <4>4, <4>5, <4>6
      <4> QED BY <4>1, <4>6, <4>7
    <3>7. /\ s \in Nat /\ c \in Nat /\ f \in Nat /\ s <= c /\ f + c = g /\ f + s = ia + is
          /\ NeedCompressedAlpha(i) => f <= AlphaAt
      BY <3>5, <3>6
    <3>8. b \in Nat /\ b >= c + n
      BY <3>7, RoundedUpHolds DEF b
    <3>9. Mem(y, g)
      BY <2>0, <3>2, <3>7, <3>8 DEF Mem, SameFlow
    <3>10. Pos(y) = Pos(i)
      BY <3>2, <3>3, <3>7 DEF Pos
    <3> QED BY <3>1, <3>2, <3>7, <3>8, <3>9, <3>10 DEF x
  <2> QED BY <2>0, <2>1, <2>2 DEF Mem
<1> HIDE DEF x
<1>3. /\ IsIdec(j) /\ SameFlow(x, j) /\ SamePlace(x, j) /\ SameRows(x, j)
      /\ SamePixel(x, j) /\ SameAlpha(x, j) /\ SameReaders(x, j)
      /\ j.mode = x.mode /\ j.buf = x.buf /\ j.buf_size = x.buf_size
      /\ j.start = x.start /\ j.first = x.first /\ j.end = x.end + n
  BY <1>2, FieldNames DEF IsIdec, SameFlow, SamePlace, SameRows, SamePixel, SameAlpha, SameReaders
<1> HIDE DEF j
<1>4. /\ SameFlow(i, j) /\ SamePlace(i, j) /\ SameRows(i, j)
      /\ SamePixel(i, j) /\ SameAlpha(i, j) /\ SameReaders(i, j)
  BY <1>2, <1>3 DEF SameFlow, SamePlace, SameRows, SamePixel, SameAlpha, SameReaders
<1>5. Mem(j, g + n)
  BY <1>2, <1>3 DEF Mem
<1>6. Pos(j) = Pos(i)
  BY <1>2, <1>3 DEF Pos
<1>7. i.buf # Null => j.buf # Null
  BY <1>2, <1>3
<1>8. NeedCompressedAlpha(i) => j.first <= AlphaAt
  BY <1>2, <1>3
<1>9. /\ Sound(DoRemap(j, d), g + n)
      /\ DoRemap(j, d).state = i.state /\ DoRemap(j, d).last_y = i.last_y
  BY <1>3, <1>4, <1>5, <1>6, <1>7, <1>8, MoveIsSound
<1> QED BY <1>1, <1>9

(* And after RemapMemBuffer, wherever the caller's buffer is now.            *)
LEMMA UpdateIsSound ==
  ASSUME Given, NEW i, NEW g, Sound(i, g), i.state \notin {"done", "error"},
         i.mode = "map", NEW n \in Nat, NEW h, h = g + n, NEW base \in Nat \ {Null}
  PROVE  /\ Sound(RemapMemBuffer(i, base, h), h)
         /\ RemapMemBuffer(i, base, h).state = i.state
         /\ RemapMemBuffer(i, base, h).last_y = i.last_y
<1> DEFINE old_start == IF i.buf = Null THEN Null ELSE i.buf + i.start
           j == [i EXCEPT !.buf = base, !.end = h, !.buf_size = h]
           d == j.buf + j.start - old_start
<1>1. RemapMemBuffer(i, base, h) = DoRemap(j, d)
  BY DEF RemapMemBuffer
<1>2. Mem(i, g) /\ i.first = 0
  BY DEF Sound, Mem
<1>3. /\ IsIdec(j) /\ SameFlow(i, j) /\ SamePlace(i, j) /\ SameRows(i, j)
      /\ SamePixel(i, j) /\ SameAlpha(i, j) /\ SameReaders(i, j)
      /\ j.mode = i.mode /\ j.buf = base /\ j.buf_size = h
      /\ j.start = i.start /\ j.first = i.first /\ j.end = h
  <2>1. IsIdec(i) /\ j = [i EXCEPT !.buf = base, !.end = h, !.buf_size = h]
    BY DEF Sound
  <2> HIDE DEF j
  <2>2. IsIdec(j)
    BY <2>1, FieldNames DEF IsIdec
  <2> QED
    BY <2>1, <2>2, FieldNames DEF IsIdec, SameFlow, SamePlace, SameRows, SamePixel, SameAlpha,
                      SameReaders
<1> HIDE DEF j
<1>4. Mem(j, h)
  BY <1>2, <1>3 DEF Mem
<1>5. Pos(j) = Pos(i) /\ (i.buf # Null => j.buf # Null)
  BY <1>3 DEF Pos
<1>6. NeedCompressedAlpha(i) => j.first <= AlphaAt
  BY <1>3 DEF Sound, Alpha
<1>7. /\ Sound(DoRemap(j, d), h)
      /\ DoRemap(j, d).state = i.state /\ DoRemap(j, d).last_y = i.last_y
  BY <1>3, <1>4, <1>5, <1>6, MoveIsSound
<1> QED BY <1>1, <1>7

-----------------------------------------------------------------------------
(* The handlers.                                                             *)
Statuses == {"OK", "SUSPENDED", "OUT_OF_MEMORY", "USER_ABORT", "BITSTREAM_ERROR",
             "INVALID_PARAM"}

(* What a call may end with.                                                 *)
Ended(j, g) ==
  /\ j.status \in Statuses
  /\ j.status = "SUSPENDED" => j.state \notin {"done", "error"} /\ g < FileSize
  /\ j.status = "OK" => j.state = "done" /\ j.last_y = Height
  /\ j.state = "error" => j.status \notin {"OK", "SUSPENDED"}

(* The status alone.                                                         *)
LEMMA StatusIsSound ==
  ASSUME NEW i, NEW g, Sound(i, g), NEW s, NEW j, j = [i EXCEPT !.status = s]
  PROVE  /\ Sound(j, g) /\ j.status = s /\ j.state = i.state /\ j.last_y = i.last_y
<1>1. /\ IsIdec(j) /\ SamePlace(i, j) /\ SameRows(i, j) /\ SamePixel(i, j)
      /\ SameAlpha(i, j) /\ SameReaders(i, j)
      /\ j.mode = i.mode /\ j.buf = i.buf /\ j.buf_size = i.buf_size /\ j.start = i.start
      /\ j.end = i.end /\ j.first = i.first
      /\ j.state = i.state /\ j.output = i.output /\ j.set_up = i.set_up
      /\ j.io_data = i.io_data /\ j.io_size = i.io_size /\ j.part0_size = i.part0_size
      /\ j.status = s
  BY DEF Sound, IsIdec, Fields, SamePlace, SameRows, SamePixel, SameAlpha, SameReaders
<1> QED BY <1>1, LikeIsSound

(* A decoder that has failed only has to be sound in its memory.             *)
LEMMA ErrorIsSound ==
  ASSUME NEW i, NEW g, IsIdec(i), Mem(i, g), Alpha(i), Rows(i), i.state # "vp8_data",
         i.state = "webp_header" => i.dec = "none",
         NEW e, e \in Statuses \ {"OK", "SUSPENDED"}
  PROVE  /\ Sound(IDecError(i, e), g) /\ Ended(IDecError(i, e), g)
         /\ IDecError(i, e).state = "error" /\ IDecError(i, e).last_y = i.last_y
<1> DEFINE j == IDecError(i, e)
<1>1. j = [i EXCEPT !.state = "error", !.status = e]
  BY DEF IDecError
<1> HIDE DEF j
<1>2. /\ IsIdec(j) /\ SameRows(i, j) /\ SameAlpha(i, j) /\ SameMem(i, j)
      /\ j.start = i.start /\ j.state = "error" /\ j.status = e /\ j.set_up = i.set_up
  BY <1>1, FieldNames DEF IsIdec, SameRows, SameAlpha, SameMem
<1>3. Mem(j, g)
  BY <1>2 DEF Mem, SameMem
<1>4. NeedCompressedAlpha(j) => NeedCompressedAlpha(i)
  BY <1>2 DEF NeedCompressedAlpha, SameAlpha
<1>5. Pos(j) = Pos(i) /\ \A n : Ptr(j, n) = Ptr(i, n)
  BY <1>2 DEF Pos, Ptr, SameMem
<1>6. Alpha(j)
  BY <1>2, <1>4, <1>5 DEF Alpha, SameAlpha, SameMem
<1>7. Rows(j)
  BY <1>2 DEF Rows, SameRows
<1>8. Sound(j, g) /\ j.last_y = i.last_y
  BY <1>2, <1>3, <1>6, <1>7 DEF Sound, Phase, States, SameRows
<1>9. Ended(j, g)
  BY <1>2 DEF Ended, Statuses
<1> QED BY <1>2, <1>8, <1>9 DEF j

(* Waiting for more is sound wherever there is more to come.                 *)
LEMMA SuspendedIsSound ==
  ASSUME NEW i, NEW g, Sound(i, g), i.state \notin {"done", "error"}, g < FileSize
  PROVE  /\ Sound(Suspended(i), g) /\ Ended(Suspended(i), g)
         /\ Suspended(i).state = i.state /\ Suspended(i).last_y = i.last_y
<1> DEFINE j == Suspended(i)
<1>1. j = [i EXCEPT !.status = "SUSPENDED"]
  BY DEF Suspended
<1> HIDE DEF j
<1>2. Sound(j, g) /\ j.status = "SUSPENDED" /\ j.state = i.state /\ j.last_y = i.last_y
  BY <1>1, StatusIsSound
<1>3. Ended(j, g)
  BY <1>2 DEF Ended, Statuses
<1> QED BY <1>2, <1>3 DEF j

(* ChangeState leaves all but the place in the data.                         *)
LEMMA StateChanges ==
  ASSUME NEW x, IsIdec(x), NEW s, NEW n, NEW j, j = ChangeState(x, s, n)
  PROVE  /\ IsIdec(j) /\ SamePlace(x, j) /\ SameRows(x, j) /\ SamePixel(x, j)
         /\ SameAlpha(x, j) /\ SameReaders(x, j) /\ SameMem(x, j)
         /\ j.state = s /\ j.status = "OK" /\ j.start = x.start + n
         /\ j.io_data = x.buf + x.start + n /\ j.io_size = x.end - x.start - n
         /\ j.output = x.output /\ j.set_up = x.set_up
<1> DEFINE st == x.start + n
           id == x.buf + x.start + n
           is == MemDataSize(x) - n
           u == [x EXCEPT !.state = s, !.status = "OK", !.start = st]
<1>0. j = [x EXCEPT !.state = s, !.status = "OK", !.start = st, !.io_data = id, !.io_size = is]
  BY DEF ChangeState
<1> HIDE DEF st, id, is
<1>1. j = [u EXCEPT !.io_data = id, !.io_size = is]
  BY <1>0
<1>2. IsIdec(u)
  BY FieldNames DEF IsIdec
<1>3. /\ SamePlace(x, u) /\ SameRows(x, u) /\ SamePixel(x, u)
      /\ SameAlpha(x, u) /\ SameReaders(x, u) /\ SameMem(x, u)
      /\ u.state = s /\ u.status = "OK" /\ u.start = st
      /\ u.output = x.output /\ u.set_up = x.set_up
  <2>1. u = [x EXCEPT !.state = s, !.status = "OK", !.start = st]
    OBVIOUS
  <2> HIDE DEF u
  <2> QED
    BY <2>1 DEF IsIdec, Fields, SamePlace, SameRows, SamePixel, SameAlpha, SameReaders, SameMem
<1> HIDE DEF u
<1>4. IsIdec(j) /\ SamePlace(u, j) /\ SameRows(u, j) /\ SamePixel(u, j)
  BY <1>1, <1>2, FieldNames DEF IsIdec, SamePlace, SameRows, SamePixel
<1>5. /\ SameAlpha(u, j) /\ SameReaders(u, j) /\ SameMem(u, j)
      /\ j.state = u.state /\ j.status = u.status /\ j.start = u.start
      /\ j.io_data = id /\ j.io_size = is /\ j.output = u.output /\ j.set_up = u.set_up
  <2>1. SameAlpha(u, j)
    BY <1>1, <1>2, FieldNames DEF IsIdec, SameAlpha
  <2>2. SameReaders(u, j)
    BY <1>1, <1>2, FieldNames DEF IsIdec, SameReaders
  <2>3. SameMem(u, j)
    BY <1>1, <1>2, FieldNames DEF IsIdec, SameMem
  <2>4. j.state = u.state /\ j.status = u.status
    BY <1>1, <1>2, FieldNames DEF IsIdec
  <2>5. j.start = u.start /\ j.output = u.output
    BY <1>1, <1>2, FieldNames DEF IsIdec
  <2>6. j.io_data = id
    BY <1>1, <1>2, FieldNames DEF IsIdec
  <2>7. j.io_size = is
    BY <1>1, <1>2, FieldNames DEF IsIdec
  <2>8. j.set_up = u.set_up
    BY <1>1, <1>2 DEF IsIdec, Fields
  <2> QED BY <2>1, <2>2, <2>3, <2>4, <2>5, <2>6, <2>7, <2>8
<1>6. is = x.end - x.start - n
  BY DEF is, MemDataSize
<1> QED
  BY <1>3, <1>4, <1>5, <1>6
  DEF st, id, SamePlace, SameRows, SamePixel, SameAlpha, SameReaders, SameMem

(* DecodeWebPHeaders keeps the decoder sound, and finds the alpha where the  *)
(* file has it.                                                              *)
LEMMA WebPHeadersAreSound ==
  ASSUME Given, NEW i, NEW g, Sound(i, g), i.state = "webp_header"
  PROVE  LET j == DecodeWebPHeaders(i)
         IN /\ Sound(j, g) /\ j.last_y = i.last_y
            /\ \/ Ended(j, g) /\ j.state \in {"webp_header", "error"}
               \/ j.state \in {"vp8_header", "vp8l_header"}
<1> DEFINE j == DecodeWebPHeaders(i)
<1>0. /\ Mem(i, g) /\ Alpha(i) /\ Rows(i) /\ IsIdec(i) /\ AtWebPHeader(i)
      /\ i.start = 0 /\ i.first = 0 /\ i.end = g /\ i.buf \in Nat /\ g \in Nat
  BY DEF Sound, Phase, AtWebPHeader, Mem, Pos
<1>1. /\ FileSize \in Nat /\ FileSize >= file.payload + FrameHeaderSize
      /\ file.payload \in Nat /\ FrameHeaderSize \in Nat \ {0}
  BY SizeFacts
<1>2. MemDataSize(i) = g
  BY <1>0 DEF MemDataSize
<1>3. CASE i.fault = "headers"
  <2>1. j = IDecError(i, "BITSTREAM_ERROR")
    BY <1>3 DEF DecodeWebPHeaders
  <2> HIDE DEF j
  <2>2. /\ Sound(j, g) /\ Ended(j, g) /\ j.state = "error" /\ j.last_y = i.last_y
    <3>1. i.dec = "none" /\ "BITSTREAM_ERROR" \in Statuses \ {"OK", "SUSPENDED"}
      BY <1>0 DEF AtWebPHeader, Statuses
    <3> QED BY <1>0, <2>1, <3>1, ErrorIsSound
  <2> QED BY <2>2 DEF j
<1>4. CASE i.fault # "headers" /\ g < file.payload + FrameHeaderSize
  <2>1. j = Suspended(i)
    BY <1>2, <1>4 DEF DecodeWebPHeaders
  <2> HIDE DEF j
  <2>2. g < FileSize
    BY <1>0, <1>1, <1>4
  <2>3. /\ Sound(j, g) /\ Ended(j, g) /\ j.state = i.state /\ j.last_y = i.last_y
    BY <2>1, <2>2, SuspendedIsSound
  <2> QED BY <2>3 DEF j
<1>5. CASE i.fault # "headers" /\ ~(g < file.payload + FrameHeaderSize)
  <2>0. /\ j = IF i.fault = "new" THEN [i EXCEPT !.status = "OUT_OF_MEMORY"]
               ELSE IF IsLossy
               THEN ChangeState([i EXCEPT !.dec = "lossy",
                                   !.alpha_data = IF file.alpha = 0 THEN Null
                                                  ELSE i.buf + i.start + AlphaAt],
                                "vp8_header", file.payload)
               ELSE ChangeState([i EXCEPT !.dec = "lossless"], "vp8l_header", file.payload)
    BY <1>2, <1>5 DEF DecodeWebPHeaders
  <2> HIDE DEF j
  <2>00. file.payload <= g /\ g > 0
    BY <1>0, <1>1, <1>5
  <2>1. CASE i.fault = "new"
    <3>1. Sound(j, g) /\ j.status = "OUT_OF_MEMORY" /\ j.state = i.state /\ j.last_y = i.last_y
      BY <2>0, <2>1, StatusIsSound
    <3>2. Ended(j, g)
      BY <3>1 DEF Ended, Statuses
    <3> QED BY <3>1, <3>2 DEF j
  <2>n. i.buf # Null /\ i.mode # "none"
    BY <1>0, <2>00 DEF Mem
  <2>m. ASSUME NEW x, SameMem(i, x), j.start = x.start + file.payload, x.start = i.start,
               SameMem(x, j)
        PROVE  Mem(j, g) /\ Pos(j) = file.payload
    <3>1. /\ j.start = file.payload /\ j.buf = i.buf /\ j.buf_size = i.buf_size
          /\ j.end = i.end /\ j.first = i.first /\ j.mode = i.mode
      BY <1>0, <1>1, <2>m DEF SameMem
    <3> QED BY <1>0, <1>1, <2>00, <3>1 DEF Mem, Pos
  <2>2. CASE i.fault # "new" /\ IsLossy
    <3> DEFINE ad == IF file.alpha = 0 THEN Null ELSE i.buf + i.start + AlphaAt
               x == [i EXCEPT !.dec = "lossy", !.alpha_data = ad]
    <3>1. j = ChangeState(x, "vp8_header", file.payload)
      BY <2>0, <2>2
    <3> HIDE DEF ad
    <3>2. /\ IsIdec(x) /\ SamePlace(i, x) /\ SameRows(i, x) /\ SamePixel(i, x)
          /\ SameReaders(i, x) /\ SameMem(i, x)
          /\ x.start = i.start /\ x.dec = "lossy" /\ x.alpha_data = ad
          /\ x.alpha_reader = i.alpha_reader /\ x.is_alpha_decoded = i.is_alpha_decoded
          /\ x.set_up = i.set_up
      BY <1>0, FieldNames DEF IsIdec, SamePlace, SameRows, SamePixel, SameReaders, SameMem
    <3> HIDE DEF x
    <3>3. /\ IsIdec(j) /\ SamePlace(x, j) /\ SameRows(x, j) /\ SamePixel(x, j)
          /\ SameAlpha(x, j) /\ SameReaders(x, j) /\ SameMem(x, j)
          /\ j.state = "vp8_header" /\ j.start = x.start + file.payload
          /\ j.io_data = x.buf + x.start + file.payload
          /\ j.io_size = x.end - x.start - file.payload /\ j.set_up = x.set_up
      BY <3>1, <3>2, StateChanges
    <3>4. Mem(j, g) /\ Pos(j) = file.payload
      BY <2>m, <3>2, <3>3
    <3>5. Alpha(j)
      <4>1. /\ j.alpha_data = ad /\ j.alpha_reader = Null /\ j.is_alpha_decoded = FALSE
            /\ j.buf = i.buf /\ j.first = 0
        BY <1>0, <3>2, <3>3 DEF AtWebPHeader, SameAlpha, SameMem
      <4>2. AlphaAt \in Nat
        BY <2>2, LossyFacts
      <4>3. ad # Null => ad = Ptr(j, AlphaAt)
        <5>1. ad # Null => ad = i.buf + AlphaAt
          BY <1>0, <4>2 DEF ad
        <5>2. Ptr(j, AlphaAt) = i.buf + AlphaAt
          BY <1>0, <4>1, <4>2 DEF Ptr
        <5> QED BY <5>1, <5>2
      <4>4. NeedCompressedAlpha(j) => ad # Null
        BY <4>1 DEF NeedCompressedAlpha
      <4>5. Pos(j) >= file.payload /\ j.first <= AlphaAt
        BY <1>1, <3>4, <4>1, <4>2
      <4> QED BY <2>2, <4>1, <4>3, <4>4, <4>5 DEF Alpha
    <3>6. Rows(j)
      BY <1>0, <3>2, <3>3 DEF Rows, SameRows
    <3>7. Fresh(j)
      BY <1>0, <3>2, <3>3 DEF AtWebPHeader, Fresh, SamePlace, SameRows, SamePixel
    <3>8. Unread(j)
      BY <1>0, <1>1, <2>n, <3>2, <3>3 DEF Unread, SameMem
    <3>9. AtLossyHeaders(j)
      BY <2>2, <3>2, <3>3, <3>4, <3>7, <3>8 DEF AtLossyHeaders, SameAlpha
    <3>10. Sound(j, g) /\ j.last_y = i.last_y
      BY <3>2, <3>3, <3>4, <3>5, <3>6, <3>9 DEF Sound, Phase, States, SameRows
    <3> QED BY <3>3, <3>10 DEF j
  <2>3. CASE i.fault # "new" /\ ~IsLossy
    <3> DEFINE x == [i EXCEPT !.dec = "lossless"]
    <3>1. j = ChangeState(x, "vp8l_header", file.payload)
      BY <2>0, <2>3
    <3>2. /\ IsIdec(x) /\ SamePlace(i, x) /\ SameRows(i, x) /\ SamePixel(i, x)
          /\ SameReaders(i, x) /\ SameMem(i, x)
          /\ x.start = i.start /\ x.dec = "lossless" /\ x.alpha_data = i.alpha_data
          /\ x.alpha_reader = i.alpha_reader /\ x.is_alpha_decoded = i.is_alpha_decoded
          /\ x.set_up = i.set_up
      BY <1>0 DEF IsIdec, Fields, SamePlace, SameRows, SamePixel, SameReaders, SameMem
    <3> HIDE DEF x
    <3>3. /\ IsIdec(j) /\ SamePlace(x, j) /\ SameRows(x, j) /\ SamePixel(x, j)
          /\ SameAlpha(x, j) /\ SameReaders(x, j) /\ SameMem(x, j)
          /\ j.state = "vp8l_header" /\ j.start = x.start + file.payload
          /\ j.io_data = x.buf + x.start + file.payload
          /\ j.io_size = x.end - x.start - file.payload /\ j.set_up = x.set_up
      BY <3>1, <3>2, StateChanges
    <3>4. Mem(j, g) /\ Pos(j) = file.payload
      BY <2>m, <3>2, <3>3
    <3>5. Alpha(j)
      BY <1>0, <3>2, <3>3 DEF AtWebPHeader, SameAlpha, Alpha, NeedCompressedAlpha
    <3>6. Rows(j)
      BY <1>0, <3>2, <3>3 DEF Rows, SameRows
    <3>7. Fresh(j)
      BY <1>0, <3>2, <3>3 DEF AtWebPHeader, Fresh, SamePlace, SameRows, SamePixel
    <3>8. Unread(j)
      BY <1>0, <1>1, <2>n, <3>2, <3>3 DEF Unread, SameMem
    <3>9. AtLosslessHeader(j)
      BY <2>3, <3>2, <3>3, <3>4, <3>7, <3>8 DEF AtLosslessHeader, SameAlpha
    <3>10. Sound(j, g) /\ j.last_y = i.last_y
      BY <3>2, <3>3, <3>4, <3>5, <3>6, <3>9 DEF Sound, Phase, States, SameRows
    <3> QED BY <3>3, <3>10 DEF j
  <2> QED BY <2>1, <2>2, <2>3
<1> QED BY <1>3, <1>4, <1>5

-----------------------------------------------------------------------------
(* The headers of a lossy file.                                              *)
HeaderFields == {"io_data", "io_size", "part0_size", "state", "status", "br", "parts",
                 "output"}

(* The fields a header is read into do not touch the buffer.                 *)
LEMMA HeaderIsKept ==
  ASSUME Given, NEW i, NEW g, Sound(i, g), i.state \in {"vp8_header", "vp8_parts0"},
         NEW j, Changes(i, j, HeaderFields), j.state # "webp_header"
  PROVE  /\ IsIdec(j) /\ Mem(j, g) /\ Alpha(j) /\ Fresh(j) /\ Pos(j) = file.payload
         /\ IsLossy /\ j.dec = "lossy" /\ j.buf # Null /\ j.mode \in {"append", "map"}
         /\ j.set_up = 0 /\ j.job = NoJob
         /\ j.start = i.start /\ j.buf = i.buf /\ j.end = i.end /\ j.first = i.first
         /\ j.mode = i.mode /\ j.fault = i.fault /\ j.last_y = 0 /\ i.last_y = 0
         /\ i.io_data = i.buf + i.start /\ i.io_size = i.end - i.start
         /\ j.state # "vp8_data" => Rows(j)
<1>1. AtLossyHeaders(i) /\ IsIdec(i) /\ Mem(i, g) /\ Alpha(i) /\ Rows(i)
  BY DEF Sound, Phase
<1>2. /\ SamePlace(i, j) /\ SameRows(i, j) /\ SamePixel(i, j) /\ SameAlpha(i, j)
      /\ SameMem(i, j)
  BY DEF Changes, HeaderFields, Fields, SamePlace, SameRows, SamePixel, SameAlpha, SameMem
<1>3. IsIdec(j) /\ j.start = i.start /\ j.set_up = i.set_up /\ j.fault = i.fault
  BY DEF Changes, HeaderFields, Fields
<1>4. Mem(j, g) /\ Pos(j) = Pos(i) /\ \A n : Ptr(j, n) = Ptr(i, n)
  BY <1>1, <1>2, <1>3 DEF Mem, SameMem, Pos, Ptr
<1>5. NeedCompressedAlpha(j) => NeedCompressedAlpha(i)
  BY <1>2 DEF NeedCompressedAlpha, SameAlpha
<1>6. Alpha(j)
  BY <1>1, <1>2, <1>4, <1>5 DEF Alpha, SameAlpha, SameMem
<1>7. Fresh(j)
  BY <1>1, <1>2 DEF AtLossyHeaders, Fresh, SamePlace, SameRows, SamePixel
<1>8. /\ IsLossy /\ i.dec = "lossy" /\ Pos(i) = file.payload /\ Unread(i)
  BY <1>1 DEF AtLossyHeaders
<1>9. i.set_up = 0 /\ i.job = NoJob
  BY <1>1 DEF Rows
<1>10. j.state # "vp8_data" => Rows(j)
  BY <1>1, <1>2, <1>3, <1>9 DEF Rows, SameRows
<1>11. /\ i.buf # Null /\ i.mode \in {"append", "map"} /\ i.io_data = i.buf + i.start
       /\ i.io_size = i.end - i.start
  BY <1>1, <1>8 DEF Unread, Mem
<1>12. i.last_y = 0 /\ j.last_y = 0
  BY <1>1, <1>7 DEF AtLossyHeaders, Fresh
<1> QED
  BY <1>2, <1>3, <1>4, <1>6, <1>7, <1>8, <1>9, <1>10, <1>11, <1>12 DEF SameAlpha, SameMem, SameRows

(* How many bytes are left of a header.                                      *)
LEMMA HeaderSizes ==
  ASSUME Given, NEW i, NEW g, Sound(i, g),
         i.state \in {"vp8_header", "vp8_parts0", "vp8l_header"}
  PROVE  /\ g \in Nat /\ i.end - i.start = g - file.payload /\ MemDataSize(i) = g - file.payload
         /\ file.payload \in Nat /\ FileSize \in Nat
<1>1. Mem(i, g) /\ Pos(i) = file.payload
  BY DEF Sound, Phase, AtLossyHeaders, AtLosslessHeader
<1>2. /\ i.end \in Nat /\ i.start \in Nat /\ i.first \in Nat /\ i.first + i.end = g
      /\ i.first + i.start = file.payload
  BY <1>1 DEF Mem, Pos
<1> QED BY <1>2, SizeFacts DEF MemDataSize

(* DecodeVP8FrameHeader keeps the decoder sound.                             *)
LEMMA FrameHeaderIsSound ==
  ASSUME Given, NEW i, NEW g, Sound(i, g), i.state = "vp8_header"
  PROVE  LET j == DecodeVP8FrameHeader(i)
         IN /\ Sound(j, g) /\ j.last_y = i.last_y
            /\ \/ Ended(j, g) /\ j.state \in {"vp8_header", "error"}
               \/ j.state = "vp8_parts0"
<1> DEFINE j == DecodeVP8FrameHeader(i)
<1>1. /\ g \in Nat /\ MemDataSize(i) = g - file.payload /\ file.payload \in Nat
      /\ FileSize \in Nat /\ FileSize >= file.payload + FrameHeaderSize
      /\ FrameHeaderSize \in Nat
  BY HeaderSizes, SizeFacts
<1>2. CASE MemDataSize(i) < FrameHeaderSize
  <2>1. j = Suspended(i)
    BY <1>2 DEF DecodeVP8FrameHeader
  <2>2. g < FileSize
    BY <1>1, <1>2
  <2> HIDE DEF j
  <2>3. Sound(j, g) /\ Ended(j, g) /\ j.state = i.state /\ j.last_y = i.last_y
    BY <2>1, <2>2, SuspendedIsSound
  <2> QED BY <2>3 DEF j
<1>3. CASE ~(MemDataSize(i) < FrameHeaderSize) /\ i.fault = "frame"
  <2>1. j = IDecError(i, "BITSTREAM_ERROR")
    BY <1>3 DEF DecodeVP8FrameHeader
  <2> HIDE DEF j
  <2>2. IsIdec(i) /\ Mem(i, g) /\ Alpha(i) /\ Rows(i)
    BY DEF Sound
  <2>3. /\ Sound(j, g) /\ Ended(j, g) /\ j.state = "error" /\ j.last_y = i.last_y
    <3>1. "BITSTREAM_ERROR" \in Statuses \ {"OK", "SUSPENDED"}
      BY DEF Statuses
    <3> QED BY <2>1, <2>2, <3>1, ErrorIsSound
  <2> QED BY <2>3 DEF j
<1>4. CASE ~(MemDataSize(i) < FrameHeaderSize) /\ i.fault # "frame"
  <2> DEFINE a == file.part0 + FrameHeaderSize
             b == i.buf + i.start
             c == MemDataSize(i)
  <2>1. j = [i EXCEPT !.part0_size = a, !.io_data = b, !.io_size = c,
                      !.state = "vp8_parts0", !.status = "OK"]
    BY <1>4 DEF DecodeVP8FrameHeader
  <2>2. IsIdec(i)
    BY DEF Sound
  <2> HIDE DEF a, b, c, j
  <2>3. Changes(i, j, HeaderFields)
    BY <2>1, <2>2, FieldNames DEF IsIdec, Changes, HeaderFields
  <2>4. j.part0_size = a /\ j.io_data = b
    BY <2>1, <2>2 DEF IsIdec, Fields
  <2>5. j.io_size = c /\ j.state = "vp8_parts0"
    BY <2>1, <2>2 DEF IsIdec, Fields
  <2>6. /\ IsIdec(j) /\ Mem(j, g) /\ Alpha(j) /\ Fresh(j) /\ Pos(j) = file.payload
        /\ IsLossy /\ j.dec = "lossy" /\ j.buf # Null /\ j.mode \in {"append", "map"}
        /\ j.start = i.start /\ j.buf = i.buf /\ j.end = i.end
        /\ j.last_y = 0 /\ i.last_y = 0 /\ Rows(j)
    BY <2>3, <2>5, HeaderIsKept
  <2>7. Unread(j)
    BY <2>4, <2>5, <2>6 DEF Unread, b, c, MemDataSize
  <2>8. AtLossyHeaders(j)
    BY <2>4, <2>6, <2>7 DEF AtLossyHeaders, a
  <2>9. Sound(j, g)
    BY <2>5, <2>6, <2>8 DEF Sound, Phase, States
  <2> QED BY <2>5, <2>6, <2>9 DEF j
<1> QED BY <1>2, <1>3, <1>4

(* The lossless header.                                                      *)
LEMMA LosslessHeaderIsSound ==
  ASSUME Given, NEW i, NEW g, Sound(i, g), i.state = "vp8l_header"
  PROVE  LET j == DecodeVP8LHeader(i)
         IN /\ Sound(j, g) /\ j.last_y = i.last_y
            /\ \/ Ended(j, g) /\ j.state \in {"vp8l_header", "error"}
               \/ j.state = "vp8l_data"
<1> DEFINE j == DecodeVP8LHeader(i)
           v == [buf |-> i.io_data, len |-> i.io_size, pos |-> file.head]
           k == [i EXCEPT !.vp8l = v]
           bad == \/ i.fault = "frame"
                  \/ MemDataSize(i) < file.head
<1>0. /\ IsIdec(i) /\ Mem(i, g) /\ Alpha(i) /\ Rows(i) /\ AtLosslessHeader(i) /\ ~IsLossy
      /\ i.dec = "lossless" /\ Pos(i) = file.payload /\ Unread(i) /\ Fresh(i)
  BY DEF Sound, Phase, AtLosslessHeader
<1>1. /\ g \in Nat /\ MemDataSize(i) = g - file.payload /\ file.payload \in Nat
      /\ FileSize \in Nat /\ ChunkBytes = FileSize - file.payload
      /\ FileSize - file.payload \in Nat
  BY HeaderSizes, SizeFacts DEF ChunkBytes
<1>e. "BITSTREAM_ERROR" \in Statuses \ {"OK", "SUSPENDED"}
      /\ "OUT_OF_MEMORY" \in Statuses \ {"OK", "SUSPENDED"}
  BY DEF Statuses
<1>s. ASSUME j = Suspended(i), g < FileSize
      PROVE  Sound(j, g) /\ Ended(j, g) /\ j.state = "vp8l_header" /\ j.last_y = i.last_y
  <2> HIDE DEF j
  <2> QED BY <1>s, SuspendedIsSound
<1>2. CASE MemDataSize(i) < ChunkBytes \div 8
  <2>1. j = Suspended(i)
    <3>1. MemDataSize(i) \in Int /\ ChunkBytes \div 8 \in Int
      BY <1>1
    <3>2. ~(MemDataSize(i) >= ChunkBytes \div 8)
      BY <1>2, <3>1
    <3> QED BY <1>2, <3>2 DEF DecodeVP8LHeader
  <2>2. g < FileSize
    <3>1. \A n \in Nat : n \div 8 <= n
      OBVIOUS
    <3>2. ChunkBytes \in Nat /\ ChunkBytes \div 8 \in Int /\ ChunkBytes \div 8 <= ChunkBytes
      BY <1>1, <3>1
    <3>3. MemDataSize(i) < ChunkBytes
      BY <1>1, <1>2, <3>2
    <3> QED BY <1>1, <3>3
  <2> QED BY <1>s, <2>1, <2>2
<1>3. CASE ~(MemDataSize(i) < ChunkBytes \div 8) /\ bad /\ MemDataSize(i) >= ChunkBytes
  <2>1. j = IDecError(i, "BITSTREAM_ERROR")
    <3>1. MemDataSize(i) \in Int /\ ChunkBytes \div 8 \in Int
      BY <1>1
    <3>2. MemDataSize(i) >= ChunkBytes \div 8
      BY <1>3, <3>1
    <3> QED BY <1>3, <3>2 DEF DecodeVP8LHeader
  <2> HIDE DEF j
  <2>3. /\ Sound(j, g) /\ Ended(j, g) /\ j.state = "error" /\ j.last_y = i.last_y
    BY <1>0, <1>e, <2>1, ErrorIsSound
  <2> QED BY <2>3 DEF j
<1>4. CASE ~(MemDataSize(i) < ChunkBytes \div 8) /\ bad /\ ~(MemDataSize(i) >= ChunkBytes)
  <2>0. MemDataSize(i) \in Int /\ ChunkBytes \div 8 \in Int /\ ChunkBytes \in Int
    BY <1>1
  <2>1. j = Suspended(i)
    <3>1. MemDataSize(i) >= ChunkBytes \div 8
      BY <1>4, <2>0
    <3>2. ~(MemDataSize(i) < ChunkBytes \div 8)
      BY <1>4
    <3>3. j = IF MemDataSize(i) >= ChunkBytes THEN IDecError(i, "BITSTREAM_ERROR")
              ELSE Suspended(i)
      <4> HIDE DEF j
      <4>1. j = DecodeVP8LHeader(i) /\ bad
        BY <1>4 DEF j
      <4> QED BY <3>1, <3>2, <4>1 DEF DecodeVP8LHeader
    <3> HIDE DEF j
    <3> QED BY <1>4, <3>3
  <2>2. g < FileSize
    BY <1>1, <1>4, <2>0
  <2> QED BY <1>s, <2>1, <2>2
<1>5. CASE ~(MemDataSize(i) < ChunkBytes \div 8) /\ ~bad
  <2>1. j = IF i.fault = "output" THEN IDecError(k, "OUT_OF_MEMORY")
            ELSE [k EXCEPT !.output = "set", !.state = "vp8l_data", !.status = "OK"]
    BY <1>5 DEF DecodeVP8LHeader
  <2> HIDE DEF v, j
  <2>2. Changes(i, k, {"vp8l"})
    BY <1>0 DEF IsIdec, Fields, Changes
  <2>3. k.vp8l = v
    BY <1>0 DEF IsIdec, Fields
  <2> HIDE DEF k
  <2>a. \A n : Ptr(k, n) = Ptr(i, n)
    BY <2>2 DEF Changes, Fields, Ptr
  <2>4. CASE i.fault = "output"
    <3>0. IsIdec(k) /\ k.state = "vp8l_header" /\ SameMem(i, k) /\ k.start = i.start
          /\ SameRows(i, k) /\ SameAlpha(i, k) /\ k.set_up = i.set_up
      BY <2>2 DEF Changes, Fields, SameMem, SameRows, SameAlpha
    <3>1. Mem(k, g)
      BY <1>0, <3>0 DEF Mem, SameMem
    <3>2. Rows(k)
      BY <1>0, <3>0 DEF Rows, SameRows
    <3>3. Alpha(k)
      BY <1>0, <3>0 DEF Alpha, NeedCompressedAlpha, SameAlpha
    <3>4. /\ Sound(j, g) /\ Ended(j, g) /\ j.state = "error" /\ j.last_y = k.last_y
      <4>1. j = IDecError(k, "OUT_OF_MEMORY")
        BY <2>1, <2>4
      <4> QED BY <1>e, <3>0, <3>1, <3>2, <3>3, <4>1, ErrorIsSound
    <3> QED BY <3>0, <3>4 DEF j, SameRows
  <2>5. CASE i.fault # "output"
    <3>1. j = [k EXCEPT !.output = "set", !.state = "vp8l_data", !.status = "OK"]
      BY <2>1, <2>5
    <3>2. IsIdec(k)
      BY <2>2 DEF Changes
    <3>3. Changes(k, j, {"output", "state", "status"})
      BY <3>1, <3>2, FieldNames DEF IsIdec, Changes
    <3>4. j.output = "set" /\ j.state = "vp8l_data"
      BY <3>1, <3>2 DEF IsIdec, Fields
    <3>5. Changes(i, j, {"vp8l", "output", "state", "status"})
      BY <2>2, <3>3 DEF Changes
    <3>6. j.vp8l = v
      BY <2>3, <3>3 DEF Changes, Fields
    <3>7. /\ IsIdec(j) /\ SameMem(i, j) /\ j.start = i.start /\ SamePixel(i, j)
          /\ SameRows(i, j) /\ SameAlpha(i, j) /\ j.set_up = i.set_up
      BY <3>5 DEF Changes, Fields, SameMem, SameRows, SameAlpha, SamePixel
    <3>8. Mem(j, g) /\ Pos(j) = file.payload
      BY <1>0, <3>7 DEF Mem, SameMem, Pos
    <3>9. Rows(j)
      BY <1>0, <3>4, <3>7 DEF Rows, SameRows
    <3>10. Alpha(j)
      BY <1>0, <3>7 DEF Alpha, NeedCompressedAlpha, SameAlpha
    <3>11. j.vp8l = [buf |-> j.buf + j.start, len |-> j.end - j.start, pos |-> SymbolAt(0)]
      <4>1. SymbolAt(0) = file.head
        BY <1>0, SymbolPlaces
      <4> QED BY <1>0, <3>6, <3>7, <4>1 DEF v, Unread, SameMem
    <3>12. j.last_pixel = 0 /\ j.last_row = 0 /\ RowAt(0) = 0
      BY <1>0, <3>7, SymbolPlaces DEF Fresh, SamePixel, SameRows
    <3>13. BatchedRows(0, 0)
      <4>1. caller.crop_bottom \in Nat \ {0} /\ NumArgbCacheRows \in Nat \ {0}
        BY <1>0, LosslessFacts, DecoderAssumption
      <4>2. 0 = 0 * NumArgbCacheRows
        BY <4>1
      <4> QED BY <4>1, <4>2 DEF BatchedRows
    <3>14. SyncEveryNRows \in Nat \ {0}
      BY DecoderAssumption
    <3>15. \E m \in Nat : /\ Row(j) <= m /\ m - Row(j) < SyncEveryNRows
                          /\ BatchedRows(j.last_row, m)
      <4> WITNESS 0 \in Nat
      <4> QED BY <3>12, <3>13, <3>14 DEF Row
    <3>16. j.last_pixel \in 0..Len(file.symbols)
      BY <1>0, <3>12, LosslessFacts
    <3>17. AtPixels(j)
      BY <1>0, <3>4, <3>7, <3>8, <3>11, <3>12, <3>15, <3>16
      DEF AtPixels, SameAlpha, SameMem, Unread
    <3>18. Sound(j, g) /\ j.last_y = i.last_y
      BY <3>4, <3>7, <3>8, <3>9, <3>10, <3>17 DEF Sound, Phase, States, SameRows
    <3> QED BY <3>4, <3>18 DEF j
  <2> QED BY <2>4, <2>5
<1> QED BY <1>2, <1>3, <1>4, <1>5

-----------------------------------------------------------------------------
(* The end of the decoding.                                                  *)
HeldFields == {"mode", "buf", "buf_size", "start", "end", "first", "dec", "alpha_data",
               "alpha_reader", "is_alpha_decoded"}

(* What does not touch the buffer leaves what is in it.                      *)
LEMMA KeepsMemory ==
  ASSUME NEW i, NEW g, Mem(i, g), Alpha(i), NEW S, S \cap HeldFields = {},
         NEW j, Changes(i, j, S), i.state # "webp_header"
  PROVE  /\ IsIdec(j) /\ Mem(j, g) /\ Alpha(j) /\ Pos(j) = Pos(i)
         /\ \A n : Ptr(j, n) = Ptr(i, n)
         /\ SameMem(i, j) /\ SameAlpha(i, j) /\ j.start = i.start
<1>1. \A f \in HeldFields : j[f] = i[f]
  BY DEF Changes, HeldFields, Fields
<1>2. SameMem(i, j) /\ SameAlpha(i, j) /\ j.start = i.start
  BY <1>1 DEF HeldFields, SameMem, SameAlpha
<1>3. Mem(j, g)
  BY <1>2 DEF Mem, SameMem
<1>4. Pos(j) = Pos(i) /\ \A n : Ptr(j, n) = Ptr(i, n)
  BY <1>2 DEF Pos, Ptr, SameMem
<1>5. NeedCompressedAlpha(j) => NeedCompressedAlpha(i)
  BY <1>2 DEF NeedCompressedAlpha, SameAlpha
<1>6. Alpha(j)
  BY <1>2, <1>4, <1>5 DEF Alpha, SameAlpha, SameMem
<1> QED BY <1>2, <1>3, <1>4, <1>6 DEF Changes

RowFields == {"had_error", "last_y", "is_alpha_decoded", "alpha_reader"}

(* A row that comes out.                                                     *)
LEMMA FinishRowFacts ==
  ASSUME Given, IsLossy, NEW i, NEW g, IsIdec(i), Mem(i, g), Alpha(i), NEW y,
         NEW j, j = FinishRow(i, y)
  PROVE  /\ Changes(i, j, RowFields) /\ Alpha(j)
         /\ i.fault = "put" => j.had_error = TRUE /\ j.last_y = i.last_y
         /\ i.fault # "put" => j.had_error = i.had_error /\ j.last_y = y + 1
<1>1. CASE i.fault = "put"
  <2>1. j = [i EXCEPT !.had_error = TRUE]
    BY <1>1 DEF FinishRow
  <2>2. Changes(i, j, RowFields) /\ j.had_error = TRUE
    BY <2>1, FieldNames DEF Changes, IsIdec, RowFields
  <2>3. /\ j.last_y = i.last_y /\ SameAlpha(i, j) /\ SameMem(i, j) /\ j.start = i.start
        /\ j.state = i.state
    BY <2>1 DEF IsIdec, Fields, SameAlpha, SameMem
  <2>4. Alpha(j)
    BY <2>3 DEF Alpha, NeedCompressedAlpha, Pos, Ptr, SameAlpha, SameMem
  <2> QED BY <1>1, <2>2, <2>3, <2>4
<1>2. CASE i.fault # "put"
  <2> DEFINE done == y + 1 = MbH \/ file.levels
             decodes == i.alpha_data # Null /\ ~i.is_alpha_decoded
             d == i.is_alpha_decoded \/ (decodes /\ done)
             r == IF ~decodes THEN i.alpha_reader ELSE IF done THEN Null
                  ELSE i.alpha_data + 1
             l == y + 1
  <2>1. j = [i EXCEPT !.last_y = l, !.is_alpha_decoded = d, !.alpha_reader = r]
    BY <1>2 DEF FinishRow
  <2>2. d \in BOOLEAN
    OBVIOUS
  <2>3. d => (i.is_alpha_decoded \/ done) 
    OBVIOUS
  <2> HIDE DEF d, r, l
  <2>4. Changes(i, j, RowFields)
    BY <2>1 DEF Changes, IsIdec, RowFields
  <2>5. j.last_y = l /\ j.is_alpha_decoded = d /\ j.alpha_reader = r
    BY <2>1, FieldNames DEF IsIdec
  <2>6. /\ j.had_error = i.had_error /\ SameMem(i, j) /\ j.start = i.start
        /\ j.state = i.state /\ j.dec = i.dec /\ j.alpha_data = i.alpha_data
    <3>1. j.had_error = i.had_error
      BY <2>1 DEF IsIdec, Fields
    <3>2. SameMem(i, j) /\ j.start = i.start
      BY <2>4 DEF Changes, Fields, RowFields, SameMem
    <3>3. j.state = i.state /\ j.dec = i.dec /\ j.alpha_data = i.alpha_data
      BY <2>4 DEF Changes, Fields, RowFields
    <3> QED BY <3>1, <3>2, <3>3
  <2>7. Alpha(j)
    <3>1. NeedCompressedAlpha(j) => ~d
      BY <2>5 DEF NeedCompressedAlpha
    <3>2. ~d => ~i.is_alpha_decoded /\ ~(decodes /\ done)
      BY DEF d
    <3>3. NeedCompressedAlpha(j) => NeedCompressedAlpha(i)
      BY <2>6, <3>1, <3>2 DEF NeedCompressedAlpha
    <3>4. NeedCompressedAlpha(j) => j.alpha_reader = i.alpha_data + 1
      <4>1. NeedCompressedAlpha(j) => decodes /\ ~done
        BY <2>6, <3>1, <3>2 DEF NeedCompressedAlpha
      <4> QED BY <2>5, <4>1 DEF r
    <3> QED BY <2>2, <2>5, <2>6, <3>3, <3>4 DEF Alpha, Pos, Ptr, SameMem
  <2> QED BY <1>2, <2>4, <2>5, <2>6, <2>7 DEF l
<1> QED BY <1>1, <1>2

(* The row that the worker has comes out when the two meet.                  *)
LEMMA SyncFacts ==
  ASSUME Given, IsLossy, NEW i, NEW g, IsIdec(i), Mem(i, g), Alpha(i),
         NEW j, j = Sync(i)
  PROVE  /\ Changes(i, j, RowFields \union {"job"}) /\ Mem(j, g) /\ Alpha(j)
         /\ j.job = NoJob
         /\ i.job = NoJob => j = i
         /\ i.job # NoJob =>
              /\ i.fault = "put" => j.had_error = TRUE /\ j.last_y = i.last_y
              /\ i.fault # "put" => j.had_error = i.had_error /\ j.last_y = i.job + 1
<1>1. CASE i.job = NoJob
  <2>1. j = i
    BY <1>1 DEF Sync
  <2> QED BY <1>1, <2>1 DEF Changes
<1>2. CASE i.job # NoJob
  <2> DEFINE f == FinishRow(i, i.job)
  <2>1. j = [f EXCEPT !.job = NoJob]
    BY <1>2 DEF Sync
  <2>2. /\ Changes(i, f, RowFields) /\ Alpha(f)
        /\ i.fault = "put" => f.had_error = TRUE /\ f.last_y = i.last_y
        /\ i.fault # "put" => f.had_error = i.had_error /\ f.last_y = i.job + 1
    <3> DEFINE y == i.job
    <3> HIDE DEF y
    <3>1. ASSUME NEW r, r = FinishRow(i, y)
          PROVE  /\ Changes(i, r, RowFields) /\ Alpha(r)
                 /\ i.fault = "put" => r.had_error = TRUE /\ r.last_y = i.last_y
                 /\ i.fault # "put" => r.had_error = i.had_error /\ r.last_y = y + 1
      BY <3>1, FinishRowFacts
    <3> QED BY <3>1 DEF y
  <2> HIDE DEF f
  <2>3. IsIdec(f)
    BY <2>2 DEF Changes
  <2>4. Changes(f, j, {"job"})
    BY <2>1, <2>3 DEF Changes, IsIdec
  <2>5. j.job = NoJob
    BY <2>1, <2>3 DEF IsIdec, Fields
  <2>6. Changes(i, j, RowFields \union {"job"})
    BY <2>2, <2>4 DEF Changes
  <2>7. SameMem(i, j) /\ j.start = i.start
    BY <2>6 DEF Changes, Fields, RowFields, SameMem
  <2>8. Mem(j, g)
    BY <2>7 DEF Mem, SameMem
  <2>9. /\ SameAlpha(f, j) /\ SameMem(f, j) /\ j.start = f.start /\ j.state = f.state
        /\ j.had_error = f.had_error /\ j.last_y = f.last_y
    BY <2>4 DEF Changes, Fields, SameAlpha, SameMem
  <2>10. Alpha(j)
    BY <2>2, <2>9 DEF Alpha, NeedCompressedAlpha, Pos, Ptr, SameAlpha, SameMem
  <2> QED BY <1>2, <2>2, <2>5, <2>6, <2>8, <2>9, <2>10
<1> QED BY <1>1, <1>2

(* Rows that come out or are in the worker, in the order of the picture.     *)
RowsFlow(i) ==
  /\ i.had_error \in BOOLEAN /\ i.num_rows \in 0..NumArgbCacheRows
  /\ i.set_up = 1 /\ i.last_y \in 0..MbH
  /\ i.job # NoJob => i.job = i.last_y /\ i.last_y < MbH

(* VP8ExitCritical leaves nothing in the worker and the output torn down.    *)
LEMMA ExitFacts ==
  ASSUME Given, IsLossy, NEW i, NEW g, IsIdec(i), Mem(i, g), Alpha(i), RowsFlow(i),
         NEW j, j = VP8ExitCritical(i)
  PROVE  /\ Changes(i, j, RowFields \union {"job", "set_up"}) /\ Mem(j, g) /\ Alpha(j)
         /\ j.job = NoJob /\ j.set_up = 0 /\ j.had_error \in BOOLEAN
         /\ j.last_y \in i.last_y..MbH /\ j.num_rows \in 0..NumArgbCacheRows
         /\ i.job = NoJob => j.last_y = i.last_y /\ j.had_error = i.had_error
         /\ i.job # NoJob /\ ~j.had_error => j.last_y = i.last_y + 1
<1> DEFINE s == Sync(i)
           n == s.set_up - 1
<1>1. j = [s EXCEPT !.set_up = n]
  BY DEF VP8ExitCritical
<1>2. /\ Changes(i, s, RowFields \union {"job"}) /\ Mem(s, g) /\ Alpha(s)
      /\ s.job = NoJob
      /\ i.job = NoJob => s = i
      /\ i.job # NoJob =>
           /\ i.fault = "put" => s.had_error = TRUE /\ s.last_y = i.last_y
           /\ i.fault # "put" => s.had_error = i.had_error /\ s.last_y = i.job + 1
  BY SyncFacts
<1>3. s.set_up = i.set_up /\ s.num_rows = i.num_rows
  BY <1>2 DEF Changes, Fields, RowFields
<1>4. n = 0
  BY <1>3 DEF RowsFlow
<1> HIDE DEF s, n
<1>5. IsIdec(s)
  BY <1>2 DEF Changes
<1>6. Changes(s, j, {"set_up"})
  BY <1>1, <1>5 DEF Changes, IsIdec
<1>7. j.set_up = n
  BY <1>1, <1>5 DEF IsIdec, Fields
<1>8. Changes(i, j, RowFields \union {"job", "set_up"})
  BY <1>2, <1>6 DEF Changes
<1>9. /\ SameAlpha(s, j) /\ SameMem(s, j) /\ j.start = s.start /\ j.state = s.state
      /\ SameRows(s, j)
  BY <1>6 DEF Changes, Fields, SameAlpha, SameMem, SameRows
<1>10. Mem(j, g)
  BY <1>2, <1>9 DEF Mem, SameMem
<1>11. Alpha(j)
  BY <1>2, <1>9 DEF Alpha, NeedCompressedAlpha, Pos, Ptr, SameAlpha, SameMem
<1>12. MbH \in Nat
  BY LossyFacts
<1>13. CASE i.job = NoJob
  <2>1. j.last_y = i.last_y /\ j.had_error = i.had_error /\ j.num_rows = i.num_rows /\ j.job = NoJob
    BY <1>2, <1>9, <1>13 DEF SameRows
  <2> QED BY <1>4, <1>7, <1>8, <1>10, <1>11, <1>12, <1>13, <2>1 DEF RowsFlow
<1>14. CASE i.job # NoJob
  <2>1. j.had_error = s.had_error /\ j.last_y = s.last_y /\ j.num_rows = i.num_rows /\ j.job = NoJob
    BY <1>2, <1>3, <1>9 DEF SameRows
  <2>2. \/ s.had_error = TRUE /\ s.last_y = i.last_y
        \/ s.had_error = i.had_error /\ s.last_y = i.last_y + 1
    BY <1>2, <1>14 DEF RowsFlow
  <2>3. i.last_y \in 0..MbH /\ i.last_y < MbH /\ i.had_error \in BOOLEAN
        /\ i.num_rows \in 0..NumArgbCacheRows
    BY <1>14 DEF RowsFlow
  <2>4. /\ j.last_y \in i.last_y..MbH /\ j.had_error \in BOOLEAN
        /\ ~j.had_error => j.last_y = i.last_y + 1
    <3>1. j.last_y \in i.last_y..MbH
      BY <1>12, <2>1, <2>2, <2>3
    <3>2. j.had_error \in BOOLEAN
      BY <2>1, <2>2, <2>3, Zenon
    <3>3. ~j.had_error => j.last_y = i.last_y + 1
      BY <2>1, <2>2, Zenon
    <3> QED BY <3>1, <3>2, <3>3
  <2> QED BY <1>4, <1>7, <1>8, <1>10, <1>11, <1>14, <2>1, <2>3, <2>4
<1> QED BY <1>13, <1>14

(* A decoder that has come to its end.                                       *)
LEMMA EndIsSound ==
  ASSUME NEW i, NEW g, IsIdec(i), Mem(i, g), Alpha(i), Rows(i),
         i.state \notin {"webp_header", "vp8_data"},
         NEW S, S \subseteq {"state", "status", "output", "slow"},
         NEW j, Changes(i, j, S), j.state \in {"done", "error"}
  PROVE  Sound(j, g) /\ j.last_y = i.last_y
<1>1. S \cap HeldFields = {}
  BY DEF HeldFields
<1>2. Mem(j, g) /\ Alpha(j)
  BY <1>1, KeepsMemory
<1>3. SameRows(i, j) /\ j.set_up = i.set_up
  BY DEF Changes, Fields, SameRows
<1>4. Rows(j)
  BY <1>3 DEF Rows, SameRows
<1> QED BY <1>2, <1>3, <1>4 DEF Sound, Phase, States, Changes, SameRows

(* An error among the macroblocks tears the output down.                     *)
LEMMA DataErrorIsSound ==
  ASSUME Given, IsLossy, NEW i, NEW g, IsIdec(i), Mem(i, g), Alpha(i), RowsFlow(i),
         i.state = "vp8_data", NEW e, e \in Statuses \ {"OK", "SUSPENDED"}
  PROVE  /\ Sound(IDecError(i, e), g) /\ Ended(IDecError(i, e), g)
         /\ IDecError(i, e).state = "error"
         /\ IDecError(i, e).last_y \in i.last_y..MbH
<1> DEFINE j == IDecError(i, e)
           x == VP8ExitCritical(i)
<1>1. j = [x EXCEPT !.state = "error", !.status = e]
  BY DEF IDecError
<1> HIDE DEF j
<1>2. /\ Changes(i, x, RowFields \union {"job", "set_up"}) /\ Mem(x, g) /\ Alpha(x)
      /\ x.job = NoJob /\ x.set_up = 0 /\ x.had_error \in BOOLEAN
      /\ x.last_y \in i.last_y..MbH /\ x.num_rows \in 0..NumArgbCacheRows
  BY ExitFacts
<1> HIDE DEF x
<1>3. IsIdec(x)
  BY <1>2 DEF Changes
<1>4. Changes(x, j, {"state", "status"})
  BY <1>1, <1>3 DEF Changes, IsIdec
<1>5. j.state = "error" /\ j.status = e
  BY <1>1, <1>3 DEF IsIdec, Fields
<1>6. x.state = "vp8_data"
  BY <1>2 DEF Changes, Fields, RowFields
<1>7. SameMem(x, j) /\ SameAlpha(x, j) /\ j.start = x.start /\ SameRows(x, j)
      /\ j.set_up = x.set_up
  BY <1>4 DEF Changes, Fields, SameMem, SameAlpha, SameRows
<1>8. Mem(j, g)
  BY <1>2, <1>7 DEF Mem, SameMem
<1>9. NeedCompressedAlpha(j) => NeedCompressedAlpha(x)
  BY <1>6, <1>7 DEF NeedCompressedAlpha, SameAlpha
<1>10. Alpha(j)
  BY <1>2, <1>7, <1>9 DEF Alpha, Pos, Ptr, SameAlpha, SameMem
<1>11. Rows(j)
  <2>1. j.last_y = x.last_y /\ x.last_y \in 0..MbH /\ Height = MbH
    <3>1. MbH \in Nat /\ Height = MbH
      BY LossyFacts
    <3>2. i.last_y \in 0..MbH
      BY DEF RowsFlow
    <3> QED BY <1>2, <1>7, <3>1, <3>2 DEF SameRows
  <2> QED BY <1>2, <1>5, <1>7, <2>1 DEF Rows, SameRows
<1>12. Sound(j, g)
  BY <1>4, <1>5, <1>8, <1>10, <1>11 DEF Sound, Phase, States, Changes
<1>13. Ended(j, g)
  BY <1>5 DEF Ended, Statuses
<1> QED BY <1>2, <1>5, <1>7, <1>12, <1>13 DEF SameRows, j

(* FinishDecoding, when all rows are out: done, or an error while copying    *)
(* to a slow output.                                                         *)
LEMMA FinishIsSound ==
  ASSUME NEW i, NEW g, IsIdec(i), Mem(i, g), Alpha(i), i.state # "webp_header",
         i.job = NoJob, i.had_error \in BOOLEAN, i.num_rows \in 0..NumArgbCacheRows,
         i.set_up = 0, ~IsLossy => i.last_y = i.last_row,
         i.last_y = Height, Height \in Nat
  PROVE  /\ Sound(FinishDecoding(i), g) /\ Ended(FinishDecoding(i), g)
         /\ FinishDecoding(i).state = "done" /\ FinishDecoding(i).last_y = i.last_y
<1> DEFINE k == FinishDecoding(i)
           j == [i EXCEPT !.state = "done", !.status = "OK"]
<1>1. k = IF ~i.slow THEN j
          ELSE IF i.fault = "copy"
          THEN [j EXCEPT !.status = "INVALID_PARAM", !.output = "none"]
          ELSE [j EXCEPT !.slow = FALSE]
  <2>1. j.slow = i.slow /\ j.fault = i.fault
    BY DEF IsIdec, Fields
  <2> QED BY <2>1 DEF FinishDecoding
<1>2. Changes(i, j, {"state", "status"})
  BY DEF Changes, IsIdec
<1>3. j.state = "done" /\ j.status = "OK"
  BY DEF IsIdec, Fields
<1> HIDE DEF j, k
<1>4. IsIdec(j)
  BY <1>2 DEF Changes
<1>5. /\ Changes(j, k, {"status", "output", "slow"})
      /\ k.state = "done" /\ k.status \in {"OK", "INVALID_PARAM"}
  <2>1. CASE ~i.slow
    <3>1. k = j
      BY <1>1, <2>1
    <3> QED BY <1>3, <1>4, <3>1 DEF Changes
  <2>2. CASE i.slow /\ i.fault = "copy"
    <3>1. k = [j EXCEPT !.status = "INVALID_PARAM", !.output = "none"]
      BY <1>1, <2>2
    <3>2. Changes(j, k, {"status", "output", "slow"})
      BY <1>4, <3>1 DEF Changes, IsIdec
    <3>3. k.state = j.state /\ k.status = "INVALID_PARAM"
      BY <1>4, <3>1 DEF IsIdec, Fields
    <3> QED BY <1>3, <3>2, <3>3
  <2>3. CASE i.slow /\ i.fault # "copy"
    <3>1. k = [j EXCEPT !.slow = FALSE]
      BY <1>1, <2>3
    <3>2. Changes(j, k, {"status", "output", "slow"})
      BY <1>4, <3>1 DEF Changes, IsIdec
    <3>3. k.state = j.state /\ k.status = j.status
      BY <1>4, <3>1 DEF IsIdec, Fields
    <3> QED BY <1>3, <3>2, <3>3
  <2> QED BY <2>1, <2>2, <2>3
<1>6. Changes(i, k, {"state", "status", "output", "slow"})
  BY <1>2, <1>5 DEF Changes
<1>7. Mem(k, g) /\ Alpha(k)
  <2>1. {"state", "status", "output", "slow"} \cap HeldFields = {}
    BY DEF HeldFields
  <2> QED BY <1>6, <2>1, KeepsMemory
<1>8. SameRows(i, k) /\ k.set_up = 0
  BY <1>6 DEF Changes, Fields, SameRows
<1>9. Rows(k)
  BY <1>5, <1>8 DEF Rows, SameRows
<1>10. Sound(k, g)
  BY <1>5, <1>6, <1>7, <1>9 DEF Sound, Phase, States, Changes
<1>11. Ended(k, g)
  BY <1>5, <1>8 DEF Ended, Statuses, SameRows
<1> QED BY <1>5, <1>8, <1>10, <1>11 DEF k, SameRows

-----------------------------------------------------------------------------
(* Partition #0.                                                             *)
LEMMA ReadersAreSet ==
  ASSUME Given, NEW i, NEW g, Sound(i, g), i.state = "vp8_parts0",
         NEW S, S \subseteq {"br", "parts", "output"}, NEW j, Changes(i, j, S)
  PROVE  Sound(j, g) /\ j.state = i.state /\ j.last_y = i.last_y /\ j.fault = i.fault
<1>1. j.state = i.state /\ j.part0_size = i.part0_size /\ j.io_data = i.io_data
      /\ j.io_size = i.io_size
  BY DEF Changes, Fields
<1>2. Changes(i, j, HeaderFields)
  BY DEF Changes, HeaderFields
<1>3. /\ IsIdec(j) /\ Mem(j, g) /\ Alpha(j) /\ Fresh(j) /\ Pos(j) = file.payload
      /\ IsLossy /\ j.dec = "lossy" /\ j.buf # Null /\ j.mode \in {"append", "map"}
      /\ j.start = i.start /\ j.buf = i.buf /\ j.end = i.end
      /\ j.fault = i.fault /\ j.last_y = 0 /\ i.last_y = 0
      /\ i.io_data = i.buf + i.start /\ i.io_size = i.end - i.start /\ Rows(j)
  BY <1>1, <1>2, HeaderIsKept
<1>4. Unread(j)
  BY <1>1, <1>3 DEF Unread
<1>5. AtLossyHeaders(j)
  BY <1>1, <1>3, <1>4 DEF AtLossyHeaders, Sound, Phase
<1> QED BY <1>1, <1>3, <1>5 DEF Sound, Phase, States

(* The partitions as they are read first.                                    *)
AtFirstMB(i, x, g) ==
  /\ Changes(i, x, {"br", "parts", "output"}) /\ x.output = "set"
  /\ x.br = Reader(i.io_data + FrameHeaderSize + file.intro,
                   i.io_data + FrameHeaderSize + file.part0)
  /\ x.parts = [q \in 1..file.parts |->
                  Reader(Ptr(i, PartAt(q - 1)), Ptr(i, EndAt(q - 1, g)))]

(* Entering the data, every reader is at its first byte: partition #0 in     *)
(* its copy or in the caller's memory, the others behind it.                 *)
LEMMA EnterDataIsSound ==
  ASSUME Given, NEW i, NEW g, Sound(i, g), i.state = "vp8_parts0",
         ~(MemDataSize(i) < i.part0_size), NEW x, AtFirstMB(i, x, g)
  PROVE  LET j == EnterData(x)
         IN /\ Sound(j, g) /\ j.last_y = i.last_y
            /\ \/ Ended(j, g) /\ j.state = "error"
               \/ j.state = "vp8_data"
<1> DEFINE j == EnterData(x)
           size == x.br.end - x.br.buf
           at == IF x.mode = "append" THEN Part0Base ELSE Null
           br == IF x.mode = "append" THEN Reader(Part0Base, Part0Base + size) ELSE x.br
           st == x.start + size
           c == [x EXCEPT !.part0_buf = at, !.br = br, !.start = st]
           up == c.set_up + 1
           d == [c EXCEPT !.set_up = up, !.state = "vp8_data"]
           e == [d EXCEPT !.status = "OK"]
<1>j. j = CASE size = 0 -> IDecError(x, "BITSTREAM_ERROR")
            [] size > 0 /\ x.fault = "part0" /\ x.mode = "append" ->
                 IDecError(x, "OUT_OF_MEMORY")
            [] OTHER ->
                 IF x.fault = "setup" THEN IDecError(c, "USER_ABORT")
                 ELSE IF x.fault = "init" THEN IDecError(d, "OUT_OF_MEMORY")
                 ELSE e
  BY DEF EnterData
<1>1. /\ Sound(x, g) /\ x.state = "vp8_parts0" /\ x.last_y = i.last_y
  <2>1. Changes(i, x, {"br", "parts", "output"})
    BY DEF AtFirstMB
  <2> QED BY <2>1, ReadersAreSet
<1>2. /\ IsIdec(x) /\ Mem(x, g) /\ Alpha(x) /\ Fresh(x) /\ Pos(x) = file.payload
      /\ IsLossy /\ x.dec = "lossy" /\ x.buf # Null /\ x.mode \in {"append", "map"}
      /\ x.set_up = 0 /\ x.job = NoJob /\ Rows(x) /\ x.last_y = 0 /\ i.last_y = 0
      /\ x.start = i.start /\ x.buf = i.buf /\ x.end = i.end /\ x.first = i.first
      /\ i.io_data = i.buf + i.start
  <2>1. Changes(i, x, HeaderFields)
    BY DEF AtFirstMB, Changes, HeaderFields
  <2> QED BY <1>1, <2>1, HeaderIsKept
<1>3. /\ file.part0 \in Nat /\ file.intro \in Nat /\ file.intro <= file.part0
      /\ MbH \in Nat \ {0} /\ Height = MbH /\ file.mb_w \in Nat \ {0}
      /\ file.parts \in Nat \ {0} /\ FrameHeaderSize \in Nat
      /\ PartsAt = file.payload + FrameHeaderSize + file.part0 + file.parts - 1
      /\ file.payload \in Nat /\ Part0Base \in Nat
  BY <1>2, LossyFacts, DecoderAssumption
<1>4. /\ x.start \in Nat /\ x.end \in Nat /\ x.first \in Nat /\ x.buf \in Nat
      /\ x.first + x.start = file.payload /\ g = x.first + x.end
  BY <1>2 DEF Mem, Pos
<1>5. size = file.part0 - file.intro /\ size \in Nat
  <2>1. x.br = Reader(i.io_data + FrameHeaderSize + file.intro,
                      i.io_data + FrameHeaderSize + file.part0)
    BY DEF AtFirstMB
  <2>2. i.io_data \in Nat
    BY <1>2, <1>4
  <2> QED BY <1>3, <2>1, <2>2 DEF Reader
<1>6. x.end - x.start >= file.part0 + FrameHeaderSize
  <2>1. i.part0_size = file.part0 + FrameHeaderSize /\ MemDataSize(i) = x.end - x.start
    BY <1>2 DEF Sound, Phase, AtLossyHeaders, MemDataSize
  <2> QED BY <1>3, <1>4, <2>1
<1>e. /\ "BITSTREAM_ERROR" \in Statuses \ {"OK", "SUSPENDED"}
      /\ "OUT_OF_MEMORY" \in Statuses \ {"OK", "SUSPENDED"}
      /\ "USER_ABORT" \in Statuses \ {"OK", "SUSPENDED"}
  BY DEF Statuses
<1> HIDE DEF size, at, br, st
<1>7. /\ Changes(x, c, {"part0_buf", "br", "start"})
  BY <1>2 DEF Changes, IsIdec
<1>8. c.br = br /\ c.start = st
  BY <1>2 DEF IsIdec, Fields
<1> HIDE DEF c
<1>9. /\ SameMem(x, c) /\ SameAlpha(x, c) /\ SameRows(x, c) /\ SamePlace(x, c)
      /\ SamePixel(x, c)
      /\ IsIdec(c) /\ c.set_up = 0 /\ c.state = "vp8_parts0" /\ c.parts = x.parts
      /\ c.output = x.output
  <2>1. /\ SameMem(x, c) /\ SameAlpha(x, c) /\ SameRows(x, c) /\ SamePlace(x, c)
        /\ SamePixel(x, c)
    BY <1>7 DEF Changes, Fields, SameMem, SameAlpha, SameRows, SamePlace, SamePixel
  <2>2. IsIdec(c) /\ c.set_up = x.set_up /\ c.state = x.state /\ c.parts = x.parts
        /\ c.output = x.output
    BY <1>7 DEF Changes, Fields
  <2> QED BY <1>1, <1>2, <2>1, <2>2
<1>10. /\ Mem(c, g) /\ Pos(c) = file.payload + size /\ \A n : Ptr(c, n) = Ptr(x, n)
  <2>1. st = x.start + size /\ st \in Nat /\ st <= x.end
    BY <1>3, <1>4, <1>5, <1>6 DEF st
  <2>2. c.first = x.first /\ c.buf = x.buf /\ c.start = st
    BY <1>8, <1>9 DEF SameMem
  <2>3. Mem(c, g)
    BY <1>2, <1>9, <2>1, <2>2 DEF Mem, SameMem
  <2>4. Pos(c) = file.payload + size
    BY <1>4, <1>5, <2>1, <2>2 DEF Pos
  <2> QED BY <2>2, <2>3, <2>4 DEF Ptr
<1>11. Alpha(c)
  <2>1. NeedCompressedAlpha(c) => NeedCompressedAlpha(x)
    BY <1>1, <1>9 DEF NeedCompressedAlpha, SameAlpha
  <2>2. Pos(c) >= file.payload
    BY <1>3, <1>5, <1>10
  <2> QED BY <1>2, <1>9, <1>10, <2>1, <2>2 DEF Alpha, SameAlpha, SameMem
<1>12. Rows(c) /\ Fresh(c) /\ c.last_y = 0
  BY <1>1, <1>2, <1>9 DEF Rows, Fresh, SameRows, SamePlace, SamePixel
<1>13. up = 1
  BY <1>9
<1> HIDE DEF up
<1>14. Changes(c, d, {"set_up", "state"})
  BY <1>9 DEF Changes, IsIdec
<1>15. d.set_up = 1 /\ d.state = "vp8_data"
  BY <1>9, <1>13 DEF IsIdec, Fields
<1> HIDE DEF d
<1>16. /\ IsIdec(d) /\ Mem(d, g) /\ Alpha(d)
  <2>1. {"set_up", "state"} \cap HeldFields = {}
    BY DEF HeldFields
  <2> QED BY <1>9, <1>10, <1>11, <1>14, <2>1, KeepsMemory
<1>17. SameRows(c, d)
  BY <1>14 DEF Changes, Fields, SameRows
<1>18. RowsFlow(d) /\ d.last_y = 0
  <2>1. c.job = NoJob /\ c.num_rows \in 0..NumArgbCacheRows /\ c.had_error \in BOOLEAN
    BY <1>12 DEF Rows
  <2> QED BY <1>3, <1>12, <1>15, <1>17, <2>1 DEF RowsFlow, SameRows
<1>19. CASE size = 0
  <2>1. j = IDecError(x, "BITSTREAM_ERROR")
    BY <1>5, <1>19, <1>j
  <2> HIDE DEF j
  <2>2. Sound(j, g) /\ Ended(j, g) /\ j.state = "error" /\ j.last_y = x.last_y
    BY <1>1, <1>2, <1>e, <2>1, ErrorIsSound
  <2> QED BY <1>1, <2>2 DEF j
<1>20. CASE size > 0 /\ x.fault = "part0" /\ x.mode = "append"
  <2>1. j = IDecError(x, "OUT_OF_MEMORY")
    BY <1>5, <1>20, <1>j
  <2> HIDE DEF j
  <2>2. Sound(j, g) /\ Ended(j, g) /\ j.state = "error" /\ j.last_y = x.last_y
    BY <1>1, <1>2, <1>e, <2>1, ErrorIsSound
  <2> QED BY <1>1, <2>2 DEF j
<1>21. CASE size # 0 /\ ~(size > 0 /\ x.fault = "part0" /\ x.mode = "append")
  <2>0. j = IF x.fault = "setup" THEN IDecError(c, "USER_ABORT")
            ELSE IF x.fault = "init" THEN IDecError(d, "OUT_OF_MEMORY")
            ELSE e
    BY <1>21, <1>j
  <2> HIDE DEF j
  <2>1. CASE x.fault = "setup"
    <3>1. Sound(j, g) /\ Ended(j, g) /\ j.state = "error" /\ j.last_y = c.last_y
      BY <1>9, <1>10, <1>11, <1>12, <1>e, <2>0, <2>1, ErrorIsSound
    <3> QED BY <1>2, <1>12, <3>1 DEF j
  <2>2. CASE x.fault # "setup" /\ x.fault = "init"
    <3>1. Sound(j, g) /\ Ended(j, g) /\ j.state = "error"
      BY <1>2, <1>15, <1>16, <1>18, <1>e, <2>0, <2>2, DataErrorIsSound
    <3>2. j.last_y = d.last_y
      <4>1. d.job = NoJob
        BY <1>12, <1>17 DEF Rows, SameRows
      <4>2. j = [VP8ExitCritical(d) EXCEPT !.state = "error", !.status = "OUT_OF_MEMORY"]
        BY <1>15, <2>0, <2>2 DEF IDecError
      <4>3. VP8ExitCritical(d).last_y = d.last_y /\ IsIdec(VP8ExitCritical(d))
        <5>1. /\ Changes(d, VP8ExitCritical(d), RowFields \union {"job", "set_up"})
              /\ d.job = NoJob => VP8ExitCritical(d).last_y = d.last_y
          BY <1>2, <1>16, <1>18, ExitFacts
        <5> QED BY <4>1, <5>1 DEF Changes
      <4> QED BY <4>2, <4>3 DEF IsIdec, Fields
    <3> QED BY <1>2, <1>18, <3>1, <3>2 DEF j
  <2>3. CASE x.fault # "setup" /\ x.fault # "init"
    <3>1. j = [d EXCEPT !.status = "OK"]
      BY <2>0, <2>3
    <3>2. Changes(d, j, {"status"})
      BY <1>16, <3>1 DEF Changes, IsIdec
    <3>3. IsIdec(j) /\ Mem(j, g) /\ Alpha(j) /\ Pos(j) = Pos(d) /\ \A n : Ptr(j, n) = Ptr(d, n)
      <4>1. {"status"} \cap HeldFields = {}
        BY DEF HeldFields
      <4> QED BY <1>15, <1>16, <3>2, <4>1, KeepsMemory
    <3>4. Changes(c, j, {"set_up", "state", "status"})
      BY <1>14, <3>2 DEF Changes
    <3>5. j.set_up = 1 /\ j.state = "vp8_data"
      BY <1>15, <3>2 DEF Changes, Fields
    <3>6. /\ SameMem(c, j) /\ SameAlpha(c, j) /\ SameRows(c, j) /\ SamePlace(c, j)
          /\ j.parts = c.parts /\ j.br = c.br /\ j.start = c.start /\ j.output = c.output
      BY <3>4 DEF Changes, Fields, SameMem, SameAlpha, SameRows, SamePlace
    <3>7. /\ j.mb_x = 0 /\ j.mb_y = 0 /\ j.last_mb_y = -1 /\ ~j.had_error /\ j.last_y = 0
          /\ j.num_rows = 0 /\ j.job = NoJob
      BY <1>12, <3>6 DEF Fresh, Rows, SamePlace, SameRows
    <3>8. Rows(j)
      <4>1. 0 \in 0..Height /\ 0 \in 0..NumArgbCacheRows
        BY <1>3, DecoderAssumption
      <4>2. j.had_error \in BOOLEAN
        BY <1>12, <3>6 DEF Rows, SameRows
      <4> QED BY <1>2, <3>5, <3>7, <4>1, <4>2 DEF Rows
    <3>9. Pos(j) = file.payload + size /\ \A n : Ptr(j, n) = Ptr(i, n)
      <4>1. \A n : Ptr(c, n) = Ptr(i, n)
        BY <1>2, <1>10 DEF Ptr
      <4> QED BY <1>10, <3>6, <4>1 DEF Pos, Ptr, SameMem
    <3>10. PartReaders(j, g)
      <4>1. \A q \in 1..file.parts : MbAt(q - 1, 0, 0) = PartAt(q - 1)
        BY <1>2, <1>3, MbPlaces
      <4>2. j.parts = [q \in 1..file.parts |->
                         Reader(Ptr(i, PartAt(q - 1)), Ptr(i, EndAt(q - 1, g)))]
        BY <1>9, <3>6 DEF AtFirstMB
      <4> QED BY <3>7, <3>9, <4>1, <4>2 DEF PartReaders
    <3>11. Unpassed(j)
      <4>1. ASSUME NEW p \in 0..file.parts - 1 PROVE MbAt(p, 0, 0) >= Pos(j)
        <5>1. MbAt(p, 0, 0) = PartAt(p)
          BY <1>2, MbPlaces
        <5>2. PartAt(p) \in Nat /\ PartAt(p) >= PartsAt
          <6>1. p \in 0..file.parts
            BY <1>3
          <6> QED BY <1>2, <6>1, PartStarts
        <5> QED BY <1>3, <1>5, <3>9, <5>1, <5>2
      <4> QED BY <3>7, <4>1 DEF Unpassed
    <3>12. ModeReader(j)
      <4>m. j.mode = x.mode /\ j.buf = x.buf /\ j.br = br
        BY <1>8, <1>9, <3>6 DEF SameMem
      <4>1. CASE x.mode = "append"
        <5>1. j.br = Reader(Part0Base, Part0Base + size)
          BY <4>1, <4>m DEF br
        <5>2. Part0Base + j.last_mb_y + 1 = Part0Base /\ Part0Base + size \in Int
          BY <1>3, <1>5, <3>7
        <5> QED BY <4>1, <4>m, <5>1, <5>2 DEF ModeReader
      <4>2. CASE x.mode # "append"
        <5>1. j.br = Reader(i.io_data + FrameHeaderSize + file.intro,
                            i.io_data + FrameHeaderSize + file.part0)
          BY <4>2, <4>m DEF br, AtFirstMB
        <5>2. x.first = 0
          BY <1>2, <4>2 DEF Mem
        <5>3. i.io_data = j.buf + file.payload
          BY <1>2, <1>4, <4>m, <5>2
        <5>4. /\ i.io_data + FrameHeaderSize + file.intro =
                   (j.buf + Part0At + file.intro) + j.last_mb_y + 1
              /\ i.io_data + FrameHeaderSize + file.part0 \in Int
          BY <1>3, <1>4, <3>7, <4>m, <5>3 DEF Part0At
        <5> QED BY <4>2, <4>m, <5>1, <5>4 DEF ModeReader
      <4> QED BY <4>1, <4>2
    <3>13. AmongMacroblocks(j, g)
      <4>1. file.payload <= Pos(j)
        BY <1>3, <1>5, <3>9
      <4>2. j.mb_y \in 0..MbH /\ j.mb_x \in 0..file.mb_w - 1 /\ j.mb_y # MbH
            /\ j.last_mb_y \in {j.mb_y - 1, j.mb_y}
        BY <1>3, <3>7
      <4>3. j.dec = "lossy" /\ j.output = "set" /\ j.buf # Null /\ j.mode \in {"append", "map"}
        BY <1>2, <1>9, <3>6 DEF SameAlpha, SameMem, AtFirstMB
      <4> QED BY <1>2, <3>7, <3>10, <3>11, <3>12, <4>1, <4>2, <4>3 DEF AmongMacroblocks
    <3>14. AtMacroblocks(j, g)
      BY <1>3, <3>7, <3>13 DEF AtMacroblocks
    <3>15. Sound(j, g) /\ j.last_y = i.last_y
      BY <1>2, <3>3, <3>5, <3>7, <3>8, <3>14 DEF Sound, Phase, States
    <3> QED BY <3>5, <3>15 DEF j
  <2> QED BY <2>1, <2>2, <2>3
<1> QED BY <1>19, <1>20, <1>21

(* DecodePartition0 keeps the decoder sound: it comes back as it was until   *)
(* all partitions but the last are there.                                    *)
LEMMA Partition0IsSound ==
  ASSUME Given, NEW i, NEW g, Sound(i, g), i.state = "vp8_parts0"
  PROVE  LET j == DecodePartition0(i)
         IN /\ Sound(j, g) /\ j.last_y = i.last_y
            /\ \/ Ended(j, g) /\ j.state \in {"vp8_parts0", "error"}
               \/ j.state = "vp8_data"
<1> DEFINE j == DecodePartition0(i)
           x == Partition0(i)
           y == ParsePartitions(x)
           z == [y EXCEPT !.output = "set"]
           at == i.io_data + FrameHeaderSize
           br == Reader(at + file.intro, at + file.part0)
           n == file.parts
<1>j. j = IF MemDataSize(i) < i.part0_size THEN Suspended(i)
          ELSE IF i.fault = "frame" THEN IDecError(i, "BITSTREAM_ERROR")
          ELSE IF ~SizesAreThere(i) THEN Suspended(x)
          ELSE IF ~PartitionsAreThere(i) THEN Suspended(y)
          ELSE IF i.fault = "output" THEN IDecError(y, "OUT_OF_MEMORY")
          ELSE EnterData(z)
  BY DEF DecodePartition0
<1>1. /\ IsIdec(i) /\ Mem(i, g) /\ Alpha(i) /\ Rows(i) /\ IsLossy /\ Pos(i) = file.payload
      /\ i.part0_size = file.part0 + FrameHeaderSize
      /\ i.io_data = i.buf + i.start /\ i.io_size = i.end - i.start
  BY DEF Sound, Phase, AtLossyHeaders, Unread
<1>2. /\ file.part0 \in Nat /\ file.intro \in Nat /\ file.intro <= file.part0
      /\ n \in Nat \ {0} /\ FrameHeaderSize \in Nat /\ file.payload \in Nat
      /\ PartsAt = file.payload + FrameHeaderSize + file.part0 + n - 1
  BY <1>1, LossyFacts
<1>3. /\ PartAt(n - 1) \in Nat /\ PartAt(n - 1) >= PartsAt /\ PartAt(n - 1) < FileSize
      /\ FileSize \in Nat
  <2>1. n - 1 \in 0..n
    <3>1. file.parts \in Nat \ {0}
      BY <1>2
    <3> QED BY <3>1
  <2> QED BY <1>1, <2>1, PartStarts, SizeFacts
<1>4. g \in Nat /\ i.end - i.start = g - file.payload /\ MemDataSize(i) = g - file.payload
  BY HeaderSizes
<1>5. i.buf \in Nat /\ i.start \in Nat /\ i.first \in Nat /\ i.end \in Nat
      /\ i.first + i.start = file.payload /\ i.first + i.end = g
  BY <1>1 DEF Mem, Pos
<1>e. /\ "BITSTREAM_ERROR" \in Statuses \ {"OK", "SUSPENDED"}
      /\ "OUT_OF_MEMORY" \in Statuses \ {"OK", "SUSPENDED"}
  BY DEF Statuses
<1>6. x = [i EXCEPT !.br = br]
  BY DEF Partition0
<1> HIDE DEF br
<1>7. Changes(i, x, {"br"})
  BY <1>1, <1>6 DEF Changes, IsIdec
<1>8. x.br = br
  BY <1>1, <1>6 DEF IsIdec, Fields
<1> HIDE DEF x
<1>9. /\ IsIdec(x) /\ x.io_data = i.io_data /\ x.io_size = i.io_size
      /\ Sound(x, g) /\ x.state = i.state /\ x.last_y = i.last_y
  <2>1. IsIdec(x) /\ x.io_data = i.io_data /\ x.io_size = i.io_size
    BY <1>7 DEF Changes, Fields
  <2> QED BY <1>7, <2>1, ReadersAreSet
<1> DEFINE buf_end == x.io_data + x.io_size
           Bounded(a) == IF a > buf_end THEN buf_end ELSE a
           Start(p) == Bounded(x.io_data + PartAt(p) - file.payload)
           parts == [p \in 1..file.parts |->
                       Reader(Start(p - 1), IF p < file.parts THEN Start(p) ELSE buf_end)]
<1>10. y = [x EXCEPT !.parts = parts]
  BY DEF ParsePartitions
<1> HIDE DEF parts
<1>11. Changes(x, y, {"parts"})
  BY <1>9, <1>10 DEF Changes, IsIdec
<1>12. y.parts = parts
  BY <1>9, <1>10 DEF IsIdec, Fields
<1> HIDE DEF y
<1>13. Changes(i, y, {"br", "parts"})
  BY <1>7, <1>11 DEF Changes
<1>14. Sound(y, g) /\ y.state = i.state /\ y.last_y = i.last_y /\ IsIdec(y) /\ y.br = br
  <2>1. IsIdec(y) /\ y.br = x.br
    BY <1>11 DEF Changes, Fields
  <2> QED BY <1>8, <1>13, <2>1, ReadersAreSet
<1>15. CASE MemDataSize(i) < i.part0_size
  <2>1. j = Suspended(i)
    BY <1>15, <1>j
  <2> HIDE DEF j
  <2>2. g < FileSize
    BY <1>1, <1>2, <1>3, <1>4, <1>15
  <2>3. Sound(j, g) /\ Ended(j, g) /\ j.state = i.state /\ j.last_y = i.last_y
    BY <2>1, <2>2, SuspendedIsSound
  <2> QED BY <2>3 DEF j
<1>16. CASE ~(MemDataSize(i) < i.part0_size) /\ i.fault = "frame"
  <2>1. j = IDecError(i, "BITSTREAM_ERROR")
    BY <1>16, <1>j
  <2> HIDE DEF j
  <2>2. Sound(j, g) /\ Ended(j, g) /\ j.state = "error" /\ j.last_y = i.last_y
    BY <1>1, <1>e, <2>1, ErrorIsSound
  <2> QED BY <2>2 DEF j
<1>17. CASE ~(MemDataSize(i) < i.part0_size) /\ i.fault # "frame" /\ ~SizesAreThere(i)
  <2>1. j = Suspended(x)
    BY <1>17, <1>j
  <2> HIDE DEF j
  <2>2. g < FileSize
    BY <1>1, <1>2, <1>3, <1>4, <1>17 DEF SizesAreThere
  <2>3. Sound(j, g) /\ Ended(j, g) /\ j.state = x.state /\ j.last_y = x.last_y
    BY <1>9, <2>1, <2>2, SuspendedIsSound
  <2> QED BY <1>9, <2>3 DEF j
<1>18. CASE /\ ~(MemDataSize(i) < i.part0_size) /\ i.fault # "frame" /\ SizesAreThere(i)
            /\ ~PartitionsAreThere(i)
  <2>1. j = Suspended(y)
    BY <1>18, <1>j
  <2> HIDE DEF j
  <2>2. g < FileSize
    BY <1>1, <1>2, <1>3, <1>4, <1>18 DEF PartitionsAreThere
  <2>3. Sound(j, g) /\ Ended(j, g) /\ j.state = y.state /\ j.last_y = y.last_y
    BY <1>14, <2>1, <2>2, SuspendedIsSound
  <2> QED BY <1>14, <2>3 DEF j
<1>19. CASE /\ ~(MemDataSize(i) < i.part0_size) /\ i.fault # "frame" /\ SizesAreThere(i)
            /\ PartitionsAreThere(i) /\ i.fault = "output"
  <2>1. j = IDecError(y, "OUT_OF_MEMORY")
    BY <1>19, <1>j
  <2> HIDE DEF j
  <2>2. Sound(j, g) /\ Ended(j, g) /\ j.state = "error" /\ j.last_y = y.last_y
    <3>1. IsIdec(y) /\ Mem(y, g) /\ Alpha(y) /\ Rows(y)
      BY <1>14 DEF Sound
    <3> QED BY <1>14, <1>e, <2>1, <3>1, ErrorIsSound
  <2> QED BY <1>14, <2>2 DEF j
<1>20. CASE /\ ~(MemDataSize(i) < i.part0_size) /\ i.fault # "frame" /\ SizesAreThere(i)
            /\ PartitionsAreThere(i) /\ i.fault # "output"
  <2>1. j = EnterData(z)
    BY <1>20, <1>j
  <2> HIDE DEF j
  <2>2. Changes(y, z, {"output"})
    BY <1>14 DEF Changes, IsIdec
  <2>3. z.output = "set"
    BY <1>14 DEF IsIdec, Fields
  <2> HIDE DEF z
  <2>4. Changes(i, z, {"br", "parts", "output"}) /\ z.br = br /\ z.parts = parts
    <3>1. Changes(i, z, {"br", "parts", "output"})
      BY <1>13, <2>2 DEF Changes
    <3>2. z.br = y.br /\ z.parts = y.parts
      BY <2>2 DEF Changes, Fields
    <3> QED BY <1>12, <1>14, <3>1, <3>2
  <2>5. g > PartAt(n - 1)
    BY <1>1, <1>2, <1>3, <1>4, <1>20 DEF PartitionsAreThere
  <2>6. buf_end = Ptr(i, g) /\ buf_end \in Nat
    BY <1>1, <1>5, <1>9 DEF Ptr
  <2>7. ASSUME NEW p \in 0..n - 1 PROVE Start(p) = Ptr(i, PartAt(p))
    <3>1. PartAt(p) \in Nat /\ PartAt(p) <= PartAt(n - 1)
      <4>1. p \in 0..n
        BY <1>2
      <4> QED BY <1>1, <4>1, PartStarts, PartsInOrder
    <3>2. x.io_data + PartAt(p) - file.payload = Ptr(i, PartAt(p))
      BY <1>1, <1>2, <1>5, <1>9, <3>1 DEF Ptr
    <3>3. ~(Ptr(i, PartAt(p)) > Ptr(i, g))
      BY <1>3, <1>4, <1>5, <2>5, <3>1 DEF Ptr
    <3> QED BY <2>6, <3>2, <3>3
  <2> HIDE DEF buf_end, Start
  <2>8. parts = [q \in 1..n |-> Reader(Ptr(i, PartAt(q - 1)), Ptr(i, EndAt(q - 1, g)))]
    <3>1. ASSUME NEW q \in 1..n
          PROVE  /\ Start(q - 1) = Ptr(i, PartAt(q - 1))
                 /\ (IF q < n THEN Start(q) ELSE buf_end) = Ptr(i, EndAt(q - 1, g))
      <4>1. q - 1 \in 0..n - 1 /\ (q < n => q \in 0..n - 1)
        BY <1>2
      <4>2. Start(q - 1) = Ptr(i, PartAt(q - 1))
        BY <2>7, <4>1
      <4>3. CASE q < n
        <5>1. EndAt(q - 1, g) = PartAt(q)
          BY <1>2, <4>3 DEF EndAt
        <5> QED BY <2>7, <4>1, <4>2, <4>3, <5>1
      <4>4. CASE ~(q < n)
        <5>1. EndAt(q - 1, g) = g
          BY <1>2, <4>4 DEF EndAt
        <5> QED BY <2>6, <4>2, <4>4, <5>1
      <4> QED BY <4>3, <4>4
    <3> QED BY <3>1 DEF parts
  <2>9. AtFirstMB(i, z, g)
    BY <2>3, <2>4, <2>8 DEF AtFirstMB, br
  <2>10. /\ Sound(j, g) /\ j.last_y = i.last_y
         /\ \/ Ended(j, g) /\ j.state = "error"
            \/ j.state = "vp8_data"
    BY <1>20, <2>1, <2>9, EnterDataIsSound
  <2> QED BY <2>10 DEF j
<1> QED BY <1>15, <1>16, <1>17, <1>18, <1>19, <1>20

-----------------------------------------------------------------------------
(* The loop over the macroblocks.                                            *)
Within(i, g) ==
  /\ IsIdec(i) /\ Mem(i, g) /\ Alpha(i) /\ AmongMacroblocks(i, g) /\ RowsFlow(i)
  /\ i.state = "vp8_data" /\ i.status = "OK"
  /\ \/ i.job = NoJob /\ i.last_y = i.mb_y
     \/ i.job = i.mb_y - 1 /\ i.last_y = i.mb_y - 1 /\ i.mb_y > 0 /\ caller.threads

(* The data is entered at the first macroblock.                              *)
LEMMA EntersWithin ==
  ASSUME Given, NEW i, NEW g, Sound(i, g), i.state = "vp8_data", i.status = "OK"
  PROVE  Within(i, g) /\ IsLossy
<1>1. IsIdec(i) /\ Mem(i, g) /\ Alpha(i) /\ Rows(i) /\ AtMacroblocks(i, g)
  BY DEF Sound, Phase
<1>2. AmongMacroblocks(i, g) /\ IsLossy
  BY <1>1 DEF AtMacroblocks, AmongMacroblocks
<1>3. i.job = NoJob /\ i.last_y = i.mb_y /\ i.set_up = 1
  BY <1>1 DEF Rows, AtMacroblocks
<1>4. RowsFlow(i)
  <2>1. Height = MbH
    BY <1>2, LossyFacts
  <2> QED BY <1>1, <1>3, <2>1 DEF RowsFlow, Rows
<1> QED BY <1>1, <1>2, <1>3, <1>4 DEF Within

(* The modes of a row.                                                       *)
LEMMA ModesFacts ==
  ASSUME Given, NEW i, NEW g, Within(i, g), i.mb_y < MbH,
         NEW j, j = ParseIntraModeRow(i)
  PROVE  /\ Within(j, g) /\ Changes(i, j, {"br", "last_mb_y"}) /\ j.last_mb_y = j.mb_y
<1>0. IsIdec(i) /\ Mem(i, g) /\ Alpha(i) /\ AmongMacroblocks(i, g) /\ RowsFlow(i)
      /\ i.state = "vp8_data"
  BY DEF Within
<1>1. CASE i.last_mb_y = i.mb_y
  <2>1. j = i
    BY <1>1 DEF ParseIntraModeRow
  <2> QED BY <1>0, <1>1, <2>1 DEF Changes
<1>2. CASE i.last_mb_y # i.mb_y
  <2> DEFINE b == [i.br EXCEPT !.buf = i.br.buf + 1]
             l == [i EXCEPT !.br = b]
  <2>1. j = [l EXCEPT !.last_mb_y = i.mb_y]
    <3>1. j = [i EXCEPT !.br.buf = @ + 1, !.last_mb_y = i.mb_y]
      BY <1>2 DEF ParseIntraModeRow
    <3> QED BY <3>1
  <2> HIDE DEF b
  <2>2. Changes(i, l, {"br"})
    BY <1>0 DEF Changes, IsIdec
  <2>3. l.br = b
    BY <1>0 DEF IsIdec, Fields
  <2> HIDE DEF l
  <2>4. IsIdec(l)
    BY <2>2 DEF Changes
  <2>5. Changes(l, j, {"last_mb_y"})
    BY <2>1, <2>4 DEF Changes, IsIdec
  <2>6. j.last_mb_y = i.mb_y
    BY <2>1, <2>4 DEF IsIdec, Fields
  <2>7. Changes(i, j, {"br", "last_mb_y"}) /\ j.br = b
    <3>1. Changes(i, j, {"br", "last_mb_y"})
      BY <2>2, <2>5 DEF Changes
    <3>2. j.br = l.br
      BY <2>5 DEF Changes, Fields
    <3> QED BY <2>3, <3>1, <3>2
  <2>8. /\ IsIdec(j) /\ Mem(j, g) /\ Alpha(j) /\ Pos(j) = Pos(i)
        /\ \A n : Ptr(j, n) = Ptr(i, n)
        /\ SameMem(i, j) /\ SameAlpha(i, j) /\ j.start = i.start
    <3>1. {"br", "last_mb_y"} \cap HeldFields = {}
      BY DEF HeldFields
    <3> QED BY <1>0, <2>7, <3>1, KeepsMemory
  <2>9. SameRows(i, j) /\ j.set_up = i.set_up /\ j.parts = i.parts /\ j.output = i.output
    BY <2>7 DEF Changes, Fields, SameRows
  <2>10. j.state = i.state /\ j.status = i.status /\ j.mb_x = i.mb_x /\ j.mb_y = i.mb_y
    BY <2>7 DEF Changes, Fields
  <2>11. RowsFlow(j)
    BY <1>0, <2>9 DEF RowsFlow, SameRows
  <2>12. ModeReader(j)
    <3>1. PICK e \in Int :
            i.br = Reader((IF i.mode = "append" THEN Part0Base
                           ELSE i.buf + Part0At + file.intro) + i.last_mb_y + 1, e)
      BY <1>0 DEF AmongMacroblocks, ModeReader
    <3>2. PICK a \in Int : a = IF i.mode = "append" THEN Part0Base
                               ELSE i.buf + Part0At + file.intro
      <4>1. IsLossy
        BY <1>0 DEF AmongMacroblocks
      <4>2. Part0Base \in Nat /\ Part0At \in Nat /\ file.intro \in Nat /\ i.buf \in Nat
        <5>1. file.intro \in Nat /\ file.payload \in Nat /\ FrameHeaderSize \in Nat
          BY <4>1, LossyFacts
        <5>2. Part0Base \in Nat
          BY DecoderAssumption
        <5>3. i.buf \in Nat
          BY <1>0 DEF Mem
        <5> QED BY <5>1, <5>2, <5>3 DEF Part0At
      <4> QED BY <4>2
    <3>3. i.last_mb_y = i.mb_y - 1 /\ i.mb_y \in Nat
      <4>1. MbH \in Nat
        BY <1>0, LossyFacts DEF AmongMacroblocks
      <4> QED BY <1>0, <1>2, <4>1 DEF AmongMacroblocks
    <3>4. b = Reader(a + i.mb_y + 1, e)
      <4>1. i.br = Reader(a + i.mb_y, e)
        BY <3>1, <3>2, <3>3
      <4> QED BY <3>2, <3>3, <4>1 DEF b, Reader
    <3>5. /\ j.last_mb_y = i.mb_y /\ j.br = Reader(a + j.last_mb_y + 1, e)
          /\ a = IF j.mode = "append" THEN Part0Base ELSE j.buf + Part0At + file.intro
      BY <2>6, <2>7, <2>8, <3>2, <3>4 DEF SameMem
    <3> QED BY <3>5 DEF ModeReader
  <2>13. PartReaders(j, g) /\ Unpassed(j)
    BY <1>0, <2>8, <2>9, <2>10 DEF AmongMacroblocks, PartReaders, Unpassed
  <2>14. AmongMacroblocks(j, g)
    BY <1>0, <2>6, <2>8, <2>9, <2>10, <2>12, <2>13
    DEF AmongMacroblocks, SameMem, SameAlpha, SameRows
  <2>15. Within(j, g)
    BY <2>8, <2>9, <2>10, <2>11, <2>14 DEF Within, SameRows
  <2> QED BY <2>6, <2>7, <2>10, <2>15
<1> QED BY <1>1, <1>2

(* The reader of the partition that the next macroblock is in.               *)
LEMMA MbReader ==
  ASSUME Given, NEW i, NEW g, Within(i, g), i.mb_y < MbH
  PROVE  \E p \in 0..file.parts - 1, at \in Nat, end \in Nat :
           /\ Part(i) = p + 1 /\ p = i.mb_y % file.parts
           /\ at = MbAt(p, i.mb_y, i.mb_x) /\ at >= Pos(i) /\ end = EndAt(p, g)
           /\ i.parts[p + 1] = Reader(Ptr(i, at), Ptr(i, end))
           /\ Cost(i) \in Nat /\ Cost(i) = file.cost[i.mb_y + 1]
           /\ at + Cost(i) <= PartAt(p + 1)
           /\ RunsDry(i) <=> at + Cost(i) > end
           /\ MbAt(p, i.mb_y, i.mb_x + 1) = at + Cost(i)
<1>1. /\ AmongMacroblocks(i, g) /\ IsLossy /\ Mem(i, g)
      /\ i.mb_y \in 0..MbH - 1 /\ i.mb_x \in 0..file.mb_w - 1
  <2>1. AmongMacroblocks(i, g) /\ Mem(i, g)
    BY DEF Within
  <2>2. IsLossy /\ i.mb_y \in 0..MbH /\ i.mb_x \in 0..file.mb_w - 1
    BY <2>1 DEF AmongMacroblocks
  <2>3. MbH \in Nat
    BY <2>2, LossyFacts
  <2> QED BY <2>1, <2>2, <2>3
<1>2. file.parts \in Nat \ {0} /\ MbH \in Nat /\ file.mb_w \in Nat \ {0}
      /\ \A y \in 1..MbH : file.cost[y] \in Nat
  BY <1>1, LossyFacts
<1>3. PICK p \in 0..file.parts - 1 : p = i.mb_y % file.parts
  <2>1. \A a \in Nat, b \in Nat \ {0} : a % b \in 0..b - 1
    OBVIOUS
  <2>2. i.mb_y \in Nat
    BY <1>1, <1>2
  <2> QED BY <1>2, <2>1, <2>2
<1>4. PICK at \in Nat : at = MbAt(p, i.mb_y, i.mb_x)
  <2>1. i.mb_y \in 0..MbH /\ i.mb_x \in Nat
    BY <1>1, <1>2
  <2> QED BY <1>1, <2>1, MbPlaces
<1>5. at >= Pos(i)
  BY <1>1, <1>4 DEF AmongMacroblocks, Unpassed
<1>6. PICK end \in Nat : end = EndAt(p, g)
  <2>1. g \in Nat
    BY <1>1 DEF Mem
  <2>2. p + 1 \in 0..file.parts
    BY <1>2
  <2>3. PartAt(p + 1) \in Nat
    BY <1>1, <2>2, PartStarts
  <2> QED BY <2>1, <2>3 DEF EndAt
<1>7. Part(i) = p + 1
  BY <1>3 DEF Part
<1>8. i.parts[p + 1] = Reader(Ptr(i, at), Ptr(i, end))
  <2>1. p + 1 \in 1..file.parts /\ p + 1 - 1 = p
    BY <1>2
  <2> QED BY <1>1, <1>4, <1>6, <2>1 DEF AmongMacroblocks, PartReaders
<1>9. Cost(i) \in Nat /\ Cost(i) = file.cost[i.mb_y + 1]
  <2>1. i.mb_y + 1 \in 1..MbH
    BY <1>1, <1>2
  <2> QED BY <1>2, <2>1 DEF Cost
<1>10. at + Cost(i) <= PartAt(p + 1) /\ MbAt(p, i.mb_y, i.mb_x + 1) = at + Cost(i)
  <2>1. i.mb_x \in Nat
    BY <1>1, <1>2
  <2>2. /\ MbAt(p, i.mb_y, i.mb_x + 1) =
             MbAt(p, i.mb_y, i.mb_x)
               + IF i.mb_y % file.parts = p THEN file.cost[i.mb_y + 1] ELSE 0
        /\ i.mb_y % file.parts = p =>
             MbAt(p, i.mb_y, i.mb_x) + file.cost[i.mb_y + 1] <= PartAt(p + 1)
    BY <1>1, <2>1, MbPlaces
  <2> QED BY <1>3, <1>4, <1>9, <2>2
<1>11. RunsDry(i) <=> at + Cost(i) > end
  <2>1. RunsDry(i) <=> Ptr(i, at) + Cost(i) > Ptr(i, end)
    BY <1>7, <1>8 DEF RunsDry, Reader
  <2>2. i.buf \in Nat /\ i.first \in Nat
    BY <1>1 DEF Mem
  <2> QED BY <1>9, <2>1, <2>2 DEF Ptr
<1> QED BY <1>3, <1>4, <1>5, <1>6, <1>7, <1>8, <1>9, <1>10, <1>11

(* A partition runs dry only when the file has not all been given.           *)
LEMMA DryIsShort ==
  ASSUME Given, NEW i, NEW g, Within(i, g), i.mb_y < MbH, RunsDry(i)
  PROVE  g < FileSize
<1>1. PICK p \in 0..file.parts - 1, at \in Nat, end \in Nat :
        /\ at + Cost(i) <= PartAt(p + 1) /\ Cost(i) \in Nat /\ end = EndAt(p, g)
        /\ RunsDry(i) <=> at + Cost(i) > end
  BY MbReader
<1>2. IsLossy /\ g \in Nat
  BY DEF Within, AmongMacroblocks, Mem
<1>3. file.parts \in Nat \ {0} /\ FileSize = PartAt(file.parts) /\ FileSize \in Nat
  BY <1>2, LossyFacts, SizeFacts
<1>4. p = file.parts - 1
  <2> SUFFICES ASSUME p # file.parts - 1 PROVE FALSE
    OBVIOUS
  <2>1. end = PartAt(p + 1)
    BY <1>1 DEF EndAt
  <2> QED BY <1>1, <2>1
<1>5. end = g /\ PartAt(p + 1) = FileSize
  BY <1>1, <1>3, <1>4 DEF EndAt
<1> QED BY <1>1, <1>2, <1>3, <1>5

(* Having left the loop for now, or for good.                                *)
Left(i, j, g) ==
  /\ Sound(j, g) /\ Ended(j, g) /\ j.state \in {"vp8_data", "error"}
  /\ j.last_y \in Nat /\ i.last_y <= j.last_y

(* DecodeMB moves one reader, to the end of its macroblock or of its data.   *)
LEMMA DecodeMBFacts ==
  ASSUME Given, NEW i, NEW g, Within(i, g), i.mb_y < MbH,
         NEW j, j = DecodeMB(i)
  PROVE  /\ Changes(i, j, {"parts"})
         /\ j.parts = [i.parts EXCEPT ![Part(i)] =
                         Reader(IF RunsDry(i) THEN i.parts[Part(i)].end
                                ELSE i.parts[Part(i)].buf + Cost(i),
                                i.parts[Part(i)].end)]
<1> DEFINE P == Part(i)
           r == i.parts[P]
           v == IF r.buf + Cost(i) <= r.end THEN r.buf + Cost(i) ELSE r.end
           w == [r EXCEPT !.buf = v]
           ps == [i.parts EXCEPT ![P] = w]
<1>1. j = [i EXCEPT !.parts = ps]
  BY DEF DecodeMB
<1>2. PICK b \in Int, e \in Int : r = Reader(b, e) /\ Cost(i) \in Nat
  <2>1. PICK p \in 0..file.parts - 1, at \in Nat, end \in Nat :
          /\ Part(i) = p + 1 /\ Cost(i) \in Nat
          /\ i.parts[p + 1] = Reader(Ptr(i, at), Ptr(i, end))
    BY MbReader
  <2>2. i.buf \in Nat /\ i.first \in Nat
    BY DEF Within, Mem
  <2>3. Ptr(i, at) \in Int /\ Ptr(i, end) \in Int
    BY <2>2 DEF Ptr
  <2> QED BY <2>1, <2>3
<1>3. w = Reader(IF RunsDry(i) THEN r.end ELSE r.buf + Cost(i), r.end)
  <2>1. r.buf = b /\ r.end = e
    BY <1>2 DEF Reader
  <2>2. RunsDry(i) <=> b + Cost(i) > e
    BY <2>1 DEF RunsDry
  <2>3. v = IF RunsDry(i) THEN e ELSE b + Cost(i)
    BY <1>2, <2>1, <2>2
  <2>4. w = Reader(v, e)
    <3> HIDE DEF v
    <3> QED BY <1>2 DEF Reader
  <2> HIDE DEF v, w
  <2> QED BY <2>1, <2>3, <2>4
<1> HIDE DEF w
<1>4. ps = [i.parts EXCEPT ![P] = Reader(IF RunsDry(i) THEN r.end ELSE r.buf + Cost(i), r.end)]
  BY <1>3
<1> HIDE DEF ps
<1>5. IsIdec(i)
  BY DEF Within
<1>6. Changes(i, j, {"parts"})
  BY <1>1, <1>5 DEF Changes, IsIdec
<1>7. j.parts = ps
  BY <1>1, <1>5 DEF IsIdec, Fields
<1> QED BY <1>4, <1>6, <1>7

(* Not enough data for a macroblock: the worker's row comes out, and the     *)
(* reader goes back.                                                         *)
LEMMA DryIsSound ==
  ASSUME Given, NEW i, NEW g, Within(i, g), i.mb_y < MbH, RunsDry(i)
  PROVE  Left(i, SuspendedAtMB(i), g)
<1> DEFINE j == SuspendedAtMB(i)
           d == DecodeMB(i)
           s == Sync(d)
           P == Part(i)
           ps == [s.parts EXCEPT ![P] = i.parts[P]]
           k == [s EXCEPT !.parts = ps]
           w == [k EXCEPT !.status = "SUSPENDED"]
<1>j. j = IF TooMuch(i) \/ s.had_error THEN IDecError(s, "BITSTREAM_ERROR") ELSE w
  BY DEF SuspendedAtMB, Suspended
<1>0. /\ IsIdec(i) /\ Mem(i, g) /\ Alpha(i) /\ AmongMacroblocks(i, g) /\ RowsFlow(i)
      /\ IsLossy /\ i.state = "vp8_data"
  BY DEF Within, AmongMacroblocks
<1>t. MbH \in Nat /\ Height = MbH /\ i.mb_y \in 0..MbH
  BY <1>0, LossyFacts DEF AmongMacroblocks
<1>1. Changes(i, d, {"parts"}) /\ \E r : d.parts = [i.parts EXCEPT ![P] = r]
  BY DecodeMBFacts
<1> HIDE DEF d, P
<1>2. IsIdec(d) /\ Mem(d, g) /\ Alpha(d) /\ SameMem(i, d) /\ d.start = i.start
  <2>1. {"parts"} \cap HeldFields = {}
    BY DEF HeldFields
  <2> QED BY <1>0, <1>1, <2>1, KeepsMemory
<1>3. SameRows(i, d)
  BY <1>1 DEF Changes, Fields, SameRows
<1>4. /\ Changes(d, s, RowFields \union {"job"}) /\ Mem(s, g) /\ Alpha(s)
      /\ s.job = NoJob
      /\ d.job = NoJob => s = d
      /\ d.job # NoJob =>
           /\ d.fault = "put" => s.had_error = TRUE /\ s.last_y = d.last_y
           /\ d.fault # "put" => s.had_error = d.had_error /\ s.last_y = d.job + 1
  BY <1>0, <1>2, SyncFacts
<1> HIDE DEF s
<1>5. IsIdec(s) /\ s.set_up = i.set_up /\ s.num_rows = i.num_rows /\ s.state = "vp8_data"
      /\ s.parts = d.parts
  <2>1. IsIdec(s) /\ s.set_up = d.set_up /\ s.num_rows = d.num_rows /\ s.state = d.state
        /\ s.parts = d.parts
    BY <1>4 DEF Changes, Fields, RowFields
  <2>2. d.set_up = i.set_up /\ d.num_rows = i.num_rows /\ d.state = i.state
    BY <1>1 DEF Changes, Fields
  <2> QED BY <1>0, <2>1, <2>2
<1>6. \/ i.job = NoJob /\ s.had_error = i.had_error /\ s.last_y = i.last_y
      \/ i.job # NoJob /\ s.had_error = TRUE /\ s.last_y = i.last_y
      \/ i.job # NoJob /\ s.had_error = i.had_error /\ s.last_y = i.job + 1
  BY <1>3, <1>4 DEF SameRows
<1>7. /\ i.had_error \in BOOLEAN /\ ~i.had_error /\ i.last_y \in 0..MbH
      /\ i.num_rows \in 0..NumArgbCacheRows /\ i.set_up = 1
      /\ i.job # NoJob => i.job = i.last_y /\ i.last_y < MbH /\ i.last_y = i.mb_y - 1
  BY <1>0, <1>t DEF AmongMacroblocks, RowsFlow, Within, NoJob
<1>8. s.had_error \in BOOLEAN
  BY <1>6, <1>7, Zenon
<1>9. s.last_y \in 0..MbH /\ i.last_y <= s.last_y
  BY <1>6, <1>7, <1>t
<1>10. ~s.had_error => s.last_y = i.mb_y
  <2>1. CASE i.job = NoJob
    <3>1. i.last_y = i.mb_y
      BY <2>1, <1>t DEF Within, NoJob
    <3> QED BY <1>6, <2>1, <3>1
  <2>2. CASE i.job # NoJob
    <3>1. i.job + 1 = i.mb_y
      BY <1>7, <1>t, <2>2
    <3>2. s.had_error = TRUE \/ s.last_y = i.job + 1
      BY <1>6, <2>2, Zenon
    <3> QED BY <3>1, <3>2
  <2> QED BY <2>1, <2>2
<1>11. CASE TooMuch(i) \/ s.had_error
  <2>1. j = IDecError(s, "BITSTREAM_ERROR")
    BY <1>11, <1>j
  <2> HIDE DEF j
  <2>2. RowsFlow(s)
    BY <1>4, <1>5, <1>7, <1>8, <1>9 DEF RowsFlow
  <2>3. /\ Sound(j, g) /\ Ended(j, g) /\ j.state = "error" /\ j.last_y \in s.last_y..MbH
    <3>1. "BITSTREAM_ERROR" \in Statuses \ {"OK", "SUSPENDED"}
      BY DEF Statuses
    <3> QED BY <1>0, <1>4, <1>5, <2>1, <2>2, <3>1, DataErrorIsSound
  <2>4. j.last_y \in Nat /\ i.last_y <= j.last_y
    BY <1>7, <1>9, <1>t, <2>3
  <2> QED BY <2>3, <2>4 DEF Left, j
<1>12. CASE ~(TooMuch(i) \/ s.had_error)
  <2>1. j = w
    BY <1>12, <1>j
  <2> HIDE DEF j
  <2>2. ps = i.parts
    <3>1. PICK r : s.parts = [i.parts EXCEPT ![P] = r]
      BY <1>1, <1>5
    <3>2. i.parts = [q \in 1..file.parts |->
               Reader(Ptr(i, MbAt(q - 1, i.mb_y, i.mb_x)), Ptr(i, EndAt(q - 1, g)))]
      BY <1>0 DEF AmongMacroblocks, PartReaders
    <3> HIDE DEF ps
    <3>3. ps = [s.parts EXCEPT ![P] = i.parts[P]]
      BY DEF ps
    <3> QED BY <3>1, <3>2, <3>3
  <2> HIDE DEF ps
  <2>3. Changes(s, k, {"parts"})
    BY <1>5 DEF Changes, IsIdec
  <2>4. k.parts = ps
    BY <1>5 DEF IsIdec, Fields
  <2> HIDE DEF k
  <2>5. IsIdec(k)
    BY <2>3 DEF Changes
  <2>6. Changes(k, w, {"status"})
    BY <2>5 DEF Changes, IsIdec
  <2>7. w.status = "SUSPENDED"
    BY <2>5 DEF IsIdec, Fields
  <2> HIDE DEF w
  <2>8. Changes(s, w, {"parts", "status"})
    BY <2>3, <2>6 DEF Changes
  <2>9. Changes(i, w, RowFields \union {"job", "parts", "status"})
    <3>1. Changes(d, w, RowFields \union {"job", "parts", "status"})
      BY <1>4, <2>8 DEF Changes
    <3> QED BY <1>1, <3>1 DEF Changes
  <2>10. w.parts = i.parts
    <3>1. w.parts = k.parts
      BY <2>6 DEF Changes, Fields
    <3> QED BY <2>2, <2>4, <3>1
  <2>11. Mem(w, g) /\ Alpha(w)
    <3>1. {"parts", "status"} \cap HeldFields = {}
      BY DEF HeldFields
    <3> QED BY <1>4, <1>5, <2>8, <3>1, KeepsMemory
  <2>12. SameRows(s, w)
    BY <2>8 DEF Changes, Fields, SameRows
  <2>13. /\ IsIdec(w) /\ SameMem(i, w) /\ w.start = i.start /\ SamePlace(i, w)
         /\ w.br = i.br /\ w.dec = i.dec /\ w.output = i.output /\ w.num_rows = i.num_rows
         /\ w.state = i.state /\ w.set_up = i.set_up
    <3>1. IsIdec(w) /\ SameMem(i, w) /\ w.start = i.start /\ SamePlace(i, w)
      BY <2>9 DEF Changes, Fields, RowFields, SameMem, SamePlace
    <3>2. w.br = i.br /\ w.dec = i.dec /\ w.output = i.output /\ w.num_rows = i.num_rows
      BY <2>9 DEF Changes, Fields, RowFields
    <3>3. w.state = i.state /\ w.set_up = i.set_up
      BY <2>9 DEF Changes, Fields, RowFields
    <3> QED BY <3>1, <3>2, <3>3
  <2>14. Pos(w) = Pos(i) /\ \A n : Ptr(w, n) = Ptr(i, n)
    BY <2>13 DEF Pos, Ptr, SameMem
  <2>15. PartReaders(w, g) /\ ModeReader(w) /\ Unpassed(w)
    <3>1. PartReaders(i, g) /\ ModeReader(i) /\ Unpassed(i)
      BY <1>0 DEF AmongMacroblocks
    <3>2. PartReaders(w, g)
      BY <2>10, <2>13, <2>14, <3>1 DEF PartReaders, SamePlace
    <3>3. ModeReader(w)
      BY <2>13, <3>1 DEF ModeReader, SamePlace, SameMem
    <3>4. Unpassed(w)
      BY <2>13, <2>14, <3>1 DEF Unpassed, SamePlace
    <3> QED BY <3>2, <3>3, <3>4
  <2>16. ~w.had_error /\ w.last_y = i.mb_y /\ w.job = NoJob /\ w.had_error \in BOOLEAN
    BY <1>4, <1>8, <1>10, <1>12, <2>12 DEF SameRows
  <2>17. AmongMacroblocks(w, g)
    BY <1>0, <2>13, <2>14, <2>15, <2>16 DEF AmongMacroblocks, SameMem, SamePlace
  <2>18. AtMacroblocks(w, g)
    BY <2>13, <2>16, <2>17 DEF AtMacroblocks, SamePlace
  <2>19. Rows(w)
    BY <1>0, <1>7, <1>t, <2>13, <2>16 DEF Rows
  <2>20. Sound(w, g)
    BY <1>0, <2>11, <2>13, <2>18, <2>19 DEF Sound, Phase, States
  <2>21. Ended(w, g)
    BY <1>0, <2>7, <2>13, DryIsShort DEF Ended, Statuses
  <2>22. w.last_y \in Nat /\ i.last_y <= w.last_y
    <3>1. w.last_y = s.last_y
      BY <2>12 DEF SameRows
    <3> QED BY <1>7, <1>9, <1>t, <3>1
  <2> QED BY <1>0, <2>1, <2>13, <2>20, <2>21, <2>22 DEF Left, j
<1> QED BY <1>11, <1>12

(* A macroblock further, before the end of the row is looked at.             *)
Advanced(d, g) ==
  /\ IsIdec(d) /\ Mem(d, g) /\ Alpha(d) /\ RowsFlow(d)
  /\ d.state = "vp8_data" /\ d.status = "OK"
  /\ IsLossy /\ d.dec = "lossy" /\ d.output = "set"
  /\ d.buf # Null /\ d.mode \in {"append", "map"}
  /\ file.payload <= Pos(d)
  /\ d.mb_y \in 0..MbH - 1 /\ d.mb_x \in 1..file.mb_w /\ d.last_mb_y = d.mb_y
  /\ PartReaders(d, g) /\ ModeReader(d) /\ Unpassed(d)
  /\ ~d.had_error /\ d.num_rows = 0
  /\ \/ d.job = NoJob /\ d.last_y = d.mb_y
     \/ d.job = d.mb_y - 1 /\ d.last_y = d.mb_y - 1 /\ d.mb_y > 0 /\ caller.threads

(* A macroblock that is there is read from its place, and the reader is at   *)
(* the next one's; what is passed is released.                               *)
LEMMA MbIsDone ==
  ASSUME Given, NEW i, NEW g, Within(i, g), i.mb_y < MbH, i.last_mb_y = i.mb_y,
         ~RunsDry(i),
         NEW d, d = [Released(DecodeMB(i)) EXCEPT !.mb_x = @ + 1]
  PROVE  /\ Advanced(d, g) /\ Changes(i, d, {"parts", "start", "mb_x"})
         /\ d.mb_x = i.mb_x + 1
<1> DEFINE e == DecodeMB(i)
           f == Released(e)
           sv == e.parts[1].buf - e.buf
           n == file.parts
           x == f.mb_x + 1
<1>0. /\ IsIdec(i) /\ Mem(i, g) /\ Alpha(i) /\ AmongMacroblocks(i, g) /\ RowsFlow(i)
      /\ IsLossy /\ i.state = "vp8_data" /\ i.status = "OK"
  BY DEF Within, AmongMacroblocks
<1>1. MbH \in Nat /\ n \in Nat \ {0} /\ file.mb_w \in Nat \ {0} /\ file.payload \in Nat
      /\ \A k \in 1..MbH : file.cost[k] \in Nat
  BY <1>0, LossyFacts
<1>2. i.mb_y \in 0..MbH - 1 /\ i.mb_x \in 0..file.mb_w - 1 /\ Pos(i) >= file.payload
  BY <1>0, <1>1 DEF AmongMacroblocks, Mem, Pos
<1>3. /\ i.start \in Nat /\ i.end \in Nat /\ i.first \in Nat /\ i.buf \in Nat
      /\ i.first + i.end = g /\ g \in Nat /\ Pos(i) = i.first + i.start
  BY <1>0 DEF Mem, Pos
<1>4. PICK p \in 0..n - 1, at \in Nat, end \in Nat :
           /\ Part(i) = p + 1 /\ p = i.mb_y % n
           /\ at = MbAt(p, i.mb_y, i.mb_x) /\ at >= Pos(i) /\ end = EndAt(p, g)
           /\ i.parts[p + 1] = Reader(Ptr(i, at), Ptr(i, end))
           /\ Cost(i) \in Nat /\ Cost(i) = file.cost[i.mb_y + 1]
           /\ at + Cost(i) <= PartAt(p + 1)
           /\ RunsDry(i) <=> at + Cost(i) > end
           /\ MbAt(p, i.mb_y, i.mb_x + 1) = at + Cost(i)
  BY MbReader
<1>5. at + Cost(i) <= end
  BY <1>4
<1>d. d = [f EXCEPT !.mb_x = x]
  OBVIOUS
<1>6. /\ Changes(i, e, {"parts"})
      /\ e.parts = [i.parts EXCEPT ![p + 1] = Reader(Ptr(i, at + Cost(i)), Ptr(i, end))]
  <2>1. /\ Changes(i, e, {"parts"})
        /\ e.parts = [i.parts EXCEPT ![Part(i)] =
                         Reader(IF RunsDry(i) THEN i.parts[Part(i)].end
                                ELSE i.parts[Part(i)].buf + Cost(i),
                                i.parts[Part(i)].end)]
    BY DecodeMBFacts
  <2>2. i.parts[Part(i)].buf + Cost(i) = Ptr(i, at + Cost(i)) /\ i.parts[Part(i)].end = Ptr(i, end)
    BY <1>3, <1>4 DEF Reader, Ptr
  <2> HIDE DEF e
  <2> QED BY <1>4, <2>1, <2>2
<1> HIDE DEF e
<1>7. IsIdec(e) /\ e.buf = i.buf
  BY <1>6 DEF Changes, Fields
<1>8. e.parts = [q \in 1..n |-> Reader(Ptr(i, MbAt(q - 1, i.mb_y, i.mb_x + 1)),
                                       Ptr(i, EndAt(q - 1, g)))]
  <2>1. i.parts = [q \in 1..n |-> Reader(Ptr(i, MbAt(q - 1, i.mb_y, i.mb_x)),
                                         Ptr(i, EndAt(q - 1, g)))]
    BY <1>0 DEF AmongMacroblocks, PartReaders
  <2>2. ASSUME NEW q \in 1..n, q # p + 1
        PROVE  MbAt(q - 1, i.mb_y, i.mb_x + 1) = MbAt(q - 1, i.mb_y, i.mb_x)
    <3>1. q - 1 \in 0..n - 1 /\ q - 1 # p /\ i.mb_x \in Nat
      BY <1>1, <1>2, <2>2
    <3>2. /\ MbAt(q - 1, i.mb_y, i.mb_x + 1) =
               MbAt(q - 1, i.mb_y, i.mb_x)
                 + IF i.mb_y % n = q - 1 THEN file.cost[i.mb_y + 1] ELSE 0
          /\ MbAt(q - 1, i.mb_y, i.mb_x) \in Nat
      <4>1. i.mb_y \in 0..MbH
        BY <1>1, <1>2
      <4> QED BY <1>0, <1>2, <3>1, <4>1, MbPlaces
    <3> QED BY <1>4, <3>1, <3>2
  <2>3. p + 1 \in 1..n /\ p + 1 - 1 = p
    BY <1>1
  <2>4. \A q \in 1..n :
          e.parts[q] = Reader(Ptr(i, MbAt(q - 1, i.mb_y, i.mb_x + 1)), Ptr(i, EndAt(q - 1, g)))
    <3> SUFFICES ASSUME NEW q \in 1..n
                 PROVE  e.parts[q] = Reader(Ptr(i, MbAt(q - 1, i.mb_y, i.mb_x + 1)),
                                            Ptr(i, EndAt(q - 1, g)))
      OBVIOUS
    <3>1. CASE q = p + 1
      BY <1>4, <1>6, <2>1, <2>3, <3>1
    <3>2. CASE q # p + 1
      BY <1>6, <2>1, <2>2, <3>2
    <3> QED BY <3>1, <3>2
  <2> QED BY <1>6, <2>1, <2>4
<1>9. f = IF n > 1 THEN e ELSE [e EXCEPT !.start = sv]
  BY DEF Released
<1>10. ASSUME ~(n > 1) PROVE p = 0 /\ sv = at + Cost(i) - i.first /\ end = g /\ n = 1
  <2>1. n = 1 /\ p = 0
    BY <1>1, <1>10
  <2>2. e.parts[1] = Reader(Ptr(i, at + Cost(i)), Ptr(i, end))
    BY <1>4, <1>8, <2>1
  <2>3. end = g
    BY <1>4, <2>1 DEF EndAt
  <2>4. sv = at + Cost(i) - i.first
    BY <1>3, <1>4, <1>7, <2>2 DEF Reader, Ptr
  <2> QED BY <2>1, <2>3, <2>4
<1> HIDE DEF sv
<1>11. Changes(e, f, {"start"}) /\ f.start = IF n > 1 THEN i.start ELSE sv
  <2>1. CASE n > 1
    <3>1. f = e
      BY <1>9, <2>1
    <3>2. e.start = i.start
      BY <1>6 DEF Changes, Fields
    <3> QED BY <1>7, <2>1, <3>1, <3>2 DEF Changes
  <2>2. CASE ~(n > 1)
    <3>1. f = [e EXCEPT !.start = sv]
      BY <1>9, <2>2
    <3> HIDE DEF f
    <3>2. Changes(e, f, {"start"})
      BY <1>7, <3>1 DEF Changes, IsIdec
    <3>3. f.start = sv
      BY <1>7, <3>1 DEF IsIdec, Fields
    <3> QED BY <2>2, <3>2, <3>3
  <2> QED BY <2>1, <2>2
<1> HIDE DEF f, x
<1>13. IsIdec(f) /\ f.mb_x = i.mb_x
  <2>1. IsIdec(f) /\ f.mb_x = e.mb_x
    BY <1>11 DEF Changes, Fields
  <2>2. e.mb_x = i.mb_x
    BY <1>6 DEF Changes, Fields
  <2> QED BY <2>1, <2>2
<1>14. Changes(f, d, {"mb_x"})
  BY <1>d, <1>13 DEF Changes, IsIdec
<1>15. d.mb_x = i.mb_x + 1
  <2>1. d.mb_x = x
    BY <1>d, <1>13 DEF IsIdec, Fields
  <2> QED BY <1>13, <2>1 DEF x
<1>16. Changes(i, d, {"parts", "start", "mb_x"})
  <2>1. Changes(e, d, {"start", "mb_x"})
    BY <1>11, <1>14 DEF Changes
  <2> QED BY <1>6, <2>1 DEF Changes
<1>17. d.parts = e.parts /\ d.start = IF n > 1 THEN i.start ELSE sv
  <2>1. d.parts = f.parts /\ d.start = f.start
    BY <1>14 DEF Changes, Fields
  <2>2. f.parts = e.parts
    BY <1>11 DEF Changes, Fields
  <2> QED BY <1>11, <2>1, <2>2
<1>18. /\ IsIdec(d) /\ SameMem(i, d) /\ SameAlpha(i, d) /\ SameRows(i, d)
       /\ d.br = i.br /\ d.output = i.output /\ d.mb_y = i.mb_y /\ d.last_mb_y = i.last_mb_y
       /\ d.state = i.state /\ d.set_up = i.set_up /\ d.status = i.status
  <2>1. IsIdec(d) /\ SameMem(i, d) /\ SameAlpha(i, d) /\ SameRows(i, d)
    BY <1>16 DEF Changes, Fields, SameMem, SameAlpha, SameRows
  <2>2. d.br = i.br /\ d.output = i.output /\ d.mb_y = i.mb_y /\ d.last_mb_y = i.last_mb_y
    BY <1>16 DEF Changes, Fields
  <2>3. d.state = i.state /\ d.set_up = i.set_up /\ d.status = i.status
    BY <1>16 DEF Changes, Fields
  <2> QED BY <2>1, <2>2, <2>3
<1>19. \A k : Ptr(d, k) = Ptr(i, k)
  BY <1>18 DEF Ptr, SameMem
<1>20. /\ d.start \in Nat /\ d.start <= i.end
       /\ i.first + d.start = IF n > 1 THEN Pos(i) ELSE at + Cost(i)
  <2>1. CASE n > 1
    <3>1. d.start = i.start /\ i.start <= i.end
      BY <1>0, <1>17, <2>1 DEF Mem
    <3> QED BY <1>3, <2>1, <3>1
  <2>2. CASE ~(n > 1)
    <3>1. d.start = at + Cost(i) - i.first /\ end = g
      BY <1>10, <1>17, <2>2
    <3> QED BY <1>3, <1>4, <1>5, <2>2, <3>1
  <2> QED BY <2>1, <2>2
<1>21. Mem(d, g) /\ Pos(d) = i.first + d.start
  BY <1>0, <1>18, <1>20 DEF Mem, SameMem, Pos
<1>22. Pos(d) >= file.payload
  BY <1>1, <1>2, <1>3, <1>4, <1>20, <1>21
<1>23. Alpha(d)
  <2>1. NeedCompressedAlpha(d) = NeedCompressedAlpha(i)
    BY <1>18 DEF NeedCompressedAlpha, SameAlpha
  <2> QED BY <1>0, <1>18, <1>19, <1>22, <2>1 DEF Alpha, SameAlpha, SameMem
<1>24. RowsFlow(d)
  BY <1>0, <1>18 DEF RowsFlow, SameRows
<1>25. PartReaders(d, g)
  <2>1. ASSUME NEW q \in 1..n
        PROVE  /\ Ptr(i, MbAt(q - 1, i.mb_y, i.mb_x + 1)) = Ptr(d, MbAt(q - 1, d.mb_y, d.mb_x))
               /\ Ptr(i, EndAt(q - 1, g)) = Ptr(d, EndAt(q - 1, g))
    BY <1>15, <1>18, <1>19
  <2>2. d.parts = [q \in 1..n |-> Reader(Ptr(i, MbAt(q - 1, i.mb_y, i.mb_x + 1)),
                                         Ptr(i, EndAt(q - 1, g)))]
    BY <1>8, <1>17
  <2>3. d.parts = [q \in 1..n |-> Reader(Ptr(d, MbAt(q - 1, d.mb_y, d.mb_x)),
                                         Ptr(d, EndAt(q - 1, g)))]
    BY <2>1, <2>2
  <2> QED BY <2>3 DEF PartReaders
<1>26. Unpassed(d)
  <2> SUFFICES ASSUME NEW q \in 0..n - 1 PROVE MbAt(q, i.mb_y, i.mb_x + 1) >= Pos(d)
    BY <1>15, <1>18 DEF Unpassed
  <2>1. CASE n > 1
    <3>1. /\ MbAt(q, i.mb_y, i.mb_x + 1) =
               MbAt(q, i.mb_y, i.mb_x)
                 + IF i.mb_y % n = q THEN file.cost[i.mb_y + 1] ELSE 0
          /\ MbAt(q, i.mb_y, i.mb_x) \in Nat
      <4>1. i.mb_y \in 0..MbH /\ i.mb_x \in Nat
        BY <1>1, <1>2
      <4> QED BY <1>0, <1>2, <4>1, MbPlaces
    <3>2. MbAt(q, i.mb_y, i.mb_x) >= Pos(i)
      BY <1>0 DEF AmongMacroblocks, Unpassed
    <3>3. file.cost[i.mb_y + 1] \in Nat
      BY <1>4
    <3> QED BY <1>3, <1>20, <1>21, <2>1, <3>1, <3>2, <3>3
  <2>2. CASE ~(n > 1)
    <3>1. q = p
      BY <1>1, <1>10, <2>2
    <3> QED BY <1>4, <1>20, <1>21, <2>2, <3>1
  <2> QED BY <2>1, <2>2
<1>27. ModeReader(d)
  BY <1>0, <1>18 DEF AmongMacroblocks, ModeReader, SameMem
<1>28. d.mb_y \in 0..MbH - 1 /\ d.mb_x \in 1..file.mb_w /\ d.last_mb_y = d.mb_y
  BY <1>1, <1>2, <1>15, <1>18
<1>29. /\ d.dec = "lossy" /\ d.output = "set" /\ d.buf # Null
       /\ d.mode \in {"append", "map"} /\ ~d.had_error /\ d.num_rows = 0
  BY <1>0, <1>18 DEF AmongMacroblocks, SameAlpha, SameMem, SameRows
<1>30. \/ d.job = NoJob /\ d.last_y = d.mb_y
       \/ d.job = d.mb_y - 1 /\ d.last_y = d.mb_y - 1 /\ d.mb_y > 0 /\ caller.threads
  BY <1>18 DEF Within, SameRows
<1>31. Advanced(d, g)
  BY <1>0, <1>18, <1>21, <1>22, <1>23, <1>24, <1>25, <1>26, <1>27, <1>28, <1>29, <1>30
  DEF Advanced
<1> QED BY <1>15, <1>16, <1>31

(* A row goes out, or to the worker, which has brought out the one before.   *)
LEMMA ProcessRowFacts ==
  ASSUME Given, NEW i, NEW g, Advanced(i, g), NEW j, j = VP8ProcessRow(i)
  PROVE  /\ Changes(i, j, RowFields \union {"job"}) /\ Mem(j, g) /\ Alpha(j)
         /\ RowsFlow(j) /\ i.last_y <= j.last_y
         /\ ~j.had_error => \/ j.job = NoJob /\ j.last_y = i.mb_y + 1
                            \/ /\ j.job = i.mb_y /\ j.last_y = i.mb_y /\ caller.threads
<1>0. /\ IsIdec(i) /\ Mem(i, g) /\ Alpha(i) /\ RowsFlow(i) /\ IsLossy
      /\ ~i.had_error /\ i.had_error \in BOOLEAN /\ i.num_rows \in 0..NumArgbCacheRows
      /\ i.set_up = 1
  BY DEF Advanced, RowsFlow
<1>1. MbH \in Nat /\ i.mb_y \in 0..MbH - 1 /\ i.last_y \in 0..MbH
  BY <1>0, LossyFacts DEF Advanced, RowsFlow
<1>2. \/ i.job = NoJob /\ i.last_y = i.mb_y
      \/ /\ i.job = i.mb_y - 1 /\ i.last_y = i.mb_y - 1 /\ i.mb_y > 0 /\ caller.threads
         /\ i.job # NoJob
  <2>1. i.mb_y - 1 = NoJob => ~(i.mb_y > 0)
    BY <1>1 DEF NoJob
  <2> QED BY <2>1 DEF Advanced
<1>3. CASE ~caller.threads
  <2>1. j = FinishRow(i, i.mb_y)
    BY <1>3 DEF VP8ProcessRow
  <2>2. /\ Changes(i, j, RowFields) /\ Alpha(j)
        /\ i.fault = "put" => j.had_error = TRUE /\ j.last_y = i.last_y
        /\ i.fault # "put" => j.had_error = i.had_error /\ j.last_y = i.mb_y + 1
    BY <1>0, <2>1, FinishRowFacts
  <2>3. Changes(i, j, RowFields \union {"job"})
    BY <2>2 DEF Changes
  <2>4. SameMem(i, j) /\ j.start = i.start /\ j.job = i.job /\ j.num_rows = i.num_rows
        /\ j.set_up = i.set_up
    BY <2>2 DEF Changes, Fields, RowFields, SameMem
  <2>5. Mem(j, g)
    BY <1>0, <2>4 DEF Mem, SameMem
  <2>6. i.job = NoJob /\ i.last_y = i.mb_y
    BY <1>2, <1>3
  <2>7. \/ j.had_error = TRUE /\ j.last_y = i.mb_y
        \/ j.had_error = i.had_error /\ j.last_y = i.mb_y + 1
    BY <2>2, <2>6
  <2>8. j.had_error \in BOOLEAN
    BY <1>0, <2>7, Zenon
  <2>9. j.last_y \in 0..MbH /\ i.last_y <= j.last_y
    BY <1>1, <2>6, <2>7
  <2>10. RowsFlow(j)
    BY <1>0, <2>4, <2>6, <2>8, <2>9 DEF RowsFlow
  <2>11. ~j.had_error => j.job = NoJob /\ j.last_y = i.mb_y + 1
    BY <2>4, <2>6, <2>7, Zenon
  <2> QED BY <2>2, <2>3, <2>5, <2>9, <2>10, <2>11
<1>4. CASE caller.threads
  <2> DEFINE s == Sync(i)
  <2>1. j = IF s.had_error THEN s ELSE [s EXCEPT !.job = i.mb_y]
    BY <1>4 DEF VP8ProcessRow
  <2>2. /\ Changes(i, s, RowFields \union {"job"}) /\ Mem(s, g) /\ Alpha(s)
        /\ s.job = NoJob
        /\ i.job = NoJob => s = i
        /\ i.job # NoJob =>
             /\ i.fault = "put" => s.had_error = TRUE /\ s.last_y = i.last_y
             /\ i.fault # "put" => s.had_error = i.had_error /\ s.last_y = i.job + 1
    BY <1>0, SyncFacts
  <2> HIDE DEF s
  <2>3. \/ s.had_error = TRUE /\ s.last_y = i.last_y
        \/ s.had_error = i.had_error /\ s.last_y = i.mb_y
    <3>1. CASE i.job = NoJob
      <4>1. i.last_y = i.mb_y
        BY <1>2, <3>1
      <4> QED BY <2>2, <3>1, <4>1
    <3>2. CASE i.job # NoJob
      <4>1. i.job + 1 = i.mb_y
        BY <1>1, <1>2, <3>2
      <4> QED BY <2>2, <3>2, <4>1
    <3> QED BY <3>1, <3>2
  <2>4. s.had_error \in BOOLEAN
    BY <1>0, <2>3, Zenon
  <2>5. s.last_y \in 0..MbH /\ i.last_y <= s.last_y
    BY <1>1, <1>2, <2>3
  <2>6. s.num_rows = i.num_rows /\ s.set_up = i.set_up
    BY <2>2 DEF Changes, Fields, RowFields
  <2>7. CASE s.had_error
    <3>1. j = s
      BY <2>1, <2>7
    <3>2. RowsFlow(s)
      BY <1>0, <2>2, <2>4, <2>5, <2>6 DEF RowsFlow
    <3>3. ~(~s.had_error)
      BY <2>7, Zenon
    <3> QED BY <2>2, <2>5, <3>1, <3>2, <3>3
  <2>8. CASE ~s.had_error
    <3>1. j = [s EXCEPT !.job = i.mb_y]
      BY <2>1, <2>8
    <3>2. IsIdec(s)
      BY <2>2 DEF Changes
    <3>3. Changes(s, j, {"job"})
      BY <3>1, <3>2 DEF Changes, IsIdec
    <3>4. j.job = i.mb_y
      BY <3>1, <3>2 DEF IsIdec, Fields
    <3>5. Changes(i, j, RowFields \union {"job"})
      BY <2>2, <3>3 DEF Changes
    <3>6. j.last_y = s.last_y /\ j.had_error = s.had_error /\ j.num_rows = s.num_rows
          /\ j.set_up = s.set_up /\ SameMem(s, j) /\ j.start = s.start
          /\ SameAlpha(s, j) /\ j.state = s.state
      BY <3>3 DEF Changes, Fields, SameMem, SameAlpha
    <3>7. Mem(j, g)
      BY <2>2, <3>6 DEF Mem, SameMem
    <3>8. Alpha(j)
      BY <2>2, <3>6 DEF Alpha, NeedCompressedAlpha, Pos, Ptr, SameAlpha, SameMem
    <3>9. j.last_y = i.mb_y
      <4>1. ~(s.had_error = TRUE)
        BY <2>8
      <4> QED BY <2>3, <3>6, <4>1
    <3>10. RowsFlow(j)
      BY <1>0, <1>1, <2>4, <2>6, <3>4, <3>6, <3>9 DEF RowsFlow
    <3>11. i.last_y <= j.last_y
      BY <1>1, <1>2, <3>9
    <3> QED BY <1>4, <3>4, <3>5, <3>7, <3>8, <3>9, <3>10, <3>11
  <2> QED BY <2>7, <2>8
<1> QED BY <1>3, <1>4

(* At the end of a row the next one begins, with this one put out or with    *)
(* the worker.                                                               *)
LEMMA RowDoneIsSound ==
  ASSUME Given, NEW i, NEW g, Advanced(i, g), i.mb_x = file.mb_w,
         NEW j, j = RowDone(i)
  PROVE  \/ Left(i, j, g)
         \/ /\ Within(j, g) /\ j.mb_x = 0 /\ j.mb_y = i.mb_y + 1 /\ i.last_y <= j.last_y
<1> DEFINE x == VP8ProcessRow(i)
           up == x.mb_y + 1
<1>j. j = IF x.had_error THEN IDecError(x, "USER_ABORT")
          ELSE [x EXCEPT !.mb_x = 0, !.mb_y = up]
  BY DEF RowDone
<1>1. /\ Changes(i, x, RowFields \union {"job"}) /\ Mem(x, g) /\ Alpha(x)
      /\ RowsFlow(x) /\ i.last_y <= x.last_y
      /\ ~x.had_error => \/ x.job = NoJob /\ x.last_y = i.mb_y + 1
                         \/ x.job = i.mb_y /\ x.last_y = i.mb_y /\ caller.threads
  BY ProcessRowFacts
<1> HIDE DEF x
<1>2. IsIdec(x) /\ SamePlace(i, x) /\ SameMem(i, x) /\ x.start = i.start
  BY <1>1 DEF Changes, Fields, RowFields, SamePlace, SameMem
<1>3. /\ x.br = i.br /\ x.parts = i.parts /\ x.dec = i.dec /\ x.output = i.output
      /\ x.num_rows = i.num_rows /\ x.state = i.state /\ x.status = i.status
  BY <1>1 DEF Changes, Fields, RowFields
<1>4. /\ IsLossy /\ i.dec = "lossy" /\ i.output = "set" /\ i.state = "vp8_data"
      /\ i.status = "OK" /\ i.buf # Null /\ i.mode \in {"append", "map"}
      /\ file.payload <= Pos(i) /\ i.mb_y \in 0..MbH - 1 /\ i.last_mb_y = i.mb_y
      /\ PartReaders(i, g) /\ ModeReader(i) /\ Unpassed(i) /\ i.num_rows = 0
  BY DEF Advanced
<1>5. MbH \in Nat /\ file.mb_w \in Nat \ {0}
  BY <1>4, LossyFacts
<1>6. i.last_y \in 0..MbH
  BY DEF Advanced, RowsFlow
<1>7. CASE x.had_error
  <2>1. j = IDecError(x, "USER_ABORT")
    BY <1>7, <1>j
  <2>2. /\ Sound(j, g) /\ Ended(j, g) /\ j.state = "error" /\ j.last_y \in x.last_y..MbH
    <3>1. "USER_ABORT" \in Statuses \ {"OK", "SUSPENDED"}
      BY DEF Statuses
    <3> QED BY <1>1, <1>2, <1>3, <1>4, <2>1, <3>1, DataErrorIsSound
  <2>3. j.last_y \in Nat /\ i.last_y <= j.last_y
    <3>1. x.last_y \in 0..MbH
      BY <1>1 DEF RowsFlow
    <3> QED BY <1>1, <1>5, <1>6, <2>2, <3>1
  <2> QED BY <2>2, <2>3 DEF Left
<1>8. CASE ~x.had_error
  <2>1. j = [x EXCEPT !.mb_x = 0, !.mb_y = up]
    BY <1>8, <1>j
  <2> HIDE DEF up
  <2>2. Changes(x, j, {"mb_x", "mb_y"})
    BY <1>2, <2>1 DEF Changes, IsIdec
  <2>3. j.mb_x = 0 /\ j.mb_y = i.mb_y + 1
    <3>1. j.mb_x = 0 /\ j.mb_y = up
      BY <1>2, <2>1 DEF IsIdec, Fields
    <3> QED BY <1>2, <3>1 DEF up, SamePlace
  <2>4. IsIdec(j) /\ Mem(j, g) /\ Alpha(j) /\ Pos(j) = Pos(x) /\ SameMem(x, j)
        /\ SameAlpha(x, j) /\ j.start = x.start
    <3>1. {"mb_x", "mb_y"} \cap HeldFields = {}
      BY DEF HeldFields
    <3>2. x.state # "webp_header"
      BY <1>3, <1>4
    <3>3. Mem(x, g) /\ Alpha(x)
      BY <1>1
    <3> QED BY <2>2, <3>1, <3>2, <3>3, KeepsMemory
  <2>5. SameRows(x, j) /\ j.set_up = x.set_up /\ j.br = x.br /\ j.parts = x.parts
        /\ j.output = x.output
    BY <2>2 DEF Changes, Fields, SameRows
  <2>6. j.last_mb_y = x.last_mb_y /\ j.state = x.state /\ j.status = x.status
    BY <2>2 DEF Changes, Fields
  <2>7. RowsFlow(j)
    BY <1>1, <2>5 DEF RowsFlow, SameRows
  <2>8. Pos(j) = Pos(i) /\ \A k : Ptr(j, k) = Ptr(i, k)
    BY <1>2, <2>4 DEF Pos, Ptr, SameMem
  <2>9. ASSUME NEW p \in 0..file.parts - 1
        PROVE  MbAt(p, j.mb_y, j.mb_x) = MbAt(p, i.mb_y, i.mb_x)
    BY <1>4, <2>3, MbPlaces
  <2>10. PartReaders(j, g)
    <3>1. ASSUME NEW q \in 1..file.parts
          PROVE  /\ Ptr(i, MbAt(q - 1, i.mb_y, i.mb_x)) = Ptr(j, MbAt(q - 1, j.mb_y, j.mb_x))
                 /\ Ptr(i, EndAt(q - 1, g)) = Ptr(j, EndAt(q - 1, g))
      <4>1. file.parts \in Nat
        BY <1>4, LossyFacts
      <4>2. q - 1 \in 0..file.parts - 1
        BY <4>1
      <4> QED BY <2>8, <2>9, <4>2
    <3>2. j.parts = [q \in 1..file.parts |->
                       Reader(Ptr(i, MbAt(q - 1, i.mb_y, i.mb_x)), Ptr(i, EndAt(q - 1, g)))]
      BY <1>3, <1>4, <2>5 DEF PartReaders
    <3>3. j.parts = [q \in 1..file.parts |->
                       Reader(Ptr(j, MbAt(q - 1, j.mb_y, j.mb_x)), Ptr(j, EndAt(q - 1, g)))]
      BY <3>1, <3>2
    <3> QED BY <3>3 DEF PartReaders
  <2>11. Unpassed(j)
    BY <1>4, <2>8, <2>9 DEF Unpassed
  <2>12. ModeReader(j)
    BY <1>2, <1>3, <1>4, <2>4, <2>5, <2>6 DEF ModeReader, SameMem, SamePlace
  <2>13. j.mb_y \in 0..MbH /\ j.mb_x \in 0..file.mb_w - 1
         /\ j.last_mb_y \in {j.mb_y - 1, j.mb_y}
    BY <1>2, <1>4, <1>5, <2>3, <2>6 DEF SamePlace
  <2>14. j.dec = "lossy" /\ j.output = "set" /\ j.buf # Null /\ j.mode \in {"append", "map"}
         /\ ~j.had_error /\ j.num_rows = 0 /\ j.state = "vp8_data" /\ j.status = "OK"
    BY <1>2, <1>3, <1>4, <1>8, <2>4, <2>5, <2>6 DEF SameMem, SameAlpha, SameRows
  <2>15. AmongMacroblocks(j, g)
    BY <1>4, <2>3, <2>8, <2>10, <2>11, <2>12, <2>13, <2>14 DEF AmongMacroblocks
  <2>16. \/ j.job = NoJob /\ j.last_y = j.mb_y
         \/ j.job = j.mb_y - 1 /\ j.last_y = j.mb_y - 1 /\ j.mb_y > 0 /\ caller.threads
    <3>1. j.mb_y - 1 = i.mb_y /\ j.mb_y > 0
      BY <1>4, <1>5, <2>3
    <3>2. j.job = x.job /\ j.last_y = x.last_y
      BY <2>5 DEF SameRows
    <3>3. \/ x.job = NoJob /\ x.last_y = i.mb_y + 1
          \/ x.job = i.mb_y /\ x.last_y = i.mb_y /\ caller.threads
      BY <1>1, <1>8, Zenon
    <3> QED BY <2>3, <3>1, <3>2, <3>3
  <2>17. Within(j, g)
    BY <2>4, <2>7, <2>14, <2>15, <2>16 DEF Within
  <2>18. i.last_y <= j.last_y
    BY <1>1, <2>5 DEF SameRows
  <2> QED BY <2>3, <2>17, <2>18
<1> QED BY <1>7, <1>8

(* A round of the loop gets further, or leaves it.                           *)
LEMMA NextMBIsSound ==
  ASSUME Given, NEW i, NEW g, Within(i, g), i.mb_y < MbH,
         NEW j, j = NextMB(i)
  PROVE  \/ Left(i, j, g)
         \/ /\ Within(j, g) /\ i.last_y <= j.last_y
            /\ \/ j.mb_y = i.mb_y /\ j.mb_x = i.mb_x + 1
               \/ j.mb_y = i.mb_y + 1 /\ j.mb_x = 0 /\ i.mb_x + 1 = file.mb_w
<1> DEFINE x == ParseIntraModeRow(i)
           d == [Released(DecodeMB(x)) EXCEPT !.mb_x = @ + 1]
<1>0. /\ IsIdec(i) /\ Mem(i, g) /\ Alpha(i) /\ RowsFlow(i) /\ IsLossy /\ i.state = "vp8_data"
      /\ i.last_y \in 0..MbH /\ i.mb_x \in 0..file.mb_w - 1
  BY DEF Within, AmongMacroblocks, RowsFlow
<1>t. MbH \in Nat /\ file.mb_w \in Nat \ {0}
  BY <1>0, LossyFacts
<1>1. CASE i.fault = "modes" /\ i.last_mb_y # i.mb_y
  <2>1. j = IDecError(i, "BITSTREAM_ERROR")
    BY <1>1 DEF NextMB
  <2>2. /\ Sound(j, g) /\ Ended(j, g) /\ j.state = "error" /\ j.last_y \in i.last_y..MbH
    <3>1. "BITSTREAM_ERROR" \in Statuses \ {"OK", "SUSPENDED"}
      BY DEF Statuses
    <3> QED BY <1>0, <2>1, <3>1, DataErrorIsSound
  <2>3. j.last_y \in Nat /\ i.last_y <= j.last_y
    BY <1>0, <1>t, <2>2
  <2> QED BY <2>2, <2>3 DEF Left
<1>2. CASE ~(i.fault = "modes" /\ i.last_mb_y # i.mb_y)
  <2>j. j = IF RunsDry(x) THEN SuspendedAtMB(x)
            ELSE IF d.mb_x < file.mb_w THEN d ELSE RowDone(d)
    BY <1>2 DEF NextMB
  <2>1. /\ Within(x, g) /\ Changes(i, x, {"br", "last_mb_y"}) /\ x.last_mb_y = x.mb_y
    BY ModesFacts
  <2> HIDE DEF x
  <2>2. x.mb_y = i.mb_y /\ x.mb_x = i.mb_x /\ x.last_y = i.last_y
    BY <2>1 DEF Changes, Fields
  <2>3. CASE RunsDry(x)
    <3>1. j = SuspendedAtMB(x)
      BY <2>3, <2>j
    <3>2. Left(x, j, g)
      BY <2>1, <2>2, <2>3, <3>1, DryIsSound
    <3> QED BY <2>2, <3>2 DEF Left
  <2>4. CASE ~RunsDry(x)
    <3>1. /\ Advanced(d, g) /\ Changes(x, d, {"parts", "start", "mb_x"})
          /\ d.mb_x = x.mb_x + 1
      BY <2>1, <2>2, <2>4, MbIsDone
    <3>2. j = IF d.mb_x < file.mb_w THEN d ELSE RowDone(d)
      BY <2>4, <2>j
    <3> HIDE DEF d
    <3>3. d.last_y = i.last_y /\ d.mb_y = i.mb_y /\ d.mb_x = i.mb_x + 1
      <4>1. d.last_y = x.last_y /\ d.mb_y = x.mb_y
        BY <3>1 DEF Changes, Fields
      <4> QED BY <2>2, <3>1, <4>1
    <3>4. CASE d.mb_x < file.mb_w
      <4>1. j = d
        BY <3>2, <3>4
      <4>2. AmongMacroblocks(d, g)
        <5>1. d.mb_y \in 0..MbH - 1 /\ d.mb_x \in 1..file.mb_w
          BY <3>1 DEF Advanced
        <5>2. d.mb_y \in 0..MbH /\ d.mb_x \in 0..file.mb_w - 1 /\ d.mb_y # MbH
          BY <1>t, <3>4, <5>1
        <5> QED BY <3>1, <5>2 DEF Advanced, AmongMacroblocks
      <4>3. Within(d, g)
        BY <3>1, <4>2 DEF Advanced, Within
      <4>4. i.last_y <= d.last_y
        BY <1>0, <1>t, <3>3
      <4> QED BY <3>3, <4>1, <4>3, <4>4
    <3>5. CASE ~(d.mb_x < file.mb_w)
      <4>1. j = RowDone(d)
        BY <3>2, <3>5
      <4>2. d.mb_x = file.mb_w
        BY <1>0, <1>t, <3>3, <3>5
      <4>3. \/ Left(d, j, g)
            \/ /\ Within(j, g) /\ j.mb_x = 0 /\ j.mb_y = d.mb_y + 1 /\ d.last_y <= j.last_y
        BY <3>1, <4>1, <4>2, RowDoneIsSound
      <4> QED BY <3>3, <4>2, <4>3 DEF Left
    <3> QED BY <3>4, <3>5
  <2> QED BY <2>3, <2>4
<1> QED BY <1>1, <1>2

-----------------------------------------------------------------------------
(* All the macroblocks that are left.                                        *)
Rounds(i, f, m) ==
  f = [n \in 0..m |->
         IF n = 0 THEN i
         ELSE LET j == f[n - 1] IN IF Decoding(j) THEN NextMB(j) ELSE j]

(* The recursive function of DecodeRemaining is one.                         *)
LEMMA RoundsExist == ASSUME NEW i PROVE \A m \in Nat : \E f : Rounds(i, f, m)
<1> DEFINE S == {m \in Nat : \E f : Rounds(i, f, m)}
           next(j) == IF Decoding(j) THEN NextMB(j) ELSE j
<1>0. \A f, m : Rounds(i, f, m) <=> f = [n \in 0..m |-> IF n = 0 THEN i ELSE next(f[n - 1])]
  BY DEF Rounds
<1> HIDE DEF next
<1>1. 0 \in S
  <2>1. [n \in 0..0 |-> i] = [n \in 0..0 |-> IF n = 0 THEN i ELSE next([m \in 0..0 |-> i][n - 1])]
    OBVIOUS
  <2> QED BY <1>0, <2>1
<1>2. ASSUME NEW m \in Nat, m \in S PROVE m + 1 \in S
  <2>1. PICK f : Rounds(i, f, m)
    BY <1>2
  <2>2. f = [n \in 0..m |-> IF n = 0 THEN i ELSE next(f[n - 1])]
    BY <1>0, <2>1
  <2> DEFINE h == [n \in 0..m + 1 |-> IF n <= m THEN f[n] ELSE next(f[m])]
  <2>3. ASSUME NEW n \in 0..m + 1 PROVE h[n] = IF n = 0 THEN i ELSE next(h[n - 1])
    <3>1. CASE n = 0
      BY <2>2, <3>1
    <3>2. CASE n # 0 /\ n <= m
      <4>1. n \in 0..m /\ n - 1 \in 0..m
        BY <3>2
      <4>2. f[n] = next(f[n - 1])
        BY <2>2, <3>2, <4>1
      <4>3. h[n] = f[n] /\ h[n - 1] = f[n - 1]
        BY <3>2, <4>1
      <4> QED BY <3>2, <4>2, <4>3
    <3>3. CASE n = m + 1
      <4>1. n - 1 = m /\ ~(n <= m) /\ n # 0 /\ m \in 0..m + 1
        BY <3>3
      <4>2. h[n] = next(f[m]) /\ h[m] = f[m]
        BY <4>1
      <4> QED BY <4>1, <4>2
    <3> QED BY <3>1, <3>2, <3>3
  <2>4. h = [n \in 0..m + 1 |-> IF n = 0 THEN i ELSE next(h[n - 1])]
    BY <2>3
  <2> HIDE DEF h
  <2>5. Rounds(i, h, m + 1)
    BY <1>0, <2>4
  <2> QED BY <2>5
<1> HIDE DEF S
<1>3. Nat \subseteq S
  BY <1>1, <1>2, SetInduction
<1> QED BY <1>3 DEF S

(* After n rounds.                                                           *)
After(i, j, n, g) ==
  \/ Left(i, j, g)
  \/ Within(j, g) /\ i.last_y <= j.last_y /\ j.mb_y * file.mb_w + j.mb_x >= n

(* Every round of its loop is sound, and each moves on or stops.             *)
LEMMA RoundsAreSound ==
  ASSUME Given, NEW i, NEW g, Within(i, g), NEW f, Rounds(i, f, MbH * file.mb_w)
  PROVE  /\ MbH * file.mb_w \in Nat
         /\ \A n \in 0..MbH * file.mb_w : After(i, f[n], n, g)
<1> DEFINE K == MbH * file.mb_w
           S == {n \in Nat : n <= K => After(i, f[n], n, g)}
<1>0. /\ IsLossy /\ i.mb_y \in 0..MbH /\ i.mb_x \in 0..file.mb_w - 1
      /\ i.last_y \in 0..MbH
  BY DEF Within, AmongMacroblocks, RowsFlow
<1>1. MbH \in Nat /\ file.mb_w \in Nat \ {0}
  BY <1>0, LossyFacts
<1>2. /\ \A a, b \in Nat : a * b \in Nat
      /\ \A a, b \in Nat : (a + 1) * b = a * b + b
  OBVIOUS
<1>3. K \in Nat
  BY <1>1, <1>2
<1>4. f[0] = i /\ \A n \in 0..K - 1 :
        f[n + 1] = IF Decoding(f[n]) THEN NextMB(f[n]) ELSE f[n]
  <2> DEFINE next(j) == IF Decoding(j) THEN NextMB(j) ELSE j
  <2>0. f = [n \in 0..K |-> IF n = 0 THEN i ELSE next(f[n - 1])]
    BY DEF Rounds
  <2> HIDE DEF K, next
  <2>1. f[0] = i
    <3>1. 0 \in 0..K
      BY <1>3
    <3> QED BY <2>0, <3>1
  <2>2. ASSUME NEW n \in 0..K - 1
        PROVE  f[n + 1] = IF Decoding(f[n]) THEN NextMB(f[n]) ELSE f[n]
    <3>1. PICK m \in 0..K : m = n + 1 /\ m # 0 /\ m - 1 = n
      BY <1>3
    <3>2. f[m] = next(f[m - 1])
      BY <2>0, <3>1
    <3>4. f[n + 1] = next(f[n])
      BY <3>1, <3>2
    <3> QED BY <3>4 DEF next
  <2> QED BY <2>1, <2>2
<1> HIDE DEF K
<1>5. 0 \in S
  <2>1. i.mb_y * file.mb_w \in Nat /\ i.mb_x \in Nat
    BY <1>0, <1>1, <1>2
  <2>2. i.mb_y * file.mb_w + i.mb_x >= 0 /\ i.last_y <= i.last_y
    BY <1>0, <1>1, <2>1
  <2>3. After(i, i, 0, g)
    BY <2>2 DEF After
  <2> QED BY <1>4, <2>3
<1>6. ASSUME NEW n \in Nat, n \in S PROVE n + 1 \in S
  <2> SUFFICES ASSUME n + 1 <= K PROVE After(i, f[n + 1], n + 1, g)
    OBVIOUS
  <2> DEFINE x == f[n]
             y == f[n + 1]
  <2>1. After(i, x, n, g)
    BY <1>3, <1>6
  <2>2. y = IF Decoding(x) THEN NextMB(x) ELSE x
    BY <1>3, <1>4
  <2> HIDE DEF S, x, y
  <2>3. CASE Left(i, x, g)
    <3>1. x.status # "OK"
      BY <2>3 DEF Left, Ended
    <3>2. y = x
      BY <2>2, <3>1 DEF Decoding
    <3> QED BY <2>3, <3>2 DEF After, x, y
  <2>4. CASE Within(x, g) /\ i.last_y <= x.last_y /\ x.mb_y * file.mb_w + x.mb_x >= n
    <3>1. /\ x.mb_y \in 0..MbH
          /\ x.mb_x \in 0..file.mb_w - 1
          /\ x.mb_y = MbH => x.mb_x = 0
      BY <2>4 DEF Within, AmongMacroblocks
    <3>2. x.state = "vp8_data" /\ x.status = "OK" /\ x.last_y \in 0..MbH
      BY <2>4 DEF Within, RowsFlow
    <3>3. CASE x.mb_y < MbH
      <4>1. y = NextMB(x)
        BY <2>2, <3>2, <3>3 DEF Decoding
      <4>2. \/ Left(x, y, g)
            \/ /\ Within(y, g) /\ x.last_y <= y.last_y
               /\ \/ y.mb_y = x.mb_y /\ y.mb_x = x.mb_x + 1
                  \/ y.mb_y = x.mb_y + 1 /\ y.mb_x = 0 /\ x.mb_x + 1 = file.mb_w
        BY <2>4, <3>3, <4>1, NextMBIsSound
      <4>3. CASE Left(x, y, g)
        <5>1. y.last_y \in Nat /\ x.last_y <= y.last_y
          BY <4>3 DEF Left
        <5>2. i.last_y <= y.last_y
          BY <1>0, <1>1, <2>4, <3>2, <5>1
        <5> QED BY <4>3, <5>2 DEF Left, After, y
      <4>4. CASE /\ Within(y, g) /\ x.last_y <= y.last_y
                 /\ \/ y.mb_y = x.mb_y /\ y.mb_x = x.mb_x + 1
                    \/ y.mb_y = x.mb_y + 1 /\ y.mb_x = 0 /\ x.mb_x + 1 = file.mb_w
        <5>1. x.mb_y * file.mb_w \in Nat /\ (x.mb_y + 1) * file.mb_w = x.mb_y * file.mb_w + file.mb_w
          BY <1>1, <1>2, <3>1
        <5>2. y.mb_y * file.mb_w + y.mb_x = x.mb_y * file.mb_w + x.mb_x + 1
          <6>1. CASE y.mb_y = x.mb_y /\ y.mb_x = x.mb_x + 1
            BY <1>1, <3>1, <5>1, <6>1
          <6>2. CASE y.mb_y = x.mb_y + 1 /\ y.mb_x = 0 /\ x.mb_x + 1 = file.mb_w
            BY <1>1, <3>1, <5>1, <6>2
          <6> QED BY <4>4, <6>1, <6>2
        <5>3. y.mb_y * file.mb_w + y.mb_x >= n + 1
          BY <1>1, <2>4, <3>1, <5>1, <5>2
        <5>4. y.last_y \in 0..MbH
          BY <4>4 DEF Within, RowsFlow
        <5>5. i.last_y <= y.last_y
          BY <1>0, <1>1, <2>4, <3>2, <4>4, <5>4
        <5> QED BY <4>4, <5>3, <5>5 DEF After, y
      <4> QED BY <4>2, <4>3, <4>4
    <3>4. CASE ~(x.mb_y < MbH)
      <4>1. y = x
        BY <2>2, <3>4 DEF Decoding
      <4>2. x.mb_y = MbH /\ x.mb_x = 0
        BY <1>1, <3>1, <3>4
      <4>3. x.mb_y * file.mb_w + x.mb_x >= n + 1
        BY <1>3, <4>2 DEF K
      <4> QED BY <2>4, <4>1, <4>3 DEF After, x, y
    <3> QED BY <3>3, <3>4
  <2> QED BY <2>1, <2>3, <2>4 DEF After
<1> HIDE DEF S
<1>7. Nat \subseteq S
  BY <1>5, <1>6, SetInduction
<1>8. \A n \in 0..K : After(i, f[n], n, g)
  BY <1>3, <1>7 DEF S
<1> QED BY <1>3, <1>8 DEF K

(* DecodeRemaining: sound when it comes back, and with all rows out when it  *)
(* has finished.                                                             *)
LEMMA RemainingIsSound ==
  ASSUME Given, NEW i, NEW g, Within(i, g), NEW j, j = DecodeRemaining(i)
  PROVE  /\ Sound(j, g) /\ Ended(j, g) /\ j.last_y \in Nat /\ i.last_y <= j.last_y
         /\ j.state \in {"vp8_data", "done", "error"}
<1> DEFINE K == MbH * file.mb_w
           f == CHOOSE f : Rounds(i, f, K)
           last == f[K]
           e == VP8ExitCritical(last)
<1>0. /\ IsLossy /\ i.last_y \in 0..MbH
  BY DEF Within, AmongMacroblocks, RowsFlow
<1>1. MbH \in Nat /\ file.mb_w \in Nat \ {0}
  BY <1>0, LossyFacts
<1>2. /\ \A a, b \in Nat : a * b \in Nat
      /\ \A a, b \in Nat : (a + 1) * b = a * b + b
      /\ \A a, b, c \in Nat : a <= b => a * c <= b * c
  <2>1. ASSUME NEW a \in Nat, NEW b \in Nat, NEW c \in Nat, a <= b
        PROVE  a * c <= b * c
    <3>1. PICK d \in Nat : b = a + d
      BY <2>1
    <3>2. b * c = a * c + d * c /\ d * c \in Nat /\ a * c \in Nat
      BY <3>1
    <3> QED BY <3>2
  <2> QED BY <2>1
<1>3. K \in Nat
  BY <1>1, <1>2
<1>4. Rounds(i, f, K)
  BY <1>3, RoundsExist
<1>j. j = IF last.status # "OK" THEN last
          ELSE IF e.had_error THEN [e EXCEPT !.state = "error", !.status = "USER_ABORT"]
          ELSE FinishDecoding(e)
  BY DEF DecodeRemaining, Rounds
<1>5. After(i, last, K, g)
  <2> HIDE DEF f
  <2>1. \A n \in 0..K : After(i, f[n], n, g)
    BY <1>4, RoundsAreSound
  <2> QED BY <1>3, <2>1
<1> HIDE DEF last
<1>6. CASE Left(i, last, g)
  <2>1. last.status # "OK"
    BY <1>6 DEF Left, Ended
  <2>2. j = last
    BY <1>j, <2>1
  <2> QED BY <1>6, <2>2 DEF Left
<1>7. CASE Within(last, g) /\ i.last_y <= last.last_y
           /\ last.mb_y * file.mb_w + last.mb_x >= K
  <2>1. /\ IsIdec(last) /\ Mem(last, g) /\ Alpha(last) /\ RowsFlow(last)
        /\ last.state = "vp8_data" /\ last.status = "OK"
    BY <1>7 DEF Within
  <2>2. last.mb_y \in 0..MbH /\ last.mb_x \in 0..file.mb_w - 1 /\ last.last_y \in 0..MbH
    BY <1>7 DEF Within, AmongMacroblocks, RowsFlow
  <2>3. last.mb_y = MbH
    <3> SUFFICES ASSUME last.mb_y + 1 <= MbH PROVE FALSE
      BY <1>1, <2>2
    <3>1. /\ (last.mb_y + 1) * file.mb_w <= K
          /\ (last.mb_y + 1) * file.mb_w = last.mb_y * file.mb_w + file.mb_w
          /\ last.mb_y * file.mb_w \in Nat
      BY <1>1, <1>2, <2>2
    <3> HIDE DEF K
    <3> QED BY <1>1, <1>3, <1>7, <2>2, <3>1
  <2>4. /\ Changes(last, e, RowFields \union {"job", "set_up"}) /\ Mem(e, g) /\ Alpha(e)
        /\ e.job = NoJob /\ e.set_up = 0 /\ e.had_error \in BOOLEAN
        /\ e.last_y \in last.last_y..MbH /\ e.num_rows \in 0..NumArgbCacheRows
        /\ last.job = NoJob => e.last_y = last.last_y /\ e.had_error = last.had_error
        /\ last.job # NoJob /\ ~e.had_error => e.last_y = last.last_y + 1
    BY <1>0, <2>1, ExitFacts
  <2>5. CASE e.had_error
    <3>1. j = IDecError(last, "USER_ABORT")
      BY <1>j, <2>1, <2>5 DEF IDecError
    <3>2. /\ Sound(j, g) /\ Ended(j, g) /\ j.state = "error" /\ j.last_y \in last.last_y..MbH
      <4>1. "USER_ABORT" \in Statuses \ {"OK", "SUSPENDED"}
        BY DEF Statuses
      <4> QED BY <1>0, <2>1, <3>1, <4>1, DataErrorIsSound
    <3>3. j.last_y \in Nat /\ i.last_y <= j.last_y
      BY <1>0, <1>1, <1>7, <2>2, <3>2
    <3> QED BY <3>2, <3>3
  <2>6. CASE ~e.had_error
    <3>1. j = FinishDecoding(e)
      BY <1>j, <2>1, <2>6
    <3> HIDE DEF e
    <3>2. e.last_y = MbH
      <4>1. \/ last.job = NoJob /\ last.last_y = last.mb_y
            \/ last.job = last.mb_y - 1 /\ last.last_y = last.mb_y - 1 /\ last.mb_y > 0
        BY <1>7 DEF Within
      <4>2. CASE last.job = NoJob
        <5>1. last.last_y = last.mb_y
          BY <1>1, <2>3, <4>1, <4>2 DEF NoJob
        <5> QED BY <2>3, <2>4, <4>2, <5>1
      <4>3. CASE last.job # NoJob
        <5>1. e.last_y = last.last_y + 1
          BY <2>4, <2>6, <4>3, Zenon
        <5> QED BY <1>1, <2>3, <4>1, <4>3, <5>1
      <4> QED BY <4>2, <4>3
    <3>3. IsIdec(e) /\ e.state = "vp8_data"
      BY <2>1, <2>4 DEF Changes, Fields, RowFields
    <3>4. Height = MbH
      BY <1>0, LossyFacts
    <3>5. Sound(j, g) /\ Ended(j, g) /\ j.state = "done" /\ j.last_y = e.last_y
      BY <1>0, <1>1, <2>4, <3>1, <3>2, <3>3, <3>4, FinishIsSound
    <3> QED BY <1>0, <1>1, <3>2, <3>5
  <2> QED BY <2>4, <2>5, <2>6
<1> QED BY <1>5, <1>6, <1>7 DEF After

-----------------------------------------------------------------------------
(* Multiples of a number.                                                    *)
LEMMA Times ==
  ASSUME NEW N \in Nat \ {0}
  PROVE  /\ \A q \in Nat : q * N \in Nat
         /\ \A p, q \in Nat : p < q => p * N + N <= q * N
<1>1. \A q \in Nat : q * N \in Nat
   OBVIOUS
<1>2. ASSUME NEW p \in Nat, NEW q \in Nat, p < q PROVE p * N + N <= q * N
  <2>1. PICK d \in Nat : q = p + 1 + d
    <3>1. q - p - 1 \in Nat /\ q = p + 1 + (q - p - 1)
      BY <1>2
    <3> QED BY <3>1
  <2>2. q * N = p * N + N + d * N /\ d * N \in Nat /\ p * N \in Nat
    BY <2>1
  <2> QED BY <2>2
<1> QED BY <1>1, <1>2

(* Division with remainder.                                                  *)
LEMMA Division ==
  ASSUME NEW N \in Nat \ {0}, NEW r \in Nat
  PROVE  r % N \in 0..N - 1 /\ r \div N \in Nat /\ r = (r \div N) * N + (r % N)
<1>1. r % N \in 0..N - 1
  OBVIOUS
<1>2. r \div N \in Nat
  OBVIOUS
<1>3. r = (r \div N) * N + (r % N)
  OBVIOUS
<1> QED BY <1>1, <1>2, <1>3

(* Between a multiple and the next there is none.                            *)
LEMMA Multiples ==
  ASSUME NEW N \in Nat \ {0}
  PROVE  /\ \A q \in Nat : q * N \in Nat /\ (q * N) % N = 0
         /\ \A r \in Nat : r % N = 0 => \E q \in Nat : r = q * N
         /\ \A p, q \in Nat : p * N < q * N + N => p * N <= q * N
<1>1. ASSUME NEW q \in Nat PROVE q * N \in Nat /\ (q * N) % N = 0
  <2>1. q * N \in Nat
    BY Times
  <2> DEFINE r == q * N
             d == r \div N
  <2>2. r % N \in 0..N - 1 /\ d \in Nat /\ r = d * N + (r % N)
    BY <2>1, Division
  <2>3. r = q * N /\ d * N \in Nat
    BY <2>2, Times
  <2> HIDE DEF r, d
  <2>4. ~(d < q)
    <3>1. d < q => d * N + N <= q * N
      BY <2>2, Times
    <3> QED BY <2>2, <2>3, <3>1
  <2>5. ~(q < d)
    <3>1. q < d => q * N + N <= d * N
      BY <2>2, Times
    <3> QED BY <2>1, <2>2, <2>3, <3>1
  <2>6. d = q
    BY <2>2, <2>4, <2>5
  <2> DEFINE x == r % N
             e == d * N
  <2>7. x \in Int /\ e \in Nat /\ e = q * N /\ r = e + x
    BY <2>2, <2>3, <2>6
  <2> HIDE DEF x, e
  <2>8. x = 0
    BY <2>3, <2>7
  <2> QED BY <2>1, <2>8 DEF x, r
<1>2. ASSUME NEW r \in Nat, r % N = 0 PROVE \E q \in Nat : r = q * N
  <2> DEFINE d == r \div N
  <2>1. d \in Nat /\ r = d * N + (r % N)
    BY Division
  <2>2. d * N \in Nat
    BY <2>1, Times
  <2> HIDE DEF d
  <2>3. r = d * N
    BY <1>2, <2>1, <2>2
  <2> QED BY <2>1, <2>3
<1>3. ASSUME NEW p \in Nat, NEW q \in Nat, p * N < q * N + N PROVE p * N <= q * N
  <2>1. q < p => q * N + N <= p * N
    BY Times
  <2>2. p < q => p * N + N <= q * N
    BY Times
  <2>3. p * N \in Nat /\ q * N \in Nat
    BY Times
  <2>4. CASE p = q
    BY <2>3, <2>4
  <2> QED BY <1>3, <2>1, <2>2, <2>3, <2>4
<1> QED BY <1>1, <1>2, <1>3

(* Rows come out in batches, where the cache is full.                        *)
LEMMA BatchFacts ==
  ASSUME Given, ~IsLossy, NEW l, NEW m \in Nat, BatchedRows(l, m)
  PROVE  /\ NumArgbCacheRows \in Nat \ {0} /\ caller.crop_bottom \in Nat
         /\ l \in Nat /\ l <= m /\ l <= caller.crop_bottom
         /\ m < caller.crop_bottom => m < l + NumArgbCacheRows
         /\ ~(m < caller.crop_bottom) => caller.crop_bottom < l + NumArgbCacheRows
         /\ \E q \in Nat : l = q * NumArgbCacheRows
<1>1. NumArgbCacheRows \in Nat \ {0}
  BY DecoderAssumption
<1>2. caller.crop_bottom \in Nat
  BY LosslessFacts
<1>3. PICK q \in Nat : l = q * NumArgbCacheRows
  BY DEF BatchedRows
<1>4. l \in Nat
  BY <1>1, <1>3, Times
<1> QED BY <1>1, <1>2, <1>3, <1>4 DEF BatchedRows

(* What is out when a batch has been put out.                                *)
LEMMA BatchIsDue ==
  ASSUME Given, ~IsLossy, NEW l, NEW m \in Nat, BatchedRows(l, m), NEW r \in Nat,
         r <= m, m = r \/ m < r + 1 + NumArgbCacheRows,
         r + 1 <= caller.crop_bottom, (r + 1) % NumArgbCacheRows = 0
  PROVE  /\ BatchedRows(r + 1, IF r + 1 <= m THEN m ELSE r + 1)
         /\ l = IF r + 1 <= m THEN r + 1 ELSE r + 1 - NumArgbCacheRows
<1> DEFINE N == NumArgbCacheRows
           C == caller.crop_bottom
<1>1. /\ N \in Nat \ {0} /\ C \in Nat /\ l \in Nat /\ l <= m /\ l <= C
      /\ m < C => m < l + N
      /\ ~(m < C) => C < l + N
  BY BatchFacts
<1>2. PICK p \in Nat : l = p * N
  BY BatchFacts
<1>3. PICK q \in Nat : r + 1 = q * N
  <2>1. r + 1 \in Nat
    OBVIOUS
  <2> QED BY <1>1, <2>1, Multiples
<1>4. l < r + 1 => l + N <= r + 1
  <2>1. p < q => p * N + N <= q * N
    BY <1>1, Times
  <2>2. p * N < q * N => p < q
    <3>1. q < p => q * N + N <= p * N
      BY <1>1, Times
    <3>2. p * N \in Nat /\ q * N \in Nat
      BY <1>1, Times
    <3>3. q = p => q * N = p * N
      OBVIOUS
    <3> HIDE DEF N
    <3> QED BY <1>1, <3>1, <3>2, <3>3
  <2> HIDE DEF N
  <2> QED BY <1>2, <1>3, <2>1, <2>2
<1>5. r + 1 < l => r + 1 + N <= l
  <2>1. q < p => q * N + N <= p * N
    BY <1>1, Times
  <2>2. q * N < p * N => q < p
    <3>1. p < q => p * N + N <= q * N
      BY <1>1, Times
    <3>2. p * N \in Nat /\ q * N \in Nat
      BY <1>1, Times
    <3>3. q = p => q * N = p * N
      OBVIOUS
    <3> HIDE DEF N
    <3> QED BY <1>1, <3>1, <3>2, <3>3
  <2> HIDE DEF N
  <2> QED BY <1>2, <1>3, <2>1, <2>2
<1>6. l = IF r + 1 <= m THEN r + 1 ELSE r + 1 - N
  <2> HIDE DEF N, C
  <2>1. r + 1 <= C /\ (m = r \/ m < r + 1 + N)
    BY DEF N, C
  <2>2. CASE r + 1 <= m
    <3>1. ~(l < r + 1)
      BY <1>1, <1>4, <2>1, <2>2
    <3>2. ~(r + 1 < l)
      BY <1>1, <1>5, <2>1, <2>2
    <3> QED BY <1>1, <2>2, <3>1, <3>2
  <2>3. CASE ~(r + 1 <= m)
    <3>1. m = r /\ m < C
      BY <1>1, <2>1, <2>3
    <3> QED BY <1>1, <1>4, <2>1, <2>3, <3>1
  <2> QED BY <2>2, <2>3
<1>7. BatchedRows(r + 1, IF r + 1 <= m THEN m ELSE r + 1)
  <2> DEFINE k == IF r + 1 <= m THEN m ELSE r + 1
             n == IF k < C THEN k ELSE C
  <2>1. r + 1 <= n /\ n < r + 1 + N
    <3>1. r + 1 <= C /\ (m = r \/ m < r + 1 + N)
      OBVIOUS
    <3> HIDE DEF N, C
    <3> QED BY <1>1, <3>1
  <2>2. \E s \in Nat : r + 1 = s * N
    BY <1>3
  <2> QED BY <2>1, <2>2 DEF BatchedRows
<1> QED BY <1>6, <1>7

(* What is out stays what it was until the next is due.                      *)
LEMMA BatchIsNotDue ==
  ASSUME Given, ~IsLossy, NEW l, NEW m \in Nat, BatchedRows(l, m), NEW r \in Nat,
         r <= m, ~((r + 1) % NumArgbCacheRows = 0 /\ r + 1 <= caller.crop_bottom)
  PROVE  BatchedRows(l, IF r + 1 <= m THEN m ELSE r + 1)
<1> DEFINE N == NumArgbCacheRows
           C == caller.crop_bottom
<1>1. /\ N \in Nat \ {0} /\ C \in Nat /\ l \in Nat /\ l <= m /\ l <= C
      /\ m < C => m < l + N
      /\ ~(m < C) => C < l + N
  BY BatchFacts
<1>2. PICK p \in Nat : l = p * N
  BY BatchFacts
<1>3. r + 1 <= C => r + 1 # l + N
  <2> SUFFICES ASSUME r + 1 <= C, r + 1 = l + N PROVE FALSE
    OBVIOUS
  <2>1. l + N = (p + 1) * N /\ p + 1 \in Nat
    BY <1>1, <1>2
  <2>2. ((p + 1) * N) % N = 0
    BY <1>1, <2>1, Multiples
  <2>3. (r + 1) % N = 0
    BY <2>1, <2>2
  <2> QED BY <2>3
<1>4. CASE r + 1 <= m
  BY <1>4
<1>5. CASE ~(r + 1 <= m)
  <2> DEFINE n == IF r + 1 < C THEN r + 1 ELSE C
  <2>1. l <= n /\ n < l + N
    <3> HIDE DEF N, C
    <3>1. m = r
      BY <1>5
    <3> QED BY <1>1, <1>3, <3>1
  <2>2. \E s \in Nat : l = s * N
    BY <1>2
  <2>3. BatchedRows(l, r + 1)
    BY <2>1, <2>2 DEF BatchedRows
  <2> QED BY <1>5, <2>3
<1> QED BY <1>4, <1>5

BatchFields == {"last_row", "num_rows", "last_y"}

(* ProcessRows puts out the rows since the last ones.                        *)
LEMMA ProcessRowsFacts ==
  ASSUME NEW i, IsIdec(i), NEW row, NEW j, j = ProcessRows(i, row)
  PROVE  /\ Changes(i, j, BatchFields)
         /\ j.last_row = row /\ j.num_rows = row - i.last_row
         /\ j.last_y = IF row - i.last_row > 0 THEN i.last_y + (row - i.last_row)
                       ELSE i.last_y
<1> DEFINE n == row - i.last_row
           y == IF n > 0 THEN i.last_y + n ELSE i.last_y
<1>1. j = [i EXCEPT !.last_row = row, !.num_rows = n, !.last_y = y]
  BY DEF ProcessRows
<1>2. y = IF row - i.last_row > 0 THEN i.last_y + (row - i.last_row) ELSE i.last_y
  OBVIOUS
<1>3. n = row - i.last_row
  OBVIOUS
<1> HIDE DEF n, y
<1>4. Changes(i, j, BatchFields)
  BY <1>1 DEF Changes, IsIdec, BatchFields
<1>5. j.last_row = row /\ j.num_rows = n /\ j.last_y = y
  BY <1>1, FieldNames DEF IsIdec
<1> QED BY <1>2, <1>3, <1>4, <1>5

BatchRounds(i, f, a, b) ==
  f = [r \in a..b |->
         IF r = a THEN i
         ELSE LET j == f[r - 1]
              IN IF r % NumArgbCacheRows = 0 /\ r <= caller.crop_bottom
                 THEN ProcessRows(j, r) ELSE j]

(* The recursive function of Batches is one.                                 *)
LEMMA BatchRoundsExist ==
  ASSUME NEW i, NEW a \in Nat
  PROVE  \A m \in Nat : \E f : BatchRounds(i, f, a, a + m)
<1> DEFINE S == {m \in Nat : \E f : BatchRounds(i, f, a, a + m)}
           next(j, r) == IF r % NumArgbCacheRows = 0 /\ r <= caller.crop_bottom
                         THEN ProcessRows(j, r) ELSE j
<1>0. \A f, b : BatchRounds(i, f, a, b)
                  <=> f = [r \in a..b |-> IF r = a THEN i ELSE next(f[r - 1], r)]
  BY DEF BatchRounds
<1> HIDE DEF next
<1>1. 0 \in S
  <2> DEFINE h == [r \in a..a + 0 |-> i]
  <2>1. ASSUME NEW r \in a..a + 0 PROVE h[r] = IF r = a THEN i ELSE next(h[r - 1], r)
    <3>1. r = a
      OBVIOUS
    <3> QED BY <3>1
  <2>2. h = [r \in a..a + 0 |-> IF r = a THEN i ELSE next(h[r - 1], r)]
    BY <2>1
  <2> HIDE DEF h
  <2> QED BY <1>0, <2>2
<1>2. ASSUME NEW m \in Nat, m \in S PROVE m + 1 \in S
  <2>1. PICK f : BatchRounds(i, f, a, a + m)
    BY <1>2
  <2>2. f = [r \in a..a + m |-> IF r = a THEN i ELSE next(f[r - 1], r)]
    BY <1>0, <2>1
  <2> DEFINE h == [r \in a..a + (m + 1) |-> IF r <= a + m THEN f[r] ELSE next(f[a + m], r)]
  <2>3. ASSUME NEW r \in a..a + (m + 1)
        PROVE  h[r] = IF r = a THEN i ELSE next(h[r - 1], r)
    <3>1. CASE r = a
      <4>1. r \in a..a + m /\ r <= a + m
        BY <3>1
      <4>2. f[r] = i
        BY <2>2, <3>1, <4>1
      <4> QED BY <3>1, <4>1, <4>2
    <3>2. CASE r # a /\ r <= a + m
      <4>1. r \in a..a + m /\ r - 1 \in a..a + m /\ r - 1 \in a..a + (m + 1) /\ r - 1 <= a + m
        BY <3>2
      <4>2. f[r] = next(f[r - 1], r)
        BY <2>2, <3>2, <4>1
      <4>3. h[r] = f[r] /\ h[r - 1] = f[r - 1]
        BY <3>2, <4>1
      <4> QED BY <3>2, <4>2, <4>3
    <3>3. CASE r = a + (m + 1)
      <4>1. r - 1 = a + m /\ ~(r <= a + m) /\ r # a /\ a + m \in a..a + (m + 1)
        BY <3>3
      <4>2. h[r] = next(f[a + m], r) /\ h[r - 1] = f[a + m]
        BY <4>1
      <4> QED BY <4>1, <4>2
    <3> QED BY <3>1, <3>2, <3>3
  <2>4. h = [r \in a..a + (m + 1) |-> IF r = a THEN i ELSE next(h[r - 1], r)]
    BY <2>3
  <2> HIDE DEF h
  <2>5. BatchRounds(i, h, a, a + (m + 1))
    BY <1>0, <2>4
  <2> QED BY <2>5
<1> HIDE DEF S
<1>3. Nat \subseteq S
  BY <1>1, <1>2, SetInduction
<1> QED BY <1>3 DEF S

(* What has come out when the rows before r are decoded, those before m for  *)
(* the second time.                                                          *)
Upto(m, r) == IF r <= m THEN m ELSE r

Put(i, j, m, r) ==
  /\ Changes(i, j, BatchFields)
  /\ j.last_y = j.last_row /\ j.num_rows \in 0..NumArgbCacheRows
  /\ i.last_y <= j.last_y /\ BatchedRows(j.last_row, Upto(m, r))

(* One row of a batch; rows that were put out before are not put out again.  *)
LEMMA RowIsPut ==
  ASSUME Given, ~IsLossy, NEW i, IsIdec(i), i.last_y \in Nat,
         NEW m \in Nat, NEW a \in Nat, m = a \/ m < a + NumArgbCacheRows,
         NEW r \in Nat, a <= r, NEW x, Put(i, x, m, r),
         NEW y, y = IF (r + 1) % NumArgbCacheRows = 0 /\ r + 1 <= caller.crop_bottom
                    THEN ProcessRows(x, r + 1) ELSE x
  PROVE  Put(i, y, m, r + 1)
<1> DEFINE N == NumArgbCacheRows
           u == Upto(m, r)
<1>1. /\ IsIdec(x) /\ x.last_y = x.last_row /\ x.num_rows \in 0..N
      /\ i.last_y <= x.last_y /\ BatchedRows(x.last_row, u)
  BY DEF Put, Changes
<1>2. N \in Nat \ {0}
  BY DecoderAssumption
<1>3. /\ u \in Nat /\ r <= u
      /\ u = r \/ u < r + 1 + N
      /\ Upto(m, r + 1) = IF r + 1 <= u THEN u ELSE r + 1
  BY <1>2 DEF Upto
<1>4. x.last_row \in Nat
  BY <1>1, <1>3, BatchFacts
<1> HIDE DEF u
<1>5. CASE (r + 1) % NumArgbCacheRows = 0 /\ r + 1 <= caller.crop_bottom
  <2>1. /\ BatchedRows(r + 1, Upto(m, r + 1))
        /\ x.last_row = IF r + 1 <= u THEN r + 1 ELSE r + 1 - N
    BY <1>1, <1>3, <1>5, BatchIsDue
  <2>2. /\ Changes(x, y, BatchFields)
        /\ y.last_row = r + 1 /\ y.num_rows = (r + 1) - x.last_row
        /\ y.last_y = IF (r + 1) - x.last_row > 0 THEN x.last_y + ((r + 1) - x.last_row)
                      ELSE x.last_y
    BY <1>1, <1>5, ProcessRowsFacts
  <2>3. y.last_y = y.last_row /\ y.num_rows \in 0..N /\ i.last_y <= y.last_y
    <3> HIDE DEF N
    <3>1. x.last_row = r + 1 \/ x.last_row = r + 1 - N
      BY <2>1
    <3> QED BY <1>1, <1>2, <1>4, <2>2, <3>1
  <2>4. Changes(i, y, BatchFields)
    BY <2>2 DEF Changes, Put
  <2> QED BY <2>1, <2>2, <2>3, <2>4 DEF Put
<1>6. CASE ~((r + 1) % NumArgbCacheRows = 0 /\ r + 1 <= caller.crop_bottom)
  <2>1. BatchedRows(x.last_row, Upto(m, r + 1))
    BY <1>1, <1>3, <1>6, BatchIsNotDue
  <2>2. y = x
    BY <1>6
  <2> QED BY <2>1, <2>2 DEF Put
<1> QED BY <1>5, <1>6

(* All rows of a symbol.                                                     *)
LEMMA BatchesFacts ==
  ASSUME Given, ~IsLossy, NEW i, IsIdec(i), i.last_y \in Nat, i.last_y = i.last_row,
         i.num_rows \in 0..NumArgbCacheRows, Row(i) \in Nat,
         NEW m \in Nat, Row(i) <= m, m = Row(i) \/ m < Row(i) + NumArgbCacheRows,
         BatchedRows(i.last_row, m), NEW n \in Nat
  PROVE  Put(i, Batches(i, Row(i) + n), m, Row(i) + n)
<1> DEFINE a == Row(i)
           b == a + n
           f == CHOOSE f : BatchRounds(i, f, a, b)
           next(j, r) == IF r % NumArgbCacheRows = 0 /\ r <= caller.crop_bottom
                         THEN ProcessRows(j, r) ELSE j
           S == {k \in Nat : k <= n => Put(i, f[a + k], m, a + k)}
<1>1. Batches(i, b) = f[b]
  BY DEF Batches, BatchRounds
<1>2. BatchRounds(i, f, a, b)
  BY BatchRoundsExist
<1> HIDE DEF f
<1>3. f = [r \in a..b |-> IF r = a THEN i ELSE next(f[r - 1], r)]
  BY <1>2 DEF BatchRounds
<1> HIDE DEF a, next
<1>a. a \in Nat /\ a <= m /\ (m = a \/ m < a + NumArgbCacheRows)
  BY DEF a
<1>4. 0 \in S
  <2>1. f[a] = i
    BY <1>3, <1>a
  <2>2. Upto(m, a) = m
    BY <1>a DEF Upto
  <2>3. Changes(i, i, BatchFields) /\ i.last_y <= i.last_y
    BY DEF Changes
  <2>4. Put(i, i, m, a)
    BY <2>2, <2>3 DEF Put
  <2>5. a + 0 = a
    BY <1>a
  <2> QED BY <2>1, <2>4, <2>5
<1>5. ASSUME NEW k \in Nat, k \in S PROVE k + 1 \in S
  <2> SUFFICES ASSUME k + 1 <= n PROVE Put(i, f[a + (k + 1)], m, a + (k + 1))
    OBVIOUS
  <2>1. Put(i, f[a + k], m, a + k)
    BY <1>5
  <2>2. PICK r \in Nat : r = a + k /\ a <= r
    BY <1>a
  <2>3. PICK s \in a..b : s = a + (k + 1) /\ s = r + 1 /\ s # a /\ s - 1 = r
    BY <1>a, <2>2
  <2>4. f[s] = next(f[s - 1], s)
    BY <1>3, <2>3
  <2>5. f[s] = next(f[r], s)
    BY <2>3, <2>4
  <2>6. f[s] = IF (r + 1) % NumArgbCacheRows = 0 /\ r + 1 <= caller.crop_bottom
               THEN ProcessRows(f[r], r + 1) ELSE f[r]
    BY <2>3, <2>5 DEF next
  <2>7. Put(i, f[r], m, r)
    BY <2>1, <2>2
  <2> HIDE DEF b, S
  <2>8. Put(i, f[s], m, r + 1)
    BY <1>a, <2>2, <2>6, <2>7, RowIsPut
  <2> QED BY <2>3, <2>8
<1> HIDE DEF S
<1>6. n \in S
  BY <1>4, <1>5, SetInduction
<1> QED BY <1>1, <1>6 DEF S, a

-----------------------------------------------------------------------------
(* The loop over the pixels.                                                 *)
PixelFields == {"status", "last_pixel", "vp8l", "incremental", "next_sync_row",
                "saved_pos", "saved_last_pixel", "last_row", "num_rows", "last_y"}

PixBase(j, g) ==
  /\ IsIdec(j) /\ Mem(j, g) /\ Alpha(j) /\ ~IsLossy
  /\ j.dec = "lossless" /\ j.output = "set" /\ j.state = "vp8l_data"
  /\ j.buf # Null /\ j.mode # "none" /\ Pos(j) = file.payload
  /\ j.job = NoJob /\ j.had_error \in BOOLEAN /\ j.set_up = 0

PixRows(j) ==
  j.last_y \in 0..Height /\ j.last_y = j.last_row /\ j.num_rows \in 0..NumArgbCacheRows

PixReader(j) ==
  /\ j.last_pixel \in 0..Len(file.symbols)
  /\ j.vp8l = [buf |-> j.buf + j.start, len |-> j.end - j.start,
               pos |-> SymbolAt(j.last_pixel)]

(* The rows before m were decoded, those from b on since the check-point.    *)
Ahead(j, m, b) ==
  /\ b <= Row(j) /\ Row(j) <= m /\ BatchedRows(j.last_row, m)
  /\ m = Row(j) \/ m < b + SyncEveryNRows

CheckPoint(j, b) ==
  /\ j.saved_last_pixel \in 0..Len(file.symbols)
  /\ j.saved_pos = SymbolAt(j.saved_last_pixel)
  /\ b = RowAt(j.saved_last_pixel) /\ j.next_sync_row = b + SyncEveryNRows

InPixels(j, g) ==
  /\ PixBase(j, g) /\ PixRows(j) /\ PixReader(j) /\ j.status = "OK"
  /\ j.incremental => g < FileSize
  /\ j.next_sync_row \in Nat
  /\ \E m, b \in Nat :
       /\ Ahead(j, m, b)
       /\ j.incremental => j.next_sync_row <= Row(j) \/ CheckPoint(j, b)

(* The base of the loop stays when the buffer does.                          *)
LEMMA BaseIsKept ==
  ASSUME NEW i, NEW g, PixBase(i, g), NEW S, S \subseteq PixelFields,
         NEW j, Changes(i, j, S)
  PROVE  PixBase(j, g) /\ SameMem(i, j) /\ j.start = i.start
<1>1. Changes(i, j, PixelFields)
  BY DEF Changes
<1>2. IsIdec(j) /\ Mem(j, g) /\ Alpha(j) /\ Pos(j) = Pos(i)
      /\ SameMem(i, j) /\ SameAlpha(i, j) /\ j.start = i.start
  <2>1. PixelFields \cap HeldFields = {}
    BY DEF PixelFields, HeldFields
  <2>2. Mem(i, g) /\ Alpha(i) /\ i.state # "webp_header"
    BY DEF PixBase
  <2> QED BY <1>1, <2>1, <2>2, KeepsMemory
<1>3. /\ j.output = i.output /\ j.state = i.state /\ j.job = i.job
      /\ j.had_error = i.had_error /\ j.set_up = i.set_up
  BY <1>1 DEF Changes, Fields, PixelFields
<1> QED BY <1>2, <1>3 DEF PixBase, SameMem, SameAlpha

(* Back from the loop the decoder is sound.                                  *)
LEMMA PixelsAreSound ==
  ASSUME NEW j, NEW g, PixBase(j, g), PixRows(j), PixReader(j),
         \E m \in Nat : /\ Row(j) <= m /\ m - Row(j) < SyncEveryNRows
                        /\ BatchedRows(j.last_row, m)
  PROVE  Sound(j, g)
<1>1. AtPixels(j)
  BY DEF AtPixels, PixBase, PixReader
<1>2. Rows(j)
  BY DEF Rows, PixBase, PixRows
<1>3. Phase(j, g)
  BY <1>1 DEF Phase, PixBase, States
<1> QED BY <1>2, <1>3 DEF Sound, PixBase

(* SaveState keeps a place that is at most so many rows behind.              *)
LEMMA SavedFacts ==
  ASSUME Given, ~IsLossy, NEW i, NEW g, InPixels(i, g), NEW s, s = Saved(i)
  PROVE  /\ Changes(i, s, {"saved_pos", "saved_last_pixel", "next_sync_row"})
         /\ InPixels(s, g)
         /\ \E m, b \in Nat : Ahead(s, m, b) /\ (s.incremental => CheckPoint(s, b))
         /\ s.incremental => Row(s) < s.next_sync_row
<1> DEFINE S == {"saved_pos", "saved_last_pixel", "next_sync_row"}
<1>0. /\ PixBase(i, g) /\ PixRows(i) /\ PixReader(i) /\ i.status = "OK"
      /\ i.next_sync_row \in Nat
      /\ i.incremental => g < FileSize
  BY DEF InPixels
<1>1. PICK m \in Nat, b \in Nat :
        /\ Ahead(i, m, b)
        /\ i.incremental => i.next_sync_row <= Row(i) \/ CheckPoint(i, b)
  BY DEF InPixels
<1>2. Row(i) \in Nat /\ i.last_pixel \in 0..Len(file.symbols)
  BY <1>0, SymbolPlaces DEF Row, PixReader
<1>3. CASE Row(i) < i.next_sync_row \/ ~i.incremental
  <2>1. s = i
    BY <1>3 DEF Saved
  <2>2. Changes(i, s, S)
    BY <1>0, <2>1 DEF Changes, PixBase
  <2>3. s.incremental => CheckPoint(s, b)
    <3>1. Row(i) < i.next_sync_row => ~(i.next_sync_row <= Row(i))
      BY <1>0, <1>2
    <3> QED BY <1>1, <1>3, <2>1, <3>1, Zenon
  <2>4. s.incremental => Row(s) < s.next_sync_row
    BY <1>3, <2>1, Zenon
  <2> QED BY <1>1, <2>1, <2>2, <2>3, <2>4
<1>4. CASE ~(Row(i) < i.next_sync_row \/ ~i.incremental)
  <2> DEFINE n == Row(i) + SyncEveryNRows
  <2>1. s = [i EXCEPT !.saved_pos = i.vp8l.pos, !.saved_last_pixel = i.last_pixel,
                      !.next_sync_row = n]
    BY <1>4 DEF Saved
  <2>2. n = Row(i) + SyncEveryNRows
    OBVIOUS
  <2> HIDE DEF n
  <2>3. IsIdec(i)
    BY <1>0 DEF PixBase
  <2>4. Changes(i, s, S)
    BY <2>1, <2>3 DEF Changes, IsIdec
  <2>5. s.saved_pos = i.vp8l.pos /\ s.saved_last_pixel = i.last_pixel /\ s.next_sync_row = n
    BY <2>1, <2>3 DEF IsIdec, Fields
  <2>6. PixBase(s, g) /\ SameMem(i, s) /\ s.start = i.start
    <3>1. S \subseteq PixelFields
      BY DEF PixelFields
    <3> HIDE DEF S
    <3> QED BY <1>0, <2>4, <3>1, BaseIsKept
  <2>7. /\ s.last_y = i.last_y /\ s.last_row = i.last_row /\ s.num_rows = i.num_rows
        /\ s.last_pixel = i.last_pixel /\ s.vp8l = i.vp8l /\ s.status = i.status
        /\ s.incremental = i.incremental
    BY <2>4 DEF Changes, Fields
  <2>8. PixRows(s) /\ PixReader(s)
    BY <1>0, <2>6, <2>7 DEF PixRows, PixReader, SameMem
  <2>9. Row(s) = Row(i)
    BY <2>7 DEF Row
  <2>10. SyncEveryNRows \in Nat \ {0}
    BY DecoderAssumption
  <2>11. s.next_sync_row \in Nat
    BY <1>2, <2>2, <2>5, <2>10
  <2>12. Ahead(s, m, Row(i))
    <3>1. /\ b <= Row(i) /\ Row(i) <= m /\ BatchedRows(i.last_row, m)
          /\ m = Row(i) \/ m < b + SyncEveryNRows
      BY <1>1 DEF Ahead
    <3>2. m = Row(i) \/ m < Row(i) + SyncEveryNRows
      BY <1>2, <2>10, <3>1
    <3>3. Row(i) <= Row(i)
      BY <1>2
    <3> QED BY <2>7, <2>9, <3>1, <3>2, <3>3 DEF Ahead
  <2>13. CheckPoint(s, Row(i))
    <3>1. i.vp8l.pos = SymbolAt(i.last_pixel)
      BY <1>0 DEF PixReader
    <3> QED BY <1>2, <2>2, <2>5, <3>1 DEF CheckPoint, Row
  <2>14. \E k, c \in Nat : Ahead(s, k, c) /\ (s.incremental => CheckPoint(s, c))
    BY <1>2, <2>12, <2>13
  <2>15. s.incremental => g < FileSize
    BY <1>0, <2>7
  <2>16. InPixels(s, g)
    BY <1>0, <1>2, <2>6, <2>7, <2>8, <2>11, <2>12, <2>13, <2>15 DEF InPixels
  <2>17. Row(s) < s.next_sync_row
    BY <1>2, <2>2, <2>5, <2>9, <2>10
  <2> QED BY <2>4, <2>14, <2>16, <2>17
<1> QED BY <1>3, <1>4

(* Having left the pixels.                                                   *)
Gone(i, j, g) ==
  /\ Sound(j, g) /\ Ended(j, g) /\ j.state \in {"vp8l_data", "error"}
  /\ j.last_y \in Nat /\ i.last_y <= j.last_y

(* RestoreState: back to the check-point, with no row lost or put out twice. *)
LEMMA RestoredIsSound ==
  ASSUME Given, ~IsLossy, NEW i, NEW g, InPixels(i, g), i.incremental,
         \E m, b \in Nat : Ahead(i, m, b) /\ CheckPoint(i, b),
         Row(i) < i.next_sync_row, NEW j, j = RestoreState(i)
  PROVE  Gone(i, j, g)
<1> DEFINE S == {"vp8l", "last_pixel", "status"}
           v == [i.vp8l EXCEPT !.pos = i.saved_pos]
<1>0. /\ PixBase(i, g) /\ PixRows(i) /\ PixReader(i) /\ g < FileSize
  BY DEF InPixels
<1>1. PICK m \in Nat, b \in Nat : Ahead(i, m, b) /\ CheckPoint(i, b)
  OBVIOUS
<1>2. v = [buf |-> i.buf + i.start, len |-> i.end - i.start, pos |-> i.saved_pos]
  BY <1>0 DEF PixReader
<1>3. j = [i EXCEPT !.vp8l = v, !.last_pixel = i.saved_last_pixel,
                    !.status = "SUSPENDED"]
  BY DEF RestoreState
<1> HIDE DEF v
<1>4. IsIdec(i)
  BY <1>0 DEF PixBase
<1>5. Changes(i, j, S)
  BY <1>3, <1>4 DEF Changes, IsIdec
<1>6. j.vp8l = v /\ j.last_pixel = i.saved_last_pixel /\ j.status = "SUSPENDED"
  BY <1>3, <1>4 DEF IsIdec, Fields
<1>7. PixBase(j, g) /\ SameMem(i, j) /\ j.start = i.start
  <2>1. S \subseteq PixelFields
    BY DEF PixelFields
  <2> HIDE DEF S
  <2> QED BY <1>0, <1>5, <2>1, BaseIsKept
<1>8. j.last_y = i.last_y /\ j.last_row = i.last_row /\ j.num_rows = i.num_rows
  BY <1>5 DEF Changes, Fields
<1>9. PixRows(j)
  BY <1>0, <1>8 DEF PixRows
<1>10. PixReader(j)
  BY <1>1, <1>2, <1>6, <1>7 DEF PixReader, CheckPoint, SameMem
<1>11. Row(j) = b /\ Row(i) \in Nat /\ SyncEveryNRows \in Nat \ {0}
  <2>1. SyncEveryNRows \in Nat \ {0}
    BY DecoderAssumption
  <2>2. Row(i) \in Nat
    BY <1>0, SymbolPlaces DEF Row, PixReader
  <2> QED BY <1>1, <1>6, <2>1, <2>2 DEF CheckPoint, Row
<1>12. Row(j) <= m /\ m - Row(j) < SyncEveryNRows /\ BatchedRows(j.last_row, m)
  <2>1. /\ b <= Row(i) /\ Row(i) <= m /\ BatchedRows(i.last_row, m)
        /\ m = Row(i) \/ m < b + SyncEveryNRows
    BY <1>1 DEF Ahead
  <2>2. Row(i) < b + SyncEveryNRows
    <3>1. i.next_sync_row = b + SyncEveryNRows
      BY <1>1 DEF CheckPoint
    <3> QED BY <1>11, <2>1, <3>1
  <2> QED BY <1>8, <1>11, <2>1, <2>2
<1>13. Sound(j, g)
  BY <1>7, <1>9, <1>10, <1>12, PixelsAreSound
<1>14. j.state = "vp8l_data"
  BY <1>7 DEF PixBase
<1>15. Ended(j, g)
  BY <1>0, <1>6, <1>14 DEF Ended, Statuses
<1>16. j.last_y \in Nat /\ i.last_y <= j.last_y
  <2>1. Height \in Nat
    BY LosslessFacts
  <2> QED BY <1>0, <1>8, <2>1 DEF PixRows
<1> QED BY <1>13, <1>14, <1>15, <1>16 DEF Gone

(* A symbol is read whole, or waited for.                                    *)
LEMMA SymbolIsSound ==
  ASSUME Given, ~IsLossy, NEW i, NEW g, InPixels(i, g),
         Row(i) < caller.crop_bottom, NEW j, j = NextSymbol(i)
  PROVE  \/ Gone(i, j, g)
         \/ InPixels(j, g) /\ i.last_y <= j.last_y /\ j.last_pixel = i.last_pixel + 1
<1> DEFINE s == Saved(i)
           p == s.last_pixel
           symbol == file.symbols[p + 1]
           r == Row(s) + symbol.rows
           x == Batches(s, r)
           v == [x.vp8l EXCEPT !.pos = @ + symbol.cost]
           q == x.last_pixel + 1
<1>j. j = IF s.vp8l.pos + symbol.cost > s.vp8l.len
          THEN IF s.incremental THEN RestoreState(s) ELSE IDecError(s, "BITSTREAM_ERROR")
          ELSE [x EXCEPT !.last_pixel = @ + 1, !.vp8l.pos = @ + symbol.cost]
  BY DEF NextSymbol
<1>1. /\ Changes(i, s, {"saved_pos", "saved_last_pixel", "next_sync_row"})
      /\ InPixels(s, g)
      /\ \E m, b \in Nat : Ahead(s, m, b) /\ (s.incremental => CheckPoint(s, b))
      /\ s.incremental => Row(s) < s.next_sync_row
  BY SavedFacts
<1> HIDE DEF s
<1>2. s.last_pixel = i.last_pixel /\ s.last_y = i.last_y
  BY <1>1 DEF Changes, Fields
<1>3. /\ PixBase(s, g) /\ PixRows(s) /\ PixReader(s) /\ s.status = "OK"
      /\ s.next_sync_row \in Nat
      /\ s.incremental => g < FileSize
  BY <1>1 DEF InPixels
<1>4. PICK m \in Nat, b \in Nat : Ahead(s, m, b) /\ (s.incremental => CheckPoint(s, b))
  BY <1>1
<1>5. /\ IsIdec(s) /\ Mem(s, g) /\ Alpha(s) /\ s.dec = "lossless"
      /\ s.state = "vp8l_data"
  BY <1>3 DEF PixBase
<1>6. /\ Height = caller.crop_bottom /\ caller.crop_bottom \in Nat
      /\ caller.crop_bottom <= RowAt(Len(file.symbols)) /\ Len(file.symbols) \in Nat
  BY LosslessFacts
<1>7. s.last_y \in Nat /\ s.last_y = s.last_row /\ s.num_rows \in 0..NumArgbCacheRows
  BY <1>3, <1>6 DEF PixRows
<1>8. /\ p \in 0..Len(file.symbols) - 1 /\ Row(s) = RowAt(p) /\ RowAt(p) \in Nat
  <2>1. p \in 0..Len(file.symbols)
    BY <1>3 DEF PixReader
  <2>2. Row(s) = Row(i) /\ Row(s) = RowAt(p)
    BY <1>2 DEF Row
  <2>3. RowAt(p) \in Nat
    BY <2>1, SymbolPlaces
  <2>4. p # Len(file.symbols)
    <3> SUFFICES ASSUME p = Len(file.symbols) PROVE FALSE
      OBVIOUS
    <3>1. RowAt(p) < caller.crop_bottom /\ caller.crop_bottom <= RowAt(p)
      BY <1>6, <2>2
    <3> QED BY <1>6, <2>3, <3>1
  <2> QED BY <1>6, <2>1, <2>2, <2>3, <2>4
<1>9. /\ SymbolAt(p + 1) = SymbolAt(p) + symbol.cost
      /\ RowAt(p + 1) = RowAt(p) + symbol.rows
      /\ symbol.cost \in Nat /\ symbol.rows \in Nat
  BY <1>8, SymbolPlaces
<1> HIDE DEF symbol
<1>10. CASE s.vp8l.pos + symbol.cost > s.vp8l.len
  <2>1. CASE s.incremental
    <3>1. j = RestoreState(s)
      BY <1>10, <1>j, <2>1
    <3>2. Ahead(s, m, b) /\ CheckPoint(s, b) /\ Row(s) < s.next_sync_row
      BY <1>1, <1>4, <2>1, Zenon
    <3>3. Gone(s, j, g)
      BY <1>1, <2>1, <3>1, <3>2, RestoredIsSound
    <3> QED BY <1>2, <3>3 DEF Gone
  <2>2. CASE ~s.incremental
    <3>1. j = IDecError(s, "BITSTREAM_ERROR")
      BY <1>10, <1>j, <2>2
    <3>2. Rows(s)
      BY <1>3 DEF Rows, PixBase, PixRows
    <3>3. /\ Sound(j, g) /\ Ended(j, g) /\ j.state = "error" /\ j.last_y = s.last_y
      <4>1. "BITSTREAM_ERROR" \in Statuses \ {"OK", "SUSPENDED"}
        BY DEF Statuses
      <4>2. s.state # "vp8_data" /\ (s.state = "webp_header" => s.dec = "none")
        BY <1>5
      <4> QED BY <1>5, <3>1, <3>2, <4>1, <4>2, ErrorIsSound
    <3>4. i.last_y <= j.last_y /\ j.last_y \in Nat
      BY <1>2, <1>7, <3>3
    <3> QED BY <3>3, <3>4 DEF Gone
  <2> QED BY <2>1, <2>2
<1>11. CASE ~(s.vp8l.pos + symbol.cost > s.vp8l.len)
  <2>0. SyncEveryNRows \in Nat /\ NumArgbCacheRows \in Nat
        /\ SyncEveryNRows <= NumArgbCacheRows
    BY DecoderAssumption
  <2>1. /\ b <= Row(s) /\ Row(s) <= m /\ BatchedRows(s.last_row, m)
        /\ m = Row(s) \/ m < b + SyncEveryNRows
    BY <1>4 DEF Ahead
  <2>2. Put(s, x, m, r)
    <3>1. Row(s) \in Nat
      BY <1>8
    <3>2. m = Row(s) \/ m < Row(s) + NumArgbCacheRows
      BY <2>0, <2>1, <3>1
    <3> HIDE DEF p
    <3> QED BY <1>5, <1>7, <1>9, <2>1, <3>1, <3>2, BatchesFacts
  <2>3. /\ Changes(s, x, BatchFields) /\ IsIdec(x)
        /\ x.last_y = x.last_row /\ x.num_rows \in 0..NumArgbCacheRows
        /\ s.last_y <= x.last_y /\ BatchedRows(x.last_row, Upto(m, r))
    BY <2>2 DEF Put, Changes
  <2>4. r \in Nat /\ r = RowAt(p + 1) /\ Row(s) <= r
    BY <1>8, <1>9
  <2> HIDE DEF x
  <2>5. j = [x EXCEPT !.last_pixel = q, !.vp8l = v]
    BY <1>11, <1>j
  <2>6. /\ x.last_pixel = s.last_pixel /\ x.vp8l = s.vp8l /\ x.status = s.status
        /\ x.incremental = s.incremental /\ x.next_sync_row = s.next_sync_row
    BY <2>3 DEF Changes, Fields, BatchFields
  <2>7. x.saved_pos = s.saved_pos /\ x.saved_last_pixel = s.saved_last_pixel
    BY <2>3 DEF Changes, Fields, BatchFields
  <2>8. q = p + 1
    BY <2>6
  <2>9. v = [buf |-> s.buf + s.start, len |-> s.end - s.start, pos |-> SymbolAt(p + 1)]
    <3>1. x.vp8l = [buf |-> s.buf + s.start, len |-> s.end - s.start, pos |-> SymbolAt(p)]
      BY <1>3, <2>6 DEF PixReader
    <3> QED BY <1>9, <3>1
  <2> HIDE DEF v, q, r
  <2>10. Changes(x, j, {"last_pixel", "vp8l"})
    BY <2>3, <2>5 DEF Changes, IsIdec
  <2>11. j.last_pixel = q /\ j.vp8l = v
    BY <2>3, <2>5 DEF IsIdec, Fields
  <2>12. Changes(s, j, {"last_pixel", "vp8l"} \union BatchFields)
    BY <2>3, <2>10 DEF Changes
  <2>13. PixBase(j, g) /\ SameMem(s, j) /\ j.start = s.start
    <3>1. {"last_pixel", "vp8l"} \union BatchFields \subseteq PixelFields
      BY DEF BatchFields, PixelFields
    <3> QED BY <1>3, <2>12, <3>1, BaseIsKept
  <2>14. /\ j.last_y = x.last_y /\ j.last_row = x.last_row /\ j.num_rows = x.num_rows
         /\ j.status = x.status /\ j.incremental = x.incremental
    BY <2>10 DEF Changes, Fields
  <2>15. /\ j.next_sync_row = x.next_sync_row /\ j.saved_pos = x.saved_pos
         /\ j.saved_last_pixel = x.saved_last_pixel
    BY <2>10 DEF Changes, Fields
  <2>16. j.last_y \in 0..Height
    <3>1. Upto(m, r) \in Nat
      BY <2>4 DEF Upto
    <3>2. x.last_row \in Nat /\ x.last_row <= caller.crop_bottom
      BY <2>3, <3>1, BatchFacts
    <3> QED BY <1>6, <2>3, <2>14, <3>2
  <2>17. PixRows(j)
    BY <2>3, <2>14, <2>16 DEF PixRows
  <2>18. PixReader(j)
    <3>1. p + 1 \in 0..Len(file.symbols)
      BY <1>6, <1>8
    <3> QED BY <2>8, <2>9, <2>11, <2>13, <3>1 DEF PixReader, SameMem
  <2>19. Row(j) = r
    BY <2>4, <2>8, <2>11 DEF Row
  <2>20. Ahead(j, Upto(m, r), b) /\ Upto(m, r) \in Nat
    <3>1. /\ Upto(m, r) \in Nat /\ r <= Upto(m, r) /\ b <= r
          /\ Upto(m, r) = r \/ Upto(m, r) < b + SyncEveryNRows
      <4>1. Row(s) \in Nat
        BY <1>8
      <4> QED BY <2>0, <2>1, <2>4, <4>1 DEF Upto
    <3> QED BY <2>3, <2>14, <2>19, <3>1 DEF Ahead
  <2>21. j.incremental => CheckPoint(j, b)
    <3>1. CheckPoint(s, b) => CheckPoint(j, b)
      BY <2>6, <2>7, <2>15 DEF CheckPoint
    <3>2. j.incremental = s.incremental
      BY <2>6, <2>14
    <3> QED BY <1>4, <3>1, <3>2, Zenon
  <2>22. /\ j.status = "OK" /\ j.next_sync_row \in Nat
         /\ j.incremental => g < FileSize
    BY <1>3, <2>6, <2>14, <2>15
  <2>23. InPixels(j, g)
    BY <2>13, <2>17, <2>18, <2>20, <2>21, <2>22 DEF InPixels
  <2>24. i.last_y <= j.last_y
    BY <1>2, <2>3, <2>14
  <2> QED BY <1>2, <2>8, <2>11, <2>23, <2>24
<1> QED BY <1>10, <1>11

PixelRounds(i, f, m) ==
  f = [n \in 0..m |->
         IF n = 0 THEN i
         ELSE LET j == f[n - 1]
              IN IF j.status = "OK" /\ Row(j) < caller.crop_bottom
                 THEN NextSymbol(j) ELSE j]

(* The recursive function of DecodeVP8LData is one.                          *)
LEMMA PixelRoundsExist == ASSUME NEW i PROVE \A m \in Nat : \E f : PixelRounds(i, f, m)
<1> DEFINE S == {m \in Nat : \E f : PixelRounds(i, f, m)}
           next(j) == IF j.status = "OK" /\ Row(j) < caller.crop_bottom
                      THEN NextSymbol(j) ELSE j
<1>0. \A f, m : PixelRounds(i, f, m)
                  <=> f = [n \in 0..m |-> IF n = 0 THEN i ELSE next(f[n - 1])]
  BY DEF PixelRounds
<1> HIDE DEF next
<1>1. 0 \in S
  <2>1. [n \in 0..0 |-> i] = [n \in 0..0 |-> IF n = 0 THEN i ELSE next([m \in 0..0 |-> i][n - 1])]
    OBVIOUS
  <2> QED BY <1>0, <2>1
<1>2. ASSUME NEW m \in Nat, m \in S PROVE m + 1 \in S
  <2>1. PICK f : PixelRounds(i, f, m)
    BY <1>2
  <2>2. f = [n \in 0..m |-> IF n = 0 THEN i ELSE next(f[n - 1])]
    BY <1>0, <2>1
  <2> DEFINE h == [n \in 0..m + 1 |-> IF n <= m THEN f[n] ELSE next(f[m])]
  <2>3. ASSUME NEW n \in 0..m + 1 PROVE h[n] = IF n = 0 THEN i ELSE next(h[n - 1])
    <3>1. CASE n = 0
      BY <2>2, <3>1
    <3>2. CASE n # 0 /\ n <= m
      <4>1. n \in 0..m /\ n - 1 \in 0..m
        BY <3>2
      <4>2. f[n] = next(f[n - 1])
        BY <2>2, <3>2, <4>1
      <4>3. h[n] = f[n] /\ h[n - 1] = f[n - 1]
        BY <3>2, <4>1
      <4> QED BY <3>2, <4>2, <4>3
    <3>3. CASE n = m + 1
      <4>1. n - 1 = m /\ ~(n <= m) /\ n # 0 /\ m \in 0..m + 1
        BY <3>3
      <4>2. h[n] = next(f[m]) /\ h[m] = f[m]
        BY <4>1
      <4> QED BY <4>1, <4>2
    <3> QED BY <3>1, <3>2, <3>3
  <2>4. h = [n \in 0..m + 1 |-> IF n = 0 THEN i ELSE next(h[n - 1])]
    BY <2>3
  <2> HIDE DEF h
  <2>5. PixelRounds(i, h, m + 1)
    BY <1>0, <2>4
  <2> QED BY <2>5
<1> HIDE DEF S
<1>3. Nat \subseteq S
  BY <1>1, <1>2, SetInduction
<1> QED BY <1>3 DEF S

(* After n symbols, or with all the rows that are asked for.                 *)
AfterSymbols(i, j, n, g) ==
  \/ Gone(i, j, g)
  \/ /\ InPixels(j, g) /\ i.last_y <= j.last_y
     /\ j.last_pixel >= n \/ ~(Row(j) < caller.crop_bottom)

(* Every symbol that is read leaves the loop's invariant, and one that is    *)
(* not goes back to the check-point.                                         *)
LEMMA PixelRoundsAreSound ==
  ASSUME Given, ~IsLossy, NEW i, NEW g, InPixels(i, g),
         NEW f, PixelRounds(i, f, Len(file.symbols))
  PROVE  \A n \in 0..Len(file.symbols) : AfterSymbols(i, f[n], n, g)
<1> DEFINE K == Len(file.symbols)
           S == {n \in Nat : n <= K => AfterSymbols(i, f[n], n, g)}
           next(j) == IF j.status = "OK" /\ Row(j) < caller.crop_bottom
                      THEN NextSymbol(j) ELSE j
<1>1. K \in Nat /\ Height \in Nat
  BY LosslessFacts
<1>2. f = [n \in 0..K |-> IF n = 0 THEN i ELSE next(f[n - 1])]
  BY DEF PixelRounds
<1> HIDE DEF K, next
<1>3. f[0] = i
  BY <1>1, <1>2
<1>4. ASSUME NEW n \in Nat, n + 1 <= K PROVE f[n + 1] = next(f[n])
  <2>1. PICK m \in 0..K : m = n + 1 /\ m # 0 /\ m - 1 = n
    BY <1>1, <1>4
  <2>2. f[m] = next(f[m - 1])
    BY <1>2, <2>1
  <2> QED BY <2>1, <2>2
<1>5. 0 \in S
  <2>1. i.last_y \in Nat /\ i.last_pixel \in Nat
    BY <1>1 DEF InPixels, PixRows, PixReader
  <2>2. i.last_y <= i.last_y /\ i.last_pixel >= 0
    BY <2>1
  <2>3. AfterSymbols(i, i, 0, g)
    BY <2>2 DEF AfterSymbols
  <2> QED BY <1>3, <2>3
<1>6. ASSUME NEW n \in Nat, n \in S PROVE n + 1 \in S
  <2> SUFFICES ASSUME n + 1 <= K PROVE AfterSymbols(i, f[n + 1], n + 1, g)
    OBVIOUS
  <2> DEFINE x == f[n]
             y == f[n + 1]
  <2>1. AfterSymbols(i, x, n, g)
    BY <1>1, <1>6
  <2>2. y = next(x)
    BY <1>4
  <2> HIDE DEF S, x, y
  <2>3. CASE Gone(i, x, g)
    <3>1. x.status # "OK"
      BY <2>3 DEF Gone, Ended
    <3>2. y = x
      BY <2>2, <3>1 DEF next
    <3> QED BY <2>3, <3>2 DEF AfterSymbols, x, y
  <2>4. CASE /\ InPixels(x, g) /\ i.last_y <= x.last_y
             /\ x.last_pixel >= n \/ ~(Row(x) < caller.crop_bottom)
    <3>1. x.status = "OK" /\ x.last_y \in Nat /\ x.last_pixel \in Nat /\ i.last_y \in Nat
      BY <1>1, <2>4 DEF InPixels, PixRows, PixReader
    <3>2. CASE Row(x) < caller.crop_bottom
      <4>1. y = NextSymbol(x)
        BY <2>2, <3>1, <3>2 DEF next
      <4>2. \/ Gone(x, y, g)
            \/ InPixels(y, g) /\ x.last_y <= y.last_y /\ y.last_pixel = x.last_pixel + 1
        BY <2>4, <3>2, <4>1, SymbolIsSound
      <4>3. CASE Gone(x, y, g)
        <5>1. y.last_y \in Nat /\ x.last_y <= y.last_y
          BY <4>3 DEF Gone
        <5>2. i.last_y <= y.last_y
          BY <2>4, <3>1, <5>1
        <5> QED BY <4>3, <5>2 DEF Gone, AfterSymbols, y
      <4>4. CASE InPixels(y, g) /\ x.last_y <= y.last_y /\ y.last_pixel = x.last_pixel + 1
        <5>1. y.last_y \in Nat
          BY <1>1, <4>4 DEF InPixels, PixRows
        <5>2. i.last_y <= y.last_y /\ y.last_pixel >= n + 1
          BY <2>4, <3>1, <3>2, <4>4, <5>1
        <5> QED BY <4>4, <5>2 DEF AfterSymbols, y
      <4> QED BY <4>2, <4>3, <4>4
    <3>3. CASE ~(Row(x) < caller.crop_bottom)
      <4>1. y = x
        BY <2>2, <3>3 DEF next
      <4> QED BY <2>4, <3>3, <4>1 DEF AfterSymbols, x, y
    <3> QED BY <3>2, <3>3
  <2> QED BY <2>1, <2>3, <2>4 DEF AfterSymbols
<1> HIDE DEF S
<1>7. Nat \subseteq S
  BY <1>5, <1>6, SetInduction
<1>8. \A n \in 0..K : AfterSymbols(i, f[n], n, g)
  BY <1>1, <1>7 DEF S
<1> QED BY <1>8 DEF K

(* A call takes up where the last one left.                                  *)
LEMMA BegunIsInPixels ==
  ASSUME Given, NEW i, NEW g, Sound(i, g), i.state = "vp8l_data",
         NEW j, j = [i EXCEPT !.incremental = MemDataSize(i) < ChunkBytes,
                              !.next_sync_row = Row(i), !.status = "OK"]
  PROVE  InPixels(j, g) /\ j.last_y = i.last_y
<1> DEFINE inc == MemDataSize(i) < ChunkBytes
           row == Row(i)
           S == {"incremental", "next_sync_row", "status"}
<1>0. /\ IsIdec(i) /\ Mem(i, g) /\ Alpha(i) /\ Rows(i) /\ AtPixels(i)
  BY DEF Sound, Phase
<1>1. /\ PixBase(i, g) /\ PixRows(i) /\ PixReader(i)
  BY <1>0 DEF AtPixels, Rows, PixBase, PixRows, PixReader
<1>2. ~IsLossy
  BY <1>0 DEF AtPixels
<1>3. row \in Nat
  BY <1>1, <1>2, SymbolPlaces DEF Row, PixReader
<1>4. inc => g < FileSize
  <2>1. /\ MemDataSize(i) = i.end - i.start /\ ChunkBytes = FileSize - file.payload
        /\ i.first + i.start = file.payload /\ i.first + i.end = g
        /\ i.end \in Nat /\ i.start \in Nat /\ i.first \in Nat
    BY <1>1 DEF MemDataSize, ChunkBytes, PixBase, Mem, Pos
  <2>2. FileSize \in Nat /\ file.payload \in Nat
    BY SizeFacts
  <2>3. i.end - i.start = g - file.payload /\ g \in Nat
    BY <2>1
  <2> QED BY <2>1, <2>2, <2>3
<1>5. j = [i EXCEPT !.incremental = inc, !.next_sync_row = row, !.status = "OK"]
  OBVIOUS
<1>6. row = Row(i)
  OBVIOUS
<1> HIDE DEF inc, row
<1>7. Changes(i, j, S)
  BY <1>0, <1>5 DEF Changes, IsIdec
<1>8. j.incremental = inc /\ j.next_sync_row = row /\ j.status = "OK"
  BY <1>0, <1>5, FieldNames DEF IsIdec
<1>9. PixBase(j, g) /\ SameMem(i, j) /\ j.start = i.start
  <2>1. S \subseteq PixelFields
    BY DEF PixelFields
  <2> HIDE DEF S
  <2> QED BY <1>1, <1>7, <2>1, BaseIsKept
<1>10. /\ j.last_y = i.last_y /\ j.last_row = i.last_row /\ j.num_rows = i.num_rows
       /\ j.last_pixel = i.last_pixel /\ j.vp8l = i.vp8l
  BY <1>7 DEF Changes, Fields
<1>11. PixRows(j) /\ PixReader(j)
  BY <1>1, <1>9, <1>10 DEF PixRows, PixReader, SameMem
<1>12. Row(j) = row
  BY <1>6, <1>10 DEF Row
<1>13. PICK m \in Nat : /\ row <= m /\ m - row < SyncEveryNRows
                        /\ BatchedRows(i.last_row, m)
  BY <1>0, <1>6 DEF AtPixels
<1>14. Ahead(j, m, row)
  <2>1. SyncEveryNRows \in Nat
    BY DecoderAssumption
  <2>2. m < row + SyncEveryNRows /\ row <= row
    BY <1>3, <1>13, <2>1
  <2> QED BY <1>10, <1>12, <1>13, <2>2 DEF Ahead
<1>15. j.next_sync_row <= Row(j)
  BY <1>3, <1>8, <1>12
<1>16. j.incremental => g < FileSize
  BY <1>4, <1>8
<1> QED BY <1>3, <1>8, <1>9, <1>10, <1>11, <1>14, <1>15, <1>16 DEF InPixels

(* DecodeVP8LData: sound when it comes back, and with all rows out when it   *)
(* has finished.                                                             *)
LEMMA PixelDataIsSound ==
  ASSUME Given, NEW i, NEW g, Sound(i, g), i.state = "vp8l_data",
         NEW j, j = DecodeVP8LData(i)
  PROVE  Sound(j, g) /\ Ended(j, g) /\ j.last_y \in Nat /\ i.last_y <= j.last_y
<1> DEFINE begun == [i EXCEPT !.incremental = MemDataSize(i) < ChunkBytes,
                              !.next_sync_row = Row(i), !.status = "OK"]
           K == Len(file.symbols)
           f == CHOOSE f : PixelRounds(begun, f, K)
           last == f[K]
           x == ProcessRows(last, caller.crop_bottom)
<1>j. j = IF i.fault = "init" THEN IDecError(i, "OUT_OF_MEMORY")
          ELSE IF last.status # "OK" THEN last
          ELSE FinishDecoding(x)
  BY DEF DecodeVP8LData, PixelRounds
<1>0. IsIdec(i) /\ Mem(i, g) /\ Alpha(i) /\ Rows(i) /\ AtPixels(i) /\ ~IsLossy
  BY DEF Sound, Phase, AtPixels
<1>1. /\ Height = caller.crop_bottom /\ caller.crop_bottom \in Nat /\ K \in Nat
      /\ caller.crop_bottom <= RowAt(K)
  BY <1>0, LosslessFacts
<1>2. i.last_y \in Nat
  BY <1>0, <1>1 DEF Rows
<1>3. InPixels(begun, g) /\ begun.last_y = i.last_y
  BY BegunIsInPixels
<1> HIDE DEF begun
<1>4. PixelRounds(begun, f, K)
  BY <1>1, PixelRoundsExist
<1> HIDE DEF f
<1>5. AfterSymbols(begun, last, K, g)
  <2>1. \A n \in 0..K : AfterSymbols(begun, f[n], n, g)
    BY <1>0, <1>3, <1>4, PixelRoundsAreSound
  <2> HIDE DEF K
  <2> QED BY <1>1, <2>1
<1> HIDE DEF last
<1>6. CASE i.fault = "init"
  <2>1. j = IDecError(i, "OUT_OF_MEMORY")
    BY <1>6, <1>j
  <2>2. /\ Sound(j, g) /\ Ended(j, g) /\ j.last_y = i.last_y
    <3>1. "OUT_OF_MEMORY" \in Statuses \ {"OK", "SUSPENDED"}
      BY DEF Statuses
    <3> QED BY <1>0, <2>1, <3>1, ErrorIsSound
  <2> QED BY <1>2, <2>2
<1>7. CASE i.fault # "init" /\ Gone(begun, last, g)
  <2>1. last.status # "OK"
    BY <1>7 DEF Gone, Ended
  <2>2. j = last
    BY <1>7, <1>j, <2>1
  <2> QED BY <1>3, <1>7, <2>2 DEF Gone
<1>8. CASE /\ i.fault # "init" /\ InPixels(last, g) /\ begun.last_y <= last.last_y
           /\ last.last_pixel >= K \/ ~(Row(last) < caller.crop_bottom)
  <2>1. /\ PixBase(last, g) /\ PixRows(last) /\ PixReader(last) /\ last.status = "OK"
    BY <1>8 DEF InPixels
  <2>2. j = FinishDecoding(x)
    BY <1>8, <1>j, <2>1
  <2>3. PICK m \in Nat : Row(last) <= m /\ BatchedRows(last.last_row, m)
    BY <1>8 DEF InPixels, Ahead
  <2>4. Row(last) \in Nat /\ caller.crop_bottom <= m
    <3>1. last.last_pixel \in 0..K /\ Row(last) = RowAt(last.last_pixel)
      BY <2>1 DEF PixReader, Row
    <3>2. Row(last) \in Nat
      BY <1>0, <3>1, SymbolPlaces
    <3> HIDE DEF K
    <3>3. caller.crop_bottom <= Row(last)
      <4>1. CASE last.last_pixel >= K
        <5>1. last.last_pixel = K
          BY <1>1, <3>1, <4>1
        <5> QED BY <1>1, <3>1, <5>1
      <4>2. CASE ~(Row(last) < caller.crop_bottom)
        BY <1>1, <3>2, <4>2
      <4> QED BY <1>8, <4>1, <4>2
    <3> QED BY <1>1, <2>3, <3>2, <3>3
  <2>5. /\ last.last_row \in Nat /\ last.last_row <= caller.crop_bottom
        /\ caller.crop_bottom < last.last_row + NumArgbCacheRows
        /\ NumArgbCacheRows \in Nat
    <3>1. ~(m < caller.crop_bottom)
      BY <1>1, <2>4
    <3> QED BY <1>0, <2>3, <3>1, BatchFacts
  <2>6. IsIdec(last) /\ last.last_y = last.last_row
    BY <2>1 DEF PixBase, PixRows
  <2>7. /\ Changes(last, x, BatchFields)
        /\ x.last_row = caller.crop_bottom /\ x.num_rows = caller.crop_bottom - last.last_row
        /\ x.last_y = IF caller.crop_bottom - last.last_row > 0
                      THEN last.last_y + (caller.crop_bottom - last.last_row)
                      ELSE last.last_y
    BY <2>6, ProcessRowsFacts
  <2> HIDE DEF x
  <2>8. x.last_y = caller.crop_bottom /\ x.num_rows \in 0..NumArgbCacheRows
    BY <1>1, <2>5, <2>6, <2>7
  <2>9. PixBase(x, g)
    <3>1. BatchFields \subseteq PixelFields
      BY DEF BatchFields, PixelFields
    <3> QED BY <2>1, <2>7, <3>1, BaseIsKept
  <2>10. /\ IsIdec(x) /\ Mem(x, g) /\ Alpha(x) /\ x.state # "webp_header"
         /\ x.job = NoJob /\ x.had_error \in BOOLEAN /\ x.set_up = 0
    BY <2>9 DEF PixBase
  <2>11. Sound(j, g) /\ Ended(j, g) /\ j.last_y = x.last_y
    BY <1>1, <2>2, <2>7, <2>8, <2>10, FinishIsSound
  <2>12. i.last_y <= j.last_y
    BY <1>1, <1>2, <1>3, <1>8, <2>5, <2>6, <2>8, <2>11
  <2> QED BY <1>1, <2>8, <2>11, <2>12
<1> QED BY <1>5, <1>6, <1>7, <1>8 DEF AfterSymbols

-----------------------------------------------------------------------------
(* A call goes through the states of the decoder.                            *)
LEMMA RowsOfSound ==
  ASSUME Given, NEW i, NEW g, Sound(i, g)
  PROVE  Height \in Nat \ {0} /\ i.last_y \in 0..Height /\ i.state \in States
<1>1. Height \in Nat \ {0}
  BY LossyFacts, LosslessFacts
<1> QED BY <1>1 DEF Sound, Rows, Phase

(* IDecode: its states one after another keep the decoder sound; it waits    *)
(* only while the file is not all there, and is done only with all rows.     *)
LEMMA IDecodeIsSound ==
  ASSUME Given, NEW i, NEW g, Sound(i, g), i.state \notin {"done", "error"},
         NEW j, j = IDecode(i)
  PROVE  /\ Sound(j, g) /\ Ended(j, g)
         /\ j.last_y \in i.last_y..Height
<1> DEFINE a == IF i.state = "webp_header" THEN DecodeWebPHeaders(i) ELSE i
           b == IF a.state = "vp8_header" THEN DecodeVP8FrameHeader(a) ELSE a
           c == IF b.state = "vp8_parts0" THEN DecodePartition0(b) ELSE b
           d == IF c.state = "vp8_data" THEN DecodeRemaining([c EXCEPT !.status = "OK"])
                ELSE c
           e == IF d.state = "vp8l_header" THEN DecodeVP8LHeader(d) ELSE d
<1>j. j = IF e.state = "vp8l_data" THEN DecodeVP8LData(e) ELSE e
  BY DEF IDecode
<1>0. i.state \in States /\ i.last_y \in Nat
  BY RowsOfSound
<1>1. /\ Sound(a, g) /\ a.last_y = i.last_y
      /\ \/ Ended(a, g) /\ a.state \in {"webp_header", "error"}
         \/ a.state \in {"vp8_header", "vp8_parts0", "vp8_data", "vp8l_header", "vp8l_data"}
  <2>1. CASE i.state = "webp_header"
    BY <2>1, WebPHeadersAreSound
  <2>2. CASE i.state # "webp_header"
    BY <1>0, <2>2 DEF States
  <2> QED BY <2>1, <2>2
<1> HIDE DEF a
<1>2. /\ Sound(b, g) /\ b.last_y = i.last_y
      /\ \/ Ended(b, g) /\ b.state \in {"webp_header", "vp8_header", "error"}
         \/ b.state \in {"vp8_parts0", "vp8_data", "vp8l_header", "vp8l_data"}
  <2>1. CASE a.state = "vp8_header"
    BY <1>1, <2>1, FrameHeaderIsSound
  <2>2. CASE a.state # "vp8_header"
    BY <1>1, <2>2
  <2> QED BY <2>1, <2>2
<1> HIDE DEF b
<1>3. /\ Sound(c, g) /\ c.last_y = i.last_y
      /\ \/ Ended(c, g) /\ c.state \in {"webp_header", "vp8_header", "vp8_parts0", "error"}
         \/ c.state \in {"vp8_data", "vp8l_header", "vp8l_data"}
  <2>1. CASE b.state = "vp8_parts0"
    BY <1>2, <2>1, Partition0IsSound
  <2>2. CASE b.state # "vp8_parts0"
    BY <1>2, <2>2
  <2> QED BY <2>1, <2>2
<1> HIDE DEF c
<1>4. /\ Sound(d, g) /\ i.last_y <= d.last_y
      /\ \/ /\ Ended(d, g)
            /\ d.state \notin {"vp8l_header", "vp8l_data"}
         \/ d.state \in {"vp8l_header", "vp8l_data"}
  <2>1. CASE c.state = "vp8_data"
    <3> DEFINE k == [c EXCEPT !.status = "OK"]
    <3>1. Sound(k, g) /\ k.status = "OK" /\ k.state = c.state /\ k.last_y = c.last_y
      BY <1>3, StatusIsSound
    <3>2. d = DecodeRemaining(k)
      BY <2>1
    <3> HIDE DEF k, d
    <3>3. Within(k, g)
      BY <2>1, <3>1, EntersWithin
    <3>4. /\ Sound(d, g) /\ Ended(d, g) /\ d.last_y \in Nat /\ k.last_y <= d.last_y
          /\ d.state \in {"vp8_data", "done", "error"}
      BY <3>2, <3>3, RemainingIsSound
    <3> QED BY <1>3, <3>1, <3>4
  <2>2. CASE c.state # "vp8_data"
    <3>1. d = c
      BY <2>2
    <3> QED BY <1>0, <1>3, <2>2, <3>1
  <2> QED BY <2>1, <2>2
<1> HIDE DEF d
<1>5. d.last_y \in Nat
  BY <1>4, RowsOfSound
<1>6. /\ Sound(e, g) /\ i.last_y <= e.last_y
      /\ \/ Ended(e, g) /\ e.state # "vp8l_data"
         \/ e.state = "vp8l_data"
  <2>1. CASE d.state = "vp8l_header"
    <3>1. /\ Sound(e, g) /\ e.last_y = d.last_y
          /\ \/ Ended(e, g) /\ e.state \in {"vp8l_header", "error"}
             \/ e.state = "vp8l_data"
      BY <1>4, <2>1, LosslessHeaderIsSound
    <3> QED BY <1>4, <3>1
  <2>2. CASE d.state # "vp8l_header"
    <3>1. e = d
      BY <2>2
    <3> QED BY <1>4, <2>2, <3>1
  <2> QED BY <2>1, <2>2
<1> HIDE DEF e
<1>7. e.last_y \in Nat
  BY <1>6, RowsOfSound
<1>8. Sound(j, g) /\ Ended(j, g) /\ i.last_y <= j.last_y
  <2>1. CASE e.state = "vp8l_data"
    <3>1. Sound(j, g) /\ Ended(j, g) /\ j.last_y \in Nat /\ e.last_y <= j.last_y
      BY <1>6, <1>j, <2>1, PixelDataIsSound
    <3> QED BY <1>0, <1>6, <1>7, <3>1
  <2>2. CASE e.state # "vp8l_data"
    <3>1. j = e
      BY <1>j, <2>2
    <3> QED BY <1>6, <2>2, <3>1
  <2> QED BY <2>1, <2>2
<1>9. j.last_y \in i.last_y..Height
  BY <1>0, <1>8, RowsOfSound
<1> QED BY <1>8, <1>9

-----------------------------------------------------------------------------
(* The calls.                                                                *)
LEMMA NewIsSound ==
  ASSUME Given
  PROVE  Sound(NewDecoder, 0) /\ NewDecoder.state = "webp_header" /\ NewDecoder.last_y = 0
         /\ NewDecoder.status = "SUSPENDED"
<1> DEFINE i == NewDecoder
<1>1. /\ i.state = "webp_header" /\ i.status = "SUSPENDED" /\ i.mode = "none"
      /\ i.buf = Null /\ i.buf_size = 0 /\ i.start = 0 /\ i.end = 0 /\ i.first = 0
      /\ i.dec = "none" /\ i.set_up = 0 /\ i.alpha_data = Null /\ i.alpha_reader = Null
  BY DEF NewDecoder
<1>2. /\ i.is_alpha_decoded = FALSE /\ i.mb_x = 0 /\ i.mb_y = 0 /\ i.last_mb_y = -1
      /\ i.job = NoJob /\ i.had_error = FALSE /\ i.last_y = 0
      /\ i.last_pixel = 0 /\ i.last_row = 0 /\ i.num_rows = 0
  BY DEF NewDecoder
<1>3. IsIdec(i)
  BY DEF IsIdec, Fields, NewDecoder
<1> HIDE DEF i
<1>4. Mem(i, 0)
  BY <1>1 DEF Mem, Null
<1>5. Alpha(i)
  BY <1>1, <1>2 DEF Alpha, NeedCompressedAlpha
<1>6. Rows(i)
  <2>1. Height \in Nat \ {0} /\ NumArgbCacheRows \in Nat
    BY LossyFacts, LosslessFacts, DecoderAssumption
  <2>2. i.had_error \in BOOLEAN
    BY <1>2, Zenon
  <2>3. i.last_y \in 0..Height /\ i.num_rows \in 0..NumArgbCacheRows /\ i.last_y = i.last_row
    BY <1>2, <2>1
  <2>4. i.set_up = IF i.state = "vp8_data" THEN 1 ELSE 0
    BY <1>1
  <2> QED BY <1>2, <2>2, <2>3, <2>4 DEF Rows
<1>7. Phase(i, 0)
  <2>1. AtWebPHeader(i)
    BY <1>1, <1>2 DEF AtWebPHeader, Fresh, Pos
  <2> QED BY <1>1, <2>1 DEF Phase, States
<1>8. Sound(i, 0)
  BY <1>3, <1>4, <1>5, <1>6, <1>7 DEF Sound
<1> QED BY <1>1, <1>2, <1>8 DEF i

(* What fails in a call is forgotten after it.                               *)
LEMMA FaultIsSound ==
  ASSUME NEW i, NEW g, Sound(i, g), NEW j, j = [i EXCEPT !.fault = "none"]
  PROVE  Sound(j, g) /\ j.status = i.status /\ j.state = i.state /\ j.last_y = i.last_y
<1>1. /\ IsIdec(j) /\ SamePlace(i, j) /\ SameRows(i, j) /\ SamePixel(i, j)
      /\ SameAlpha(i, j) /\ SameReaders(i, j)
      /\ j.mode = i.mode /\ j.buf = i.buf /\ j.buf_size = i.buf_size /\ j.start = i.start
      /\ j.end = i.end /\ j.first = i.first
      /\ j.state = i.state /\ j.output = i.output /\ j.set_up = i.set_up
      /\ j.io_data = i.io_data /\ j.io_size = i.io_size /\ j.part0_size = i.part0_size
      /\ j.status = i.status
  <2>1. IsIdec(i)
    BY DEF Sound
  <2>2. Changes(i, j, {"fault"})
    BY <2>1 DEF Changes, IsIdec
  <2> QED BY <2>2 DEF Changes, Fields, SamePlace, SameRows, SamePixel, SameAlpha, SameReaders
<1> QED BY <1>1, LikeIsSound

(* A refused call may leave its mode.                                        *)
LEMMA RefusedIsSound ==
  ASSUME NEW i, NEW g, Sound(i, g), NEW mode,
         mode \in {"append", "map"}, i.mode \in {"none", mode},
         NEW j, j = [i EXCEPT !.mode = mode]
  PROVE  Sound(j, g) /\ j.status = i.status /\ j.state = i.state /\ j.last_y = i.last_y
<1>1. /\ IsIdec(j) /\ SamePlace(i, j) /\ SameRows(i, j) /\ SamePixel(i, j)
      /\ SameAlpha(i, j) /\ SameReaders(i, j)
      /\ j.mode = mode /\ j.buf = i.buf /\ j.buf_size = i.buf_size /\ j.start = i.start
      /\ j.end = i.end /\ j.first = i.first
      /\ j.state = i.state /\ j.output = i.output /\ j.set_up = i.set_up
      /\ j.io_data = i.io_data /\ j.io_size = i.io_size /\ j.part0_size = i.part0_size
      /\ j.status = i.status
  <2>1. IsIdec(i)
    BY DEF Sound
  <2>2. Changes(i, j, {"mode"})
    BY <2>1 DEF Changes, IsIdec
  <2>3. j.mode = mode
    BY <2>1 DEF IsIdec, Fields
  <2> QED
    BY <2>2, <2>3 DEF Changes, Fields, SamePlace, SameRows, SamePixel, SameAlpha, SameReaders
<1> QED BY <1>1, LikeIsSound

-----------------------------------------------------------------------------
(* The file and the caller stay, and all that is said of them.               *)
LEMMA FileStays ==
  ASSUME UNCHANGED <<file, caller>>
  PROVE  /\ Given' = Given /\ IsLossy' = IsLossy /\ MbH' = MbH /\ AlphaAt' = AlphaAt
         /\ PartsAt' = PartsAt /\ Part0At' = Part0At
         /\ \A p : PartSize(p)' = PartSize(p)
         /\ \A p : PartAt(p)' = PartAt(p)
         /\ \A p, y, x : MbAt(p, y, x)' = MbAt(p, y, x)
         /\ \A n : SymbolAt(n)' = SymbolAt(n) /\ RowAt(n)' = RowAt(n)
         /\ FileSize' = FileSize /\ Height' = Height
<1>0. file' = file /\ caller' = caller
  OBVIOUS
<1>1. IsLossy' = IsLossy /\ MbH' = MbH /\ AlphaAt' = AlphaAt /\ Part0At' = Part0At
  BY <1>0 DEF IsLossy, MbH, AlphaAt, Part0At
<1>2. PartsAt' = PartsAt
  BY <1>0, <1>1 DEF PartsAt
<1>3. \A p : InPart(p)' = InPart(p)
  BY <1>0, <1>1 DEF InPart
<1>4. \A p : PartSize(p)' = PartSize(p)
  BY <1>1, <1>3 DEF PartSize
<1>5. \A p : PartAt(p)' = PartAt(p)
  BY <1>2, <1>4 DEF PartAt
<1>6. \A p, y, x : MbAt(p, y, x)' = MbAt(p, y, x)
  BY <1>0, <1>1, <1>3, <1>5 DEF MbAt
<1>7. Costs' = Costs /\ RowsOf' = RowsOf
  BY <1>0 DEF Costs, RowsOf
<1>8. \A n : SymbolAt(n)' = SymbolAt(n) /\ RowAt(n)' = RowAt(n)
  BY <1>0, <1>7 DEF SymbolAt, RowAt
<1>9. Given' = Given
  BY <1>0 DEF Given
<1>10. FileSize' = FileSize /\ Height' = Height
  BY <1>0, <1>1, <1>5, <1>8 DEF FileSize, Height
<1> QED BY <1>1, <1>2, <1>4, <1>5, <1>6, <1>8, <1>9, <1>10

(* A decoder stays sound as long as file and caller are what they were.      *)
LEMMA SoundStays ==
  ASSUME NEW CONSTANT i, NEW CONSTANT g, Sound(i, g), UNCHANGED <<file, caller>>
  PROVE  Sound(i, g)'
<1>0. file' = file /\ caller' = caller
  OBVIOUS
<1>1. /\ IsLossy' = IsLossy /\ MbH' = MbH /\ AlphaAt' = AlphaAt
      /\ Part0At' = Part0At /\ Height' = Height
  BY FileStays
<1>2. /\ \A p : PartAt(p)' = PartAt(p)
      /\ \A p, y, x : MbAt(p, y, x)' = MbAt(p, y, x)
  BY FileStays
<1>3. \A n : SymbolAt(n)' = SymbolAt(n) /\ RowAt(n)' = RowAt(n)
  BY FileStays
<1>4. IsIdec(i)' /\ Mem(i, g)'
  BY DEF Sound, IsIdec, Mem
<1>5. Alpha(i)'
  BY <1>0, <1>1 DEF Sound, Alpha, NeedCompressedAlpha, Pos, Ptr
<1>6. Rows(i)'
  BY <1>1 DEF Sound, Rows
<1>7. /\ AtWebPHeader(i) => AtWebPHeader(i)'
      /\ AtLossyHeaders(i) => AtLossyHeaders(i)'
      /\ AtLosslessHeader(i) => AtLosslessHeader(i)'
  BY <1>0, <1>1 DEF AtWebPHeader, AtLossyHeaders, AtLosslessHeader, Fresh, Unread, Pos
<1>8. \A p : EndAt(p, g)' = EndAt(p, g)
  BY <1>0, <1>2 DEF EndAt
<1>9. PartReaders(i, g) => PartReaders(i, g)'
  <2>1. [q \in 1..file'.parts |-> Reader(Ptr(i, MbAt(q - 1, i.mb_y, i.mb_x)'),
                                        Ptr(i, EndAt(q - 1, g)'))]
        = [q \in 1..file.parts |-> Reader(Ptr(i, MbAt(q - 1, i.mb_y, i.mb_x)),
                                         Ptr(i, EndAt(q - 1, g)))]
    BY <1>0, <1>2, <1>8
  <2> QED BY <2>1 DEF PartReaders
<1>10. Unpassed(i) => Unpassed(i)'
  BY <1>0, <1>2 DEF Unpassed, Pos
<1>11. ModeReader(i) => ModeReader(i)'
  BY <1>0, <1>1 DEF ModeReader
<1>12. AtMacroblocks(i, g) => AtMacroblocks(i, g)'
  BY <1>0, <1>1, <1>9, <1>10, <1>11 DEF AtMacroblocks, AmongMacroblocks, Pos
<1>13. \A l, m : BatchedRows(l, m) => BatchedRows(l, m)'
  BY <1>0 DEF BatchedRows
<1>14. AtPixels(i) => AtPixels(i)'
  <2>1. Row(i)' = Row(i)
    BY <1>3 DEF Row
  <2> QED BY <1>0, <1>1, <1>3, <1>13, <2>1 DEF AtPixels, Pos
<1>15. Phase(i, g)'
  BY <1>7, <1>12, <1>14 DEF Sound, Phase
<1> QED BY <1>4, <1>5, <1>6, <1>15 DEF Sound

-----------------------------------------------------------------------------
(* The invariant: the decoder is sound at what it was given, and answers     *)
(* what is true of it.                                                       *)
Answered ==
  /\ idec.status \in Statuses /\ ret \in Statuses \union {"none", "refused"}
  /\ MayCall => idec.state \notin {"done", "error"}
  /\ ret = "OK" => idec.state = "done" /\ idec.last_y = Height

IInv == Given /\ given \in 0..FileSize /\ Sound(idec, given) /\ Answered

(* What a call that takes data does.                                         *)
Fed ==
  /\ MayCall /\ given' \in given..FileSize /\ Sound(idec', given')
  /\ idec'.last_y \in idec.last_y..Height
  /\ ret' = idec'.status /\ ret' \in Statuses
  /\ ret' = "SUSPENDED" => idec'.state \notin {"done", "error"} /\ given' < FileSize
  /\ ret' = "OK" => idec'.state = "done" /\ idec'.last_y = Height
  /\ UNCHANGED <<file, caller>>

(* The decoding of a call, whatever the way the data came.                   *)
LEMMA CallIsSound ==
  ASSUME Given, NEW i, NEW g, Sound(i, g), i.state \notin {"done", "error"},
         NEW k, k = [IDecode(i) EXCEPT !.fault = "none"]
  PROVE  /\ Sound(k, g) /\ k.status = IDecode(i).status /\ k.status \in Statuses
         /\ k.status = "SUSPENDED" => k.state \notin {"done", "error"} /\ g < FileSize
         /\ k.status = "OK" => k.state = "done" /\ k.last_y = Height
         /\ k.last_y \in i.last_y..Height
<1> DEFINE j == IDecode(i)
<1>1. Sound(j, g) /\ Ended(j, g) /\ j.last_y \in i.last_y..Height
  BY IDecodeIsSound
<1> HIDE DEF j
<1>2. Sound(k, g) /\ k.status = j.status /\ k.state = j.state /\ k.last_y = j.last_y
  BY <1>1, FaultIsSound DEF j
<1> QED BY <1>1, <1>2 DEF Ended, j

(* WebPIAppend is a call that takes data.                                    *)
LEMMA AppendFeeds ==
  ASSUME IInv, NEW n \in 0..FileSize - given, NEW base \in Bases, NEW fault,
         WebPIAppend(n, base, fault)
  PROVE  Fed
<1> DEFINE i == [idec EXCEPT !.mode = "append", !.fault = fault]
           x == AppendToMemBuffer(i, base, n)
           k == [IDecode(x) EXCEPT !.fault = "none"]
<1>0. Given /\ given \in 0..FileSize /\ Sound(idec, given) /\ Answered /\ FileSize \in Nat
  BY SizeFacts DEF IInv
<1>1. /\ MayCall /\ idec.mode # "map" /\ given' = given + n
      /\ idec' = k /\ ret' = IDecode(x).status /\ UNCHANGED <<file, caller>>
  BY DEF WebPIAppend, Goes
<1>2. n \in Nat /\ base \in Nat \ {Null} /\ given + n \in given..FileSize
  BY <1>0, DecoderAssumption
<1>3. idec.mode \in {"none", "append"}
  BY <1>0, <1>1 DEF Sound, Mem
<1>4. idec.state \notin {"done", "error"}
  BY <1>0, <1>1 DEF Answered
<1>5. Sound(i, given) /\ i.mode = "append" /\ i.state = idec.state /\ i.last_y = idec.last_y
  <2> DEFINE mode == "append"
  <2>1. /\ i = WithMode(idec, mode, fault)
        /\ mode = "append" /\ mode \in {"append", "map"} /\ idec.mode \in {"none", mode}
    BY <1>3 DEF WithMode
  <2>2. Sound(idec, given)
    BY <1>0
  <2> HIDE DEF i, mode
  <2>3. Sound(i, given) /\ i.mode = mode /\ i.state = idec.state /\ i.last_y = idec.last_y
    BY <2>1, <2>2, ModeIsSound
  <2> QED BY <2>1, <2>3
<1> HIDE DEF i
<1>6. Sound(x, given + n) /\ x.state = i.state /\ x.last_y = i.last_y
  BY <1>0, <1>2, <1>4, <1>5, AppendIsSound
<1> HIDE DEF x
<1>7. /\ Sound(k, given + n) /\ k.status = IDecode(x).status /\ k.status \in Statuses
      /\ k.status = "SUSPENDED" => k.state \notin {"done", "error"} /\ given + n < FileSize
      /\ k.status = "OK" => k.state = "done" /\ k.last_y = Height
      /\ k.last_y \in x.last_y..Height
  BY <1>0, <1>4, <1>5, <1>6, CallIsSound
<1> HIDE DEF k
<1> QED BY <1>1, <1>2, <1>5, <1>6, <1>7 DEF Fed

(* So is WebPIUpdate.                                                        *)
LEMMA UpdateFeeds ==
  ASSUME IInv, NEW n \in 0..FileSize - given, NEW base \in Bases, NEW fault,
         WebPIUpdate(n, base, fault)
  PROVE  Fed
<1> DEFINE i == [idec EXCEPT !.mode = "map", !.fault = fault]
           x == RemapMemBuffer(i, base, given + n)
           k == [IDecode(x) EXCEPT !.fault = "none"]
<1>0. Given /\ given \in 0..FileSize /\ Sound(idec, given) /\ Answered /\ FileSize \in Nat
  BY SizeFacts DEF IInv
<1>1. /\ MayCall /\ idec.mode # "append" /\ given' = given + n
      /\ idec' = k /\ ret' = IDecode(x).status /\ UNCHANGED <<file, caller>>
  BY DEF WebPIUpdate, Goes
<1>2. n \in Nat /\ base \in Nat \ {Null} /\ given + n \in given..FileSize
  BY <1>0, DecoderAssumption
<1>3. idec.mode \in {"none", "map"}
  BY <1>0, <1>1 DEF Sound, Mem
<1>4. idec.state \notin {"done", "error"}
  BY <1>0, <1>1 DEF Answered
<1>5. Sound(i, given) /\ i.mode = "map" /\ i.state = idec.state /\ i.last_y = idec.last_y
  <2> DEFINE mode == "map"
  <2>1. /\ i = WithMode(idec, mode, fault)
        /\ mode = "map" /\ mode \in {"append", "map"} /\ idec.mode \in {"none", mode}
    BY <1>3 DEF WithMode
  <2>2. Sound(idec, given)
    BY <1>0
  <2> HIDE DEF i, mode
  <2>3. Sound(i, given) /\ i.mode = mode /\ i.state = idec.state /\ i.last_y = idec.last_y
    BY <2>1, <2>2, ModeIsSound
  <2> QED BY <2>1, <2>3
<1> HIDE DEF i
<1>6. Sound(x, given + n) /\ x.state = i.state /\ x.last_y = i.last_y
  BY <1>0, <1>2, <1>4, <1>5, UpdateIsSound
<1> HIDE DEF x
<1>7. /\ Sound(k, given + n) /\ k.status = IDecode(x).status /\ k.status \in Statuses
      /\ k.status = "SUSPENDED" => k.state \notin {"done", "error"} /\ given + n < FileSize
      /\ k.status = "OK" => k.state = "done" /\ k.last_y = Height
      /\ k.last_y \in x.last_y..Height
  BY <1>0, <1>4, <1>5, <1>6, CallIsSound
<1> HIDE DEF k
<1> QED BY <1>1, <1>2, <1>5, <1>6, <1>7 DEF Fed

(* A refused call leaves a sound decoder.                                    *)
LEMMA RefusedFacts ==
  ASSUME IInv, NEW mode \in {"append", "map"}, Refused(mode)
  PROVE  /\ Sound(idec', given) /\ idec'.status = idec.status /\ idec'.state = idec.state
         /\ idec'.last_y = idec.last_y
         /\ MayCall /\ ret' = "refused" /\ UNCHANGED <<file, caller, given>>
<1>0. /\ Sound(idec, given) /\ MayCall /\ ret' = "refused" /\ UNCHANGED <<file, caller, given>>
      /\ idec' = [idec EXCEPT !.mode = IF @ = "none" THEN mode ELSE @]
  BY DEF IInv, Refused
<1>1. idec.mode \in {"none", "append", "map"}
  BY <1>0 DEF Sound, Mem
<1>2. CASE idec.mode = "none"
  <2>1. idec' = [idec EXCEPT !.mode = mode]
    BY <1>0, <1>2
  <2>2. idec.mode \in {"none", mode}
    BY <1>2
  <2>3. /\ Sound(idec', given) /\ idec'.status = idec.status /\ idec'.state = idec.state
        /\ idec'.last_y = idec.last_y
    BY <1>0, <2>1, <2>2, RefusedIsSound
  <2> QED BY <1>0, <2>3
<1>3. CASE idec.mode # "none"
  <2> DEFINE m == idec.mode
  <2>1. idec' = [idec EXCEPT !.mode = m] /\ m \in {"append", "map"} /\ idec.mode \in {"none", m}
    BY <1>0, <1>1, <1>3
  <2> HIDE DEF m
  <2>3. /\ Sound(idec', given) /\ idec'.status = idec.status /\ idec'.state = idec.state
        /\ idec'.last_y = idec.last_y
    BY <1>0, <2>1, RefusedIsSound
  <2> QED BY <1>0, <2>3
<1> QED BY <1>2, <1>3

-----------------------------------------------------------------------------
(* The invariant is inductive.                                               *)
LEMMA InitIInv == Init => IInv
<1> SUFFICES ASSUME Init PROVE IInv
  OBVIOUS
<1>1. Given /\ given = 0 /\ ret = "none" /\ idec = NewDecoder
  BY DEF Init, Given
<1>2. Sound(idec, given) /\ idec.state = "webp_header" /\ idec.status = "SUSPENDED"
  BY <1>1, NewIsSound
<1>3. FileSize \in Nat
  BY <1>1, SizeFacts
<1>4. Answered
  BY <1>1, <1>2 DEF Answered, Statuses
<1> QED BY <1>1, <1>2, <1>3, <1>4 DEF IInv

(* A decoder that is sound when a step has been taken.                       *)
LEMMA SoundAfter ==
  ASSUME Given, NEW CONSTANT j, NEW CONSTANT g, Sound(j, g),
         UNCHANGED <<file, caller>>, idec' = j, given' = g, g \in 0..FileSize
  PROVE  Given' /\ given' \in 0..FileSize' /\ Sound(idec, given)'
<1>1. Given' /\ FileSize' = FileSize
  BY FileStays
<1>2. Sound(j, g)'
  BY SoundStays
<1>3. Sound(idec, given)'
  BY <1>2
<1> QED BY <1>1, <1>3

(* A call that takes data keeps the invariant.                               *)
LEMMA FedKeepsIInv == ASSUME IInv, Fed PROVE IInv'
<1>1. PICK j, g : j = idec' /\ g = given'
  OBVIOUS
<1>2. /\ Given /\ Sound(j, g) /\ given \in 0..FileSize /\ g \in given..FileSize
      /\ FileSize \in Nat /\ UNCHANGED <<file, caller>>
  BY <1>1, SizeFacts DEF IInv, Fed
<1>3. g \in 0..FileSize
  BY <1>2
<1>4. Given' /\ given' \in 0..FileSize' /\ Sound(idec, given)'
  BY <1>1, <1>2, <1>3, SoundAfter
<1>5. Answered'
  <2>1. Height' = Height
    BY <1>2, FileStays
  <2>2. /\ ret' \in Statuses /\ ret' = idec'.status
        /\ ret' = "SUSPENDED" => idec'.state \notin {"done", "error"}
        /\ ret' = "OK" => idec'.state = "done" /\ idec'.last_y = Height
    BY DEF Fed
  <2>3. MayCall' => ret' = "SUSPENDED"
    BY <2>2 DEF MayCall, Statuses
  <2> QED BY <2>1, <2>2, <2>3 DEF Answered
<1> QED BY <1>4, <1>5 DEF IInv

(* So does every step.                                                       *)
LEMMA NextIInv == IInv /\ [Next]_vars => IInv'
<1> SUFFICES ASSUME IInv, [Next]_vars PROVE IInv'
  OBVIOUS
<1>0. Given /\ given \in 0..FileSize /\ Sound(idec, given) /\ Answered /\ FileSize \in Nat
  BY SizeFacts DEF IInv
<1>1. ASSUME NEW n \in 0..FileSize - given, NEW base \in Bases, NEW fault \in Faults,
             WebPIAppend(n, base, fault) \/ WebPIUpdate(n, base, fault)
      PROVE  IInv'
  BY <1>1, AppendFeeds, UpdateFeeds, FedKeepsIInv
<1>2. ASSUME NEW mode \in {"append", "map"}, Refused(mode) PROVE IInv'
  <2>1. /\ Sound(idec', given) /\ idec'.status = idec.status /\ idec'.state = idec.state
        /\ MayCall /\ ret' = "refused" /\ UNCHANGED <<file, caller, given>>
    BY <1>2, RefusedFacts
  <2>2. PICK j, g : j = idec' /\ g = given'
    OBVIOUS
  <2>3. Given' /\ given' \in 0..FileSize' /\ Sound(idec, given)'
    BY <1>0, <2>1, <2>2, SoundAfter
  <2>4. Answered'
    BY <1>0, <2>1 DEF Answered
  <2> QED BY <2>3, <2>4 DEF IInv
<1>3. CASE CallAfterEnd
  <2>1. /\ ret' \in {"OK", "BITSTREAM_ERROR"} /\ UNCHANGED <<file, caller, given, idec>>
        /\ ret' = "OK" => idec.state = "done"
        /\ ret = "OK" \/ idec.state = "error"
    BY <1>3 DEF CallAfterEnd
  <2>2. PICK j, g : j = idec' /\ g = given'
    OBVIOUS
  <2>3. Given' /\ given' \in 0..FileSize' /\ Sound(idec, given)'
    BY <1>0, <2>1, <2>2, SoundAfter
  <2>4. Answered'
    <3>1. Height' = Height
      BY <2>1, FileStays
    <3>2. ret' = "OK" => ret = "OK" 
      BY <2>1
    <3> QED BY <1>0, <2>1, <3>1, <3>2 DEF Answered, MayCall, Statuses
  <2> QED BY <2>3, <2>4 DEF IInv
<1>4. CASE WebPIDelete
  <2>1. /\ given' = 0 /\ ret' = "none" /\ idec' = NewDecoder /\ UNCHANGED <<file, caller>>
    BY <1>4 DEF WebPIDelete
  <2>2. PICK j, g : j = idec' /\ g = given'
    OBVIOUS
  <2>3. Sound(j, g) /\ j.state = "webp_header" /\ j.status = "SUSPENDED" /\ g \in 0..FileSize
    BY <1>0, <2>1, <2>2, NewIsSound
  <2>4. Given' /\ given' \in 0..FileSize' /\ Sound(idec, given)'
    BY <1>0, <2>1, <2>2, <2>3, SoundAfter
  <2>5. Answered'
    BY <2>1, <2>2, <2>3 DEF Answered, Statuses
  <2> QED BY <2>4, <2>5 DEF IInv
<1>5. CASE UNCHANGED vars
  <2>1. UNCHANGED <<file, caller, given, idec, ret>>
    BY <1>5 DEF vars
  <2>2. PICK j, g : j = idec' /\ g = given'
    OBVIOUS
  <2>3. Given' /\ given' \in 0..FileSize' /\ Sound(idec, given)'
    BY <1>0, <2>1, <2>2, SoundAfter
  <2>4. Answered'
    <3>1. Height' = Height
      BY <2>1, FileStays
    <3> QED BY <1>0, <2>1, <3>1 DEF Answered, MayCall
  <2> QED BY <2>3, <2>4 DEF IInv
<1> QED BY <1>1, <1>2, <1>3, <1>4, <1>5 DEF Next

(* The invariant says what the runs ask.                                     *)
LEMMA IInvRest == IInv => LeftAtRest
BY DEF IInv, Sound, Rows, Phase, AtMacroblocks, AmongMacroblocks, AtPixels, LeftAtRest

LEMMA IInvOnce == IInv => RowsComeOnce
BY DEF IInv, Sound, Rows, RowsComeOnce

LEMMA IInvMemory == IInv => MemHolds
BY DEF IInv, Sound, Mem, Answered, Statuses, MemHolds

(* A pointer to a place of the file points there.                            *)
LEMMA PtrIsAt ==
  ASSUME IInv, NEW n \in Int
  PROVE  At(Ptr(idec, n)) = n /\ (n >= idec.first => Ptr(idec, n) >= idec.buf)
<1>1. idec.buf \in Nat /\ idec.first \in Nat
  BY DEF IInv, Sound, Mem
<1> QED BY <1>1 DEF At, Ptr

(* The readers of a lossy file.                                              *)
LEMMA IInvLossy == ASSUME IInv, idec.state = "vp8_data" PROVE LossyReadersFollow
<1>0. Given /\ given \in 0..FileSize /\ FileSize \in Nat
  BY SizeFacts DEF IInv
<1>1. Mem(idec, given) /\ AmongMacroblocks(idec, given)
  BY DEF IInv, Sound, Phase, AtMacroblocks
<1>2. IsLossy /\ PartReaders(idec, given) /\ ModeReader(idec) /\ Unpassed(idec)
  BY <1>1 DEF AmongMacroblocks
<1>3. file.parts \in Nat \ {0} /\ MbH \in Nat
  BY <1>0, <1>2, LossyFacts
<1>4. ASSUME NEW p \in 0..file.parts - 1
      PROVE  LET r == idec.parts[p + 1]
             IN /\ At(r.buf) = MbAt(p, idec.mb_y, idec.mb_x) /\ r.buf >= idec.buf
                /\ At(r.end) = IF p = file.parts - 1 THEN given ELSE PartAt(p + 1)
  <2> DEFINE at == MbAt(p, idec.mb_y, idec.mb_x)
             end == EndAt(p, given)
  <2>1. p + 1 \in 1..file.parts /\ p + 1 - 1 = p /\ p + 1 \in 0..file.parts
    BY <1>3
  <2>2. idec.parts[p + 1] = Reader(Ptr(idec, at), Ptr(idec, end))
    BY <1>2, <2>1 DEF PartReaders
  <2>3. at \in Int /\ at >= idec.first
    <3>1. /\ idec.mb_y \in 0..MbH /\ idec.mb_x \in Nat
          /\ idec.first \in Nat /\ idec.start \in Nat
      BY <1>1, <1>2, <1>0, LossyFacts DEF Mem, AmongMacroblocks
    <3>2. at \in Nat
      BY <1>0, <1>2, <3>1, MbPlaces
    <3>3. at >= idec.first + idec.start
      BY <1>2 DEF Unpassed, Pos
    <3> QED BY <3>1, <3>2, <3>3
  <2>4. end \in Int
    <3>1. PartAt(p + 1) \in Nat
      BY <1>0, <1>2, <2>1, PartStarts
    <3> QED BY <1>0, <3>1 DEF EndAt
  <2>5. end = IF p = file.parts - 1 THEN given ELSE PartAt(p + 1)
    BY DEF EndAt
  <2> HIDE DEF end
  <2> QED BY <2>2, <2>3, <2>4, <2>5, PtrIsAt DEF Reader
<1>5. idec.br.buf - (IF idec.mode = "append" THEN Part0Base
                     ELSE idec.buf + Part0At + file.intro) = idec.last_mb_y + 1
  <2> DEFINE b == IF idec.mode = "append" THEN Part0Base
                  ELSE idec.buf + Part0At + file.intro
  <2>1. idec.br.buf = b + idec.last_mb_y + 1
    BY <1>2 DEF ModeReader, Reader
  <2>2. b \in Int /\ idec.last_mb_y \in Int
    <3>1. /\ Part0Base \in Nat /\ file.payload \in Nat /\ FrameHeaderSize \in Nat
          /\ file.intro \in Nat /\ idec.buf \in Nat
      BY <1>0, <1>1, <1>2, LossyFacts, DecoderAssumption DEF Mem
    <3>2. idec.last_mb_y \in Int
      BY <1>1, <1>3 DEF AmongMacroblocks
    <3> QED BY <3>1, <3>2 DEF Part0At
  <2> HIDE DEF b
  <2>3. idec.br.buf - b = idec.last_mb_y + 1
    BY <2>1, <2>2
  <2> QED BY <2>3 DEF b
<1> QED BY <1>4, <1>5 DEF LossyReadersFollow

(* All readers.                                                              *)
LEMMA IInvReaders == IInv => ReadersFollow
<1> SUFFICES ASSUME IInv PROVE ReadersFollow
  OBVIOUS
<1>0. Given /\ Mem(idec, given) /\ Alpha(idec)
  BY DEF IInv, Sound
<1>1. idec.state = "vp8_data" => LossyReadersFollow
  BY IInvLossy
<1>2. ASSUME idec.state = "vp8l_data"
      PROVE  /\ At(idec.vp8l.buf) = file.payload /\ idec.vp8l.buf >= idec.buf
             /\ idec.vp8l.pos = SymbolAt(idec.last_pixel)
             /\ idec.vp8l.len = given - file.payload
  <2>1. AtPixels(idec)
    BY <1>2 DEF IInv, Sound, Phase
  <2>2. /\ idec.first + idec.start = file.payload
        /\ idec.vp8l.buf = idec.buf + idec.start /\ idec.vp8l.len = idec.end - idec.start
        /\ idec.vp8l.pos = SymbolAt(idec.last_pixel)
    BY <2>1 DEF AtPixels, Pos
  <2> QED BY <1>0, <2>2 DEF Mem, At
<1>3. ASSUME NeedCompressedAlpha(idec)
      PROVE  /\ At(idec.alpha_data) = AlphaAt /\ idec.alpha_data >= idec.buf
             /\ idec.alpha_reader \in {Null, idec.alpha_data + 1}
  <2>1. /\ IsLossy /\ idec.alpha_data = Ptr(idec, AlphaAt) /\ idec.first <= AlphaAt
        /\ idec.alpha_reader \in {Null, idec.alpha_data + 1}
    BY <1>0, <1>3 DEF Alpha
  <2>2. AlphaAt \in Nat /\ idec.first \in Nat
    BY <1>0, <2>1, LossyFacts DEF Mem
  <2> QED BY <2>1, <2>2, PtrIsAt
<1> QED BY <1>1, <1>2, <1>3 DEF ReadersFollow

(* The decoder begins as the progressive image does.                         *)
LEMMA InitProgresses == Init => Progressive!Init
<1> SUFFICES ASSUME Init PROVE Progressive!Init
  OBVIOUS
<1>1. Given /\ given = 0 /\ ret = "none" /\ idec = NewDecoder
  BY DEF Init, Given
<1>2. FileSize \in Nat \ {0} /\ Height \in Nat \ {0}
  <2>1. Height \in Nat \ {0}
    BY <1>1, LossyFacts, LosslessFacts
  <2>2. /\ FileSize \in Nat /\ FileSize >= file.payload + FrameHeaderSize
        /\ file.payload \in Nat /\ FrameHeaderSize \in Nat \ {0}
    BY <1>1, SizeFacts
  <2> QED BY <2>1, <2>2
<1>3. idec.last_y = 0
  BY <1>1, NewIsSound
<1> QED BY <1>1, <1>2, <1>3 DEF Progressive!Init, Outcome

(* A call that takes data shows more of the image, a refused one nothing; a  *)
(* call after the end repeats what was said.                                 *)
LEMMA NextProgresses ==
  ASSUME IInv, [Next]_vars PROVE [Progressive!Next]_(Progressive!vars)
<1>0. Given /\ given \in 0..FileSize /\ Sound(idec, given) /\ Answered
  BY DEF IInv
<1>1. MayCall => Progressive!Quiet
  BY DEF MayCall, Progressive!Quiet, Outcome
<1>2. ASSUME NEW n \in 0..FileSize - given, NEW base \in Bases, NEW fault \in Faults,
             WebPIAppend(n, base, fault) \/ WebPIUpdate(n, base, fault)
      PROVE  Progressive!Feed
  <2>1. Fed
    BY <1>2, AppendFeeds, UpdateFeeds
  <2>2. FileSize' = FileSize /\ Height' = Height
    BY <2>1, FileStays DEF Fed
  <2>3. /\ Outcome' \in {"SUSPENDED", "OK", "error"}
        /\ Outcome' = "OK" => ret' = "OK"
        /\ Outcome' = "SUSPENDED" => ret' = "SUSPENDED"
    BY <2>1 DEF Fed, Statuses, Outcome
  <2> QED BY <1>1, <2>1, <2>2, <2>3 DEF Fed, Progressive!Feed
<1>3. ASSUME NEW mode \in {"append", "map"}, Refused(mode) PROVE Progressive!Refuse
  <2>1. /\ idec'.last_y = idec.last_y /\ MayCall /\ ret' = "refused"
        /\ UNCHANGED <<file, caller, given>>
    BY <1>3, RefusedFacts
  <2>2. FileSize' = FileSize /\ Height' = Height
    BY <2>1, FileStays
  <2>3. Outcome' = "refused"
    BY <2>1 DEF Outcome
  <2> QED BY <1>1, <2>1, <2>2, <2>3 DEF Progressive!Refuse
<1>4. CASE CallAfterEnd
  <2>1. /\ ret' = (IF idec.state = "done" THEN "OK" ELSE "BITSTREAM_ERROR")
        /\ UNCHANGED <<file, caller, given, idec>>
        /\ ret = "OK" \/ idec.state = "error"
    BY <1>4 DEF CallAfterEnd
  <2>2. FileSize' = FileSize /\ Height' = Height
    BY <2>1, FileStays
  <2>3. Outcome' = Outcome /\ Outcome \in {"OK", "error"}
    <3>1. CASE ret = "OK"
      BY <1>0, <2>1, <3>1 DEF Answered, Outcome
    <3>2. CASE ret # "OK"
      <4>1. ret \notin {"none", "SUSPENDED", "refused"} /\ ret' = "BITSTREAM_ERROR"
        BY <1>0, <2>1, <3>2 DEF Answered, MayCall
      <4> QED BY <3>2, <4>1 DEF Outcome
    <3> QED BY <3>1, <3>2
  <2>4. Progressive!Repeat
    BY <2>1, <2>2, <2>3 DEF Progressive!Repeat, Progressive!vars
  <2> QED BY <2>4 DEF Progressive!Next
<1>5. CASE WebPIDelete
  <2>1. /\ given' = 0 /\ ret' = "none" /\ idec' = NewDecoder /\ UNCHANGED <<file, caller>>
    BY <1>5 DEF WebPIDelete
  <2>2. FileSize' = FileSize /\ Height' = Height
    BY <2>1, FileStays
  <2>3. idec'.last_y = 0
    <3>1. PICK j : j = idec'
      OBVIOUS
    <3>2. NewDecoder.last_y = 0
      BY <1>0, NewIsSound
    <3> QED BY <2>1, <3>2
  <2>4. Progressive!Drop
    BY <2>1, <2>2, <2>3 DEF Progressive!Drop, Outcome
  <2> QED BY <2>4 DEF Progressive!Next
<1>6. CASE UNCHANGED vars
  <2>1. UNCHANGED <<file, caller, given, idec, ret>>
    BY <1>6 DEF vars
  <2>2. FileSize' = FileSize /\ Height' = Height
    BY <2>1, FileStays
  <2>3. Outcome' = Outcome
    BY <2>1 DEF Outcome
  <2> QED BY <2>1, <2>2, <2>3 DEF Progressive!vars
<1> QED BY <1>2, <1>3, <1>4, <1>5, <1>6 DEF Next, Progressive!Next

(* Whatever the pieces the file comes in, whatever memory it is copied to    *)
(* or the caller moves it to, and whatever failed before: between calls the  *)
(* bytes still to be read are in the buffer, and each reader points to its   *)
(* own next byte of the file (idec_dec.c:119-237, where the readers follow   *)
(* the buffer; its asserts at 214, 320 and 512).  For every file, every size *)
(* of chunk and every option.                                                *)
THEOREM DataStaysHeld == Spec => []DataIsHeld
<1>1. IInv => DataIsHeld
  BY IInvMemory, IInvReaders DEF DataIsHeld
<1> QED BY InitIInv, NextIInv, <1>1, PTL DEF Spec

(* No call leaves the worker with a row, rows that are decoded but not put   *)
(* out, or an output set up that is not torn down (idec_dec.c:309 and        *)
(* vp8_dec.c, VP8ExitCritical), on every path through the errors.            *)
THEOREM CallsLeaveAtRest == Spec => []LeftAtRest
BY InitIInv, NextIInv, IInvRest, PTL DEF Spec

(* Rows of a lossless image that are decoded again after a check-point are   *)
(* not put out again, and no more of them go out at once than argb_cache     *)
(* holds (the assert at vp8l_dec.c:826); SYNC_EVERY_N_ROWS <=                *)
(* NUM_ARGB_CACHE_ROWS is all that is used of the two.                       *)
THEOREM RowsAreNotRepeated == Spec => []RowsComeOnce
BY InitIInv, NextIInv, IInvOnce, PTL DEF Spec

(* The incremental decoder implements the progressive image of decode.h:     *)
(* SUSPENDED only while there is more of the file to come, OK only with      *)
(* every row out, rows that were shown stay shown, and an end that has come  *)
(* is repeated.                                                              *)
THEOREM DecoderImplementsProgressive == Spec => ImplementsProgressive
<1>1. IInv /\ [Next]_vars => [Progressive!Next]_(Progressive!vars)
  BY NextProgresses
<1> QED BY InitIInv, NextIInv, InitProgresses, <1>1, PTL
        DEF Spec, ImplementsProgressive, Progressive!Spec
=============================================================================
