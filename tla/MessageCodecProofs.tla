--------------------------- MODULE MessageCodecProofs ---------------------------
(*****************************************************************************)
(* Proofs about the values on the bus, for any field, type and value: they   *)
(* are quantized to the nearest one there is, and so they are stored.  And   *)
(* about the messages that carry them, whatever else is in the messages and  *)
(* in the buffers on their way: a field is written without touching another, *)
(* the rows of the tables never meet, parameters and commands arrive at the  *)
(* place where the other side reads them, and a header at its own.           *)
(*****************************************************************************)
EXTENDS ModelRegistry, SequenceTheorems, FiniteSetTheorems, WellFoundedInduction, TLAPS

-------------------------------------------------------------------------------
(* Quantization *)

\* The fields of messages: 1, 8 or 16 bits.
Items == [width : {1, 8, 16}, signed : BOOLEAN, alg : {"AN", "AC", "ABC", "AAC"},
          a : Int, b : Int, c : Int]

Size(d) == IF d < 0 THEN -d ELSE d

\* A raw value survives its encoding.
LEMMA Wires ==
    ASSUME NEW item \in Items
    PROVE  /\ WireMin(item) \in Int /\ WireMax(item) \in Int
           /\ WireMin(item) <= 0 /\ 0 <= WireMax(item)
           /\ \A q \in WireRange(item) : DecodeRaw(item, EncodeToBits(item, q)) = q
<1>1. item.width \in {1, 8, 16} /\ item.signed \in BOOLEAN
  BY DEF Items
<1>2. CASE item.width = 1
  <2>1. 2 ^ item.width = 2 /\ 2 ^ (item.width - 1) = 1
    BY <1>2
  <2>2. /\ WireMin(item) = (IF item.signed THEN -1 ELSE 0)
        /\ WireMax(item) = (IF item.signed THEN 1 - 1 ELSE 2 - 1)
    BY <2>1 DEF WireMin, WireMax
  <2>3. ASSUME NEW q \in WireRange(item) PROVE DecodeRaw(item, EncodeToBits(item, q)) = q
    <3>1. q \in {-1, 0, 1} /\ (q = -1 => item.signed) /\ (q = 1 => ~item.signed)
      BY <1>1, <2>2 DEF WireRange
    <3>2. \A r \in {-1, 0, 1} : r % 2 = IF r = 0 THEN 0 ELSE 1
      OBVIOUS
    <3>3. CASE q = -1
      BY <2>1, <3>1, <3>2, <3>3 DEF DecodeRaw, EncodeToBits
    <3>4. CASE q = 0
      BY <2>1, <3>1, <3>2, <3>4 DEF DecodeRaw, EncodeToBits
    <3>5. CASE q = 1
      BY <2>1, <3>1, <3>2, <3>5 DEF DecodeRaw, EncodeToBits
    <3>. QED
      BY <3>1, <3>3, <3>4, <3>5
  <2>. QED
    BY <1>1, <2>2, <2>3
<1>3. CASE item.width = 8
  <2>1. 2 ^ item.width = 256 /\ 2 ^ (item.width - 1) = 128
    BY <1>3
  <2>2. /\ WireMin(item) = (IF item.signed THEN -128 ELSE 0)
        /\ WireMax(item) = (IF item.signed THEN 128 - 1 ELSE 256 - 1)
    BY <2>1 DEF WireMin, WireMax
  <2>3. ASSUME NEW q \in WireRange(item) PROVE DecodeRaw(item, EncodeToBits(item, q)) = q
    BY <1>1, <2>1, <2>2 DEF WireRange, DecodeRaw, EncodeToBits
  <2>. QED
    BY <1>1, <2>2, <2>3
<1>4. CASE item.width = 16
  <2>1. 2 ^ item.width = 65536 /\ 2 ^ (item.width - 1) = 32768
    BY <1>4
  <2>2. /\ WireMin(item) = (IF item.signed THEN -32768 ELSE 0)
        /\ WireMax(item) = (IF item.signed THEN 32768 - 1 ELSE 65536 - 1)
    BY <2>1 DEF WireMin, WireMax
  <2>3. ASSUME NEW q \in WireRange(item) PROVE DecodeRaw(item, EncodeToBits(item, q)) = q
    BY <1>1, <2>1, <2>2 DEF WireRange, DecodeRaw, EncodeToBits
  <2>. QED
    BY <1>1, <2>2, <2>3
<1>. QED
  BY <1>1, <1>2, <1>3, <1>4

LEMMA Clamps ==
    ASSUME NEW item \in Items, NEW v \in Int
    PROVE  /\ ClampWire(item, v) = Between(v, WireMin(item), WireMax(item))
           /\ ClampWire(item, v) \in WireRange(item)
BY Wires DEF ClampWire, Between, WireRange

LEMMA Products ==
    ASSUME NEW p \in Int, NEW q \in Int, NEW D \in Nat, p <= q
    PROVE  D * p \in Int /\ D * q \in Int /\ D * p <= D * q
OBVIOUS

LEMMA Squares ==
    ASSUME NEW p \in Nat, NEW q \in Nat, NEW d \in Nat, p <= q
    PROVE  p * p * d \in Nat /\ q * q * d \in Nat /\ p * p * d <= q * q * d
OBVIOUS

LEMMA Least ==
    ASSUME NEW S \in SUBSET Nat, S # {}
    PROVE  Min(S) \in S /\ \A y \in S : Min(S) <= y
<1>. DEFINE less == {p \in Nat \X Nat : p[1] < p[2]}
<1>1. IsWellFoundedOn(less, Nat)
  BY NatLessThanWellFounded DEF OpToRel
<1>2. PICK k \in S : \A y \in S : <<y, k>> \notin less
  <2>. HIDE DEF less
  <2>. QED
    BY <1>1, WFMin
<1>3. ASSUME NEW y \in S PROVE k <= y
  <2>1. y \in Nat /\ k \in Nat /\ <<y, k>> \notin less
    BY <1>2
  <2>. QED
    BY <2>1
<1>. QED
  BY <1>3 DEF Min

\* Rounding down or up is best, also if the result has to be clamped.
LEMMA LinearBest ==
    ASSUME NEW lo \in Int, NEW hi \in Int, NEW D \in Nat \ {0}, NEW N \in Int, NEW q \in lo .. hi
    PROVE  /\ FloorOf(N, D) \in Int /\ CeilOf(N, D) \in Int
           /\ \E v \in {FloorOf(N, D), CeilOf(N, D)} :
                 Size(D * Between(v, lo, hi) - N) <= Size(D * q - N)
<1>1. PICK f \in Int : f = FloorOf(N, D) /\ D * f <= N /\ N < D * (f + 1)
  BY DEF FloorOf
<1>2. PICK g \in Int : g = CeilOf(N, D) /\ N <= D * g /\ D * (g - 1) < N
  <2>1. PICK h \in Int : h = (-N) \div D /\ D * h <= -N /\ -N < D * (h + 1)
    OBVIOUS
  <2>2. D * (-h) = -(D * h) /\ D * (-h - 1) = -(D * (h + 1))
    BY <2>1
  <2>. QED
    BY <2>1, <2>2 DEF CeilOf
<1>3. CASE q <= f
  <2>1. PICK m \in Int : m = Between(f, lo, hi) /\ q <= m /\ m <= f
    BY <1>3 DEF Between
  <2>2. D * q <= D * m /\ D * m <= D * f
    BY <2>1, Products
  <2>3. Size(D * m - N) <= Size(D * q - N)
    BY <1>1, <2>1, <2>2, Products DEF Size
  <2>. QED
    BY <1>1, <1>2, <2>1, <2>3
<1>4. CASE q > f
  <2>1. g <= f + 1
    <3>1. g - 1 >= f + 1 => D * (f + 1) <= D * (g - 1)
      BY Products
    <3>. QED
      BY <1>1, <1>2, <3>1, Products
  <2>2. PICK m \in Int : m = Between(g, lo, hi) /\ g <= m /\ m <= q
    BY <1>4, <2>1 DEF Between
  <2>3. D * g <= D * m /\ D * m <= D * q
    BY <2>2, Products
  <2>4. Size(D * m - N) <= Size(D * q - N)
    BY <1>2, <2>2, <2>3, Products DEF Size
  <2>. QED
    BY <1>1, <1>2, <2>2, <2>4
<1>. QED
  BY <1>1, <1>2, <1>3, <1>4

\* The root that AroundRoots looks for exists.
LEMMA RootExists ==
    ASSUME NEW n \in Nat, NEW d \in Nat \ {0}
    PROVE  \E k \in 0 .. n : k * k * d <= n /\ (k + 1) * (k + 1) * d > n
<1>. DEFINE Above == {k \in Nat : (k + 1) * (k + 1) * d > n}
<1>1. n \in Above
  BY Z3
<1>2. PICK k : k = Min(Above)
  OBVIOUS
<1>3. k \in Above /\ \A y \in Above : k <= y
  <2>1. Above # {} /\ Above \in SUBSET Nat
    BY <1>1
  <2>. HIDE DEF Above
  <2>. QED
    BY <1>2, <2>1, Least
<1>4. k \in Nat /\ (k + 1) * (k + 1) * d > n
  BY <1>3
<1>5. k * k * d <= n
  <2>1. CASE k = 0
    BY <2>1
  <2>2. CASE k # 0
    <3>1. k - 1 \in Nat /\ ~(k <= k - 1)
      BY <1>4, <2>2
    <3>2. k - 1 \notin Above
      BY <1>3, <3>1
    <3>3. ~(k * k * d > n)
      <4>1. PICK j \in Nat : j = k - 1 /\ j + 1 = k
        BY <1>4, <3>1
      <4>2. j \notin Above
        BY <3>2, <4>1
      <4>. QED
        BY <4>1, <4>2
    <3>. QED
      BY <1>4, <3>3
  <2>. QED
    BY <2>1, <2>2
<1>6. k <= k * k * d
  BY <1>4
<1>7. k \in 0 .. n
  BY <1>4, <1>5, <1>6
<1>. QED
  BY <1>4, <1>5, <1>7

\* The roots of n / d, rounded down and up.
AreRoots(f, g, n, d) ==
    /\ f * f * d <= n /\ (f + 1) * (f + 1) * d > n
    /\ g = IF f * f * d = n THEN f ELSE f + 1

RootError(v, n, d) == Size(v * v * d - n)

\* So is a root rounded down or up, with the sign of the best value.
LEMMA RootBest ==
    ASSUME NEW lo \in Int, NEW hi \in Int, lo <= 0, 0 <= hi, NEW q \in lo .. hi,
           NEW n \in Nat, NEW d \in Nat \ {0}, NEW f \in Nat, NEW g \in Nat,
           AreRoots(f, g, n, d)
    PROVE  \E v \in {f, g, -f, -g} : RootError(Between(v, lo, hi), n, d) <= RootError(q, n, d)
<1>1. n <= g * g * d /\ f * f * d <= n /\ (g = f \/ g = f + 1)
  BY DEF AreRoots
<1>2. PICK r \in Nat : r = Size(q) /\ r * r * d = q * q * d
  BY DEF Size
<1>3. CASE r <= f
  <2>1. PICK v \in {f, -f} : IF q >= 0 THEN v = f ELSE v = -f
    OBVIOUS
  <2>2. PICK m \in Int : m = Between(v, lo, hi)
    BY <2>1 DEF Between
  <2>3. PICK s \in Nat : s = Size(m) /\ r <= s /\ s <= f
    BY <1>2, <1>3, <2>1, <2>2 DEF Between, Size
  <2>4. s * s * d = m * m * d
    BY <2>3 DEF Size
  <2>5. r * r * d <= s * s * d /\ s * s * d <= f * f * d
    BY <2>3, Squares
  <2>6. RootError(m, n, d) <= RootError(q, n, d)
    BY <1>1, <1>2, <2>4, <2>5, Squares DEF Size, RootError
  <2>. QED
    BY <2>1, <2>2, <2>6
<1>4. CASE r > f
  <2>1. PICK v \in {g, -g} : IF q >= 0 THEN v = g ELSE v = -g
    OBVIOUS
  <2>2. g <= r
    BY <1>1, <1>4
  <2>3. Between(v, lo, hi) = v
    BY <1>2, <2>1, <2>2 DEF Between, Size
  <2>4. v \in Int /\ v * v * d = g * g * d
    BY <2>1
  <2>5. g * g * d <= r * r * d
    BY <2>2, Squares
  <2>6. RootError(v, n, d) <= RootError(q, n, d)
    BY <1>1, <1>2, <2>4, <2>5, Squares DEF Size, RootError
  <2>. QED
    BY <2>1, <2>3, <2>6
<1>. QED
  BY <1>2, <1>3, <1>4

LEMMA Decoded ==
    ASSUME NEW item \in Items, NEW q \in Int, NEW x \in Int
    PROVE  DecodeProcessed(item, q) \in Int /\ Distance(item, q, x) \in Nat
<1>1. item.a \in Int /\ item.b \in Int /\ item.c \in Int /\ item.alg \in {"AN", "AC", "ABC", "AAC"}
  BY DEF Items
<1>2. Unit * q \in Int /\ item.b * q \in Int /\ item.a * q * q \in Int
  BY <1>1 DEF Unit
<1>3. DecodeProcessed(item, q) \in Int
  BY <1>1, <1>2 DEF DecodeProcessed
<1>. QED
  BY <1>3 DEF Distance

\* prepare_raw_value answers the clamped candidate with the least error.
LEMMA LeastError ==
    ASSUME NEW item \in Items, NEW x \in Int, NEW n \in Nat \ {0}, NEW c, c = Candidates(item, x),
           DOMAIN c = 1 .. n, \A i \in 1 .. n : c[i] \in Int
    PROVE  \E k \in 1 .. n :
              /\ PrepareRaw(item, x) = ClampWire(item, c[k])
              /\ \A j \in 1 .. n : Distance(item, ClampWire(item, c[k]), x)
                                     <= Distance(item, ClampWire(item, c[j]), x)
<1>. DEFINE err  == [i \in 1 .. n |-> Distance(item, ClampWire(item, c[i]), x)]
            best == {i \in 1 .. n : \A j \in 1 .. n : err[i] <= err[j]}
            Errs == {err[i] : i \in 1 .. n}
<1>1. ASSUME NEW i \in 1 .. n PROVE err[i] \in Nat
  <2>1. ClampWire(item, c[i]) \in Int
    BY Clamps, Wires DEF WireRange
  <2>. QED
    BY <2>1, Decoded
<1>2. Errs \subseteq Nat /\ Errs # {}
  BY <1>1
<1>3. Min(Errs) \in Errs /\ \A y \in Errs : Min(Errs) <= y
  <2>. HIDE DEF Errs
  <2>. QED
    BY <1>2, Least
<1>4. PICK i \in 1 .. n : Min(Errs) = err[i]
  BY <1>3
<1>5. \A j \in 1 .. n : err[j] \in Errs
  OBVIOUS
<1>6. i \in best
  <2>. HIDE DEF err, Errs
  <2>. QED
    BY <1>3, <1>4, <1>5
<1>7. Min(best) \in best
  <2>1. best \subseteq Nat
    OBVIOUS
  <2>. HIDE DEF best
  <2>. QED
    BY <1>6, <2>1, Least
<1>8. PrepareRaw(item, x) = ClampWire(item, c[Min(best)])
  BY DEF PrepareRaw
<1>9. \A j \in 1 .. n : err[Min(best)] <= err[j]
  BY <1>7
<1>10. Min(best) \in 1 .. n
  BY <1>7
<1>. QED
  BY <1>8, <1>9, <1>10

\* How the algorithms come down to one of rounding and one of rounding roots.
LEMMA LinearCandidates ==
    ASSUME NEW num \in Int, NEW den \in Int \ {0}
    PROVE  \E D \in Nat \ {0}, N \in Int :
              /\ \A q \in Int : Size(den * q - num) = Size(D * q - N)
              /\ DOMAIN Around(num, den) = 1 .. 3
              /\ \A i \in 1 .. 3 : Around(num, den)[i] \in Int
              /\ Around(num, den)[2] = FloorOf(N, D) /\ Around(num, den)[3] = CeilOf(N, D)
<1>1. ASSUME NEW D \in Nat \ {0}, NEW N \in Int
      PROVE  RoundOf(N, D) \in Int /\ FloorOf(N, D) \in Int /\ CeilOf(N, D) \in Int
  BY DEF RoundOf, FloorOf, CeilOf
<1>2. CASE den > 0
  <2>1. den \in Nat \ {0}
    BY <1>2
  <2>2. Around(num, den) = <<RoundOf(num, den), FloorOf(num, den), CeilOf(num, den)>>
    BY <1>2 DEF Around
  <2>. QED
    BY <1>1, <2>1, <2>2
<1>3. CASE den < 0
  <2>1. -den \in Nat \ {0} /\ -num \in Int
    BY <1>3
  <2>2. Around(num, den) = <<RoundOf(-num, -den), FloorOf(-num, -den), CeilOf(-num, -den)>>
    BY <1>3 DEF Around
  <2>3. ASSUME NEW q \in Int PROVE Size(den * q - num) = Size((-den) * q - (-num))
    <3>1. (-den) * q - (-num) = -(den * q - num)
      OBVIOUS
    <3>. QED
      BY <3>1 DEF Size
  <2>. DEFINE D == -den
              N == -num
  <2>4. D \in Nat \ {0} /\ N \in Int /\ \A q \in Int : Size(den * q - num) = Size(D * q - N)
    BY <2>1, <2>3
  <2>5. Around(num, den) = <<RoundOf(N, D), FloorOf(N, D), CeilOf(N, D)>>
    BY <2>2
  <2>. HIDE DEF D, N
  <2>6. RoundOf(N, D) \in Int /\ FloorOf(N, D) \in Int /\ CeilOf(N, D) \in Int
    BY <1>1, <2>4
  <2>. USE <2>4
  <2>. WITNESS D \in Nat \ {0}, N \in Int
  <2>. QED
    BY <2>4, <2>5, <2>6
<1>. QED
  BY <1>2, <1>3

LEMMA RootCandidates ==
    ASSUME NEW num \in Int, NEW den \in Int \ {0}, num * den >= 0
    PROVE  \E d \in Nat \ {0}, n \in Nat, f \in Nat, g \in Nat :
              /\ \A q \in Int : Size(den * q * q - num) = RootError(q, n, d)
              /\ AreRoots(f, g, n, d)
              /\ DOMAIN AroundRoots(num, den) = 1 .. 6
              /\ \A i \in 1 .. 6 : AroundRoots(num, den)[i] \in Int
              /\ {AroundRoots(num, den)[i] : i \in {2, 3, 5, 6}} = {f, g, -g, -f}
<1>. DEFINE n     == IF den > 0 THEN num ELSE -num
            d     == IF den > 0 THEN den ELSE -den
            f     == CHOOSE k \in 0 .. n : k * k * d <= n /\ (k + 1) * (k + 1) * d > n
            g     == IF f * f * d = n THEN f ELSE f + 1
            round == IF (2 * f + 1) * (2 * f + 1) * d <= 4 * n THEN g ELSE f
<1>1. n \in Nat /\ d \in Nat \ {0}
  OBVIOUS
<1>2. ASSUME NEW q \in Int PROVE Size(den * q * q - num) = RootError(q, n, d)
  <2>1. q * q * d - n = IF den > 0 THEN den * q * q - num ELSE -(den * q * q - num)
    OBVIOUS
  <2>2. den * q * q - num \in Int
    OBVIOUS
  <2>. HIDE DEF n, d
  <2>. QED
    BY <2>1, <2>2 DEF Size, RootError
<1>3. AroundRoots(num, den) = <<round, f, g, -round, -g, -f>>
  BY DEF AroundRoots
<1>. HIDE DEF n, d
<1>4. f \in 0 .. n /\ f * f * d <= n /\ (f + 1) * (f + 1) * d > n
  BY <1>1, RootExists
<1>. HIDE DEF f
<1>5. f \in Nat /\ g \in Nat /\ round \in Nat /\ (g = IF f * f * d = n THEN f ELSE f + 1)
  BY <1>1, <1>4
<1>7. AreRoots(f, g, n, d)
  BY <1>4, <1>5 DEF AreRoots
<1>. HIDE DEF g, round
<1>6. /\ DOMAIN AroundRoots(num, den) = 1 .. 6
      /\ \A i \in 1 .. 6 : AroundRoots(num, den)[i] \in Int
      /\ {AroundRoots(num, den)[i] : i \in {2, 3, 5, 6}} = {f, g, -g, -f}
  BY <1>3, <1>5
<1>. USE <1>1, <1>5
<1>. WITNESS d \in Nat \ {0}, n \in Nat, f \in Nat, g \in Nat
<1>. QED
  BY <1>2, <1>6, <1>7

LEMMA DistanceIs ==
    ASSUME NEW item \in Items, NEW q \in Int, NEW x \in Int, NEW e \in Int,
           DecodeProcessed(item, q) = e + x
    PROVE  Distance(item, q, x) = Size(e)
BY DEF Distance, Size

\* prepare_raw_value finds the nearest value the field can stand for, whatever the
\* width, the algorithm and its coefficients, saturating where it must, and what it
\* finds survives the encoding (but where it answers value_out_of_range).
THEOREM NearestRaw ==
    ASSUME NEW item \in Items, NEW x \in Int, ~Refused(item, x)
    PROVE  /\ PrepareRaw(item, x) \in WireRange(item)
           /\ DecodeRaw(item, EncodeToBits(item, PrepareRaw(item, x))) = PrepareRaw(item, x)
           /\ \A q \in WireRange(item) :
                 Distance(item, PrepareRaw(item, x), x) <= Distance(item, q, x)
<1>1. /\ item.alg \in {"AN", "AC", "ABC", "AAC"}
      /\ item.a \in Int /\ item.b \in Int /\ item.c \in Int
  BY DEF Items
<1>2. PICK lo \in Int, hi \in Int :
        lo = WireMin(item) /\ hi = WireMax(item) /\ lo <= 0 /\ 0 <= hi
  BY Wires
<1>3. /\ WireRange(item) = lo .. hi
      /\ \A v \in Int : ClampWire(item, v) = Between(v, lo, hi) /\ Between(v, lo, hi) \in lo .. hi
  BY <1>2, Clamps DEF WireRange
<1>4. PICK c : c = Candidates(item, x)
  OBVIOUS
<1>. DEFINE Enough(n) ==
        /\ DOMAIN c = 1 .. n /\ \A i \in 1 .. n : c[i] \in Int
        /\ \A q \in lo .. hi : \E i \in 1 .. n :
              Distance(item, Between(c[i], lo, hi), x) <= Distance(item, q, x)
<1>5. PICK n \in Nat \ {0} : Enough(n)
  <2>1. ASSUME item.alg \in {"AN", "AC", "ABC"} PROVE Enough(3)
    <3>1. PICK num \in Int, den \in Int \ {0} :
            /\ c = Around(num, den)
            /\ \A q \in Int : DecodeProcessed(item, q) = den * q - num + x
      <4>1. CASE item.alg = "AN"
        <5>1. \A q \in Int : DecodeProcessed(item, q) = Unit * q - x + x
          BY <4>1 DEF DecodeProcessed, Unit
        <5>2. c = Around(x, Unit) /\ Unit \in Int \ {0}
          BY <1>4, <4>1 DEF Candidates, Unit
        <5>. QED
          BY <5>1, <5>2
      <4>2. CASE item.alg = "AC"
        <5>1. PICK num \in Int : num = x - item.c
          BY <1>1
        <5>2. \A q \in Int : DecodeProcessed(item, q) = Unit * q - num + x
          BY <1>1, <4>2, <5>1 DEF DecodeProcessed, Unit
        <5>3. c = Around(num, Unit) /\ Unit \in Int \ {0}
          BY <1>4, <4>2, <5>1 DEF Candidates, Unit
        <5>. QED
          BY <5>2, <5>3
      <4>3. CASE item.alg = "ABC"
        <5>1. PICK num \in Int, den \in Int \ {0} : num = x - item.c /\ den = item.b
          BY <1>1, <4>3 DEF Refused
        <5>2. \A q \in Int : DecodeProcessed(item, q) = den * q - num + x
          BY <1>1, <4>3, <5>1 DEF DecodeProcessed
        <5>3. c = Around(num, den)
          BY <1>4, <4>3, <5>1 DEF Candidates
        <5>. QED
          BY <5>2, <5>3
      <4>. QED
        BY <2>1, <4>1, <4>2, <4>3
    <3>2. PICK D \in Nat \ {0}, N \in Int :
            /\ \A q \in Int : Size(den * q - num) = Size(D * q - N)
            /\ DOMAIN Around(num, den) = 1 .. 3
            /\ \A i \in 1 .. 3 : Around(num, den)[i] \in Int
            /\ Around(num, den)[2] = FloorOf(N, D) /\ Around(num, den)[3] = CeilOf(N, D)
      BY LinearCandidates
    <3>3. ASSUME NEW q \in Int PROVE Distance(item, q, x) = Size(D * q - N)
      <4>1. den * q - num \in Int
        OBVIOUS
      <4>. QED
        BY <3>1, <3>2, <4>1, DistanceIs
    <3>4. ASSUME NEW q \in lo .. hi
          PROVE  \E i \in 1 .. 3 :
                    Distance(item, Between(c[i], lo, hi), x) <= Distance(item, q, x)
      <4>1. PICK v \in {FloorOf(N, D), CeilOf(N, D)} :
              Size(D * Between(v, lo, hi) - N) <= Size(D * q - N)
        BY LinearBest
      <4>2. PICK i \in 1 .. 3 : v = c[i] /\ v \in Int
        <5>1. v = Around(num, den)[2] \/ v = Around(num, den)[3]
          BY <3>2, <4>1
        <5>. QED
          BY <3>1, <3>2, <5>1
      <4>3. Between(v, lo, hi) \in Int /\ q \in Int
        BY <1>3, <4>2
      <4>4. /\ Distance(item, q, x) = Size(D * q - N)
            /\ Distance(item, Between(v, lo, hi), x) = Size(D * Between(v, lo, hi) - N)
        BY <3>3, <4>3
      <4>. QED
        BY <4>1, <4>2, <4>4
    <3>. QED
      BY <3>1, <3>2, <3>4
  <2>2. ASSUME item.alg = "AAC" PROVE Enough(6)
    <3>1. PICK num \in Int, den \in Int \ {0} :
            /\ num * den >= 0
            /\ c = AroundRoots(num, den)
            /\ \A q \in Int : DecodeProcessed(item, q) = den * q * q - num + x
      <4>1. PICK num \in Int, den \in Int \ {0} :
              num = x - item.c /\ den = item.a /\ num * den >= 0
        BY <1>1, <2>2 DEF Refused
      <4>2. \A q \in Int : DecodeProcessed(item, q) = den * q * q - num + x
        BY <1>1, <2>2, <4>1 DEF DecodeProcessed
      <4>3. c = AroundRoots(num, den)
        BY <1>4, <2>2, <4>1 DEF Candidates
      <4>. QED
        BY <4>1, <4>2, <4>3
    <3>2. PICK d \in Nat \ {0}, n \in Nat, f \in Nat, g \in Nat :
              /\ \A q \in Int : Size(den * q * q - num) = RootError(q, n, d)
              /\ AreRoots(f, g, n, d)
              /\ DOMAIN AroundRoots(num, den) = 1 .. 6
              /\ \A i \in 1 .. 6 : AroundRoots(num, den)[i] \in Int
              /\ {AroundRoots(num, den)[i] : i \in {2, 3, 5, 6}} = {f, g, -g, -f}
      BY <3>1, RootCandidates
    <3>3. ASSUME NEW q \in Int PROVE Distance(item, q, x) = RootError(q, n, d)
      <4>1. den * q * q - num \in Int
        OBVIOUS
      <4>. QED
        BY <3>1, <3>2, <4>1, DistanceIs
    <3>4. ASSUME NEW q \in lo .. hi
          PROVE  \E i \in 1 .. 6 :
                    Distance(item, Between(c[i], lo, hi), x) <= Distance(item, q, x)
      <4>1. PICK v \in {f, g, -f, -g} : RootError(Between(v, lo, hi), n, d) <= RootError(q, n, d)
        <5>1. AreRoots(f, g, n, d)
          BY <3>2
        <5>. HIDE DEF Enough
        <5>2. \E v \in {f, g, -f, -g} : RootError(Between(v, lo, hi), n, d) <= RootError(q, n, d)
          BY <1>2, <5>1, RootBest
        <5>. QED
          BY <5>2
      <4>2. PICK i \in {2, 3, 5, 6} : v = c[i]
        <5>1. v \in {AroundRoots(num, den)[i] : i \in {2, 3, 5, 6}}
          BY <3>2
        <5>. QED
          BY <3>1, <5>1
      <4>3. v \in Int /\ Between(v, lo, hi) \in Int /\ q \in Int /\ i \in 1 .. 6
        BY <1>3
      <4>4. /\ Distance(item, q, x) = RootError(q, n, d)
            /\ Distance(item, Between(v, lo, hi), x) = RootError(Between(v, lo, hi), n, d)
        BY <3>3, <4>3
      <4>. QED
        BY <4>1, <4>2, <4>3, <4>4
    <3>. QED
      BY <3>1, <3>2, <3>4
  <2>. HIDE DEF Enough
  <2>. QED
    BY <1>1, <2>1, <2>2
<1>6. PICK k \in 1 .. n :
        /\ PrepareRaw(item, x) = ClampWire(item, c[k])
        /\ \A j \in 1 .. n : Distance(item, ClampWire(item, c[k]), x)
                               <= Distance(item, ClampWire(item, c[j]), x)
  BY <1>4, <1>5, LeastError
<1>7. PrepareRaw(item, x) \in lo .. hi
  BY <1>3, <1>5, <1>6
<1>8. ASSUME NEW q \in lo .. hi
      PROVE  Distance(item, PrepareRaw(item, x), x) <= Distance(item, q, x)
  <2>1. PICK j \in 1 .. n : Distance(item, ClampWire(item, c[j]), x) <= Distance(item, q, x)
    BY <1>3, <1>5
  <2>2. /\ Distance(item, q, x) \in Nat /\ Distance(item, ClampWire(item, c[j]), x) \in Nat
        /\ Distance(item, PrepareRaw(item, x), x) \in Nat
    <3>1. q \in Int /\ PrepareRaw(item, x) \in Int /\ ClampWire(item, c[j]) \in Int
      BY <1>3, <1>5, <1>7
    <3>. QED
      BY <3>1, Decoded
  <2>. QED
    BY <1>6, <2>1, <2>2
<1>. QED
  BY <1>3, <1>7, <1>8, Wires

\* So none of the samples that TLC goes through is quantized badly.
THEOREM NoneFar == FarQuantized = {}
<1>1. SampleItems \subseteq Items
  BY DEF SampleItems, Item, Items
<1>2. QuantizedValues \subseteq Int
  BY DEF QuantizedValues
<1>3. ASSUME NEW sample \in SampleItems \X QuantizedValues, ~Refused(sample[1], sample[2])
      PROVE  LET item == sample[1]
                 x    == sample[2]
                 best == PrepareRaw(item, x)
             IN  /\ DecodeRaw(item, EncodeToBits(item, best)) = best
                 /\ \A q \in WireRange(item) :
                       ~(Distance(item, q, x) < Distance(item, best, x))
  <2>1. PICK item \in Items, x \in Int : item = sample[1] /\ x = sample[2]
    BY <1>1, <1>2
  <2>2. /\ PrepareRaw(item, x) \in WireRange(item)
        /\ DecodeRaw(item, EncodeToBits(item, PrepareRaw(item, x))) = PrepareRaw(item, x)
        /\ \A q \in WireRange(item) :
              Distance(item, PrepareRaw(item, x), x) <= Distance(item, q, x)
    BY <1>3, <2>1, NearestRaw
  <2>3. \A q \in WireRange(item) :
          Distance(item, q, x) \in Nat /\ Distance(item, PrepareRaw(item, x), x) \in Nat
    BY <2>2, Decoded, Wires DEF WireRange
  <2>4. \A q \in WireRange(item) :
          ~(Distance(item, q, x) < Distance(item, PrepareRaw(item, x), x))
    BY <2>2, <2>3
  <2>. QED
    BY <2>1, <2>2, <2>4
<1>. QED
  BY <1>3 DEF FarQuantized

\* A value that is quantized already stays as it is.
LEMMA ExactRaw ==
    ASSUME NEW item \in Items, item.alg \in {"AN", "AC"}, NEW q \in WireRange(item)
    PROVE  DecodeProcessed(item, q) \in Int /\ PrepareRaw(item, DecodeProcessed(item, q)) = q
<1>1. PICK c \in Int : \A k \in Int : DecodeProcessed(item, k) = 2 * k + c
  <2>1. item.c \in Int /\ 0 \in Int
    BY DEF Items
  <2>2. CASE item.alg = "AN"
    <3>1. \A k \in Int : DecodeProcessed(item, k) = 2 * k + 0
      BY <2>2 DEF DecodeProcessed, Unit
    <3>. QED
      BY <2>1, <3>1
  <2>3. CASE item.alg = "AC"
    <3>1. \A k \in Int : DecodeProcessed(item, k) = 2 * k + item.c
      BY <2>3 DEF DecodeProcessed, Unit
    <3>. QED
      BY <2>1, <3>1
  <2>. QED
    BY <2>2, <2>3
<1>2. q \in Int
  BY Wires DEF WireRange
<1>3. PICK x \in Int : x = DecodeProcessed(item, q) /\ x = 2 * q + c
  BY <1>1, <1>2
<1>4. PICK r \in WireRange(item) :
        r = PrepareRaw(item, x) /\ Distance(item, r, x) <= Distance(item, q, x)
  BY <1>3, NearestRaw DEF Refused
<1>5. r \in Int
  BY <1>4, Wires DEF WireRange
<1>6. Distance(item, q, x) = 0
  BY <1>3 DEF Distance
<1>7. PICK d \in Int : d = DecodeProcessed(item, r) - x /\ d = 2 * (r - q)
  BY <1>1, <1>2, <1>3, <1>5
<1>8. Distance(item, r, x) = IF d < 0 THEN -d ELSE d
  BY <1>7 DEF Distance
<1>9. r = q
  BY <1>2, <1>4, <1>5, <1>6, <1>7, <1>8
<1>. QED
  BY <1>3, <1>4, <1>9

\* What a field holds is zero only if the value quantizes to zero.
LEMMA ZeroRaw ==
    ASSUME NEW item \in Items, NEW q \in WireRange(item)
    PROVE  EncodeToBits(item, q) = 0 <=> q = 0
<1>1. 2^item.width \in Nat \ {0} /\ 2^(item.width - 1) \in Nat \ {0}
  <2>1. CASE item.width = 1
    BY <2>1
  <2>2. CASE item.width = 8
    BY <2>2
  <2>3. CASE item.width = 16
    BY <2>3
  <2>. QED
    BY <2>1, <2>2, <2>3 DEF Items
<1>2. 0 % 2^item.width = 0
  BY <1>1
<1>3. DecodeRaw(item, 0) = 0
  BY <1>1 DEF DecodeRaw
<1>. QED
  BY <1>2, <1>3, Wires DEF EncodeToBits

-------------------------------------------------------------------------------
(* Typed access to the model *)

Types == {"boolean", "int8", "uint8", "int16", "uint16", "float32", "ufloat32"}

\* A registry is a table of bindings sorted by id.
Sorted(registry) ==
    /\ \E n \in Nat : DOMAIN registry = 1 .. n /\ Len(registry) = n
    /\ \A i \in DOMAIN registry : registry[i].id \in Int
    /\ \A i, j \in DOMAIN registry : i < j => registry[i].id < registry[j].id

\* lower_bound finds the parameter with an id, and nothing for any other id.
THEOREM IdFindsItsOwn ==
    ASSUME NEW registry, Sorted(registry), NEW id \in Int
    PROVE  /\ FindBinding(registry, id) = 0 <=> \A i \in DOMAIN registry : registry[i].id # id
           /\ \A i \in DOMAIN registry : registry[i].id = id => FindBinding(registry, id) = i
<1>1. PICK n \in Nat : DOMAIN registry = 1 .. n /\ Len(registry) = n
  BY DEF Sorted
<1>. DEFINE S == {i \in DOMAIN registry : registry[i].id >= id} \cup {n + 1}
<1>2. PICK at : at = Min(S)
  OBVIOUS
<1>3. at \in S /\ \A y \in S : at <= y
  <2>1. S \in SUBSET Nat /\ S # {}
    BY <1>1
  <2>. HIDE DEF S
  <2>. QED
    BY <1>2, <2>1, Least
<1>4. FindBinding(registry, id) = IF at > n THEN 0 ELSE IF registry[at].id # id THEN 0 ELSE at
  BY <1>1, <1>2 DEF FindBinding
<1>5. at \in 1 .. n + 1 /\ (at <= n => registry[at].id >= id)
  BY <1>1, <1>3
<1>6. ASSUME NEW i \in 1 .. n, registry[i].id = id
      PROVE  at = i
  <2>1. i \in S
    BY <1>1, <1>6
  <2>2. at <= i /\ at \in 1 .. n
    BY <1>1, <1>3, <1>5, <2>1
  <2>3. ~(at < i)
    <3>1. at < i => registry[at].id < registry[i].id
      BY <1>1, <2>2 DEF Sorted
    <3>2. registry[at].id \in Int
      BY <1>1, <2>2 DEF Sorted
    <3>. QED
      BY <1>5, <1>6, <2>2, <3>1, <3>2
  <2>. QED
    BY <2>2, <2>3
<1>7. FindBinding(registry, id) = 0 <=> \A i \in 1 .. n : registry[i].id # id
  BY <1>4, <1>5, <1>6
<1>8. \A i \in 1 .. n : registry[i].id = id => FindBinding(registry, id) = i
  BY <1>4, <1>6
<1>. QED
  BY <1>1, <1>7, <1>8

\* The value that is to be stored: a switch is on if the value rounds to something
\* positive.
Wanted(type, x) == IF type = "boolean" THEN Between(Unit * RoundOf(x, Unit), 0, Unit) ELSE x

BindingOf(id, type) == [id |-> id, kind |-> ISIMKIND(type), domain |-> ISIMDOMAIN(type)]

\* What is stored is the nearest value the parameter can stand for, and an integer
\* is stored as if it were a float.
THEOREM NearestStored ==
    ASSUME NEW type \in Types, NEW id, NEW x \in Int
    PROVE  LET binding == BindingOf(id, type)
               float   == ISIMF32(binding, ISIMSETF32(binding, x))
               whole   == Unit * ISIMI32(binding, ISIMSETI32(binding, RoundOf(x, Unit)))
           IN  /\ float \in Int /\ Stands(type, float)
               /\ \A y \in Int : Stands(type, y) =>
                     Size(float - Wanted(type, x)) <= Size(y - Wanted(type, x))
               /\ x % Unit = 0 => whole = float
<1>. DEFINE binding == BindingOf(id, type)
            float   == ISIMF32(binding, ISIMSETF32(binding, x))
            whole   == Unit * ISIMI32(binding, ISIMSETI32(binding, RoundOf(x, Unit)))
<1>1. PICK r \in Int : r = RoundOf(x, Unit) /\ 2 * r - 1 <= x /\ x <= 2 * r + 1
  BY DEF RoundOf, Unit
<1>2. /\ binding.kind = ISIMKIND(type) /\ binding.domain = ISIMDOMAIN(type)
      /\ 2 ^ 7 = 128 /\ 2 ^ 8 = 256 /\ 2 ^ 15 = 32768 /\ 2 ^ 16 = 65536
  BY DEF BindingOf
<1>0. PICK fl, wh, wanted : fl = float /\ wh = whole /\ wanted = Wanted(type, x)
  OBVIOUS
<1>. DEFINE Good == /\ fl \in Int /\ Stands(type, fl)
                    /\ \A y \in Int : Stands(type, y) => Size(fl - wanted) <= Size(y - wanted)
                    /\ x % Unit = 0 => wh = fl
<1>3. ASSUME NEW lo \in Int, NEW hi \in Int, lo <= hi,
             \A y \in Int : Stands(type, y) <=> y % 2 = 0 /\ y \div 2 \in lo .. hi,
             fl = 2 * Between(r, lo, hi), wh = fl, wanted = x
      PROVE  Good
  <2>1. PICK v \in Int : v = Between(r, lo, hi) /\ v \in lo .. hi
    BY <1>3 DEF Between
  <2>2. (2 * v) % 2 = 0 /\ (2 * v) \div 2 = v /\ 2 * v \in Int
    OBVIOUS
  <2>3. ASSUME NEW y \in Int, Stands(type, y) PROVE Size(2 * v - x) <= Size(y - x)
    <3>1. PICK k \in lo .. hi : y = 2 * k
      BY <1>3, <2>3
    <3>. QED
      BY <1>1, <1>3, <2>1, <3>1 DEF Between, Size
  <2>. QED
    BY <1>3, <2>1, <2>2, <2>3
<1>. HIDE DEF binding
<1>4. ASSUME type = "boolean" PROVE Good
  <2>1. /\ binding.kind = "u8" /\ binding.domain = "binary"
    BY <1>2, <1>4 DEF ISIMKIND, ISIMDOMAIN
  <2>2. fl = (IF Between(r, 0, 255) # 0 THEN 2 ELSE 0) /\ wh = fl
    BY <1>0, <1>1, <1>2, <2>1 DEF ISIMF32, ISIMSETF32, ISIMI32, ISIMSETI32, WriteTyped, ClampKind, Unit
  <2>3. wanted = fl
    BY <1>0, <1>1, <1>4, <2>2 DEF Wanted, Between, Unit
  <2>4. fl \in {0, 2} /\ Stands(type, fl)
    BY <1>4, <2>2 DEF Stands, Unit
  <2>5. fl - wanted = 0 /\ \A y \in Int : Size(y - wanted) >= 0
    BY <2>3, <2>4 DEF Size
  <2>. QED
    BY <2>2, <2>4, <2>5 DEF Size
<1>5. ASSUME type = "uint8" PROVE Good
  <2>1. binding.kind = "u8" /\ binding.domain = "non_negative"
    BY <1>2, <1>5 DEF ISIMKIND, ISIMDOMAIN
  <2>2. PICK lo \in Int, hi \in Int : lo = 0 /\ hi = 255
    OBVIOUS
  <2>3. fl = 2 * Between(r, lo, hi) /\ wh = fl /\ wanted = x
    BY <1>0, <1>1, <1>2, <1>5, <2>1, <2>2
       DEF ISIMF32, ISIMSETF32, ISIMI32, ISIMSETI32, WriteTyped, ClampKind, Unit, Wanted
  <2>4. \A y \in Int : Stands(type, y) <=> y % 2 = 0 /\ y \div 2 \in lo .. hi
    BY <1>5, <2>2 DEF Stands, Unit
  <2>5. lo <= hi
    BY <2>2
  <2>. HIDE DEF Good
  <2>. QED
    BY <1>3, <2>3, <2>4, <2>5
<1>6. ASSUME type = "int8" PROVE Good
  <2>1. binding.kind = "s8" /\ binding.domain = "plain"
    BY <1>2, <1>6 DEF ISIMKIND, ISIMDOMAIN
  <2>2. PICK lo \in Int, hi \in Int : lo = -128 /\ hi = 127
    OBVIOUS
  <2>3. fl = 2 * Between(r, lo, hi) /\ wh = fl /\ wanted = x
    BY <1>0, <1>1, <1>2, <1>6, <2>1, <2>2
       DEF ISIMF32, ISIMSETF32, ISIMI32, ISIMSETI32, WriteTyped, ClampKind, Unit, Wanted
  <2>4. \A y \in Int : Stands(type, y) <=> y % 2 = 0 /\ y \div 2 \in lo .. hi
    BY <1>6, <2>2 DEF Stands, Unit
  <2>5. lo <= hi
    BY <2>2
  <2>. HIDE DEF Good
  <2>. QED
    BY <1>3, <2>3, <2>4, <2>5
<1>7. ASSUME type = "uint16" PROVE Good
  <2>1. binding.kind = "u16" /\ binding.domain = "non_negative"
    BY <1>2, <1>7 DEF ISIMKIND, ISIMDOMAIN
  <2>2. PICK lo \in Int, hi \in Int : lo = 0 /\ hi = 65535
    OBVIOUS
  <2>3. fl = 2 * Between(r, lo, hi) /\ wh = fl /\ wanted = x
    BY <1>0, <1>1, <1>2, <1>7, <2>1, <2>2
       DEF ISIMF32, ISIMSETF32, ISIMI32, ISIMSETI32, WriteTyped, ClampKind, Unit, Wanted
  <2>4. \A y \in Int : Stands(type, y) <=> y % 2 = 0 /\ y \div 2 \in lo .. hi
    BY <1>7, <2>2 DEF Stands, Unit
  <2>5. lo <= hi
    BY <2>2
  <2>. HIDE DEF Good
  <2>. QED
    BY <1>3, <2>3, <2>4, <2>5
<1>8. ASSUME type = "int16" PROVE Good
  <2>1. binding.kind = "s16" /\ binding.domain = "plain"
    BY <1>2, <1>8 DEF ISIMKIND, ISIMDOMAIN
  <2>2. PICK lo \in Int, hi \in Int : lo = -32768 /\ hi = 32767
    OBVIOUS
  <2>3. fl = 2 * Between(r, lo, hi) /\ wh = fl /\ wanted = x
    BY <1>0, <1>1, <1>2, <1>8, <2>1, <2>2
       DEF ISIMF32, ISIMSETF32, ISIMI32, ISIMSETI32, WriteTyped, ClampKind, Unit, Wanted
  <2>4. \A y \in Int : Stands(type, y) <=> y % 2 = 0 /\ y \div 2 \in lo .. hi
    BY <1>8, <2>2 DEF Stands, Unit
  <2>5. lo <= hi
    BY <2>2
  <2>. HIDE DEF Good
  <2>. QED
    BY <1>3, <2>3, <2>4, <2>5
<1>9. ASSUME type \in {"float32", "ufloat32"} PROVE Good
  <2>1. binding.kind = "f32" /\ binding.domain = (IF type = "ufloat32" THEN "non_negative" ELSE "plain")
    BY <1>2, <1>9 DEF ISIMKIND, ISIMDOMAIN
  <2>2. fl = (IF type = "ufloat32" /\ x < 0 THEN 0 ELSE x) /\ wanted = x
    BY <1>0, <1>9, <2>1 DEF ISIMF32, ISIMSETF32, WriteTyped, Wanted
  <2>3. ASSUME x % Unit = 0 PROVE wh = fl
    <3>1. x = 2 * r
      BY <1>1, <2>3 DEF Unit
    <3>2. ISIMSETI32(binding, r) = fl
      BY <1>1, <2>1, <2>2, <3>1 DEF ISIMSETI32, WriteTyped, Unit
    <3>3. wh = 2 * RoundOf(fl, 2)
      BY <1>0, <1>1, <2>1, <3>2 DEF ISIMI32, Unit
    <3>4. fl = 2 * r \/ fl = 0
      BY <2>2, <3>1
    <3>5. \A e \in Int : RoundOf(2 * e, 2) = e
      BY DEF RoundOf
    <3>6. RoundOf(2 * r, 2) = r /\ RoundOf(2 * 0, 2) = 0
      BY <3>5
    <3>. QED
      BY <3>3, <3>4, <3>6
  <2>4. \A y \in Int : Stands(type, y) <=> (type = "ufloat32" => y >= 0)
    <3>1. CASE type = "float32"
      BY <3>1 DEF Stands
    <3>2. CASE type = "ufloat32"
      BY <3>2 DEF Stands
    <3>. QED
      BY <1>9, <3>1, <3>2
  <2>5. fl \in Int /\ Stands(type, fl)
    BY <2>2, <2>4
  <2>6. ASSUME NEW y \in Int, Stands(type, y) PROVE Size(fl - wanted) <= Size(y - wanted)
    BY <2>2, <2>4, <2>6 DEF Size
  <2>. QED
    BY <2>3, <2>5, <2>6
<1>10. type \in {"boolean", "uint8", "int8", "uint16", "int16", "float32", "ufloat32"}
  BY DEF Types
<1>. HIDE DEF float, whole, Good
<1>11. Good
  BY <1>4, <1>5, <1>6, <1>7, <1>8, <1>9, <1>10
<1>. QED
  BY <1>0, <1>11 DEF binding, float, whole, Good

\* So the table with a parameter of every type keeps every sample that TLC goes
\* through.
THEOREM NoneMisplaced == WrongIds = {} /\ WrongStored = {}
<1>. DEFINE types == <<"boolean", "int8", "uint8", "int16", "uint16", "float32", "ufloat32">>
<1>1. /\ DOMAIN SampleTable = 1 .. 7
      /\ \A i \in 1 .. 7 : SampleTable[i] = [id |-> 2 * i, type |-> types[i]]
      /\ \A i \in 1 .. 7 : types[i] \in Types
  BY DEF SampleTable, Types
<1>2. /\ DOMAIN Registry = 1 .. 7 /\ Len(Registry) = 7
      /\ \A i \in 1 .. 7 : Registry[i] = BindingOf(2 * i, types[i]) /\ Registry[i].id = 2 * i
  <2>1. Registry = [i \in 1 .. 7 |-> [id     |-> SampleTable[i].id,
                                     kind   |-> ISIMKIND(SampleTable[i].type),
                                     domain |-> ISIMDOMAIN(SampleTable[i].type)]]
    BY <1>1 DEF Registry, ISIMREG_BUILD
  <2>2. Len(Registry) = 7
    BY <2>1
  <2>. QED
    BY <1>1, <2>1, <2>2 DEF BindingOf
<1>. HIDE DEF types
<1>3. Sorted(Registry)
  <2>1. \A i, j \in 1 .. 7 : i < j => Registry[i].id < Registry[j].id
    BY <1>2
  <2>. QED
    BY <1>2, <2>1 DEF Sorted
<1>4. WrongIds = {}
  <2>1. ASSUME NEW id \in 0 .. 16
        PROVE  FindBinding(Registry, id) = 0
                 <=> ~ \E i \in DOMAIN SampleTable : SampleTable[i].id = id
    <3>1. FindBinding(Registry, id) = 0 <=> \A i \in 1 .. 7 : Registry[i].id # id
      BY <1>2, <1>3, IdFindsItsOwn
    <3>2. \A i \in 1 .. 7 : SampleTable[i].id = Registry[i].id
      BY <1>1, <1>2
    <3>. QED
      BY <1>1, <3>1, <3>2
  <2>. QED
    BY <2>1 DEF WrongIds
<1>5. WrongStored = {}
  <2>1. ASSUME NEW sample \in (DOMAIN SampleTable) \X SampleStored
        PROVE  LET i       == sample[1]
                   x       == sample[2]
                   type    == SampleTable[i].type
                   binding == Registry[FindBinding(Registry, SampleTable[i].id)]
                   target  == IF type = "boolean"
                              THEN Between(Unit * RoundOf(x, Unit), 0, Unit) ELSE x
                   float   == ISIMF32(binding, ISIMSETF32(binding, x))
                   whole   == Unit * ISIMI32(binding, ISIMSETI32(binding, RoundOf(x, Unit)))
                   error   == IF float < target THEN target - float ELSE float - target
               IN  ~ \/ ~Stands(type, float)
                     \/ \E d \in 0 .. error - 1 : Stands(type, target - d) \/ Stands(type, target + d)
                     \/ x % Unit = 0 /\ whole # float
    <3>1. PICK i \in 1 .. 7, x \in Int : i = sample[1] /\ x = sample[2]
      BY <1>1 DEF SampleStored
    <3>2. PICK type \in Types : type = SampleTable[i].type /\ type = types[i]
      BY <1>1
    <3>3. PICK binding : /\ binding = Registry[FindBinding(Registry, SampleTable[i].id)]
                         /\ binding = BindingOf(2 * i, type)
      <4>1. FindBinding(Registry, 2 * i) = i
        BY <1>2, <1>3, IdFindsItsOwn
      <4>. QED
        BY <1>1, <1>2, <3>2, <4>1
    <3>4. PICK float, whole, target :
            /\ float = ISIMF32(binding, ISIMSETF32(binding, x))
            /\ whole = Unit * ISIMI32(binding, ISIMSETI32(binding, RoundOf(x, Unit)))
            /\ target = IF type = "boolean"
                        THEN Between(Unit * RoundOf(x, Unit), 0, Unit) ELSE x
      OBVIOUS
    <3>5. /\ float \in Int /\ Stands(type, float)
          /\ \A y \in Int : Stands(type, y) => Size(float - target) <= Size(y - target)
          /\ x % Unit = 0 => whole = float
      <4>1. target = Wanted(type, x)
        BY <3>4 DEF Wanted
      <4>. QED
        BY <3>3, <3>4, <4>1, NearestStored
    <3>6. target \in Int
      BY <3>4 DEF Between, RoundOf, Unit
    <3>7. ASSUME NEW d \in 0 .. Size(float - target) - 1
          PROVE  ~Stands(type, target - d) /\ ~Stands(type, target + d)
      <4>1. Size((target - d) - target) = d /\ Size((target + d) - target) = d
        BY <3>5, <3>6, <3>7 DEF Size
      <4>2. PICK low \in Int, high \in Int : low = target - d /\ high = target + d
        BY <3>6
      <4>3. ~(Size(float - target) <= d)
        BY <3>5, <3>6, <3>7 DEF Size
      <4>4. ~Stands(type, low) /\ ~Stands(type, high)
        BY <3>5, <4>1, <4>2, <4>3
      <4>. QED
        BY <4>2, <4>4
    <3>8. Size(float - target) = IF float < target THEN target - float ELSE float - target
      BY <3>5, <3>6 DEF Size
    <3>. QED
      BY <3>1, <3>2, <3>3, <3>4, <3>5, <3>7, <3>8
  <2>. QED
    BY <2>1 DEF WrongStored
<1>. QED
  BY <1>4, <1>5

-------------------------------------------------------------------------------
(* Bits of a word *)

\* What holds at 0 and is handed on by every step holds everywhere.
LEMMA Induction ==
    ASSUME NEW n \in Nat, NEW S, 0 \in S, \A i \in 1 .. n : i - 1 \in S => i \in S
    PROVE  0 .. n \subseteq S
<1>. DEFINE Bad == {i \in 0 .. n : i \notin S}
<1>1. ASSUME Bad # {} PROVE FALSE
  <2>1. PICK k : k = Min(Bad)
    OBVIOUS
  <2>2. k \in Bad /\ \A y \in Bad : k <= y
    <3>1. Bad \in SUBSET Nat
      OBVIOUS
    <3>. HIDE DEF Bad
    <3>. QED
      BY <1>1, <2>1, <3>1, Least
  <2>3. k \in 1 .. n
    BY <2>2
  <2>4. k - 1 \notin Bad
    BY <2>2, <2>3
  <2>. QED
    BY <2>2, <2>3, <2>4
<1>. QED
  BY <1>1

\* n divided by d is q, remainder r.
IsDivision(n, d, q, r) ==
    d \in Nat \ {0} /\ q \in Int /\ r \in 0 .. d - 1 /\ n = d * q + r

\* A remainder below the divisor is the remainder.
LEMMA Division ==
    ASSUME NEW n, NEW d, NEW q, NEW r, IsDivision(n, d, q, r)
    PROVE  n \div d = q /\ n % d = r
<1>0. n \in Int /\ d \in Nat \ {0} /\ q \in Int /\ r \in 0 .. d - 1 /\ n = d * q + r
  BY DEF IsDivision
<1>1. PICK h \in Int : h = n \div d /\ d * h <= n /\ n < d * (h + 1)
  BY <1>0
<1>2. d * (h + 1) = d * h + d /\ d * (q + 1) = d * q + d
  BY <1>0
<1>3. h + 1 <= q => d * (h + 1) <= d * q
  BY <1>0, <1>1, Products
<1>4. q + 1 <= h => d * (q + 1) <= d * h
  BY <1>0, <1>1, Products
<1>5. h = q
  <2>. DEFINE a == d * h
              b == d * q
  <2>1. a \in Int /\ b \in Int
    BY <1>0, <1>1
  <2>2. d * (h + 1) = a + d /\ d * (q + 1) = b + d
    BY <1>2
  <2>. HIDE DEF a, b
  <2>3. n = b + r
    BY <1>0 DEF b
  <2>4. a <= n /\ n < a + d
    BY <1>1, <2>2 DEF a
  <2>5. (h + 1 <= q => a + d <= b) /\ (q + 1 <= h => b + d <= a)
    BY <1>3, <1>4, <2>2 DEF a, b
  <2>. QED
    BY <1>0, <2>1, <2>3, <2>4, <2>5
<1>6. n % d \in 0 .. d - 1 /\ n = d * (n \div d) + (n % d)
  BY <1>0
<1>. QED
  BY <1>0, <1>1, <1>5, <1>6

\* 2^n, to the provers a function like any other.
P2(n) == 2^n

\* The powers of two a word has places for double from step to step ...
LEMMA PowerStep ==
    ASSUME NEW n \in 1 .. 16
    PROVE  P2(n) \in Nat \ {0} /\ P2(n) = 2 * P2(n - 1)
<1>1. CASE n = 1
  BY <1>1 DEF P2
<1>2. CASE n = 2
  BY <1>2 DEF P2
<1>3. CASE n = 3
  BY <1>3 DEF P2
<1>4. CASE n = 4
  BY <1>4 DEF P2
<1>5. CASE n = 5
  BY <1>5 DEF P2
<1>6. CASE n = 6
  BY <1>6 DEF P2
<1>7. CASE n = 7
  BY <1>7 DEF P2
<1>8. CASE n = 8
  BY <1>8 DEF P2
<1>9. CASE n = 9
  BY <1>9 DEF P2
<1>10. CASE n = 10
  BY <1>10 DEF P2
<1>11. CASE n = 11
  BY <1>11 DEF P2
<1>12. CASE n = 12
  BY <1>12 DEF P2
<1>13. CASE n = 13
  BY <1>13 DEF P2
<1>14. CASE n = 14
  BY <1>14 DEF P2
<1>15. CASE n = 15
  BY <1>15 DEF P2
<1>16. CASE n = 16
  BY <1>16 DEF P2
<1>. QED
  BY <1>1, <1>2, <1>3, <1>4, <1>5, <1>6, <1>7, <1>8, <1>9, <1>10, <1>11, <1>12, <1>13, <1>14,
     <1>15, <1>16

\* ... and so multiply.
LEMMA Powers ==
    ASSUME NEW a \in 0 .. 16
    PROVE  P2(a) \in Nat \ {0} /\ \A b \in 0 .. 16 - a : P2(a + b) = P2(a) * P2(b)
<1>0. P2(0) = 1
  BY DEF P2
<1>1. P2(a) \in Nat \ {0}
  BY <1>0, PowerStep
<1>. DEFINE S == {b \in 0 .. 16 - a : P2(a + b) = P2(a) * P2(b)}
<1>2. 0 \in S
  BY <1>0, <1>1
<1>3. ASSUME NEW b \in 1 .. 16 - a, b - 1 \in S PROVE b \in S
  <2>1. PICK n \in 1 .. 16 : n = a + b /\ n - 1 = a + (b - 1)
    OBVIOUS
  <2>2. P2(n) = 2 * P2(n - 1) /\ P2(b) = 2 * P2(b - 1) /\ P2(b - 1) \in Nat
    <3>1. b \in 1 .. 16 /\ (b = 1 \/ b - 1 \in 1 .. 16)
      OBVIOUS
    <3>. QED
      BY <1>0, <3>1, PowerStep
  <2>3. P2(n - 1) = P2(a) * P2(b - 1)
    BY <1>3, <2>1
  <2>4. P2(n) = P2(a) * P2(b)
    BY <1>1, <2>2, <2>3
  <2>. QED
    BY <2>1, <2>4
<1>4. 0 .. 16 - a \subseteq S
  <2>. HIDE DEF S
  <2>. QED
    BY <1>2, <1>3, Induction
<1>. QED
  BY <1>1, <1>4

\* Bits [o, o + w) of a word.
IsField(o, w) == o \in 0 .. 16 /\ w \in 0 .. 16 - o

\* The powers of two that bound a field.
LEMMA PowerSum ==
    ASSUME NEW o, NEW w, IsField(o, w)
    PROVE  /\ P2(o) \in Nat \ {0} /\ P2(w) \in Nat \ {0}
           /\ P2(o) * P2(w) \in Nat \ {0} /\ P2(o + w) = P2(o) * P2(w)
<1>1. P2(o) \in Nat \ {0} /\ P2(w) \in Nat \ {0}
  <2>1. o \in 0 .. 16 /\ w \in 0 .. 16
    BY DEF IsField
  <2>. QED
    BY <2>1, Powers
<1>2. P2(o + w) = P2(o) * P2(w)
  BY Powers DEF IsField
<1>3. \A p, m \in Nat \ {0} : p * m \in Nat \ {0}
  OBVIOUS
<1>. QED
  BY <1>1, <1>2, <1>3

\* The parts of a word around a field.
Parts(word, o, w, low, mid, high) ==
    /\ low \in 0 .. P2(o) - 1 /\ mid \in 0 .. P2(w) - 1 /\ high \in Nat
    /\ word = low + P2(o) * mid + P2(o + w) * high

\* There is one way to take a word apart.
LEMMA PartsOf ==
    ASSUME NEW o, NEW w, IsField(o, w), NEW word, NEW low, NEW mid, NEW high,
           Parts(word, o, w, low, mid, high)
    PROVE  /\ word \in Nat /\ word % P2(o) = low
           /\ Bits(word, o, w) = mid /\ word \div P2(o + w) = high
<1>1. PICK p \in Nat \ {0}, m \in Nat \ {0} :
        p = P2(o) /\ m = P2(w) /\ P2(o + w) = p * m /\ p * m \in Nat \ {0}
  BY PowerSum
<1>2. low \in 0 .. p - 1 /\ mid \in 0 .. m - 1 /\ high \in Nat
  BY <1>1 DEF Parts
<1>3. word = low + p * mid + (p * m) * high
  BY <1>1 DEF Parts
<1>4. word = p * (mid + m * high) + low /\ mid + m * high \in Nat /\ word \in Nat
  BY <1>2, <1>3
<1>5. word \div p = mid + m * high /\ word % p = low
  <2>1. IsDivision(word, p, mid + m * high, low)
    BY <1>2, <1>4 DEF IsDivision
  <2>. QED
    BY <2>1, Division
<1>6. (mid + m * high) % m = mid
  <2>1. IsDivision(mid + m * high, m, high, mid)
    BY <1>2, <1>4 DEF IsDivision
  <2>. QED
    BY <2>1, Division
<1>7. low + p * mid \in 0 .. p * m - 1
  <2>1. p * mid <= p * (m - 1) /\ p * mid \in Nat
    BY <1>2, Products
  <2>2. p * (m - 1) = p * m - p
    OBVIOUS
  <2>. QED
    BY <1>1, <1>2, <2>1, <2>2
<1>8. word \div (p * m) = high
  <2>1. word = (p * m) * high + (low + p * mid)
    BY <1>2, <1>3
  <2>2. IsDivision(word, p * m, high, low + p * mid)
    BY <1>1, <1>2, <1>7, <2>1 DEF IsDivision
  <2>. QED
    BY <2>2, Division
<1>9. Bits(word, o, w) = (word \div p) % m
  BY <1>1 DEF Bits, P2
<1>. QED
  BY <1>1, <1>4, <1>5, <1>6, <1>8, <1>9

\* And there is one.
LEMMA PartsExist ==
    ASSUME NEW o, NEW w, IsField(o, w), NEW word \in Nat
    PROVE  Parts(word, o, w, word % P2(o), Bits(word, o, w), word \div P2(o + w))
<1>1. PICK p \in Nat \ {0}, m \in Nat \ {0} :
        p = P2(o) /\ m = P2(w) /\ P2(o + w) = p * m
  BY PowerSum
<1>2. PICK a \in Nat, low \in 0 .. p - 1 :
        a = word \div p /\ low = word % p /\ word = p * a + low
  <2>1. word \div p \in Nat /\ word % p \in 0 .. p - 1 /\ word = p * (word \div p) + (word % p)
    OBVIOUS
  <2>. QED
    BY <2>1
<1>3. PICK high \in Nat, mid \in 0 .. m - 1 :
        high = a \div m /\ mid = a % m /\ a = m * high + mid
  <2>1. a \div m \in Nat /\ a % m \in 0 .. m - 1 /\ a = m * (a \div m) + (a % m)
    OBVIOUS
  <2>. QED
    BY <2>1
<1>4. p * (m * high + mid) + low = low + p * mid + (p * m) * high
  OBVIOUS
<1>5. Parts(word, o, w, low, mid, high)
  BY <1>1, <1>2, <1>3, <1>4 DEF Parts
<1>. QED
  BY <1>5, <1>1, <1>2, PartsOf

\* What lies below a field, and what lies above it, is seen without the field.
LEMMA BitsBelow ==
    ASSUME NEW k, NEW n, IsField(k, n), NEW o \in 0 .. 16, k + n <= o, NEW word \in Nat
    PROVE  Bits(word, k, n) = Bits(word % P2(o), k, n)
<1>1. PICK d \in Nat \ {0}, e \in Nat \ {0} :
        d = P2(k + n) /\ e = P2(o - (k + n)) /\ P2(o) = d * e /\ d * e \in Nat \ {0}
  <2>1. IsField(k + n, o - (k + n)) /\ (k + n) + (o - (k + n)) = o
    BY DEF IsField
  <2>. QED
    BY <2>1, PowerSum
<1>2. PICK A \in Nat, r \in Nat : r = word % P2(o) /\ word = (d * e) * A + r
  <2>. DEFINE f == d * e
  <2>1. f \in Nat \ {0} /\ f = P2(o)
    BY <1>1
  <2>. HIDE DEF f
  <2>2. word \div f \in Nat /\ word % f \in Nat /\ word = f * (word \div f) + (word % f)
    BY <2>1
  <2>3. \E A \in Nat, r \in Nat : r = word % P2(o) /\ word = f * A + r
    BY <2>1, <2>2
  <2>. QED
    BY <2>3 DEF f
<1>3. PICK low, mid, high : Parts(r, k, n, low, mid, high)
  BY PartsExist
<1>4. PICK a \in Nat : a = P2(k) * mid
  <2>1. P2(k) \in Nat /\ P2(n) \in Nat /\ mid \in 0 .. P2(n) - 1
    BY <1>3, PowerSum DEF Parts
  <2>2. \A x, y \in Nat : x * y \in Nat
    OBVIOUS
  <2>. QED
    BY <2>1, <2>2
<1>5. r = low + a + d * high /\ low \in Nat /\ high \in Nat
  BY <1>1, <1>3, <1>4, PowerSum DEF Parts, IsField
<1>6. word = low + a + d * (high + e * A) /\ high + e * A \in Nat
  BY <1>2, <1>5
<1>7. Parts(word, k, n, low, mid, high + e * A)
  BY <1>1, <1>3, <1>4, <1>6 DEF Parts
<1>. QED
  BY <1>2, <1>3, <1>7, PartsOf

\* What lies above a field is seen in what is left without it.
LEMMA BitsAbove ==
    ASSUME NEW k, NEW n, IsField(k, n), NEW o \in 0 .. k, NEW word \in Nat
    PROVE  Bits(word, k, n) = Bits(word \div P2(o), k - o, n)
<1>1. PICK p \in Nat \ {0}, e \in Nat \ {0} :
        p = P2(o) /\ e = P2(k - o) /\ P2(k) = p * e /\ p * e \in Nat \ {0}
  <2>1. o \in 0 .. 16 /\ k - o \in 0 .. 16 - o /\ o + (k - o) = k
    BY DEF IsField
  <2>. QED
    BY <2>1, PowerSum DEF IsField
<1>2. PICK A \in Nat, r \in 0 .. p - 1 : A = word \div P2(o) /\ word = p * A + r
  <2>1. word \div p \in Nat /\ word % p \in 0 .. p - 1 /\ word = p * (word \div p) + (word % p)
    OBVIOUS
  <2>. QED
    BY <1>1, <2>1
<1>3. PICK B \in Nat, s \in 0 .. e - 1 : B = A \div e /\ A = e * B + s
  <2>1. A \div e \in Nat /\ A % e \in 0 .. e - 1 /\ A = e * (A \div e) + (A % e)
    OBVIOUS
  <2>. QED
    BY <2>1
<1>4. word = (p * e) * B + (p * s + r)
  BY <1>2, <1>3
<1>5. p * s + r \in 0 .. p * e - 1
  <2>1. p * s <= p * (e - 1) /\ p * s \in Nat
    BY Products
  <2>2. p * (e - 1) = p * e - p
    OBVIOUS
  <2>. QED
    BY <1>1, <2>1, <2>2
<1>6. word \div (p * e) = B
  <2>1. IsDivision(word, p * e, B, p * s + r)
    BY <1>1, <1>4, <1>5 DEF IsDivision
  <2>. QED
    BY <2>1, Division
<1>. QED
  BY <1>1, <1>2, <1>3, <1>6 DEF Bits, P2

\* A field that is written reads back, and no other field of the word changes.
LEMMA FieldWritten ==
    ASSUME NEW o, NEW w, IsField(o, w), NEW word \in Word, NEW v \in Int
    PROVE  /\ WithBits(word, o, w, v) \in Word
           /\ Bits(WithBits(word, o, w, v), o, w) = v % P2(w)
           /\ \A k, n : IsField(k, n) /\ (k + n <= o \/ o + w <= k) =>
                 Bits(WithBits(word, o, w, v), k, n) = Bits(word, k, n)
<1>. DEFINE new == WithBits(word, o, w, v)
<1>1. P2(16) = 65536 /\ word \in Nat /\ word < P2(16)
  <2>1. P2(16) = 65536
    BY DEF P2
  <2>. QED
    BY <2>1 DEF Word
<1>2. PICK p \in Nat \ {0}, m \in Nat \ {0} :
        p = P2(o) /\ m = P2(w) /\ P2(o + w) = p * m
  BY PowerSum
<1>3. PICK low, mid, high :
        /\ low = word % p /\ mid = Bits(word, o, w) /\ high = word \div P2(o + w)
        /\ Parts(word, o, w, low, mid, high)
  BY <1>1, <1>2, PartsExist
<1>4. PICK u \in 0 .. m - 1 : u = v % m
  OBVIOUS
<1>5. word = low + p * mid + P2(o + w) * high /\ mid \in Int /\ low \in Nat /\ high \in Nat
  BY <1>2, <1>3 DEF Parts
<1>6. new = word + (u - mid) * p
  BY <1>2, <1>3, <1>4 DEF WithBits, P2
<1>7. Parts(new, o, w, low, u, high)
  <2>1. (u - mid) * p = p * u - p * mid
    BY <1>5
  <2>2. P2(o + w) * high \in Int /\ p * mid \in Int /\ p * u \in Int
    BY <1>2, <1>5
  <2>3. new = low + p * u + P2(o + w) * high
    BY <1>5, <1>6, <2>1, <2>2
  <2>. QED
    BY <1>2, <1>3, <1>4, <2>3 DEF Parts
<1>8. new \in Nat /\ new % p = low /\ Bits(new, o, w) = u /\ new \div P2(o + w) = high
  BY <1>2, <1>7, PartsOf
<1>. HIDE DEF new
<1>9. new \in Word
  <2>1. PICK d \in Nat \ {0}, e \in Nat \ {0} : d = P2(o + w) /\ e = P2(16 - (o + w)) /\ P2(16) = d * e
    <3>1. IsField(o + w, 16 - (o + w)) /\ (o + w) + (16 - (o + w)) = 16
      BY DEF IsField
    <3>. QED
      BY <3>1, PowerSum
  <2>2. d * high <= word /\ new < d * (high + 1)
    <3>1. \A x \in Nat : d * (x \div d) <= x /\ x < d * (x \div d + 1)
      OBVIOUS
    <3>. QED
      BY <1>1, <1>3, <1>8, <2>1, <3>1
  <2>3. e <= high => d * e <= d * high
    BY <1>5, Products
  <2>4. high + 1 <= e
    BY <1>1, <1>5, <2>1, <2>2, <2>3
  <2>5. d * (high + 1) <= d * e
    BY <1>5, <2>4, Products
  <2>6. new < 65536
    BY <1>1, <1>5, <1>8, <2>1, <2>2, <2>5
  <2>. QED
    BY <1>8, <2>6 DEF Word
<1>10. ASSUME NEW k, NEW n, IsField(k, n), k + n <= o PROVE Bits(new, k, n) = Bits(word, k, n)
  <2>1. o \in 0 .. 16 /\ new % P2(o) = word % P2(o)
    BY <1>2, <1>3, <1>8 DEF IsField
  <2>. QED
    BY <1>1, <1>8, <1>10, <2>1, BitsBelow
<1>11. ASSUME NEW k, NEW n, IsField(k, n), o + w <= k PROVE Bits(new, k, n) = Bits(word, k, n)
  <2>1. o + w \in 0 .. k
    BY <1>11 DEF IsField
  <2>. QED
    BY <1>1, <1>3, <1>8, <1>11, <2>1, BitsAbove
<1>. QED
  BY <1>2, <1>4, <1>8, <1>9, <1>10, <1>11 DEF new

-------------------------------------------------------------------------------
(* Bytes and blocks *)

\* A loop of n steps over states in B, and a run of it.
IsStep(step, n, B) == step \in [(1 .. n) \X B -> B]
IsRun(f, n, B, start, step) ==
    f \in [0 .. n -> B] /\ f[0] = start /\ \A i \in 1 .. n : f[i] = step[<<i, f[i - 1]>>]

\* A loop runs: n steps, each of them from what the one before has left.
LEMMA Loop ==
    ASSUME NEW n \in Nat, NEW B, NEW start \in B, NEW step, IsStep(step, n, B)
    PROVE  \E f : IsRun(f, n, B, start, step)
<1>. DEFINE Runs(f, k) == f \in [0 .. k -> B] /\ f[0] = start
                          /\ \A i \in 1 .. k : f[i] = step[<<i, f[i - 1]>>]
            S == {k \in 0 .. n : \E f : Runs(f, k)}
<1>1. 0 \in S
  <2>1. Runs([i \in 0 .. 0 |-> start], 0)
    OBVIOUS
  <2>. HIDE DEF Runs
  <2>2. \E f : Runs(f, 0)
    BY <2>1
  <2>. QED
    BY <2>2
<1>2. ASSUME NEW k \in 1 .. n, k - 1 \in S PROVE k \in S
  <2>1. PICK f : Runs(f, k - 1)
    BY <1>2
  <2>2. f[k - 1] \in B /\ step[<<k, f[k - 1]>>] \in B
    BY <2>1 DEF IsStep
  <2>. DEFINE g == [i \in 0 .. k |-> IF i < k THEN f[i] ELSE step[<<k, f[k - 1]>>]]
  <2>3. g \in [0 .. k -> B] /\ g[0] = start
    BY <2>1, <2>2
  <2>4. ASSUME NEW i \in 1 .. k PROVE g[i] = step[<<i, g[i - 1]>>]
    <3>1. g[i - 1] = f[i - 1]
      OBVIOUS
    <3>2. CASE i < k
      <4>1. g[i] = f[i]
        BY <3>2
      <4>2. i \in 1 .. k - 1
        BY <3>2
      <4>. QED
        BY <2>1, <3>1, <4>1, <4>2
    <3>3. CASE i = k
      <4>1. g[k] = step[<<k, f[k - 1]>>]
        OBVIOUS
      <4>. HIDE DEF g
      <4>. QED
        BY <3>1, <3>3, <4>1
    <3>. QED
      BY <3>2, <3>3
  <2>5. Runs(g, k)
    BY <2>3, <2>4
  <2>. HIDE DEF Runs, g
  <2>6. \E h : Runs(h, k)
    BY <2>5
  <2>. QED
    BY <2>6
<1>3. 0 .. n \subseteq S
  <2>. HIDE DEF S
  <2>. QED
    BY <1>1, <1>2, Induction
<1>4. n \in S
  BY <1>3
<1>. QED
  BY <1>4 DEF IsRun

\* n blocks of a message.
Blocks(n) == [0 .. n - 1 -> Word]

\* The fields read_value and write_value know lie inside a word.
LEMMA Layout ==
    ASSUME NEW o, NEW w, LayoutSupported(w, o)
    PROVE  /\ o \in 0 .. 15 /\ w \in {1, 8, 16} /\ IsField(o, w)
           /\ w = 1 => P2(w) = 2
           /\ w = 8 => P2(w) = 256
           /\ w = 16 => P2(w) = 65536
<1>1. o \in 0 .. 15 /\ w \in {1, 8, 16} /\ IsField(o, w)
  BY DEF LayoutSupported, IsField
<1>2. P2(1) = 2 /\ P2(8) = 256 /\ P2(16) = 65536
  BY DEF P2
<1>. QED
  BY <1>1, <1>2

\* A word, without its bound as a power.
LEMMA Words == ASSUME NEW a PROVE a \in Word <=> a \in Nat /\ a < 65536
  BY DEF Word

\* A value that is written into a message reads back, and nothing else changes.
LEMMA ValueWritten ==
    ASSUME NEW N \in Nat, NEW blocks \in Blocks(N), NEW n \in 0 .. N - 1,
           NEW o, NEW w, LayoutSupported(w, o), NEW raw \in 0 .. P2(w) - 1
    PROVE  /\ WriteValue(blocks, n, o, w, raw) \in Blocks(N)
           /\ Bits(WriteValue(blocks, n, o, w, raw)[n], o, w) = raw
           /\ \A m \in 0 .. N - 1 : \A k, l :
                 IsField(k, l) /\ (m = n => k + l <= o \/ o + w <= k) =>
                 Bits(WriteValue(blocks, n, o, w, raw)[m], k, l) = Bits(blocks[m], k, l)
<1>1. IsField(o, w) /\ w \in {1, 8, 16} /\ raw \in Int /\ (w = 1 => raw \in {0, 1})
  BY Layout
<1>2. PICK word \in Word : word = blocks[n]
  BY DEF Blocks
<1>3. PICK new : new = WithBits(word, o, w, raw)
  OBVIOUS
<1>4. /\ new \in Word /\ Bits(new, o, w) = raw
      /\ \A k, l : IsField(k, l) /\ (k + l <= o \/ o + w <= k) => Bits(new, k, l) = Bits(word, k, l)
  <2>1. P2(w) \in Nat \ {0} /\ raw % P2(w) = raw
    BY <1>1, PowerSum
  <2>. QED
    BY <1>1, <1>3, <2>1, FieldWritten
<1>5. WriteValue(blocks, n, o, w, raw) = [blocks EXCEPT ![n] = new]
  <2>1. (IF w = 1 /\ raw # 0 THEN 1 ELSE raw) = raw
    BY <1>1
  <2>. QED
    BY <1>2, <1>3, <2>1 DEF WriteValue
<1>6. /\ [blocks EXCEPT ![n] = new] \in Blocks(N) /\ [blocks EXCEPT ![n] = new][n] = new
      /\ \A m \in 0 .. N - 1 : m # n => [blocks EXCEPT ![n] = new][m] = blocks[m]
  BY <1>4 DEF Blocks
<1>. QED
  BY <1>2, <1>4, <1>5, <1>6

\* A word is its two bytes.
LEMMA TwoBytes ==
    ASSUME NEW a \in Word, NEW b \in Word, Bits(a, 0, 8) = Bits(b, 0, 8), Bits(a, 8, 8) = Bits(b, 8, 8)
    PROVE  a = b
<1>1. 2^16 = 65536 /\ 2^8 = 256 /\ 2^0 = 1
  OBVIOUS
<1>2. a \in Nat /\ a < 65536 /\ b \in Nat /\ b < 65536
  BY Words
<1>3. a % 256 = b % 256 /\ (a \div 256) % 256 = (b \div 256) % 256
  BY <1>1, <1>2 DEF Bits
<1>4. \A x \in Nat : x < 65536 => x \div 256 \in 0 .. 255
  OBVIOUS
<1>5. a \div 256 = b \div 256
  BY <1>2, <1>3, <1>4
<1>6. a = 256 * (a \div 256) + (a % 256) /\ b = 256 * (b \div 256) + (b % 256)
  BY <1>2
<1>. QED
  BY <1>3, <1>5, <1>6

\* The bytes of a message arrive, one after the other, over whatever the buffer held.
LEMMA BytesCarried ==
    ASSUME NEW M \in Nat, NEW N \in Nat, NEW n \in Nat, n <= M, n <= N,
           NEW src \in Blocks(M), NEW dst \in Blocks(N)
    PROVE  Carried(src, dst, n) = [k \in 0 .. N - 1 |-> IF k < n THEN src[k] ELSE dst[k]]
<1>. DEFINE Low(k)  == WithBits(dst[k], 0, 8, Bits(src[k], 0, 8))
            at(i)   == [k \in 0 .. N - 1 |-> IF 2 * k + 1 < i THEN src[k]
                                             ELSE IF 2 * k + 1 = i THEN Low(k) ELSE dst[k]]
            f       == [i \in 0 .. 2 * n |-> at(i)]
            F(g)    == g = [i \in 0 .. 2 * n |->
                             IF i = 0 THEN dst ELSE WriteByte(g[i - 1], i - 1, ReadByte(src, i - 1))]
<1>1. ASSUME NEW k \in 0 .. N - 1, k < n
      PROVE  Low(k) \in Word /\ WithBits(Low(k), 8, 8, Bits(src[k], 8, 8)) = src[k]
  <2>1. PICK d \in Word, s \in Word : d = dst[k] /\ s = src[k]
    BY <1>1 DEF Blocks
  <2>2. /\ IsField(0, 8) /\ IsField(8, 8) /\ P2(8) = 256
        /\ Bits(s, 0, 8) \in 0 .. 255 /\ Bits(s, 8, 8) \in 0 .. 255
    BY <2>1 DEF IsField, P2, Bits, Word
  <2>3. PICK low \in Word : low = WithBits(d, 0, 8, Bits(s, 0, 8)) /\ Bits(low, 0, 8) = Bits(s, 0, 8)
    <3>1. Bits(s, 0, 8) \in Int /\ Bits(s, 0, 8) % 256 = Bits(s, 0, 8)
      BY <2>2
    <3>. QED
      BY <2>2, <3>1, FieldWritten
  <2>4. PICK both \in Word : /\ both = WithBits(low, 8, 8, Bits(s, 8, 8))
                             /\ Bits(both, 8, 8) = Bits(s, 8, 8) /\ Bits(both, 0, 8) = Bits(low, 0, 8)
    <3>1. Bits(s, 8, 8) \in Int /\ Bits(s, 8, 8) % 256 = Bits(s, 8, 8)
      BY <2>2
    <3>. QED
      BY <2>2, <3>1, FieldWritten
  <2>5. both = s
    BY <2>3, <2>4, TwoBytes
  <2>. QED
    BY <2>1, <2>3, <2>4, <2>5
<1>2. at(0) = dst
  BY DEF Blocks
<1>3. ASSUME NEW i \in 1 .. 2 * n PROVE WriteByte(at(i - 1), i - 1, ReadByte(src, i - 1)) = at(i)
  <2>1. PICK k \in 0 .. N - 1 : k < n /\ k = (i - 1) \div 2 /\ (i - 1 = 2 * k \/ i - 1 = 2 * k + 1)
    OBVIOUS
  <2>. DEFINE off == 8 * ((i - 1) % 2)
  <2>2. WriteByte(at(i - 1), i - 1, ReadByte(src, i - 1))
          = [at(i - 1) EXCEPT ![k] = WithBits(at(i - 1)[k], off, 8, Bits(src[k], off, 8))]
    BY <2>1 DEF WriteByte, ReadByte
  <2>3. WithBits(at(i - 1)[k], off, 8, Bits(src[k], off, 8)) = at(i)[k]
    <3>1. CASE i - 1 = 2 * k
      <4>1. off = 0 /\ at(i - 1)[k] = dst[k] /\ at(i)[k] = Low(k)
        BY <2>1, <3>1
      <4>. QED
        BY <4>1
    <3>2. CASE i - 1 = 2 * k + 1
      <4>1. off = 8 /\ at(i - 1)[k] = Low(k) /\ at(i)[k] = src[k]
        BY <2>1, <3>2
      <4>. QED
        BY <1>1, <2>1, <4>1
    <3>. QED
      BY <2>1, <3>1, <3>2
  <2>4. \A m \in 0 .. N - 1 : m # k => at(i - 1)[m] = at(i)[m]
    BY <2>1
  <2>. HIDE DEF off
  <2>5. [at(i - 1) EXCEPT ![k] = at(i)[k]] = at(i)
    <3>1. [at(i - 1) EXCEPT ![k] = at(i)[k]]
            = [m \in 0 .. N - 1 |-> IF m = k THEN at(i)[k] ELSE at(i - 1)[m]]
      OBVIOUS
    <3>2. at(i) = [m \in 0 .. N - 1 |-> at(i)[m]]
      OBVIOUS
    <3>. HIDE DEF at
    <3>. QED
      BY <2>4, <3>1, <3>2
  <2>. HIDE DEF at
  <2>. QED
    BY <2>2, <2>3, <2>5
<1>4. F(f)
  <2>. HIDE DEF at
  <2>1. \A i \in 0 .. 2 * n : f[i] = IF i = 0 THEN dst
                                     ELSE WriteByte(f[i - 1], i - 1, ReadByte(src, i - 1))
    BY <1>2, <1>3
  <2>. QED
    BY <2>1
<1>5. Carried(src, dst, n) = (CHOOSE g : F(g))[2 * n]
  BY DEF Carried
<1>6. PICK g : F(g) /\ Carried(src, dst, n) = g[2 * n]
  <2>. HIDE DEF F, f
  <2>. QED
    BY <1>4, <1>5
<1>. DEFINE S == {i \in 0 .. 2 * n : g[i] = at(i)}
<1>. HIDE DEF at
<1>7. 0 \in S
  BY <1>2, <1>6
<1>8. \A i \in 1 .. 2 * n : i - 1 \in S => i \in S
  BY <1>3, <1>6
<1>9. 0 .. 2 * n \subseteq S
  <2>. HIDE DEF S, F
  <2>. QED
    BY <1>7, <1>8, Induction
<1>10. Carried(src, dst, n) = at(2 * n)
  BY <1>6, <1>9
<1>11. at(2 * n) = [k \in 0 .. N - 1 |-> IF k < n THEN src[k] ELSE dst[k]]
  <2>1. \A k \in 0 .. N - 1 : at(2 * n)[k] = IF k < n THEN src[k] ELSE dst[k]
    BY DEF at
  <2>2. at(2 * n) = [k \in 0 .. N - 1 |-> at(2 * n)[k]]
    BY DEF at
  <2>. QED
    BY <2>1, <2>2
<1>. QED
  BY <1>10, <1>11

-------------------------------------------------------------------------------
(* The tables *)

\* The rows of the tables.
RowTypes == {"D", "A", "AP", "UP", "AF"}
WidthOf(row) == IF row[1] = "D" THEN 1 ELSE IF row[1] \in {"A", "AF"} THEN 8 ELSE 16

\* What a row says of the values of its field.
LEMMA RowItem ==
    ASSUME NEW row, row[1] \in RowTypes
    PROVE  /\ ItemOf(row) \in Items /\ ItemOf(row).width = WidthOf(row)
           /\ ItemOf(row).signed = (row[1] = "AP")
           /\ ItemOf(row).alg = (IF row[1] = "AF" THEN "AC" ELSE "AN")
           /\ ItemOf(row).c = (IF row[1] = "AF" THEN 20 ELSE 0)
<1>1. PICK t : t = row[1]
  OBVIOUS
<1>2. TypeWidth("D") = 1 /\ TypeWidth("A") = 8 /\ TypeWidth("AP") = 16
  BY DEF TypeWidth
<1>3. TypeWidth(CASE t = "UP" -> "AP" [] t = "AF" -> "A" [] OTHER -> t) = WidthOf(row)
  <2>1. CASE t = "UP"
    BY <1>1, <1>2, <2>1 DEF WidthOf
  <2>2. CASE t = "AF"
    BY <1>1, <1>2, <2>2 DEF WidthOf
  <2>3. CASE t \in {"D", "A", "AP"}
    <3>1. (CASE t = "UP" -> "AP" [] t = "AF" -> "A" [] OTHER -> t) = t
      BY <2>3
    <3>. QED
      BY <1>1, <1>2, <2>3, <3>1 DEF WidthOf
  <2>. QED
    BY <1>1, <2>1, <2>2, <2>3 DEF RowTypes
<1>4. WidthOf(row) \in {1, 8, 16}
  BY DEF WidthOf
<1>5. ItemOf(row) = [width |-> WidthOf(row), signed |-> row[1] = "AP",
                     alg |-> IF row[1] = "AF" THEN "AC" ELSE "AN",
                     a |-> 0, b |-> Unit, c |-> IF row[1] = "AF" THEN 10 * Unit ELSE 0]
  BY <1>1, <1>3 DEF ItemOf
<1>. QED
  BY <1>4, <1>5 DEF Items, Unit

\* A row of a message of n blocks which CS sees from the block base on.
RowSound(row, n, base) ==
    /\ row[1] \in RowTypes /\ LayoutSupported(WidthOf(row), row[2])
    /\ row[3] \in 0 .. n - 1 /\ row[4] = row[3] + base

\* One row lies before another, and a table has its rows in this order.
Before(r, s) == r[3] < s[3] \/ (r[3] = s[3] /\ r[2] + WidthOf(r) <= s[2])

SoundTable(tab, N, n, base) ==
    /\ N \in Nat /\ n \in Nat /\ base \in Nat /\ DOMAIN tab = 1 .. N /\ Len(tab) = N
    /\ \A i \in 1 .. N : RowSound(tab[i], n, base)
    /\ \A i \in 1 .. N - 1 : Before(tab[i], tab[i + 1])

Devices == {"PSS", "TCS", "TMS", "MNS", "LS"}

\* How many parameters and commands a device has, and where its windows start inside CS.
PrmRows(dev)  == CASE dev = "PSS" -> 31 [] dev = "TCS" -> 8 [] dev = "TMS" -> 7
                   [] dev = "MNS" -> 3 [] dev = "LS" -> 3
CmdRows(dev)  == CASE dev = "PSS" -> 24 [] dev = "TCS" -> 13 [] dev = "TMS" -> 8
                   [] dev = "MNS" -> 4 [] dev = "LS" -> 4
PrmStart(dev) == CASE dev = "PSS" -> 0 [] dev = "TCS" -> 15 [] dev = "TMS" -> 18
                   [] dev = "MNS" -> 22 [] dev = "LS" -> 24
CmdStart(dev) == CASE dev = "PSS" -> 0 [] dev = "TCS" -> 8 [] dev = "TMS" -> 11
                   [] dev = "MNS" -> 14 [] dev = "LS" -> 15

\* param_tab.hpp: the rows of every device lie in its message, in order.
LEMMA ParamTables ==
    ASSUME NEW dev \in Devices
    PROVE  SoundTable(ParamTab[dev], PrmRows(dev), PrmMsgBlocks[dev], PrmStart(dev))
<1>. USE DEF SoundTable, ParamTab, PrmRows, PrmMsgBlocks, PrmStart, RowSound, Before, RowTypes,
           WidthOf, LayoutSupported
<1>1. CASE dev = "PSS"
  BY <1>1
<1>2. CASE dev = "TCS"
  BY <1>2
<1>3. CASE dev = "TMS"
  BY <1>3
<1>4. CASE dev = "MNS"
  BY <1>4
<1>5. CASE dev = "LS"
  BY <1>5
<1>. QED
  BY <1>1, <1>2, <1>3, <1>4, <1>5 DEF Devices

\* The rows after the m switches of a device.
TailSound(tail, m, k, n, base) ==
    /\ m \in 1 .. 15 /\ k \in Nat \ {0} /\ n \in Nat \ {0} /\ base \in Nat
    /\ Len(tail) = k /\ \E S : tail \in Seq(S)
    /\ \A i \in 1 .. k : RowSound(tail[i], n, base)
    /\ \A i \in 1 .. k - 1 : Before(tail[i], tail[i + 1])
    /\ tail[1][3] = 0 => tail[1][2] >= m

\* The switches of a device come first, then its other commands.
LEMMA SwitchesFirst ==
    ASSUME NEW tail, NEW m, NEW k, NEW n, NEW base, TailSound(tail, m, k, n, base)
    PROVE  SoundTable(Switches(m, base) \o tail, m + k, n, base)
<1>0. m \in 1 .. 15 /\ k \in Nat \ {0} /\ n \in Nat \ {0} /\ base \in Nat
  BY DEF TailSound
<1>. USE <1>0
<1>a. /\ Len(tail) = k /\ \E S : tail \in Seq(S)
      /\ \A i \in 1 .. k : RowSound(tail[i], n, base)
      /\ \A i \in 1 .. k - 1 : Before(tail[i], tail[i + 1])
      /\ tail[1][3] = 0 => tail[1][2] >= m
  BY DEF TailSound
<1>b. PICK S : tail \in Seq(S)
  BY <1>a
<1>. DEFINE sw  == Switches(m, base)
            tab == sw \o tail
<1>1. /\ DOMAIN sw = 1 .. m
      /\ \A i \in 1 .. m : sw[i] = <<"D", i - 1, 0, base>>
  BY DEF Switches
<1>3. PICK R : sw \in Seq(R) /\ tail \in Seq(R)
  <2>. DEFINE R == S \cup {sw[i] : i \in 1 .. m}
  <2>1. tail \in [1 .. k -> S] /\ sw \in [1 .. m -> R]
    BY <1>a, <1>b, <1>1 DEF Switches
  <2>2. tail \in [1 .. k -> R]
    BY <2>1
  <2>. HIDE DEF R, sw
  <2>3. tail \in Seq(R) /\ sw \in Seq(R)
    BY <2>1, <2>2
  <2>. QED
    BY <2>3
<1>. HIDE DEF sw
<1>4. Len(sw) = m
  BY <1>1, <1>3
<1>5. /\ DOMAIN tab = 1 .. m + k /\ Len(tab) = m + k
      /\ \A i \in 1 .. m : tab[i][1] = "D" /\ tab[i][2] = i - 1 /\ tab[i][3] = 0 /\ tab[i][4] = base
      /\ \A i \in m + 1 .. m + k : tab[i] = tail[i - m]
  <2>1. /\ tab \in Seq(R) /\ Len(tab) = m + k
        /\ \A i \in 1 .. m + k : tab[i] = IF i <= m THEN sw[i] ELSE tail[i - m]
    BY <1>a, <1>3, <1>4, ConcatProperties
  <2>2. DOMAIN tab = 1 .. m + k
    BY <2>1
  <2>. HIDE DEF tab
  <2>3. ASSUME NEW i \in 1 .. m PROVE tab[i] = <<"D", i - 1, 0, base>>
    <3>1. i \in 1 .. m + k /\ i <= m
      OBVIOUS
    <3>2. tab[i] = sw[i]
      BY <2>1, <3>1
    <3>. QED
      BY <1>1, <3>2
  <2>4. \A i \in 1 .. m : tab[i][1] = "D" /\ tab[i][2] = i - 1 /\ tab[i][3] = 0 /\ tab[i][4] = base
    BY <2>3
  <2>5. \A i \in m + 1 .. m + k : tab[i] = tail[i - m]
    BY <2>1
  <2>. QED
    BY <2>1, <2>2, <2>4, <2>5
<1>. HIDE DEF tab
<1>6. ASSUME NEW i \in 1 .. m
      PROVE  RowSound(tab[i], n, base)
  <2>1. tab[i][1] = "D" /\ tab[i][2] = i - 1 /\ tab[i][3] = 0 /\ tab[i][4] = base
    BY <1>5
  <2>. QED
    BY <2>1 DEF RowSound, RowTypes, WidthOf, LayoutSupported
<1>7. ASSUME NEW i \in 1 .. m + k PROVE RowSound(tab[i], n, base)
  <2>1. CASE i <= m
    BY <1>6, <2>1
  <2>2. CASE i > m
    <3>1. i - m \in 1 .. k /\ i \in m + 1 .. m + k
      BY <2>2
    <3>. QED
      BY <1>a, <1>5, <3>1
  <2>. QED
    BY <2>1, <2>2
<1>8. ASSUME NEW i \in 1 .. m + k - 1 PROVE Before(tab[i], tab[i + 1])
  <2>1. CASE i < m
    <3>1. i + 1 \in 1 .. m /\ i \in 1 .. m /\ (i + 1) - 1 = i
      BY <2>1
    <3>2. /\ tab[i][1] = "D" /\ tab[i][2] = i - 1 /\ tab[i][3] = 0
          /\ tab[i + 1][2] = i /\ tab[i + 1][3] = 0
      BY <1>5, <3>1
    <3>. QED
      BY <3>1, <3>2 DEF Before, WidthOf
  <2>2. CASE i = m
    <3>1. /\ tab[i][1] = "D" /\ tab[i][2] = m - 1 /\ tab[i][3] = 0 /\ tab[i + 1] = tail[1]
          /\ 1 \in 1 .. k
      <4>1. m + 1 \in m + 1 .. m + k /\ (m + 1) - m = 1 /\ m \in 1 .. m /\ 1 \in 1 .. k
        OBVIOUS
      <4>. QED
        BY <1>5, <2>2, <4>1
    <3>2. tail[1][3] \in Nat /\ (tail[1][3] = 0 => tail[1][2] \in Nat /\ tail[1][2] >= m)
      <4>1. RowSound(tail[1], n, base)
        BY <1>a, <3>1
      <4>2. tail[1][3] \in 0 .. n - 1 /\ LayoutSupported(WidthOf(tail[1]), tail[1][2])
        BY <4>1 DEF RowSound
      <4>3. tail[1][2] \in 0 .. 15
        BY <4>2, Layout
      <4>. QED
        BY <1>a, <4>2, <4>3
    <3>. QED
      BY <3>1, <3>2 DEF Before, WidthOf
  <2>3. CASE i > m
    <3>1. /\ i - m \in 1 .. k - 1 /\ (i + 1) - m = (i - m) + 1
          /\ i \in m + 1 .. m + k /\ i + 1 \in m + 1 .. m + k
      BY <2>3
    <3>2. tab[i] = tail[i - m] /\ tab[i + 1] = tail[(i - m) + 1]
      BY <1>5, <3>1
    <3>. QED
      BY <1>a, <3>1, <3>2
  <2>. QED
    BY <2>1, <2>2, <2>3
<1>9. SoundTable(tab, m + k, n, base)
  BY <1>5, <1>7, <1>8 DEF SoundTable
<1>. QED
  BY <1>9 DEF tab, sw

\* command_tab.hpp: the same for the commands.
LEMMA CommTables ==
    ASSUME NEW dev \in Devices
    PROVE  SoundTable(CommTab[dev], CmdRows(dev), CmdMsgBlocks[dev], CmdStart(dev))
<1>1. CASE dev = "PSS"
  <2>. DEFINE tail == <<
                <<"AP", 0, 1, 1>>, <<"AP", 0, 2, 2>>, <<"A", 0, 3, 3>>, <<"A", 8, 3, 3>>,
                <<"A", 0, 4, 4>>, <<"A", 8, 4, 4>>, <<"A", 0, 5, 5>>, <<"A", 8, 5, 5>>,
                <<"A", 0, 6, 6>>, <<"A", 8, 6, 6>>, <<"A", 0, 7, 7>> >>
              S == {tail[i] : i \in 1 .. 11}
  <2>1. tail \in Seq(S) /\ Len(tail) = 11 /\ (tail[1][3] = 0 => tail[1][2] >= 13)
    OBVIOUS
  <2>2. \A i \in 1 .. 11 : RowSound(tail[i], 8, 0)
    BY DEF RowSound, RowTypes, WidthOf, LayoutSupported
  <2>3. \A i \in 1 .. 11 - 1 : Before(tail[i], tail[i + 1])
    BY DEF Before, WidthOf
  <2>4. CommTab[dev] = Switches(13, 0) \o tail
    BY <1>1 DEF CommTab
  <2>5. CmdRows(dev) = 13 + 11 /\ CmdMsgBlocks[dev] = 8 /\ CmdStart(dev) = 0
    BY <1>1 DEF CmdRows, CmdMsgBlocks, CmdStart
  <2>. HIDE DEF tail, S
  <2>6. TailSound(tail, 13, 11, 8, 0)
    BY <2>1, <2>2, <2>3 DEF TailSound
  <2>7. SoundTable(Switches(13, 0) \o tail, 13 + 11, 8, 0)
    BY <2>6, SwitchesFirst
  <2>. QED
    BY <2>4, <2>5, <2>7
<1>2. CASE dev = "TCS"
  <2>. DEFINE tail == << <<"UP", 0, 1, 9>>, <<"A", 0, 2, 10>> >>
              S == {tail[i] : i \in 1 .. 2}
  <2>1. tail \in Seq(S) /\ Len(tail) = 2 /\ (tail[1][3] = 0 => tail[1][2] >= 11)
    OBVIOUS
  <2>2. \A i \in 1 .. 2 : RowSound(tail[i], 3, 8)
    BY DEF RowSound, RowTypes, WidthOf, LayoutSupported
  <2>3. \A i \in 1 .. 2 - 1 : Before(tail[i], tail[i + 1])
    BY DEF Before, WidthOf
  <2>4. CommTab[dev] = Switches(11, 8) \o tail
    BY <1>2 DEF CommTab
  <2>5. CmdRows(dev) = 11 + 2 /\ CmdMsgBlocks[dev] = 3 /\ CmdStart(dev) = 8
    BY <1>2 DEF CmdRows, CmdMsgBlocks, CmdStart
  <2>. HIDE DEF tail, S
  <2>6. TailSound(tail, 11, 2, 3, 8)
    BY <2>1, <2>2, <2>3 DEF TailSound
  <2>7. SoundTable(Switches(11, 8) \o tail, 11 + 2, 3, 8)
    BY <2>6, SwitchesFirst
  <2>. QED
    BY <2>4, <2>5, <2>7
<1>3. CASE dev = "TMS"
  <2>. DEFINE tail == <<
                <<"A", 8, 0, 11>>, <<"AF", 0, 1, 12>>, <<"AF", 8, 1, 12>>,
                <<"AF", 0, 2, 13>>, <<"AF", 8, 2, 13>> >>
              S == {tail[i] : i \in 1 .. 5}
  <2>1. tail \in Seq(S) /\ Len(tail) = 5 /\ (tail[1][3] = 0 => tail[1][2] >= 3)
    OBVIOUS
  <2>2. \A i \in 1 .. 5 : RowSound(tail[i], 3, 11)
    BY DEF RowSound, RowTypes, WidthOf, LayoutSupported
  <2>3. \A i \in 1 .. 5 - 1 : Before(tail[i], tail[i + 1])
    BY DEF Before, WidthOf
  <2>4. CommTab[dev] = Switches(3, 11) \o tail
    BY <1>3 DEF CommTab
  <2>5. CmdRows(dev) = 3 + 5 /\ CmdMsgBlocks[dev] = 3 /\ CmdStart(dev) = 11
    BY <1>3 DEF CmdRows, CmdMsgBlocks, CmdStart
  <2>. HIDE DEF tail, S
  <2>6. TailSound(tail, 3, 5, 3, 11)
    BY <2>1, <2>2, <2>3 DEF TailSound
  <2>7. SoundTable(Switches(3, 11) \o tail, 3 + 5, 3, 11)
    BY <2>6, SwitchesFirst
  <2>. QED
    BY <2>4, <2>5, <2>7
<1>4. CASE dev = "MNS"
  <2>. DEFINE tail == << <<"A", 8, 0, 14>> >>
              S == {tail[i] : i \in 1 .. 1}
  <2>1. tail \in Seq(S) /\ Len(tail) = 1 /\ (tail[1][3] = 0 => tail[1][2] >= 3)
    OBVIOUS
  <2>2. \A i \in 1 .. 1 : RowSound(tail[i], 1, 14)
    BY DEF RowSound, RowTypes, WidthOf, LayoutSupported
  <2>3. \A i \in 1 .. 1 - 1 : Before(tail[i], tail[i + 1])
    BY DEF Before, WidthOf
  <2>4. CommTab[dev] = Switches(3, 14) \o tail
    BY <1>4 DEF CommTab
  <2>5. CmdRows(dev) = 3 + 1 /\ CmdMsgBlocks[dev] = 1 /\ CmdStart(dev) = 14
    BY <1>4 DEF CmdRows, CmdMsgBlocks, CmdStart
  <2>. HIDE DEF tail, S
  <2>6. TailSound(tail, 3, 1, 1, 14)
    BY <2>1, <2>2, <2>3 DEF TailSound
  <2>7. SoundTable(Switches(3, 14) \o tail, 3 + 1, 1, 14)
    BY <2>6, SwitchesFirst
  <2>. QED
    BY <2>4, <2>5, <2>7
<1>5. CASE dev = "LS"
  <2>. DEFINE tail == << <<"A", 8, 0, 15>> >>
              S == {tail[i] : i \in 1 .. 1}
  <2>1. tail \in Seq(S) /\ Len(tail) = 1 /\ (tail[1][3] = 0 => tail[1][2] >= 3)
    OBVIOUS
  <2>2. \A i \in 1 .. 1 : RowSound(tail[i], 1, 15)
    BY DEF RowSound, RowTypes, WidthOf, LayoutSupported
  <2>3. \A i \in 1 .. 1 - 1 : Before(tail[i], tail[i + 1])
    BY DEF Before, WidthOf
  <2>4. CommTab[dev] = Switches(3, 15) \o tail
    BY <1>5 DEF CommTab
  <2>5. CmdRows(dev) = 3 + 1 /\ CmdMsgBlocks[dev] = 1 /\ CmdStart(dev) = 15
    BY <1>5 DEF CmdRows, CmdMsgBlocks, CmdStart
  <2>. HIDE DEF tail, S
  <2>6. TailSound(tail, 3, 1, 1, 15)
    BY <2>1, <2>2, <2>3 DEF TailSound
  <2>7. SoundTable(Switches(3, 15) \o tail, 3 + 1, 1, 15)
    BY <2>6, SwitchesFirst
  <2>. QED
    BY <2>4, <2>5, <2>7
<1>. QED
  BY <1>1, <1>2, <1>3, <1>4, <1>5 DEF Devices

\* Any two rows of a table lie one before the other.
LEMMA RowsOrdered ==
    ASSUME NEW tab, NEW N, NEW n, NEW base, SoundTable(tab, N, n, base),
           NEW i \in 1 .. N, NEW j \in 1 .. N, i < j
    PROVE  Before(tab[i], tab[j])
<1>0. N \in Nat
  BY DEF SoundTable
<1>1. ASSUME NEW k \in 1 .. N
      PROVE  tab[k][3] \in Int /\ tab[k][2] \in Int /\ WidthOf(tab[k]) \in Nat \ {0}
  <2>1. RowSound(tab[k], n, base) /\ n \in Nat
    BY DEF SoundTable
  <2>2. tab[k][3] \in 0 .. n - 1 /\ LayoutSupported(WidthOf(tab[k]), tab[k][2])
    BY <2>1 DEF RowSound
  <2>. QED
    BY <2>1, <2>2, Layout
<1>. DEFINE S == {d \in 0 .. N - i - 1 : Before(tab[i], tab[i + d + 1])}
<1>2. 0 \in S
  <2>1. i \in 1 .. N - 1 /\ 0 \in 0 .. N - i - 1 /\ i + 0 + 1 = i + 1
    BY <1>0
  <2>2. Before(tab[i], tab[i + 1])
    BY <2>1 DEF SoundTable
  <2>. QED
    BY <2>1, <2>2
<1>3. ASSUME NEW d \in 1 .. N - i - 1, d - 1 \in S PROVE d \in S
  <2>1. PICK k \in 1 .. N - 1 :
          /\ k = i + d /\ i + (d - 1) + 1 = k /\ i + d + 1 = k + 1
          /\ k \in 1 .. N /\ k + 1 \in 1 .. N
    BY <1>0
  <2>2. Before(tab[i], tab[k]) /\ Before(tab[k], tab[k + 1])
    BY <1>3, <2>1 DEF SoundTable
  <2>3. /\ tab[i][3] \in Int /\ tab[i][2] \in Int /\ WidthOf(tab[i]) \in Nat
        /\ tab[k][3] \in Int /\ tab[k][2] \in Int /\ WidthOf(tab[k]) \in Nat
        /\ tab[k + 1][3] \in Int /\ tab[k + 1][2] \in Int
    <3>. HIDE DEF S
    <3>. QED
      BY <1>1, <2>1
  <2>4. Before(tab[i], tab[k + 1])
    BY <2>2, <2>3 DEF Before
  <2>. QED
    BY <2>1, <2>4
<1>4. 0 .. N - i - 1 \subseteq S
  <2>1. N - i - 1 \in Nat
    BY <1>0
  <2>. HIDE DEF S
  <2>. QED
    BY <1>2, <1>3, <2>1, Induction
<1>5. j - i - 1 \in 0 .. N - i - 1 /\ i + (j - i - 1) + 1 = j
  BY <1>0
<1>6. j - i - 1 \in S
  BY <1>4, <1>5
<1>. QED
  BY <1>5, <1>6

\* Two fields of one message that do not meet.
Apart(b, o, w, c, k, l) == b = c => o + w <= k \/ k + l <= o

RowsApart(r, s) ==
    /\ Apart(r[3], r[2], WidthOf(r), s[3], s[2], WidthOf(s))
    /\ Apart(r[4], r[2], WidthOf(r), s[4], s[2], WidthOf(s))

\* Two rows of a table never meet, in the messages of the device and in those of CS.
LEMMA RowsOfTable ==
    ASSUME NEW tab, NEW N, NEW n, NEW base, SoundTable(tab, N, n, base),
           NEW i \in 1 .. N, NEW j \in 1 .. N, i # j
    PROVE  RowsApart(tab[i], tab[j])
<1>1. N \in Nat /\ n \in Nat /\ base \in Nat /\ RowSound(tab[i], n, base) /\ RowSound(tab[j], n, base)
  BY DEF SoundTable
<1>2. Before(tab[i], tab[j]) \/ Before(tab[j], tab[i])
  BY <1>1, RowsOrdered
<1>3. /\ tab[i][3] \in 0 .. n - 1 /\ tab[j][3] \in 0 .. n - 1
      /\ tab[i][4] = tab[i][3] + base /\ tab[j][4] = tab[j][3] + base
  BY <1>1 DEF RowSound
<1>. QED
  BY <1>1, <1>2, <1>3 DEF Before, RowsApart, Apart

\* Every identifier has a row, and the rows of a device do not meet, in its own
\* messages and in those of CS.
LEMMA ParamRows ==
    ASSUME NEW id \in ParamIds
    PROVE  /\ id[2] \in Devices /\ RowSound(RowOf(id), PrmMsgBlocks[id[2]], PrmStart(id[2]))
           /\ \A other \in ParamIds \ {id} : other[2] = id[2] => RowsApart(RowOf(id), RowOf(other))
<1>1. ASSUME NEW p \in ParamIds
      PROVE  \E dev \in Devices : \E i \in 1 .. PrmRows(dev) :
                p = <<"prm", dev, i>> /\ p[2] = dev /\ RowOf(p) = ParamTab[dev][i]
  <2>1. PICK dev \in DOMAIN ParamTab : \E i \in DOMAIN ParamTab[dev] : p = <<"prm", dev, i>>
    BY DEF ParamIds, Ids
  <2>i. PICK i \in DOMAIN ParamTab[dev] : p = <<"prm", dev, i>>
    BY <2>1
  <2>2. dev \in Devices
    BY DEF ParamTab, Devices
  <2>3. i \in 1 .. PrmRows(dev)
    BY <2>2, ParamTables DEF SoundTable
  <2>. QED
    BY <2>i, <2>2, <2>3 DEF RowOf
<1>2. PICK dev \in Devices : \E i \in 1 .. PrmRows(dev) :
        id = <<"prm", dev, i>> /\ id[2] = dev /\ RowOf(id) = ParamTab[dev][i]
  BY <1>1
<1>i. PICK i \in 1 .. PrmRows(dev) :
        id = <<"prm", dev, i>> /\ id[2] = dev /\ RowOf(id) = ParamTab[dev][i]
  BY <1>2
<1>3. SoundTable(ParamTab[dev], PrmRows(dev), PrmMsgBlocks[dev], PrmStart(dev))
  BY ParamTables
<1>4. RowSound(RowOf(id), PrmMsgBlocks[dev], PrmStart(dev))
  BY <1>i, <1>3 DEF SoundTable
<1>5. ASSUME NEW other \in ParamIds \ {id}, other[2] = dev PROVE RowsApart(RowOf(id), RowOf(other))
  <2>1. PICK j \in 1 .. PrmRows(dev) : other = <<"prm", dev, j>> /\ RowOf(other) = ParamTab[dev][j]
    BY <1>1, <1>5
  <2>2. i # j
    BY <1>i, <1>5, <2>1
  <2>. QED
    BY <1>i, <1>3, <2>1, <2>2, RowsOfTable
<1>. QED
  BY <1>i, <1>4, <1>5

\* The same for the commands.
LEMMA CommRows ==
    ASSUME NEW id \in CommIds
    PROVE  /\ id[2] \in Devices /\ RowSound(RowOf(id), CmdMsgBlocks[id[2]], CmdStart(id[2]))
           /\ \A other \in CommIds \ {id} : other[2] = id[2] => RowsApart(RowOf(id), RowOf(other))
           /\ id[3] \in 1 .. CmdRows(id[2]) /\ id = <<"cmd", id[2], id[3]>>
<1>1. ASSUME NEW p \in CommIds
      PROVE  \E dev \in Devices : \E i \in 1 .. CmdRows(dev) :
                p = <<"cmd", dev, i>> /\ p[2] = dev /\ p[3] = i /\ RowOf(p) = CommTab[dev][i]
  <2>1. PICK dev \in DOMAIN CommTab : \E i \in DOMAIN CommTab[dev] : p = <<"cmd", dev, i>>
    BY DEF CommIds, Ids
  <2>i. PICK i \in DOMAIN CommTab[dev] : p = <<"cmd", dev, i>>
    BY <2>1
  <2>2. dev \in Devices
    BY DEF CommTab, Devices
  <2>3. i \in 1 .. CmdRows(dev)
    BY <2>2, CommTables DEF SoundTable
  <2>. QED
    BY <2>i, <2>2, <2>3 DEF RowOf
<1>2. PICK dev \in Devices : \E i \in 1 .. CmdRows(dev) :
        id = <<"cmd", dev, i>> /\ id[2] = dev /\ id[3] = i /\ RowOf(id) = CommTab[dev][i]
  BY <1>1
<1>i. PICK i \in 1 .. CmdRows(dev) :
        id = <<"cmd", dev, i>> /\ id[2] = dev /\ id[3] = i /\ RowOf(id) = CommTab[dev][i]
  BY <1>2
<1>3. SoundTable(CommTab[dev], CmdRows(dev), CmdMsgBlocks[dev], CmdStart(dev))
  BY CommTables
<1>4. RowSound(RowOf(id), CmdMsgBlocks[dev], CmdStart(dev))
  BY <1>i, <1>3 DEF SoundTable
<1>5. ASSUME NEW other \in CommIds \ {id}, other[2] = dev PROVE RowsApart(RowOf(id), RowOf(other))
  <2>1. PICK j \in 1 .. CmdRows(dev) : other = <<"cmd", dev, j>> /\ RowOf(other) = CommTab[dev][j]
    BY <1>1, <1>5
  <2>2. i # j
    BY <1>i, <1>5, <2>1
  <2>. QED
    BY <1>i, <1>3, <2>1, <2>2, RowsOfTable
<1>. QED
  BY <1>i, <1>4, <1>5

\* And every row of the table is a command.
LEMMA CommIdOf ==
    ASSUME NEW dev \in Devices, NEW i \in 1 .. CmdRows(dev)
    PROVE  <<"cmd", dev, i>> \in CommIds
<1>1. dev \in DOMAIN CommTab /\ i \in DOMAIN CommTab[dev]
  <2>1. dev \in DOMAIN CommTab
    BY DEF CommTab, Devices
  <2>. QED
    BY <2>1, CommTables DEF SoundTable
<1>. QED
  BY <1>1 DEF CommIds, Ids

-------------------------------------------------------------------------------
(* The fields of parameters and commands *)

\* Where the field of an identifier lies in a message of a system.
OffsetOf(id) == RowOf(id)[2]
BitsOf(id)   == WidthOf(RowOf(id))

Fits(sys, id, n) ==
    /\ RowOf(id)[1] \in RowTypes /\ LayoutSupported(BitsOf(id), OffsetOf(id))
    /\ BlockOf(sys, id) \in 0 .. n - 1

IdsApart(sys, id, other) ==
    Apart(BlockOf(sys, id), OffsetOf(id), BitsOf(id),
          BlockOf(sys, other), OffsetOf(other), BitsOf(other))

Raws(id) == 0 .. P2(BitsOf(id)) - 1

\* What an identifier reads from a message.
LEMMA RawIs ==
    ASSUME NEW sys, NEW id, NEW n \in Nat, Fits(sys, id, n), NEW blocks \in Blocks(n)
    PROVE  /\ RawAt(sys, id, blocks) = Bits(blocks[BlockOf(sys, id)], OffsetOf(id), BitsOf(id))
           /\ RawAt(sys, id, blocks) \in Raws(id)
           /\ ItemOf(RowOf(id)).width = BitsOf(id)
<1>1. ItemOf(RowOf(id)).width = BitsOf(id)
  BY RowItem DEF Fits, BitsOf
<1>2. RawAt(sys, id, blocks) = Bits(blocks[BlockOf(sys, id)], OffsetOf(id), BitsOf(id))
  BY <1>1 DEF RawAt, ReadValue, OffsetOf
<1>3. PICK word \in Nat : word = blocks[BlockOf(sys, id)]
  BY Words DEF Fits, Blocks
<1>4. IsField(OffsetOf(id), BitsOf(id))
  BY Layout DEF Fits
<1>5. Bits(word, OffsetOf(id), BitsOf(id)) \in 0 .. P2(BitsOf(id)) - 1
  BY <1>4, PartsExist DEF Parts
<1>. QED
  BY <1>1, <1>2, <1>3, <1>5 DEF Raws

\* Writing one identifier leaves all others alone.
LEMMA RawWritten ==
    ASSUME NEW sys, NEW id, NEW n \in Nat, Fits(sys, id, n), NEW blocks \in Blocks(n),
           NEW raw \in Raws(id), NEW new,
           new = WriteValue(blocks, BlockOf(sys, id), RowOf(id)[2], ItemOf(RowOf(id)).width, raw)
    PROVE  /\ new \in Blocks(n)
           /\ RawAt(sys, id, new) = raw
           /\ \A other : Fits(sys, other, n) /\ IdsApart(sys, id, other) =>
                 RawAt(sys, other, new) = RawAt(sys, other, blocks)
<1>1. PICK b, o, w :
        /\ b \in 0 .. n - 1 /\ b = BlockOf(sys, id)
        /\ o = OffsetOf(id) /\ w = BitsOf(id) /\ LayoutSupported(w, o)
  BY DEF Fits
<1>2. raw \in 0 .. P2(w) - 1
  BY <1>1 DEF Raws
<1>3. new = WriteValue(blocks, b, o, w, raw)
  BY <1>1, RawIs DEF OffsetOf
<1>4. /\ new \in Blocks(n) /\ Bits(new[b], o, w) = raw
      /\ \A m \in 0 .. n - 1 : \A k, l :
            IsField(k, l) /\ (m = b => k + l <= o \/ o + w <= k) =>
            Bits(new[m], k, l) = Bits(blocks[m], k, l)
  BY <1>1, <1>2, <1>3, ValueWritten
<1>5. RawAt(sys, id, new) = raw
  BY <1>1, <1>4, RawIs
<1>6. ASSUME NEW other, Fits(sys, other, n), IdsApart(sys, id, other)
      PROVE  RawAt(sys, other, new) = RawAt(sys, other, blocks)
  <2>1. PICK m, k, l :
          /\ m \in 0 .. n - 1 /\ m = BlockOf(sys, other)
          /\ k = OffsetOf(other) /\ l = BitsOf(other) /\ LayoutSupported(l, k)
    BY <1>6 DEF Fits
  <2>2. IsField(k, l) /\ (m = b => k + l <= o \/ o + w <= k)
    BY <1>1, <1>6, <2>1, Layout DEF IdsApart, Apart
  <2>3. Bits(new[m], k, l) = Bits(blocks[m], k, l)
    BY <1>4, <2>1, <2>2
  <2>. QED
    BY <1>4, <1>6, <2>1, <2>3, RawIs
<1>. QED
  BY <1>4, <1>5, <1>6

\* What IMSGSET writes, IMSGGET reads, up to quantization.
LEMMA ItemWritten ==
    ASSUME NEW sys, NEW id, NEW n \in Nat, Fits(sys, id, n), NEW blocks \in Blocks(n), NEW x \in Int
    PROVE  LET item == ItemOf(RowOf(id))
               raw  == EncodeToBits(item, PrepareRaw(item, x))
           IN  /\ raw \in Raws(id)
               /\ DecodeRaw(item, raw) = PrepareRaw(item, x)
               /\ IMSGSET(sys, id, blocks, x)
                    = WriteValue(blocks, BlockOf(sys, id), RowOf(id)[2], item.width, raw)
<1>1. PICK item \in Items :
        item = ItemOf(RowOf(id)) /\ item.width = BitsOf(id) /\ item.alg \in {"AN", "AC"}
  BY RowItem DEF Fits, BitsOf
<1>2. ~Refused(item, x)
  BY <1>1 DEF Refused
<1>3. /\ PrepareRaw(item, x) \in WireRange(item)
      /\ DecodeRaw(item, EncodeToBits(item, PrepareRaw(item, x))) = PrepareRaw(item, x)
  BY <1>2, NearestRaw
<1>4. PrepareRaw(item, x) \in Int
  BY <1>3, Wires DEF WireRange
<1>5. P2(BitsOf(id)) \in Nat \ {0}
  BY Layout, PowerSum DEF Fits
<1>6. EncodeToBits(item, PrepareRaw(item, x)) \in 0 .. P2(BitsOf(id)) - 1
  BY <1>1, <1>4, <1>5 DEF EncodeToBits, P2
<1>. QED
  BY <1>1, <1>3, <1>6 DEF IMSGSET, Raws

\* A message filled with one word.
LEMMA FilledBlocks ==
    ASSUME NEW n \in Nat, NEW word \in Word
    PROVE  /\ Filled(n, word) \in Blocks(n)
           /\ \A sys, id : Fits(sys, id, n) =>
                 RawAt(sys, id, Filled(n, word)) = Bits(word, OffsetOf(id), BitsOf(id))
<1>1. Filled(n, word) \in Blocks(n)
  BY DEF Filled, Blocks
<1>2. ASSUME NEW sys, NEW id, Fits(sys, id, n)
      PROVE  RawAt(sys, id, Filled(n, word)) = Bits(word, OffsetOf(id), BitsOf(id))
  <2>1. Filled(n, word)[BlockOf(sys, id)] = word
    BY <1>2 DEF Fits, Filled
  <2>. QED
    BY <1>1, <1>2, <2>1, RawIs
<1>. QED
  BY <1>1, <1>2

\* A field that fits its message is found there.
LEMMA FieldsResolve ==
    ASSUME NEW sys, NEW id, NEW n \in Nat, Fits(sys, id, n), NEW blocks \in Blocks(n)
    PROVE  Resolves(sys, id, blocks)
<1>1. DOMAIN blocks = 0 .. n - 1
  BY DEF Blocks
<1>2. ItemOf(RowOf(id)).width = BitsOf(id) /\ RowOf(id)[2] = OffsetOf(id)
  BY RawIs DEF OffsetOf
<1>. QED
  BY <1>1, <1>2 DEF Fits, Resolves, HasField

\* A cleared message holds no command.
LEMMA ClearedFields ==
    ASSUME NEW n \in Nat
    PROVE  /\ Cleared(n) \in Blocks(n)
           /\ \A sys, id : Fits(sys, id, n) => RawAt(sys, id, Cleared(n)) = 0
<1>1. Cleared(n) = Filled(n, 0)
  BY DEF Cleared, Filled
<1>2. ASSUME NEW sys, NEW id, Fits(sys, id, n)
      PROVE  Bits(0, OffsetOf(id), BitsOf(id)) = 0
  <2>1. IsField(OffsetOf(id), BitsOf(id))
    BY <1>2, Layout DEF Fits
  <2>2. P2(OffsetOf(id)) \in Nat \ {0} /\ P2(BitsOf(id)) \in Nat \ {0}
    BY <2>1, PowerSum
  <2>. QED
    BY <2>2 DEF Bits, P2
<1>3. 0 \in Word
  BY Words
<1>. QED
  BY <1>1, <1>2, <1>3, FilledBlocks

-------------------------------------------------------------------------------
(* Telemetry on its way *)

\* The window of a device in the telemetry of CS.
Window(dev) == PrmStart(dev) .. PrmStart(dev) + PrmMsgBlocks[dev] - 1

\* Each window lies in the message of CS, and no two of them meet.
LEMMA Windows ==
    ASSUME NEW dev \in Devices
    PROVE  /\ PrmStart(dev) \in Nat /\ PrmMsgBlocks[dev] \in Nat \ {0} /\ Window(dev) \subseteq 0 .. 25
           /\ PrmMsgBlocks.CS = 26
           /\ \A other \in Devices \ {dev} : Window(dev) \cap Window(other) = {}
<1>1. \A d \in Devices : /\ d = "PSS" => PrmStart(d) = 0 /\ PrmMsgBlocks[d] = 15
                         /\ d = "TCS" => PrmStart(d) = 15 /\ PrmMsgBlocks[d] = 3
                         /\ d = "TMS" => PrmStart(d) = 18 /\ PrmMsgBlocks[d] = 4
                         /\ d = "MNS" => PrmStart(d) = 22 /\ PrmMsgBlocks[d] = 2
                         /\ d = "LS"  => PrmStart(d) = 24 /\ PrmMsgBlocks[d] = 2
  BY DEF Devices, PrmStart, PrmMsgBlocks
<1>2. PrmMsgBlocks.CS = 26
  BY DEF PrmMsgBlocks
<1>3. ASSUME NEW other \in Devices \ {dev} PROVE Window(dev) \cap Window(other) = {}
  BY <1>1 DEF Window, Devices
<1>4. PrmStart(dev) \in Nat /\ PrmMsgBlocks[dev] \in Nat \ {0} /\ Window(dev) \subseteq 0 .. 25
  BY <1>1 DEF Window, Devices
<1>. QED
  BY <1>2, <1>3, <1>4

\* find_cs_param_base_block finds where a window starts.
LEMMA WindowFound ==
    ASSUME NEW dev \in Devices
    PROVE  PrmBase(dev) = PrmStart(dev)
<1>. DEFINE tab == ParamTab[dev]
            S   == {tab[i][4] : i \in DOMAIN tab}
<1>1. SoundTable(tab, PrmRows(dev), PrmMsgBlocks[dev], PrmStart(dev))
  BY ParamTables
<1>2. tab[1][3] = 0 /\ 1 \in 1 .. PrmRows(dev)
  BY DEF Devices, ParamTab, PrmRows
<1>. HIDE DEF tab
<1>3. DOMAIN tab = 1 .. PrmRows(dev) /\ PrmStart(dev) \in Nat /\ PrmMsgBlocks[dev] \in Nat
  BY <1>1 DEF SoundTable
<1>4. ASSUME NEW i \in DOMAIN tab
      PROVE  tab[i][4] \in Nat /\ tab[i][4] >= PrmStart(dev)
  <2>1. RowSound(tab[i], PrmMsgBlocks[dev], PrmStart(dev))
    BY <1>1, <1>3 DEF SoundTable
  <2>. QED
    BY <1>3, <2>1 DEF RowSound
<1>5. PrmStart(dev) \in S
  <2>1. RowSound(tab[1], PrmMsgBlocks[dev], PrmStart(dev))
    BY <1>1, <1>2 DEF SoundTable
  <2>2. tab[1][4] = PrmStart(dev)
    BY <1>2, <1>3, <2>1 DEF RowSound
  <2>. QED
    BY <1>2, <1>3, <2>2
<1>6. S \in SUBSET Nat /\ S # {} /\ \A y \in S : PrmStart(dev) <= y
  BY <1>4, <1>5
<1>7. PrmBase(dev) = Min(S)
  BY DEF PrmBase, tab
<1>. HIDE DEF S
<1>8. Min(S) \in S /\ \A y \in S : Min(S) <= y
  BY <1>6, Least
<1>9. Min(S) <= PrmStart(dev) /\ PrmStart(dev) <= Min(S) /\ Min(S) \in Nat
  BY <1>5, <1>6, <1>8
<1>. QED
  BY <1>3, <1>7, <1>9

\* Where an identifier fits.
LEMMA ParamFits ==
    ASSUME NEW id \in ParamIds
    PROVE  /\ id[2] \in Devices
           /\ Fits(id[2], id, PrmMsgBlocks[id[2]])
           /\ Fits("CS", id, PrmMsgBlocks.CS)
           /\ BlockOf("CS", id) = BlockOf(id[2], id) + PrmStart(id[2])
           /\ BlockOf("CS", id) \in Window(id[2])
           /\ \A other \in ParamIds \ {id} :
                 IdsApart("CS", id, other) /\ (other[2] = id[2] => IdsApart(id[2], id, other))
<1>1. PICK dev \in Devices : dev = id[2]
  BY ParamRows
<1>2. RowSound(RowOf(id), PrmMsgBlocks[dev], PrmStart(dev))
  BY <1>1, ParamRows
<1>3. dev # "CS"
  BY DEF Devices
<1>4. /\ PrmStart(dev) \in Nat /\ PrmMsgBlocks[dev] \in Nat \ {0} /\ Window(dev) \subseteq 0 .. 25
      /\ PrmMsgBlocks.CS = 26
  BY Windows
<1>5. \A p \in ParamIds : BlockOf("CS", p) = RowOf(p)[4] /\ BlockOf(dev, p) = RowOf(p)[3]
  BY <1>3 DEF BlockOf
<1>6. /\ RowOf(id)[3] \in 0 .. PrmMsgBlocks[dev] - 1 /\ RowOf(id)[4] = RowOf(id)[3] + PrmStart(dev)
      /\ RowOf(id)[1] \in RowTypes /\ LayoutSupported(WidthOf(RowOf(id)), RowOf(id)[2])
  BY <1>2 DEF RowSound
<1>7. RowOf(id)[4] \in Window(dev)
  BY <1>4, <1>6 DEF Window
<1>8. Fits(dev, id, PrmMsgBlocks[dev]) /\ Fits("CS", id, PrmMsgBlocks.CS)
  <2>1. RowOf(id)[4] \in 0 .. PrmMsgBlocks.CS - 1
    BY <1>4, <1>7
  <2>. QED
    BY <1>5, <1>6, <2>1 DEF Fits, OffsetOf, BitsOf
<1>9. ASSUME NEW other \in ParamIds \ {id}
      PROVE  IdsApart("CS", id, other) /\ (other[2] = dev => IdsApart(dev, id, other))
  <2>1. CASE other[2] = dev
    <3>1. RowsApart(RowOf(id), RowOf(other))
      BY <1>1, <2>1, ParamRows
    <3>. QED
      BY <1>5, <3>1 DEF RowsApart, IdsApart, OffsetOf, BitsOf
  <2>2. CASE other[2] # dev
    <3>1. PICK d \in Devices : d = other[2] /\ RowSound(RowOf(other), PrmMsgBlocks[d], PrmStart(d))
      BY ParamRows
    <3>2. RowOf(other)[4] \in Window(d)
      BY <3>1, Windows DEF RowSound, Window
    <3>3. Window(dev) \cap Window(d) = {}
      BY <2>2, <3>1, Windows
    <3>4. RowOf(id)[4] # RowOf(other)[4]
      BY <1>7, <3>2, <3>3
    <3>. QED
      BY <1>5, <2>2, <3>4 DEF IdsApart, Apart
  <2>. QED
    BY <2>1, <2>2
<1>. QED
  BY <1>1, <1>5, <1>6, <1>7, <1>8, <1>9

\* A parameter a device exports is the value CS reads, up to quantization, whatever
\* the device, the line and CS held before.  The other parameters of the device arrive
\* as they stood in its message, and those of the other devices stay.
THEOREM ParameterTravels ==
    ASSUME NEW id \in ParamIds, NEW x \in Int, NEW N \in Nat, PrmMsgBlocks[id[2]] <= N,
           NEW msg \in Blocks(PrmMsgBlocks[id[2]]), NEW line \in Blocks(N),
           NEW seen \in Blocks(PrmMsgBlocks.CS)
    PROVE  LET dev  == id[2]
               n    == PrmMsgBlocks[dev]
               item == ItemOf(RowOf(id))
               own  == IMSGSET(dev, id, msg, x)
               new  == CopyBlocks(seen, PrmBase(dev), Carried(own, line, n), 0, n)
           IN  /\ own \in Blocks(n) /\ new \in Blocks(PrmMsgBlocks.CS)
               /\ IMSGGET("CS", id, new) = DecodeProcessed(item, PrepareRaw(item, x))
               /\ \A other \in ParamIds \ {id} :
                     RawAt("CS", other, new) = IF other[2] = dev THEN RawAt(dev, other, msg)
                                               ELSE RawAt("CS", other, seen)
<1>1. PICK dev \in Devices, n \in Nat, base \in Nat :
        /\ dev = id[2] /\ n = PrmMsgBlocks[dev] /\ base = PrmStart(dev) /\ base = PrmBase(dev)
        /\ Window(dev) = base .. base + n - 1 /\ Window(dev) \subseteq 0 .. 25 /\ PrmMsgBlocks.CS = 26
  BY ParamFits, Windows, WindowFound DEF Window
<1>a. msg \in Blocks(n) /\ line \in Blocks(N) /\ seen \in Blocks(26) /\ n <= N /\ DOMAIN seen = 0 .. 25
  <2>1. msg \in Blocks(n) /\ line \in Blocks(N) /\ seen \in Blocks(26) /\ n <= N
    BY <1>1
  <2>2. 26 - 1 = 25
    OBVIOUS
  <2>. QED
    BY <2>1, <2>2 DEF Blocks
<1>b. PICK item, raw, own :
        /\ item = ItemOf(RowOf(id)) /\ raw = EncodeToBits(item, PrepareRaw(item, x))
        /\ own = IMSGSET(dev, id, msg, x)
  OBVIOUS
<1>2. /\ item = ItemOf(RowOf(id)) /\ raw \in Raws(id) /\ own = IMSGSET(dev, id, msg, x)
      /\ own = WriteValue(msg, BlockOf(dev, id), RowOf(id)[2], item.width, raw)
      /\ DecodeRaw(item, raw) = PrepareRaw(item, x)
  <2>1. Fits(dev, id, n)
    BY <1>1, ParamFits
  <2>. QED
    BY <1>a, <1>b, <2>1, ItemWritten
<1>3. /\ own \in Blocks(n) /\ RawAt(dev, id, own) = raw
      /\ \A other : Fits(dev, other, n) /\ IdsApart(dev, id, other) =>
            RawAt(dev, other, own) = RawAt(dev, other, msg)
  <2>1. Fits(dev, id, n)
    BY <1>1, ParamFits
  <2>. QED
    BY <1>1, <1>2, <2>1, RawWritten
<1>4. PICK new : new = CopyBlocks(seen, PrmBase(dev), Carried(own, line, n), 0, n)
  OBVIOUS
<1>5. \A k \in 0 .. 25 : new[k] = IF k \in Window(dev) THEN own[k - base] ELSE seen[k]
  <2>1. Carried(own, line, n) = [k \in 0 .. N - 1 |-> IF k < n THEN own[k] ELSE line[k]]
    <3>1. n \in Nat /\ n <= n /\ n <= N /\ own \in Blocks(n) /\ line \in Blocks(N)
      BY <1>1, <1>a, <1>3
    <3>. QED
      BY <3>1, BytesCarried
  <2>3. ASSUME NEW k \in 0 .. 25 PROVE new[k] = IF k \in Window(dev) THEN own[k - base] ELSE seen[k]
    <3>1. new[k] = IF k \in base .. base + n - 1 /\ 0 + k - base \in 0 .. N - 1
                   THEN Carried(own, line, n)[0 + k - base] ELSE seen[k]
      BY <1>1, <1>a, <1>4, <2>1 DEF CopyBlocks
    <3>2. CASE k \in Window(dev)
      <4>1. 0 + k - base = k - base /\ k - base \in 0 .. N - 1 /\ k - base < n
        BY <1>1, <3>2
      <4>2. Carried(own, line, n)[k - base] = own[k - base]
        BY <2>1, <4>1
      <4>. QED
        BY <1>1, <3>1, <3>2, <4>1, <4>2
    <3>3. CASE k \notin Window(dev)
      BY <1>1, <3>1, <3>3
    <3>. QED
      BY <3>2, <3>3
  <2>. QED
    BY <2>3
<1>6. new \in Blocks(26)
  <2>1. \A k \in 0 .. 25 : new[k] \in Word
    <3>1. ASSUME NEW k \in Window(dev) PROVE own[k - base] \in Word
      <4>1. k - base \in 0 .. n - 1
        BY <1>1, <3>1
      <4>. QED
        BY <1>3, <4>1 DEF Blocks
    <3>2. \A k \in 0 .. 25 : seen[k] \in Word
      BY <1>a DEF Blocks
    <3>. QED
      BY <1>5, <3>1, <3>2
  <2>2. new = [k \in 0 .. 25 |-> new[k]]
    BY <1>a, <1>4 DEF CopyBlocks
  <2>. QED
    BY <2>1, <2>2 DEF Blocks
<1>7. ASSUME NEW p \in ParamIds
      PROVE  /\ Fits("CS", p, 26)
             /\ p[2] = dev => RawAt("CS", p, new) = RawAt(dev, p, own) /\ Fits(dev, p, n)
             /\ p[2] # dev => RawAt("CS", p, new) = RawAt("CS", p, seen)
  <2>1. Fits("CS", p, 26) /\ BlockOf("CS", p) \in 0 .. 25 /\ BlockOf("CS", p) \in Window(p[2])
    BY <1>1, ParamFits DEF Fits
  <2>2. ASSUME p[2] = dev PROVE RawAt("CS", p, new) = RawAt(dev, p, own) /\ Fits(dev, p, n)
    <3>1. Fits(dev, p, n) /\ BlockOf("CS", p) = BlockOf(dev, p) + base
      BY <1>1, <2>2, ParamFits
    <3>3. BlockOf(dev, p) \in Int
      BY <3>1 DEF Fits
    <3>2. new[BlockOf("CS", p)] = own[BlockOf(dev, p)]
      BY <1>5, <2>1, <2>2, <3>1, <3>3
    <3>. QED
      BY <1>3, <1>6, <2>1, <3>1, <3>2, RawIs
  <2>3. ASSUME p[2] # dev PROVE RawAt("CS", p, new) = RawAt("CS", p, seen)
    <3>1. BlockOf("CS", p) \notin Window(dev)
      BY <2>1, <2>3, ParamFits, Windows
    <3>2. new[BlockOf("CS", p)] = seen[BlockOf("CS", p)]
      BY <1>5, <2>1, <3>1
    <3>. QED
      BY <1>1, <1>6, <2>1, <3>2, RawIs
  <2>. QED
    BY <2>1, <2>2, <2>3
<1>8. IMSGGET("CS", id, new) = DecodeProcessed(item, PrepareRaw(item, x))
  BY <1>1, <1>2, <1>3, <1>7 DEF IMSGGET
<1>9. ASSUME NEW other \in ParamIds \ {id}
      PROVE  RawAt("CS", other, new) = IF other[2] = dev THEN RawAt(dev, other, msg)
                                       ELSE RawAt("CS", other, seen)
  BY <1>1, <1>3, <1>7, ParamFits
<1>. QED
  BY <1>1, <1>2, <1>3, <1>4, <1>6, <1>8, <1>9

\* The samples are numbers, and what stale buffers hold are words.
LEMMA SampleNumbers == SampleValues \subseteq Int /\ 0 \in Word /\ 2^16 - 1 \in Word
<1>1. 2^16 - 1 = 65535
  OBVIOUS
<1>. QED
  BY <1>1, Words DEF SampleValues

\* No sample of a parameter is read wrong by CS, nor disturbs another parameter.
THEOREM NoneWrong == WrongTelemetry = {}
<1>1. ASSUME NEW id \in ParamIds, NEW x \in Int, NEW stale \in Word
      PROVE  LET dev  == id[2]
                 n    == PrmMsgBlocks[dev]
                 own  == IMSGSET(dev, id, Filled(n, stale), x)
                 buf  == Carried(own, Filled(PrmMsgBlocks.PSS, stale), n)
                 old  == Filled(PrmMsgBlocks.CS, stale)
                 new  == CopyBlocks(old, PrmBase(dev), buf, 0, n)
                 item == ItemOf(RowOf(id))
             IN  /\ MayGenerate(dev, id) /\ MayParse("CS", id)
                 /\ Resolves(dev, id, own) /\ Resolves("CS", id, new)
                 /\ IMSGGET("CS", id, new) = DecodeProcessed(item, PrepareRaw(item, x))
                 /\ \A other \in ParamIds \ {id} :
                       RawAt("CS", other, new) = RawAt("CS", other, old)
  <2>1. PICK dev \in Devices, n \in Nat :
          dev = id[2] /\ n = PrmMsgBlocks[dev] /\ n <= PrmMsgBlocks.PSS
    <3>1. \A d \in Devices : PrmMsgBlocks[d] \in Nat /\ PrmMsgBlocks[d] <= PrmMsgBlocks.PSS
      BY DEF Devices, PrmMsgBlocks
    <3>. QED
      BY <3>1, ParamFits
  <2>2. PrmMsgBlocks.PSS \in Nat /\ PrmMsgBlocks.CS \in Nat
    BY DEF PrmMsgBlocks
  <2>3. PICK msg, line, old :
          /\ msg = Filled(n, stale) /\ line = Filled(PrmMsgBlocks.PSS, stale)
          /\ old = Filled(PrmMsgBlocks.CS, stale)
    OBVIOUS
  <2>4. msg \in Blocks(n) /\ line \in Blocks(PrmMsgBlocks.PSS) /\ old \in Blocks(PrmMsgBlocks.CS)
    BY <2>2, <2>3, FilledBlocks
  <2>5. PICK own, new, item :
          /\ own = IMSGSET(dev, id, msg, x) /\ item = ItemOf(RowOf(id))
          /\ new = CopyBlocks(old, PrmBase(dev), Carried(own, line, n), 0, n)
    OBVIOUS
  <2>6. /\ own \in Blocks(n) /\ new \in Blocks(PrmMsgBlocks.CS)
        /\ IMSGGET("CS", id, new) = DecodeProcessed(item, PrepareRaw(item, x))
        /\ \A other \in ParamIds \ {id} :
              RawAt("CS", other, new) = IF other[2] = dev THEN RawAt(dev, other, msg)
                                        ELSE RawAt("CS", other, old)
    <3>1. /\ PrmMsgBlocks.PSS \in Nat /\ PrmMsgBlocks[id[2]] <= PrmMsgBlocks.PSS
          /\ msg \in Blocks(PrmMsgBlocks[id[2]]) /\ line \in Blocks(PrmMsgBlocks.PSS)
          /\ old \in Blocks(PrmMsgBlocks.CS)
      BY <2>1, <2>2, <2>4
    <3>2. /\ own = IMSGSET(id[2], id, msg, x)
          /\ new = CopyBlocks(old, PrmBase(id[2]), Carried(own, line, PrmMsgBlocks[id[2]]),
                              0, PrmMsgBlocks[id[2]])
      BY <2>1, <2>5
    <3>3. /\ own \in Blocks(PrmMsgBlocks[id[2]]) /\ new \in Blocks(PrmMsgBlocks.CS)
          /\ IMSGGET("CS", id, new)
               = DecodeProcessed(ItemOf(RowOf(id)), PrepareRaw(ItemOf(RowOf(id)), x))
          /\ \A other \in ParamIds \ {id} :
                RawAt("CS", other, new) = IF other[2] = id[2] THEN RawAt(id[2], other, msg)
                                          ELSE RawAt("CS", other, old)
      BY <3>1, <3>2, ParameterTravels
    <3>. QED
      BY <2>1, <2>5, <3>3
  <2>7. /\ Fits(dev, id, n) /\ Fits("CS", id, PrmMsgBlocks.CS)
        /\ \A other \in ParamIds : /\ Fits("CS", other, PrmMsgBlocks.CS)
                                   /\ other[2] = dev => Fits(dev, other, n)
    BY <2>1, ParamFits
  <2>8. Resolves(dev, id, own) /\ Resolves("CS", id, new)
    BY <2>2, <2>6, <2>7, FieldsResolve
  <2>9. \A other \in ParamIds \ {id} : RawAt("CS", other, new) = RawAt("CS", other, old)
    BY <2>2, <2>3, <2>6, <2>7, FilledBlocks
  <2>10. MayGenerate(dev, id) /\ MayParse("CS", id)
    BY <2>1 DEF MayGenerate, MayParse, Devices
  <2>. QED
    BY <2>1, <2>3, <2>5, <2>6, <2>8, <2>9, <2>10
<1>2. ASSUME NEW sample \in ParamIds \X SampleValues \X {0, 2^16 - 1}
      PROVE  sample[1] \in ParamIds /\ sample[2] \in Int /\ sample[3] \in Word
  BY SampleNumbers
<1>. QED
  BY <1>1, <1>2 DEF WrongTelemetry

-------------------------------------------------------------------------------
(* Commands on their way *)

\* What fits a message fits a longer one.
LEMMA FitsMore ==
    ASSUME NEW sys, NEW id, NEW n \in Nat, NEW N \in Nat, n <= N, Fits(sys, id, n)
    PROVE  Fits(sys, id, N)
<1>1. BlockOf(sys, id) \in 0 .. N - 1
  BY DEF Fits
<1>. QED
  BY <1>1 DEF Fits

\* The fields of the commands of a device, in its own messages and in those of CS.
LEMMA CommFits ==
    ASSUME NEW id \in CommIds
    PROVE  /\ id[2] \in Devices /\ CmdMsgBlocks[id[2]] \in Nat \ {0} /\ CmdMsgBlocks.CS = 16
           /\ Fits(id[2], id, CmdMsgBlocks[id[2]]) /\ Fits("CS", id, CmdMsgBlocks.CS)
           /\ \A other \in CommIds \ {id} : other[2] = id[2] =>
                 IdsApart("CS", id, other) /\ IdsApart(id[2], id, other)
<1>1. PICK dev \in Devices : dev = id[2]
  BY CommRows
<1>2. RowSound(RowOf(id), CmdMsgBlocks[dev], CmdStart(dev))
  BY <1>1, CommRows
<1>3. dev # "CS"
  BY DEF Devices
<1>4. /\ CmdMsgBlocks.CS = 16 /\ CmdMsgBlocks[dev] \in Nat \ {0}
      /\ \A b \in 0 .. CmdMsgBlocks[dev] - 1 : b + CmdStart(dev) \in 0 .. 15
  <2>1. \A d \in Devices : /\ d = "PSS" => CmdStart(d) = 0 /\ CmdMsgBlocks[d] = 8
                           /\ d = "TCS" => CmdStart(d) = 8 /\ CmdMsgBlocks[d] = 3
                           /\ d = "TMS" => CmdStart(d) = 11 /\ CmdMsgBlocks[d] = 3
                           /\ d = "MNS" => CmdStart(d) = 14 /\ CmdMsgBlocks[d] = 1
                           /\ d = "LS"  => CmdStart(d) = 15 /\ CmdMsgBlocks[d] = 1
    BY DEF Devices, CmdStart, CmdMsgBlocks
  <2>2. CmdMsgBlocks.CS = 16
    BY DEF CmdMsgBlocks
  <2>. QED
    BY <2>1, <2>2 DEF Devices
<1>5. \A p \in CommIds : BlockOf("CS", p) = RowOf(p)[4] /\ BlockOf(dev, p) = RowOf(p)[3]
  BY <1>3 DEF BlockOf
<1>6. /\ RowOf(id)[3] \in 0 .. CmdMsgBlocks[dev] - 1 /\ RowOf(id)[4] = RowOf(id)[3] + CmdStart(dev)
      /\ RowOf(id)[1] \in RowTypes /\ LayoutSupported(WidthOf(RowOf(id)), RowOf(id)[2])
  BY <1>2 DEF RowSound
<1>7. Fits(dev, id, CmdMsgBlocks[dev]) /\ Fits("CS", id, CmdMsgBlocks.CS)
  <2>1. RowOf(id)[4] \in 0 .. CmdMsgBlocks.CS - 1
    BY <1>4, <1>6
  <2>. QED
    BY <1>5, <1>6, <2>1 DEF Fits, OffsetOf, BitsOf
<1>8. ASSUME NEW other \in CommIds \ {id}, other[2] = dev
      PROVE  IdsApart("CS", id, other) /\ IdsApart(dev, id, other)
  <2>1. RowsApart(RowOf(id), RowOf(other))
    BY <1>1, <1>8, CommRows
  <2>. QED
    BY <1>5, <2>1 DEF RowsApart, IdsApart, OffsetOf, BitsOf
<1>. QED
  BY <1>1, <1>4, <1>7, <1>8

\* One step of the merge: the field of one command is overwritten if the source has
\* one, and the others stay.
LEMMA FieldMerged ==
    ASSUME NEW dev \in Devices, NEW i \in 1 .. CmdRows(dev), NEW id, id = <<"cmd", dev, i>>,
           NEW N \in Nat, CmdMsgBlocks[dev] <= N, NEW S \in Nat, NEW sys, Fits(sys, id, S),
           NEW src \in Blocks(S), NEW buf \in Blocks(N)
    PROVE  LET new == MergeField(dev, sys, src, i, buf)
               raw == RawAt(sys, id, src)
           IN  /\ new \in Blocks(N)
               /\ RawAt(dev, id, new) = IF raw # 0 THEN raw ELSE RawAt(dev, id, buf)
               /\ \A other \in CommIds \ {id} : other[2] = dev =>
                     RawAt(dev, other, new) = RawAt(dev, other, buf)
<1>1. id \in CommIds /\ id[2] = dev
  BY CommIdOf
<1>2. \A c \in CommIds : c[2] = dev => Fits(dev, c, N)
  BY CommFits, FitsMore
<1>3. PICK new, raw : new = MergeField(dev, sys, src, i, buf) /\ raw = RawAt(sys, id, src)
  OBVIOUS
<1>4. raw \in Raws(id)
  BY <1>3, RawIs
<1>5. CASE raw = 0
  BY <1>3, <1>5 DEF MergeField
<1>6. CASE raw # 0
  <2>1. new = WriteValue(buf, BlockOf(dev, id), RowOf(id)[2], ItemOf(RowOf(id)).width, raw)
    BY <1>3, <1>6 DEF MergeField
  <2>2. /\ new \in Blocks(N) /\ RawAt(dev, id, new) = raw
        /\ \A other : Fits(dev, other, N) /\ IdsApart(dev, id, other) =>
              RawAt(dev, other, new) = RawAt(dev, other, buf)
    BY <1>1, <1>2, <1>4, <2>1, RawWritten
  <2>3. \A other \in CommIds \ {id} : other[2] = dev => IdsApart(dev, id, other) /\ Fits(dev, other, N)
    BY <1>1, <1>2, CommFits
  <2>. QED
    BY <1>3, <1>6, <2>2, <2>3
<1>. QED
  BY <1>5, <1>6

\* A command that is set in the source takes the place of the one in the destination,
\* and one that is not leaves it.
LEMMA FieldsMerged ==
    ASSUME NEW dev \in Devices, NEW N \in Nat, CmdMsgBlocks[dev] <= N, NEW S \in Nat, NEW sys,
           \A id \in CommIds : id[2] = dev => Fits(sys, id, S),
           NEW src \in Blocks(S), NEW dst \in Blocks(N)
    PROVE  /\ Merged(dev, sys, src, dst) \in Blocks(N)
           /\ \A id \in CommIds : id[2] = dev =>
                 RawAt(dev, id, Merged(dev, sys, src, dst))
                   = IF RawAt(sys, id, src) # 0 THEN RawAt(sys, id, src) ELSE RawAt(dev, id, dst)
<1>. DEFINE K    == CmdRows(dev)
            Id(i) == <<"cmd", dev, i>>
            F(g) == g = [i \in 0 .. K |-> IF i = 0 THEN dst ELSE MergeField(dev, sys, src, i, g[i - 1])]
            step == [p \in (1 .. K) \X Blocks(N) |-> MergeField(dev, sys, src, p[1], p[2])]
<1>1. K \in Nat /\ Len(CommTab[dev]) = K
  BY CommTables DEF SoundTable
<1>2. \A i \in 1 .. K : Id(i) \in CommIds /\ Id(i)[2] = dev /\ Fits(sys, Id(i), S)
  BY CommIdOf
<1>3. ASSUME NEW i \in 1 .. K, NEW buf \in Blocks(N)
      PROVE  /\ MergeField(dev, sys, src, i, buf) \in Blocks(N)
             /\ RawAt(dev, Id(i), MergeField(dev, sys, src, i, buf))
                  = IF RawAt(sys, Id(i), src) # 0 THEN RawAt(sys, Id(i), src)
                    ELSE RawAt(dev, Id(i), buf)
             /\ \A other \in CommIds \ {Id(i)} : other[2] = dev =>
                   RawAt(dev, other, MergeField(dev, sys, src, i, buf)) = RawAt(dev, other, buf)
  BY <1>2, FieldMerged
<1>. HIDE DEF K
<1>4. \E g : F(g)
  <2>1. step \in [(1 .. K) \X Blocks(N) -> Blocks(N)]
    BY <1>3
  <2>2. \A i \in 1 .. K, b \in Blocks(N) : step[<<i, b>>] = MergeField(dev, sys, src, i, b)
    OBVIOUS
  <2>. HIDE DEF step
  <2>3. PICK f \in [0 .. K -> Blocks(N)] : f[0] = dst /\ \A i \in 1 .. K : f[i] = step[<<i, f[i - 1]>>]
    <3>1. PICK B, st : B = Blocks(N) /\ st = step
      OBVIOUS
    <3>2. K \in Nat /\ dst \in B /\ IsStep(st, K, B)
      BY <1>1, <2>1, <3>1 DEF IsStep
    <3>3. \E f : IsRun(f, K, B, dst, st)
      BY <3>2, Loop
    <3>. QED
      BY <3>1, <3>3 DEF IsRun
  <2>4. ASSUME NEW i \in 1 .. K PROVE f[i] = MergeField(dev, sys, src, i, f[i - 1])
    <3>1. f[i - 1] \in Blocks(N)
      BY <1>1, <2>3
    <3>. QED
      BY <2>2, <2>3, <3>1
  <2>5. F(f)
    BY <2>3, <2>4
  <2>. HIDE DEF F
  <2>. QED
    BY <2>5
<1>5. Merged(dev, sys, src, dst) = (CHOOSE g : F(g))[K]
  BY <1>1 DEF Merged
<1>6. PICK g : F(g) /\ Merged(dev, sys, src, dst) = g[K]
  <2>. HIDE DEF F
  <2>. QED
    BY <1>4, <1>5
<1>7. g[0] = dst /\ \A i \in 1 .. K : g[i] = MergeField(dev, sys, src, i, g[i - 1])
  BY <1>1, <1>6
<1>. HIDE DEF F, step
<1>. DEFINE New(j)  == IF RawAt(sys, Id(j), src) # 0 THEN RawAt(sys, Id(j), src)
                       ELSE RawAt(dev, Id(j), dst)
            Done(i) == /\ g[i] \in Blocks(N)
                       /\ \A j \in 1 .. K : RawAt(dev, Id(j), g[i])
                                              = IF j <= i THEN New(j) ELSE RawAt(dev, Id(j), dst)
            T       == {i \in 0 .. K : Done(i)}
<1>8. 0 \in T
  BY <1>1, <1>7
<1>9. ASSUME NEW i \in 1 .. K, i - 1 \in T PROVE i \in T
  <2>1. Done(i - 1)
    BY <1>9
  <2>2. g[i] \in Blocks(N)
    BY <1>3, <1>7, <2>1
  <2>3. ASSUME NEW j \in 1 .. K
        PROVE  RawAt(dev, Id(j), g[i]) = IF j <= i THEN New(j) ELSE RawAt(dev, Id(j), dst)
    <3>1. CASE j = i
      <4>1. RawAt(dev, Id(j), g[i - 1]) = RawAt(dev, Id(j), dst)
        BY <2>1, <3>1
      <4>. QED
        BY <1>3, <1>7, <2>1, <3>1, <4>1
    <3>2. CASE j # i
      <4>1. Id(j) # Id(i)
        BY <3>2
      <4>2. RawAt(dev, Id(j), g[i]) = RawAt(dev, Id(j), g[i - 1])
        <5>1. Id(j) \in CommIds \ {Id(i)} /\ Id(j)[2] = dev /\ g[i - 1] \in Blocks(N)
              /\ g[i] = MergeField(dev, sys, src, i, g[i - 1])
          BY <1>2, <1>7, <2>1, <4>1
        <5>. HIDE DEF Id
        <5>. QED
          BY <1>3, <5>1
      <4>3. j <= i <=> j <= i - 1
        BY <3>2
      <4>. QED
        BY <2>1, <4>2, <4>3
    <3>. QED
      BY <3>1, <3>2
  <2>. QED
    BY <2>2, <2>3
<1>10. 0 .. K \subseteq T
  <2>. HIDE DEF T
  <2>. QED
    BY <1>1, <1>8, <1>9, Induction
<1>11. Done(K)
  BY <1>1, <1>10
<1>12. ASSUME NEW id \in CommIds, id[2] = dev
       PROVE  \E j \in 1 .. K : id = Id(j)
  BY <1>12, CommRows DEF K
<1>. QED
  BY <1>6, <1>11, <1>12

\* What a device gets of the commands set by CS: those, or what the buffer of the exchange
\* still held, or what waits already.
CommandsArrive(dev, cs, window, waiting, got) ==
    /\ got \in Blocks(CmdMsgBlocks[dev])
    /\ \A id \in CommIds : id[2] = dev =>
          RawAt(dev, id, got) = IF RawAt("CS", id, cs) # 0 THEN RawAt("CS", id, cs)
                                ELSE IF RawAt(dev, id, window) # 0 THEN RawAt(dev, id, window)
                                ELSE RawAt(dev, id, waiting)

\* A command CS sets reaches the device as it was set, whatever the line held, and
\* without disturbing another command of the device that is set or waiting.
THEOREM CommandTravels ==
    ASSUME NEW dev \in Devices, NEW cs \in Blocks(CmdMsgBlocks.CS),
           NEW N \in Nat, CmdMsgBlocks[dev] <= N, NEW window \in Blocks(N),
           NEW line \in Blocks(CmdMsgBlocks[dev]), NEW waiting \in Blocks(CmdMsgBlocks[dev]),
           NEW got, got = Merged(dev, dev, Carried(Merged(dev, "CS", cs, window), line,
                                                   CmdMsgBlocks[dev]), waiting)
    PROVE  CommandsArrive(dev, cs, window, waiting, got)
<1>1. PICK n \in Nat : n = CmdMsgBlocks[dev] /\ n <= N /\ n > 0
  BY DEF CmdMsgBlocks, Devices
<1>2. /\ \A id \in CommIds : id[2] = dev => Fits("CS", id, CmdMsgBlocks.CS) /\ Fits(dev, id, n)
      /\ CmdMsgBlocks.CS \in Nat
  BY <1>1, CommFits DEF CmdMsgBlocks
<1>3. PICK sent : sent = Merged(dev, "CS", cs, window)
  OBVIOUS
<1>4. /\ sent \in Blocks(N)
      /\ \A id \in CommIds : id[2] = dev =>
            RawAt(dev, id, sent)
              = IF RawAt("CS", id, cs) # 0 THEN RawAt("CS", id, cs) ELSE RawAt(dev, id, window)
  <2>1. CmdMsgBlocks.CS \in Nat /\ \A id \in CommIds : id[2] = dev => Fits("CS", id, CmdMsgBlocks.CS)
    BY <1>2
  <2>. QED
    BY <1>3, <2>1, FieldsMerged
<1>5. PICK buf : buf = Carried(sent, line, n)
  OBVIOUS
<1>6. buf = [k \in 0 .. n - 1 |-> sent[k]]
  <2>1. n <= n /\ n <= N /\ line \in Blocks(n)
    BY <1>1
  <2>2. buf = [k \in 0 .. n - 1 |-> IF k < n THEN sent[k] ELSE line[k]]
    BY <1>4, <1>5, <2>1, BytesCarried
  <2>. QED
    BY <2>2
<1>7. buf \in Blocks(n) /\ \A k \in 0 .. n - 1 : buf[k] = sent[k]
  BY <1>1, <1>4, <1>6 DEF Blocks
<1>8. \A id \in CommIds : id[2] = dev => RawAt(dev, id, buf) = RawAt(dev, id, sent)
  <2>1. ASSUME NEW id \in CommIds, id[2] = dev PROVE RawAt(dev, id, buf) = RawAt(dev, id, sent)
    <3>1. Fits(dev, id, n) /\ Fits(dev, id, N)
      BY <1>1, <1>2, <2>1, FitsMore
    <3>2. BlockOf(dev, id) \in 0 .. n - 1
      BY <3>1 DEF Fits
    <3>. QED
      BY <1>4, <1>7, <3>1, <3>2, RawIs
  <2>. QED
    BY <2>1
<1>9. got = Merged(dev, dev, buf, waiting)
  BY <1>1, <1>3, <1>5
<1>10. /\ got \in Blocks(n)
       /\ \A id \in CommIds : id[2] = dev =>
             RawAt(dev, id, got)
               = IF RawAt(dev, id, buf) # 0 THEN RawAt(dev, id, buf) ELSE RawAt(dev, id, waiting)
  <2>1. n <= n /\ waiting \in Blocks(n) /\ \A id \in CommIds : id[2] = dev => Fits(dev, id, n)
    BY <1>1, <1>2
  <2>. QED
    BY <1>1, <1>7, <1>9, <2>1, FieldsMerged
<1>. QED
  BY <1>1, <1>4, <1>8, <1>10 DEF CommandsArrive

\* A command with a large value is one, whatever its field.
LEMMA LargeIsSet ==
    ASSUME NEW id, RowOf(id)[1] \in RowTypes
    PROVE  LET item == ItemOf(RowOf(id)) IN EncodeToBits(item, PrepareRaw(item, 140001)) # 0
<1>1. PICK item \in Items :
        /\ item = ItemOf(RowOf(id)) /\ item.alg \in {"AN", "AC"} /\ item.c \in {0, 20}
        /\ item.signed => item.width = 16
  BY RowItem DEF WidthOf
<1>2. ~Refused(item, 140001)
  BY <1>1 DEF Refused
<1>3. PICK q \in WireRange(item) : q = PrepareRaw(item, 140001)
  BY <1>2, NearestRaw
<1>4. 1 \in WireRange(item)
  <2>1. CASE item.width = 1
    BY <1>1, <2>1 DEF WireRange, WireMin, WireMax
  <2>2. CASE item.width = 8
    BY <1>1, <2>2 DEF WireRange, WireMin, WireMax
  <2>3. CASE item.width = 16
    BY <1>1, <2>3 DEF WireRange, WireMin, WireMax, Items
  <2>. QED
    BY <2>1, <2>2, <2>3 DEF Items
<1>5. Distance(item, q, 140001) <= Distance(item, 1, 140001)
  BY <1>2, <1>3, <1>4, NearestRaw
<1>6. PICK e \in {0, 20} : /\ Distance(item, 0, 140001) = 140001 - e
                           /\ Distance(item, 1, 140001) = 139999 - e
  <2>1. PICK e \in {0, 20} : DecodeProcessed(item, 0) = e /\ DecodeProcessed(item, 1) = 2 + e
    <3>1. CASE item.alg = "AN"
      BY <3>1 DEF DecodeProcessed, Unit
    <3>2. CASE item.alg = "AC"
      BY <1>1, <3>2 DEF DecodeProcessed, Unit
    <3>. QED
      BY <1>1, <3>1, <3>2
  <2>2. \A d \in {0, 20, 2, 22} : d - 140001 < 0 /\ -(d - 140001) = 140001 - d
    OBVIOUS
  <2>. QED
    BY <2>1, <2>2 DEF Distance
<1>7. q # 0
  BY <1>5, <1>6
<1>. QED
  BY <1>1, <1>3, <1>7, ZeroRaw

\* No sample of a command reaches the device other than as CS sent it.
THEOREM NoneMissed == WrongCommands = {}
<1>1. ASSUME NEW id \in CommIds, NEW x \in Int, NEW mate \in CommIds \ {id}, mate[2] = id[2]
      PROVE  LET dev  == id[2]
                 n    == CmdMsgBlocks[dev]
                 item == ItemOf(RowOf(id))
                 raw  == PrepareRaw(item, x)
                 mine == {c \in CommIds : c[2] = dev}
                 cs   == IMSGSET("CS", mate,
                                 IMSGSET("CS", id, Cleared(CmdMsgBlocks.CS), x), 140001)
                 buf  == Merged(dev, "CS", cs, Cleared(CmdMsgBlocks.PSS))
                 got  == Merged(dev, dev, Carried(buf, Filled(n, 2^16 - 1), n), Cleared(n))
                 Seen(blocks) == {c \in mine : ICMDACT(dev, c, blocks)}
             IN  /\ Resolves("CS", id, cs) /\ Resolves(dev, id, got)
                 /\ Seen(got) = {mate} \cup IF raw = 0 THEN {} ELSE {id}
                 /\ IMSGGET(dev, id, got) = DecodeProcessed(item, raw)
                 /\ Seen(ICMDCLEAR(dev, id, got)) = {mate}
  <2>1. PICK dev \in Devices, n \in Nat, N \in Nat, M \in Nat :
          /\ dev = id[2] /\ n = CmdMsgBlocks[dev] /\ N = CmdMsgBlocks.PSS /\ M = CmdMsgBlocks.CS
          /\ n <= N
    <3>1. \A d \in Devices : CmdMsgBlocks[d] \in Nat /\ CmdMsgBlocks[d] <= CmdMsgBlocks.PSS
      BY DEF Devices, CmdMsgBlocks
    <3>2. CmdMsgBlocks.PSS \in Nat /\ CmdMsgBlocks.CS \in Nat
      BY DEF CmdMsgBlocks
    <3>. QED
      BY <3>1, <3>2, CommFits
  <2>. DEFINE mine == {c \in CommIds : c[2] = dev}
  <2>2. \A c \in mine : /\ Fits("CS", c, M) /\ Fits(dev, c, n) /\ Fits(dev, c, N)
                        /\ \A d \in mine \ {c} : IdsApart("CS", c, d) /\ IdsApart(dev, c, d)
    BY <2>1, CommFits, FitsMore
  <2>3. id \in mine /\ mate \in mine /\ id # mate
    BY <1>1, <2>1
  <2>. HIDE DEF mine
  <2>4. PICK none, one, cs :
          /\ none = Cleared(M) /\ one = IMSGSET("CS", id, none, x)
          /\ cs = IMSGSET("CS", mate, one, 140001)
    OBVIOUS
  <2>5. PICK item, raw, bits, other, big :
          /\ item = ItemOf(RowOf(id)) /\ raw = PrepareRaw(item, x) /\ bits = EncodeToBits(item, raw)
          /\ other = ItemOf(RowOf(mate)) /\ big = EncodeToBits(other, PrepareRaw(other, 140001))
    OBVIOUS
  <2>6. none \in Blocks(M) /\ \A c \in mine : RawAt("CS", c, none) = 0
    BY <2>1, <2>2, <2>4, ClearedFields
  <2>7. /\ one \in Blocks(M) /\ RawAt("CS", id, one) = bits /\ DecodeRaw(item, bits) = raw
        /\ \A c \in mine \ {id} : RawAt("CS", c, one) = 0
    <3>1. /\ bits \in Raws(id) /\ DecodeRaw(item, bits) = raw
          /\ one = WriteValue(none, BlockOf("CS", id), RowOf(id)[2], item.width, bits)
      BY <2>1, <2>2, <2>3, <2>4, <2>5, <2>6, ItemWritten
    <3>2. /\ one \in Blocks(M) /\ RawAt("CS", id, one) = bits
          /\ \A c : Fits("CS", c, M) /\ IdsApart("CS", id, c) =>
                RawAt("CS", c, one) = RawAt("CS", c, none)
      BY <2>1, <2>2, <2>3, <2>5, <2>6, <3>1, RawWritten
    <3>. QED
      BY <2>2, <2>3, <2>6, <3>1, <3>2
  <2>8. /\ cs \in Blocks(M) /\ RawAt("CS", mate, cs) = big
        /\ \A c \in mine \ {mate} : RawAt("CS", c, cs) = RawAt("CS", c, one)
    <3>1. /\ big \in Raws(mate)
          /\ cs = WriteValue(one, BlockOf("CS", mate), RowOf(mate)[2], other.width, big)
      <4>1. 140001 \in Int
        OBVIOUS
      <4>. QED
        BY <2>1, <2>2, <2>3, <2>4, <2>5, <2>7, <4>1, ItemWritten
    <3>2. /\ cs \in Blocks(M) /\ RawAt("CS", mate, cs) = big
          /\ \A c : Fits("CS", c, M) /\ IdsApart("CS", mate, c) =>
                RawAt("CS", c, cs) = RawAt("CS", c, one)
      BY <2>1, <2>2, <2>3, <2>5, <2>7, <3>1, RawWritten
    <3>. QED
      BY <2>2, <2>3, <3>2
  <2>9. PICK window, line, waiting :
          window = Cleared(N) /\ line = Filled(n, 2^16 - 1) /\ waiting = Cleared(n)
    OBVIOUS
  <2>10. /\ window \in Blocks(N) /\ line \in Blocks(n) /\ waiting \in Blocks(n)
         /\ \A c \in mine : RawAt(dev, c, window) = 0 /\ RawAt(dev, c, waiting) = 0
    BY <2>1, <2>2, <2>9, ClearedFields, FilledBlocks, SampleNumbers
  <2>11. PICK got : got = Merged(dev, dev, Carried(Merged(dev, "CS", cs, window), line, n), waiting)
    OBVIOUS
  <2>12. got \in Blocks(n) /\ \A c \in mine : RawAt(dev, c, got) = RawAt("CS", c, cs)
    <3>1. /\ cs \in Blocks(CmdMsgBlocks.CS) /\ CmdMsgBlocks[dev] <= N
          /\ line \in Blocks(CmdMsgBlocks[dev]) /\ waiting \in Blocks(CmdMsgBlocks[dev])
      BY <2>1, <2>8, <2>10
    <3>a. got = Merged(dev, dev, Carried(Merged(dev, "CS", cs, window), line, CmdMsgBlocks[dev]),
                       waiting)
      BY <2>1, <2>11
    <3>2. CommandsArrive(dev, cs, window, waiting, got)
      BY <2>1, <2>10, <3>1, <3>a, CommandTravels
    <3>. QED
      BY <2>1, <2>10, <3>2 DEF mine, CommandsArrive
  <2>13. /\ RawAt(dev, id, got) = bits /\ RawAt(dev, mate, got) = big
         /\ \A c \in mine \ {id, mate} : RawAt(dev, c, got) = 0
    BY <2>3, <2>7, <2>8, <2>12
  <2>14. big # 0
    BY <2>2, <2>3, <2>5, LargeIsSet DEF Fits
  <2>15. bits = 0 <=> raw = 0
    <3>1. item \in Items /\ item.alg \in {"AN", "AC"}
      BY <2>2, <2>3, <2>5, RowItem DEF Fits
    <3>2. raw \in WireRange(item)
      BY <2>5, <3>1, NearestRaw DEF Refused
    <3>. QED
      BY <2>5, <3>1, <3>2, ZeroRaw
  <2>16. Resolves("CS", id, cs) /\ Resolves(dev, id, got)
    BY <2>1, <2>2, <2>3, <2>8, <2>12, FieldsResolve
  <2>17. {c \in mine : ICMDACT(dev, c, got)} = {mate} \cup IF raw = 0 THEN {} ELSE {id}
    BY <2>3, <2>13, <2>14, <2>15 DEF ICMDACT
  <2>18. IMSGGET(dev, id, got) = DecodeProcessed(item, raw)
    BY <2>5, <2>7, <2>13 DEF IMSGGET
  <2>19. PICK cleared : cleared = ICMDCLEAR(dev, id, got)
    OBVIOUS
  <2>20. /\ RawAt(dev, id, cleared) = 0
         /\ \A c \in mine \ {id} : RawAt(dev, c, cleared) = RawAt(dev, c, got)
    <3>1. cleared = WriteValue(got, BlockOf(dev, id), RowOf(id)[2], ItemOf(RowOf(id)).width, 0)
      BY <2>19 DEF ICMDCLEAR
    <3>2. 0 \in Raws(id)
      <4>1. P2(BitsOf(id)) \in Nat \ {0}
        BY <2>2, <2>3, Layout, PowerSum DEF Fits
      <4>. QED
        BY <4>1 DEF Raws
    <3>3. /\ RawAt(dev, id, cleared) = 0
          /\ \A c : Fits(dev, c, n) /\ IdsApart(dev, id, c) =>
                RawAt(dev, c, cleared) = RawAt(dev, c, got)
      BY <2>1, <2>2, <2>3, <2>12, <3>1, <3>2, RawWritten
    <3>. QED
      BY <2>2, <2>3, <3>3
  <2>21. {c \in mine : ICMDACT(dev, c, cleared)} = {mate}
    BY <2>3, <2>13, <2>14, <2>20 DEF ICMDACT
  <2>. QED
    BY <2>1, <2>4, <2>5, <2>9, <2>11, <2>16, <2>17, <2>18, <2>19, <2>21 DEF mine
<1>2. ASSUME NEW id \in CommIds PROVE MayGenerate("CS", id) /\ MayParse(id[2], id)
  BY <1>2, CommRows DEF MayGenerate, MayParse, Devices
<1>3. ASSUME NEW sample \in CommIds \X {-3, 1, 2, 20, 22, 140001}
      PROVE  sample[1] \in CommIds /\ sample[2] \in Int
  OBVIOUS
<1>. QED
  BY <1>1, <1>2, <1>3 DEF WrongCommands

-------------------------------------------------------------------------------
(* The header *)

\* The bits the parity counts.
Ones(word) == {i \in 1 .. 15 : Bits(word, i, 1) = 1}

\* A bit is 0 or 1.
LEMMA Bit ==
    ASSUME NEW word \in Nat, NEW i \in 0 .. 15
    PROVE  Bits(word, i, 1) \in {0, 1}
<1>1. IsField(i, 1) /\ P2(1) = 2
  BY DEF IsField, P2
<1>2. Bits(word, i, 1) \in 0 .. P2(1) - 1
  BY <1>1, PartsExist DEF Parts
<1>. QED
  BY <1>1, <1>2

\* Turning one bit over leaves the others.
LEMMA Flipped ==
    ASSUME NEW word \in Word, NEW n \in 0 .. 15
    PROVE  /\ Flip(word, n) \in Word
           /\ Bits(Flip(word, n), n, 1) = 1 - Bits(word, n, 1)
           /\ \A i \in 0 .. 15 \ {n} : Bits(Flip(word, n), i, 1) = Bits(word, i, 1)
<1>1. IsField(n, 1) /\ P2(1) = 2 /\ word \in Nat
  BY Words DEF IsField, P2
<1>2. 1 - Bits(word, n, 1) \in {0, 1}
  BY <1>1, Bit
<1>3. \A i \in 0 .. 15 \ {n} : IsField(i, 1) /\ (i + 1 <= n \/ n + 1 <= i)
  BY DEF IsField
<1>. QED
  BY <1>1, <1>2, <1>3, FieldWritten DEF Flip

\* They can be counted.
LEMMA OnesFinite ==
    ASSUME NEW word PROVE IsFiniteSet(Ones(word)) /\ Cardinality(Ones(word)) \in Nat
<1>1. IsFiniteSet(1 .. 15)
  <2>1. PICK a \in Int, b \in Int : a = 1 /\ b = 15
    OBVIOUS
  <2>2. IsFiniteSet(a .. b)
    BY FS_Interval
  <2>. QED
    BY <2>1, <2>2
<1>2. Ones(word) \subseteq 1 .. 15
  BY DEF Ones
<1>. QED
  BY <1>1, <1>2, FS_Subset, FS_CardinalityType

\* A bit that is turned over shows in the parity.
LEMMA ParityNotices ==
    ASSUME NEW word \in Word, NEW n \in 0 .. 15
    PROVE  ParityOk(Flip(word, n)) <=> ~ParityOk(word)
<1>0. word \in Nat /\ Flip(word, n) \in Word /\ Flip(word, n) \in Nat
  BY Flipped, Words
<1>1. \A w : ParityOk(w) <=> Bits(w, 0, 1) = Cardinality(Ones(w)) % 2
  BY DEF ParityOk, HeaderField, HeaderFields, CalcParity, Ones
<1>2. CASE n = 0
  <2>1. Ones(Flip(word, n)) = Ones(word)
    <3>1. \A i \in 1 .. 15 : i \in 0 .. 15 \ {n}
      BY <1>2
    <3>. QED
      BY <3>1, Flipped DEF Ones
  <2>2. Bits(word, 0, 1) \in {0, 1} /\ Bits(Flip(word, n), 0, 1) = 1 - Bits(word, 0, 1)
    BY <1>0, <1>2, Bit, Flipped
  <2>3. PICK c \in Nat : c = Cardinality(Ones(word)) /\ c % 2 \in {0, 1}
    <3>1. \A c \in Nat : c % 2 \in {0, 1}
      OBVIOUS
    <3>. QED
      BY <3>1, OnesFinite
  <2>. QED
    BY <1>1, <2>1, <2>2, <2>3
<1>3. CASE n # 0
  <2>1. Bits(Flip(word, n), 0, 1) = Bits(word, 0, 1) /\ Bits(word, 0, 1) \in {0, 1} /\ n \in 1 .. 15
    BY <1>0, <1>3, Bit, Flipped
  <2>2. PICK c \in Nat, d \in Nat :
          c = Cardinality(Ones(word)) /\ d = Cardinality(Ones(Flip(word, n)))
    BY OnesFinite
  <2>3. ASSUME NEW i \in 1 .. 15 \ {n} PROVE Bits(Flip(word, n), i, 1) = Bits(word, i, 1)
    <3>1. i \in 0 .. 15 \ {n}
      OBVIOUS
    <3>. QED
      BY <3>1, Flipped
  <2>4. d = c + 1 \/ d = c - 1
    <3>1. CASE Bits(word, n, 1) = 0
      <4>1. Bits(Flip(word, n), n, 1) = 1
        BY <3>1, Flipped
      <4>2. Ones(Flip(word, n)) = Ones(word) \cup {n} /\ n \notin Ones(word)
        BY <2>1, <2>3, <3>1, <4>1 DEF Ones
      <4>. QED
        BY <2>2, <4>2, OnesFinite, FS_AddElement
    <3>2. CASE Bits(word, n, 1) = 1
      <4>1. Bits(Flip(word, n), n, 1) = 0
        BY <3>2, Flipped
      <4>2. Ones(Flip(word, n)) = Ones(word) \ {n} /\ n \in Ones(word)
        BY <2>1, <2>3, <3>2, <4>1 DEF Ones
      <4>. QED
        BY <2>2, <4>2, OnesFinite, FS_RemoveElement
    <3>. QED
      BY <1>0, <3>1, <3>2, Bit
  <2>5. c % 2 \in {0, 1} /\ d % 2 \in {0, 1} /\ c % 2 # d % 2
    BY <2>2, <2>4
  <2>. QED
    BY <1>1, <2>1, <2>2, <2>5
<1>. QED
  BY <1>2, <1>3

\* What a header can say.
Headers == [addr : 0 .. 31, flag : 0 .. 3, marker : 0 .. 7, nblocks : 0 .. 31]

\* A header is parsed as it was made, and its parity fits.
THEOREM HeaderParses ==
    ASSUME NEW h \in Headers
    PROVE  /\ MakeHeader(h) \in Word
           /\ ParityOk(MakeHeader(h))
           /\ ParseHeader(MakeHeader(h)) = h
<1>1. PICK a \in 0 .. 31, f \in 0 .. 3, m \in 0 .. 7, n \in 0 .. 31 :
        /\ a = h.addr /\ f = h.flag /\ m = h.marker /\ n = h.nblocks
        /\ h = [addr |-> a, flag |-> f, marker |-> m, nblocks |-> n]
  BY DEF Headers
<1>2. PICK word \in Nat : word = a * 2 + f * 64 + m * 256 + n * 2048
  OBVIOUS
<1>3. MakeHeader(h) = WithBits(word, 0, 1, CalcParity(word))
  <2>1. 2^1 = 2 /\ 2^6 = 64 /\ 2^8 = 256 /\ 2^11 = 2048 /\ 2^5 = 32 /\ 2^2 = 4 /\ 2^3 = 8
    OBVIOUS
  <2>2. a % 32 = a /\ f % 4 = f /\ m % 8 = m /\ n % 32 = n
    OBVIOUS
  <2>. QED
    BY <1>1, <1>2, <2>1, <2>2 DEF MakeHeader
<1>4. /\ word \in Word /\ Bits(word, 1, 5) = a /\ Bits(word, 6, 2) = f
      /\ Bits(word, 8, 3) = m /\ Bits(word, 11, 5) = n
  <2>1. word < 65536
    BY <1>2
  <2>2. 2^1 = 2 /\ 2^6 = 64 /\ 2^8 = 256 /\ 2^11 = 2048 /\ 2^5 = 32 /\ 2^2 = 4 /\ 2^3 = 8
    OBVIOUS
  <2>3. word \div 2 = a + 32 * (f + 4 * m + 32 * n) /\ word \div 64 = f + 4 * (m + 8 * n)
        /\ word \div 256 = m + 8 * n /\ word \div 2048 = n
    BY <1>2
  <2>4. /\ (word \div 2) % 32 = a /\ (word \div 64) % 4 = f
        /\ (word \div 256) % 8 = m /\ (word \div 2048) % 32 = n
    <3>1. \A k \in Nat : (a + 32 * k) % 32 = a /\ (f + 4 * k) % 4 = f /\ (m + 8 * k) % 8 = m
      OBVIOUS
    <3>2. f + 4 * m + 32 * n \in Nat /\ m + 8 * n \in Nat /\ n \in Nat
      OBVIOUS
    <3>. QED
      BY <2>3, <3>1, <3>2
  <2>. QED
    BY <2>1, <2>2, <2>4, Words DEF Bits
<1>5. PICK p \in {0, 1} : p = CalcParity(word)
  <2>1. CalcParity(word) = Cardinality(Ones(word)) % 2
    BY DEF CalcParity, Ones
  <2>2. \A c \in Nat : c % 2 \in {0, 1}
    OBVIOUS
  <2>. QED
    BY <2>1, <2>2, OnesFinite
<1>6. PICK new \in Word :
        /\ new = MakeHeader(h) /\ Bits(new, 0, 1) = p
        /\ \A k, l : IsField(k, l) /\ 1 <= k => Bits(new, k, l) = Bits(word, k, l)
  <2>1. IsField(0, 1) /\ P2(1) = 2 /\ p \in Int /\ p % 2 = p
    BY DEF IsField, P2
  <2>2. /\ WithBits(word, 0, 1, p) \in Word /\ Bits(WithBits(word, 0, 1, p), 0, 1) = p % P2(1)
        /\ \A k, l : IsField(k, l) /\ (k + l <= 0 \/ 0 + 1 <= k) =>
              Bits(WithBits(word, 0, 1, p), k, l) = Bits(word, k, l)
    BY <1>4, <2>1, FieldWritten
  <2>3. \A k, l : IsField(k, l) /\ 1 <= k => k + l <= 0 \/ 0 + 1 <= k
    BY DEF IsField
  <2>. QED
    BY <1>3, <1>5, <2>1, <2>2, <2>3
<1>7. ParityOk(new)
  <2>1. \A i \in 1 .. 15 : IsField(i, 1) /\ 1 <= i
    BY DEF IsField
  <2>2. CalcParity(new) = CalcParity(word)
    BY <1>6, <2>1 DEF CalcParity
  <2>. QED
    BY <1>5, <1>6, <2>2 DEF ParityOk, HeaderField, HeaderFields
<1>8. ParseHeader(new) = h
  <2>1. IsField(1, 5) /\ IsField(6, 2) /\ IsField(8, 3) /\ IsField(11, 5)
    BY DEF IsField
  <2>2. Bits(new, 1, 5) = a /\ Bits(new, 6, 2) = f /\ Bits(new, 8, 3) = m /\ Bits(new, 11, 5) = n
    BY <1>4, <1>6, <2>1
  <2>. QED
    BY <1>1, <2>2 DEF ParseHeader, HeaderField, HeaderFields
<1>. QED
  BY <1>6, <1>7, <1>8

\* No sample of a header is lost, and none is damaged in an odd number of bits unnoticed.
THEOREM NoneLost == LostHeaders = {}
<1>1. ASSUME NEW h \in Headers, NEW old \in Word
      PROVE  LET sent == [k \in {0} |-> MakeHeader(h)]
                 got  == Carried(sent, [k \in {0} |-> old], 1)[0]
             IN  /\ ParityOk(got) /\ ParseHeader(got) = h
                 /\ \A i \in 0 .. 15, j, k \in 0 .. 15 : ~ParityOk(Flip(Flip(Flip(got, i), j), k))
  <2>1. PICK sent, line : sent = [k \in {0} |-> MakeHeader(h)] /\ line = [k \in {0} |-> old]
    OBVIOUS
  <2>2. sent \in Blocks(1) /\ line \in Blocks(1)
    <3>1. 0 .. 1 - 1 = {0} /\ MakeHeader(h) \in Word
      BY HeaderParses
    <3>2. sent \in [{0} -> Word] /\ line \in [{0} -> Word]
      BY <2>1, <3>1
    <3>. QED
      BY <3>1, <3>2 DEF Blocks
  <2>3. PICK got : got = Carried(sent, line, 1)[0]
    OBVIOUS
  <2>4. got = MakeHeader(h)
    <3>1. ASSUME NEW n \in Nat, n <= n, sent \in Blocks(n), line \in Blocks(n)
          PROVE  Carried(sent, line, n) = [k \in 0 .. n - 1 |-> IF k < n THEN sent[k] ELSE line[k]]
      BY <3>1, BytesCarried
    <3>2. PICK n \in Nat : n = 1 /\ n <= n
      OBVIOUS
    <3>3. Carried(sent, line, 1)[0] = sent[0]
      BY <2>2, <3>1, <3>2
    <3>. QED
      BY <2>1, <2>3, <3>3
  <2>5. ASSUME NEW i \in 0 .. 15, NEW j \in 0 .. 15, NEW k \in 0 .. 15
        PROVE  ~ParityOk(Flip(Flip(Flip(got, i), j), k))
    <3>1. got \in Word /\ ParityOk(got)
      BY <2>4, HeaderParses
    <3>2. Flip(got, i) \in Word /\ ~ParityOk(Flip(got, i))
      BY <3>1, Flipped, ParityNotices
    <3>3. Flip(Flip(got, i), j) \in Word /\ ParityOk(Flip(Flip(got, i), j))
      BY <3>2, Flipped, ParityNotices
    <3>. QED
      BY <3>3, ParityNotices
  <2>. QED
    BY <2>1, <2>3, <2>4, <2>5, HeaderParses
<1>2. ASSUME NEW sample \in SampleHeaders \X SampleWords
      PROVE  sample[1] \in Headers /\ sample[2] \in Word
  <2>1. SampleHeaders \subseteq Headers
    BY DEF SampleHeaders, Headers
  <2>2. 2^16 - 1 = 65535
    OBVIOUS
  <2>3. SampleWords \subseteq Word
    BY <2>2, Words DEF SampleWords
  <2>. QED
    BY <2>1, <2>3
<1>3. {0, 7, 8, 15} \subseteq 0 .. 15
  OBVIOUS
<1>. DEFINE Sound(h, old) ==
               LET sent == [k \in {0} |-> MakeHeader(h)]
                   got  == Carried(sent, [k \in {0} |-> old], 1)[0]
               IN  /\ ParityOk(got) /\ ParseHeader(got) = h
                   /\ \A i \in 0 .. 15, j, k \in {0, 7, 8, 15} :
                         ~ParityOk(Flip(Flip(Flip(got, i), j), k))
<1>4. \A h \in Headers, old \in Word : Sound(h, old)
  BY <1>1, <1>3
<1>5. ASSUME NEW sample \in SampleHeaders \X SampleWords, Sound(sample[1], sample[2])
      PROVE  sample \notin LostHeaders
  BY <1>5 DEF LostHeaders
<1>. QED
  <2>1. \A sample \in SampleHeaders \X SampleWords : Sound(sample[1], sample[2])
    <3>. HIDE DEF Sound
    <3>. QED
      BY <1>2, <1>4
  <2>2. LostHeaders \subseteq SampleHeaders \X SampleWords
    BY DEF LostHeaders
  <2>. HIDE DEF Sound
  <2>. QED
    BY <1>5, <2>1, <2>2

================================================================================
