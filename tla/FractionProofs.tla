--------------------------- MODULE FractionProofs ---------------------------
(***************************************************************************)
(* The fractions are an ordered field, and what their finite sums obey: in *)
(* whatever order a set is summed, and however it is grouped.              *)
(***************************************************************************)
EXTENDS Fractions, FiniteSetTheorems, WellFoundedInduction, TLAPS

Positive == Nat \ {0}

(* The values in lowest terms: no smaller denominator will do. *)
Fractions ==
  {q \in Int \X Positive : \A j \in 1..(q[2] - 1) : ~ Denominates(j, q[1], q[2])}

(* q is n / d. *)
Stands(q, n, d) == q[1] * d = n * q[2]

-----------------------------------------------------------------------------
(* Integers *)

LEMMA LeastExists ==
  ASSUME NEW S \in SUBSET Nat, S # {}
  PROVE  \E z \in S : \A y \in S : z <= y
<1>1. PICK z \in S : \A y \in S : ~ (<<y, z>> \in OpToRel(<, Nat))
  <2>1. IsWellFoundedOn(OpToRel(<, Nat), Nat)
    BY NatLessThanWellFounded
  <2> HIDE DEF OpToRel
  <2>2. QED
    BY <2>1, WFMin
<1>2. \A y \in S : ~ (y < z)
  BY <1>1 DEF OpToRel
<1>3. QED
  BY <1>2

LEMMA Divides ==
  ASSUME NEW a \in Int, NEW d \in Positive
  PROVE  /\ a % d = 0 <=> \E m \in Int : a = m * d
         /\ a % d = 0 => a = (a \div d) * d /\ a \div d \in Int
<1>1. a = d * (a \div d) + (a % d) /\ a \div d \in Int /\ a % d \in 0..(d - 1)
  BY DEF Positive
<1>2. ASSUME NEW m \in Int, a = m * d PROVE a % d = 0
  <2>1. d * (m - (a \div d)) = a % d
    BY <1>1, <1>2 DEF Positive
  <2>2. m - (a \div d) = 0
    <3> DEFINE x == m - (a \div d)
    <3>1. x \in Int /\ d * x \in 0..(d-1)
      BY <1>1, <2>1
    <3> HIDE DEF x
    <3>2. x = 0
      BY <3>1 DEF Positive
    <3> QED BY <3>2 DEF x
  <2> QED BY <2>1, <2>2 DEF Positive
<1>3. ASSUME a % d = 0 PROVE a = (a \div d) * d
  BY <1>1, <1>3 DEF Positive
<1>4. (\E m \in Int : a = m * d) => a % d = 0
  BY <1>2
<1> QED BY <1>1, <1>3, <1>4

LEMMA Cancel ==
  ASSUME NEW x \in Int, NEW y \in Int, NEW z \in Int, z # 0, x * z = y * z
  PROVE  x = y
OBVIOUS

LEMMA CancelLeq ==
  ASSUME NEW x \in Int, NEW y \in Int, NEW z \in Positive
  PROVE  x * z <= y * z <=> x <= y
BY DEF Positive

-----------------------------------------------------------------------------
(* Lowest terms *)

LEMMA Products ==
  ASSUME NEW a \in Positive, NEW b \in Positive
  PROVE  a * b \in Positive
BY DEF Positive

\* The quotient of a division in lowest terms is one, and is the value divided.
LEMMA FracIs ==
  ASSUME NEW n \in Int, NEW d \in Positive
  PROVE  Frac(n, d) \in Fractions /\ Stands(Frac(n, d), n, d)
<1> DEFINE S == {k \in 1..d : Denominates(k, n, d)}
           k == LeastDenominator(n, d)
           m == (n * k) \div d
<1>1. k \in 1..d /\ Denominates(k, n, d) /\ \A j \in 1..(k - 1) : ~ Denominates(j, n, d)
  <2>1. d \in S
    <3>1. n * d \in Int
      BY DEF Positive
    <3>2. Denominates(d, n, d)
      BY <3>1, Divides DEF Denominates
    <3> QED BY <3>2 DEF Positive
  <2>2. PICK z \in S : \A y \in S : z <= y
    <3>1. S \subseteq Nat /\ S # {}
      BY <2>1
    <3> QED BY <3>1, LeastExists
  <2>3. \A j \in 1..(z - 1) : ~ Denominates(j, n, d)
    BY <2>2 DEF Positive
  <2> QED BY <2>2, <2>3 DEF LeastDenominator
<1> HIDE DEF k
<1>2. k \in Positive /\ n * k \in Int
  BY <1>1 DEF Positive
<1>3. n * k = m * d /\ m \in Int
  BY <1>1, <1>2, Divides DEF Denominates
<1> HIDE DEF m
<1>4. ASSUME NEW j \in 1..(k - 1), Denominates(j, m, k) PROVE FALSE
  <2>1. j \in Positive /\ m * j \in Int /\ n * j \in Int
    BY <1>2, <1>3 DEF Positive
  <2>2. PICK t \in Int : m * j = t * k
    BY <1>2, <1>4, <2>1, Divides DEF Denominates
  <2>3. (n * j) * k = (t * d) * k
    <3>1. (n * j) * k = (n * k) * j
      BY <1>2, <2>1 DEF Positive
    <3>2. (n * k) * j = (m * j) * d
      BY <1>2, <1>3, <2>1 DEF Positive
    <3>3. (t * k) * d = (t * d) * k
      BY <1>2, <2>2 DEF Positive
    <3> QED BY <3>1, <3>2, <3>3, <2>2
  <2>4. n * j = t * d
    <3>1. t * d \in Int /\ k \in Int /\ k # 0
      BY <1>2 DEF Positive
    <3> QED BY <2>1, <2>3, <3>1, Cancel
  <2>5. Denominates(j, n, d)
    BY <2>1, <2>4, Divides DEF Denominates
  <2> QED BY <1>1, <2>5
<1>5. Frac(n, d) = <<m, k>>
  BY DEF Frac, k, m
<1>6. <<m, k>> \in Fractions
  BY <1>2, <1>3, <1>4 DEF Fractions
<1> QED BY <1>3, <1>5, <1>6 DEF Stands

LEMMA Parts ==
  ASSUME NEW q \in Fractions
  PROVE  /\ q[1] \in Int /\ q[2] \in Positive /\ q[2] \in Int /\ q[2] # 0
         /\ q = <<q[1], q[2]>>
         /\ \A j \in 1..(q[2] - 1) : ~ Denominates(j, q[1], q[2])
BY DEF Fractions, Positive

LEMMA NotLess ==
  ASSUME NEW p \in Fractions, NEW q \in Fractions, p[1] * q[2] = q[1] * p[2]
  PROVE  ~ (p[2] < q[2])
<1> SUFFICES ASSUME p[2] < q[2] PROVE FALSE
  OBVIOUS
<1>1. p[2] \in 1..(q[2] - 1)
  BY Parts DEF Positive
<1>2. q[1] * p[2] \in Int /\ p[1] \in Int /\ q[2] \in Positive
  BY Parts DEF Positive
<1>3. Denominates(p[2], q[1], q[2])
  BY <1>2, Divides DEF Denominates
<1> QED BY <1>1, <1>3, Parts

\* There is one way to write a value in lowest terms.
LEMMA Same ==
  ASSUME NEW p \in Fractions, NEW q \in Fractions, p[1] * q[2] = q[1] * p[2]
  PROVE  p = q
<1>1. ~ (p[2] < q[2]) /\ ~ (q[2] < p[2])
  BY NotLess
<1>2. p[2] = q[2]
  BY <1>1, Parts DEF Positive
<1>3. p[1] = q[1]
  BY <1>2, Parts, Cancel
<1> QED BY <1>2, <1>3, Parts

LEMMA Across ==
  ASSUME NEW a \in Int, NEW b \in Positive, NEW x \in Int, NEW y \in Positive,
         NEW n \in Int, NEW d \in Positive, a * d = n * b, x * d = n * y
  PROVE  a * y = x * b
<1>1. a * y \in Int /\ x * b \in Int /\ d \in Int /\ d # 0
  BY DEF Positive
<1>2. (a * y) * d = (a * d) * y
  BY DEF Positive
<1>3. (n * b) * y = (n * y) * b
  BY DEF Positive
<1>4. (x * d) * b = (x * b) * d
  BY DEF Positive
<1>5. (a * y) * d = (x * b) * d
  BY <1>2, <1>3, <1>4
<1> QED BY <1>1, <1>5, Cancel

LEMMA CrossAgain ==
  ASSUME NEW a \in Int, NEW b \in Positive, NEW x \in Int, NEW y \in Positive,
         NEW n \in Int, NEW d \in Positive, a * d = n * b, n * y = x * d
  PROVE  a * y = x * b
BY Across

LEMMA StandUnique ==
  ASSUME NEW p \in Fractions, NEW q \in Fractions, NEW n \in Int, NEW d \in Positive,
         Stands(p, n, d), Stands(q, n, d)
  PROVE  p = q
<1>1. p[1] * q[2] = q[1] * p[2]
  BY Across, Parts DEF Stands
<1> QED BY <1>1, Same

\* A value stands for itself, and for nothing but what Frac makes of its parts.
LEMMA ItsParts ==
  ASSUME NEW q \in Fractions
  PROVE  Stands(q, q[1], q[2]) /\ Frac(q[1], q[2]) = q
<1>1. Stands(q, q[1], q[2])
  BY DEF Stands
<1> QED BY <1>1, Parts, FracIs, StandUnique

-----------------------------------------------------------------------------
(* What the operations stand for, from what their operands stand for *)

LEMMA PlusStands ==
  ASSUME NEW p \in Fractions, NEW n \in Int, NEW d \in Positive, Stands(p, n, d),
         NEW q \in Fractions, NEW m \in Int, NEW e \in Positive, Stands(q, m, e)
  PROVE  Plus(p, q) \in Fractions /\ Stands(Plus(p, q), n * e + m * d, d * e)
<1> DEFINE r == Plus(p, q)
<1>1. /\ p[1] \in Int /\ p[2] \in Positive /\ q[1] \in Int /\ q[2] \in Positive
      /\ p[2] * q[2] \in Positive /\ d * e \in Positive
      /\ p[1] * q[2] + q[1] * p[2] \in Int /\ n * e + m * d \in Int
  BY Parts, Products DEF Positive
<1>2. r \in Fractions /\ Stands(r, p[1] * q[2] + q[1] * p[2], p[2] * q[2])
  BY <1>1, FracIs DEF Plus
<1>3. (p[1] * q[2] + q[1] * p[2]) * (d * e) = (n * e + m * d) * (p[2] * q[2])
  <2>1. (p[1] * q[2] + q[1] * p[2]) * (d * e) = (p[1] * d) * (q[2] * e) + (q[1] * e) * (p[2] * d)
    BY <1>1 DEF Positive
  <2>2. (n * p[2]) * (q[2] * e) + (m * q[2]) * (p[2] * d) = (n * e + m * d) * (p[2] * q[2])
    BY <1>1 DEF Positive
  <2> QED BY <2>1, <2>2 DEF Stands
<1>4. r[1] * (d * e) = (n * e + m * d) * r[2]
  <2>1. r[1] \in Int /\ r[2] \in Positive
    BY <1>2, Parts
  <2> QED BY <2>1, <1>1, <1>2, <1>3, CrossAgain DEF Stands
<1> QED BY <1>2, <1>4 DEF Stands

LEMMA MinusStands ==
  ASSUME NEW p \in Fractions, NEW n \in Int, NEW d \in Positive, Stands(p, n, d),
         NEW q \in Fractions, NEW m \in Int, NEW e \in Positive, Stands(q, m, e)
  PROVE  Minus(p, q) \in Fractions /\ Stands(Minus(p, q), n * e - m * d, d * e)
<1> DEFINE r == Minus(p, q)
<1>1. /\ p[1] \in Int /\ p[2] \in Positive /\ q[1] \in Int /\ q[2] \in Positive
      /\ p[2] * q[2] \in Positive /\ d * e \in Positive
      /\ p[1] * q[2] - q[1] * p[2] \in Int /\ n * e - m * d \in Int
  BY Parts, Products DEF Positive
<1>2. r \in Fractions /\ Stands(r, p[1] * q[2] - q[1] * p[2], p[2] * q[2])
  BY <1>1, FracIs DEF Minus
<1>3. (p[1] * q[2] - q[1] * p[2]) * (d * e) = (n * e - m * d) * (p[2] * q[2])
  <2>1. (p[1] * q[2] - q[1] * p[2]) * (d * e) = (p[1] * d) * (q[2] * e) - (q[1] * e) * (p[2] * d)
    BY <1>1 DEF Positive
  <2>2. (n * p[2]) * (q[2] * e) - (m * q[2]) * (p[2] * d) = (n * e - m * d) * (p[2] * q[2])
    BY <1>1 DEF Positive
  <2> QED BY <2>1, <2>2 DEF Stands
<1>4. r[1] * (d * e) = (n * e - m * d) * r[2]
  <2>1. r[1] \in Int /\ r[2] \in Positive
    BY <1>2, Parts
  <2> QED BY <2>1, <1>1, <1>2, <1>3, CrossAgain, SMTT(30) DEF Stands
<1> QED BY <1>2, <1>4 DEF Stands

LEMMA TimesStands ==
  ASSUME NEW p \in Fractions, NEW n \in Int, NEW d \in Positive, Stands(p, n, d),
         NEW q \in Fractions, NEW m \in Int, NEW e \in Positive, Stands(q, m, e)
  PROVE  Times(p, q) \in Fractions /\ Stands(Times(p, q), n * m, d * e)
<1> DEFINE r == Times(p, q)
<1>1. /\ p[1] \in Int /\ p[2] \in Positive /\ q[1] \in Int /\ q[2] \in Positive
      /\ p[2] * q[2] \in Positive /\ d * e \in Positive
      /\ p[1] * q[1] \in Int /\ n * m \in Int
  BY Parts, Products DEF Positive
<1>2. r \in Fractions /\ Stands(r, p[1] * q[1], p[2] * q[2])
  BY <1>1, FracIs DEF Times
<1>3. (p[1] * q[1]) * (d * e) = (n * m) * (p[2] * q[2])
  <2>1. (p[1] * q[1]) * (d * e) = (p[1] * d) * (q[1] * e)
    BY <1>1 DEF Positive
  <2>2. (n * p[2]) * (m * q[2]) = (n * m) * (p[2] * q[2])
    BY <1>1 DEF Positive
  <2> QED BY <2>1, <2>2 DEF Stands
<1>4. r[1] * (d * e) = (n * m) * r[2]
  <2>1. r[1] \in Int /\ r[2] \in Positive
    BY <1>2, Parts
  <2> QED BY <2>1, <1>1, <1>2, <1>3, CrossAgain, SMTT(30) DEF Stands
<1> QED BY <1>2, <1>4 DEF Stands

LEMMA OverStands ==
  ASSUME NEW p \in Fractions, NEW n \in Int, NEW d \in Positive, Stands(p, n, d),
         NEW q \in Fractions, NEW m \in Positive, NEW e \in Positive, Stands(q, m, e)
  PROVE  Over(p, q) \in Fractions /\ Stands(Over(p, q), n * e, d * m)
<1> DEFINE r == Over(p, q)
<1>1. /\ p[1] \in Int /\ p[2] \in Positive /\ q[1] \in Int /\ q[2] \in Positive
      /\ q[1] \in Positive
  <2>1. /\ p[1] \in Int /\ p[2] \in Positive /\ q[1] \in Int /\ q[2] \in Positive
    BY Parts
  <2>2. q[1] * e > 0
    BY <2>1, Products DEF Positive, Stands
  <2>3. q[1] > 0
    BY <2>1, <2>2 DEF Positive
  <2> QED BY <2>1, <2>3 DEF Positive
<1>a. /\ p[2] * q[1] \in Positive /\ d * m \in Positive
      /\ p[1] * q[2] \in Int /\ n * e \in Int
  BY <1>1, Products DEF Positive
<1>2. r \in Fractions /\ Stands(r, p[1] * q[2], p[2] * q[1])
  BY <1>1, <1>a, FracIs DEF Over
<1>3. (p[1] * q[2]) * (d * m) = (n * e) * (p[2] * q[1])
  <2>1. (p[1] * q[2]) * (d * m) = (p[1] * d) * (m * q[2])
    BY <1>1 DEF Positive
  <2>2. (n * p[2]) * (q[1] * e) = (n * e) * (p[2] * q[1])
    BY <1>1 DEF Positive
  <2> QED BY <2>1, <2>2 DEF Stands
<1>4. r[1] * (d * m) = (n * e) * r[2]
  <2>1. r[1] \in Int /\ r[2] \in Positive
    BY <1>2, Parts
  <2> QED BY <2>1, <1>1, <1>a, <1>2, <1>3, CrossAgain, SMTT(30) DEF Stands
<1> QED BY <1>2, <1>4 DEF Stands

LEMMA AtMostStands ==
  ASSUME NEW p \in Fractions, NEW n \in Int, NEW d \in Positive, Stands(p, n, d),
         NEW q \in Fractions, NEW m \in Int, NEW e \in Positive, Stands(q, m, e)
  PROVE  AtMost(p, q) <=> n * e <= m * d
<1>1. /\ p[1] \in Int /\ p[2] \in Positive /\ q[1] \in Int /\ q[2] \in Positive
      /\ p[2] * q[2] \in Positive /\ d * e \in Positive
      /\ p[1] * q[2] \in Int /\ q[1] * p[2] \in Int /\ n * e \in Int /\ m * d \in Int
  BY Parts, Products DEF Positive
<1>2. p[1] * q[2] <= q[1] * p[2] <=> (p[1] * q[2]) * (d * e) <= (q[1] * p[2]) * (d * e)
  BY <1>1, CancelLeq
<1>3. n * e <= m * d <=> (n * e) * (p[2] * q[2]) <= (m * d) * (p[2] * q[2])
  BY <1>1, CancelLeq
<1>4. (p[1] * q[2]) * (d * e) = (n * e) * (p[2] * q[2])
  <2>1. (p[1] * q[2]) * (d * e) = (p[1] * d) * (q[2] * e)
    BY <1>1 DEF Positive
  <2>2. (n * p[2]) * (q[2] * e) = (n * e) * (p[2] * q[2])
    BY <1>1 DEF Positive
  <2> QED BY <2>1, <2>2 DEF Stands
<1>5. (q[1] * p[2]) * (d * e) = (m * d) * (p[2] * q[2])
  <2>1. (q[1] * p[2]) * (d * e) = (q[1] * e) * (p[2] * d)
    BY <1>1 DEF Positive
  <2>2. (m * q[2]) * (p[2] * d) = (m * d) * (p[2] * q[2])
    BY <1>1 DEF Positive
  <2> QED BY <2>1, <2>2 DEF Stands
<1> QED BY <1>2, <1>3, <1>4, <1>5 DEF AtMost

-----------------------------------------------------------------------------
(* An ordered field *)

LEMMA Wholes ==
  ASSUME NEW n \in Int
  PROVE  Whole(n) \in Fractions /\ Stands(Whole(n), n, 1)
<1>1. Whole(n) = <<n, 1>> /\ <<n, 1>>[1] = n /\ <<n, 1>>[2] = 1 /\ 1 \in Positive
  BY DEF Whole, Positive
<1>2. \A j \in 1..(1 - 1) : FALSE
  OBVIOUS
<1> QED BY <1>1, <1>2 DEF Fractions, Stands

LEMMA Constants ==
  /\ Zero \in Fractions /\ Stands(Zero, 0, 1) /\ Zero = Whole(0)
  /\ One \in Fractions /\ Stands(One, 1, 1) /\ One = Whole(1)
BY Wholes DEF Zero, One, Whole

LEMMA OnePositive == 1 \in Positive
BY DEF Positive

LEMMA Operations ==
  ASSUME NEW a \in Fractions, NEW b \in Fractions
  PROVE  Plus(a, b) \in Fractions /\ Minus(a, b) \in Fractions /\ Times(a, b) \in Fractions
BY ItsParts, Parts, PlusStands, MinusStands, TimesStands

LEMMA PlusZero ==
  ASSUME NEW a \in Fractions
  PROVE  Plus(a, Zero) = a /\ Plus(Zero, a) = a
<1>1. a[1] * 1 + 0 * a[2] = a[1] /\ a[2] * 1 = a[2] /\ 0 * a[2] + a[1] * 1 = a[1] /\ 1 * a[2] = a[2]
  BY Parts DEF Positive
<1>2. Zero[1] = 0 /\ Zero[2] = 1
  BY DEF Zero
<1>3. Plus(a, Zero) = Frac(a[1], a[2]) /\ Plus(Zero, a) = Frac(a[1], a[2])
  BY <1>1, <1>2 DEF Plus
<1> QED BY <1>3, ItsParts

LEMMA PlusCommutes ==
  ASSUME NEW a \in Fractions, NEW b \in Fractions
  PROVE  Plus(a, b) = Plus(b, a)
<1>1. a[1] * b[2] + b[1] * a[2] = b[1] * a[2] + a[1] * b[2] /\ a[2] * b[2] = b[2] * a[2]
  BY Parts DEF Positive
<1> QED BY <1>1 DEF Plus

LEMMA PlusAssociates ==
  ASSUME NEW a \in Fractions, NEW b \in Fractions, NEW c \in Fractions
  PROVE  Plus(Plus(a, b), c) = Plus(a, Plus(b, c))
<1> DEFINE ab == a[1] * b[2] + b[1] * a[2]
           bc == b[1] * c[2] + c[1] * b[2]
<1>1. /\ ab * c[2] + c[1] * (a[2] * b[2]) = a[1] * (b[2] * c[2]) + bc * a[2]
      /\ (a[2] * b[2]) * c[2] = a[2] * (b[2] * c[2])
  BY Parts DEF Positive
<1>2. /\ a[2] * b[2] \in Positive /\ b[2] * c[2] \in Positive /\ ab \in Int /\ bc \in Int
      /\ (a[2] * b[2]) * c[2] \in Positive /\ ab * c[2] + c[1] * (a[2] * b[2]) \in Int
  BY Parts, Products DEF Positive
<1>3. Plus(a, b) \in Fractions /\ Stands(Plus(a, b), ab, a[2] * b[2])
  BY ItsParts, Parts, PlusStands
<1>4. Plus(b, c) \in Fractions /\ Stands(Plus(b, c), bc, b[2] * c[2])
  BY ItsParts, Parts, PlusStands
<1> HIDE DEF ab, bc
<1>5. /\ Plus(Plus(a, b), c) \in Fractions
      /\ Stands(Plus(Plus(a, b), c), ab * c[2] + c[1] * (a[2] * b[2]), (a[2] * b[2]) * c[2])
  BY <1>2, <1>3, ItsParts, Parts, PlusStands
<1>6. /\ Plus(a, Plus(b, c)) \in Fractions
      /\ Stands(Plus(a, Plus(b, c)), a[1] * (b[2] * c[2]) + bc * a[2], a[2] * (b[2] * c[2]))
  BY <1>2, <1>4, ItsParts, Parts, PlusStands
<1> QED BY <1>1, <1>2, <1>5, <1>6, StandUnique

LEMMA MinusIs ==
  ASSUME NEW a \in Fractions, NEW b \in Fractions
  PROVE  Plus(b, Minus(a, b)) = a
<1> DEFINE n == a[1] * b[2] - b[1] * a[2]
<1>1. /\ a[2] * b[2] \in Positive /\ n \in Int /\ b[2] * (a[2] * b[2]) \in Positive
      /\ b[1] * (a[2] * b[2]) + n * b[2] \in Int
  BY Parts, Products DEF Positive
<1>2. Minus(a, b) \in Fractions /\ Stands(Minus(a, b), n, a[2] * b[2])
  BY ItsParts, Parts, MinusStands
<1>3. a[1] * (b[2] * (a[2] * b[2])) = (b[1] * (a[2] * b[2]) + n * b[2]) * a[2]
  BY Parts DEF Positive
<1> HIDE DEF n
<1>4. /\ Plus(b, Minus(a, b)) \in Fractions
      /\ Stands(Plus(b, Minus(a, b)), b[1] * (a[2] * b[2]) + n * b[2], b[2] * (a[2] * b[2]))
  BY <1>1, <1>2, ItsParts, Parts, PlusStands
<1>5. Stands(a, b[1] * (a[2] * b[2]) + n * b[2], b[2] * (a[2] * b[2]))
  BY <1>3 DEF Stands
<1> QED BY <1>1, <1>4, <1>5, StandUnique

LEMMA TimesCommutes ==
  ASSUME NEW a \in Fractions, NEW b \in Fractions
  PROVE  Times(a, b) = Times(b, a)
<1>1. a[1] * b[1] = b[1] * a[1] /\ a[2] * b[2] = b[2] * a[2]
  BY Parts DEF Positive
<1> QED BY <1>1 DEF Times

LEMMA TimesAssociates ==
  ASSUME NEW a \in Fractions, NEW b \in Fractions, NEW c \in Fractions
  PROVE  Times(Times(a, b), c) = Times(a, Times(b, c))
<1>1. /\ (a[1] * b[1]) * c[1] = a[1] * (b[1] * c[1])
      /\ (a[2] * b[2]) * c[2] = a[2] * (b[2] * c[2])
  BY Parts DEF Positive
<1>2. /\ a[2] * b[2] \in Positive /\ b[2] * c[2] \in Positive
      /\ a[1] * b[1] \in Int /\ b[1] * c[1] \in Int
      /\ (a[2] * b[2]) * c[2] \in Positive /\ (a[1] * b[1]) * c[1] \in Int
  BY Parts, Products DEF Positive
<1>3. Times(a, b) \in Fractions /\ Stands(Times(a, b), a[1] * b[1], a[2] * b[2])
  BY ItsParts, Parts, TimesStands
<1>4. Times(b, c) \in Fractions /\ Stands(Times(b, c), b[1] * c[1], b[2] * c[2])
  BY ItsParts, Parts, TimesStands
<1>5. /\ Times(Times(a, b), c) \in Fractions
      /\ Stands(Times(Times(a, b), c), (a[1] * b[1]) * c[1], (a[2] * b[2]) * c[2])
  BY <1>2, <1>3, ItsParts, Parts, TimesStands
<1>6. /\ Times(a, Times(b, c)) \in Fractions
      /\ Stands(Times(a, Times(b, c)), a[1] * (b[1] * c[1]), a[2] * (b[2] * c[2]))
  BY <1>2, <1>4, ItsParts, Parts, TimesStands
<1> QED BY <1>1, <1>2, <1>5, <1>6, StandUnique

LEMMA TimesPlus ==
  ASSUME NEW a \in Fractions, NEW b \in Fractions, NEW c \in Fractions
  PROVE  Times(a, Plus(b, c)) = Plus(Times(a, b), Times(a, c))
<1> DEFINE bc == b[1] * c[2] + c[1] * b[2]
           n == a[1] * bc
           d == a[2] * (b[2] * c[2])
           m == (a[1] * b[1]) * (a[2] * c[2]) + (a[1] * c[1]) * (a[2] * b[2])
           e == (a[2] * b[2]) * (a[2] * c[2])
<1>1. /\ b[2] * c[2] \in Positive /\ a[2] * b[2] \in Positive /\ a[2] * c[2] \in Positive
      /\ bc \in Int /\ a[1] * b[1] \in Int /\ a[1] * c[1] \in Int
      /\ n \in Int /\ d \in Positive /\ m \in Int /\ e \in Positive
  <2>1. /\ b[2] * c[2] \in Positive /\ a[2] * b[2] \in Positive /\ a[2] * c[2] \in Positive
    BY Parts, Products
  <2>2. d \in Positive /\ e \in Positive
    BY <2>1, Parts, Products
  <2>3. bc \in Int /\ a[1] * b[1] \in Int /\ a[1] * c[1] \in Int
    BY Parts DEF Positive
  <2>4. n \in Int /\ m \in Int
    BY <2>1, <2>3, Parts DEF Positive
  <2> QED BY <2>1, <2>2, <2>3, <2>4
<1>2. m * d = n * e
  <2>1. m = a[2] * (a[1] * (b[1] * c[2] + c[1] * b[2])) /\ e = a[2] * d
    BY Parts DEF Positive
  <2>2. m = a[2] * n
    BY <2>1
  <2> HIDE DEF m, n, d, e
  <2>3. (a[2] * n) * d = n * (a[2] * d)
    BY <1>1, Parts DEF Positive
  <2> QED BY <2>1, <2>2, <2>3
<1>3. Plus(b, c) \in Fractions /\ Stands(Plus(b, c), bc, b[2] * c[2])
  BY ItsParts, Parts, PlusStands
<1>4. /\ Times(a, b) \in Fractions /\ Stands(Times(a, b), a[1] * b[1], a[2] * b[2])
      /\ Times(a, c) \in Fractions /\ Stands(Times(a, c), a[1] * c[1], a[2] * c[2])
  BY ItsParts, Parts, TimesStands
<1> HIDE DEF bc
<1>5. Times(a, Plus(b, c)) \in Fractions /\ Stands(Times(a, Plus(b, c)), n, d)
  BY <1>1, <1>3, ItsParts, Parts, TimesStands
<1>6. Plus(Times(a, b), Times(a, c)) \in Fractions /\ Stands(Plus(Times(a, b), Times(a, c)), m, e)
  BY <1>1, <1>4, PlusStands
<1> HIDE DEF n, d, m, e
<1>7. Stands(Plus(Times(a, b), Times(a, c)), n, d)
  <2> DEFINE q == Plus(Times(a, b), Times(a, c))
  <2>1. q[1] \in Int /\ q[2] \in Positive
    BY <1>6, Parts
  <2>2. q[1] * e = m * q[2] /\ m * d = n * e
    BY <1>6, <1>2 DEF Stands
  <2>3. q[1] * d = n * q[2]
    BY <2>1, <2>2, <1>1, CrossAgain
  <2> QED BY <2>3 DEF Stands
<1> QED BY <1>1, <1>5, <1>6, <1>7, StandUnique

LEMMA TimesUnits ==
  ASSUME NEW a \in Fractions
  PROVE  /\ Times(a, One) = a /\ Times(One, a) = a
         /\ Times(a, Zero) = Zero /\ Times(Zero, a) = Zero
<1>1. a[1] * 1 = a[1] /\ a[2] * 1 = a[2] /\ a[1] * 0 = 0
  BY Parts DEF Positive
<1>2. One[1] = 1 /\ One[2] = 1 /\ Zero[1] = 0 /\ Zero[2] = 1
  BY DEF One, Zero
<1>3. Times(a, One) = a
  BY <1>1, <1>2, ItsParts DEF Times
<1>4. ASSUME NEW n \in Int, n = 0 PROVE Frac(n, a[2]) = Zero
  <2>1. Frac(n, a[2]) \in Fractions /\ Stands(Frac(n, a[2]), n, a[2])
    BY Parts, FracIs
  <2>2. Stands(Zero, n, a[2])
    BY <1>2, <1>4, Parts DEF Stands, Positive
  <2> QED BY <2>1, <2>2, Parts, Constants, StandUnique
<1>5. Times(a, Zero) = Zero
  <2>1. Times(a, Zero) = Frac(a[1] * 0, a[2])
    BY <1>1, <1>2 DEF Times
  <2> QED BY <1>1, <1>4, <2>1
<1> QED BY <1>3, <1>5, TimesCommutes, Constants

LEMMA Signs ==
  ASSUME NEW a \in Fractions
  PROVE  /\ AtMost(Zero, a) <=> a[1] >= 0
         /\ AtMost(a, Zero) <=> a[1] <= 0
         /\ a[1] = 0 <=> a = Zero
<1>1. Zero[1] = 0 /\ Zero[2] = 1
  BY DEF Zero
<1>2. 0 * a[2] = 0 /\ a[1] * 1 = a[1]
  BY Parts DEF Positive
<1>3. (AtMost(Zero, a) <=> a[1] >= 0) /\ (AtMost(a, Zero) <=> a[1] <= 0)
  BY <1>1, <1>2, Parts DEF AtMost
<1>4. a[1] = 0 => a = Zero
  BY <1>1, <1>2, Same, Constants
<1> QED BY <1>1, <1>3, <1>4

\* A linear order.
LEMMA AtMostOrders ==
  ASSUME NEW a \in Fractions, NEW b \in Fractions
  PROVE  /\ AtMost(a, b) \/ AtMost(b, a)
         /\ AtMost(a, b) /\ AtMost(b, a) => a = b
         /\ AtMost(a, a)
<1>1. a[1] * b[2] \in Int /\ b[1] * a[2] \in Int /\ a[1] * a[2] \in Int
  BY Parts DEF Positive
<1> QED BY <1>1, Same DEF AtMost

LEMMA ScaleLeq ==
  ASSUME NEW x \in Int, NEW y \in Int, NEW z \in Nat, x <= y
  PROVE  x * z <= y * z
OBVIOUS

LEMMA AtMostChains ==
  ASSUME NEW a \in Fractions, NEW b \in Fractions, NEW c \in Fractions,
         AtMost(a, b), AtMost(b, c)
  PROVE  AtMost(a, c)
<1>1. /\ a[1] * b[2] \in Int /\ b[1] * a[2] \in Int /\ b[1] * c[2] \in Int /\ c[1] * b[2] \in Int
      /\ a[1] * c[2] \in Int /\ c[1] * a[2] \in Int /\ a[2] \in Nat /\ c[2] \in Nat
      /\ b[2] \in Positive
  BY Parts DEF Positive
<1>2. (a[1] * b[2]) * c[2] <= (b[1] * a[2]) * c[2]
  BY <1>1, ScaleLeq DEF AtMost
<1>3. (b[1] * c[2]) * a[2] <= (c[1] * b[2]) * a[2]
  BY <1>1, ScaleLeq DEF AtMost
<1>4. /\ (a[1] * b[2]) * c[2] = (a[1] * c[2]) * b[2]
      /\ (b[1] * a[2]) * c[2] = (b[1] * c[2]) * a[2]
      /\ (c[1] * b[2]) * a[2] = (c[1] * a[2]) * b[2]
  BY Parts DEF Positive
<1>5. /\ (a[1] * c[2]) * b[2] \in Int /\ (c[1] * a[2]) * b[2] \in Int
      /\ (b[1] * c[2]) * a[2] \in Int
  BY <1>1 DEF Positive
<1>6. (a[1] * c[2]) * b[2] <= (c[1] * a[2]) * b[2]
  BY <1>2, <1>3, <1>4, <1>5
<1> QED BY <1>1, <1>6, CancelLeq DEF AtMost

LEMMA PlusMonotone ==
  ASSUME NEW a \in Fractions, NEW b \in Fractions, NEW c \in Fractions
  PROVE  AtMost(a, b) <=> AtMost(Plus(a, c), Plus(b, c))
<1> DEFINE ac == a[1] * c[2] + c[1] * a[2]
           bc == b[1] * c[2] + c[1] * b[2]
<1>1. /\ Plus(a, c) \in Fractions /\ Stands(Plus(a, c), ac, a[2] * c[2])
      /\ Plus(b, c) \in Fractions /\ Stands(Plus(b, c), bc, b[2] * c[2])
  BY ItsParts, Parts, PlusStands
<1>2. /\ ac \in Int /\ bc \in Int /\ a[2] * c[2] \in Positive /\ b[2] * c[2] \in Positive
      /\ c[2] * c[2] \in Positive /\ a[1] * b[2] \in Int /\ b[1] * a[2] \in Int
  BY Parts, Products DEF Positive
<1>3. AtMost(Plus(a, c), Plus(b, c)) <=> ac * (b[2] * c[2]) <= bc * (a[2] * c[2])
  BY <1>1, <1>2, AtMostStands
<1>4. /\ ac * (b[2] * c[2]) = (a[1] * b[2]) * (c[2] * c[2]) + c[1] * (a[2] * (b[2] * c[2]))
      /\ bc * (a[2] * c[2]) = (b[1] * a[2]) * (c[2] * c[2]) + c[1] * (a[2] * (b[2] * c[2]))
  BY Parts DEF Positive
<1> DEFINE x == (a[1] * b[2]) * (c[2] * c[2])
           y == (b[1] * a[2]) * (c[2] * c[2])
           z == c[1] * (a[2] * (b[2] * c[2]))
<1>5. x \in Int /\ y \in Int /\ z \in Int
  <2>1. a[2] * (b[2] * c[2]) \in Positive
    BY Parts, Products
  <2> QED BY <1>2, <2>1, Parts DEF Positive
<1>6. x <= y <=> a[1] * b[2] <= b[1] * a[2]
  BY <1>2, CancelLeq
<1> HIDE DEF x, y, z, ac, bc
<1>7. x + z <= y + z <=> x <= y
  BY <1>5
<1> QED BY <1>3, <1>4, <1>6, <1>7 DEF AtMost, x, y, z

LEMMA TimesMonotone ==
  ASSUME NEW a \in Fractions, NEW b \in Fractions, NEW c \in Fractions,
         AtMost(Zero, c), AtMost(a, b)
  PROVE  AtMost(Times(c, a), Times(c, b))
<1>1. /\ Times(c, a) \in Fractions /\ Stands(Times(c, a), c[1] * a[1], c[2] * a[2])
      /\ Times(c, b) \in Fractions /\ Stands(Times(c, b), c[1] * b[1], c[2] * b[2])
  BY ItsParts, Parts, TimesStands
<1>2. /\ c[1] * a[1] \in Int /\ c[1] * b[1] \in Int /\ c[1] * c[2] \in Nat
      /\ c[2] * a[2] \in Positive /\ c[2] * b[2] \in Positive
      /\ a[1] * b[2] \in Int /\ b[1] * a[2] \in Int
  <2>1. c[1] \in Nat /\ c[2] \in Nat
    BY Signs, Parts DEF Positive
  <2>2. c[1] * c[2] \in Nat
    BY <2>1
  <2> QED BY <2>2, Parts, Products DEF Positive
<1>3. (a[1] * b[2]) * (c[1] * c[2]) <= (b[1] * a[2]) * (c[1] * c[2])
  BY <1>2, ScaleLeq DEF AtMost
<1>4. /\ (a[1] * b[2]) * (c[1] * c[2]) = (c[1] * a[1]) * (c[2] * b[2])
      /\ (b[1] * a[2]) * (c[1] * c[2]) = (c[1] * b[1]) * (c[2] * a[2])
  BY Parts DEF Positive
<1> QED BY <1>1, <1>2, <1>3, <1>4, AtMostStands

-----------------------------------------------------------------------------
(* Division by what is more than zero *)

Above == {q \in Fractions : AtMost(Zero, q) /\ q # Zero}

LEMMA OverIs ==
  ASSUME NEW a \in Fractions, NEW b \in Above
  PROVE  /\ Over(a, b) \in Fractions
         /\ Times(Over(a, b), b) = a
         /\ AtMost(Zero, a) => AtMost(Zero, Over(a, b))
<1>1. b \in Fractions /\ b[1] \in Positive /\ b[1] \in Int /\ b[2] \in Positive /\ a[1] \in Int /\ a[2] \in Positive
  BY Signs, Parts DEF Above, Positive
<1>2. /\ a[2] * b[1] \in Positive /\ a[1] * b[2] \in Int
      /\ (a[1] * b[2]) * b[1] \in Int /\ (a[2] * b[1]) * b[2] \in Positive
  BY <1>1, Products DEF Positive
<1>3. Over(a, b) \in Fractions /\ Stands(Over(a, b), a[1] * b[2], a[2] * b[1])
  BY <1>1, ItsParts, OverStands
<1>4. /\ Times(Over(a, b), b) \in Fractions
      /\ Stands(Times(Over(a, b), b), (a[1] * b[2]) * b[1], (a[2] * b[1]) * b[2])
  BY <1>1, <1>2, <1>3, ItsParts, TimesStands
<1>5. Stands(a, (a[1] * b[2]) * b[1], (a[2] * b[1]) * b[2])
  BY <1>1 DEF Stands, Positive
<1>6. ASSUME AtMost(Zero, a) PROVE AtMost(Zero, Over(a, b))
  <2>1. a[1] >= 0
    BY <1>6, Signs
  <2>2. a[1] * b[2] >= 0
    BY <1>1, <2>1 DEF Positive
  <2>3. AtMost(Zero, Over(a, b)) <=> 0 * (a[2] * b[1]) <= (a[1] * b[2]) * 1
    BY <1>2, <1>3, Constants, OnePositive, AtMostStands
  <2>4. 0 * (a[2] * b[1]) = 0 /\ (a[1] * b[2]) * 1 = a[1] * b[2]
    BY <1>2 DEF Positive
  <2> QED BY <2>2, <2>3, <2>4
<1> QED BY <1>2, <1>3, <1>4, <1>5, <1>6, StandUnique

LEMMA TimesCancels ==
  ASSUME NEW a \in Fractions, NEW b \in Fractions, NEW c \in Above, Times(a, c) = Times(b, c)
  PROVE  a = b
<1> DEFINE i == Over(One, c)
<1>1. c \in Fractions /\ i \in Fractions /\ Times(i, c) = One
  BY OverIs, Constants DEF Above
<1> HIDE DEF i
<1>2. Times(c, i) = One
  BY <1>1, TimesCommutes
<1>3. \A x \in {a, b} : Times(Times(x, c), i) = x
  BY <1>1, <1>2, TimesAssociates, TimesUnits
<1> QED BY <1>3

-----------------------------------------------------------------------------
(* Finite sets: what holds of a set whenever it holds of each set with one *)
(* element less holds of all.                                              *)

LEMMA Shrinking ==
  ASSUME NEW S, IsFiniteSet(S), NEW good,
         \A s \in SUBSET S : (\A x \in s : s \ {x} \in good) => s \in good
  PROVE  \A s \in SUBSET S : s \in good
<1> DEFINE bad == {s \in SUBSET S : s \notin good}
           sizes == {Cardinality(s) : s \in bad}
<1> SUFFICES ASSUME bad # {} PROVE FALSE
  OBVIOUS
<1>1. \A s \in SUBSET S : IsFiniteSet(s) /\ Cardinality(s) \in Nat
  BY FS_Subset, FS_CardinalityType
<1>2. sizes \in SUBSET Nat /\ sizes # {}
  BY <1>1
<1>3. PICK n \in sizes : \A m \in sizes : n <= m
  BY <1>2, LeastExists
<1>4. PICK s \in bad : n = Cardinality(s)
  BY <1>3
<1>5. ASSUME NEW x \in s PROVE s \ {x} \in good
  <2>1. Cardinality(s \ {x}) = Cardinality(s) - 1
    BY <1>1, <1>5, FS_RemoveElement
  <2>2. s \ {x} \in SUBSET S /\ Cardinality(s) \in Nat
    BY <1>1
  <2>3. s \ {x} \notin bad
    <3> SUFFICES ASSUME s \ {x} \in bad PROVE FALSE
      OBVIOUS
    <3>1. Cardinality(s) - 1 \in sizes
      BY <2>1
    <3> QED BY <3>1, <2>2, <1>3, <1>4
  <2> QED BY <2>2, <2>3
<1> QED BY <1>4, <1>5

\* What a finite set is mapped to is finite.
LEMMA FiniteImage ==
  ASSUME NEW S, IsFiniteSet(S), NEW f, NEW T, \A y \in T : \E x \in S : f[x] = y
  PROVE  IsFiniteSet(T)
<1> DEFINE D == {x \in S : f[x] \in T}
           g == [x \in D |-> f[x]]
<1>1. IsFiniteSet(D)
  BY FS_Subset
<1>2. g \in Surjection(D, T)
  BY DEF Surjection
<1> QED BY <1>1, <1>2, FS_Surjection

-----------------------------------------------------------------------------
(* Sums *)

Pick(s) == CHOOSE x \in s : TRUE
SumsUp(g, f, S) ==
  g = [s \in SUBSET S |-> IF s = {} THEN Zero ELSE Plus(f[Pick(s)], g[s \ {Pick(s)}])]

LEMMA PickIs == ASSUME NEW s, s # {} PROVE Pick(s) \in s
BY DEF Pick

LEMMA TotalOnIs ==
  ASSUME NEW f, NEW S
  PROVE  TotalOn(f, S) = (CHOOSE g : SumsUp(g, f, S))[S]
BY DEF TotalOn, FoldFunctionOnSet, MapThenFoldSet, SumsUp, Pick

\* The sums of the sets of up to n elements, by the sums of up to n - 1.
LEMMA SumExists ==
  ASSUME NEW f, NEW S, IsFiniteSet(S)
  PROVE  \E g : SumsUp(g, f, S)
<1> DEFINE Level(n) == {s \in SUBSET S : Cardinality(s) <= n}
           Step(g, s) == IF s = {} THEN Zero ELSE Plus(f[Pick(s)], g[s \ {Pick(s)}])
           On(g, n) == g = [s \in Level(n) |-> Step(g, s)]
           bad == {n \in Nat : ~ \E g : On(g, n)}
<1>1. \A s \in SUBSET S : IsFiniteSet(s) /\ Cardinality(s) \in Nat /\ Cardinality(s) <= Cardinality(S)
  BY FS_Subset, FS_CardinalityType
<1>2. \A s \in SUBSET S : s # {} =>
         s \ {Pick(s)} \in SUBSET S /\ Cardinality(s \ {Pick(s)}) = Cardinality(s) - 1
  BY <1>1, PickIs, FS_RemoveElement
<1>3. bad = {}
  <2> SUFFICES ASSUME bad # {} PROVE FALSE
    OBVIOUS
  <2>1. PICK n \in bad : \A m \in bad : n <= m
    <3>1. bad \in SUBSET Nat
      OBVIOUS
    <3> HIDE DEF bad
    <3> QED BY <3>1, LeastExists
  <2>2. CASE n = 0
    <3> DEFINE g == [s \in Level(0) |-> Zero]
    <3>1. \A s \in Level(0) : s = {}
      <4> TAKE s \in Level(0)
      <4>1. Cardinality(s) = 0 /\ IsFiniteSet(s)
        BY <1>1
      <4> QED BY <4>1, FS_EmptySet
    <3>2. \A s \in Level(0) : Step(g, s) = Zero
      BY <3>1
    <3>3. On(g, 0)
      BY <3>2
    <3> QED BY <2>2, <3>3
  <2>3. CASE n # 0
    <3>1. n - 1 \in Nat /\ n - 1 \notin bad
      <4>1. n \in Nat
        OBVIOUS
      <4> HIDE DEF bad
      <4> QED BY <4>1, <2>1, <2>3
    <3>2. PICK h : On(h, n - 1)
      <4> HIDE DEF On
      <4> QED BY <3>1
    <3> DEFINE g == [s \in Level(n) |-> Step(h, s)]
    <3>3. \A s \in Level(n) : s # {} => s \ {Pick(s)} \in Level(n - 1) /\ s \ {Pick(s)} \in Level(n)
      <4> TAKE s \in Level(n)
      <4> HAVE s # {}
      <4>1. s \ {Pick(s)} \in SUBSET S /\ Cardinality(s \ {Pick(s)}) = Cardinality(s) - 1
        BY <1>2
      <4>2. Cardinality(s) \in Nat /\ n \in Nat /\ Cardinality(s) <= n
        BY <1>1
      <4> QED BY <4>1, <4>2
    <3>4. \A s \in Level(n - 1) : h[s] = Step(h, s)
      <4> HIDE DEF Level, Step
      <4> QED BY <3>2
    <3>5. \A s \in Level(n) : Step(h, s) = Step(g, s)
      <4> TAKE s \in Level(n)
      <4>1. CASE s = {}
        BY <4>1
      <4>2. CASE s # {}
        <5>1. h[s \ {Pick(s)}] = Step(h, s \ {Pick(s)})
          BY <3>3, <3>4, <4>2
        <5>2. g[s \ {Pick(s)}] = Step(h, s \ {Pick(s)})
          <6> HIDE DEF Level, Step
          <6> QED BY <3>3, <4>2
        <5> QED BY <4>2, <5>1, <5>2
      <4> QED BY <4>1, <4>2
    <3>6. On(g, n)
      <4>1. g = [s \in Level(n) |-> Step(g, s)]
        <5>1. \A s \in Level(n) : g[s] = Step(g, s)
          <6>1. \A s \in Level(n) : g[s] = Step(h, s)
            <7> HIDE DEF Level, Step
            <7> QED OBVIOUS
          <6> QED BY <6>1, <3>5
        <5>2. g = [s \in Level(n) |-> g[s]]
          <6> HIDE DEF Level, Step
          <6> QED OBVIOUS
        <5> HIDE DEF g, Level, Step
        <5> QED BY <5>1, <5>2
      <4> QED BY <4>1
    <3> QED BY <3>6
  <2> QED BY <2>2, <2>3
<1>4. Cardinality(S) \in Nat /\ Level(Cardinality(S)) = SUBSET S
  BY <1>1
<1>5. PICK g : On(g, Cardinality(S))
  BY <1>3, <1>4
<1> QED BY <1>4, <1>5 DEF SumsUp

LEMMA SumsAgree ==
  ASSUME NEW f, NEW S, IsFiniteSet(S), NEW g, SumsUp(g, f, S),
         NEW e, NEW T, NEW h, SumsUp(h, e, T),
         NEW s \in SUBSET S, s \in SUBSET T, \A x \in s : f[x] = e[x]
  PROVE  g[s] = h[s]
<1> DEFINE good == {z \in SUBSET s : g[z] = h[z]}
<1>1. ASSUME NEW z \in SUBSET s, \A x \in z : z \ {x} \in good PROVE z \in good
  <2>1. z \in SUBSET S /\ z \in SUBSET T
    OBVIOUS
  <2>2. g[z] = IF z = {} THEN Zero ELSE Plus(f[Pick(z)], g[z \ {Pick(z)}])
    BY <2>1 DEF SumsUp
  <2>3. h[z] = IF z = {} THEN Zero ELSE Plus(e[Pick(z)], h[z \ {Pick(z)}])
    BY <2>1 DEF SumsUp
  <2>4. CASE z = {}
    BY <2>2, <2>3, <2>4
  <2>5. CASE z # {}
    <3>1. Pick(z) \in z
      BY <2>5, PickIs
    <3>2. f[Pick(z)] = e[Pick(z)] /\ g[z \ {Pick(z)}] = h[z \ {Pick(z)}]
      BY <1>1, <3>1
    <3> QED BY <2>2, <2>3, <2>5, <3>2
  <2> QED BY <2>4, <2>5
<1>2. IsFiniteSet(s)
  BY FS_Subset
<1> HIDE DEF good
<1>3. \A z \in SUBSET s : z \in good
  BY <1>1, <1>2, Shrinking
<1> QED BY <1>3 DEF good

\* The sum depends on nothing but the values summed.
LEMMA TotalSame ==
  ASSUME NEW f, NEW e, NEW S, IsFiniteSet(S), \A x \in S : f[x] = e[x]
  PROVE  TotalOn(f, S) = TotalOn(e, S)
<1>1. SumsUp(CHOOSE g : SumsUp(g, f, S), f, S)
  BY SumExists
<1>2. SumsUp(CHOOSE g : SumsUp(g, e, S), e, S)
  BY SumExists
<1> QED BY <1>1, <1>2, SumsAgree, TotalOnIs

LEMMA TotalPick ==
  ASSUME NEW f, NEW S, IsFiniteSet(S)
  PROVE  /\ S = {} => TotalOn(f, S) = Zero
         /\ S # {} => TotalOn(f, S) = Plus(f[Pick(S)], TotalOn(f, S \ {Pick(S)}))
<1> DEFINE g == CHOOSE g : SumsUp(g, f, S)
           T == S \ {Pick(S)}
           h == CHOOSE h : SumsUp(h, f, T)
<1>1. SumsUp(g, f, S)
  BY SumExists
<1>2. TotalOn(f, S) = g[S]
  BY TotalOnIs
<1>3. g[S] = IF S = {} THEN Zero ELSE Plus(f[Pick(S)], g[S \ {Pick(S)}])
  <2> HIDE DEF g
  <2> QED BY <1>1 DEF SumsUp
<1>4. SumsUp(h, f, T)
  <2>1. IsFiniteSet(T)
    BY FS_Subset
  <2> QED BY <2>1, SumExists
<1>5. TotalOn(f, T) = h[T]
  BY TotalOnIs
<1> HIDE DEF g, h
<1>6. g[T] = h[T]
  BY <1>1, <1>4, SumsAgree
<1> QED BY <1>2, <1>3, <1>5, <1>6

LEMMA TotalEmpty == ASSUME NEW f PROVE TotalOn(f, {}) = Zero
BY TotalPick, FS_EmptySet

LEMMA TotalType ==
  ASSUME NEW S, IsFiniteSet(S), NEW f, \A x \in S : f[x] \in Fractions
  PROVE  TotalOn(f, S) \in Fractions
<1> DEFINE good == {s \in SUBSET S : TotalOn(f, s) \in Fractions}
<1>1. ASSUME NEW s \in SUBSET S, \A x \in s : s \ {x} \in good PROVE s \in good
  <2>1. IsFiniteSet(s)
    BY FS_Subset
  <2>2. CASE s = {}
    BY <2>2, TotalEmpty, Constants
  <2>3. CASE s # {}
    <3>1. Pick(s) \in s
      BY <2>3, PickIs
    <3>2. f[Pick(s)] \in Fractions /\ TotalOn(f, s \ {Pick(s)}) \in Fractions
      BY <1>1, <3>1
    <3>3. TotalOn(f, s) = Plus(f[Pick(s)], TotalOn(f, s \ {Pick(s)}))
      BY <2>1, <2>3, TotalPick
    <3> QED BY <3>2, <3>3, Operations
  <2> QED BY <2>2, <2>3
<1> HIDE DEF good
<1>2. \A s \in SUBSET S : s \in good
  BY <1>1, Shrinking
<1> QED BY <1>2 DEF good

\* Whichever element is taken out first.
LEMMA TotalTakeOut ==
  ASSUME NEW S, IsFiniteSet(S), NEW f, \A x \in S : f[x] \in Fractions, NEW a \in S
  PROVE  TotalOn(f, S) = Plus(f[a], TotalOn(f, S \ {a}))
<1> DEFINE good == {s \in SUBSET S : \A x \in s : TotalOn(f, s) = Plus(f[x], TotalOn(f, s \ {x}))}
<1>1. ASSUME NEW s \in SUBSET S, \A x \in s : s \ {x} \in good PROVE s \in good
  <2> SUFFICES ASSUME NEW x \in s PROVE TotalOn(f, s) = Plus(f[x], TotalOn(f, s \ {x}))
    OBVIOUS
  <2> DEFINE p == Pick(s)
             t == (s \ {p}) \ {x}
  <2>1. IsFiniteSet(s) /\ p \in s
    BY FS_Subset, PickIs
  <2>2. TotalOn(f, s) = Plus(f[p], TotalOn(f, s \ {p}))
    BY <2>1, TotalPick
  <2> HIDE DEF p
  <2>3. CASE x = p
    BY <2>2, <2>3
  <2>4. CASE x # p
    <3>1. TotalOn(f, s \ {p}) = Plus(f[x], TotalOn(f, t))
      BY <1>1, <2>1, <2>4
    <3>2. TotalOn(f, s \ {x}) = Plus(f[p], TotalOn(f, t))
      <4>1. (s \ {x}) \ {p} = t
        OBVIOUS
      <4>2. p \in s \ {x}
        BY <2>1, <2>4
      <4> QED BY <1>1, <4>1, <4>2
    <3>3. f[x] \in Fractions /\ f[p] \in Fractions /\ TotalOn(f, t) \in Fractions
      <4>1. IsFiniteSet(t) /\ \A y \in t : f[y] \in Fractions
        BY FS_Subset
      <4> QED BY <2>1, <4>1, TotalType
    <3> HIDE DEF t
    <3>4. Plus(f[p], Plus(f[x], TotalOn(f, t))) = Plus(Plus(f[p], f[x]), TotalOn(f, t))
      BY <3>3, PlusAssociates
    <3>5. Plus(f[x], Plus(f[p], TotalOn(f, t))) = Plus(Plus(f[x], f[p]), TotalOn(f, t))
      BY <3>3, PlusAssociates
    <3>6. Plus(f[x], f[p]) = Plus(f[p], f[x])
      BY <3>3, PlusCommutes
    <3> QED BY <2>2, <3>1, <3>2, <3>4, <3>5, <3>6
  <2> QED BY <2>3, <2>4
<1> HIDE DEF good
<1>2. \A s \in SUBSET S : s \in good
  BY <1>1, Shrinking
<1> QED BY <1>2 DEF good

LEMMA TotalOne ==
  ASSUME NEW f, NEW a, f[a] \in Fractions
  PROVE  TotalOn(f, {a}) = f[a]
<1>1. IsFiniteSet({a}) /\ {a} \ {a} = {}
  BY FS_Singleton
<1>2. TotalOn(f, {a}) = Plus(f[a], TotalOn(f, {a} \ {a}))
  BY <1>1, TotalTakeOut
<1> QED BY <1>1, <1>2, TotalEmpty, PlusZero

LEMMA Exchanged ==
  ASSUME NEW a \in Fractions, NEW b \in Fractions, NEW c \in Fractions, NEW d \in Fractions
  PROVE  Plus(Plus(a, b), Plus(c, d)) = Plus(Plus(a, c), Plus(b, d))
<1>1. Plus(b, Plus(c, d)) = Plus(c, Plus(b, d))
  <2>1. Plus(b, Plus(c, d)) = Plus(Plus(b, c), d)
    BY PlusAssociates
  <2>2. Plus(c, Plus(b, d)) = Plus(Plus(c, b), d)
    BY PlusAssociates
  <2> QED BY <2>1, <2>2, PlusCommutes
<1>2. Plus(Plus(a, b), Plus(c, d)) = Plus(a, Plus(b, Plus(c, d)))
  BY PlusAssociates, Operations
<1>3. Plus(Plus(a, c), Plus(b, d)) = Plus(a, Plus(c, Plus(b, d)))
  BY PlusAssociates, Operations
<1> QED BY <1>1, <1>2, <1>3

LEMMA TotalPlus ==
  ASSUME NEW S, IsFiniteSet(S), NEW f, NEW g, NEW h,
         \A x \in S : f[x] \in Fractions /\ g[x] \in Fractions /\ h[x] = Plus(f[x], g[x])
  PROVE  TotalOn(h, S) = Plus(TotalOn(f, S), TotalOn(g, S))
<1> DEFINE good == {s \in SUBSET S : TotalOn(h, s) = Plus(TotalOn(f, s), TotalOn(g, s))}
<1>1. ASSUME NEW s \in SUBSET S, \A x \in s : s \ {x} \in good PROVE s \in good
  <2>1. IsFiniteSet(s) /\ \A x \in s : h[x] \in Fractions
    BY FS_Subset, Operations
  <2>2. CASE s = {}
    BY <2>2, TotalEmpty, Constants, PlusZero
  <2>3. CASE s # {}
    <3>1. PICK x \in s : TRUE
      BY <2>3
    <3> DEFINE t == s \ {x}
    <3>2. /\ TotalOn(f, s) = Plus(f[x], TotalOn(f, t))
          /\ TotalOn(g, s) = Plus(g[x], TotalOn(g, t))
          /\ TotalOn(h, s) = Plus(h[x], TotalOn(h, t))
      BY <2>1, <3>1, TotalTakeOut
    <3>3. IsFiniteSet(t) /\ t \in SUBSET S /\ t \in good
      BY <1>1, FS_Subset
    <3> HIDE DEF t
    <3>4. TotalOn(f, t) \in Fractions /\ TotalOn(g, t) \in Fractions
      BY <3>3, TotalType
    <3>5. TotalOn(h, t) = Plus(TotalOn(f, t), TotalOn(g, t))
      BY <3>3
    <3>6. f[x] \in Fractions /\ g[x] \in Fractions /\ h[x] = Plus(f[x], g[x])
      OBVIOUS
    <3> QED BY <3>2, <3>4, <3>5, <3>6, Exchanged
  <2> QED BY <2>2, <2>3
<1> HIDE DEF good
<1>2. \A s \in SUBSET S : s \in good
  BY <1>1, Shrinking
<1> QED BY <1>2 DEF good

LEMMA TotalTimes ==
  ASSUME NEW S, IsFiniteSet(S), NEW c \in Fractions, NEW f, NEW h,
         \A x \in S : f[x] \in Fractions /\ h[x] = Times(c, f[x])
  PROVE  TotalOn(h, S) = Times(c, TotalOn(f, S))
<1> DEFINE good == {s \in SUBSET S : TotalOn(h, s) = Times(c, TotalOn(f, s))}
<1>1. ASSUME NEW s \in SUBSET S, \A x \in s : s \ {x} \in good PROVE s \in good
  <2>1. IsFiniteSet(s) /\ \A x \in s : h[x] \in Fractions
    BY FS_Subset, Operations
  <2>2. CASE s = {}
    BY <2>2, TotalEmpty, TimesUnits
  <2>3. CASE s # {}
    <3>1. PICK x \in s : TRUE
      BY <2>3
    <3> DEFINE t == s \ {x}
    <3>2. /\ TotalOn(f, s) = Plus(f[x], TotalOn(f, t))
          /\ TotalOn(h, s) = Plus(h[x], TotalOn(h, t))
      BY <2>1, <3>1, TotalTakeOut
    <3>3. IsFiniteSet(t) /\ t \in SUBSET S /\ t \in good
      BY <1>1, FS_Subset
    <3> HIDE DEF t
    <3>4. TotalOn(f, t) \in Fractions /\ f[x] \in Fractions /\ h[x] = Times(c, f[x])
      BY <3>3, TotalType
    <3>5. TotalOn(h, t) = Times(c, TotalOn(f, t))
      BY <3>3
    <3> QED BY <3>2, <3>4, <3>5, TimesPlus
  <2> QED BY <2>2, <2>3
<1> HIDE DEF good
<1>2. \A s \in SUBSET S : s \in good
  BY <1>1, Shrinking
<1> QED BY <1>2 DEF good

LEMMA TotalZero ==
  ASSUME NEW S, IsFiniteSet(S), NEW f, \A x \in S : f[x] = Zero
  PROVE  TotalOn(f, S) = Zero
<1>1. \A x \in S : f[x] \in Fractions /\ f[x] = Times(Zero, f[x])
  BY Constants, TimesUnits
<1>2. TotalOn(f, S) = Times(Zero, TotalOn(f, S))
  BY <1>1, Constants, TotalTimes
<1> QED BY <1>1, <1>2, TotalType, TimesUnits

LEMMA TotalUnion ==
  ASSUME NEW S, IsFiniteSet(S), NEW T, IsFiniteSet(T), S \cap T = {}, NEW f,
         \A x \in S \cup T : f[x] \in Fractions
  PROVE  TotalOn(f, S \cup T) = Plus(TotalOn(f, S), TotalOn(f, T))
<1> DEFINE U == S \cup T
           g == [x \in U |-> IF x \in S THEN f[x] ELSE Zero]
           h == [x \in U |-> IF x \in T THEN f[x] ELSE Zero]
           good == {s \in SUBSET U : TotalOn(g, s) = TotalOn(f, s \cap S)
                                     /\ TotalOn(h, s) = TotalOn(f, s \cap T)}
<1>0. IsFiniteSet(U)
  BY FS_Union
<1>1. ASSUME NEW s \in SUBSET U, \A x \in s : s \ {x} \in good PROVE s \in good
  <2>1. IsFiniteSet(s) /\ IsFiniteSet(s \cap S) /\ IsFiniteSet(s \cap T)
    BY <1>0, FS_Subset
  <2>2. CASE s = {}
    BY <2>2, TotalEmpty
  <2>3. CASE s # {}
    <3>1. PICK x \in s : TRUE
      BY <2>3
    <3> DEFINE t == s \ {x}
    <3>2. \A y \in s : f[y] \in Fractions /\ g[y] \in Fractions /\ h[y] \in Fractions
      BY Constants
    <3>3. TotalOn(g, s) = Plus(g[x], TotalOn(g, t)) /\ TotalOn(h, s) = Plus(h[x], TotalOn(h, t))
      BY <2>1, <3>1, <3>2, TotalTakeOut
    <3>4. IsFiniteSet(t) /\ t \in SUBSET U /\ t \in good
      BY <1>1, <2>1, FS_Subset
    <3>5. TotalOn(g, t) = TotalOn(f, t \cap S) /\ TotalOn(h, t) = TotalOn(f, t \cap T)
      BY <3>4
    <3>6. TotalOn(f, t \cap S) \in Fractions /\ TotalOn(f, t \cap T) \in Fractions
      <4>1. IsFiniteSet(t \cap S) /\ IsFiniteSet(t \cap T)
        BY <3>4, FS_Subset
      <4> QED BY <4>1, <3>2, TotalType
    <3>7. CASE x \in S
      <4>1. x \notin T /\ s \cap T = t \cap T /\ (s \cap S) \ {x} = t \cap S /\ x \in s \cap S
        BY <3>7
      <4>2. g[x] = f[x] /\ h[x] = Zero
        BY <3>7, <4>1
      <4>3. TotalOn(f, s \cap S) = Plus(f[x], TotalOn(f, t \cap S))
        BY <2>1, <3>2, <4>1, TotalTakeOut
      <4> QED BY <3>3, <3>5, <3>6, <4>1, <4>2, <4>3, PlusZero
    <3>8. CASE x \notin S
      <4>1. x \in T /\ s \cap S = t \cap S /\ (s \cap T) \ {x} = t \cap T /\ x \in s \cap T
        BY <3>8
      <4>2. h[x] = f[x] /\ g[x] = Zero
        BY <3>8, <4>1
      <4>3. TotalOn(f, s \cap T) = Plus(f[x], TotalOn(f, t \cap T))
        BY <2>1, <3>2, <4>1, TotalTakeOut
      <4> QED BY <3>3, <3>5, <3>6, <4>1, <4>2, <4>3, PlusZero
    <3> QED BY <3>7, <3>8
  <2> QED BY <2>2, <2>3
<1>2. \A x \in U : g[x] \in Fractions /\ h[x] \in Fractions /\ f[x] = Plus(g[x], h[x])
  BY Constants, PlusZero
<1>3. U \cap S = S /\ U \cap T = T
  OBVIOUS
<1> HIDE DEF good, g, h
<1>4. \A s \in SUBSET U : s \in good
  BY <1>0, <1>1, Shrinking
<1>5. TotalOn(g, U) = TotalOn(f, S) /\ TotalOn(h, U) = TotalOn(f, T)
  <2>1. U \in good
    <3> HIDE DEF U
    <3> QED BY <1>4
  <2> QED BY <2>1, <1>3 DEF good
<1> QED BY <1>0, <1>2, <1>5, TotalPlus

\* What is not in the part summed may as well be nothing.
LEMMA TotalPart ==
  ASSUME NEW S, IsFiniteSet(S), NEW T \in SUBSET S, NEW f, NEW g,
         \A x \in T : f[x] \in Fractions /\ g[x] = f[x], \A x \in S \ T : g[x] = Zero
  PROVE  TotalOn(g, S) = TotalOn(f, T)
<1>1. IsFiniteSet(T) /\ IsFiniteSet(S \ T) /\ T \cap (S \ T) = {} /\ T \cup (S \ T) = S
  BY FS_Subset
<1>2. \A x \in T \cup (S \ T) : g[x] \in Fractions
  BY Constants
<1>3. TotalOn(g, S) = Plus(TotalOn(g, T), TotalOn(g, S \ T))
  BY <1>1, <1>2, TotalUnion
<1>4. TotalOn(g, T) = TotalOn(f, T) /\ TotalOn(g, S \ T) = Zero
  BY <1>1, TotalSame, TotalZero
<1> QED BY <1>1, <1>3, <1>4, TotalType, PlusZero

LEMMA PlusBoth ==
  ASSUME NEW a \in Fractions, NEW b \in Fractions, NEW c \in Fractions, NEW d \in Fractions,
         AtMost(a, b), AtMost(c, d)
  PROVE  AtMost(Plus(a, c), Plus(b, d))
<1>1. AtMost(Plus(a, c), Plus(b, c))
  BY PlusMonotone
<1>2. AtMost(Plus(c, b), Plus(d, b))
  BY PlusMonotone
<1>3. Plus(c, b) = Plus(b, c) /\ Plus(d, b) = Plus(b, d)
  BY PlusCommutes
<1> QED BY <1>1, <1>2, <1>3, Operations, AtMostChains

LEMMA TotalAtMost ==
  ASSUME NEW S, IsFiniteSet(S), NEW f, NEW g,
         \A x \in S : f[x] \in Fractions /\ g[x] \in Fractions /\ AtMost(f[x], g[x])
  PROVE  AtMost(TotalOn(f, S), TotalOn(g, S))
<1> DEFINE good == {s \in SUBSET S : AtMost(TotalOn(f, s), TotalOn(g, s))}
<1>1. ASSUME NEW s \in SUBSET S, \A x \in s : s \ {x} \in good PROVE s \in good
  <2>1. IsFiniteSet(s)
    BY FS_Subset
  <2>2. CASE s = {}
    BY <2>2, TotalEmpty, Constants, AtMostOrders
  <2>3. CASE s # {}
    <3>1. PICK x \in s : TRUE
      BY <2>3
    <3> DEFINE t == s \ {x}
    <3>2. TotalOn(f, s) = Plus(f[x], TotalOn(f, t)) /\ TotalOn(g, s) = Plus(g[x], TotalOn(g, t))
      BY <2>1, <3>1, TotalTakeOut
    <3>3. IsFiniteSet(t) /\ t \in SUBSET S /\ t \in good
      BY <1>1, FS_Subset
    <3> HIDE DEF t
    <3>4. TotalOn(f, t) \in Fractions /\ TotalOn(g, t) \in Fractions
      BY <3>3, TotalType
    <3>5. AtMost(TotalOn(f, t), TotalOn(g, t))
      BY <3>3
    <3> QED BY <3>2, <3>4, <3>5, PlusBoth
  <2> QED BY <2>2, <2>3
<1> HIDE DEF good
<1>2. \A s \in SUBSET S : s \in good
  BY <1>1, Shrinking
<1> QED BY <1>2 DEF good

LEMMA TotalNotNegative ==
  ASSUME NEW S, IsFiniteSet(S), NEW f, \A x \in S : f[x] \in Fractions /\ AtMost(Zero, f[x])
  PROVE  TotalOn(f, S) \in Fractions /\ AtMost(Zero, TotalOn(f, S))
<1> DEFINE z == [x \in S |-> Zero]
<1>1. \A x \in S : z[x] = Zero
  OBVIOUS
<1> HIDE DEF z
<1>2. TotalOn(z, S) = Zero
  BY <1>1, TotalZero
<1>3. AtMost(TotalOn(z, S), TotalOn(f, S))
  BY <1>1, Constants, TotalAtMost
<1> QED BY <1>2, <1>3, TotalType

LEMMA PlusGrows ==
  ASSUME NEW a \in Fractions, NEW b \in Fractions, AtMost(Zero, b)
  PROVE  AtMost(a, Plus(a, b)) /\ AtMost(a, Plus(b, a))
<1>1. AtMost(Plus(Zero, a), Plus(b, a))
  BY PlusMonotone, Constants
<1> QED BY <1>1, PlusZero, PlusCommutes

LEMMA TotalWithin ==
  ASSUME NEW S, IsFiniteSet(S), NEW T \in SUBSET S, NEW f,
         \A x \in S : f[x] \in Fractions /\ AtMost(Zero, f[x])
  PROVE  AtMost(TotalOn(f, T), TotalOn(f, S))
<1>1. IsFiniteSet(T) /\ IsFiniteSet(S \ T) /\ T \cap (S \ T) = {} /\ T \cup (S \ T) = S
  BY FS_Subset
<1>2. TotalOn(f, S) = Plus(TotalOn(f, T), TotalOn(f, S \ T))
  <2>1. TotalOn(f, T \cup (S \ T)) = Plus(TotalOn(f, T), TotalOn(f, S \ T))
    BY <1>1, TotalUnion
  <2> QED BY <1>1, <2>1
<1> QED BY <1>1, <1>2, TotalNotNegative, PlusGrows

Class(S, p, b) == {x \in S : p[x] = b}

\* A sum may be taken class by class.
LEMMA TotalByClass ==
  ASSUME NEW S, IsFiniteSet(S), NEW B, IsFiniteSet(B), NEW f, NEW p, NEW t,
         \A x \in S : f[x] \in Fractions /\ p[x] \in B,
         \A b \in B : t[b] = TotalOn(f, Class(S, p, b))
  PROVE  TotalOn(t, B) = TotalOn(f, S)
<1> DEFINE Of(c) == {x \in S : p[x] \in c}
           good == {c \in SUBSET B : TotalOn(t, c) = TotalOn(f, Of(c))}
<1>1. ASSUME NEW c \in SUBSET B, \A b \in c : c \ {b} \in good PROVE c \in good
  <2>1. IsFiniteSet(c)
    BY FS_Subset
  <2>2. CASE c = {}
    <3>1. Of(c) = {}
      BY <2>2
    <3> QED BY <2>2, <3>1, TotalEmpty
  <2>3. CASE c # {}
    <3>1. PICK b \in c : TRUE
      BY <2>3
    <3> DEFINE d == c \ {b}
               X == Class(S, p, b)
               Y == Of(d)
    <3>2. IsFiniteSet(X) /\ IsFiniteSet(Y) /\ X \cap Y = {} /\ X \cup Y = Of(c)
      BY FS_Subset DEF Class
    <3>3. \A b1 \in B : t[b1] \in Fractions
      <4> TAKE b1 \in B
      <4>1. IsFiniteSet(Class(S, p, b1)) /\ Class(S, p, b1) \subseteq S
        BY FS_Subset DEF Class
      <4>2. TotalOn(f, Class(S, p, b1)) \in Fractions
        BY <4>1, TotalType
      <4> QED BY <4>2
    <3>4. TotalOn(t, c) = Plus(t[b], TotalOn(t, d))
      BY <2>1, <3>1, <3>3, TotalTakeOut
    <3>5. TotalOn(t, d) = TotalOn(f, Y)
      BY <1>1, <3>1
    <3>6. t[b] = TotalOn(f, X)
      OBVIOUS
    <3>7. \A x \in X \cup Y : f[x] \in Fractions
      BY DEF Class
    <3>8. TotalOn(f, X \cup Y) = Plus(TotalOn(f, X), TotalOn(f, Y))
      <4> HIDE DEF X, Y
      <4> QED BY <3>2, <3>7, TotalUnion
    <3>9. TotalOn(t, c) = TotalOn(f, Of(c))
      <4> HIDE DEF X, Y, d, Of
      <4> QED BY <3>2, <3>4, <3>5, <3>6, <3>8
    <3> QED BY <3>9
  <2> QED BY <2>2, <2>3
<1>2. Of(B) = S
  OBVIOUS
<1> HIDE DEF good, Of
<1>3. \A c \in SUBSET B : c \in good
  BY <1>1, Shrinking
<1>4. B \in good
  BY <1>3
<1> QED BY <1>2, <1>4 DEF good

\* Nor does it matter how the elements are named.
LEMMA TotalRenamed ==
  ASSUME NEW S, IsFiniteSet(S), NEW T, IsFiniteSet(T), NEW f, NEW g, NEW m,
         \A x \in S : m[x] \in T /\ g[x] = f[m[x]],
         \A y \in T : f[y] \in Fractions /\ \E x \in S : m[x] = y,
         \A x, z \in S : m[x] = m[z] => x = z
  PROVE  TotalOn(g, S) = TotalOn(f, T)
<1>1. \A x \in S : g[x] \in Fractions /\ m[x] \in T
  OBVIOUS
<1>2. \A y \in T : f[y] = TotalOn(g, Class(S, m, y))
  <2> TAKE y \in T
  <2>1. PICK x \in S : m[x] = y
    OBVIOUS
  <2>2. Class(S, m, y) = {x} /\ g[x] = f[y]
    BY <2>1 DEF Class
  <2> QED BY <1>1, <2>2, TotalOne
<1> QED BY <1>1, <1>2, TotalByClass

\* Rows first or columns first.
LEMMA TotalExchange ==
  ASSUME NEW A, IsFiniteSet(A), NEW B, IsFiniteSet(B), NEW F, NEW G, NEW r, NEW c,
         \A a \in A, b \in B : F[a][b] \in Fractions /\ G[b][a] = F[a][b],
         \A a \in A : r[a] = TotalOn(F[a], B),
         \A b \in B : c[b] = TotalOn(G[b], A)
  PROVE  TotalOn(r, A) = TotalOn(c, B)
<1> DEFINE Cols(s) == [b \in B |-> TotalOn(G[b], s)]
           good == {s \in SUBSET A : TotalOn(r, s) = TotalOn(Cols(s), B)}
<1>1. ASSUME NEW s \in SUBSET A, \A a \in s : s \ {a} \in good PROVE s \in good
  <2>1. IsFiniteSet(s)
    BY FS_Subset
  <2>2. CASE s = {}
    <3>1. \A b \in B : Cols(s)[b] = Zero
      BY <2>2, TotalEmpty
    <3>2. TotalOn(Cols(s), B) = Zero
      <4> HIDE DEF Cols
      <4> QED BY <3>1, TotalZero
    <3> QED BY <2>2, <3>2, TotalEmpty
  <2>3. CASE s # {}
    <3>1. PICK a \in s : TRUE
      BY <2>3
    <3> DEFINE d == s \ {a}
    <3>2. IsFiniteSet(d) /\ d \in SUBSET A /\ d \in good
      BY <1>1, <2>1, <3>1, FS_Subset
    <3>3. \A a1 \in A : r[a1] \in Fractions
      BY TotalType
    <3>4. TotalOn(r, s) = Plus(r[a], TotalOn(r, d))
      BY <2>1, <3>1, <3>3, TotalTakeOut
    <3>5. \A b \in B : /\ F[a][b] \in Fractions /\ Cols(d)[b] \in Fractions
                       /\ Cols(s)[b] = Plus(F[a][b], Cols(d)[b])
      <4> TAKE b \in B
      <4>1. Cols(s)[b] = TotalOn(G[b], s) /\ Cols(d)[b] = TotalOn(G[b], d)
        OBVIOUS
      <4>2. \A x \in A : G[b][x] \in Fractions
        OBVIOUS
      <4>3. TotalOn(G[b], s) = Plus(G[b][a], TotalOn(G[b], d))
        BY <2>1, <4>2, TotalTakeOut
      <4>4. TotalOn(G[b], d) \in Fractions
        <5> HIDE DEF d
        <5> QED BY <3>2, <4>2, TotalType
      <4> QED BY <4>1, <4>3, <4>4
    <3>6. TotalOn(r, d) = TotalOn(Cols(d), B)
      BY <3>2
    <3>7. r[a] = TotalOn(F[a], B)
      OBVIOUS
    <3>8. TotalOn(Cols(s), B) = Plus(TotalOn(F[a], B), TotalOn(Cols(d), B))
      <4> DEFINE u == F[a]
                 v == Cols(d)
                 w == Cols(s)
      <4>1. \A b \in B : u[b] \in Fractions /\ v[b] \in Fractions /\ w[b] = Plus(u[b], v[b])
        BY <3>5
      <4> HIDE DEF u, v, w
      <4>2. TotalOn(w, B) = Plus(TotalOn(u, B), TotalOn(v, B))
        BY <4>1, TotalPlus
      <4> QED BY <4>2 DEF u, v, w
    <3> QED BY <3>4, <3>6, <3>7, <3>8
  <2> QED BY <2>2, <2>3
<1>2. \A b \in B : Cols(A)[b] = c[b]
  OBVIOUS
<1> HIDE DEF good, Cols
<1>3. \A s \in SUBSET A : s \in good
  BY <1>1, Shrinking
<1>4. A \in good
  BY <1>3
<1>5. TotalOn(Cols(A), B) = TotalOn(c, B)
  BY <1>2, TotalSame
<1> QED BY <1>4, <1>5 DEF good

-----------------------------------------------------------------------------
(* Amounts: what is not less than nothing *)

Amounts == {q \in Fractions : AtMost(Zero, q)}

LEMMA AmountsClosed ==
  ASSUME NEW a \in Amounts, NEW b \in Amounts
  PROVE  Plus(a, b) \in Amounts /\ Times(a, b) \in Amounts
<1>1. Plus(a, b) \in Fractions /\ Times(a, b) \in Fractions
  BY Operations DEF Amounts
<1>2. AtMost(Zero, a) /\ AtMost(a, Plus(a, b))
  BY PlusGrows DEF Amounts
<1>3. AtMost(Times(a, Zero), Times(a, b))
  BY TimesMonotone, Constants DEF Amounts
<1>4. Times(a, Zero) = Zero
  BY TimesUnits DEF Amounts
<1>5. AtMost(Zero, Plus(a, b))
  BY <1>1, <1>2, Constants, AtMostChains DEF Amounts
<1> QED BY <1>1, <1>3, <1>4, <1>5 DEF Amounts

LEMMA FracIsAmount ==
  ASSUME NEW n \in Nat, NEW d \in Positive
  PROVE  Frac(n, d) \in Amounts
<1> DEFINE q == Frac(n, d)
<1>1. q \in Fractions /\ q[1] * d = n * q[2] /\ q[1] \in Int /\ q[2] \in Positive
  BY FracIs, Parts DEF Stands
<1> HIDE DEF q
<1>2. n * q[2] \in Nat /\ d \in Nat /\ d > 0
  BY <1>1 DEF Positive
<1>3. q[1] * d >= 0 => q[1] >= 0
  BY <1>1, <1>2
<1>4. q[1] >= 0
  BY <1>1, <1>2, <1>3
<1> QED BY <1>1, <1>4, Signs DEF Amounts, q

LEMMA WholeIsAmount ==
  ASSUME NEW n \in Nat
  PROVE  /\ Whole(n) \in Amounts
         /\ n # 0 => Whole(n) \in Above
<1>1. Whole(n) \in Fractions /\ Whole(n)[1] = n
  BY Wholes DEF Whole
<1>2. AtMost(Zero, Whole(n)) /\ (n # 0 => Whole(n) # Zero)
  BY <1>1, Signs
<1> QED BY <1>1, <1>2 DEF Amounts, Above

LEMMA SomeAmounts == Zero \in Amounts /\ One \in Above /\ Above \subseteq Amounts /\ Amounts \subseteq Fractions
<1>1. 0 \in Nat /\ 1 \in Nat /\ 1 # 0
  OBVIOUS
<1>2. \A n \in Nat : Whole(n) \in Amounts /\ (n # 0 => Whole(n) \in Above)
  BY WholeIsAmount
<1>3. Whole(0) \in Amounts /\ Whole(1) \in Above
  BY <1>1, <1>2
<1> QED BY <1>3, Constants DEF Amounts, Above

LEMMA OverIsAmount ==
  ASSUME NEW a \in Amounts, NEW b \in Above
  PROVE  Over(a, b) \in Amounts
BY OverIs DEF Amounts

LEMMA TotalIsAmount ==
  ASSUME NEW S, IsFiniteSet(S), NEW f, \A x \in S : f[x] \in Amounts
  PROVE  TotalOn(f, S) \in Amounts
BY TotalNotNegative DEF Amounts

LEMMA MinusIsRest ==
  ASSUME NEW a \in Fractions, NEW b \in Fractions
  PROVE  /\ Minus(a, b) \in Fractions
         /\ AtMost(b, a) => Minus(a, b) \in Amounts
         /\ Minus(a, Minus(a, b)) = b
<1> DEFINE m == Minus(a, b)
           k == Minus(a, m)
<1>1. m \in Fractions /\ k \in Fractions /\ Plus(b, m) = a /\ Plus(m, k) = a
  BY Operations, MinusIs
<1> HIDE DEF m, k
<1>2. ASSUME AtMost(b, a) PROVE AtMost(Zero, m)
  <2>1. AtMost(Plus(Zero, b), Plus(m, b))
    BY <1>1, <1>2, PlusZero, PlusCommutes
  <2> QED BY <1>1, <2>1, PlusMonotone, Constants
<1>3. k = b
  <2>1. Plus(k, m) = Plus(b, m)
    BY <1>1, PlusCommutes
  <2>2. AtMost(k, b) <=> AtMost(Plus(k, m), Plus(b, m))
    BY <1>1, PlusMonotone
  <2>3. AtMost(b, k) <=> AtMost(Plus(b, m), Plus(k, m))
    BY <1>1, PlusMonotone
  <2> QED BY <1>1, <2>1, <2>2, <2>3, AtMostOrders, Operations
<1> QED BY <1>1, <1>2, <1>3 DEF m, k, Amounts

LEMMA WholeAdds ==
  ASSUME NEW n \in Nat
  PROVE  Whole(1 + n) = Plus(One, Whole(n))
<1>1. One[1] = 1 /\ One[2] = 1 /\ Whole(n)[1] = n /\ Whole(n)[2] = 1 /\ 1 + n \in Int
  BY DEF One, Whole
<1>2. Plus(One, Whole(n)) = Frac(1 * 1 + n * 1, 1 * 1)
  BY <1>1 DEF Plus
<1>3. 1 * 1 + n * 1 = 1 + n /\ 1 * 1 = 1
  OBVIOUS
<1>4. Plus(One, Whole(n)) = Frac(1 + n, 1)
  BY <1>2, <1>3
<1>5. Whole(1 + n) \in Fractions /\ Whole(1 + n)[1] = 1 + n /\ Whole(1 + n)[2] = 1
  BY <1>1, Wholes DEF Whole
<1> QED BY <1>4, <1>5, ItsParts

\* As many times the same amount as there are elements.
LEMMA TotalConstant ==
  ASSUME NEW S, IsFiniteSet(S), NEW v \in Fractions, NEW f, \A x \in S : f[x] = v
  PROVE  TotalOn(f, S) = Times(Whole(Cardinality(S)), v)
<1> DEFINE good == {s \in SUBSET S : TotalOn(f, s) = Times(Whole(Cardinality(s)), v)}
<1>1. ASSUME NEW s \in SUBSET S, \A x \in s : s \ {x} \in good PROVE s \in good
  <2>1. IsFiniteSet(s) /\ Cardinality(s) \in Nat
    BY FS_Subset, FS_CardinalityType
  <2>2. CASE s = {}
    <3>1. Cardinality(s) = 0
      BY <2>2, FS_EmptySet
    <3>2. Times(Whole(Cardinality(s)), v) = Zero
      BY <3>1, Constants, TimesUnits
    <3> QED BY <2>2, <3>2, TotalEmpty
  <2>3. CASE s # {}
    <3>1. PICK x \in s : TRUE
      BY <2>3
    <3> DEFINE t == s \ {x}
               n == Cardinality(t)
    <3>2. TotalOn(f, s) = Plus(v, TotalOn(f, t))
      BY <2>1, <3>1, TotalTakeOut
    <3>3. TotalOn(f, t) = Times(Whole(n), v)
      BY <1>1
    <3>4. n \in Nat /\ Cardinality(s) = 1 + n
      <4>1. IsFiniteSet(t)
        BY <2>1, FS_Subset
      <4>2. Cardinality(t) = Cardinality(s) - 1
        BY <2>1, <3>1, FS_RemoveElement
      <4> QED BY <2>1, <4>1, <4>2, FS_CardinalityType
    <3> HIDE DEF n
    <3>5. Whole(1 + n) = Plus(One, Whole(n))
      BY <3>4, WholeAdds
    <3>6. Times(Plus(One, Whole(n)), v) = Plus(v, Times(Whole(n), v))
      <4>1. Whole(n) \in Fractions /\ One \in Fractions
        BY <3>4, Wholes, Constants
      <4>2. Times(v, Plus(One, Whole(n))) = Plus(Times(v, One), Times(v, Whole(n)))
        BY <4>1, TimesPlus
      <4> QED BY <4>1, <4>2, TimesUnits, TimesCommutes, Operations
    <3> QED BY <3>2, <3>3, <3>4, <3>5, <3>6
  <2> QED BY <2>2, <2>3
<1> HIDE DEF good
<1>2. \A s \in SUBSET S : s \in good
  BY <1>1, Shrinking
<1> QED BY <1>2 DEF good
=============================================================================
