---------------------------- MODULE NumberTheory ----------------------------
(***************************************************************************)
(* What Paillier's cryptosystem rests on, for the functions of Arithmetic: *)
(* congruences, powers, inverses, Fermat's theorem, products of primes.    *)
(* Where a book would use induction, a smallest counterexample is taken.   *)
(***************************************************************************)
EXTENDS Arithmetic, FiniteSets, FiniteSetTheorems, WellFoundedInduction, TLAPS

Pos == Nat \ {0}

LEMMA Smallest ==
  ASSUME NEW S, S \subseteq Nat, S # {}
  PROVE  \E x \in S : \A y \in S : x <= y
<1>1. PICK x \in S : \A y \in S : ~(<<y, x>> \in OpToRel(<, Nat))
  BY NatLessThanWellFounded, WFMin
<1>2. ASSUME NEW y \in S PROVE x <= y
  <2>1. x \in Nat /\ y \in Nat /\ ~(y < x)
    BY <1>1 DEF OpToRel
  <2>2. QED
    BY <2>1
<1>3. QED
  BY <1>2

-----------------------------------------------------------------------------
\* Division and congruence.

LEMMA Products ==
  ASSUME NEW a \in Int, NEW b \in Int, NEW m \in Nat, a < b
  PROVE  a * m + m <= b * m
<1>1. PICK d \in Nat : b = a + 1 + d
  <2>1. b - a - 1 \in Nat /\ b = a + 1 + (b - a - 1)
    OBVIOUS
  <2>2. QED
    BY <2>1
<1>2. b * m = a * m + m + d * m /\ d * m \in Nat
  BY <1>1
<1>3. a * m \in Int /\ b * m \in Int
  OBVIOUS
<1>4. QED
  BY <1>2, <1>3

LEMMA DivMod ==
  ASSUME NEW a \in Int, NEW m \in Pos
  PROVE  /\ a % m \in Nat /\ a % m < m /\ a \div m \in Int
         /\ a = (a \div m) * m + (a % m)
BY DEF Pos

LEMMA DivUnique ==
  ASSUME NEW q \in Int, NEW m \in Pos, NEW r \in Nat, r < m
  PROVE  (q * m + r) % m = r /\ (q * m + r) \div m = q
<1> DEFINE a == q * m + r
           k == a \div m
           s == a % m
<1>1. a \in Int /\ m \in Nat
  BY DEF Pos
<1>2. s \in Nat /\ s < m /\ k \in Int /\ a = k * m + s
  BY <1>1, DivMod
<1>3. k * m \in Int /\ q * m \in Int /\ a = q * m + r
  BY <1>1, <1>2
<1> HIDE DEF a, k, s
<1>4. ~(k < q)
  <2>1. SUFFICES ASSUME k < q PROVE FALSE
    OBVIOUS
  <2>2. k * m + m <= q * m
    BY <1>1, <1>2, <2>1, Products
  <2>3. QED
    BY <1>1, <1>2, <1>3, <2>2
<1>5. ~(q < k)
  <2>1. SUFFICES ASSUME q < k PROVE FALSE
    OBVIOUS
  <2>2. q * m + m <= k * m
    BY <1>1, <1>2, <2>1, Products
  <2>3. QED
    BY <1>1, <1>2, <1>3, <2>2
<1>6. k = q
  BY <1>2, <1>4, <1>5
<1>7. s = r
  BY <1>2, <1>3, <1>6
<1>8. QED
  BY <1>6, <1>7 DEF a, k, s

Cong(a, b, m) == \E k \in Int : a = b + k * m

LEMMA CongIntro ==
  ASSUME NEW a \in Int, NEW b \in Int, NEW m \in Int, NEW k \in Int, a = b + k * m
  PROVE  Cong(a, b, m)
BY DEF Cong

LEMMA CongRefl == \A a, m \in Int : Cong(a, a, m)
<1>1. ASSUME NEW a \in Int, NEW m \in Int PROVE Cong(a, a, m)
  <2>1. a = a + 0 * m
    OBVIOUS
  <2>2. QED
    BY <2>1 DEF Cong
<1>2. QED
  BY <1>1

LEMMA CongSym ==
  ASSUME NEW a \in Int, NEW b \in Int, NEW m \in Int, Cong(a, b, m)
  PROVE  Cong(b, a, m)
<1>1. PICK k \in Int : a = b + k * m
  BY DEF Cong
<1>2. b = a + (-k) * m /\ -k \in Int
  BY <1>1
<1>3. QED
  BY <1>2 DEF Cong

LEMMA CongTrans ==
  ASSUME NEW a \in Int, NEW b \in Int, NEW c \in Int, NEW m \in Int,
         Cong(a, b, m), Cong(b, c, m)
  PROVE  Cong(a, c, m)
<1>1. PICK k \in Int : a = b + k * m
  BY DEF Cong
<1>2. PICK l \in Int : b = c + l * m
  BY DEF Cong
<1>3. a = c + (k + l) * m /\ k + l \in Int
  BY <1>1, <1>2
<1>4. QED
  BY <1>3 DEF Cong

LEMMA CongMul ==
  ASSUME NEW a \in Int, NEW b \in Int, NEW x \in Int, NEW y \in Int, NEW m \in Int,
         Cong(a, b, m), Cong(x, y, m)
  PROVE  Cong(a * x, b * y, m)
<1>1. PICK k \in Int : a = b + k * m
  BY DEF Cong
<1>2. PICK l \in Int : x = y + l * m
  BY DEF Cong
<1>3. a * x = b * y + (k * y + l * b + k * l * m) * m
  BY <1>1, <1>2
<1>4. k * y + l * b + k * l * m \in Int
  OBVIOUS
<1>5. QED
  BY <1>3, <1>4 DEF Cong

LEMMA CongMod ==
  ASSUME NEW a \in Int, NEW m \in Pos
  PROVE  Cong(a % m, a, m) /\ Cong(a, a % m, m)
<1>1. a % m \in Int /\ a \div m \in Int /\ m \in Int /\ a = (a \div m) * m + (a % m)
  BY DivMod DEF Pos
<1>2. a = (a % m) + (a \div m) * m
  BY <1>1
<1>3. QED
  BY <1>1, <1>2, CongIntro, CongSym

LEMMA CongIffMod ==
  ASSUME NEW a \in Int, NEW b \in Int, NEW m \in Pos
  PROVE  Cong(a, b, m) <=> a % m = b % m
<1>1. m \in Int /\ a % m \in Nat /\ b % m \in Nat /\ b % m < m
  BY DivMod DEF Pos
<1>2. ASSUME Cong(a, b, m) PROVE a % m = b % m
  <2>1. PICK k \in Int : a = (b % m) + k * m
    <3>1. Cong(a, b % m, m)
      BY <1>1, <1>2, CongMod, CongTrans
    <3>2. QED
      BY <3>1 DEF Cong
  <2>2. a = k * m + (b % m)
    BY <1>1, <2>1
  <2>3. QED
    BY <1>1, <2>2, DivUnique
<1>3. ASSUME a % m = b % m PROVE Cong(a, b, m)
  BY <1>1, <1>3, CongMod, CongTrans
<1>4. QED
  BY <1>2, <1>3

\* Numbers below m are congruent only if equal.
LEMMA CongSmall ==
  ASSUME NEW m \in Pos, NEW a \in 0..m - 1, NEW b \in 0..m - 1, Cong(a, b, m)
  PROVE  a = b
<1>1. m \in Int
  BY DEF Pos
<1>2. a = 0 * m + a /\ b = 0 * m + b
  BY <1>1
<1>3. a % m = a /\ b % m = b
  BY <1>1, <1>2, DivUnique
<1>4. a \in Int /\ b \in Int
  BY <1>1
<1>5. a % m = b % m
  BY <1>4, CongIffMod
<1>6. QED
  BY <1>3, <1>5

LEMMA CongMods ==
  ASSUME NEW a \in Int, NEW b \in Int, NEW m \in Pos
  PROVE  Cong(((a % m) * (b % m)) % m, a * b, m)
<1>1. a % m \in Int /\ b % m \in Int /\ m \in Int /\ a * b \in Int
      /\ (a % m) * (b % m) \in Int
  BY DivMod DEF Pos
<1>2. Cong((a % m) * (b % m), a * b, m)
  BY <1>1, CongMod, CongMul
<1>3. ((a % m) * (b % m)) % m \in Int
  BY <1>1, DivMod
<1>4. Cong(((a % m) * (b % m)) % m, (a % m) * (b % m), m)
  BY <1>1, CongMod
<1>5. QED
  BY <1>1, <1>2, <1>3, <1>4, CongTrans

-----------------------------------------------------------------------------
\* power.

Powers(p, b, n) == p = [e \in 0..n |-> IF e = 0 THEN 1 ELSE b * p[e - 1]]

LEMMA PowersExist ==
  ASSUME NEW b \in Int, NEW n \in Nat
  PROVE  \E p : Powers(p, b, n)
<1> DEFINE Bad == {k \in Nat : ~ \E p : Powers(p, b, k)}
<1>1. SUFFICES ASSUME Bad # {} PROVE FALSE
  OBVIOUS
<1>2. PICK k \in Bad : \A j \in Bad : k <= j
  BY <1>1, Smallest
<1>3. k # 0
  <2>1. Powers([e \in 0..0 |-> 1], b, 0)
    BY DEF Powers
  <2>2. QED
    BY <2>1
<1>4. k - 1 \in Nat /\ k - 1 \notin Bad
  BY <1>2, <1>3
<1>5. PICK q : Powers(q, b, k - 1)
  BY <1>4
<1> DEFINE p == [e \in 0..k |-> IF e < k THEN q[e] ELSE b * q[k - 1]]
<1>6. \A e \in 0..k : p[e] = IF e = 0 THEN 1 ELSE b * p[e - 1]
  <2>1. SUFFICES ASSUME NEW e \in 0..k
                 PROVE  p[e] = IF e = 0 THEN 1 ELSE b * p[e - 1]
    OBVIOUS
  <2>2. \A i \in 0..k - 1 : q[i] = IF i = 0 THEN 1 ELSE b * q[i - 1]
    BY <1>4, <1>5 DEF Powers
  <2>3. CASE e = k
    <3>1. p[e] = b * q[k - 1] /\ p[e - 1] = q[k - 1]
      BY <1>3, <1>4, <2>3
    <3>2. QED
      BY <1>3, <2>3, <3>1
  <2>4. CASE e < k
    <3>1. e \in 0..k - 1 /\ p[e] = q[e] /\ (e # 0 => p[e - 1] = q[e - 1])
      BY <1>4, <2>4
    <3>2. QED
      BY <2>2, <3>1
  <2>5. QED
    BY <2>3, <2>4
<1>7. Powers(p, b, k)
  BY <1>6 DEF Powers
<1>8. QED
  BY <1>2, <1>7

LEMMA PowersType ==
  ASSUME NEW b \in Int, NEW n \in Nat, NEW p, Powers(p, b, n)
  PROVE  \A e \in 0..n : p[e] \in Int
<1> DEFINE Bad == {e \in 0..n : p[e] \notin Int}
<1>1. SUFFICES ASSUME Bad # {} PROVE FALSE
  OBVIOUS
<1>2. PICK e \in Bad : \A i \in Bad : e <= i
  <2>1. Bad \subseteq Nat
    OBVIOUS
  <2>2. QED
    BY <1>1, <2>1, Smallest
<1>3. p[e] = IF e = 0 THEN 1 ELSE b * p[e - 1]
  BY DEF Powers
<1>4. e # 0
  BY <1>2, <1>3
<1>5. e - 1 \in 0..n /\ e - 1 \notin Bad
  BY <1>2, <1>4
<1>6. QED
  BY <1>2, <1>3, <1>4, <1>5

LEMMA PowersAgree ==
  ASSUME NEW b \in Int, NEW n \in Nat, NEW m \in Nat, NEW p, NEW q,
         Powers(p, b, n), Powers(q, b, m)
  PROVE  \A e \in (0..n) \cap (0..m) : p[e] = q[e]
<1> DEFINE Bad == {e \in (0..n) \cap (0..m) : p[e] # q[e]}
<1>1. SUFFICES ASSUME Bad # {} PROVE FALSE
  OBVIOUS
<1>2. PICK e \in Bad : \A i \in Bad : e <= i
  <2>1. Bad \subseteq Nat
    OBVIOUS
  <2>2. QED
    BY <1>1, <2>1, Smallest
<1>3. /\ p[e] = IF e = 0 THEN 1 ELSE b * p[e - 1]
      /\ q[e] = IF e = 0 THEN 1 ELSE b * q[e - 1]
  BY DEF Powers
<1>4. e # 0
  BY <1>2, <1>3
<1>5. e - 1 \in (0..n) \cap (0..m) /\ e - 1 \notin Bad
  BY <1>2, <1>4
<1>6. QED
  BY <1>2, <1>3, <1>4, <1>5

LEMMA PowerIs ==
  ASSUME NEW b \in Int, NEW n \in Nat, NEW p, Powers(p, b, n)
  PROVE  power(b, n) = p[n]
<1> DEFINE q == CHOOSE f : Powers(f, b, n)
<1>1. Powers(q, b, n)
  OBVIOUS
<1>2. power(b, n) = q[n]
  BY DEF power, Powers
<1> HIDE DEF q
<1>3. n \in (0..n) \cap (0..n)
  OBVIOUS
<1>4. QED
  BY <1>1, <1>2, <1>3, PowersAgree

LEMMA PowerZero == \A b \in Int : power(b, 0) = 1
<1>1. ASSUME NEW b \in Int PROVE power(b, 0) = 1
  <2>1. PICK p : Powers(p, b, 0)
    BY PowersExist
  <2>2. p[0] = 1
    BY <2>1 DEF Powers
  <2>3. QED
    BY <2>1, <2>2, PowerIs
<1>2. QED
  BY <1>1

LEMMA PowerStep ==
  ASSUME NEW b \in Int, NEW e \in Nat
  PROVE  power(b, e) \in Int /\ power(b, e + 1) = b * power(b, e)
<1>1. PICK p : Powers(p, b, e + 1)
  BY PowersExist
<1>2. PICK q : Powers(q, b, e)
  BY PowersExist
<1>3. p[e] = q[e]
  <2>1. e \in (0..e + 1) \cap (0..e) /\ e + 1 \in Nat
    OBVIOUS
  <2>2. QED
    BY <1>1, <1>2, <2>1, PowersAgree
<1>4. p[e + 1] = b * p[e]
  <2>1. e + 1 \in 0..e + 1 /\ e + 1 # 0 /\ e + 1 - 1 = e
    OBVIOUS
  <2>2. QED
    BY <1>1, <2>1 DEF Powers
<1>5. power(b, e) = q[e] /\ power(b, e + 1) = p[e + 1]
  <2>1. e + 1 \in Nat
    OBVIOUS
  <2>2. QED
    BY <1>1, <1>2, <2>1, PowerIs
<1>6. q[e] \in Int
  BY <1>2, PowersType
<1>7. QED
  BY <1>3, <1>4, <1>5, <1>6

LEMMA PowerType == \A b \in Int, e \in Nat : power(b, e) \in Int
BY PowerStep

LEMMA PowerOne == \A b \in Int : power(b, 1) = b
<1>1. ASSUME NEW b \in Int PROVE power(b, 1) = b
  <2>1. power(b, 0 + 1) = b * power(b, 0) /\ power(b, 0) = 1
    BY PowerStep, PowerZero
  <2>2. QED
    BY <2>1
<1>2. QED
  BY <1>1

LEMMA PowerAdd ==
  ASSUME NEW b \in Int, NEW e \in Nat, NEW f \in Nat
  PROVE  power(b, e + f) = power(b, e) * power(b, f)
<1> DEFINE Bad == {k \in Nat : power(b, e + k) # power(b, e) * power(b, k)}
<1>1. SUFFICES ASSUME Bad # {} PROVE FALSE
  OBVIOUS
<1>2. PICK k \in Bad : \A j \in Bad : k <= j
  BY <1>1, Smallest
<1>3. k # 0
  <2>1. e + 0 = e /\ power(b, 0) = 1 /\ power(b, e) \in Int
    BY PowerZero, PowerType
  <2>2. power(b, e + 0) = power(b, e) * power(b, 0)
    BY <2>1
  <2>3. QED
    BY <2>2
<1>4. k - 1 \in Nat /\ k - 1 \notin Bad /\ (k - 1) + 1 = k /\ e + (k - 1) \in Nat
      /\ (e + (k - 1)) + 1 = e + k
  BY <1>2, <1>3
<1>5. power(b, e + (k - 1)) = power(b, e) * power(b, k - 1)
  BY <1>4
<1>6. power(b, e + k) = b * power(b, e + (k - 1)) /\ power(b, k) = b * power(b, k - 1)
  BY <1>4, PowerStep
<1>7. power(b, e) \in Int /\ power(b, k - 1) \in Int
  BY <1>4, PowerType
<1>8. power(b, e + k) = power(b, e) * power(b, k)
  BY <1>5, <1>6, <1>7
<1>9. QED
  BY <1>2, <1>8

LEMMA PowerTimes ==
  ASSUME NEW b \in Int, NEW e \in Nat, NEW f \in Nat
  PROVE  power(b, e * f) = power(power(b, e), f)
<1> DEFINE c == power(b, e)
           Bad == {k \in Nat : power(b, e * k) # power(c, k)}
<1>0. c \in Int
  BY PowerType
<1>1. SUFFICES ASSUME Bad # {} PROVE FALSE
  OBVIOUS
<1>2. PICK k \in Bad : \A j \in Bad : k <= j
  BY <1>1, Smallest
<1>3. k # 0
  <2>1. e * 0 = 0 /\ power(b, 0) = 1 /\ power(c, 0) = 1
    BY <1>0, PowerZero
  <2>2. power(b, e * 0) = power(c, 0)
    BY <2>1
  <2>3. QED
    BY <2>2
<1>4. k - 1 \in Nat /\ k - 1 \notin Bad /\ (k - 1) + 1 = k
  BY <1>2, <1>3
<1>5. e * (k - 1) \in Nat /\ e * k = e * (k - 1) + e
  BY <1>4
<1>6. power(b, e * k) = power(b, e * (k - 1)) * c
  BY <1>5, PowerAdd
<1>7. power(c, k) = c * power(c, k - 1) /\ power(c, k - 1) \in Int
  BY <1>0, <1>4, PowerStep
<1>8. power(b, e * (k - 1)) = power(c, k - 1)
  BY <1>4
<1>9. power(b, e * k) = power(c, k)
  BY <1>0, <1>6, <1>7, <1>8
<1>10. QED
  BY <1>2, <1>9

LEMMA PowerProduct ==
  ASSUME NEW a \in Int, NEW b \in Int, NEW e \in Nat
  PROVE  power(a * b, e) = power(a, e) * power(b, e)
<1> DEFINE Bad == {k \in Nat : power(a * b, k) # power(a, k) * power(b, k)}
<1>0. a * b \in Int
  OBVIOUS
<1>1. SUFFICES ASSUME Bad # {} PROVE FALSE
  OBVIOUS
<1>2. PICK k \in Bad : \A j \in Bad : k <= j
  BY <1>1, Smallest
<1>3. k # 0
  <2>1. power(a, 0) = 1 /\ power(b, 0) = 1 /\ power(a * b, 0) = 1
    BY <1>0, PowerZero
  <2>2. QED
    BY <2>1
<1>4. k - 1 \in Nat /\ k - 1 \notin Bad /\ (k - 1) + 1 = k
  BY <1>2, <1>3
<1>5. /\ power(a * b, k) = (a * b) * power(a * b, k - 1)
      /\ power(a, k) = a * power(a, k - 1) /\ power(b, k) = b * power(b, k - 1)
      /\ power(a, k - 1) \in Int /\ power(b, k - 1) \in Int
  BY <1>0, <1>4, PowerStep
<1>6. power(a * b, k - 1) = power(a, k - 1) * power(b, k - 1)
  BY <1>4
<1> DEFINE x == power(a, k - 1)
           y == power(b, k - 1)
<1>7. power(a * b, k) = (a * b) * (x * y) /\ x \in Int /\ y \in Int
      /\ power(a, k) = a * x /\ power(b, k) = b * y
  BY <1>5, <1>6
<1> HIDE DEF x, y
<1>8. (a * b) * (x * y) = (a * x) * (b * y)
  BY <1>7
<1>9. QED
  BY <1>2, <1>7, <1>8

LEMMA PowerCong ==
  ASSUME NEW a \in Int, NEW b \in Int, NEW m \in Int, NEW e \in Nat, Cong(a, b, m)
  PROVE  Cong(power(a, e), power(b, e), m)
<1> DEFINE Bad == {k \in Nat : ~Cong(power(a, k), power(b, k), m)}
<1>1. SUFFICES ASSUME Bad # {} PROVE FALSE
  OBVIOUS
<1>2. PICK k \in Bad : \A j \in Bad : k <= j
  BY <1>1, Smallest
<1>3. k # 0
  BY PowerZero, CongRefl
<1>4. k - 1 \in Nat /\ k - 1 \notin Bad /\ (k - 1) + 1 = k
  BY <1>2, <1>3
<1>5. /\ power(a, k) = a * power(a, k - 1) /\ power(b, k) = b * power(b, k - 1)
      /\ power(a, k - 1) \in Int /\ power(b, k - 1) \in Int
  BY <1>4, PowerStep
<1>6. Cong(power(a, k - 1), power(b, k - 1), m)
  BY <1>4
<1>7. Cong(power(a, k), power(b, k), m)
  BY <1>5, <1>6, CongMul
<1>8. QED
  BY <1>2, <1>7

LEMMA OneToThe == \A e \in Nat : power(1, e) = 1
<1> DEFINE Bad == {k \in Nat : power(1, k) # 1}
<1>1. SUFFICES ASSUME Bad # {} PROVE FALSE
  OBVIOUS
<1>2. PICK k \in Bad : \A j \in Bad : k <= j
  BY <1>1, Smallest
<1>3. k # 0
  BY PowerZero
<1>4. k - 1 \in Nat /\ k - 1 \notin Bad /\ (k - 1) + 1 = k
  BY <1>2, <1>3
<1>5. power(1, k) = 1 * power(1, k - 1)
  BY <1>4, PowerStep
<1>6. QED
  BY <1>2, <1>4, <1>5

LEMMA PowerPositive ==
  ASSUME NEW b \in Pos, NEW e \in Nat
  PROVE  power(b, e) \in Pos
<1> DEFINE Bad == {k \in Nat : power(b, k) \notin Pos}
<1>0. b \in Int /\ b > 0
  BY DEF Pos
<1>1. SUFFICES ASSUME Bad # {} PROVE FALSE
  OBVIOUS
<1>2. PICK k \in Bad : \A j \in Bad : k <= j
  BY <1>1, Smallest
<1>3. k # 0
  BY <1>0, PowerZero DEF Pos
<1>4. k - 1 \in Nat /\ k - 1 \notin Bad /\ (k - 1) + 1 = k
  BY <1>2, <1>3
<1>5. power(b, k) = b * power(b, k - 1)
  BY <1>0, <1>4, PowerStep
<1>6. power(b, k) \in Pos
  BY <1>0, <1>4, <1>5 DEF Pos
<1>7. QED
  BY <1>2, <1>6

LEMMA ModSmall ==
  ASSUME NEW m \in Pos, NEW a \in 0..m - 1
  PROVE  a % m = a
<1>1. m \in Int /\ a \in Nat /\ a < m /\ 0 \in Int
  BY DEF Pos
<1>2. a = 0 * m + a
  BY <1>1
<1>3. QED
  BY <1>1, <1>2, DivUnique

LEMMA ModMul ==
  ASSUME NEW a \in Int, NEW b \in Int, NEW m \in Pos
  PROVE  ((a % m) * (b % m)) % m = (a * b) % m
<1> DEFINE x == ((a % m) * (b % m)) % m
<1>1. x \in 0..m - 1 /\ a * b \in Int
  <2>1. (a % m) * (b % m) \in Int
    BY DivMod
  <2>2. QED
    BY <2>1, DivMod DEF Pos
<1>2. Cong(x, a * b, m)
  BY CongMods
<1> HIDE DEF x
<1>3. x \in Int
  BY <1>1
<1>4. x % m = (a * b) % m
  BY <1>1, <1>2, <1>3, CongIffMod
<1>5. x % m = x
  BY <1>1, ModSmall
<1>6. QED
  BY <1>4, <1>5 DEF x

-----------------------------------------------------------------------------
\* powmod.

Squares(p, b, n, m) ==
  p = [e \in 0..n |->
         IF e = 0 THEN 1 % m
         ELSE LET half == p[e \div 2]
                  square == (half * half) % m
              IN  IF e % 2 = 1 THEN (square * (b % m)) % m ELSE square]

LEMMA Halves ==
  ASSUME NEW e \in Pos
  PROVE  /\ e \div 2 \in 0..e - 1 /\ e % 2 \in {0, 1}
         /\ e = (e \div 2) + (e \div 2) + (e % 2)
<1>1. e \in Int /\ e > 0 /\ 2 \in Pos
  BY DEF Pos
<1>2. e % 2 \in Nat /\ e % 2 < 2 /\ e \div 2 \in Int /\ e = (e \div 2) * 2 + (e % 2)
  BY <1>1, DivMod
<1>3. QED
  BY <1>1, <1>2

\* One squaring, and one multiplication when the exponent is odd.
LEMMA SquareStep ==
  ASSUME NEW b \in Int, NEW m \in Pos, NEW e \in Pos
  PROVE  LET half == power(b, e \div 2) % m
             square == (half * half) % m
         IN  power(b, e) % m = IF e % 2 = 1 THEN (square * (b % m)) % m ELSE square
<1> DEFINE h == e \div 2
           x == power(b, h)
           s == ((x % m) * (x % m)) % m
<1>1. h \in Nat /\ e % 2 \in {0, 1} /\ e = h + h + (e % 2)
  BY Halves
<1> HIDE DEF h
<1>2. x \in Int /\ x * x \in Int /\ power(b, h + h) = x * x /\ h + h \in Nat
  <2>1. x \in Int /\ h + h \in Nat
    BY <1>1, PowerType
  <2>2. power(b, h + h) = x * x
    BY <1>1, PowerAdd
  <2>3. QED
    BY <2>1, <2>2
<1>3. s = power(b, h + h) % m
  BY <1>2, ModMul
<1>4. CASE e % 2 = 1
  <2>1. power(b, e) = b * power(b, h + h) /\ power(b, h + h) \in Int
    BY <1>1, <1>2, <1>4, PowerStep
  <2>2. power(b, e) = power(b, h + h) * b
    BY <2>1
  <2>3. power(b, e) % m = (s * (b % m)) % m
    BY <1>3, <2>1, <2>2, ModMul
  <2>4. QED
    BY <1>4, <2>3 DEF h
<1>5. CASE e % 2 # 1
  <2>1. e = h + h
    BY <1>1, <1>5
  <2>2. power(b, e) % m = s
    BY <1>3, <2>1
  <2>3. QED
    BY <1>5, <2>2 DEF h
<1>6. QED
  BY <1>4, <1>5

LEMMA SquaresExist ==
  ASSUME NEW b \in Int, NEW m \in Pos, NEW n \in Nat
  PROVE  Squares([e \in 0..n |-> power(b, e) % m], b, n, m)
<1> DEFINE p == [e \in 0..n |-> power(b, e) % m]
<1>1. ASSUME NEW e \in 0..n
      PROVE  p[e] = IF e = 0 THEN 1 % m
                    ELSE LET half == p[e \div 2]
                             square == (half * half) % m
                         IN  IF e % 2 = 1 THEN (square * (b % m)) % m ELSE square
  <2>1. CASE e = 0
    BY <2>1, PowerZero
  <2>2. CASE e # 0
    <3>1. e \in Pos
      BY <2>2 DEF Pos
    <3>2. e \div 2 \in 0..n
      BY <3>1, Halves
    <3>3. p[e \div 2] = power(b, e \div 2) % m /\ p[e] = power(b, e) % m
      BY <3>2
    <3>4. QED
      BY <2>2, <3>1, <3>3, SquareStep
  <2>3. QED
    BY <2>1, <2>2
<1>2. QED
  BY <1>1 DEF Squares

LEMMA SquaresAre ==
  ASSUME NEW b \in Int, NEW m \in Pos, NEW n \in Nat, NEW p, Squares(p, b, n, m)
  PROVE  \A e \in 0..n : p[e] = power(b, e) % m
<1> DEFINE Bad == {e \in 0..n : p[e] # power(b, e) % m}
<1>1. SUFFICES ASSUME Bad # {} PROVE FALSE
  OBVIOUS
<1>2. PICK e \in Bad : \A i \in Bad : e <= i
  <2>1. Bad \subseteq Nat
    OBVIOUS
  <2>2. QED
    BY <1>1, <2>1, Smallest
<1>3. p[e] = IF e = 0 THEN 1 % m
             ELSE LET half == p[e \div 2]
                      square == (half * half) % m
                  IN  IF e % 2 = 1 THEN (square * (b % m)) % m ELSE square
  BY DEF Squares
<1>4. e # 0
  BY <1>2, <1>3, PowerZero
<1>5. e \in Pos
  BY <1>4 DEF Pos
<1>6. e \div 2 \in 0..n /\ e \div 2 \notin Bad
  <2>1. e \div 2 \in 0..e - 1
    BY <1>5, Halves
  <2>2. QED
    BY <1>2, <2>1
<1>7. p[e \div 2] = power(b, e \div 2) % m
  BY <1>6
<1>8. p[e] = power(b, e) % m
  BY <1>3, <1>4, <1>5, <1>7, SquareStep
<1>9. QED
  BY <1>2, <1>8

LEMMA PowmodIs ==
  ASSUME NEW b \in Int, NEW m \in Pos, NEW n \in Nat
  PROVE  powmod(b, n, m) = power(b, n) % m
<1> DEFINE q == CHOOSE f : Squares(f, b, n, m)
<1>1. Squares(q, b, n, m)
  BY SquaresExist
<1>2. powmod(b, n, m) = q[n]
  BY DEF powmod, Squares
<1> HIDE DEF q
<1>3. n \in 0..n
  OBVIOUS
<1>4. QED
  BY <1>1, <1>2, <1>3, SquaresAre

-----------------------------------------------------------------------------
\* Powers of a sum, up to the square of one of the two.

\* (1 + x)^e is 1 + e x modulo x^2.
LEMMA PowerOfOnePlus ==
  ASSUME NEW x \in Int, NEW e \in Nat
  PROVE  Cong(power(1 + x, e), 1 + e * x, x * x)
<1> DEFINE Bad == {k \in Nat : ~Cong(power(1 + x, k), 1 + k * x, x * x)}
<1>0. 1 + x \in Int /\ x * x \in Int
  OBVIOUS
<1>1. SUFFICES ASSUME Bad # {} PROVE FALSE
  OBVIOUS
<1>2. PICK k \in Bad : \A j \in Bad : k <= j
  BY <1>1, Smallest
<1>3. k # 0
  <2>1. power(1 + x, 0) = 1 /\ 1 + 0 * x = 1
    BY <1>0, PowerZero
  <2>2. Cong(1, 1, x * x)
    BY <1>0, CongRefl
  <2>3. Cong(power(1 + x, 0), 1 + 0 * x, x * x)
    BY <2>1, <2>2
  <2>4. QED
    BY <2>3
<1>4. k - 1 \in Nat /\ k - 1 \notin Bad /\ (k - 1) + 1 = k
  BY <1>2, <1>3
<1>5. Cong(power(1 + x, k - 1), 1 + (k - 1) * x, x * x)
  BY <1>4
<1>6. PICK j \in Int : power(1 + x, k - 1) = (1 + (k - 1) * x) + j * (x * x)
  BY <1>5 DEF Cong
<1>7. power(1 + x, k) = (1 + x) * power(1 + x, k - 1)
  BY <1>0, <1>4, PowerStep
<1>8. power(1 + x, k) = (1 + k * x) + ((k - 1) + j + j * x) * (x * x)
  BY <1>4, <1>6, <1>7
<1>9. (k - 1) + j + j * x \in Int
  BY <1>4
<1>10. QED
  BY <1>2, <1>8, <1>9 DEF Cong

\* (a + x)^(e + 1) is a^(e + 1) + (e + 1) a^e x modulo x^2.
LEMMA PowerOfSum ==
  ASSUME NEW a \in Int, NEW x \in Int, NEW e \in Nat
  PROVE  Cong(power(a + x, e + 1), power(a, e + 1) + (e + 1) * power(a, e) * x, x * x)
<1> DEFINE Good(k) == Cong(power(a + x, k + 1),
                           power(a, k + 1) + (k + 1) * power(a, k) * x, x * x)
           Bad == {k \in Nat : ~Good(k)}
<1>0. a + x \in Int /\ x * x \in Int
  OBVIOUS
<1>1. SUFFICES ASSUME Bad # {} PROVE FALSE
  OBVIOUS
<1>2. PICK k \in Bad : \A j \in Bad : k <= j
  BY <1>1, Smallest
<1>3. k # 0
  <2>1. /\ power(a + x, 0 + 1) = a + x /\ power(a, 0 + 1) = a /\ power(a, 0) = 1
    BY <1>0, PowerZero, PowerOne
  <2>2. power(a + x, 0 + 1) = power(a, 0 + 1) + (0 + 1) * power(a, 0) * x
    BY <2>1
  <2>3. Cong(power(a + x, 0 + 1), power(a + x, 0 + 1), x * x)
    BY <1>0, <2>1, CongRefl
  <2>4. Good(0)
    BY <2>2, <2>3
  <2>5. QED
    BY <2>4
<1>4. k - 1 \in Nat /\ k - 1 \notin Bad /\ (k - 1) + 1 = k
  BY <1>2, <1>3
<1>5. Cong(power(a + x, k), power(a, k) + k * power(a, k - 1) * x, x * x)
  BY <1>4
<1> DEFINE y == power(a, k - 1)
<1>6. /\ power(a + x, k + 1) = (a + x) * power(a + x, k)
      /\ power(a, k + 1) = a * power(a, k) /\ power(a, k) = a * y /\ y \in Int
      /\ power(a, k) \in Int /\ power(a + x, k) \in Int
  BY <1>0, <1>4, PowerStep
<1> HIDE DEF y
<1>7. PICK j \in Int : power(a + x, k) = (power(a, k) + k * y * x) + j * (x * x)
  BY <1>5 DEF Cong, y
<1>8. power(a + x, k + 1)
        = (a + x) * ((a * y + k * y * x) + j * (x * x))
  BY <1>6, <1>7
<1>9. (a + x) * ((a * y + k * y * x) + j * (x * x))
        = (a * (a * y) + (k + 1) * (a * y) * x) + (k * y + a * j + j * x) * (x * x)
  BY <1>4, <1>6
<1>10. k * y + a * j + j * x \in Int
  BY <1>4, <1>6
<1>11. Good(k)
  BY <1>6, <1>8, <1>9, <1>10 DEF Cong
<1>12. QED
  BY <1>2, <1>11

\* The n-th power of a number modulo n^2 depends on the number modulo n only.
LEMMA NthPower ==
  ASSUME NEW a \in Int, NEW b \in Int, NEW n \in Pos, Cong(a, b, n)
  PROVE  Cong(power(a, n), power(b, n), n * n)
<1>1. PICK k \in Int : a = b + k * n
  BY DEF Cong
<1> DEFINE x == k * n
           c == power(b, n - 1)
<1>2. n - 1 \in Nat /\ (n - 1) + 1 = n /\ x \in Int /\ n \in Int
  BY DEF Pos
<1>3. power(a, n) \in Int /\ power(b, n) \in Int /\ c \in Int
  BY <1>2, PowerType
<1>4. Cong(power(b + x, n), power(b, n) + n * c * x, x * x)
  <2>1. Cong(power(b + x, (n - 1) + 1),
             power(b, (n - 1) + 1) + ((n - 1) + 1) * power(b, n - 1) * x, x * x)
    BY ONLY <1>2, b \in Int, PowerOfSum
  <2>2. QED
    BY <1>2, <2>1
<1>5. PICK j \in Int : power(b + x, n) = (power(b, n) + n * c * x) + j * (x * x)
  BY <1>4 DEF Cong
<1> HIDE DEF c
<1>6. (power(b, n) + n * c * (k * n)) + j * ((k * n) * (k * n))
        = power(b, n) + (c * k + j * k * k) * (n * n)
  BY <1>2, <1>3
<1>7. power(a, n) = power(b, n) + (c * k + j * k * k) * (n * n)
  BY <1>1, <1>5, <1>6
<1>8. c * k + j * k * k \in Int
  BY <1>3
<1>9. QED
  BY <1>7, <1>8 DEF Cong

-----------------------------------------------------------------------------
\* pgcd and modinv.

Divides(d, a) == \E k \in Int : a = k * d

\* A number with an inverse modulo m.
Unit(a, m) == \E u \in Int : Cong(u * a, 1, m)

Gcds(g, n) ==
  g = [s \in Nat \X (0..n) |-> IF s[2] = 0 THEN s[1] ELSE g[<<s[2], s[1] % s[2]>>]]

LEMMA GcdsStep ==
  ASSUME NEW n \in Nat, NEW g, Gcds(g, n), NEW x \in Nat, NEW y \in 0..n
  PROVE  g[<<x, y>>] = IF y = 0 THEN x ELSE g[<<y, x % y>>]
<1>1. <<x, y>> \in Nat \X (0..n)
  OBVIOUS
<1>2. QED
  BY <1>1 DEF Gcds

LEMMA GcdsExist == \A n \in Nat : \E g : Gcds(g, n)
<1> DEFINE Bad == {k \in Nat : ~ \E g : Gcds(g, k)}
<1>1. SUFFICES ASSUME Bad # {} PROVE FALSE
  OBVIOUS
<1>2. PICK k \in Bad : \A j \in Bad : k <= j
  BY <1>1, Smallest
<1>3. k # 0
  <2> DEFINE g == [s \in Nat \X (0..0) |-> s[1]]
  <2>1. ASSUME NEW s \in Nat \X (0..0)
        PROVE  g[s] = IF s[2] = 0 THEN s[1] ELSE g[<<s[2], s[1] % s[2]>>]
    OBVIOUS
  <2>2. Gcds(g, 0)
    BY <2>1 DEF Gcds
  <2>3. QED
    BY <2>2
<1>4. k - 1 \in Nat /\ k - 1 \notin Bad
  BY <1>2, <1>3
<1>5. PICK h : Gcds(h, k - 1)
  BY <1>4
<1> DEFINE S == Nat \X (0..k)
           g == [s \in S |-> IF s[2] < k THEN h[s] ELSE h[<<k, s[1] % k>>]]
<1>6. ASSUME NEW s \in S
      PROVE  g[s] = IF s[2] = 0 THEN s[1] ELSE g[<<s[2], s[1] % s[2]>>]
  <2>1. PICK x \in Nat, y \in 0..k : s = <<x, y>>
    OBVIOUS
  <2>2. s[1] = x /\ s[2] = y
    BY <2>1
  <2>3. CASE y = 0
    <3>1. y \in 0..k - 1 /\ y < k
      BY <1>3, <1>4, <2>3
    <3>2. h[<<x, y>>] = x
      <4>1. h[<<x, y>>] = IF y = 0 THEN x ELSE h[<<y, x % y>>]
        BY <1>4, <1>5, <3>1, GcdsStep
      <4>2. QED
        BY <2>3, <4>1
    <3>3. QED
      BY <2>1, <2>2, <2>3, <3>1, <3>2
  <2>4. CASE y # 0
    <3>1. y \in Pos /\ y \in Nat /\ x % y \in Nat /\ x % y < y
      BY <2>4, DivMod DEF Pos
    <3>2. x % y \in 0..k /\ x % y < k /\ <<y, x % y>> \in S
      BY <3>1
    <3>3. g[<<y, x % y>>] = h[<<y, x % y>>]
      BY <3>2
    <3>4. CASE y < k
      <4>1. y \in 0..k - 1
        BY <1>4, <3>4
      <4>2. h[<<x, y>>] = h[<<y, x % y>>]
        BY <1>4, <1>5, <2>4, <4>1, GcdsStep
      <4>3. QED
        BY <2>1, <2>2, <2>4, <3>3, <3>4, <4>2
    <3>5. CASE y = k
      BY <2>1, <2>2, <2>4, <3>3, <3>5
    <3>6. QED
      BY <3>4, <3>5
  <2>5. QED
    BY <2>3, <2>4
<1>7. g = [s \in S |-> IF s[2] = 0 THEN s[1] ELSE g[<<s[2], s[1] % s[2]>>]]
  BY <1>6
<1> HIDE DEF g
<1>8. QED
  BY <1>2, <1>7 DEF Gcds

LEMMA DividesMod ==
  ASSUME NEW x \in Nat, NEW y \in Pos, NEW d \in Int, Divides(d, y)
  PROVE  Divides(d, x) <=> Divides(d, x % y)
<1>1. PICK k \in Int : y = k * d
  BY DEF Divides
<1> DEFINE q == x \div y
           r == x % y
<1>2. q \in Int /\ r \in Int /\ x = q * y + r
  BY DivMod
<1> HIDE DEF q, r
<1>3. ASSUME Divides(d, x) PROVE Divides(d, r)
  <2>1. PICK l \in Int : x = l * d
    BY <1>3 DEF Divides
  <2>2. r = (l - q * k) * d
    BY <1>1, <1>2, <2>1
  <2>3. l - q * k \in Int
    BY <1>2
  <2>4. QED
    BY <2>2, <2>3 DEF Divides
<1>4. ASSUME Divides(d, r) PROVE Divides(d, x)
  <2>1. PICK l \in Int : r = l * d
    BY <1>4 DEF Divides
  <2>2. x = (q * k + l) * d
    BY <1>1, <1>2, <2>1
  <2>3. q * k + l \in Int
    BY <1>2
  <2>4. QED
    BY <2>2, <2>3 DEF Divides
<1>5. QED
  BY <1>3, <1>4 DEF r

\* A common divisor that every other divides.
IsGcd(g, x, y) ==
  /\ g \in Nat /\ Divides(g, x) /\ Divides(g, y)
  /\ \A d \in Int : Divides(d, x) /\ Divides(d, y) => Divides(d, g)

LEMMA GcdsAre ==
  ASSUME NEW n \in Nat, NEW g, Gcds(g, n)
  PROVE  \A x \in Nat, y \in 0..n : IsGcd(g[<<x, y>>], x, y)
<1> DEFINE Bad == {y \in 0..n : \E x \in Nat : ~IsGcd(g[<<x, y>>], x, y)}
<1>1. SUFFICES ASSUME Bad # {} PROVE FALSE
  OBVIOUS
<1>2. PICK y \in Bad : \A i \in Bad : y <= i
  <2>1. Bad \subseteq Nat
    OBVIOUS
  <2>2. QED
    BY <1>1, <2>1, Smallest
<1>3. PICK x \in Nat : ~IsGcd(g[<<x, y>>], x, y)
  BY <1>2
<1>4. g[<<x, y>>] = IF y = 0 THEN x ELSE g[<<y, x % y>>]
  BY GcdsStep
<1>5. CASE y = 0
  <2>1. g[<<x, y>>] = x /\ x = 1 * x /\ y = 0 * x
    BY <1>4, <1>5
  <2>2. Divides(x, x) /\ Divides(x, y)
    BY <2>1 DEF Divides
  <2>3. QED
    BY <1>3, <2>1, <2>2 DEF IsGcd
<1>6. CASE y # 0
  <2>1. y \in Pos /\ x % y \in Nat /\ x % y < y
    BY <1>6, DivMod DEF Pos
  <2>2. x % y \in 0..n /\ x % y \notin Bad
    BY <1>2, <2>1
  <2>3. IsGcd(g[<<y, x % y>>], y, x % y)
    BY <2>1, <2>2
  <2>4. \A d \in Int : Divides(d, y) => (Divides(d, x) <=> Divides(d, x % y))
    BY <2>1, DividesMod
  <2>5. QED
    BY <1>3, <1>4, <1>6, <2>3, <2>4 DEF IsGcd
<1>7. QED
  BY <1>5, <1>6

LEMMA PgcdIs ==
  ASSUME NEW a \in Nat, NEW b \in Nat
  PROVE  \E g : Gcds(g, b) /\ pgcd(a, b) = g[<<a, b>>]
<1> DEFINE g == CHOOSE f : Gcds(f, b)
<1>1. Gcds(g, b)
  BY GcdsExist
<1>2. pgcd(a, b) = g[<<a, b>>]
  BY DEF pgcd, Gcds
<1>3. QED
  BY <1>1, <1>2

LEMMA PgcdIsGcd ==
  ASSUME NEW a \in Nat, NEW b \in Nat
  PROVE  IsGcd(pgcd(a, b), a, b)
<1>1. PICK g : Gcds(g, b) /\ pgcd(a, b) = g[<<a, b>>]
  BY PgcdIs
<1>2. b \in 0..b
  OBVIOUS
<1>3. QED
  BY <1>1, <1>2, GcdsAre

Bezouts(u, n) ==
  u = [s \in Int \X Nat \X Int \X (0..n) |->
         IF s[4] = 0 THEN s[1]
         ELSE LET q == s[2] \div s[4]
              IN  u[<<s[3], s[4], s[1] - q * s[3], s[2] - q * s[4]>>]]

LEMMA BezoutsStep ==
  ASSUME NEW n \in Nat, NEW u, Bezouts(u, n),
         NEW a \in Int, NEW x \in Nat, NEW b \in Int, NEW y \in 0..n
  PROVE  u[<<a, x, b, y>>] =
           IF y = 0 THEN a ELSE u[<<b, y, a - (x \div y) * b, x % y>>]
<1>1. <<a, x, b, y>> \in Int \X Nat \X Int \X (0..n)
  OBVIOUS
<1>2. u[<<a, x, b, y>>] =
        IF y = 0 THEN a
        ELSE u[<<b, y, a - (x \div y) * b, x - (x \div y) * y>>]
  BY <1>1 DEF Bezouts
<1>3. CASE y = 0
  BY <1>2, <1>3
<1>4. CASE y # 0
  <2>1. y \in Pos
    BY <1>4 DEF Pos
  <2>2. x % y \in Int /\ x \div y \in Int /\ x = (x \div y) * y + (x % y)
    BY <2>1, DivMod
  <2>3. (x \div y) * y \in Int /\ x - (x \div y) * y = x % y
    BY <2>2
  <2>4. QED
    BY <1>2, <1>4, <2>3
<1>5. QED
  BY <1>3, <1>4

LEMMA BezoutsExist == \A n \in Nat : \E u : Bezouts(u, n)
<1> DEFINE Bad == {k \in Nat : ~ \E u : Bezouts(u, k)}
<1>1. SUFFICES ASSUME Bad # {} PROVE FALSE
  OBVIOUS
<1>2. PICK k \in Bad : \A j \in Bad : k <= j
  BY <1>1, Smallest
<1> DEFINE Next(s, q) == <<s[3], s[4], s[1] - q * s[3], s[2] - q * s[4]>>
           D(n) == Int \X Nat \X Int \X (0..n)
<1>3. k # 0
  <2> DEFINE u == [s \in D(0) |-> s[1]]
  <2>1. ASSUME NEW s \in D(0)
        PROVE  u[s] = IF s[4] = 0 THEN s[1] ELSE u[Next(s, s[2] \div s[4])]
    <3>1. s[4] = 0
      OBVIOUS
    <3>2. QED
      BY <3>1
  <2>2. Bezouts(u, 0)
    BY <2>1 DEF Bezouts
  <2>3. QED
    BY <2>2
<1>4. PICK j \in Nat : k = j + 1 /\ j \notin Bad
  <2>1. k - 1 \in Nat /\ k - 1 \notin Bad
    BY <1>2, <1>3
  <2>2. QED
    BY <2>1
<1>5. PICK h : Bezouts(h, j)
  BY <1>4
<1> DEFINE u == [s \in D(k) |-> IF s[4] < k THEN h[s]
                               ELSE h[Next(s, s[2] \div k)]]
<1>6. ASSUME NEW s \in D(k)
      PROVE  u[s] = IF s[4] = 0 THEN s[1] ELSE u[Next(s, s[2] \div s[4])]
  <2>1. PICK a \in Int, x \in Nat, b \in Int, y \in 0..k : s = <<a, x, b, y>>
    OBVIOUS
  <2>2. s[1] = a /\ s[2] = x /\ s[3] = b /\ s[4] = y
    BY <2>1
  <2> DEFINE step(f) == IF y = 0 THEN a ELSE f[<<b, y, a - (x \div y) * b, x % y>>]
  <2>2a. ASSUME y < k PROVE h[<<a, x, b, y>>] = step(h)
    <3>1. y \in 0..j
      BY <1>4, <2>2a
    <3>2. QED
      BY ONLY <1>4, <1>5, <3>1, a \in Int, x \in Nat, b \in Int, BezoutsStep
  <2>3. CASE y = 0
    <3>1. y \in 0..j /\ y < k
      BY <1>3, <1>4, <2>3
    <3>2. h[<<a, x, b, y>>] = a
      BY ONLY <2>2a, <2>3, <3>1
    <3>3. QED
      BY <2>1, <2>2, <2>3, <3>1, <3>2
  <2>4. CASE y # 0
    <3> DEFINE q == x \div y
               t == <<b, y, a - q * b, x % y>>
    <3>1. /\ y \in Pos /\ y \in Nat /\ x % y \in Nat /\ x % y < y /\ q \in Int
          /\ x = q * y + (x % y)
      BY <2>4, DivMod DEF Pos
    <3>2. x - q * y = x % y
      <4>1. q * y \in Int
        BY <3>1
      <4>2. QED
        BY <3>1, <4>1
    <3>3. Next(s, q) = t
      BY <2>2, <3>2
    <3>4. a - q * b \in Int /\ x % y \in 0..k /\ x % y < k
      BY <3>1
    <3>5. t \in D(k) /\ t[4] < k
      BY <3>1, <3>4
    <3>6. u[t] = h[t]
      BY <3>5
    <3>7. CASE y < k
      <4>1. h[<<a, x, b, y>>] = h[t]
        BY ONLY <2>2a, <2>4, <3>7
      <4>2. u[s] = h[s]
        BY <2>2, <3>7
      <4>3. QED
        BY <2>1, <2>2, <2>4, <3>3, <3>6, <4>1, <4>2
    <3>8. CASE y = k
      <4>1. u[s] = h[Next(s, x \div k)]
        <5>1. ~(s[4] < k)
          BY <1>2, <2>2, <3>8
        <5>2. u[s] = h[Next(s, s[2] \div k)]
          BY <5>1
        <5>3. QED
          BY <2>2, <5>2
      <4>2. QED
        BY <2>2, <2>4, <3>3, <3>6, <3>8, <4>1
    <3>9. QED
      BY <3>7, <3>8
  <2>5. QED
    BY <2>3, <2>4
<1>7. u = [s \in D(k) |-> IF s[4] = 0 THEN s[1] ELSE u[Next(s, s[2] \div s[4])]]
  BY <1>6
<1> HIDE DEF u
<1>8. QED
  BY <1>2, <1>7 DEF Bezouts

LEMMA CongScale ==
  ASSUME NEW a \in Int, NEW b \in Int, NEW c \in Int, NEW m \in Int, Cong(a, b, m)
  PROVE  Cong(c * a, c * b, m)
<1>1. PICK k \in Int : a = b + k * m
  BY DEF Cong
<1>2. c * a = c * b + (c * k) * m /\ c * k \in Int
  BY <1>1
<1>3. QED
  BY <1>2 DEF Cong

\* Each pass of the loop keeps u1 a and v1 a congruent to u3 and v3.
LEMMA BezoutsAre ==
  ASSUME NEW n \in Nat, NEW u, Bezouts(u, n), NEW g, Gcds(g, n),
         NEW c \in Int, NEW m \in Int
  PROVE  \A a, b \in Int, x \in Nat, y \in 0..n :
           Cong(a * c, x, m) /\ Cong(b * c, y, m) =>
             u[<<a, x, b, y>>] \in Int /\ Cong(u[<<a, x, b, y>>] * c, g[<<x, y>>], m)
<1> DEFINE Good(a, b, x, y) ==
             u[<<a, x, b, y>>] \in Int /\ Cong(u[<<a, x, b, y>>] * c, g[<<x, y>>], m)
           Bad == {y \in 0..n : \E a, b \in Int, x \in Nat :
                     Cong(a * c, x, m) /\ Cong(b * c, y, m) /\ ~Good(a, b, x, y)}
<1>1. SUFFICES ASSUME Bad # {} PROVE FALSE
  OBVIOUS
<1>2. PICK y \in Bad : \A i \in Bad : y <= i
  <2>1. Bad \subseteq Nat
    OBVIOUS
  <2>2. QED
    BY <1>1, <2>1, Smallest
<1>2a. y \in 0..n /\ y \in Nat
  BY <1>2
<1>3. PICK a \in Int, b \in Int, x \in Nat :
        Cong(a * c, x, m) /\ Cong(b * c, y, m) /\ ~Good(a, b, x, y)
  BY <1>2
<1>4. CASE y = 0
  <2>1. u[<<a, x, b, y>>] = a
    <3>1. u[<<a, x, b, y>>] =
            IF y = 0 THEN a ELSE u[<<b, y, a - (x \div y) * b, x % y>>]
      BY <1>2a, <1>3, BezoutsStep
    <3>2. QED
      BY <1>4, <3>1
  <2>2. g[<<x, y>>] = x
    <3>1. g[<<x, y>>] = IF y = 0 THEN x ELSE g[<<y, x % y>>]
      BY <1>2a, <1>3, GcdsStep
    <3>2. QED
      BY <1>4, <3>1
  <2>3. QED
    BY <1>3, <2>1, <2>2
<1>5. CASE y # 0
  <2> DEFINE q == x \div y
             r == x % y
             d == a - q * b
  <2>1. y \in Pos /\ y \in Nat /\ r \in Nat /\ r < y /\ q \in Int /\ x = q * y + r
    <3>1. y \in Pos /\ y \in Nat /\ x \in Int
      BY <1>2a, <1>3, <1>5 DEF Pos
    <3>2. QED
      BY <3>1, DivMod
  <2>2. g[<<x, y>>] = g[<<y, r>>]
    BY <1>2a, <1>3, <1>5, GcdsStep
  <2>3. u[<<a, x, b, y>>] = u[<<b, y, d, r>>]
    <3>1. u[<<a, x, b, y>>] = IF y = 0 THEN a ELSE u[<<b, y, d, r>>]
      BY <1>2a, <1>3, BezoutsStep
    <3>2. QED
      BY <1>5, <3>1
  <2> HIDE DEF q, r
  <2>4. d \in Int /\ r \in 0..n /\ r \notin Bad
    <3>1. r \in 0..n /\ ~(y <= r)
      BY <1>2, <2>1
    <3>2. r \notin Bad
      BY <1>2, <3>1
    <3>3. d \in Int
      BY <1>3, <2>1
    <3>4. QED
      BY <3>1, <3>2, <3>3
  <2>5. Cong(d * c, r, m)
    <3>1. PICK k \in Int : a * c = x + k * m
      BY <1>3 DEF Cong
    <3>2. PICK l \in Int : b * c = y + l * m
      BY <1>3 DEF Cong
    <3>3. d * c = a * c - q * (b * c)
      BY <2>1
    <3>4. d * c = r + (k - q * l) * m
      BY <2>1, <3>1, <3>2, <3>3
    <3>5. k - q * l \in Int
      BY <2>1
    <3>6. QED
      BY <3>4, <3>5 DEF Cong
  <2>6. Good(b, d, y, r)
    BY <1>3, <2>1, <2>4, <2>5
  <2>7. QED
    BY <1>3, <2>2, <2>3, <2>6
<1>6. QED
  BY <1>4, <1>5

LEMMA ModinvIs ==
  ASSUME NEW a \in Nat, NEW m \in Pos, pgcd(a, m) = 1
  PROVE  modinv(a, m) \in 0..m - 1 /\ Cong(modinv(a, m) * a, 1, m)
<1>0. m \in Nat /\ m \in Int /\ m \in 0..m
  BY DEF Pos
<1>1. PICK g : Gcds(g, m) /\ pgcd(a, m) = g[<<a, m>>]
  BY <1>0, PgcdIs
<1> DEFINE u == CHOOSE f : Bezouts(f, m)
<1>2. Bezouts(u, m)
  BY <1>0, BezoutsExist
<1>3. bezout(a, m) = u[<<1, a, 0, m>>]
  BY DEF bezout, Bezouts
<1> HIDE DEF u
<1>4. Cong(1 * a, a, m) /\ Cong(0 * a, m, m)
  <2>1. 1 * a = a /\ 0 * a = m + (-1) * m
    BY <1>0
  <2>2. QED
    BY <1>0, <2>1, CongRefl DEF Cong
<1> DEFINE b == bezout(a, m)
<1>5. b \in Int /\ Cong(b * a, 1, m)
  BY <1>0, <1>1, <1>2, <1>3, <1>4, BezoutsAre
<1> HIDE DEF b
<1>6. b % m \in 0..m - 1
  BY <1>0, <1>5, DivMod
<1>7. Cong((b % m) * a, 1, m)
  <2>1. Cong(b % m, b, m) /\ b % m \in Int /\ Cong(a, a, m) /\ a \in Int
    BY <1>0, <1>5, <1>6, CongMod, CongRefl
  <2>2. Cong((b % m) * a, b * a, m)
    BY <1>0, <1>5, <2>1, CongMul
  <2>3. (b % m) * a \in Int /\ b * a \in Int
    BY <1>5, <2>1
  <2>4. QED
    BY <1>0, <1>5, <2>2, <2>3, CongTrans
<1>8. modinv(a, m) = b % m
  BY DEF modinv, b
<1>9. QED
  BY <1>6, <1>7, <1>8

-----------------------------------------------------------------------------
\* Units.

LEMMA UnitCong ==
  ASSUME NEW a \in Int, NEW b \in Int, NEW m \in Int, Cong(a, b, m), Unit(b, m)
  PROVE  Unit(a, m)
<1>1. PICK u \in Int : Cong(u * b, 1, m)
  BY DEF Unit
<1>2. Cong(u * a, u * b, m) /\ u * a \in Int /\ u * b \in Int
  BY CongScale
<1>3. Cong(u * a, 1, m)
  BY <1>1, <1>2, CongTrans
<1>4. QED
  BY <1>3 DEF Unit

LEMMA UnitMul ==
  ASSUME NEW a \in Int, NEW b \in Int, NEW m \in Int, Unit(a, m), Unit(b, m)
  PROVE  Unit(a * b, m)
<1>1. PICK u \in Int : Cong(u * a, 1, m)
  BY DEF Unit
<1>2. PICK v \in Int : Cong(v * b, 1, m)
  BY DEF Unit
<1>3. Cong((u * a) * (v * b), 1 * 1, m)
  BY <1>1, <1>2, CongMul
<1>4. (u * a) * (v * b) = (u * v) * (a * b) /\ 1 * 1 = 1 /\ u * v \in Int
  OBVIOUS
<1>5. Cong((u * v) * (a * b), 1, m)
  BY <1>3, <1>4
<1>6. QED
  BY <1>4, <1>5 DEF Unit

LEMMA UnitPower ==
  ASSUME NEW a \in Int, NEW m \in Int, Unit(a, m), NEW e \in Nat
  PROVE  Unit(power(a, e), m)
<1>1. PICK u \in Int : Cong(u * a, 1, m)
  BY DEF Unit
<1>2. Cong(power(u * a, e), power(1, e), m)
  BY <1>1, PowerCong
<1>3. power(u * a, e) = power(u, e) * power(a, e) /\ power(1, e) = 1
      /\ power(u, e) \in Int
  BY PowerProduct, OneToThe, PowerType
<1>4. QED
  BY <1>2, <1>3 DEF Unit

\* A factor that is a unit can be cancelled.
LEMMA Cancel ==
  ASSUME NEW a \in Int, NEW x \in Int, NEW y \in Int, NEW m \in Int, Unit(a, m),
         Cong(a * x, a * y, m)
  PROVE  Cong(x, y, m)
<1>1. PICK u \in Int : Cong(u * a, 1, m)
  BY DEF Unit
<1>2. PICK k \in Int : u * a = 1 + k * m
  BY <1>1 DEF Cong
<1>3. PICK l \in Int : a * x = a * y + l * m
  BY DEF Cong
<1>4. (u * a) * x = (u * a) * y + (u * l) * m
  BY <1>3
<1>5. (1 + k * m) * x = (1 + k * m) * y + (u * l) * m
  BY <1>2, <1>4
<1>6. x = y + (k * y - k * x + u * l) * m
  BY <1>5
<1>7. k * y - k * x + u * l \in Int
  OBVIOUS
<1>8. QED
  BY <1>6, <1>7 DEF Cong

LEMMA UnitSquare ==
  ASSUME NEW a \in Int, NEW n \in Int, Unit(a, n)
  PROVE  Unit(a, n * n)
<1>1. PICK u \in Int : Cong(u * a, 1, n)
  BY DEF Unit
<1>2. PICK k \in Int : u * a = 1 + k * n
  BY <1>1 DEF Cong
<1> DEFINE v == (1 - k * n) * u
<1>3. v * a = (1 - k * n) * (u * a)
  OBVIOUS
<1>4. (1 - k * n) * (1 + k * n) = 1 + (-(k * k)) * (n * n)
  OBVIOUS
<1>5. v * a = 1 + (-(k * k)) * (n * n)
  BY <1>2, <1>3, <1>4
<1>6. v \in Int /\ -(k * k) \in Int
  OBVIOUS
<1> HIDE DEF v
<1>7. Cong(v * a, 1, n * n)
  BY <1>5, <1>6 DEF Cong
<1>8. QED
  BY <1>6, <1>7 DEF Unit

LEMMA UnitFactor ==
  ASSUME NEW a \in Int, NEW p \in Int, NEW q \in Int, Unit(a, p * q)
  PROVE  Unit(a, p) /\ Unit(a, q)
<1>1. PICK u \in Int : Cong(u * a, 1, p * q)
  BY DEF Unit
<1>2. PICK k \in Int : u * a = 1 + k * (p * q)
  BY <1>1 DEF Cong
<1>3. /\ u * a = 1 + (k * q) * p /\ k * q \in Int
      /\ u * a = 1 + (k * p) * q /\ k * p \in Int
  BY <1>2
<1>4. Cong(u * a, 1, p) /\ Cong(u * a, 1, q)
  BY <1>3 DEF Cong
<1>5. QED
  BY <1>4 DEF Unit

LEMMA UnitProduct ==
  ASSUME NEW a \in Int, NEW p \in Int, NEW q \in Int, Unit(a, p), Unit(a, q)
  PROVE  Unit(a, p * q)
<1>1. PICK u \in Int : Cong(u * a, 1, p)
  BY DEF Unit
<1>2. PICK k \in Int : u * a = 1 + k * p
  BY <1>1 DEF Cong
<1>3. PICK v \in Int : Cong(v * a, 1, q)
  BY DEF Unit
<1>4. PICK l \in Int : v * a = 1 + l * q
  BY <1>3 DEF Cong
<1> DEFINE w == u + v - u * v * a
<1>5. w * a = (u * a) + (v * a) - (u * a) * (v * a)
  OBVIOUS
<1>6. (1 + k * p) + (1 + l * q) - (1 + k * p) * (1 + l * q) = 1 + (-(k * l)) * (p * q)
  OBVIOUS
<1>7. w * a = 1 + (-(k * l)) * (p * q)
  BY <1>2, <1>4, <1>5, <1>6
<1>8. w \in Int /\ -(k * l) \in Int
  OBVIOUS
<1> HIDE DEF w
<1>9. Cong(w * a, 1, p * q)
  BY <1>7, <1>8 DEF Cong
<1>10. QED
  BY <1>8, <1>9 DEF Unit

LEMMA OneDividedBy ==
  ASSUME NEW d \in Nat, Divides(d, 1)
  PROVE  d = 1
<1>1. PICK k \in Int : 1 = k * d
  BY DEF Divides
<1>2. d # 0
  BY <1>1
<1>3. k >= 1
  <2>1. SUFFICES ASSUME k <= 0 PROVE FALSE
    OBVIOUS
  <2>2. k * d <= 0
    BY <1>2, <2>1
  <2>3. QED
    BY <1>1, <2>2
<1>4. CASE d >= 2
  <2>1. k * d >= d
    BY <1>3, <1>4
  <2>2. QED
    BY <1>1, <1>4, <2>1
<1>5. QED
  BY <1>2, <1>4

\* pgcd(a, m) = 1 is what the code tests.
LEMMA PgcdUnit ==
  ASSUME NEW a \in Nat, NEW m \in Pos
  PROVE  pgcd(a, m) = 1 <=> Unit(a, m)
<1>0. m \in Nat /\ m \in Int
  BY DEF Pos
<1>1. ASSUME pgcd(a, m) = 1 PROVE Unit(a, m)
  <2>1. modinv(a, m) \in Int /\ Cong(modinv(a, m) * a, 1, m)
    BY <1>0, <1>1, ModinvIs
  <2>2. QED
    BY <2>1 DEF Unit
<1>2. ASSUME Unit(a, m) PROVE pgcd(a, m) = 1
  <2> DEFINE d == pgcd(a, m)
  <2>1. d \in Nat /\ Divides(d, a) /\ Divides(d, m)
    BY <1>0, PgcdIsGcd DEF IsGcd
  <2> HIDE DEF d
  <2>2. PICK k \in Int : a = k * d
    BY <2>1 DEF Divides
  <2>3. PICK l \in Int : m = l * d
    BY <2>1 DEF Divides
  <2>4. PICK u \in Int : Cong(u * a, 1, m)
    BY <1>2 DEF Unit
  <2>5. PICK j \in Int : u * a = 1 + j * m
    BY <2>4 DEF Cong
  <2>6. 1 = (u * k - j * l) * d
    <3>1. u * (k * d) = 1 + j * (l * d)
      BY <2>2, <2>3, <2>5
    <3>2. QED
      BY <2>1, <3>1
  <2>7. u * k - j * l \in Int
    OBVIOUS
  <2>8. d = 1
    BY <2>1, <2>6, <2>7, OneDividedBy DEF Divides
  <2>9. QED
    BY <2>8 DEF d
<1>3. QED
  BY <1>1, <1>2

LEMMA ModinvUnit ==
  ASSUME NEW a \in Nat, NEW m \in Pos, Unit(a, m)
  PROVE  modinv(a, m) \in 0..m - 1 /\ Cong(modinv(a, m) * a, 1, m)
BY PgcdUnit, ModinvIs

LEMMA UnitNotZero ==
  ASSUME NEW m \in Pos, m > 1, NEW a \in Int, Unit(a, m)
  PROVE  a % m \in 1..m - 1
<1>0. m \in Int
  BY DEF Pos
<1>1. a % m \in 0..m - 1
  BY DivMod, <1>0
<1>2. a % m # 0
  <2>1. SUFFICES ASSUME a % m = 0 PROVE FALSE
    OBVIOUS
  <2>2. PICK u \in Int : Cong(u * a, 1, m)
    BY DEF Unit
  <2>3. Cong(a, 0, m)
    BY <2>1, CongMod
  <2>4. Cong(u * a, u * 0, m) /\ u * 0 = 0
    <3>1. u * 0 = 0 /\ 0 \in Int
      OBVIOUS
    <3>2. Cong(u * a, u * 0, m)
      BY ONLY <1>0, <2>3, <3>1, a \in Int, u \in Int, CongScale
    <3>3. QED
      BY <3>1, <3>2
  <2>5. Cong(0, u * a, m)
    BY <1>0, <2>4, CongSym
  <2>6. Cong(0, 1, m)
    <3>1. u * a \in Int
      OBVIOUS
    <3>2. QED
      BY <1>0, <2>2, <2>5, <3>1, CongTrans
  <2>7. 0 \in 0..m - 1 /\ 1 \in 0..m - 1
    BY <1>0
  <2>8. QED
    BY <2>6, <2>7, CongSmall
<1>3. QED
  BY <1>0, <1>1, <1>2

-----------------------------------------------------------------------------
\* Primes.

Prime(p) == p \in Nat /\ IsPrime(p)

LEMMA PrimeUnit ==
  ASSUME NEW p, Prime(p), NEW a \in Nat, a % p # 0
  PROVE  Unit(a, p)
<1>1. p \in Pos /\ p > 1 /\ p \in Nat
  BY DEF Prime, IsPrime, Pos
<1> DEFINE d == pgcd(a, p)
<1>2. d \in Nat /\ Divides(d, a) /\ Divides(d, p)
  BY <1>1, PgcdIsGcd DEF IsGcd
<1> HIDE DEF d
<1>3. PICK k \in Int : p = k * d
  BY <1>2 DEF Divides
<1>4. d # 0
  BY <1>1, <1>3
<1>5. d <= p
  <2>1. k >= 1
    <3>1. SUFFICES ASSUME k <= 0 PROVE FALSE
      OBVIOUS
    <3>2. k * d <= 0
      BY <1>2, <3>1
    <3>3. QED
      BY <1>1, <1>3, <3>2
  <2>2. k * d >= d
    BY <1>2, <2>1
  <2>3. QED
    BY <1>3, <2>2
<1>6. d # p
  <2>1. SUFFICES ASSUME d = p PROVE FALSE
    OBVIOUS
  <2>2. PICK l \in Int : a = l * p
    BY <1>2, <2>1 DEF Divides
  <2>3. a = l * p + 0
    BY <1>1, <2>2
  <2>4. a % p = 0
    BY <1>1, <2>3, DivUnique
  <2>5. QED
    BY <2>4
<1>7. d = 1
  <2>1. SUFFICES ASSUME d # 1 PROVE FALSE
    OBVIOUS
  <2>2. d \in 2..p - 1 /\ d \in Pos
    BY <1>1, <1>2, <1>4, <1>5, <1>6, <2>1 DEF Pos
  <2>3. p = k * d + 0 /\ 0 < d
    BY <1>2, <1>3, <1>4
  <2>4. p % d = 0
    BY <2>2, <2>3, DivUnique
  <2>5. QED
    BY <2>2, <2>4 DEF Prime, IsPrime
<1>8. QED
  BY <1>1, <1>7, PgcdUnit DEF d

LEMMA ResidueUnit ==
  ASSUME NEW p, Prime(p), NEW a \in 1..p - 1
  PROVE  Unit(a, p)
<1>1. p \in Pos /\ a \in Nat /\ a \in 0..p - 1
  BY DEF Prime, IsPrime, Pos
<1>2. a % p = a
  BY <1>1, ModSmall
<1>3. a % p # 0
  BY <1>2
<1>4. QED
  BY <1>1, <1>3, PrimeUnit

-----------------------------------------------------------------------------
\* Fermat's theorem: the powers of a unit come back to 1 after some d steps, and
\* multiplication by it splits 1..p-1 into cycles of that length.

LEMMA PowersComeBack ==
  ASSUME NEW p, Prime(p), NEW a \in Int, Unit(a, p)
  PROVE  \E d \in Pos : Cong(power(a, d), 1, p)
<1>1. p \in Pos /\ p > 1 /\ p \in Nat /\ p \in Int
  BY DEF Prime, IsPrime, Pos
<1> DEFINE f == [i \in 0..p - 1 |-> power(a, i) % p]
<1>2. f \in [0..p - 1 -> 1..p - 1]
  <2>1. ASSUME NEW i \in 0..p - 1 PROVE power(a, i) % p \in 1..p - 1
    <3>1. i \in Nat
      BY <1>1
    <3>2. power(a, i) \in Int /\ Unit(power(a, i), p)
      BY <1>1, <3>1, PowerType, UnitPower
    <3>3. QED
      BY <1>1, <3>2, UnitNotZero
  <2>2. QED
    BY <2>1
<1>3. /\ IsFiniteSet(0..p - 1) /\ Cardinality(0..p - 1) = p
      /\ IsFiniteSet(1..p - 1) /\ Cardinality(1..p - 1) = p - 1
  <2>1. 0 \in Int /\ 1 \in Int /\ p - 1 \in Int /\ ~(0 > p - 1) /\ ~(1 > p - 1)
    BY <1>1
  <2>2. QED
    BY <1>1, <2>1, FS_Interval
<1>4. Cardinality(1..p - 1) < Cardinality(0..p - 1)
  BY <1>1, <1>3
<1>5. \E x, y \in 0..p - 1 : x # y /\ f[x] = f[y]
  <2> HIDE DEF f
  <2>1. QED
    BY <1>2, <1>3, <1>4, FS_PigeonHole
<1>6. PICK x \in 0..p - 1, y \in 0..p - 1 : x < y /\ power(a, x) % p = power(a, y) % p
  <2>1. PICK x \in 0..p - 1, y \in 0..p - 1 : x # y /\ f[x] = f[y]
    BY <1>5
  <2>2. x < y \/ y < x
    BY <1>1, <2>1
  <2>3. power(a, x) % p = power(a, y) % p
    BY <2>1
  <2>4. QED
    BY <2>2, <2>3
<1>7. x \in Nat /\ y \in Nat /\ y - x \in Pos /\ y - x \in Nat /\ x + (y - x) = y
  BY <1>1, <1>6 DEF Pos
<1> DEFINE b == power(a, x)
           c == power(a, y - x)
<1>8. b \in Int /\ c \in Int /\ power(a, y) = b * c /\ power(a, y) \in Int
  <2>1. b \in Int /\ c \in Int /\ power(a, y) \in Int
    BY <1>7, PowerType
  <2>2. power(a, x + (y - x)) = b * c
    BY <1>7, PowerAdd
  <2>3. QED
    BY <1>7, <2>1, <2>2
<1>9. Cong(b * c, b * 1, p)
  <2>1. Cong(power(a, y), power(a, x), p)
    BY <1>1, <1>6, <1>8, CongIffMod
  <2>2. b * 1 = b
    BY <1>8
  <2>3. QED
    BY <1>8, <2>1, <2>2
<1>10. Unit(b, p)
  BY <1>1, <1>7, UnitPower
<1> HIDE DEF b, c
<1>11. Cong(c, 1, p)
  BY <1>1, <1>8, <1>9, <1>10, Cancel
<1>12. QED
  BY <1>7, <1>11 DEF c

Order(d, a, p) ==
  /\ d \in Pos /\ Cong(power(a, d), 1, p)
  /\ \A e \in Pos : Cong(power(a, e), 1, p) => d <= e

LEMMA OrderExists ==
  ASSUME NEW p, Prime(p), NEW a \in Int, Unit(a, p)
  PROVE  \E d : Order(d, a, p)
<1> DEFINE S == {d \in Pos : Cong(power(a, d), 1, p)}
<1>1. S # {} /\ S \subseteq Nat
  BY PowersComeBack DEF Pos
<1>2. PICK d \in S : \A e \in S : d <= e
  BY <1>1, Smallest
<1>3. QED
  BY <1>2 DEF Order

\* Two powers below the order that take x to the same place are the same power.
LEMMA CycleInjective ==
  ASSUME NEW p, Prime(p), NEW a \in Int, Unit(a, p), NEW d, Order(d, a, p),
         NEW x \in 1..p - 1, NEW i \in 0..d - 1, NEW j \in 0..d - 1, i <= j,
         Cong(power(a, i) * x, power(a, j) * x, p)
  PROVE  i = j
<1>1. p \in Int /\ x \in Int /\ d \in Nat /\ i \in Nat /\ j \in Nat /\ j - i \in Nat
      /\ i + (j - i) = j
  BY DEF Prime, Order, Pos
<1> DEFINE b == power(a, i)
           c == power(a, j - i)
<1>2. b \in Int /\ c \in Int /\ power(a, j) = b * c
  <2>1. b \in Int /\ c \in Int
    BY <1>1, PowerType
  <2>2. power(a, i + (j - i)) = b * c
    BY <1>1, PowerAdd
  <2>3. QED
    BY <1>1, <2>1, <2>2
<1>3. Unit(b, p) /\ Unit(x, p)
  BY <1>1, UnitPower, ResidueUnit
<1> HIDE DEF b, c
<1>4. Cong(b * x, (b * c) * x, p)
  BY <1>2 DEF b
<1>5. b * x \in Int /\ (b * c) * x \in Int /\ b * x = x * (b * 1)
      /\ (b * c) * x = x * (b * c) /\ b * 1 \in Int /\ b * c \in Int
  BY <1>1, <1>2
<1>6. Cong(x * (b * 1), x * (b * c), p)
  BY <1>4, <1>5
<1>7. Cong(b * 1, b * c, p)
  BY <1>1, <1>3, <1>5, <1>6, Cancel
<1>8. Cong(1, c, p)
  BY <1>1, <1>2, <1>3, <1>7, Cancel
<1>9. Cong(power(a, j - i), 1, p)
  BY <1>1, <1>2, <1>8, CongSym DEF c
<1>10. ~(j - i \in Pos)
  <2>1. j - i < d
    BY <1>1
  <2>2. QED
    BY <1>1, <1>9, <2>1 DEF Order
<1>11. QED
  BY <1>1, <1>10 DEF Pos

\* A set of residues that multiplication by a does not leave.
Closed(S, a, p) == S \subseteq 1..p - 1 /\ \A x \in S : (a * x) % p \in S

LEMMA ClosedPowers ==
  ASSUME NEW p, Prime(p), NEW a \in Int, NEW S, Closed(S, a, p), NEW x \in S,
         NEW i \in Nat
  PROVE  (power(a, i) * x) % p \in S
<1> DEFINE Bad == {k \in Nat : (power(a, k) * x) % p \notin S}
<1>0. p \in Pos /\ p \in Int /\ x \in 1..p - 1 /\ x \in Int
  BY DEF Prime, IsPrime, Pos, Closed
<1>1. SUFFICES ASSUME Bad # {} PROVE FALSE
  OBVIOUS
<1>2. PICK k \in Bad : \A j \in Bad : k <= j
  BY <1>1, Smallest
<1>3. k # 0
  <2>1. power(a, 0) * x = x /\ x % p = x
    <3>1. x \in 0..p - 1
      BY <1>0
    <3>2. QED
      BY <1>0, <3>1, PowerZero, ModSmall
  <2>2. (power(a, 0) * x) % p = x
    BY <2>1
  <2>3. QED
    BY <1>2, <2>2
<1>4. k - 1 \in Nat /\ k - 1 \notin Bad /\ (k - 1) + 1 = k
  BY <1>2, <1>3
<1> DEFINE y == power(a, k - 1) * x
<1>5. y % p \in S
  BY <1>4
<1>6. (a * (y % p)) % p \in S
  BY <1>5 DEF Closed
<1>7. power(a, k - 1) \in Int /\ power(a, k) = a * power(a, k - 1)
  BY <1>4, PowerStep
<1>8. y \in Int /\ power(a, k) * x = a * y
  BY <1>0, <1>7
<1> HIDE DEF y
<1>9. (a * (y % p)) % p = (a * y) % p
  <2>1. y % p \in Int /\ Cong(y % p, y, p)
    BY <1>0, <1>8, DivMod, CongMod
  <2>2. Cong(a * (y % p), a * y, p)
    BY <1>0, <1>8, <2>1, CongScale
  <2>3. a * (y % p) \in Int /\ a * y \in Int
    BY <1>8, <2>1
  <2>4. QED
    BY <1>0, <2>2, <2>3, CongIffMod
<1>10. (power(a, k) * x) % p \in S
  BY <1>6, <1>8, <1>9
<1>11. QED
  BY <1>2, <1>10

Cycle(x, a, d, p) == {(power(a, i) * x) % p : i \in 0..d - 1}

LEMMA CycleSize ==
  ASSUME NEW p, Prime(p), NEW a \in Int, Unit(a, p), NEW d, Order(d, a, p),
         NEW x \in 1..p - 1
  PROVE  IsFiniteSet(Cycle(x, a, d, p)) /\ Cardinality(Cycle(x, a, d, p)) = d
<1>0. p \in Pos /\ p \in Int /\ x \in Int /\ d \in Nat /\ d - 1 \in Int /\ d > 0
  BY DEF Prime, IsPrime, Pos, Order
<1> DEFINE D == 0..d - 1
           O == Cycle(x, a, d, p)
           f == [i \in D |-> (power(a, i) * x) % p]
<1>1. f \in [D -> O] /\ \A y \in O : \E i \in D : f[i] = y
  BY DEF Cycle
<1>2. ASSUME NEW i \in D, NEW j \in D, f[i] = f[j], i <= j PROVE i = j
  <2>1. (power(a, i) * x) % p = (power(a, j) * x) % p
    BY <1>2
  <2>2. i \in Nat /\ j \in Nat
    BY <1>0
  <2>3. power(a, i) * x \in Int /\ power(a, j) * x \in Int
    BY <1>0, <2>2, PowerType
  <2>4. Cong(power(a, i) * x, power(a, j) * x, p)
    BY <1>0, <2>1, <2>3, CongIffMod
  <2>5. QED
    BY <1>2, <2>4, CycleInjective
<1>3. IsFiniteSet(D) /\ Cardinality(D) = d
  <2>1. 0 \in Int /\ ~(0 > d - 1) /\ d - 1 - 0 + 1 = d
    BY <1>0
  <2>2. QED
    BY <1>0, <2>1, FS_Interval
<1>4. \A i, j \in D : f[i] = f[j] => i = j
  <2>1. \A i, j \in D : i <= j \/ j <= i
    BY <1>0
  <2>2. QED
    BY <1>2, <2>1
<1> HIDE DEF f, O, D
<1>5. f \in Surjection(D, O)
  BY <1>1 DEF Surjection
<1>6. f \in Injection(D, O)
  BY <1>1, <1>4 DEF Injection, IsInjective
<1>7. QED
  BY <1>3, <1>5, <1>6, FS_Surjection DEF O

LEMMA CycleRest ==
  ASSUME NEW p, Prime(p), NEW a \in Int, Unit(a, p), NEW d, Order(d, a, p),
         NEW S, Closed(S, a, p), NEW x \in S
  PROVE  Closed(S \ Cycle(x, a, d, p), a, p)
<1>0. p \in Pos /\ p \in Int /\ x \in Int /\ d \in Nat /\ d > 0
  BY DEF Prime, IsPrime, Pos, Order, Closed
<1> SUFFICES ASSUME NEW y \in S, (a * y) % p \in Cycle(x, a, d, p)
             PROVE  y \in Cycle(x, a, d, p)
  BY DEF Closed
<1>1. PICK i \in 0..d - 1 : (a * y) % p = (power(a, i) * x) % p
  BY DEF Cycle
<1>2. y \in Int /\ y \in 0..p - 1 /\ i \in Nat /\ a * y \in Int
  BY <1>0 DEF Closed
<1>3. Cong(a * y, power(a, i) * x, p) /\ power(a, i) \in Int /\ power(a, i) * x \in Int
  <2>1. power(a, i) \in Int
    BY <1>2, PowerType
  <2>2. power(a, i) * x \in Int
    BY <1>0, <2>1
  <2>3. QED
    BY <1>0, <1>1, <1>2, <2>1, <2>2, CongIffMod
<1>4. \E j \in 0..d - 1 : Cong(power(a, i), a * power(a, j), p)
  <2>1. CASE i = 0
    <3>1. d - 1 \in Nat /\ d - 1 \in 0..d - 1 /\ (d - 1) + 1 = d
      BY <1>0
    <3>2. power(a, d) = a * power(a, d - 1) /\ power(a, d) \in Int
      BY <1>0, <3>1, PowerStep
    <3>3. power(a, i) = 1
      BY <2>1, PowerZero
    <3>4. Cong(power(a, d), 1, p)
      BY DEF Order
    <3>5. Cong(1, power(a, d), p)
      BY <1>0, <3>2, <3>4, CongSym
    <3>6. QED
      BY <3>1, <3>2, <3>3, <3>5
  <2>2. CASE i # 0
    <3>1. i - 1 \in Nat /\ i - 1 \in 0..d - 1 /\ (i - 1) + 1 = i
      BY <1>0, <1>2, <2>2
    <3>2. power(a, i) = a * power(a, i - 1)
      BY <3>1, PowerStep
    <3>3. Cong(power(a, i), power(a, i), p)
      BY <1>0, <1>3, CongRefl
    <3>4. QED
      BY <3>1, <3>2, <3>3
  <2>3. QED
    BY <2>1, <2>2
<1>5. PICK j \in 0..d - 1 : Cong(power(a, i), a * power(a, j), p)
  BY <1>4
<1> DEFINE b == power(a, j)
<1>6. b \in Int
  BY <1>0, PowerType
<1>7. Cong(power(a, i) * x, (a * b) * x, p)
  <2>1. Cong(x, x, p)
    BY <1>0, CongRefl
  <2>2. a * b \in Int
    BY <1>6
  <2>3. QED
    BY <1>0, <1>3, <1>5, <2>1, <2>2, CongMul
<1> HIDE DEF b
<1>8. b * x \in Int /\ (a * b) * x = a * (b * x) /\ (a * b) * x \in Int
  BY <1>0, <1>6
<1>9. Cong(a * y, a * (b * x), p)
  BY <1>0, <1>2, <1>3, <1>7, <1>8, CongTrans
<1>10. Cong(y, b * x, p)
  BY <1>0, <1>2, <1>8, <1>9, Cancel
<1>11. y = (b * x) % p
  <2>1. y % p = (b * x) % p
    BY <1>0, <1>2, <1>8, <1>10, CongIffMod
  <2>2. y % p = y
    BY <1>0, <1>2, ModSmall
  <2>3. QED
    BY <2>1, <2>2
<1>12. QED
  BY <1>11 DEF Cycle, b

LEMMA CyclesFill ==
  ASSUME NEW p, Prime(p), NEW a \in Int, Unit(a, p), NEW d, Order(d, a, p)
  PROVE  \A S : Closed(S, a, p) => \E t \in Nat : Cardinality(S) = t * d
<1>0. p \in Int /\ d \in Nat /\ d > 0
  BY DEF Prime, IsPrime, Pos, Order
<1>1. \A S : Closed(S, a, p) => IsFiniteSet(S) /\ Cardinality(S) \in Nat
  <2>1. ASSUME NEW S, Closed(S, a, p) PROVE IsFiniteSet(S)
    <3>1. IsFiniteSet(1..p - 1) /\ S \in SUBSET (1..p - 1)
      <4>1. 1 \in Int /\ p - 1 \in Int
        BY <1>0
      <4>2. QED
        BY <2>1, <4>1, FS_Interval DEF Closed
    <3>2. QED
      BY <3>1, FS_Subset
  <2>2. QED
    BY <2>1, FS_CardinalityType
<1> DEFINE Good(S) == \E t \in Nat : Cardinality(S) = t * d
           Bad == {n \in Nat : \E S : Closed(S, a, p) /\ Cardinality(S) = n /\ ~Good(S)}
<1>2. SUFFICES ASSUME Bad # {} PROVE FALSE
  BY <1>1
<1>3. PICK n \in Bad : \A m \in Bad : n <= m
  BY <1>2, Smallest
<1>4. PICK S : Closed(S, a, p) /\ Cardinality(S) = n /\ ~Good(S)
  BY <1>3
<1>5. S # {}
  <2>1. 0 = 0 * d
    BY <1>0
  <2>2. QED
    BY <1>4, <2>1, FS_EmptySet
<1>6. PICK x \in S : TRUE
  BY <1>5
<1> DEFINE O == Cycle(x, a, d, p)
           R == S \ O
<1>7. x \in 1..p - 1
  BY <1>4 DEF Closed
<1>8. IsFiniteSet(O) /\ Cardinality(O) = d
  BY <1>7, CycleSize
<1>9. O \subseteq S
  <2>1. \A i \in 0..d - 1 : (power(a, i) * x) % p \in S
    <3>1. \A i \in 0..d - 1 : i \in Nat
      BY <1>0
    <3>2. QED
      BY <1>4, <3>1, ClosedPowers
  <2>2. QED
    BY <2>1 DEF Cycle
<1>10. Closed(R, a, p)
  BY <1>4, CycleRest
<1> HIDE DEF O
<1>11. Cardinality(R) = n - d
  <2>1. S \cap O = O
    BY <1>9
  <2>2. QED
    <3>1. IsFiniteSet(S)
      BY <1>1, <1>4
    <3>2. Cardinality(S \ O) = Cardinality(S) - Cardinality(S \cap O)
      BY <3>1, FS_Difference
    <3>3. QED
      BY <1>4, <1>8, <2>1, <3>2
<1> HIDE DEF R
<1>12. Cardinality(R) \in Nat
  BY <1>1, <1>10
<1>13. Cardinality(R) \notin Bad
  BY <1>0, <1>3, <1>11, <1>12
<1>14. PICK t \in Nat : Cardinality(R) = t * d
  BY <1>10, <1>12, <1>13
<1>15. n = (t + 1) * d /\ t + 1 \in Nat
  <2>1. n \in Nat /\ n - d = t * d /\ t * d \in Nat
    BY <1>0, <1>3, <1>11, <1>14
  <2>2. (t + 1) * d = t * d + d
    BY <1>0, <1>14
  <2>3. QED
    BY <1>0, <1>14, <2>1, <2>2
<1>16. QED
  BY <1>4, <1>15

\* Fermat.
LEMMA Fermat ==
  ASSUME NEW p, Prime(p), NEW a \in Int, Unit(a, p)
  PROVE  Cong(power(a, p - 1), 1, p)
<1>0. p \in Pos /\ p \in Int /\ p \in Nat /\ p > 1
  BY DEF Prime, IsPrime, Pos
<1>1. PICK d : Order(d, a, p)
  BY OrderExists
<1>2. Closed(1..p - 1, a, p)
  <2>1. ASSUME NEW x \in 1..p - 1 PROVE (a * x) % p \in 1..p - 1
    <3>1. x \in Int /\ a * x \in Int
      BY <1>0
    <3>2. Unit(x, p)
      BY ResidueUnit
    <3>3. Unit(a * x, p)
      BY <1>0, <3>1, <3>2, UnitMul
    <3>4. QED
      BY <1>0, <3>1, <3>3, UnitNotZero
  <2>2. QED
    BY <2>1 DEF Closed
<1>3. PICK t \in Nat : Cardinality(1..p - 1) = t * d
  BY <1>1, <1>2, CyclesFill
<1>4. Cardinality(1..p - 1) = p - 1
  <2>1. 1 \in Int /\ p - 1 \in Int /\ ~(1 > p - 1) /\ (p - 1) - 1 + 1 = p - 1
    BY <1>0
  <2>2. QED
    BY <2>1, FS_Interval
<1>5. d \in Nat /\ Cong(power(a, d), 1, p) /\ p - 1 = d * t
  BY <1>1, <1>3, <1>4 DEF Order, Pos
<1>6. power(a, d * t) = power(power(a, d), t) /\ power(a, d) \in Int
  BY <1>5, PowerTimes, PowerType
<1>7. Cong(power(power(a, d), t), power(1, t), p)
  BY <1>0, <1>5, <1>6, PowerCong
<1>8. QED
  BY <1>5, <1>6, <1>7, OneToThe


-----------------------------------------------------------------------------
\* Two primes p and q: what holds modulo both holds modulo their product, and
\* lambda = ppcm(p - 1, q - 1) is an exponent that takes every unit back to 1.

LEMMA PrimesAreUnits ==
  ASSUME NEW p, Prime(p), NEW q, Prime(q), p # q
  PROVE  Unit(p, q)
<1>1. p \in Pos /\ q \in Pos /\ p > 1 /\ q > 1 /\ p \in Nat
  BY DEF Prime, IsPrime, Pos
<1>2. p % q # 0
  <2>1. SUFFICES ASSUME p % q = 0 PROVE FALSE
    OBVIOUS
  <2>2. q \notin 2..p - 1
    BY <2>1 DEF Prime, IsPrime
  <2>3. p \in 0..q - 1
    BY <1>1, <2>2
  <2>4. p % q = p
    BY <1>1, <2>3, ModSmall
  <2>5. QED
    BY <1>1, <2>1, <2>4
<1>3. QED
  BY <1>1, <1>2, PrimeUnit

LEMMA CongProduct ==
  ASSUME NEW a \in Int, NEW b \in Int, NEW p \in Int, NEW q \in Int, Unit(p, q),
         Cong(a, b, p), Cong(a, b, q)
  PROVE  Cong(a, b, p * q)
<1>1. PICK k \in Int : a = b + k * p
  BY DEF Cong
<1>2. PICK j \in Int : a = b + j * q
  BY DEF Cong
<1>3. PICK u \in Int : Cong(u * p, 1, q)
  BY DEF Unit
<1>4. PICK t \in Int : u * p = 1 + t * q
  BY <1>3 DEF Cong
<1>5. k * p = j * q
  BY <1>1, <1>2
<1>6. k * (u * p) = k * (1 + t * q)
  BY <1>4
<1>7. k * (u * p) = u * (k * p) /\ k * (1 + t * q) = k + (k * t) * q
  OBVIOUS
<1>8. u * (k * p) = (u * j) * q
  BY <1>5
<1>9. k = (u * j - k * t) * q
  BY <1>6, <1>7, <1>8
<1> DEFINE w == u * j - k * t
<1>10. w \in Int /\ k = w * q
  BY <1>9
<1> HIDE DEF w
<1>11. k * p = w * (p * q)
  BY <1>10
<1>12. QED
  BY <1>1, <1>10, <1>11 DEF Cong

\* ppcm(a, b) is a multiple of both and divides their product.
LEMMA PpcmIs ==
  ASSUME NEW a \in Pos, NEW b \in Pos
  PROVE  /\ ppcm(a, b) \in Pos
         /\ \E y \in Nat : ppcm(a, b) = a * y
         /\ \E x \in Nat : ppcm(a, b) = b * x
         /\ \E g \in Nat : ppcm(a, b) * g = a * b
<1> DEFINE g == pgcd(a, b)
<1>0. a \in Nat /\ b \in Nat /\ a > 0 /\ b > 0
  BY DEF Pos
<1>1. g \in Nat /\ Divides(g, a) /\ Divides(g, b)
  BY <1>0, PgcdIsGcd DEF IsGcd
<1>2. ppcm(a, b) = (a * b) \div g
  BY DEF ppcm
<1> HIDE DEF g
<1>3. PICK x \in Int : a = x * g
  BY <1>1 DEF Divides
<1>4. PICK y \in Int : b = y * g
  BY <1>1 DEF Divides
<1>5. g > 0
  BY <1>0, <1>1, <1>3
<1>6. x > 0
  <2>1. SUFFICES ASSUME x <= 0 PROVE FALSE
    OBVIOUS
  <2>2. x * g <= 0
    BY <1>1, <1>5, <2>1
  <2>3. QED
    BY <1>0, <1>3, <2>2
<1>7. y > 0
  <2>1. SUFFICES ASSUME y <= 0 PROVE FALSE
    OBVIOUS
  <2>2. y * g <= 0
    BY <1>1, <1>5, <2>1
  <2>3. QED
    BY <1>0, <1>4, <2>2
<1> DEFINE c == x * y * g
<1>8. c \in Int /\ a * b = c * g + 0
  BY <1>1, <1>3, <1>4
<1>9. g \in Pos /\ 0 \in Nat /\ 0 < g
  BY <1>1, <1>5 DEF Pos
<1>10. (a * b) \div g = c
  <2> HIDE DEF c
  <2>1. (c * g + 0) \div g = c
    BY <1>8, <1>9, DivUnique
  <2>2. QED
    BY <1>8, <2>1
<1>11. c = a * y /\ c = b * x
  BY <1>1, <1>3, <1>4
<1>12. a * y > 0
  BY <1>0, <1>7
<1> HIDE DEF c
<1>13. c \in Pos
  BY <1>8, <1>11, <1>12 DEF Pos
<1>14. c * g = a * b
  BY <1>1, <1>8
<1>15. ppcm(a, b) = c /\ x \in Nat /\ y \in Nat
  BY <1>2, <1>6, <1>7, <1>10
<1>16. QED
  BY <1>1, <1>11, <1>13, <1>14, <1>15

\* A multiple of p - 1 takes a unit to 1.
LEMMA FermatMultiple ==
  ASSUME NEW p, Prime(p), NEW a \in Int, Unit(a, p), NEW y \in Nat
  PROVE  Cong(power(a, (p - 1) * y), 1, p)
<1>1. p \in Int /\ p - 1 \in Nat
  BY DEF Prime, IsPrime
<1>2. Cong(power(a, p - 1), 1, p)
  BY Fermat
<1>3. power(a, p - 1) \in Int /\ power(1, y) = 1
  BY <1>1, PowerType, OneToThe
<1>4. Cong(power(power(a, p - 1), y), power(1, y), p)
  BY <1>1, <1>2, <1>3, PowerCong
<1>5. power(a, (p - 1) * y) = power(power(a, p - 1), y)
  BY <1>1, PowerTimes
<1>6. QED
  BY <1>3, <1>4, <1>5

LEMMA Carmichael ==
  ASSUME NEW p, Prime(p), NEW q, Prime(q), p # q, NEW a \in Int, Unit(a, p * q)
  PROVE  Cong(power(a, ppcm(p - 1, q - 1)), 1, p * q)
<1>1. p \in Int /\ q \in Int /\ p - 1 \in Pos /\ q - 1 \in Pos
  BY DEF Prime, IsPrime, Pos
<1> DEFINE k == ppcm(p - 1, q - 1)
<1>2. /\ k \in Pos /\ \E y \in Nat : k = (p - 1) * y
      /\ \E x \in Nat : k = (q - 1) * x
  BY <1>1, PpcmIs
<1> HIDE DEF k
<1>3. Unit(a, p) /\ Unit(a, q)
  BY <1>1, UnitFactor
<1>4. Cong(power(a, k), 1, p)
  BY <1>2, <1>3, FermatMultiple
<1>5. Cong(power(a, k), 1, q)
  BY <1>2, <1>3, FermatMultiple
<1>6. power(a, k) \in Int
  BY <1>2, PowerType DEF Pos
<1>7. Unit(p, q)
  BY PrimesAreUnits
<1>8. QED
  BY <1>1, <1>4, <1>5, <1>6, <1>7, CongProduct DEF k

Odd(n) == n \in Nat /\ \E h \in Int : n = 2 * h + 1

\* q - 1 is no multiple of p when both are odd and neither is twice the other.
LEMMA UnitBelow ==
  ASSUME NEW p, Prime(p), Odd(p), NEW q, Prime(q), Odd(q), q < 2 * p
  PROVE  Unit(q - 1, p)
<1>1. p \in Pos /\ q \in Nat /\ p > 1 /\ q > 1 /\ p \in Nat /\ q - 1 \in Nat
  BY DEF Prime, IsPrime, Pos
<1>2. (q - 1) % p # 0
  <2>1. CASE q - 1 < p
    <3>1. q - 1 \in 0..p - 1
      BY <1>1, <2>1
    <3>2. (q - 1) % p = q - 1
      BY <1>1, <3>1, ModSmall
    <3>3. QED
      BY <1>1, <3>2
  <2>2. CASE q - 1 >= p
    <3>1. q - 1 # p
      <4>1. PICK h \in Int : p = 2 * h + 1
        BY DEF Odd
      <4>2. PICK j \in Int : q = 2 * j + 1
        BY DEF Odd
      <4>3. QED
        BY <4>1, <4>2
    <3> DEFINE r == q - 1 - p
    <3>2. r \in Nat /\ r < p /\ r # 0 /\ q - 1 = 1 * p + r
      BY <1>1, <2>2, <3>1
    <3> HIDE DEF r
    <3>3. (1 * p + r) % p = r
      BY <1>1, <3>2, DivUnique
    <3>4. QED
      BY <3>2, <3>3
  <2>3. QED
    BY <1>1, <2>1, <2>2
<1>3. QED
  BY <1>1, <1>2, PrimeUnit

\* lambda itself is a unit modulo the product.
LEMMA LambdaIsUnit ==
  ASSUME NEW p, Prime(p), Odd(p), NEW q, Prime(q), Odd(q), q < 2 * p, p < 2 * q
  PROVE  Unit(ppcm(p - 1, q - 1), p * q)
<1>1. p \in Int /\ q \in Int /\ p - 1 \in Pos /\ q - 1 \in Pos /\ p - 1 \in 1..p - 1
      /\ q - 1 \in 1..q - 1
  BY DEF Prime, IsPrime, Pos
<1> DEFINE k == ppcm(p - 1, q - 1)
<1>2. k \in Pos /\ \E g \in Nat : k * g = (p - 1) * (q - 1)
  BY <1>1, PpcmIs
<1> HIDE DEF k
<1>3. PICK g \in Nat : k * g = (p - 1) * (q - 1)
  BY <1>2
<1> DEFINE c == (p - 1) * (q - 1)
<1>4. p - 1 \in Int /\ q - 1 \in Int /\ c \in Int /\ k \in Int
  BY <1>1, <1>2 DEF Pos
<1>5. Unit(p - 1, p) /\ Unit(q - 1, q)
  BY <1>1, ResidueUnit
<1>6. Unit(q - 1, p) /\ Unit(p - 1, q)
  BY UnitBelow
<1>7. Unit((p - 1) * (q - 1), p)
  BY ONLY <1>1, <1>4, <1>5, <1>6, UnitMul
<1>8. Unit((p - 1) * (q - 1), q)
  BY ONLY <1>1, <1>4, <1>5, <1>6, UnitMul
<1>9. Unit(c, p) /\ Unit(c, q)
  BY <1>7, <1>8
<1>10. k * g = c
  BY <1>3
<1> HIDE DEF c
<1>11. Unit(c, p * q)
  BY <1>1, <1>4, <1>9, UnitProduct
<1>12. PICK u \in Int : Cong(u * c, 1, p * q)
  BY <1>11 DEF Unit
<1>13. u * c = (u * g) * k /\ u * g \in Int
  BY <1>4, <1>10
<1>14. Unit(k, p * q)
  BY <1>12, <1>13 DEF Unit
<1>15. QED
  BY <1>14 DEF k
=============================================================================
