--------------------------- MODULE PaillierProofs ---------------------------
(***************************************************************************)
(* Theorems about Paillier, for primes, challenges, coins, candidates and  *)
(* ballots of any size and number.  What needs the numbers found to be     *)
(* prime says so: Miller-Rabin accepts some composites for some bases (25  *)
(* for 7), so that no proof can say it for every size.                     *)
(***************************************************************************)
EXTENDS Paillier, NumberTheory, SequenceTheorems

-----------------------------------------------------------------------------
\* The numbers that generate_prime draws.

LEMMA Doubling ==
  ASSUME NEW k \in Nat
  PROVE  TwoTo(k) \in Pos /\ TwoTo(k + 1) = 2 * TwoTo(k)
<1>1. 2 \in Pos /\ 2 \in Int
  BY DEF Pos
<1>2. QED
  BY <1>1, PowerPositive, PowerStep DEF TwoTo

LEMMA TwoToIsLarge == \A k \in Nat : k < TwoTo(k)
<1> DEFINE Bad == {k \in Nat : ~(k < TwoTo(k))}
<1>1. SUFFICES ASSUME Bad # {} PROVE FALSE
  OBVIOUS
<1>2. PICK k \in Bad : \A j \in Bad : k <= j
  BY <1>1, Smallest
<1>3. k # 0
  <2>1. 0 \in Nat /\ TwoTo(0) \in Pos
    BY Doubling
  <2>2. QED
    BY <1>2, <2>1 DEF Pos
<1>4. k - 1 \in Nat /\ k - 1 \notin Bad
  BY <1>2, <1>3
<1>5. TwoTo(k - 1) \in Pos /\ TwoTo((k - 1) + 1) = 2 * TwoTo(k - 1)
  BY <1>4, Doubling
<1>6. (k - 1) + 1 = k /\ k - 1 < TwoTo(k - 1)
  BY <1>4
<1>7. QED
  BY <1>2, <1>4, <1>5, <1>6 DEF Pos

Drawn == {OddNumber(x) : x \in 0..(TwoTo(Bits) - 1)}

LEMMA DrawnIs ==
  ASSUME PaillierAssumption, NEW n \in Drawn
  PROVE  /\ Odd(n) /\ n > 3
         /\ TwoTo(Bits - 1) <= n /\ n < 2 * TwoTo(Bits - 1)
<1> DEFINE h == TwoTo(Bits - 3)
           t == TwoTo(Bits - 1)
<1>1. Bits - 3 \in Nat /\ Bits - 2 \in Nat /\ Bits - 1 \in Nat
      /\ (Bits - 3) + 1 = Bits - 2 /\ (Bits - 2) + 1 = Bits - 1
  BY DEF PaillierAssumption
<1>2. h \in Pos /\ TwoTo(Bits - 2) = 2 * h /\ TwoTo(Bits - 1) = 2 * TwoTo(Bits - 2)
  BY <1>1, Doubling
<1>3. h \in Nat /\ h > 0 /\ t = 4 * h
  BY <1>2 DEF Pos
<1>4. PICK x \in Nat : n = OddNumber(x)
  <2>1. TwoTo(Bits) \in Nat
    BY Doubling DEF PaillierAssumption, Pos
  <2>2. QED
    BY <2>1 DEF Drawn
<1> DEFINE y == x % t
<1>5. n = t + y + (1 - (y % 2))
  BY <1>4 DEF OddNumber
<1> HIDE DEF h, t
<1>6. y \in Nat /\ y < t
  BY <1>3, DivMod DEF Pos
<1> HIDE DEF y
<1>7. /\ Odd(n)
      /\ t <= n /\ n < 2 * t
  <2>1. 2 \in Pos
    BY DEF Pos
  <2>2. y = (y \div 2) * 2 + (y % 2) /\ y \div 2 \in Int /\ y % 2 \in {0, 1}
    BY <1>6
  <2>3. CASE y % 2 = 0
    <3> DEFINE k == y \div 2
    <3>1. k \in Int /\ y = 2 * k
      BY <2>2, <2>3
    <3> HIDE DEF k
    <3>2. n = 2 * (2 * h + k) + 1 /\ 2 * h + k \in Int
      BY <1>3, <1>5, <2>3, <3>1
    <3>3. n <= 2 * t - 1
      BY <1>3, <1>5, <1>6, <2>3, <3>1
    <3>4. QED
      BY <1>3, <1>5, <1>6, <2>3, <3>2, <3>3 DEF Odd
  <2>4. CASE y % 2 = 1
    <3> DEFINE k == y \div 2
    <3>1. k \in Int /\ y = 2 * k + 1
      BY <2>2, <2>4
    <3> HIDE DEF k
    <3>2. n = 2 * (2 * h + k) + 1 /\ 2 * h + k \in Int
      BY <1>3, <1>5, <2>4, <3>1
    <3>3. QED
      BY <1>3, <1>5, <1>6, <2>4, <3>2 DEF Odd
  <2>5. QED
    BY <2>2, <2>3, <2>4
<1>8. QED
  BY <1>3, <1>7 DEF t, Odd

-----------------------------------------------------------------------------
\* Miller-Rabin turns down no prime.

\* n - 1 = 2^k * d with d odd, for some k.
LEMMA OddPartExists ==
  ASSUME NEW n, Odd(n), n > 3
  PROVE  \E k \in 1..n : (n - 1) % TwoTo(k) = 0 /\ ((n - 1) \div TwoTo(k)) % 2 = 1
<1> DEFINE S == {k \in 1..n : \E d \in Int : n - 1 = d * TwoTo(k)}
           D == {j \in Nat : n - j \in S}
<1>1. n \in Nat /\ \E h \in Int : n = 2 * h + 1
  BY DEF Odd
<1>2. D # {} /\ D \subseteq Nat
  <2>1. PICK h \in Int : n = 2 * h + 1
    BY <1>1
  <2>2. TwoTo(1) = 2
    BY PowerOne DEF TwoTo
  <2>3. 1 \in S
    <3>1. n - 1 = h * TwoTo(1) /\ 1 \in 1..n
      BY <1>1, <2>1, <2>2
    <3>2. QED
      BY <3>1
  <2>4. n - 1 \in D
    BY <1>1, <2>3
  <2>5. QED
    BY <2>4
<1>3. PICK j \in D : \A i \in D : j <= i
  BY <1>2, Smallest
<1> DEFINE k == n - j
<1>4. j \in Nat /\ k \in S /\ k \in 1..n /\ n - k = j
  BY <1>1, <1>3
<1>5. \A i \in S : i <= k
  <2>1. SUFFICES ASSUME NEW i \in S PROVE i <= k
    OBVIOUS
  <2>2. n - i \in D
    BY <1>1
  <2>3. j <= n - i
    BY <1>3, <2>2
  <2>4. QED
    BY <1>1, <1>3, <2>3
<1> HIDE DEF k, D
<1>6. PICK d \in Int : n - 1 = d * TwoTo(k)
  BY <1>4
<1>7. TwoTo(k) \in Pos /\ TwoTo(k) > k /\ TwoTo(k + 1) = 2 * TwoTo(k) /\ k \in Nat
  BY <1>4, Doubling, TwoToIsLarge
<1>8. d > 0
  <2>1. SUFFICES ASSUME d <= 0 PROVE FALSE
    OBVIOUS
  <2>2. d * TwoTo(k) <= 0
    BY <1>7, <2>1 DEF Pos
  <2>3. QED
    BY <1>1, <1>6, <2>2
<1>9. k < n
  <2>1. d * TwoTo(k) >= TwoTo(k)
    BY <1>7, <1>8 DEF Pos
  <2>2. QED
    BY <1>1, <1>4, <1>6, <1>7, <2>1 DEF Pos
<1>10. d % 2 = 1
  <2>1. SUFFICES ASSUME d % 2 # 1 PROVE FALSE
    OBVIOUS
  <2>2. d = 2 * (d \div 2) /\ d \div 2 \in Int
    BY <2>1
  <2>3. PICK c \in Int : d = 2 * c
    BY <2>2
  <2>4. n - 1 = c * TwoTo(k + 1)
    BY <1>6, <1>7, <2>3 DEF Pos
  <2>5. k + 1 \in S
    <3>1. k + 1 \in 1..n
      BY <1>1, <1>4, <1>9
    <3>2. QED
      BY <2>4, <3>1
  <2>6. QED
    BY <1>4, <1>5, <2>5
<1>11. (n - 1) % TwoTo(k) = 0 /\ (n - 1) \div TwoTo(k) = d
  <2>1. n - 1 = d * TwoTo(k) + 0 /\ 0 \in Nat /\ 0 < TwoTo(k)
    BY <1>6, <1>7 DEF Pos
  <2>2. QED
    BY <1>7, <2>1, DivUnique
<1>12. QED
  BY <1>4, <1>10, <1>11

\* Modulo a prime, 1 has no square roots but 1 and -1.
LEMMA SquareRoots ==
  ASSUME NEW p, Prime(p), NEW x \in Int, Cong(x * x, 1, p)
  PROVE  Cong(x, 1, p) \/ Cong(x, p - 1, p)
<1>1. p \in Pos /\ p \in Int /\ p - 1 \in Int /\ p > 1
  BY DEF Prime, IsPrime, Pos
<1> DEFINE y == (x - 1) % p
<1>2. CASE y = 0
  <2>1. x - 1 = ((x - 1) \div p) * p /\ (x - 1) \div p \in Int
    BY <1>1, <1>2, DivMod DEF Pos
  <2>2. QED
    BY <1>1, <2>1 DEF Cong
<1>3. CASE y # 0
  <2>1. y \in Nat /\ Cong(x - 1, y, p) /\ y < p
    BY <1>1, DivMod, CongMod
  <2> HIDE DEF y
  <2>2. y \in 1..p - 1
    BY <1>1, <1>3, <2>1
  <2>3. Unit(y, p)
    BY <2>2, ResidueUnit
  <2>4. Unit(x - 1, p)
    BY <1>1, <2>1, <2>3, UnitCong
  <2>5. PICK k \in Int : x * x = 1 + k * p
    BY DEF Cong
  <2>6. (x - 1) * x = (x - 1) * (p - 1) + (k - (x - 1)) * p
    BY <1>1, <2>5
  <2>7. Cong((x - 1) * x, (x - 1) * (p - 1), p)
    BY <1>1, <2>6 DEF Cong
  <2>8. Cong(x, p - 1, p)
    BY <1>1, <2>4, <2>7, Cancel
  <2>9. QED
    BY <2>8
<1>4. QED
  BY <1>2, <1>3

LEMMA Quotient ==
  ASSUME NEW a \in Nat, NEW m \in Pos, a % m = 0
  PROVE  a \div m \in Nat /\ a = (a \div m) * m
<1> DEFINE d == a \div m
<1>1. d \in Int /\ a = d * m /\ m \in Nat /\ m > 0
  BY DivMod DEF Pos
<1> HIDE DEF d
<1>2. d >= 0
  <2>1. SUFFICES ASSUME d <= -1 PROVE FALSE
    BY <1>1
  <2>2. d * m < 0
    BY <1>1, <2>1
  <2>3. QED
    BY <1>1, <2>2
<1>3. d \in Nat /\ a = d * m
  BY <1>1, <1>2
<1>4. QED
  BY <1>3 DEF d

LEMMA PrimesPass ==
  ASSUME NEW n, Prime(n), Odd(n), n > 3, NEW a \in 2..(n - 2)
  PROVE  Passes(n, a)
<1> DEFINE P(k) == (n - 1) % TwoTo(k) = 0 /\ ((n - 1) \div TwoTo(k)) % 2 = 1
           r == CHOOSE k \in 1..n : P(k)
           d == (n - 1) \div TwoTo(r)
           x == powmod(a, d, n)
<1>1. n \in Pos /\ n \in Nat /\ n - 1 \in Nat /\ a \in Int
  BY DEF Odd, Pos
<1>2. r \in 1..n /\ P(r)
  <2>1. \E k \in 1..n : P(k)
    BY OddPartExists
  <2>2. QED
    BY <2>1
<1>3. Passes(n, a) <=> \/ x \in {1, n - 1}
                       \/ \E k \in 1..(r - 1) : powmod(x, TwoTo(k), n) = n - 1
  BY DEF Passes
<1> HIDE DEF r
<1>4. TwoTo(r) \in Pos /\ TwoTo(r) \in Nat /\ TwoTo(r) > 0 /\ r \in Nat
  BY <1>1, <1>2, Doubling DEF Pos
<1>5. d \in Nat /\ n - 1 = d * TwoTo(r)
  BY <1>1, <1>2, <1>4, Quotient
<1> HIDE DEF d
<1>6. x \in 0..n - 1 /\ Cong(x, power(a, d), n) /\ x = power(a, d) % n
      /\ power(a, d) \in Int
  <2>1. x = power(a, d) % n
    BY <1>1, <1>5, PowmodIs
  <2>2. power(a, d) \in Int
    BY <1>1, <1>5, PowerType
  <2> HIDE DEF x
  <2>3. /\ power(a, d) % n \in Nat /\ power(a, d) % n < n
        /\ Cong(power(a, d) % n, power(a, d), n)
    BY <1>1, <2>2, DivMod, CongMod
  <2>4. QED
    BY <1>1, <2>1, <2>2, <2>3
<1> HIDE DEF x
<1> DEFINE w(k) == power(a, d * TwoTo(k))
<1>7. \A k \in Nat : /\ TwoTo(k) \in Nat /\ d * TwoTo(k) \in Nat /\ w(k) \in Int
                     /\ w(k + 1) = w(k) * w(k)
                     /\ w(k) = power(power(a, d), TwoTo(k))
  <2>1. SUFFICES ASSUME NEW k \in Nat
                 PROVE  /\ TwoTo(k) \in Nat /\ d * TwoTo(k) \in Nat /\ w(k) \in Int
                        /\ w(k + 1) = w(k) * w(k)
                        /\ w(k) = power(power(a, d), TwoTo(k))
    OBVIOUS
  <2>2. TwoTo(k) \in Nat /\ TwoTo(k + 1) = 2 * TwoTo(k)
    BY Doubling DEF Pos
  <2>3. d * TwoTo(k) \in Nat
    BY <1>5, <2>2
  <2>4. d * TwoTo(k + 1) = d * TwoTo(k) + d * TwoTo(k)
    BY <1>5, <2>2
  <2>5. w(k) \in Int
    BY <1>1, <2>3, PowerType
  <2>6. w(k + 1) = w(k) * w(k)
    BY <1>1, <2>3, <2>4, PowerAdd
  <2>7. w(k) = power(power(a, d), TwoTo(k))
    BY <1>1, <1>5, <2>2, PowerTimes
  <2>8. QED
    BY <2>2, <2>3, <2>5, <2>6, <2>7
<1> DEFINE S == {k \in 0..r : Cong(w(k), 1, n)}
<1>8. r \in S
  <2>1. a \in 1..n - 1
    BY <1>1
  <2>2. Cong(power(a, n - 1), 1, n)
    BY <1>1, <2>1, ResidueUnit, Fermat
  <2>3. QED
    BY <1>4, <1>5, <2>2
<1>9. PICK k \in S : \A i \in S : k <= i
  <2>1. S \subseteq Nat
    OBVIOUS
  <2>2. QED
    BY <1>8, <2>1, Smallest
<1>10. CASE k = 0
  <2>1. w(0) = power(a, d)
    <3>1. TwoTo(0) = 1
      BY PowerZero DEF TwoTo
    <3>2. d * TwoTo(0) = d
      BY <1>5, <3>1
    <3>3. QED
      BY <3>2
  <2>2. Cong(power(a, d), 1, n)
    BY <1>9, <1>10, <2>1
  <2>3. Cong(x, 1, n)
    BY <1>1, <1>6, <2>2, CongTrans
  <2>4. 1 \in 0..n - 1 /\ x \in Int
    BY <1>1, <1>6
  <2>5. x = 1
    BY <1>1, <1>6, <2>3, <2>4, CongSmall
  <2>6. QED
    BY <1>3, <2>5
<1>11. CASE k # 0
  <2> DEFINE j == k - 1
  <2>1. j \in Nat /\ j + 1 = k /\ j < r /\ k \in 0..r /\ j \in 0..r
    BY <1>4, <1>9, <1>11
  <2>2. j \notin S
    BY <1>9, <2>1
  <2> HIDE DEF j
  <2>3. Cong(w(j) * w(j), 1, n) /\ w(j) \in Int
    BY <1>7, <1>9, <2>1
  <2>4. ~Cong(w(j), 1, n)
    BY <2>1, <2>2
  <2> DEFINE v == w(j)
  <2>5. v \in Int /\ Cong(v * v, 1, n) /\ ~Cong(v, 1, n)
    BY <2>3, <2>4
  <2> HIDE DEF v
  <2>6. Cong(v, n - 1, n)
    BY <2>5, SquareRoots
  <2>7. n - 1 \in 0..n - 1 /\ n - 1 \in Int /\ x \in Int
    BY <1>1, <1>6
  <2>8. v % n = n - 1
    BY <1>1, <2>5, <2>6, <2>7, CongIffMod, ModSmall
  <2>9. CASE j = 0
    <3>1. w(0) = power(a, d)
      <4>1. TwoTo(0) = 1
        BY PowerZero DEF TwoTo
      <4>2. d * TwoTo(0) = d
        BY <1>5, <4>1
      <4>3. QED
        BY <4>2
    <3>2. x = n - 1
      BY <1>6, <2>8, <2>9, <3>1 DEF v
    <3>3. QED
      BY <1>3, <3>2
  <2>10. CASE j # 0
    <3>1. j \in 1..(r - 1)
      BY <1>4, <2>1, <2>10
    <3>2. TwoTo(j) \in Nat /\ v = power(power(a, d), TwoTo(j))
      BY <1>7, <2>1 DEF v
    <3>3. Cong(power(x, TwoTo(j)), v, n) /\ power(x, TwoTo(j)) \in Int
      <4>1. Cong(power(x, TwoTo(j)), power(power(a, d), TwoTo(j)), n)
        BY <1>1, <1>6, <2>7, <3>2, PowerCong
      <4>2. QED
        BY <2>7, <3>2, <4>1, PowerType
    <3>4. power(x, TwoTo(j)) % n = n - 1
      BY <1>1, <2>5, <2>8, <3>3, CongIffMod
    <3>5. powmod(x, TwoTo(j), n) = n - 1
      BY <1>1, <2>7, <3>2, <3>4, PowmodIs
    <3>6. QED
      BY <1>3, <3>1, <3>5
  <2>11. QED
    BY <2>9, <2>10
<1>12. QED
  BY <1>10, <1>11

-----------------------------------------------------------------------------
\* Ciphertexts, under any key with the generator n + 1.

\* What is needed of the key for all but decryption.
Modulus(k) == k.n \in Nat /\ k.n > 1 /\ k.g = k.n + 1

LEMMA ModulusIs ==
  ASSUME NEW k, Modulus(k)
  PROVE  /\ k.n \in Pos /\ k.n \in Int /\ k.g \in Nat /\ k.g \in Int
         /\ n_squared(k) \in Pos /\ n_squared(k) \in Int /\ n_squared(k) > 1
         /\ n_squared(k) = k.n * k.n
<1>1. n_squared(k) = k.n * k.n /\ k.n > 1 /\ k.n \in Nat
  BY DEF Modulus, n_squared
<1>2. k.n * k.n > 1 /\ k.n * k.n \in Nat
  BY <1>1
<1>3. QED
  BY <1>1, <1>2 DEF Modulus, Pos

LEMMA GeneratorUnit ==
  ASSUME NEW k, Modulus(k), NEW m \in Nat
  PROVE  power(k.g, m) \in Int /\ Unit(power(k.g, m), n_squared(k))
<1>1. k.n \in Int /\ k.g = 1 + 1 * k.n /\ k.g \in Int /\ n_squared(k) = k.n * k.n
  BY ModulusIs DEF Modulus
<1>2. Cong(1 * k.g, 1, k.n)
  BY <1>1 DEF Cong
<1>3. Unit(k.g, k.n)
  BY <1>2 DEF Unit
<1>4. Unit(k.g, n_squared(k)) /\ n_squared(k) \in Int
  BY <1>1, <1>3, UnitSquare
<1>5. QED
  BY <1>1, <1>4, UnitPower, PowerType

LEMMA CoinIs ==
  ASSUME NEW k, Modulus(k), NEW r \in Coin(k)
  PROVE  /\ r \in Nat /\ r \in Int /\ r \in 1..k.n - 1
         /\ Unit(r, k.n) /\ Unit(r, n_squared(k))
<1>1. r \in Nat /\ r \in Int /\ r \in 1..k.n - 1 /\ pgcd(r, k.n) = 1
  BY ModulusIs DEF Coin
<1>2. Unit(r, k.n)
  BY <1>1, ModulusIs, PgcdUnit
<1>3. Unit(r, n_squared(k))
  BY <1>1, <1>2, ModulusIs, UnitSquare
<1>4. QED
  BY <1>1, <1>2, <1>3

LEMMA EncryptIs ==
  ASSUME NEW k, Modulus(k), NEW m \in Nat, NEW r \in Coin(k)
  PROVE  /\ paillier_encrypt(m, k, r) \in 1..n_squared(k) - 1
         /\ Unit(paillier_encrypt(m, k, r), n_squared(k))
         /\ Cong(paillier_encrypt(m, k, r), power(k.g, m) * power(r, k.n), n_squared(k))
<1> DEFINE N == n_squared(k)
           a == power(k.g, m)
           b == power(r, k.n)
<1>1. /\ N \in Pos /\ N \in Int /\ N > 1 /\ k.g \in Int /\ k.n \in Nat
      /\ r \in Int /\ Unit(r, N)
  BY ModulusIs, CoinIs DEF Modulus
<1>2. a \in Int /\ b \in Int /\ Unit(a, N) /\ Unit(b, N)
  BY <1>1, GeneratorUnit, UnitPower, PowerType
<1>3. paillier_encrypt(m, k, r) = ((a % N) * (b % N)) % N
  BY <1>1, PowmodIs DEF paillier_encrypt
<1> HIDE DEF N, a, b
<1>4. paillier_encrypt(m, k, r) = (a * b) % N /\ a * b \in Int
  BY <1>1, <1>2, <1>3, ModMul
<1>5. Unit(a * b, N)
  BY <1>1, <1>2, UnitMul
<1>6. Cong((a * b) % N, a * b, N) /\ (a * b) % N \in 1..N - 1 /\ (a * b) % N \in Int
  <2>1. (a * b) % N \in 1..N - 1
    BY <1>1, <1>4, <1>5, UnitNotZero
  <2>2. QED
    BY <1>1, <1>4, <2>1, CongMod
<1>7. Unit((a * b) % N, N)
  BY <1>1, <1>4, <1>5, <1>6, UnitCong
<1>8. QED
  BY <1>4, <1>6, <1>7 DEF N, a, b

\* x modulo n in the exponent of the generator is x modulo n behind l.
LEMMA GeneratorPower ==
  ASSUME NEW k, Modulus(k), NEW x \in Nat
  PROVE  power(k.g, x) % n_squared(k) = (x % k.n) * k.n + 1
<1> DEFINE n == k.n
           y == x % n
           N == n_squared(k)
<1>1. n \in Pos /\ n \in Nat /\ n > 1 /\ N = n * n /\ N \in Pos /\ k.g = 1 + n
  BY ModulusIs DEF Modulus
<1>2. power(1 + n, x) \in Int /\ Cong(power(1 + n, x), 1 + x * n, n * n)
  <2>1. n \in Int /\ 1 + n \in Int
    BY <1>1
  <2> HIDE DEF n, N
  <2>2. QED
    BY <2>1, PowerOfOnePlus, PowerType
<1> HIDE DEF n, N
<1>3. y \in Nat /\ y < n /\ x = (x \div n) * n + y /\ x \div n \in Int
  BY <1>1, DivMod
<1> HIDE DEF y
<1>4. PICK d \in Int : x = d * n + y
  BY <1>3
<1>5. 1 + x * n = (y * n + 1) + d * (n * n)
  BY <1>1, <1>3, <1>4
<1>6. Cong(1 + x * n, y * n + 1, N)
  BY <1>1, <1>4, <1>5 DEF Cong
<1>7. y * n + 1 \in 0..N - 1
  <2>1. y * n + n <= n * n
    BY <1>1, <1>3, Products
  <2>2. y * n + 1 >= 0
    BY <1>1, <1>3
  <2>3. QED
    BY <1>1, <1>3, <2>1, <2>2
<1>8. Cong(power(1 + n, x), y * n + 1, N) /\ y * n + 1 \in Int /\ 1 + x * n \in Int
  BY <1>1, <1>2, <1>3, <1>6, <1>7, CongTrans
<1>9. power(1 + n, x) % N = (y * n + 1) % N
  BY <1>1, <1>2, <1>8, CongIffMod
<1>10. (y * n + 1) % N = y * n + 1
  BY <1>1, <1>7, ModSmall
<1>11. QED
  BY <1>1, <1>9, <1>10 DEF n, N, y

LEMMA LogIs ==
  ASSUME NEW n \in Pos, NEW y \in Int
  PROVE  l(y * n + 1, n) = y
<1>1. n \in Int /\ (y * n + 1) - 1 = y * n + 0 /\ 0 \in Nat /\ 0 < n
  BY DEF Pos
<1>2. (y * n + 0) \div n = y
  BY <1>1, DivUnique
<1>3. QED
  BY <1>1, <1>2 DEF l

-----------------------------------------------------------------------------
\* The key of two primes of the size generate_prime draws, and decryption.

KeyPrimes(p, q) ==
  /\ Prime(p) /\ Odd(p) /\ Prime(q) /\ Odd(q)
  /\ p # q /\ p < 2 * q /\ q < 2 * p

LEMMA KeyIs ==
  ASSUME NEW p, NEW q, KeyPrimes(p, q)
  PROVE  LET k == keypair(p, q) IN
         /\ Modulus(k) /\ k.n = p * q
         /\ k.lambda = ppcm(p - 1, q - 1) /\ k.lambda \in Nat
         /\ k.mu \in 1..k.n - 1 /\ Cong(k.mu * k.lambda, 1, k.n)
<1> DEFINE k == keypair(p, q)
           n == p * q
           lambda == ppcm(p - 1, q - 1)
<1>1. p \in Nat /\ p > 1 /\ q \in Nat /\ q > 1 /\ p - 1 \in Pos /\ q - 1 \in Pos
  BY DEF KeyPrimes, Prime, IsPrime, Pos
<1>2. n \in Nat /\ n > 1
  BY <1>1
<1>3. lambda \in Pos /\ lambda \in Nat
  BY <1>1, PpcmIs DEF Pos
<1>4. Unit(lambda, n)
  BY LambdaIsUnit DEF KeyPrimes
<1>5. /\ k.n = n /\ k.g = n + 1 /\ k.lambda = lambda
      /\ k.mu = modinv(l(powmod(n + 1, lambda, n * n), n), n)
  BY DEF keypair
<1> HIDE DEF k, n, lambda
<1>6. Modulus(k) /\ n_squared(k) = n * n
  BY <1>2, <1>5 DEF Modulus, n_squared
<1>7. n \in Pos /\ n * n \in Pos /\ n \in Int /\ n + 1 \in Int
  BY <1>2, <1>5, <1>6, ModulusIs
<1> DEFINE y == lambda % n
<1>8. powmod(n + 1, lambda, n * n) = power(n + 1, lambda) % (n * n)
  BY <1>3, <1>7, PowmodIs
<1>9. power(n + 1, lambda) % (n * n) = y * n + 1
  BY <1>3, <1>5, <1>6, GeneratorPower
<1>10. y \in Nat /\ y \in Int /\ Cong(y, lambda, n)
  BY <1>3, <1>7, DivMod, CongMod
<1> HIDE DEF y
<1>11. k.mu = modinv(y, n)
  BY <1>5, <1>7, <1>8, <1>9, <1>10, LogIs
<1>12. Unit(y, n)
  BY <1>3, <1>4, <1>7, <1>10, UnitCong
<1>13. k.mu \in 0..n - 1 /\ Cong(k.mu * y, 1, n)
  BY <1>7, <1>10, <1>11, <1>12, ModinvUnit
<1>14. k.mu \in Int /\ lambda \in Int
  BY <1>3, <1>13
<1>15. Cong(k.mu * lambda, 1, n)
  <2>1. Cong(lambda, y, n)
    BY <1>7, <1>10, <1>14, CongSym
  <2>2. Cong(k.mu * lambda, k.mu * y, n)
    BY <1>7, <1>10, <1>14, <2>1, CongScale
  <2>3. k.mu * lambda \in Int /\ k.mu * y \in Int
    BY <1>10, <1>14
  <2>4. QED
    BY <1>7, <1>13, <2>2, <2>3, CongTrans
<1>16. k.mu # 0
  <2>1. SUFFICES ASSUME k.mu = 0 PROVE FALSE
    OBVIOUS
  <2>2. k.mu * y = 0
    BY <1>10, <2>1
  <2>3. Cong(0, 1, n)
    BY <1>13, <2>2
  <2>4. 0 \in 0..n - 1 /\ 1 \in 0..n - 1
    BY <1>2
  <2>5. QED
    BY <1>7, <2>3, <2>4, CongSmall
<1>17. QED
  BY <1>2, <1>3, <1>5, <1>6, <1>13, <1>15, <1>16 DEF k, n, lambda

LEMMA PowerOfCipher ==
  ASSUME NEW g \in Int, NEW x \in Nat, NEW r \in Int, NEW n \in Nat, NEW t \in Nat
  PROVE  power(power(g, x) * power(r, n), t) = power(g, x * t) * power(power(r, t), n)
<1> DEFINE a == power(g, x)
           b == power(r, n)
<1>1. a \in Int /\ b \in Int
  BY PowerType
<1>2. power(a, t) = power(g, x * t) /\ power(b, t) = power(r, n * t)
  BY PowerTimes
<1>3. power(r, t * n) = power(power(r, t), n) /\ n * t = t * n
  BY PowerTimes
<1> HIDE DEF a, b
<1>4. power(a * b, t) = power(a, t) * power(b, t)
  BY <1>1, PowerProduct
<1>5. QED
  BY <1>2, <1>3, <1>4 DEF a, b

\* What decryption makes of the generator to any power times an n-th power.
LEMMA DecryptIs ==
  ASSUME NEW p, NEW q, KeyPrimes(p, q), NEW k, k = keypair(p, q),
         NEW x \in 0..k.n - 1, NEW r \in Int, Unit(r, k.n), NEW c \in Int,
         Cong(c, power(k.g, x) * power(r, k.n), n_squared(k))
  PROVE  paillier_decrypt(c, k) = x
<1> DEFINE n == k.n
           N == n_squared(k)
           t == k.lambda
           a == power(k.g, x)
           b == power(r, n)
<1>1. /\ Modulus(k) /\ n = p * q /\ t = ppcm(p - 1, q - 1) /\ t \in Nat
      /\ k.mu \in 1..n - 1 /\ Cong(k.mu * t, 1, n)
  BY KeyIs
<1>2. n \in Pos /\ n \in Nat /\ n \in Int /\ N \in Pos /\ N \in Int /\ N = n * n
      /\ k.g \in Int /\ x \in Nat
  BY <1>1, ModulusIs DEF Modulus
<1>3. a \in Int /\ b \in Int /\ a * b \in Int
  <2>1. a \in Int
    BY <1>2, PowerType
  <2>2. b \in Int
    BY <1>2, PowerType
  <2> HIDE DEF a, b
  <2>3. QED
    BY <2>1, <2>2
<1>4. Cong(power(c, t), power(a * b, t), N)
  BY <1>1, <1>2, <1>3, PowerCong
<1>5. power(a * b, t) = power(k.g, x * t) * power(power(r, t), n)
  <2> DEFINE h == k.g
  <2>1. h \in Int /\ x \in Nat /\ r \in Int /\ n \in Nat /\ t \in Nat
    BY <1>1, <1>2
  <2> HIDE DEF h, n, t
  <2>2. power(power(h, x) * power(r, n), t) = power(h, x * t) * power(power(r, t), n)
    BY <2>1, PowerOfCipher
  <2>3. QED
    BY <2>2 DEF h
<1>6. Cong(power(power(r, t), n), 1, N)
  <2>1. Cong(power(r, t), 1, n)
    BY <1>1, Carmichael DEF KeyPrimes
  <2>2. power(r, t) \in Int
    BY <1>1, PowerType
  <2>3. Cong(power(power(r, t), n), power(1, n), N)
    BY <1>2, <2>1, <2>2, NthPower
  <2>4. power(1, n) = 1
    BY <1>2, OneToThe
  <2>5. QED
    BY <2>3, <2>4
<1> DEFINE e == x * t
           v == power(power(r, t), n)
<1>7. e \in Nat /\ power(k.g, e) \in Int /\ v \in Int
  <2>1. e \in Nat
    BY <1>1, <1>2
  <2>2. power(r, t) \in Int
    BY <1>1, PowerType
  <2>3. v \in Int
    BY <1>2, <2>2, PowerType
  <2> HIDE DEF e, v
  <2>4. QED
    BY <1>2, <2>1, <2>3, PowerType
<1> HIDE DEF n, N, t, a, b, v, e
<1>8. Cong(power(k.g, e) * v, power(k.g, e), N)
  <2>1. Cong(power(k.g, e) * v, power(k.g, e) * 1, N)
    <3>1. Cong(v, 1, N)
      BY <1>6 DEF v
    <3> DEFINE g == power(k.g, e)
    <3>2. g \in Int /\ v \in Int /\ N \in Int /\ 1 \in Int
      BY <1>2, <1>7
    <3> HIDE DEF g
    <3>3. Cong(g * v, g * 1, N)
      BY ONLY <3>1, <3>2, CongScale
    <3>4. QED
      BY <3>3 DEF g
  <2>2. QED
    BY <1>7, <2>1
<1>9. power(c, t) \in Int /\ Cong(power(c, t), power(k.g, e), N)
  <2>1. power(c, t) \in Int
    BY <1>1, PowerType
  <2>2. Cong(power(c, t), power(k.g, e) * v, N) /\ power(k.g, e) * v \in Int
    BY <1>4, <1>5, <1>7 DEF v, e
  <2>3. QED
    BY <1>2, <1>7, <1>8, <2>1, <2>2, CongTrans
<1>10. powmod(c, t, N) = (e % n) * n + 1
  <2>1. powmod(c, t, N) = power(c, t) % N
    BY <1>1, <1>2, PowmodIs
  <2>2. power(c, t) % N = power(k.g, e) % N
    BY <1>2, <1>7, <1>9, CongIffMod
  <2>3. power(k.g, e) % N = (e % n) * n + 1
    BY <1>1, <1>7, GeneratorPower DEF n, N
  <2>4. QED
    BY <2>1, <2>2, <2>3
<1>11. e % n \in Int /\ Cong(e % n, e, n)
  BY <1>2, <1>7, DivMod, CongMod
<1>12. l(powmod(c, t, N), n) = e % n
  BY <1>2, <1>10, <1>11, LogIs
<1> DEFINE m == k.mu
           f == e % n
<1>13. paillier_decrypt(c, k) = (f * m) % n
  BY <1>12 DEF paillier_decrypt, n, N, t
<1>14. m \in Int /\ f \in Int /\ t \in Int /\ Cong(f, e, n) /\ Cong(m * t, 1, n)
  BY <1>1, <1>2, <1>11
<1> HIDE DEF m, f
<1>15. Cong(f * m, x, n)
  <2>1. Cong(m * f, m * e, n)
    BY <1>2, <1>7, <1>14, CongScale
  <2>2. m * e = x * (m * t) /\ m * f = f * m /\ x * 1 = x
    BY <1>2, <1>14 DEF e
  <2>3. Cong(x * (m * t), x * 1, n)
    <3> DEFINE w == m * t
    <3>1. w \in Int /\ x \in Int /\ n \in Int /\ 1 \in Int /\ Cong(w, 1, n)
      BY <1>2, <1>14
    <3> HIDE DEF w
    <3>2. Cong(x * w, x * 1, n)
      BY ONLY <3>1, CongScale
    <3>3. QED
      BY <3>2 DEF w
  <2>4. m * e \in Int /\ f * m \in Int
    BY <1>7, <1>14
  <2>5. QED
    BY <1>2, <2>1, <2>2, <2>3, <2>4, CongTrans
<1>16. (f * m) % n = x % n
  BY <1>2, <1>14, <1>15, CongIffMod
<1>17. x % n = x
  BY <1>2, ModSmall DEF n
<1>18. QED
  BY <1>13, <1>16, <1>17

-----------------------------------------------------------------------------
\* The sum of the ballots.  k is the key, bs the ballots.

\* A ciphertext of 1 for the candidate chosen, of 0 for the others.
Encrypted(bs, k) ==
  \A b \in 1..Len(bs) :
    /\ bs[b].choice \in 1..CandidateCount
    /\ bs[b].vote \in [1..CandidateCount -> 1..n_squared(k) - 1]
    /\ \A i \in 1..CandidateCount : \E r \in Coin(k) :
         bs[b].vote[i] = paillier_encrypt(IF i = bs[b].choice THEN 1 ELSE 0, k, r)

Sums(s, bs, i, k, n) ==
  s = [b \in 0..n |-> IF b = 0 THEN 1 ELSE add(s[b - 1], bs[b].vote[i], k)]

Chosen(bs, i, n) == {b \in 1..n : bs[b].choice = i}

LEMMA SumsExist ==
  ASSUME NEW bs, NEW i, NEW k, NEW n \in Nat
  PROVE  \E s : Sums(s, bs, i, k, n)
<1> DEFINE V(b) == bs[b].vote[i]
           Plus(x, y) == add(x, y, k)
           Is(s, m) == s = [b \in 0..m |-> IF b = 0 THEN 1 ELSE Plus(s[b - 1], V(b))]
           Bad == {m \in Nat : ~ \E s : Is(s, m)}
<1>1. \A s, m : Is(s, m) <=> Sums(s, bs, i, k, m)
  BY DEF Sums
<1> HIDE DEF V, Plus, Is
<1>2. SUFFICES ASSUME Bad # {} PROVE FALSE
  BY <1>1
<1>3. PICK m \in Bad : \A j \in Bad : m <= j
  BY <1>2, Smallest
<1>4. m # 0
  <2>1. Is([b \in 0..0 |-> 1], 0)
    BY DEF Is
  <2>2. QED
    BY <1>3, <2>1
<1>5. m - 1 \in Nat /\ m - 1 \notin Bad
  BY <1>3, <1>4
<1>6. PICK q : Is(q, m - 1)
  BY <1>5
<1> DEFINE s == [b \in 0..m |-> IF b < m THEN q[b] ELSE Plus(q[m - 1], V(m))]
<1>7. \A b \in 0..m : s[b] = IF b = 0 THEN 1 ELSE Plus(s[b - 1], V(b))
  <2>1. SUFFICES ASSUME NEW b \in 0..m
                 PROVE  s[b] = IF b = 0 THEN 1 ELSE Plus(s[b - 1], V(b))
    OBVIOUS
  <2>2. \A j \in 0..m - 1 : q[j] = IF j = 0 THEN 1 ELSE Plus(q[j - 1], V(j))
    BY <1>5, <1>6 DEF Is
  <2>3. CASE b = m
    <3>1. s[b] = Plus(q[m - 1], V(m)) /\ s[b - 1] = q[m - 1]
      BY <1>4, <1>5, <2>3
    <3>2. QED
      BY <1>4, <2>3, <3>1
  <2>4. CASE b < m
    <3>1. b \in 0..m - 1 /\ s[b] = q[b] /\ (b # 0 => s[b - 1] = q[b - 1])
      BY <1>5, <2>4
    <3>2. QED
      BY <2>2, <3>1
  <2>5. QED
    BY <2>3, <2>4
<1>8. Is(s, m)
  BY <1>7 DEF Is
<1>9. QED
  BY <1>3, <1>8

LEMMA ChosenIs ==
  ASSUME NEW bs, NEW i, NEW n \in Nat
  PROVE  /\ IsFiniteSet(Chosen(bs, i, n)) /\ Cardinality(Chosen(bs, i, n)) \in 0..n
         /\ Chosen(bs, i, 0) = {} /\ Cardinality({}) = 0
         /\ Cardinality(Chosen(bs, i, n + 1)) =
              Cardinality(Chosen(bs, i, n)) + IF i = bs[n + 1].choice THEN 1 ELSE 0
<1>1. IsFiniteSet(1..n) /\ Cardinality(1..n) = n
  BY FS_Interval
<1>2. Chosen(bs, i, n) \subseteq 1..n
  BY DEF Chosen
<1>3. IsFiniteSet(Chosen(bs, i, n)) /\ Cardinality(Chosen(bs, i, n)) <= n
  BY <1>1, <1>2, FS_Subset
<1>4. Cardinality(Chosen(bs, i, n)) \in Nat
  BY <1>3, FS_CardinalityType
<1>5. Chosen(bs, i, 0) = {} /\ Cardinality({}) = 0
  BY FS_EmptySet DEF Chosen
<1>6. CASE i = bs[n + 1].choice
  <2>1. Chosen(bs, i, n + 1) = Chosen(bs, i, n) \cup {n + 1}
    BY <1>6 DEF Chosen
  <2>2. n + 1 \notin Chosen(bs, i, n)
    BY DEF Chosen
  <2>3. Cardinality(Chosen(bs, i, n + 1)) = Cardinality(Chosen(bs, i, n)) + 1
    BY <1>3, <2>1, <2>2, FS_AddElement
  <2>4. QED
    BY <1>3, <1>4, <1>5, <1>6, <2>3
<1>7. CASE i # bs[n + 1].choice
  <2>1. Chosen(bs, i, n + 1) = Chosen(bs, i, n)
    BY <1>7 DEF Chosen
  <2>2. QED
    BY <1>3, <1>4, <1>5, <1>7, <2>1
<1>8. QED
  BY <1>6, <1>7

\* A ciphertext of x, under some random number.
Hides(c, x, k) ==
  /\ c \in 1..n_squared(k) - 1
  /\ \E r \in Int : /\ Unit(r, k.n)
                    /\ Cong(c, power(k.g, x) * power(r, k.n), n_squared(k))

LEMMA OneHidesZero ==
  ASSUME NEW k, Modulus(k)
  PROVE  Hides(1, 0, k)
<1>1. k.g \in Int /\ k.n \in Nat /\ k.n \in Int /\ n_squared(k) \in Int
      /\ n_squared(k) > 1
  BY ModulusIs DEF Modulus
<1>2. power(k.g, 0) = 1 /\ power(1, k.n) = 1 /\ 1 * 1 = 1
  BY <1>1, PowerZero, OneToThe
<1>3. Cong(1, 1, k.n) /\ Cong(1, 1, n_squared(k))
  BY <1>1, CongRefl
<1>4. Unit(1, k.n)
  BY <1>2, <1>3 DEF Unit
<1>5. 1 \in 1..n_squared(k) - 1
  BY <1>1
<1>6. Cong(1, power(k.g, 0) * power(1, k.n), n_squared(k))
  BY <1>2, <1>3
<1>7. QED
  BY <1>4, <1>5, <1>6 DEF Hides

\* The product of two ciphertexts hides the sum.
LEMMA AddIs ==
  ASSUME NEW k, Modulus(k), NEW x \in Nat, NEW y \in Nat, NEW c, NEW d,
         Hides(c, x, k), Hides(d, y, k)
  PROVE  Hides(add(c, d, k), x + y, k)
<1> DEFINE N == n_squared(k)
           n == k.n
<1>1. /\ k.g \in Int /\ n \in Nat /\ n \in Int /\ N \in Int /\ N > 1 /\ N \in Pos
      /\ N = n * n
  BY ModulusIs DEF Modulus
<1>2. PICK r \in Int : Unit(r, n) /\ Cong(c, power(k.g, x) * power(r, n), N)
  BY DEF Hides
<1>3. PICK t \in Int : Unit(t, n) /\ Cong(d, power(k.g, y) * power(t, n), N)
  BY DEF Hides
<1>4. c \in Int /\ d \in Int
  BY DEF Hides
<1> DEFINE a == power(k.g, x)
           b == power(k.g, y)
           u == power(r, n)
           v == power(t, n)
<1>5. a \in Int /\ b \in Int /\ Unit(a, N) /\ Unit(b, N)
  BY GeneratorUnit
<1>6. u \in Int /\ v \in Int /\ Unit(u, N) /\ Unit(v, N)
  <2>1. Unit(r, n * n) /\ Unit(t, n * n)
    BY <1>1, <1>2, <1>3, UnitSquare
  <2>2. Unit(u, N) /\ Unit(v, N)
    BY <1>1, <2>1, UnitPower
  <2>3. QED
    BY <1>1, <2>2, PowerType
<1>7. power(k.g, x + y) = a * b /\ power(r * t, n) = u * v /\ Unit(r * t, n)
  <2>1. power(k.g, x + y) = a * b
    BY <1>1, PowerAdd
  <2>2. power(r * t, n) = u * v
    BY <1>1, PowerProduct
  <2>3. Unit(r * t, n)
    BY <1>1, <1>2, <1>3, UnitMul
  <2>4. QED
    BY <2>1, <2>2, <2>3
<1>8. Cong(c, a * u, N) /\ Cong(d, b * v, N)
  BY <1>2, <1>3
<1> HIDE DEF N, n, a, b, u, v
<1>9. a * u \in Int /\ b * v \in Int /\ Unit(a * u, N) /\ Unit(b * v, N)
  BY <1>1, <1>5, <1>6, UnitMul
<1> DEFINE w == c * d
           z == (a * u) * (b * v)
<1>10. w \in Int /\ z \in Int /\ Cong(w, z, N) /\ Unit(z, N)
  <2>1. Cong(w, z, N)
    BY <1>1, <1>4, <1>8, <1>9, CongMul
  <2>2. Unit(z, N)
    BY <1>1, <1>9, UnitMul
  <2>3. QED
    BY <1>4, <1>9, <2>1, <2>2
<1>11. z = (a * b) * (u * v)
  BY <1>5, <1>6
<1> HIDE DEF w, z
<1>12. Unit(w, N)
  BY <1>1, <1>10, UnitCong
<1>13. w % N \in 1..N - 1 /\ Cong(w % N, w, N)
  BY <1>1, <1>10, <1>12, UnitNotZero, CongMod
<1>14. w % N \in Int
  BY <1>13
<1>15. Cong(w % N, z, N)
  BY <1>1, <1>10, <1>13, <1>14, CongTrans
<1>16. add(c, d, k) = w % N
  BY DEF add, w, N
<1>17. Cong(add(c, d, k), power(k.g, x + y) * power(r * t, n), N)
  BY <1>7, <1>11, <1>15, <1>16
<1>18. r * t \in Int
  OBVIOUS
<1>19. QED
  BY <1>7, <1>13, <1>16, <1>17, <1>18 DEF Hides, N, n

LEMMA SumIs ==
  ASSUME NEW k, Modulus(k), NEW bs, Len(bs) \in Nat, Encrypted(bs, k),
         NEW i \in 1..CandidateCount, NEW s, Sums(s, bs, i, k, Len(bs))
  PROVE  \A n \in 0..Len(bs) : Hides(s[n], Cardinality(Chosen(bs, i, n)), k)
<1> DEFINE H(n) == Hides(s[n], Cardinality(Chosen(bs, i, n)), k)
           Bad == {n \in 0..Len(bs) : ~H(n)}
<1>1. SUFFICES ASSUME Bad # {} PROVE FALSE
  OBVIOUS
<1>2. PICK n \in Bad : \A j \in Bad : n <= j
  <2>1. Bad \subseteq Nat
    OBVIOUS
  <2>2. QED
    BY <1>1, <2>1, Smallest
<1>3. n \in 0..Len(bs) /\ ~H(n)
  BY <1>2
<1>4. s[n] = IF n = 0 THEN 1 ELSE add(s[n - 1], bs[n].vote[i], k)
  BY <1>3 DEF Sums
<1>5. n # 0
  <2>1. SUFFICES ASSUME n = 0 PROVE FALSE
    OBVIOUS
  <2>2. 0 \in Nat
    OBVIOUS
  <2>3. Cardinality(Chosen(bs, i, 0)) = 0
    BY <2>2, ChosenIs
  <2>4. s[0] = 1
    BY <1>4, <2>1
  <2>5. QED
    BY <1>3, <2>1, <2>3, <2>4, OneHidesZero
<1> DEFINE m == n - 1
           x == Cardinality(Chosen(bs, i, m))
           y == IF i = bs[n].choice THEN 1 ELSE 0
           d == bs[n].vote[i]
<1>6. m \in Nat /\ m \in 0..Len(bs) /\ m + 1 = n /\ n \in 1..Len(bs) /\ m \notin Bad
  BY <1>2, <1>3, <1>5
<1>7. Hides(s[m], x, k)
  BY <1>6
<1>8. x \in Nat /\ y \in Nat /\ Cardinality(Chosen(bs, i, n)) = x + y
  <2> HIDE DEF m
  <2>1. /\ Cardinality(Chosen(bs, i, m)) \in 0..m
        /\ Cardinality(Chosen(bs, i, m + 1)) =
             Cardinality(Chosen(bs, i, m)) + IF i = bs[m + 1].choice THEN 1 ELSE 0
    BY <1>6, ChosenIs
  <2>2. QED
    BY <1>6, <2>1
<1>9. Hides(d, y, k)
  <2>1. PICK r \in Coin(k) : d = paillier_encrypt(y, k, r)
    BY <1>6 DEF Encrypted
  <2>2. r \in Int /\ Unit(r, k.n)
    BY CoinIs
  <2> HIDE DEF d, y
  <2>3. /\ d \in 1..n_squared(k) - 1
        /\ Cong(d, power(k.g, y) * power(r, k.n), n_squared(k))
    BY <1>8, <2>1, EncryptIs
  <2>4. QED
    BY <2>2, <2>3 DEF Hides
<1> HIDE DEF x, y, d, H, Bad
<1>10. s[n] = add(s[m], d, k)
  BY <1>4, <1>5 DEF d
<1>11. Hides(add(s[m], d, k), x + y, k)
  BY <1>7, <1>8, <1>9, AddIs
<1>12. QED
  BY <1>3, <1>8, <1>10, <1>11 DEF H

-----------------------------------------------------------------------------
\* The proofs: zkp_verify accepts what zkp_prove makes, under any key.

\* g_minus_m in the code.
LEMMA InverseOfGenerator ==
  ASSUME NEW k, Modulus(k), NEW v \in Nat
  PROVE  LET inv == modinv(powmod(k.g, v, n_squared(k)), n_squared(k))
         IN  inv \in Nat /\ Cong(inv * power(k.g, v), 1, n_squared(k))
<1> DEFINE N == n_squared(k)
           a == power(k.g, v)
           b == a % N
           inv == modinv(powmod(k.g, v, N), N)
<1>1. N \in Pos /\ N \in Int /\ k.g \in Int
  BY ModulusIs
<1>2. a \in Int /\ Unit(a, N)
  BY GeneratorUnit
<1>3. powmod(k.g, v, N) = b
  BY <1>1, PowmodIs
<1> HIDE DEF N, a
<1>4. b \in Nat /\ Cong(b, a, N) /\ Cong(a, b, N)
  BY <1>1, <1>2, DivMod, CongMod
<1> HIDE DEF b
<1>5. Unit(b, N)
  BY <1>1, <1>2, <1>4, UnitCong
<1>6. inv \in 0..N - 1 /\ Cong(inv * b, 1, N)
  BY <1>1, <1>3, <1>4, <1>5, ModinvUnit
<1> HIDE DEF inv
<1>7. inv \in Int /\ inv \in Nat
  BY <1>6
<1>8. Cong(inv * a, inv * b, N) /\ inv * a \in Int /\ inv * b \in Int
  <2>1. a \in Int /\ b \in Int /\ N \in Int /\ inv \in Int /\ Cong(a, b, N)
    BY <1>1, <1>2, <1>4, <1>7
  <2>2. QED
    BY ONLY <2>1, CongScale
<1>9. Cong(inv * a, 1, N)
  BY <1>1, <1>6, <1>8, CongTrans
<1>10. QED
  BY <1>7, <1>9 DEF inv, a, N

\* The equation of the value that was encrypted.
LEMMA RealVerifies ==
  ASSUME NEW k, Modulus(k), NEW m \in Nat, NEW r \in Coin(k), NEW s \in Coin(k),
         NEW rest \in Nat
  PROVE  LET N == n_squared(k)
             c == paillier_encrypt(m, k, r)
             term == (c * modinv(powmod(k.g, m, N), N)) % N
         IN  powmod((s * powmod(r, rest, k.n)) % k.n, k.n, N)
               = (powmod(s, k.n, N) * powmod(term, rest, N)) % N
<1> DEFINE N == n_squared(k)
           n == k.n
           c == paillier_encrypt(m, k, r)
           inv == modinv(powmod(k.g, m, N), N)
           g == power(k.g, m)
           b == power(r, n)
           t == c * inv
           term == t % N
           p == power(r, rest)
           z == (s * powmod(r, rest, n)) % n
<1>1. N \in Pos /\ N \in Int /\ n \in Pos /\ n \in Nat /\ n \in Int /\ N = n * n
  BY ModulusIs DEF Modulus
<1>2. r \in Int /\ s \in Int
  BY CoinIs
<1>3. inv \in Nat /\ inv \in Int /\ Cong(inv * g, 1, N)
  BY InverseOfGenerator
<1>4. c \in Int /\ Cong(c, g * b, N)
  BY EncryptIs
<1>5. g \in Int
  BY GeneratorUnit
<1>6. b \in Int /\ p \in Int
  BY <1>1, <1>2, PowerType
<1>7. powmod(r, rest, n) = p % n /\ powmod(s, n, N) = power(s, n) % N
      /\ power(s, n) \in Int
  BY <1>1, <1>2, PowmodIs, PowerType
<1> HIDE DEF N, c, inv, g, n
<1>8. Cong(t, b, N) /\ t \in Int
  <2>1. Cong(inv * c, inv * (g * b), N)
    BY <1>1, <1>3, <1>4, <1>5, <1>6, CongScale
  <2>2. inv * c = t /\ inv * (g * b) = b * (inv * g) /\ b * 1 = b
    BY <1>3, <1>4, <1>5, <1>6
  <2> DEFINE w == inv * g
  <2>3. w \in Int /\ Cong(w, 1, N)
    BY <1>3, <1>5
  <2> HIDE DEF w
  <2>4. Cong(b * w, b * 1, N)
    <3>1. b \in Int /\ N \in Int /\ 1 \in Int
      BY <1>1, <1>6
    <3>2. QED
      BY ONLY <2>3, <3>1, CongScale
  <2>5. t \in Int /\ b * w \in Int
    BY <1>3, <1>4, <1>6, <2>3
  <2>6. Cong(t, b * w, N) /\ Cong(b * w, b, N)
    BY <2>1, <2>2, <2>4 DEF w
  <2>7. QED
    BY <1>1, <1>6, <2>5, <2>6, CongTrans
<1> HIDE DEF t, b, p
<1>9. term \in Int /\ Cong(term, b, N)
  <2>1. term \in Int /\ Cong(term, t, N)
    BY <1>1, <1>8, DivMod, CongMod
  <2>2. QED
    BY <1>1, <1>6, <1>8, <2>1, CongTrans
<1> HIDE DEF term
<1> DEFINE x == power(term, rest)
           y == power(b, rest)
           u == power(s, n)
<1>10. powmod(term, rest, N) = x % N /\ x \in Int /\ y \in Int /\ Cong(x, y, N)
  BY <1>1, <1>6, <1>9, PowmodIs, PowerType, PowerCong
<1>11. z \in Int /\ Cong(z, s * p, n) /\ s * p \in Int
  <2> DEFINE h == p % n
  <2>1. h \in Int /\ Cong(h, p, n)
    BY <1>1, <1>6, DivMod, CongMod
  <2>2. z = (s * h) % n
    BY <1>7
  <2> HIDE DEF h, z
  <2>3. Cong(s * h, s * p, n) /\ s * h \in Int /\ s * p \in Int
    BY <1>1, <1>2, <1>6, <2>1, CongScale
  <2>4. z \in Int /\ Cong(z, s * h, n)
    BY <1>1, <2>2, <2>3, DivMod, CongMod
  <2>5. QED
    BY <1>1, <2>3, <2>4, CongTrans
<1> HIDE DEF z, u, x
<1>12. Cong(power(z, n), power(s * p, n), N)
  BY <1>1, <1>11, NthPower
<1>13. power(s * p, n) = u * y
  <2>1. power(s * p, n) = u * power(p, n)
    BY <1>1, <1>2, <1>6, PowerProduct DEF u
  <2>2. power(p, n) = power(r, rest * n) /\ y = power(r, n * rest)
    BY <1>1, <1>2, PowerTimes DEF p, b
  <2>3. rest * n = n * rest
    BY <1>1
  <2>4. QED
    BY <2>1, <2>2, <2>3
<1> HIDE DEF y
<1>14. u \in Int /\ power(z, n) \in Int /\ Cong(u * x, u * y, N)
  <2>1. u \in Int
    BY <1>7 DEF u
  <2>2. power(z, n) \in Int
    BY <1>1, <1>11, PowerType
  <2>3. Cong(u * x, u * y, N)
    BY <1>1, <1>10, <2>1, CongScale
  <2>4. QED
    BY <2>1, <2>2, <2>3
<1>15. (u * x) % N = (u * y) % N /\ power(z, n) % N = (u * y) % N
  <2>1. u * x \in Int /\ u * y \in Int
    BY <1>10, <1>14
  <2>2. QED
    BY <1>1, <1>12, <1>13, <1>14, <2>1, CongIffMod
<1>16. powmod(z, n, N) = power(z, n) % N
  BY <1>1, <1>11, PowmodIs
<1>17. ((u % N) * (x % N)) % N = (u * x) % N
  BY <1>1, <1>10, <1>14, ModMul
<1>18. powmod(z, n, N) = (powmod(s, n, N) * powmod(term, rest, N)) % N
  BY <1>7, <1>10, <1>15, <1>16, <1>17 DEF u
<1>19. QED
  BY <1>18 DEF N, n, c, inv, t, term, z

\* The equation of the other value, whose commitment was made from the answer.
LEMMA SimulatedVerifies ==
  ASSUME NEW k, Modulus(k), NEW m \in Nat, NEW r \in Coin(k), NEW z \in Coin(k),
         NEW e \in Nat, NEW j, valid_values[j] \in Nat
  PROVE  LET N == n_squared(k)
             c == paillier_encrypt(m, k, r)
             term == (c * modinv(powmod(k.g, valid_values[j], N), N)) % N
         IN  /\ Commit(c, j, z, e, k) \in Int
             /\ powmod(z, k.n, N) = (Commit(c, j, z, e, k) * powmod(term, e, N)) % N
<1> DEFINE N == n_squared(k)
           n == k.n
           c == paillier_encrypt(m, k, r)
           g == power(k.g, valid_values[j])
           inv == modinv(powmod(k.g, valid_values[j], N), N)
           cinv == modinv(c, N)
           t == c * inv
           term == t % N
           v == (g % N) * cinv
           w == v % N
           u == power(z, n)
<1>1. N \in Pos /\ N \in Int /\ n \in Nat /\ n \in Int /\ k.g \in Int
  BY ModulusIs DEF Modulus
<1>2. inv \in Nat /\ inv \in Int /\ Cong(inv * g, 1, N)
  BY InverseOfGenerator
<1>3. c \in 1..N - 1 /\ Unit(c, N)
  BY EncryptIs
<1>4. g \in Int
  BY GeneratorUnit
<1>5. z \in Int
  BY CoinIs
<1>6. powmod(k.g, valid_values[j], N) = g % N
  BY <1>1, PowmodIs
<1>7. Commit(c, j, z, e, k) = (powmod(z, n, N) * powmod(w, e, N)) % N
  BY <1>6 DEF Commit
<1>8. u \in Int /\ powmod(z, n, N) = u % N
  BY <1>1, <1>5, PowerType, PowmodIs
<1> HIDE DEF N, n, c, g, inv, u
<1>9. cinv \in Int /\ Cong(cinv * c, 1, N) /\ c \in Int
  <2>1. c \in Nat
    BY <1>1, <1>3
  <2>2. QED
    BY <1>1, <1>3, <2>1, ModinvUnit
<1> HIDE DEF cinv
<1>10. g % N \in Int /\ Cong(g % N, g, N)
  BY <1>1, <1>4, DivMod, CongMod
<1>11. v \in Int /\ Cong(v, cinv * g, N) /\ cinv * g \in Int
  <2>1. Cong(cinv * (g % N), cinv * g, N)
    BY <1>1, <1>4, <1>9, <1>10, CongScale
  <2> DEFINE h == g % N
  <2>2. h \in Int /\ Cong(cinv * h, cinv * g, N)
    BY <1>10, <2>1
  <2>3. v = h * cinv
    OBVIOUS
  <2> HIDE DEF h, v
  <2>4. v = cinv * h /\ v \in Int /\ cinv * g \in Int
    BY <1>4, <1>9, <2>2, <2>3
  <2>5. QED
    BY <2>2, <2>4
<1>12. t \in Int
  BY <1>2, <1>9
<1> HIDE DEF t, v
<1>13. term \in Int /\ w \in Int /\ Cong(term, t, N) /\ Cong(w, v, N)
  BY <1>1, <1>11, <1>12, DivMod, CongMod
<1> HIDE DEF term, w
<1> DEFINE f == cinv * g
<1>14. Cong(w * term, 1, N)
  <2>1. f \in Int /\ Cong(v, f, N)
    BY <1>11
  <2>2. f * t = (cinv * c) * (inv * g)
    BY <1>2, <1>4, <1>9 DEF t
  <2> HIDE DEF f
  <2>3. Cong(w, f, N)
    BY <1>1, <1>11, <1>13, <2>1, CongTrans
  <2>4. Cong(w * term, f * t, N)
    BY <1>1, <1>12, <1>13, <2>1, <2>3, CongMul
  <2> DEFINE a == cinv * c
             b == inv * g
  <2>5. a \in Int /\ b \in Int /\ Cong(a, 1, N) /\ Cong(b, 1, N)
    BY <1>2, <1>4, <1>9
  <2>6. f * t = a * b
    BY <2>2
  <2> HIDE DEF a, b
  <2>7. Cong(a * b, 1 * 1, N)
    BY <1>1, <2>5, CongMul
  <2>8. 1 * 1 = 1 /\ w * term \in Int /\ a * b \in Int
    BY <1>13, <2>5
  <2>9. QED
    BY <1>1, <2>4, <2>6, <2>7, <2>8, CongTrans
<1> DEFINE x == power(w, e)
           y == power(term, e)
<1>15. x \in Int /\ y \in Int /\ powmod(w, e, N) = x % N /\ powmod(term, e, N) = y % N
  <2>1. x \in Int /\ y \in Int
    BY <1>13, PowerType
  <2>2. QED
    BY <1>1, <1>13, <2>1, PowmodIs
<1>16. Cong(x * y, 1, N)
  <2>1. w * term \in Int
    BY <1>13
  <2>2. Cong(power(w * term, e), power(1, e), N)
    BY <1>1, <1>14, <2>1, PowerCong
  <2>3. power(w * term, e) = x * y /\ power(1, e) = 1
    BY <1>13, PowerProduct, OneToThe
  <2>4. QED
    BY <2>2, <2>3
<1> HIDE DEF x, y
<1> DEFINE a == u * x
<1>17. a \in Int /\ Commit(c, j, z, e, k) = a % N
  <2>1. ((u % N) * (x % N)) % N = (u * x) % N
    BY <1>1, <1>8, <1>15, ModMul
  <2>2. QED
    BY <1>7, <1>8, <1>15, <2>1
<1>18. a % N \in Int
  BY <1>1, <1>17, DivMod
<1>19. Cong(a * y, u, N) /\ a * y \in Int
  <2> DEFINE b == x * y
  <2>1. b \in Int /\ Cong(b, 1, N)
    BY <1>15, <1>16
  <2>2. a * y = u * b /\ u * 1 = u
    BY <1>8, <1>15
  <2> HIDE DEF a, b
  <2>3. Cong(u * b, u * 1, N)
    <3>1. u \in Int /\ N \in Int /\ 1 \in Int
      BY <1>1, <1>8
    <3>2. QED
      BY ONLY <2>1, <3>1, CongScale
  <2>4. QED
    BY <1>15, <1>17, <2>2, <2>3
<1> HIDE DEF a
<1>20. ((a % N) * (y % N)) % N = (a * y) % N
  BY <1>1, <1>15, <1>17, ModMul
<1>21. (a * y) % N = u % N
  BY <1>1, <1>8, <1>19, CongIffMod
<1>22. powmod(z, n, N) = (Commit(c, j, z, e, k) * powmod(term, e, N)) % N
  BY <1>8, <1>15, <1>17, <1>20, <1>21
<1>23. QED
  BY <1>17, <1>18, <1>22 DEF N, n, c, inv, t, term

LEMMA ProofVerifies ==
  ASSUME PaillierAssumption, NEW k, Modulus(k), NEW m \in {0, 1},
         NEW r \in Coin(k), NEW z \in Coin(k), NEW s \in Coin(k), NEW e \in Challenges
  PROVE  LET c == paillier_encrypt(m, k, r)
         IN  zkp_verify(c, zkp_prove(c, m, r, k, z, e, s), k)
<1> DEFINE c == paillier_encrypt(m, k, r)
           N == n_squared(k)
           i == CHOOSE j \in {1, 2} : valid_values[j] = m
           A == [j \in {1, 2} |->
                  IF j = i THEN powmod(s, k.n, N) ELSE Commit(c, j, z, e, k)]
           H == Hash(A)
           rest == (H - e) % TwoTo(T)
           Z == [j \in {1, 2} |-> IF j = i THEN (s * powmod(r, rest, k.n)) % k.n ELSE z]
           E == [j \in {1, 2} |-> IF j = i THEN rest ELSE e]
           term(j) == (c * modinv(powmod(k.g, valid_values[j], N), N)) % N
           proof == zkp_prove(c, m, r, k, z, e, s)
<1>1. valid_values[1] = 0 /\ valid_values[2] = 1 /\ m \in Nat
  BY DEF valid_values
<1>2. i \in {1, 2} /\ valid_values[i] = m
  <2>1. \E j \in {1, 2} : valid_values[j] = m
    BY <1>1
  <2>2. QED
    BY <2>1
<1>3. proof = [a_values |-> A, z_values |-> Z, e_values |-> E, e |-> H]
  BY DEF zkp_prove
<1>4. TwoTo(T) \in Pos /\ TwoTo(T) \in Nat /\ TwoTo(T) > 0 /\ e \in 0..TwoTo(T) - 1
  BY Doubling DEF PaillierAssumption, Pos
<1>5. N \in Pos /\ k.n \in Pos /\ k.n \in Nat
  BY ModulusIs DEF Modulus
<1>6. \A j \in {1, 2} : A[j] \in Int
  <2>1. SUFFICES ASSUME NEW j \in {1, 2} PROVE A[j] \in Int
    OBVIOUS
  <2>2. powmod(s, k.n, N) \in Int
    <3>1. s \in Int /\ power(s, k.n) \in Int
      BY <1>5, CoinIs, PowerType
    <3>2. powmod(s, k.n, N) = power(s, k.n) % N
      BY <1>5, <3>1, PowmodIs
    <3>3. QED
      BY <1>5, <3>1, <3>2, DivMod
  <2>3. Commit(c, j, z, e, k) \in Int
    <3>1. valid_values[j] \in Nat /\ e \in Nat
      BY <1>1, <1>4
    <3>2. QED
      BY <1>1, <3>1, SimulatedVerifies
  <2> HIDE DEF c, i, N
  <2>4. QED
    BY <2>2, <2>3
<1> HIDE DEF i, A
<1>7. H \in 0..TwoTo(T) - 1
  <2>1. A[1] + 3 * A[2] \in Int /\ H = (A[1] + 3 * A[2]) % TwoTo(T)
    BY <1>6 DEF Hash
  <2> HIDE DEF H
  <2>2. QED
    BY <1>4, <2>1, DivMod
<1> HIDE DEF H
<1>8. rest \in Nat /\ rest \in 0..TwoTo(T) - 1 /\ Cong(rest, H - e, TwoTo(T))
  <2> DEFINE d == H - e
  <2>1. d \in Int
    BY <1>4, <1>7
  <2> HIDE DEF d
  <2>2. d % TwoTo(T) \in Nat /\ d % TwoTo(T) < TwoTo(T) /\ Cong(d % TwoTo(T), d, TwoTo(T))
    BY <1>4, <2>1, DivMod, CongMod
  <2>3. QED
    BY <1>4, <2>2 DEF d
<1> HIDE DEF rest
<1>9. (E[1] + E[2]) % TwoTo(T) = H
  <2>1. E[1] + E[2] = rest + e
    BY <1>2, <1>4, <1>8
  <2>2. PICK x \in Int : rest = (H - e) + x * TwoTo(T)
    BY <1>8 DEF Cong
  <2>3. rest + e = x * TwoTo(T) + H
    BY <1>4, <1>7, <1>8, <2>2
  <2>4. H \in Nat /\ H < TwoTo(T)
    BY <1>4, <1>7
  <2>5. (x * TwoTo(T) + H) % TwoTo(T) = H
    BY <1>4, <2>4, DivUnique
  <2>6. QED
    BY <2>1, <2>3, <2>5
<1>10. ASSUME NEW j \in {1, 2}
       PROVE  powmod(Z[j], k.n, N) = (A[j] * powmod(term(j), E[j], N)) % N
  <2>1. CASE j = i
    <3>1. Z[j] = (s * powmod(r, rest, k.n)) % k.n /\ A[j] = powmod(s, k.n, N)
          /\ E[j] = rest /\ valid_values[j] = m
      BY <1>2, <2>1 DEF A
    <3>2. powmod((s * powmod(r, rest, k.n)) % k.n, k.n, N)
            = (powmod(s, k.n, N) * powmod(term(j), rest, N)) % N
      BY <1>1, <1>8, <3>1, RealVerifies
    <3> HIDE DEF Z, E, term
    <3>3. QED
      BY <3>1, <3>2
  <2>2. CASE j # i
    <3>1. Z[j] = z /\ A[j] = Commit(c, j, z, e, k) /\ E[j] = e
      BY <2>2 DEF A
    <3>2. valid_values[j] \in Nat /\ e \in Nat
      BY <1>1, <1>4
    <3>3. powmod(z, k.n, N) = (Commit(c, j, z, e, k) * powmod(term(j), e, N)) % N
      BY <1>1, <3>2, SimulatedVerifies
    <3> HIDE DEF Z, E, term
    <3>4. QED
      BY <3>1, <3>3
  <2>3. QED
    BY <2>1, <2>2
<1> HIDE DEF proof, Z, E
<1>11. /\ proof.a_values = A /\ proof.z_values = Z
       /\ proof.e_values = E /\ proof.e = H
  BY <1>3
<1>12. zkp_verify(c, proof, k)
  BY <1>9, <1>10, <1>11 DEF zkp_verify, H
<1>13. QED
  BY <1>12 DEF proof

-----------------------------------------------------------------------------
\* The invariant.

\* A choice and what vote may make of it.
Ballot(k) ==
  {v \in [choice : 1..CandidateCount, vote : [1..CandidateCount -> 1..n_squared(k) - 1]] :
     \A i \in 1..CandidateCount : \E r \in Coin(k) :
       v.vote[i] = paillier_encrypt(IF i = v.choice THEN 1 ELSE 0, k, r)}

PrimesInv ==
  /\ primes \in Seq(Drawn) /\ Len(primes) <= 2
  /\ Len(primes) = 2 => primes[1] # primes[2]
  /\ rejected \subseteq {n \in Drawn : ~IsPrime(n)}

KeyInv ==
  /\ key # None => Len(primes) = 2 /\ key = keypair(primes[1], primes[2])
  /\ key = None => ballots = <<>> /\ proofs = <<>> /\ result = <<>>

BallotsInv == key # None => ballots \in Seq(Ballot(key)) /\ Len(ballots) <= MaxBallots

ProofsInv ==
  \A i \in DOMAIN proofs :
    /\ Len(ballots) > 0 /\ i \in 1..CandidateCount
    /\ \E m \in {0, 1}, r, z, s \in Coin(key), e \in Challenges :
         /\ ballots[Len(ballots)].vote[i] = paillier_encrypt(m, key, r)
         /\ proofs[i] = zkp_prove(paillier_encrypt(m, key, r), m, r, key, z, e, s)

ResultInv ==
  result # <<>> =>
    /\ result \in [1..CandidateCount -> 1..n_squared(key) - 1]
    /\ \A i \in 1..CandidateCount :
         Hides(result[i], Cardinality(Chosen(ballots, i, Len(ballots))), key)

IInv == PrimesInv /\ KeyInv /\ BallotsInv /\ ProofsInv /\ ResultInv

LEMMA InitInv == PaillierAssumption /\ Init => IInv
<1> SUFFICES ASSUME PaillierAssumption, Init PROVE IInv
  OBVIOUS
<1>1. PrimesInv
  BY DEF Init, PrimesInv
<1>2. KeyInv /\ BallotsInv /\ ResultInv
  BY DEF Init, KeyInv, BallotsInv, ResultInv
<1>3. ProofsInv
  BY DEF Init, ProofsInv
<1>4. QED
  BY <1>1, <1>2, <1>3 DEF IInv

\* Every number drawn is more than 3, so that a key is one whatever the primality
\* test let through.
LEMMA DrawnKey ==
  ASSUME PaillierAssumption, NEW p \in Drawn, NEW q \in Drawn
  PROVE  /\ Modulus(keypair(p, q)) /\ keypair(p, q).n = p * q
         /\ TwoTo(Bits - 1) < p * q
<1>1. p \in Nat /\ q \in Nat /\ p > 3 /\ q > 3 /\ TwoTo(Bits - 1) <= p
  BY DrawnIs DEF Odd
<1>2. TwoTo(Bits - 1) \in Nat
  BY Doubling DEF PaillierAssumption, Pos
<1>3. p * q \in Nat /\ p < p * q
  <2>1. 1 < q
    BY <1>1
  <2>2. 1 * p + p <= q * p
    BY <1>1, <2>1, Products
  <2>3. QED
    BY <1>1, <2>2
<1>4. keypair(p, q).n = p * q /\ keypair(p, q).g = p * q + 1
  BY DEF keypair
<1>5. QED
  BY <1>1, <1>2, <1>3, <1>4 DEF Modulus

LEMMA KeyOfInv ==
  ASSUME PaillierAssumption, PrimesInv, KeyInv, key # None
  PROVE  /\ primes[1] \in Drawn /\ primes[2] \in Drawn /\ primes[1] # primes[2]
         /\ key = keypair(primes[1], primes[2]) /\ Modulus(key)
         /\ TwoTo(Bits - 1) < key.n
<1>1. Len(primes) = 2 /\ key = keypair(primes[1], primes[2])
  BY DEF KeyInv
<1>2. primes[1] \in Drawn /\ primes[2] \in Drawn /\ primes[1] # primes[2]
  BY <1>1 DEF PrimesInv
<1>3. QED
  BY <1>1, <1>2, DrawnKey

LEMMA AppendSecond ==
  ASSUME NEW S, NEW s \in Seq(S), NEW x \in S, Len(s) < 2, s # <<x>>
  PROVE  LET t == Append(s, x)
         IN  t \in Seq(S) /\ Len(t) <= 2 /\ (Len(t) = 2 => t[1] # t[2])
<1> DEFINE t == Append(s, x)
<1>1. t \in Seq(S) /\ Len(t) = Len(s) + 1 /\ Len(s) \in Nat
      /\ t[Len(s) + 1] = x /\ \A j \in 1..Len(s) : t[j] = s[j]
  OBVIOUS
<1> HIDE DEF t
<1>2. ASSUME Len(t) = 2 PROVE t[1] # t[2]
  <2>1. Len(s) = 1
    <3> DEFINE a == Len(s)
               b == Len(t)
    <3>1. a \in Nat /\ b = a + 1 /\ b = 2
      BY <1>1, <1>2
    <3> HIDE DEF a, b
    <3>2. a = 1
      BY ONLY <3>1
    <3>3. QED
      BY <3>2 DEF a
  <2>2. t[1] = s[1] /\ t[2] = x
    BY <1>1, <2>1
  <2>3. s = <<s[1]>>
    BY <2>1
  <2>4. QED
    BY <2>2, <2>3
<1>3. QED
  BY <1>1, <1>2 DEF t

LEMMA GeneratePrimeInv ==
  ASSUME PaillierAssumption, IInv, generate_prime
  PROVE  IInv'
<1>1. Len(primes) < 2 /\ key = None /\ UNCHANGED <<key, ballots, proofs, result>>
  BY DEF generate_prime, IInv, KeyInv
<1>2. PICK x \in 0..(TwoTo(Bits) - 1) :
        LET n == OddNumber(x) IN
        \E bases \in {S \in SUBSET (2..(n - 2)) : Cardinality(S) \in 1..Rounds} :
          IF is_prime(n, bases)
            THEN primes' = (IF primes = <<n>> THEN primes ELSE Append(primes, n))
                 /\ UNCHANGED rejected
            ELSE rejected' = rejected \cup {n} /\ UNCHANGED primes
  BY DEF generate_prime
<1> DEFINE n == OddNumber(x)
<1>3. n \in Drawn
  BY DEF Drawn
<1>4. Odd(n) /\ n > 3
  BY <1>3, DrawnIs
<1>5. PICK bases \in SUBSET (2..(n - 2)) :
        IF is_prime(n, bases)
          THEN primes' = (IF primes = <<n>> THEN primes ELSE Append(primes, n))
               /\ UNCHANGED rejected
          ELSE rejected' = rejected \cup {n} /\ UNCHANGED primes
  BY <1>2
<1> HIDE DEF n
<1>6. primes \in Seq(Drawn) /\ rejected \subseteq {j \in Drawn : ~IsPrime(j)}
  BY DEF IInv, PrimesInv
<1>7. PrimesInv'
  <2>1. CASE is_prime(n, bases)
    <3>1. primes' = (IF primes = <<n>> THEN primes ELSE Append(primes, n))
          /\ rejected' = rejected
      BY <1>5, <2>1
    <3>2. CASE primes = <<n>>
      <4>1. primes' = primes
        BY <3>1, <3>2
      <4>2. QED
        BY <3>1, <4>1 DEF IInv, PrimesInv
    <3>3. CASE primes # <<n>>
      <4>1. primes' = Append(primes, n)
        BY <3>1, <3>3
      <4>2. /\ primes' \in Seq(Drawn) /\ Len(primes') <= 2
            /\ Len(primes') = 2 => primes'[1] # primes'[2]
        BY <1>1, <1>3, <1>6, <3>3, <4>1, AppendSecond
      <4>3. QED
        BY <1>6, <3>1, <4>2 DEF PrimesInv
    <3>4. QED
      BY <3>2, <3>3
  <2>2. CASE ~is_prime(n, bases)
    <3>1. rejected' = rejected \cup {n} /\ primes' = primes
      BY <1>5, <2>2
    <3>2. ~IsPrime(n)
      <4>1. SUFFICES ASSUME IsPrime(n) PROVE FALSE
        OBVIOUS
      <4>2. Prime(n)
        BY <1>4, <4>1 DEF Prime, Odd
      <4>3. \A a \in bases : Passes(n, a)
        BY <1>4, <1>5, <4>2, PrimesPass
      <4>4. QED
        BY <2>2, <4>3 DEF is_prime
    <3>3. rejected' \subseteq {j \in Drawn : ~IsPrime(j)}
      BY <1>3, <1>6, <3>1, <3>2
    <3>4. QED
      BY <3>1, <3>3 DEF IInv, PrimesInv
  <2>3. QED
    BY <2>1, <2>2
<1>8. KeyInv' /\ BallotsInv' /\ ProofsInv' /\ ResultInv'
  <2>1. KeyInv'
    BY <1>1 DEF IInv, KeyInv
  <2>2. BallotsInv'
    BY <1>1 DEF IInv, BallotsInv
  <2>3. ProofsInv'
    BY <1>1 DEF IInv, ProofsInv
  <2>4. ResultInv'
    BY <1>1 DEF IInv, ResultInv
  <2>5. QED
    BY <2>1, <2>2, <2>3, <2>4
<1>9. QED
  BY <1>7, <1>8 DEF IInv

LEMMA GenerateKeypairInv ==
  ASSUME PaillierAssumption, IInv, generate_keypair
  PROVE  IInv'
<1>1. /\ Len(primes) = 2 /\ key = None /\ key' = keypair(primes[1], primes[2])
      /\ UNCHANGED <<primes, rejected, ballots, proofs, result>>
  BY DEF generate_keypair
<1>2. ballots = <<>> /\ proofs = <<>> /\ result = <<>>
  BY <1>1 DEF IInv, KeyInv
<1>3. PrimesInv'
  BY <1>1 DEF IInv, PrimesInv
<1>4. KeyInv'
  BY <1>1, <1>2 DEF KeyInv
<1>5. BallotsInv'
  <2>1. ballots' = <<>> /\ Len(<<>>) = 0 /\ MaxBallots >= 0
    <3>1. TwoTo(Bits - 1) \in Nat
      BY Doubling DEF PaillierAssumption, Pos
    <3>2. QED
      BY <1>1, <1>2, <3>1 DEF PaillierAssumption
  <2>2. QED
    BY <2>1 DEF BallotsInv
<1>6. ProofsInv'
  <2>1. DOMAIN proofs' = {}
    BY <1>1, <1>2
  <2>2. QED
    BY <2>1 DEF ProofsInv
<1>7. ResultInv'
  BY <1>1, <1>2 DEF ResultInv
<1>8. QED
  BY <1>3, <1>4, <1>5, <1>6, <1>7 DEF IInv

LEMMA VoteInv ==
  ASSUME PaillierAssumption, IInv, NEW choice \in 1..CandidateCount, vote(choice)
  PROVE  IInv'
<1> DEFINE m(i) == IF i = choice THEN 1 ELSE 0
           c(r) == [i \in 1..CandidateCount |-> paillier_encrypt(m(i), key, r[i])]
<1>1. /\ key # None /\ result = <<>> /\ Len(ballots) < MaxBallots
      /\ UNCHANGED <<primes, rejected, key, result>>
  BY DEF vote
<1>2. PICK r \in [1..CandidateCount -> Coin(key)], z \in Coin(key), s \in Coin(key),
           e \in Challenges :
        /\ ballots' = Append(ballots, [choice |-> choice, vote |-> c(r)])
        /\ proofs' = [i \in 1..CandidateCount |->
                        zkp_prove(c(r)[i], m(i), r[i], key, z, e, s)]
  BY DEF vote
<1> DEFINE v == [choice |-> choice, vote |-> c(r)]
<1>3. Modulus(key)
  BY <1>1, KeyOfInv DEF IInv
<1>4. \A i \in 1..CandidateCount : m(i) \in {0, 1} /\ m(i) \in Nat
  OBVIOUS
<1>5. \A i \in 1..CandidateCount :
        /\ c(r)[i] = paillier_encrypt(m(i), key, r[i])
        /\ c(r)[i] \in 1..n_squared(key) - 1
  BY <1>3, <1>4, EncryptIs
<1>6. v \in Ballot(key)
  <2>1. c(r) \in [1..CandidateCount -> 1..n_squared(key) - 1]
    BY <1>5
  <2>2. \A i \in 1..CandidateCount : \E t \in Coin(key) :
          c(r)[i] = paillier_encrypt(IF i = choice THEN 1 ELSE 0, key, t)
    BY <1>5
  <2> DEFINE w == c(r)
  <2>3. /\ w \in [1..CandidateCount -> 1..n_squared(key) - 1]
        /\ \A i \in 1..CandidateCount : \E t \in Coin(key) :
             w[i] = paillier_encrypt(IF i = choice THEN 1 ELSE 0, key, t)
    BY <2>1, <2>2
  <2> HIDE DEF w
  <2>4. [choice |-> choice, vote |-> w] \in Ballot(key)
    BY <2>3 DEF Ballot
  <2>5. QED
    BY <2>4 DEF w
<1>7. ballots \in Seq(Ballot(key))
  BY <1>1 DEF IInv, BallotsInv
<1>8. ballots' = Append(ballots, v)
  BY <1>2
<1> HIDE DEF v
<1>9. /\ ballots' \in Seq(Ballot(key)) /\ Len(ballots') = Len(ballots) + 1
      /\ ballots'[Len(ballots')] = v /\ Len(ballots) \in Nat
  BY <1>6, <1>7, <1>8
<1>10. PrimesInv' /\ KeyInv' /\ ResultInv'
  <2>1. PrimesInv'
    BY <1>1 DEF IInv, PrimesInv
  <2>2. KeyInv'
    BY <1>1 DEF IInv, KeyInv
  <2>3. ResultInv'
    BY <1>1 DEF ResultInv
  <2>4. QED
    BY <2>1, <2>2, <2>3
<1>11. BallotsInv'
  <2>1. MaxBallots \in Int
    <3>1. TwoTo(Bits - 1) \in Nat
      BY Doubling DEF PaillierAssumption, Pos
    <3>2. QED
      BY <3>1 DEF PaillierAssumption
  <2>2. Len(ballots') <= MaxBallots
    BY <1>1, <1>9, <2>1
  <2>3. QED
    BY <1>1, <1>9, <2>2 DEF BallotsInv
<1>12. ProofsInv'
  <2>1. DOMAIN proofs' = 1..CandidateCount
    BY <1>2
  <2>2. ASSUME NEW i \in 1..CandidateCount
        PROVE  \E b \in {0, 1}, t, y, u \in Coin(key), f \in Challenges :
                 /\ ballots'[Len(ballots')].vote[i] = paillier_encrypt(b, key, t)
                 /\ proofs'[i] = zkp_prove(paillier_encrypt(b, key, t), b, t, key, y, f, u)
    <3>1. ballots'[Len(ballots')].vote[i] = paillier_encrypt(m(i), key, r[i])
      BY <1>5, <1>9 DEF v
    <3>2. proofs'[i] =
            zkp_prove(paillier_encrypt(m(i), key, r[i]), m(i), r[i], key, z, e, s)
      BY <1>2, <1>5
    <3>3. m(i) \in {0, 1} /\ r[i] \in Coin(key)
      OBVIOUS
    <3> HIDE DEF m
    <3>4. QED
      BY <3>1, <3>2, <3>3
  <2>3. Len(ballots') > 0 /\ key' = key
    BY <1>1, <1>9
  <2> HIDE DEF m, c
  <2>4. \A i \in DOMAIN proofs' :
          /\ Len(ballots') > 0 /\ i \in 1..CandidateCount
          /\ \E b \in {0, 1}, t, y, u \in Coin(key'), f \in Challenges :
               /\ ballots'[Len(ballots')].vote[i] = paillier_encrypt(b, key', t)
               /\ proofs'[i] = zkp_prove(paillier_encrypt(b, key', t), b, t, key', y, f, u)
    BY ONLY <2>1, <2>2, <2>3
  <2>5. QED
    BY ONLY <2>4 DEF ProofsInv
<1>13. QED
  BY <1>10, <1>11, <1>12 DEF IInv

LEMMA VoteEndInv ==
  ASSUME PaillierAssumption, IInv, vote_end
  PROVE  IInv'
<1> DEFINE Result(i) == LET sum[b \in 0..Len(ballots)] ==
                              IF b = 0 THEN 1 ELSE add(sum[b - 1], ballots[b].vote[i], key)
                        IN  sum[Len(ballots)]
<1>1. /\ key # None /\ result = <<>>
      /\ result' = [i \in 1..CandidateCount |-> Result(i)]
      /\ UNCHANGED <<primes, rejected, key, ballots, proofs>>
  BY DEF vote_end
<1>2. Modulus(key)
  BY <1>1, KeyOfInv DEF IInv
<1>3. ballots \in Seq(Ballot(key)) /\ Len(ballots) \in Nat
  BY <1>1 DEF IInv, BallotsInv
<1>4. Encrypted(ballots, key)
  <2>1. \A b \in 1..Len(ballots) : ballots[b] \in Ballot(key)
    BY <1>3
  <2>2. QED
    BY <2>1 DEF Ballot, Encrypted
<1>5. ASSUME NEW i \in 1..CandidateCount
      PROVE  Hides(Result(i), Cardinality(Chosen(ballots, i, Len(ballots))), key)
  <2> DEFINE sum == CHOOSE f : Sums(f, ballots, i, key, Len(ballots))
  <2>1. Sums(sum, ballots, i, key, Len(ballots))
    BY <1>3, SumsExist
  <2>2. Result(i) = sum[Len(ballots)]
    BY DEF Sums
  <2> HIDE DEF sum, Result
  <2>3. Len(ballots) \in 0..Len(ballots)
    BY <1>3
  <2>4. QED
    BY <1>2, <1>3, <1>4, <2>1, <2>2, <2>3, SumIs
<1> HIDE DEF Result
<1>6. ResultInv'
  <2>1. \A i \in 1..CandidateCount : Result(i) \in 1..n_squared(key) - 1
    BY <1>5 DEF Hides
  <2>2. result' \in [1..CandidateCount -> 1..n_squared(key) - 1]
    BY <1>1, <2>1
  <2>3. \A i \in 1..CandidateCount :
          Hides(result'[i], Cardinality(Chosen(ballots, i, Len(ballots))), key)
    BY <1>1, <1>5
  <2>4. key' = key /\ ballots' = ballots
    BY <1>1
  <2>5. QED
    BY <2>2, <2>3, <2>4 DEF ResultInv
<1>7. PrimesInv'
  BY <1>1 DEF IInv, PrimesInv
<1>8. KeyInv'
  BY <1>1 DEF IInv, KeyInv
<1>9. BallotsInv'
  BY <1>1 DEF IInv, BallotsInv
<1>10. ProofsInv'
  BY <1>1 DEF IInv, ProofsInv
<1>11. QED
  BY <1>6, <1>7, <1>8, <1>9, <1>10 DEF IInv

LEMMA NextInv == PaillierAssumption /\ IInv /\ [Next]_vars => IInv'
<1> SUFFICES ASSUME PaillierAssumption, IInv, [Next]_vars PROVE IInv'
  OBVIOUS
<1>1. CASE generate_prime
  BY <1>1, GeneratePrimeInv
<1>2. CASE generate_keypair
  BY <1>2, GenerateKeypairInv
<1>3. CASE vote_end
  BY <1>3, VoteEndInv
<1>4. ASSUME NEW choice \in 1..CandidateCount, vote(choice) PROVE IInv'
  BY <1>4, VoteInv
<1>5. CASE UNCHANGED vars
  <2>1. PrimesInv' /\ KeyInv' /\ BallotsInv'
    BY <1>5 DEF IInv, PrimesInv, KeyInv, BallotsInv, vars
  <2>2. ProofsInv'
    BY <1>5 DEF IInv, ProofsInv, vars
  <2>3. ResultInv'
    BY <1>5 DEF IInv, ResultInv, vars
  <2>4. QED
    BY <2>1, <2>2, <2>3 DEF IInv
<1>6. QED
  BY <1>1, <1>2, <1>3, <1>4, <1>5 DEF Next

\* IInv in every state, whatever numbers the primality test accepts.
THEOREM InvariantHolds == Spec => []IInv
<1>1. Init => IInv
  BY PaillierAssumption, InitInv
<1>2. IInv /\ [Next]_vars => IInv'
  BY PaillierAssumption, NextInv
<1>3. QED
  BY <1>1, <1>2, PTL DEF Spec

-----------------------------------------------------------------------------
\* What the invariant says.

\* generate_prime turns down no prime, whatever bases are drawn.
THEOREM NoPrimeTurnedDown == Spec => []PrimesAreFound
<1>1. IInv => PrimesAreFound
  BY DEF IInv, PrimesInv, PrimesAreFound
<1>2. QED
  BY <1>1, InvariantHolds, PTL

\* The server accepts every proof the client makes, under a key of any two numbers.
THEOREM ProofsVerify == Spec => []HonestProofsVerify
<1>1. IInv => HonestProofsVerify
  <2>1. SUFFICES ASSUME IInv, NEW i \in DOMAIN proofs
                 PROVE  zkp_verify(ballots[Len(ballots)].vote[i], proofs[i], key)
    BY DEF HonestProofsVerify
  <2>2. PICK m \in {0, 1}, r \in Coin(key), z \in Coin(key), s \in Coin(key),
             e \in Challenges :
          /\ ballots[Len(ballots)].vote[i] = paillier_encrypt(m, key, r)
          /\ proofs[i] = zkp_prove(paillier_encrypt(m, key, r), m, r, key, z, e, s)
    BY <2>1 DEF IInv, ProofsInv
  <2>3. Modulus(key)
    <3>1. key # None
      <4>1. SUFFICES ASSUME key = None PROVE FALSE
        OBVIOUS
      <4>2. ballots = <<>>
        BY <2>1, <4>1 DEF IInv, KeyInv
      <4>3. Len(ballots) > 0
        BY <2>1 DEF IInv, ProofsInv
      <4>4. QED
        BY <4>2, <4>3
    <3>2. QED
      BY <2>1, <3>1, PaillierAssumption, KeyOfInv DEF IInv
  <2>4. QED
    BY <2>2, <2>3, PaillierAssumption, ProofVerifies
<1>2. QED
  BY <1>1, InvariantHolds, PTL

LEMMA KeyPrimesOfInv ==
  ASSUME IInv, FoundArePrime, key # None
  PROVE  /\ KeyPrimes(primes[1], primes[2]) /\ key = keypair(primes[1], primes[2])
         /\ Modulus(key) /\ TwoTo(Bits - 1) < key.n
<1> DEFINE p == primes[1]
           q == primes[2]
<1>1. /\ p \in Drawn /\ q \in Drawn /\ p # q
      /\ key = keypair(p, q) /\ Modulus(key) /\ TwoTo(Bits - 1) < key.n
  BY PaillierAssumption, KeyOfInv DEF IInv
<1>2. 1 \in DOMAIN primes /\ 2 \in DOMAIN primes
  <2>1. primes \in Seq(Drawn) /\ Len(primes) = 2
    BY DEF IInv, PrimesInv, KeyInv
  <2>2. QED
    BY <2>1
<1>3. IsPrime(p) /\ IsPrime(q)
  BY <1>2 DEF FoundArePrime, Found
<1> HIDE DEF p, q
<1>4. /\ Odd(p) /\ Odd(q) /\ p \in Nat /\ q \in Nat
      /\ TwoTo(Bits - 1) <= p /\ p < 2 * TwoTo(Bits - 1)
      /\ TwoTo(Bits - 1) <= q /\ q < 2 * TwoTo(Bits - 1)
  BY <1>1, PaillierAssumption, DrawnIs DEF Odd
<1>5. TwoTo(Bits - 1) \in Nat
  BY PaillierAssumption, Doubling DEF PaillierAssumption, Pos
<1>6. p < 2 * q /\ q < 2 * p
  BY <1>4, <1>5
<1>7. KeyPrimes(p, q)
  BY <1>1, <1>3, <1>4, <1>6 DEF KeyPrimes, Prime
<1>8. QED
  BY <1>1, <1>7 DEF p, q

\* What the key, the ballots and the sums are made of, under primes; without them
\* the key may have no mu.
THEOREM TypesAreRight == Spec => [](FoundArePrime => TypeOK)
<1>1. IInv => (FoundArePrime => TypeOK)
  <2>1. SUFFICES ASSUME IInv, FoundArePrime PROVE TypeOK
    OBVIOUS
  <2>2. primes \in Seq(Nat) /\ Len(primes) <= 2
    <3>1. primes \in Seq(Drawn) /\ Len(primes) <= 2
      BY <2>1 DEF IInv, PrimesInv
    <3>2. Drawn \subseteq Nat
      BY PaillierAssumption, DrawnIs DEF Odd
    <3>3. Len(primes) \in Nat /\ primes \in [1..Len(primes) -> Drawn]
      BY <3>1
    <3>4. primes \in [1..Len(primes) -> Nat]
      BY <3>2, <3>3
    <3>5. QED
      BY <3>1, <3>3, <3>4, SeqDef
  <2>3. rejected \subseteq Nat
    <3>1. rejected \subseteq Drawn
      BY <2>1 DEF IInv, PrimesInv
    <3>2. QED
      BY <3>1, PaillierAssumption, DrawnIs DEF Odd
  <2>4. CASE key = None
    <3>1. ballots = <<>> /\ result = <<>>
      BY <2>1, <2>4 DEF IInv, KeyInv
    <3>2. DOMAIN ballots = {}
      BY <3>1
    <3>3. QED
      BY <2>2, <2>3, <2>4, <3>1, <3>2 DEF TypeOK
  <2>5. CASE key # None
    <3>1. key.mu \in 1..(key.n - 1)
      BY <2>1, <2>5, KeyPrimesOfInv, KeyIs
    <3>2. ballots \in Seq(Ballot(key))
      BY <2>1, <2>5 DEF IInv, BallotsInv
    <3>3. \A b \in DOMAIN ballots : ballots[b] \in Ballot(key)
      BY <3>2
    <3>4. \A b \in DOMAIN ballots :
            /\ ballots[b].choice \in 1..CandidateCount
            /\ ballots[b].vote \in [1..CandidateCount -> 1..(n_squared(key) - 1)]
      BY <3>3 DEF Ballot
    <3>5. result = <<>> \/ result \in [1..CandidateCount -> 1..(n_squared(key) - 1)]
      BY <2>1 DEF IInv, ResultInv
    <3>6. QED
      BY <2>2, <2>3, <3>1, <3>4, <3>5 DEF TypeOK
  <2>6. QED
    BY <2>4, <2>5
<1>2. QED
  BY <1>1, InvariantHolds, PTL

\* The client decrypts the number of voters who chose each candidate: any primes of
\* the size drawn, any number of candidates, any voters, any random numbers.
THEOREM CountIsRight == Spec => [](FoundArePrime => ResultIsCount)
<1>1. IInv => (FoundArePrime => ResultIsCount)
  <2>1. SUFFICES ASSUME IInv, FoundArePrime, result # <<>>, NEW i \in 1..CandidateCount
                 PROVE  paillier_decrypt(result[i], key) =
                          Cardinality({b \in DOMAIN ballots : ballots[b].choice = i})
    BY DEF ResultIsCount
  <2>2. key # None
    BY <2>1 DEF IInv, KeyInv
  <2>3. /\ KeyPrimes(primes[1], primes[2]) /\ key = keypair(primes[1], primes[2])
        /\ Modulus(key) /\ TwoTo(Bits - 1) < key.n
    BY <2>1, <2>2, KeyPrimesOfInv
  <2>4. ballots \in Seq(Ballot(key)) /\ Len(ballots) <= MaxBallots
    BY <2>1, <2>2 DEF IInv, BallotsInv
  <2> DEFINE n == Len(ballots)
             x == Cardinality(Chosen(ballots, i, n))
  <2>5. {b \in DOMAIN ballots : ballots[b].choice = i} = Chosen(ballots, i, n)
    BY <2>4 DEF Chosen
  <2>6. Hides(result[i], x, key)
    BY <2>1 DEF IInv, ResultInv
  <2>7. n \in Nat /\ n <= MaxBallots
    BY <2>4
  <2> HIDE DEF n
  <2>8. x \in 0..n
    BY <2>7, ChosenIs
  <2> HIDE DEF x
  <2>9. x \in 0..key.n - 1
    <3>1. TwoTo(Bits - 1) \in Nat /\ MaxBallots \in 0..TwoTo(Bits - 1)
      BY PaillierAssumption, Doubling DEF PaillierAssumption, Pos
    <3>2. key.n \in Nat
      BY <2>3 DEF Modulus
    <3>3. QED
      BY <2>3, <2>7, <2>8, <3>1, <3>2
  <2>10. PICK r \in Int :
           /\ Unit(r, key.n)
           /\ Cong(result[i], power(key.g, x) * power(r, key.n), n_squared(key))
    BY <2>6 DEF Hides
  <2>11. result[i] \in Int
    BY <2>6 DEF Hides
  <2>12. paillier_decrypt(result[i], key) = x
    BY <2>3, <2>9, <2>10, <2>11, DecryptIs
  <2>13. QED
    BY <2>5, <2>12 DEF x, n
<1>2. QED
  BY <1>1, InvariantHolds, PTL
=============================================================================
