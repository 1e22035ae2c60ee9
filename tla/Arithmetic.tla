----------------------------- MODULE Arithmetic -----------------------------
(***************************************************************************)
(* The integer functions of src/Client/paillier.py, which the server has   *)
(* from GMP.  A loop or a call of itself is a recursive function, of which *)
(* something can be proved.                                                *)
(***************************************************************************)
EXTENDS Integers

CONSTANT None

\* base^exp, and 1 << exp.
power(base, exp) ==
  LET p[e \in 0..exp] == IF e = 0 THEN 1 ELSE base * p[e - 1] IN p[exp]
TwoTo(exp) == power(2, exp)

\* pow(base, exp, mod) of Python and mpz_powm, by squaring and multiplying.
powmod(base, exp, mod) ==
  LET p[e \in 0..exp] ==
        IF e = 0 THEN 1 % mod
        ELSE LET half == p[e \div 2]
                 square == (half * half) % mod
             IN  IF e % 2 = 1 THEN (square * (base % mod)) % mod ELSE square
  IN  p[exp]

\* The loops of pgcd and modinv as functions of their variables; of the coefficients
\* of Euclid's extended algorithm, modinv needs the first.
pgcd(a, b) ==
  LET gcd[s \in Nat \X (0..b)] ==
        IF s[2] = 0 THEN s[1] ELSE gcd[<<s[2], s[1] % s[2]>>]
  IN  gcd[<<a, b>>]

ppcm(a, b) == (a * b) \div pgcd(a, b)

bezout(a, m) ==
  LET u[s \in Int \X Nat \X Int \X (0..m)] ==
        IF s[4] = 0 THEN s[1]
        ELSE LET q == s[2] \div s[4]
             IN  u[<<s[3], s[4], s[1] - q * s[3], s[2] - q * s[4]>>]
  IN  u[<<1, a, 0, m>>]

modinv(a, m) == IF pgcd(a, m) # 1 THEN None ELSE bezout(a, m) % m

\* What is_prime decides.
IsPrime(n) == n > 1 /\ \A d \in 2..(n - 1) : n % d # 0
=============================================================================
