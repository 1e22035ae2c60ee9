------------------------------ MODULE Paillier ------------------------------
(***************************************************************************)
(* The arithmetic of a vote, on keys small enough to compute with: the     *)
(* client makes a key, encrypts its choices and proves them                *)
(* (src/Client/paillier.py), the server adds ciphertexts up and verifies   *)
(* proofs (src/Server/includes/paillier.hpp), the client decrypts the sum. *)
(*                                                                         *)
(* A random number is any number of its range that is also in Coins or     *)
(* Challenges.  Proofs are verified as the client made them; what the wire *)
(* and the server's parser make of them is in Election.                    *)
(***************************************************************************)
EXTENDS Arithmetic, Sequences, FiniteSets

CONSTANTS
  Bits,            \* size of the primes
  T,               \* size of a challenge, in bits
  Rounds,          \* Miller-Rabin bases tried (k in the code)
  Coins,           \* bound: random numbers tried below n
  Challenges,      \* bound: random challenges tried
  CandidateCount,  \* candidates voted on
  MaxBallots       \* bound: ballots

ASSUME PaillierAssumption ==
  /\ Bits \in Nat \ {0, 1, 2} /\ T \in Nat /\ Rounds \in Nat \ {0}
  /\ Coins \subseteq Nat /\ Challenges \subseteq 0..(TwoTo(T) - 1)
  /\ CandidateCount \in Nat
  /\ MaxBallots \in 0..TwoTo(Bits - 1)

-----------------------------------------------------------------------------
\* Keys.

\* One round of Miller-Rabin on an odd n > 3.
PassesFirstPower(n, a) ==
  LET r == CHOOSE k \in 1..n : (n - 1) % TwoTo(k) = 0 /\ ((n - 1) \div TwoTo(k)) % 2 = 1
      d == (n - 1) \div TwoTo(r)
  IN  powmod(a, d, n) \in {1, n - 1}
PassesFermat(n, a) == powmod(a, n - 1, n) = 1
Passes(n, a) ==
  LET r == CHOOSE k \in 1..n : (n - 1) % TwoTo(k) = 0 /\ ((n - 1) \div TwoTo(k)) % 2 = 1
      d == (n - 1) \div TwoTo(r)
      x == powmod(a, d, n)
  IN  \/ x \in {1, n - 1}
      \/ \E k \in 1..(r - 1) : powmod(x, TwoTo(k), n) = n - 1

is_prime(n, bases) == \A a \in bases : Passes(n, a)

\* getrandbits with the top and the lowest bit set.
OddNumber(x) ==
  LET y == x % TwoTo(Bits - 1) IN TwoTo(Bits - 1) + y + (1 - (y % 2))

l(x, n) == (x - 1) \div n

keypairInverseModSquare(p, q) ==
  LET n == p * q
      lambda == ppcm(p - 1, q - 1)
  IN  [n |-> n, g |-> n + 1, lambda |-> lambda,
       mu |-> modinv(l(powmod(n + 1, lambda, n * n), n), n * n)]
keypair(p, q) ==
  LET n == p * q
      lambda == ppcm(p - 1, q - 1)
  IN  [n |-> n, g |-> n + 1, lambda |-> lambda,
       mu |-> modinv(l(powmod(n + 1, lambda, n * n), n), n)]

-----------------------------------------------------------------------------
\* Ciphertexts.

Coin(key) == {r \in Coins : r \in 1..(key.n - 1) /\ pgcd(r, key.n) = 1}

n_squared(key) == key.n * key.n

paillier_encrypt(m, key, r) ==
  (powmod(key.g, m, n_squared(key)) * powmod(r, key.n, n_squared(key))) % n_squared(key)

paillier_decrypt(c, key) ==
  (l(powmod(c, key.lambda, n_squared(key)), key.n) * key.mu) % key.n

AddModuloN(c1, c2, key) == (c1 * c2) % key.n
add(c1, c2, key) == (c1 * c2) % n_squared(key)

-----------------------------------------------------------------------------
\* Proofs that a ciphertext is one of the valid values.

valid_values == <<0, 1>>

\* SHA-256 of the commitments modulo TwoTo(T): some function of them.
Hash(a_values) == (a_values[1] + 3 * a_values[2]) % TwoTo(T)

\* i is the place of the message among the valid values, j the other one.
CommitToOther(c, j, z, e, key) ==
  LET term == (powmod(key.g, valid_values[j], n_squared(key)) * c) % n_squared(key)
  IN  (powmod(z, key.n, n_squared(key)) * powmod(term, e, n_squared(key))) % n_squared(key)
Commit(c, j, z, e, key) ==
  LET term == (powmod(key.g, valid_values[j], n_squared(key))
                * modinv(c, n_squared(key))) % n_squared(key)
  IN  (powmod(z, key.n, n_squared(key)) * powmod(term, e, n_squared(key))) % n_squared(key)

\* Chosen at random: z and e for the simulated value, s for the real one.
zkp_prove(c, m, r, key, z, e, s) ==
  LET i == CHOOSE k \in {1, 2} : valid_values[k] = m
      a_values == [k \in {1, 2} |-> IF k = i THEN powmod(s, key.n, n_squared(key))
                                             ELSE Commit(c, k, z, e, key)]
      rest == (Hash(a_values) - e) % TwoTo(T)
  IN  [a_values |-> a_values,
       z_values |-> [k \in {1, 2} |-> IF k = i THEN (s * powmod(r, rest, key.n)) % key.n
                                               ELSE z],
       e_values |-> [k \in {1, 2} |-> IF k = i THEN rest ELSE e],
       e |-> Hash(a_values)]

zkp_verify(c, proof, key) ==
  /\ Hash(proof.a_values) = proof.e
  /\ (proof.e_values[1] + proof.e_values[2]) % TwoTo(T) = proof.e
  /\ \A i \in {1, 2} :
       LET g_minus_m == modinv(powmod(key.g, valid_values[i], n_squared(key)),
                               n_squared(key))
           term == (c * g_minus_m) % n_squared(key)
       IN  powmod(proof.z_values[i], key.n, n_squared(key)) =
             (proof.a_values[i] * powmod(term, proof.e_values[i], n_squared(key)))
                % n_squared(key)

-----------------------------------------------------------------------------
VARIABLES
  primes,    \* primes found for the key
  rejected,  \* history: numbers the primality test turned down
  key,       \* cle_paillier, or None
  ballots,   \* the choice and the ciphertexts of every voter
  proofs,    \* the proofs of the last ballot
  result     \* the broadcast sums, <<>> before VOTE_END

vars == <<primes, rejected, key, ballots, proofs, result>>

TypeOK ==
  /\ primes \in Seq(Nat) /\ Len(primes) <= 2
  /\ rejected \subseteq Nat
  /\ key # None => key.mu \in 1..(key.n - 1)
  /\ \A b \in DOMAIN ballots :
       /\ ballots[b].choice \in 1..CandidateCount
       /\ ballots[b].vote \in [1..CandidateCount -> 1..(n_squared(key) - 1)]
  /\ result = <<>> \/ result \in [1..CandidateCount -> 1..(n_squared(key) - 1)]

\* One draw of generate_prime; the second prime is drawn again while it is the first.
generate_prime ==
  /\ Len(primes) < 2
  /\ \E x \in 0..(TwoTo(Bits) - 1) :
       LET n == OddNumber(x) IN
       \E bases \in {S \in SUBSET (2..(n - 2)) : Cardinality(S) \in 1..Rounds} :
         IF is_prime(n, bases)
           THEN primes' = (IF primes = <<n>> THEN primes ELSE Append(primes, n))
                /\ UNCHANGED rejected
           ELSE rejected' = rejected \cup {n} /\ UNCHANGED primes
  /\ UNCHANGED <<key, ballots, proofs, result>>

generate_keypair ==
  /\ Len(primes) = 2 /\ key = None
  /\ key' = keypair(primes[1], primes[2])
  /\ UNCHANGED <<primes, rejected, ballots, proofs, result>>

\* A ciphertext and a proof for every candidate, of 1 for the one chosen.
vote(choice) ==
  /\ key # None /\ result = <<>> /\ Len(ballots) < MaxBallots
  /\ \E r \in [1..CandidateCount -> Coin(key)], z, s \in Coin(key), e \in Challenges :
       LET m(i) == IF i = choice THEN 1 ELSE 0
           c == [i \in 1..CandidateCount |-> paillier_encrypt(m(i), key, r[i])]
       IN  /\ ballots' = Append(ballots, [choice |-> choice, vote |-> c])
           /\ proofs' = [i \in 1..CandidateCount |->
                           zkp_prove(c[i], m(i), r[i], key, z, e, s)]
  /\ UNCHANGED <<primes, rejected, key, result>>

vote_end ==
  /\ key # None /\ result = <<>>
  /\ result' = [i \in 1..CandidateCount |->
                  LET sum[b \in 0..Len(ballots)] ==
                        IF b = 0 THEN 1 ELSE add(sum[b - 1], ballots[b].vote[i], key)
                  IN  sum[Len(ballots)]]
  /\ UNCHANGED <<primes, rejected, key, ballots, proofs>>

Init ==
  /\ primes = <<>> /\ rejected = {} /\ key = None
  /\ ballots = <<>> /\ proofs = <<>> /\ result = <<>>

Next == generate_prime \/ generate_keypair \/ vote_end
        \/ \E choice \in 1..CandidateCount : vote(choice)

Spec == Init /\ [][Next]_vars

-----------------------------------------------------------------------------
Found == {primes[k] : k \in DOMAIN primes}

\* The primality test turns down no prime, whatever bases are drawn, so that
\* generate_prime ends.
PrimesAreFound == \A n \in rejected : ~IsPrime(n)

\* On numbers of this size the test accepts nothing but primes.
FoundArePrime == \A n \in Found : IsPrime(n)

\* What the client decrypts from SEND_VOTE_RESULT is, candidate by candidate,
\* the number of voters who chose it, whatever random numbers hid the choices.
ResultIsCount ==
  result # <<>> =>
    \A i \in 1..CandidateCount :
      paillier_decrypt(result[i], key) =
        Cardinality({b \in DOMAIN ballots : ballots[b].choice = i})

\* The server's verification accepts every proof the client makes.
HonestProofsVerify ==
  \A i \in DOMAIN proofs :
    zkp_verify(ballots[Len(ballots)].vote[i], proofs[i], key)
=============================================================================
