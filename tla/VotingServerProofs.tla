------------------------- MODULE VotingServerProofs -------------------------
(***************************************************************************)
(* What the server does to the invariant of VotingSystem while it serves a *)
(* command of a window or of a script: one lemma for each command, on top  *)
(* of what Post makes of the answers of Election.                          *)
(***************************************************************************)
EXTENDS VotingInvariant, SequenceTheorems, FiniteSetTheorems, WellFoundedInduction, TLAPS

-----------------------------------------------------------------------------
\* The operators the models of the queues are built from: greatest and least
\* elements, and the messages that begin with a word.  The library's induction needs
\* an operator for a parameter; here a smallest counterexample takes its place.

LEMMA LeastNatural ==
  ASSUME NEW T, T \subseteq Nat, T # {}
  PROVE  \E x \in T : \A y \in T : x <= y
<1>1. PICK x \in T : \A y \in T : ~(<<y, x>> \in OpToRel(<, Nat))
  BY NatLessThanWellFounded, WFMin
<1>2. \A y \in T : x <= y
  <2>1. TAKE y \in T
  <2>2. x \in Nat /\ y \in Nat
    OBVIOUS
  <2>3. ~(y < x)
    BY <1>1, <2>2 DEF OpToRel
  <2>4. QED
    BY <2>2, <2>3
<1>3. QED
  BY <1>2

LEMMA MinIsLeast ==
  ASSUME NEW T, T \subseteq Nat, T # {}
  PROVE  Min(T) \in T /\ \A y \in T : Min(T) <= y
BY LeastNatural DEF Min

LEMMA MaxIsGreatest ==
  ASSUME NEW n \in Nat, NEW T, T \subseteq 1..n, T # {}
  PROVE  Max(T) \in T /\ \A y \in T : y <= Max(T)
<1> DEFINE Bounds == {b \in Nat : \A y \in T : y <= b}
<1>1. PICK b \in Bounds : \A c \in Bounds : b <= c
  <2>1. n \in Bounds
    OBVIOUS
  <2>2. Bounds \subseteq Nat /\ Bounds # {}
    BY <2>1
  <2>3. QED
    BY <2>2, LeastNatural
<1>2. b \in T
  <2>1. SUFFICES ASSUME b \notin T PROVE FALSE
    OBVIOUS
  <2>2. \A y \in T : y <= b - 1 /\ 1 <= y
    BY <2>1, <1>1
  <2>3. PICK y \in T : TRUE
    OBVIOUS
  <2>4. b - 1 \in Nat
    BY <2>2, <2>3, <1>1
  <2>5. b - 1 \in Bounds
    BY <2>2, <2>4
  <2>6. QED
    BY <2>5, <1>1
<1>3. \E x \in T : \A y \in T : x >= y
  BY <1>1, <1>2
<1>4. QED
  BY <1>3 DEF Max

-----------------------------------------------------------------------------
\* Only.

\* The body of the function that Only defines, on the first n positions.
Picks(F, s, words, n) ==
  F = [i \in 0..n |->
         IF i = 0 THEN <<>>
         ELSE IF s[i][1] \in words THEN Append(F[i - 1], s[i]) ELSE F[i - 1]]

LEMMA PicksExist ==
  ASSUME NEW s, NEW words, NEW n \in Nat
  PROVE  \E F : Picks(F, s, words, n)
<1> DEFINE T == {m \in Nat : ~ \E F : Picks(F, s, words, m)}
<1>1. SUFFICES ASSUME T # {} PROVE FALSE
  OBVIOUS
<1>2. PICK m \in T : \A y \in T : m <= y
  BY <1>1, LeastNatural
<1>3. m # 0
  <2>1. Picks([i \in 0..0 |-> <<>>], s, words, 0)
    BY DEF Picks
  <2>2. QED
    BY <2>1
<1>4. m - 1 \in Nat /\ m - 1 \notin T
  BY <1>2, <1>3
<1>5. PICK G : Picks(G, s, words, m - 1)
  BY <1>4
<1> DEFINE F == [i \in 0..m |->
                   IF i < m THEN G[i]
                   ELSE IF s[i][1] \in words THEN Append(G[i - 1], s[i]) ELSE G[i - 1]]
<1>6. Picks(F, s, words, m)
  <2>1. \A i \in 0..m - 1 :
          G[i] = IF i = 0 THEN <<>>
                 ELSE IF s[i][1] \in words THEN Append(G[i - 1], s[i]) ELSE G[i - 1]
    BY <1>5, <1>4 DEF Picks
  <2>2. \A i \in 0..m :
          F[i] = IF i = 0 THEN <<>>
                 ELSE IF s[i][1] \in words THEN Append(F[i - 1], s[i]) ELSE F[i - 1]
    <3>1. SUFFICES ASSUME NEW i \in 0..m
                   PROVE F[i] = IF i = 0 THEN <<>>
                                ELSE IF s[i][1] \in words THEN Append(F[i - 1], s[i])
                                     ELSE F[i - 1]
      OBVIOUS
    <3>2. CASE i = 0
      BY <3>2, <2>1, <1>3, <1>4
    <3>3. CASE i # 0 /\ i < m
      <4>1. i - 1 \in 0..m /\ i - 1 < m /\ i \in 0..m - 1
        BY <3>3
      <4>2. F[i - 1] = G[i - 1] /\ F[i] = G[i]
        BY <4>1, <3>3
      <4>3. QED
        BY <4>1, <4>2, <2>1, <3>3
    <3>4. CASE i = m
      <4>1. i - 1 \in 0..m /\ i - 1 < m /\ ~(i < m) /\ i # 0
        BY <3>4, <1>3, <1>4
      <4>2. F[i - 1] = G[i - 1]
        BY <4>1
      <4>3. QED
        BY <4>1, <4>2
    <3>5. QED
      BY <3>2, <3>3, <3>4
  <2>3. QED
    BY <2>2 DEF Picks
<1>7. QED
  BY <1>6, <1>2

LEMMA OnlyType ==
  ASSUME NEW S, NEW s \in Seq(S), NEW words
  PROVE  Only(s, words) \in Seq({x \in S : x[1] \in words})
<1> DEFINE F == CHOOSE f : Picks(f, s, words, Len(s))
           Q == Seq({x \in S : x[1] \in words})
           T == {m \in 0..Len(s) : F[m] \notin Q}
<1>1. Picks(F, s, words, Len(s))
  <2>1. Len(s) \in Nat
    OBVIOUS
  <2>2. QED
    BY <2>1, PicksExist
<1>2. Only(s, words) = F[Len(s)]
  BY DEF Only, Picks
<1> HIDE DEF F
<1>3. T = {}
  <2>1. SUFFICES ASSUME T # {} PROVE FALSE
    OBVIOUS
  <2>2. PICK m \in T : \A y \in T : m <= y
    <3>1. T \subseteq Nat
      OBVIOUS
    <3>2. QED
      BY <2>1, <3>1, LeastNatural
  <2>3. F[m] = IF m = 0 THEN <<>>
               ELSE IF s[m][1] \in words THEN Append(F[m - 1], s[m]) ELSE F[m - 1]
    BY <1>1 DEF Picks
  <2>4. m # 0
    <3>1. <<>> \in Q
      BY EmptySeq
    <3>2. QED
      BY <2>2, <2>3, <3>1
  <2>5. m - 1 \in 0..Len(s) /\ m - 1 \notin T /\ s[m] \in S
    BY <2>2, <2>4
  <2>6. F[m - 1] \in Q
    BY <2>5
  <2>7. F[m] \in Q
    BY <2>3, <2>4, <2>5, <2>6
  <2>8. QED
    BY <2>7
<1>4. QED
  BY <1>2, <1>3

LEMMA PicksAgree ==
  ASSUME NEW F, NEW G, NEW s, NEW t, NEW words, NEW n \in Nat, NEW m \in Nat, n <= m,
         Picks(F, s, words, n), Picks(G, t, words, m), \A i \in 1..n : s[i] = t[i]
  PROVE  \A i \in 0..n : F[i] = G[i]
<1> DEFINE T == {i \in 0..n : F[i] # G[i]}
<1>1. SUFFICES ASSUME T # {} PROVE FALSE
  OBVIOUS
<1>2. PICK k \in T : \A y \in T : k <= y
  <2>1. T \subseteq Nat
    OBVIOUS
  <2>2. QED
    BY <1>1, <2>1, LeastNatural
<1>3. /\ F[k] = IF k = 0 THEN <<>>
                ELSE IF s[k][1] \in words THEN Append(F[k - 1], s[k]) ELSE F[k - 1]
      /\ G[k] = IF k = 0 THEN <<>>
                ELSE IF t[k][1] \in words THEN Append(G[k - 1], t[k]) ELSE G[k - 1]
  <2>1. k \in 0..n /\ k \in 0..m
    OBVIOUS
  <2>2. QED
    BY <2>1 DEF Picks
<1>4. k # 0
  BY <1>2, <1>3
<1>5. k - 1 \in 0..n /\ k - 1 \notin T /\ k \in 1..n
  BY <1>2, <1>4
<1>6. F[k - 1] = G[k - 1] /\ s[k] = t[k]
  BY <1>5
<1>7. F[k] = G[k]
  BY <1>3, <1>4, <1>6
<1>8. QED
  BY <1>7

LEMMA OnlyOfPicks ==
  ASSUME NEW S, NEW s \in Seq(S), NEW words, NEW F, NEW n \in Nat, Len(s) <= n,
         NEW t, Picks(F, t, words, n), \A i \in 1..Len(s) : t[i] = s[i]
  PROVE  Only(s, words) = F[Len(s)]
<1> DEFINE G == CHOOSE f : Picks(f, s, words, Len(s))
<1>1. Len(s) \in Nat
  OBVIOUS
<1>2. Picks(G, s, words, Len(s))
  BY <1>1, PicksExist
<1>3. Only(s, words) = G[Len(s)]
  BY DEF Only, Picks
<1> HIDE DEF G
<1>4. \A i \in 0..Len(s) : G[i] = F[i]
  BY <1>1, <1>2, PicksAgree
<1>5. QED
  BY <1>1, <1>3, <1>4

LEMMA OnlyEmpty == \A words : Only(<<>>, words) = <<>>
<1> SUFFICES ASSUME NEW words PROVE Only(<<>>, words) = <<>>
  OBVIOUS
<1>1. <<>> \in Seq({}) /\ Len(<<>>) = 0
  OBVIOUS
<1>2. PICK F : Picks(F, <<>>, words, 0)
  BY PicksExist
<1>3. Only(<<>>, words) = F[0]
  <2>1. Picks(F, <<>>, words, Len(<<>>)) /\ Len(<<>>) \in Nat /\ Len(<<>>) <= Len(<<>>)
    BY <1>1, <1>2
  <2>2. Only(<<>>, words) = F[Len(<<>>)]
    BY <1>1, <2>1, OnlyOfPicks
  <2>3. QED
    BY <1>1, <2>2
<1>4. QED
  BY <1>2, <1>3 DEF Picks

LEMMA OnlyAppend ==
  ASSUME NEW S, NEW s \in Seq(S), NEW x \in S, NEW words
  PROVE  Only(Append(s, x), words) = IF x[1] \in words THEN Append(Only(s, words), x)
                                     ELSE Only(s, words)
<1> DEFINE t == Append(s, x)
           n == Len(s)
<1>1. n \in Nat /\ t \in Seq(S) /\ Len(t) = n + 1
  OBVIOUS
<1>2. t[n + 1] = x /\ \A i \in 1..n : t[i] = s[i]
  OBVIOUS
<1> HIDE DEF t
<1>3. PICK F : Picks(F, t, words, n + 1)
  <2>1. n + 1 \in Nat
    BY <1>1
  <2>2. QED
    BY <2>1, PicksExist
<1>4. Only(t, words) = F[n + 1]
  BY <1>1, <1>3, OnlyOfPicks
<1>5. Only(s, words) = F[n]
  <2>1. n <= n + 1 /\ n + 1 \in Nat
    BY <1>1
  <2>2. QED
    BY <2>1, <1>2, <1>3, OnlyOfPicks
<1>6. F[n + 1] = IF x[1] \in words THEN Append(F[n], x) ELSE F[n]
  <2>1. n + 1 \in 0..n + 1 /\ n + 1 # 0 /\ (n + 1) - 1 = n
    BY <1>1
  <2>2. F[n + 1] = IF n + 1 = 0 THEN <<>>
                   ELSE IF t[n + 1][1] \in words THEN Append(F[(n + 1) - 1], t[n + 1])
                   ELSE F[(n + 1) - 1]
    BY <2>1, <1>3 DEF Picks
  <2>3. QED
    BY <2>1, <2>2, <1>2
<1>7. QED
  BY <1>4, <1>5, <1>6 DEF t

LEMMA OnlyOne ==
  \A x, words : Only(<<x>>, words) = IF x[1] \in words THEN <<x>> ELSE <<>>
<1> SUFFICES ASSUME NEW x, NEW words
             PROVE  Only(<<x>>, words) = IF x[1] \in words THEN <<x>> ELSE <<>>
  OBVIOUS
<1>1. <<>> \in Seq({x}) /\ x \in {x} /\ Append(<<>>, x) = <<x>>
  OBVIOUS
<1>2. \A s \in Seq({x}) : Only(Append(s, x), words) =
        IF x[1] \in words THEN Append(Only(s, words), x) ELSE Only(s, words)
  BY <1>1, OnlyAppend
<1>3. Only(<<>>, words) = <<>>
  BY OnlyEmpty
<1>4. QED
  BY ONLY <1>1, <1>2, <1>3

LEMMA OnlyIsSeq ==
  ASSUME NEW S, NEW s \in Seq(S), NEW words
  PROVE  Only(s, words) \in Seq(S)
<1>1. Only(s, words) \in Seq({x \in S : x[1] \in words})
  BY OnlyType
<1>2. {x \in S : x[1] \in words} \subseteq S
  OBVIOUS
<1>3. QED
  BY <1>1, <1>2, SeqMonotonic

\* The prefixes of t, one longer than the other, until the concatenation is complete.
LEMMA OnlyConcat ==
  ASSUME NEW S, NEW s \in Seq(S), NEW t \in Seq(S), NEW words
  PROVE  Only(s \o t, words) = Only(s, words) \o Only(t, words)
<1> DEFINE Pre(n) == SubSeq(t, 1, n)
           T == {n \in 0..Len(t) :
                   Only(s \o Pre(n), words) # Only(s, words) \o Only(Pre(n), words)}
<1>0. Len(t) \in Nat /\ Only(s, words) \in Seq(S)
  BY OnlyIsSeq
<1>1. T = {}
  <2>1. SUFFICES ASSUME T # {} PROVE FALSE
    OBVIOUS
  <2>2. PICK n \in T : \A y \in T : n <= y
    <3>1. T \subseteq Nat
      OBVIOUS
    <3>2. QED
      BY <2>1, <3>1, LeastNatural
  <2>3. n # 0
    <3>1. Pre(0) = <<>>
      OBVIOUS
    <3>2. s \o <<>> = s /\ Only(s, words) \o <<>> = Only(s, words)
      BY <1>0
    <3>3. Only(s \o Pre(0), words) = Only(s, words) \o Only(Pre(0), words)
      BY <3>1, <3>2, OnlyEmpty
    <3>4. QED
      BY <3>3
  <2>4. n - 1 \in 0..Len(t) /\ n - 1 \notin T /\ n \in 1..Len(t)
    BY <2>2, <2>3
  <2> DEFINE p == Pre(n - 1)
             x == t[n]
  <2>5. p \in Seq(S) /\ x \in S /\ Pre(n) = Append(p, x)
    <3>1. x \in S
      BY <2>4
    <3>2. p \in Seq(S) /\ Len(p) = n - 1 /\ \A i \in 1..n - 1 : p[i] = t[i]
      BY <2>4
    <3>3. Pre(n) \in Seq(S) /\ Len(Pre(n)) = n /\ \A i \in 1..n : Pre(n)[i] = t[i]
      BY <2>4
    <3>4. Append(p, x) \in Seq(S) /\ Len(Append(p, x)) = n
      BY <3>1, <3>2, <2>4
    <3>5. \A i \in 1..n : Append(p, x)[i] = t[i]
      BY <3>1, <3>2, <2>4
    <3>6. QED
      BY <3>1, <3>2, <3>3, <3>4, <3>5, SeqEqual
  <2>6. Only(s \o p, words) = Only(s, words) \o Only(p, words)
    BY <2>4
  <2> HIDE DEF p, x, Pre
  <2>7. s \o Append(p, x) = Append(s \o p, x) /\ s \o p \in Seq(S)
    BY <2>5, SMTT(30)
  <2>8. Only(p, words) \in Seq(S)
    BY <2>5, OnlyIsSeq
  <2>9. Only(s, words) \o Append(Only(p, words), x)
          = Append(Only(s, words) \o Only(p, words), x)
    BY <2>5, <2>8, <1>0, SMTT(30)
  <2>10. Only(s \o Append(p, x), words) = Only(s, words) \o Only(Append(p, x), words)
    <3>0. \A q \in Seq(S) : Only(Append(q, x), words) = IF x[1] \in words
            THEN Append(Only(q, words), x) ELSE Only(q, words)
      BY <2>5, OnlyAppend
    <3>1. Only(Append(s \o p, x), words) = IF x[1] \in words
            THEN Append(Only(s \o p, words), x) ELSE Only(s \o p, words)
      BY ONLY <2>7, <3>0
    <3>2. Only(Append(p, x), words) = IF x[1] \in words
            THEN Append(Only(p, words), x) ELSE Only(p, words)
      BY <2>5, OnlyAppend
    <3>3. QED
      BY <3>1, <3>2, <2>6, <2>7, <2>9
  <2>11. QED
    BY <2>2, <2>5, <2>10
<1>2. Len(t) \in 0..Len(t) /\ Pre(Len(t)) = t
  BY <1>0
<1>3. QED
  BY <1>1, <1>2

\* Nothing is picked where no message begins with the words.
LEMMA OnlyNone ==
  ASSUME NEW S, NEW s \in Seq(S), NEW words, \A x \in S : x[1] \notin words
  PROVE  Only(s, words) = <<>>
<1>1. Only(s, words) \in Seq({x \in S : x[1] \in words})
  BY OnlyType
<1>2. {x \in S : x[1] \in words} = {}
  OBVIOUS
<1>3. QED
  BY <1>1, <1>2

LEMMA ColumnType ==
  ASSUME NEW S, NEW s \in Seq(S), NEW k, NEW T, \A x \in S : x[k] \in T
  PROVE  Column(s, k) \in Seq(T) /\ Len(Column(s, k)) = Len(s)
<1>1. Len(s) \in Nat /\ DOMAIN s = 1..Len(s)
  OBVIOUS
<1>2. Column(s, k) \in [1..Len(s) -> T]
  BY <1>1 DEF Column
<1>3. QED
  BY <1>1, <1>2, SeqDef

LEMMA ConcatByParts ==
  ASSUME NEW S, NEW s \in Seq(S), NEW t \in Seq(S), NEW w \in Seq(S),
         Len(w) = Len(s) + Len(t), \A i \in 1..Len(s) : w[i] = s[i],
         \A i \in 1..Len(t) : w[Len(s) + i] = t[i]
  PROVE  w = s \o t
<1>1. /\ s \o t \in Seq(S) /\ Len(s \o t) = Len(s) + Len(t)
      /\ \A i \in 1..Len(s) + Len(t) :
           (s \o t)[i] = IF i <= Len(s) THEN s[i] ELSE t[i - Len(s)]
  BY ConcatProperties
<1>2. Len(s) \in Nat /\ Len(t) \in Nat
  OBVIOUS
<1>3. ASSUME NEW i \in 1..Len(w) PROVE w[i] = (s \o t)[i]
  <2>1. CASE i <= Len(s)
    BY <1>1, <1>2, <2>1
  <2>2. CASE ~(i <= Len(s))
    <3>1. i - Len(s) \in 1..Len(t) /\ Len(s) + (i - Len(s)) = i
      BY <1>2, <2>2
    <3>2. w[i] = t[i - Len(s)]
      BY <3>1
    <3>3. QED
      BY <1>1, <1>2, <2>2, <3>2
  <2>3. QED
    BY <2>1, <2>2
<1>4. QED
  BY <1>1, <1>3, SeqEqual

LEMMA ColumnConcat ==
  ASSUME NEW S, NEW s \in Seq(S), NEW t \in Seq(S), NEW k,
         NEW T, Column(s, k) \in Seq(T), Column(t, k) \in Seq(T)
  PROVE  Column(s \o t, k) = Column(s, k) \o Column(t, k)
<1>1. /\ s \o t \in Seq(S) /\ Len(s \o t) = Len(s) + Len(t)
      /\ \A i \in 1..Len(s) + Len(t) :
           (s \o t)[i] = IF i <= Len(s) THEN s[i] ELSE t[i - Len(s)]
  BY ConcatProperties
<1>2. Len(s) \in Nat /\ Len(t) \in Nat /\ DOMAIN s = 1..Len(s) /\ DOMAIN t = 1..Len(t)
      /\ DOMAIN (s \o t) = 1..Len(s) + Len(t)
  BY <1>1
<1>3. Len(Column(s, k)) = Len(s) /\ Len(Column(t, k)) = Len(t)
  <2>1. \A n \in Nat, f \in Seq(T) : DOMAIN f = 1..n => Len(f) = n
    OBVIOUS
  <2>2. DOMAIN Column(s, k) = 1..Len(s) /\ DOMAIN Column(t, k) = 1..Len(t)
    BY <1>2 DEF Column
  <2>3. QED
    BY <1>2, <2>1, <2>2
<1>4. ASSUME NEW i \in 1..Len(s) PROVE Column(s \o t, k)[i] = Column(s, k)[i]
  <2>1. i \in 1..Len(s) + Len(t) /\ i <= Len(s)
    BY <1>2
  <2>2. QED
    BY <1>1, <1>2, <2>1 DEF Column
<1>5. ASSUME NEW i \in 1..Len(t) PROVE Column(s \o t, k)[Len(s) + i] = Column(t, k)[i]
  <2>1. Len(s) + i \in 1..Len(s) + Len(t) /\ ~(Len(s) + i <= Len(s))
        /\ Len(s) + i - Len(s) = i
    BY <1>2
  <2>2. QED
    BY <1>1, <1>2, <2>1 DEF Column
<1>6. Column(s \o t, k) \in Seq(T) /\ Len(Column(s \o t, k)) = Len(s) + Len(t)
  <2>1. ASSUME NEW i \in 1..Len(s) + Len(t) PROVE Column(s \o t, k)[i] \in T
    <3>1. CASE i \in 1..Len(s)
      BY <3>1, <1>3, <1>4
    <3>2. CASE i \notin 1..Len(s)
      <4>1. i - Len(s) \in 1..Len(t) /\ Len(s) + (i - Len(s)) = i
        BY <1>2, <3>2
      <4>2. Column(s \o t, k)[i] = Column(t, k)[i - Len(s)]
        BY <4>1, <1>5
      <4>3. QED
        BY <4>1, <4>2, <1>3
    <3>3. QED
      BY <3>1, <3>2
  <2>2. Column(s \o t, k) \in [1..Len(s) + Len(t) -> T]
    BY <2>1, <1>2 DEF Column
  <2>3. Len(s) + Len(t) \in Nat
    BY <1>2
  <2>4. QED
    BY <2>2, <2>3, SeqDef, SMTT(30)
<1>7. QED
  <2>1. \A i \in 1..Len(Column(s, k)) : Column(s \o t, k)[i] = Column(s, k)[i]
    BY <1>3, <1>4
  <2>2. \A i \in 1..Len(Column(t, k)) :
          Column(s \o t, k)[Len(Column(s, k)) + i] = Column(t, k)[i]
    BY <1>3, <1>5
  <2>3. Len(Column(s \o t, k)) = Len(Column(s, k)) + Len(Column(t, k))
    BY <1>3, <1>6
  <2>4. Column(s, k) \in Seq(T) /\ Column(t, k) \in Seq(T)
    OBVIOUS
  <2>5. QED
    BY ONLY <1>6, <2>1, <2>2, <2>3, <2>4, ConcatByParts

LEMMA ColumnEmpty == \A k : Column(<<>>, k) = <<>>
BY DEF Column

LEMMA ColumnOne == \A x, k : Column(<<x>>, k) = <<x[k]>>
BY DEF Column

-----------------------------------------------------------------------------
\* Cutting a queue in two.

LEMMA CutIsWhole ==
  ASSUME NEW S, NEW s \in Seq(S), NEW n \in 0..Len(s)
  PROVE  /\ SubSeq(s, 1, n) \in Seq(S) /\ SubSeq(s, n + 1, Len(s)) \in Seq(S)
         /\ s = SubSeq(s, 1, n) \o SubSeq(s, n + 1, Len(s))
<1>1. Len(s) \in Nat /\ 1 \in 1..Len(s) + 1 /\ n \in 1 - 1..Len(s) /\ Len(s) \in n..Len(s)
  OBVIOUS
<1>2. SubSeq(s, 1, n) \o SubSeq(s, n + 1, Len(s)) = SubSeq(s, 1, Len(s))
  BY <1>1, ConcatAdjacentSubSeq
<1>3. SubSeq(s, 1, Len(s)) = s
  BY SubSeqFull
<1>4. SubSeq(s, 1, n) \in Seq(S) /\ SubSeq(s, n + 1, Len(s)) \in Seq(S)
  <2>1. \A i \in 1..n : s[i] \in S
    BY <1>1
  <2>2. \A i \in n + 1..Len(s) : s[i] \in S
    BY <1>1
  <2>3. 1 \in Int /\ n \in Int /\ n + 1 \in Int /\ Len(s) \in Int
    BY <1>1
  <2>4. QED
    BY <2>1, <2>2, <2>3, SubSeqProperties
<1>5. QED
  BY <1>2, <1>3, <1>4

LEMMA WholeIsCut ==
  ASSUME NEW S, NEW s \in Seq(S), NEW t \in Seq(S)
  PROVE  /\ s \o t \in Seq(S) /\ Len(s) \in 0..Len(s \o t)
         /\ SubSeq(s \o t, 1, Len(s)) = s
         /\ SubSeq(s \o t, Len(s) + 1, Len(s \o t)) = t
<1> DEFINE w == s \o t
           n == Len(s)
           a == SubSeq(w, 1, n)
           b == SubSeq(w, n + 1, Len(w))
<1>1. /\ w \in Seq(S) /\ Len(w) = n + Len(t) /\ n \in Nat /\ Len(t) \in Nat
      /\ \A i \in 1..n + Len(t) : w[i] = IF i <= n THEN s[i] ELSE t[i - n]
  BY ConcatProperties
<1>2. n \in 0..Len(w)
  BY <1>1
<1> HIDE DEF w
<1>3. \A i \in 1..Len(w) : w[i] \in S
  BY <1>1
<1>4. a \in Seq(S) /\ Len(a) = n /\ \A i \in 1..n : a[i] = s[i]
  <2>1. \A i \in 1..n : w[i] \in S
    BY <1>1, <1>3
  <2>2. /\ a \in Seq(S) /\ Len(a) = IF 1 <= n THEN n - 1 + 1 ELSE 0
        /\ \A i \in 1..n - 1 + 1 : a[i] = w[1 + i - 1]
    BY <1>1, <2>1, SubSeqProperties
  <2>3. QED
    BY <1>1, <2>2
<1>5. b \in Seq(S) /\ Len(b) = Len(t) /\ \A i \in 1..Len(t) : b[i] = t[i]
  <2>1. \A i \in n + 1..Len(w) : w[i] \in S
    BY <1>1, <1>3
  <2>2. /\ b \in Seq(S) /\ Len(b) = IF n + 1 <= Len(w) THEN Len(w) - (n + 1) + 1 ELSE 0
        /\ \A i \in 1..Len(w) - (n + 1) + 1 : b[i] = w[n + 1 + i - 1]
    BY <1>1, <2>1, SubSeqProperties
  <2>3. Len(b) = Len(t) /\ Len(w) - (n + 1) + 1 = Len(t)
    BY <1>1, <2>2
  <2> HIDE DEF b
  <2>4. ASSUME NEW i \in 1..Len(t) PROVE b[i] = t[i]
    <3>1. b[i] = w[n + 1 + i - 1] /\ n + 1 + i - 1 = n + i
      BY <1>1, <2>2, <2>3
    <3>2. n + i \in 1..n + Len(t) /\ ~(n + i <= n) /\ n + i - n = i
      BY <1>1
    <3>3. QED
      BY <1>1, <3>1, <3>2
  <2>5. QED
    BY <2>2, <2>3, <2>4
<1>6. a = s /\ b = t
  BY <1>4, <1>5, SeqEqual
<1>7. QED
  BY <1>1, <1>2, <1>6 DEF w

-----------------------------------------------------------------------------

\* Constants and words.

LEMMA SlateFacts ==
  /\ Slate \in Seq(ToSet(Slate)) /\ Slate # <<>>
  /\ Len(Slate) \in Nat /\ DOMAIN Slate = 1..Len(Slate)
  /\ Papers \subseteq Seq({0, 1})
  /\ \A b \in Papers : Len(b) = Len(Slate)
<1>1. Slate \in Seq(ToSet(Slate)) /\ Slate # <<>>
  BY ClientAssumption
<1>2. Len(Slate) \in Nat /\ DOMAIN Slate = 1..Len(Slate)
  BY <1>1
<1>3. \A b \in Papers : b \in Seq({0, 1}) /\ Len(b) = Len(Slate)
  <2>1. SUFFICES ASSUME NEW label
                 PROVE  Ballot(Slate, label) \in Seq({0, 1})
                        /\ Len(Ballot(Slate, label)) = Len(Slate)
    BY DEF Papers
  <2>2. Ballot(Slate, label) \in [1..Len(Slate) -> {0, 1}]
    BY <1>2 DEF Ballot
  <2>3. QED
    BY <1>2, <2>2, SeqDef
<1>4. QED
  BY <1>1, <1>2, <1>3

LEMMA ResultsType ==
  ASSUME NEW s \in Seq(Answer)
  PROVE  Results(s) \in Seq(Enclosed)
<1>1. Only(s, {"SEND_VOTE_RESULT"}) \in Seq(Answer)
  BY OnlyIsSeq
<1>2. \A m \in Answer : m[4] \in Enclosed
  BY DEF Answer
<1>3. QED
  BY <1>1, <1>2, ColumnType DEF Results

LEMMA ProcessFacts ==
  /\ IsFiniteSet(Processes)
  /\ Voters \subseteq Processes /\ 1..Scripts \subseteq Processes
  /\ \A p \in Processes : p \in Voters \/ p \in 1..Scripts
  /\ \A p \in Voters : p \notin 1..Scripts
<1>1. IsFiniteSet(Voters) /\ Scripts \in Nat /\ Voters \cap (1..Scripts) = {}
  BY ClientAssumption
<1>2. IsFiniteSet(1..Scripts)
  BY <1>1, FS_Interval
<1>3. IsFiniteSet(Voters \cup 1..Scripts)
  BY <1>1, <1>2, FS_Union
<1>4. QED
  BY <1>1, <1>3 DEF Processes

-----------------------------------------------------------------------------
\* What Post puts into the outbox.

LEMMA PostSends ==
  ASSUME Post, sent' \in [Processes -> Seq(E!Message)],
         NEW T,
         \A q \in Processes : \A k \in DOMAIN sent'[q] : <<q, Filled(sent'[q][k])>> \in T
  PROVE  outbox' \in Seq(T)
<1> DEFINE Told == {p \in Processes : sent'[p] # <<>>}
<1>1. PICK n \in Nat : n = Cardinality(Told)
  <2>1. IsFiniteSet(Told)
    BY ProcessFacts, FS_Subset
  <2>2. QED
    BY <2>1, FS_CardinalityType
<1>2. PICK order \in SetToSeqs(Told) :
        \/ /\ Len(order) = 1
           /\ outbox' = [k \in DOMAIN sent'[order[1]] |->
                          <<order[1], Filled(sent'[order[1]][k])>>]
        \/ /\ Len(order) # 1 /\ \A i \in DOMAIN order : Len(sent'[order[i]]) = 1
           /\ outbox' = [i \in DOMAIN order |->
                          <<order[i], Filled(sent'[order[i]][1])>>]
  BY DEF Post
<1>3. order \in [1..n -> Told]
  BY <1>1, <1>2 DEF SetToSeqs
<1> HIDE DEF Told
<1>4. DOMAIN order = 1..n /\ Len(order) = n
  BY <1>3
<1>5. Told \subseteq Processes
  BY DEF Told
<1>6. CASE /\ Len(order) = 1
           /\ outbox' = [k \in DOMAIN sent'[order[1]] |->
                          <<order[1], Filled(sent'[order[1]][k])>>]
  <2>1. order[1] \in Processes
    <3>1. 1 \in 1..n
      BY <1>4, <1>6
    <3>2. QED
      BY <1>3, <1>5, <3>1
  <2>2. sent'[order[1]] \in Seq(E!Message)
    BY <2>1
  <2>3. DOMAIN sent'[order[1]] = 1..Len(sent'[order[1]]) /\ Len(sent'[order[1]]) \in Nat
    BY <2>2
  <2>4. PICK k \in Nat : k = Len(sent'[order[1]])
    BY <2>3
  <2>5. outbox' \in [1..k -> T]
    BY <1>6, <2>1, <2>3, <2>4
  <2>6. QED
    BY <2>5, SeqDef
<1>7. CASE /\ Len(order) # 1 /\ \A i \in DOMAIN order : Len(sent'[order[i]]) = 1
           /\ outbox' = [i \in DOMAIN order |->
                          <<order[i], Filled(sent'[order[i]][1])>>]
  <2>1. \A i \in DOMAIN order : <<order[i], Filled(sent'[order[i]][1])>> \in T
    <3>1. TAKE i \in DOMAIN order
    <3>2. order[i] \in Processes
      BY <1>3, <1>4, <1>5
    <3>3. sent'[order[i]] \in Seq(E!Message) /\ Len(sent'[order[i]]) = 1
      BY <3>2, <1>7
    <3>4. 1 \in DOMAIN sent'[order[i]]
      BY <3>3
    <3>5. QED
      BY <3>2, <3>4
  <2>2. outbox' \in [1..n -> T]
    BY <1>7, <1>4, <2>1
  <2>3. QED
    BY <2>2
<1>8. QED
  BY <1>2, <1>6, <1>7

LEMMA ReplyPosts ==
  ASSUME NEW p \in Processes, NEW msgs \in Seq(E!Message), E!Reply(p, msgs), Post,
         NEW T, \A k \in DOMAIN msgs : <<p, Filled(msgs[k])>> \in T
  PROVE  outbox' \in Seq(T)
<1>1. sent' = [x \in Processes |-> IF x = p THEN msgs ELSE <<>>]
  BY DEF E!Reply
<1>2. <<>> \in Seq(E!Message)
  BY EmptySeq
<1>3. sent' \in [Processes -> Seq(E!Message)]
  BY <1>1, <1>2
<1>4. \A q \in Processes : \A k \in DOMAIN sent'[q] : <<q, Filled(sent'[q][k])>> \in T
  BY <1>1
<1>5. QED
  BY <1>3, <1>4, PostSends

LEMMA BroadcastPosts ==
  ASSUME NEW msg \in E!Message, E!Broadcast(msg), Post,
         NEW T, \A q \in connected : <<q, Filled(msg)>> \in T
  PROVE  outbox' \in Seq(T)
<1>1. sent' = [x \in Processes |-> IF x \in connected THEN <<msg>> ELSE <<>>]
  BY DEF E!Broadcast
<1>2. <<>> \in Seq(E!Message) /\ <<msg>> \in Seq(E!Message)
  BY EmptySeq
<1>3. sent' \in [Processes -> Seq(E!Message)]
  BY <1>1, <1>2
<1>4. \A q \in Processes : \A k \in DOMAIN sent'[q] : <<q, Filled(sent'[q][k])>> \in T
  BY <1>1
<1>5. QED
  BY <1>3, <1>4, PostSends

LEMMA SilentPosts ==
  ASSUME E!Silent, Post, NEW T
  PROVE  outbox' \in Seq(T)
<1>1. sent' = [x \in Processes |-> <<>>]
  BY DEF E!Silent
<1>2. <<>> \in Seq(E!Message)
  BY EmptySeq
<1>3. sent' \in [Processes -> Seq(E!Message)]
  BY <1>1, <1>2
<1>4. \A q \in Processes : \A k \in DOMAIN sent'[q] : <<q, Filled(sent'[q][k])>> \in T
  BY <1>1
<1>5. QED
  BY <1>3, <1>4, PostSends

-----------------------------------------------------------------------------
\* What serving a command of p may do, whichever command it is.

\* Messages the invariant lets into the outbox.
Deliverable ==
  {e \in connected' \X Answer :
     e[1] \in Voters => Genuine(e[1], e[2])' /\ (Auth(e[1])' => ~IsKey(e[2]))}

SameRecord(old, new) ==
  /\ new.status = old.status /\ new.is_admin = old.is_admin
  /\ new.vote = old.vote /\ new.voted = old.voted /\ new.proofs = old.proofs
Serves(old, new, msg) ==
  /\ new.is_admin = old.is_admin
  /\ E!IsAuth(old) \/ msg[1] = "LOGIN" => E!IsAuth(new)
  /\ msg[1] # "SEND_ZKP" => new.proofs = old.proofs
  /\ msg[1] # "VOTE" => new.vote = old.vote /\ new.voted = old.voted
  /\ msg[1] = "VOTE" /\ E!IsAuth(old) => new.voted /\ new.vote = msg[2]
Served(p, msg) ==
  /\ connected' = connected
  /\ m_clients' \in [connected -> E!Client]
  /\ \A x \in connected \ {p} : SameRecord(m_clients[x], m_clients'[x])
  /\ Serves(m_clients[p], m_clients'[p], msg)
  /\ started' \in BOOLEAN /\ candidates' \in {<<>>, Slate}
  /\ started' => candidates' = Slate
  /\ pallier' \in BOOLEAN /\ (pallier => pallier')
  /\ msg[1] = "SEND_KEY_PAILLIER" /\ E!IsAdmin(m_clients[p]) => pallier'
  /\ server' = "running"
  /\ outbox' \in Seq(Deliverable)

LEMMA WordFacts ==
  /\ E!Heads = {"SEND_KEY", "SEND_KEY_PROOF", "RETURN", "ERROR", "SEND_VOTE_RESULT"}
  /\ E!Commands = {"", "SEND_KEY", "SEND_KEY_PROOF", "LOGIN", "VOTE", "GET_CANDIDATES",
                   "SEND_KEY_PALLIER", "SEND_ZKP"}
  /\ E!Codes = {"", "CHAR", "O0", "O1", "O2", "O4", "E1", "E4", "E5", "E6", "E7", "E8",
                "E9", "E10", "E12", "E13"}
  /\ \A h \in E!Heads, c \in E!Commands, d \in E!Codes : <<h, c, d>> \in E!Message
<1>1. E!Heads = {"SEND_KEY", "SEND_KEY_PROOF", "RETURN", "ERROR", "SEND_VOTE_RESULT"}
  BY DEF E!Heads
<1>2. E!Commands = {"", "SEND_KEY", "SEND_KEY_PROOF", "LOGIN", "VOTE", "GET_CANDIDATES",
                    "SEND_KEY_PALLIER", "SEND_ZKP"}
  BY DEF E!Commands
<1>3. E!Codes = {"", "CHAR", "O0", "O1", "O2", "O4", "E1", "E4", "E5", "E6", "E7", "E8",
                 "E9", "E10", "E12", "E13"}
  BY DEF E!Codes
<1>4. \A h \in E!Heads, c \in E!Commands, d \in E!Codes : <<h, c, d>> \in E!Message
  BY DEF E!Message
<1>5. QED
  BY <1>1, <1>2, <1>3, <1>4

LEMMA SingleMessage ==
  ASSUME NEW m \in E!Message
  PROVE  <<m>> \in Seq(E!Message) /\ DOMAIN <<m>> = {1} /\ <<m>>[1] = m
OBVIOUS

LEMMA FilledPlain ==
  ASSUME NEW h \in E!Heads, NEW c \in E!Commands, NEW d \in E!Codes,
         d # "CHAR", h # "SEND_VOTE_RESULT"
  PROVE  /\ Filled(<<h, c, d>>) = <<h, c, d, <<>> >>
         /\ Filled(<<h, c, d>>) \in Answer
<1>1. Filled(<<h, c, d>>) = <<h, c, d, <<>> >>
  BY DEF Filled
<1>2. QED
  BY <1>1 DEF Answer, Enclosed

\* An answer that opens nothing: no code the windows wait for.
LEMMA RefusalDelivered ==
  ASSUME NEW p \in connected', NEW h \in {"RETURN", "ERROR"}, NEW c \in E!Commands,
         NEW d \in E!Codes \ {"CHAR", "O0"},
         h = "RETURN" => c \notin {"GET_CANDIDATES", "VOTE"}
  PROVE  <<p, Filled(<<h, c, d>>)>> \in Deliverable
<1>1. h \in E!Heads
  BY WordFacts
<1>2. Filled(<<h, c, d>>) = <<h, c, d, <<>> >> /\ Filled(<<h, c, d>>) \in Answer
  BY <1>1, FilledPlain
<1> DEFINE m == <<h, c, d, <<>> >>
<1>3. m[1] = h /\ m[2] = c /\ m[3] = d
  OBVIOUS
<1>4. ~IsKey(m)
  BY <1>3 DEF IsKey, KeyWords
<1> HIDE DEF m
<1>5. Genuine(p, m)'
  BY <1>3, <1>4 DEF Genuine
<1>6. QED
  BY <1>2, <1>4, <1>5 DEF Deliverable, m

LEMMA ServedByReply ==
  ASSUME Inv, NEW p \in connected, NEW msg,
         NEW c \in E!Client, E!UpdateClient(p, c), Serves(m_clients[p], c, msg),
         msg[1] # "SEND_KEY_PAILLIER",
         NEW msgs \in Seq(E!Message), E!Reply(p, msgs), Post,
         \A k \in DOMAIN msgs : <<p, Filled(msgs[k])>> \in Deliverable
  PROVE  Served(p, msg)
<1>1. m_clients \in [connected -> E!Client] /\ p \in Processes
  BY DEF Inv, ServerTypes
<1>2. m_clients' = [m_clients EXCEPT ![p] = c] /\ connected' = connected
  BY DEF E!UpdateClient
<1>3. m_clients' \in [connected -> E!Client]
  BY <1>1, <1>2
<1>4. m_clients'[p] = c /\ \A x \in connected \ {p} : m_clients'[x] = m_clients[x]
  BY <1>1, <1>2
<1>5. outbox' \in Seq(Deliverable)
  BY <1>1, ReplyPosts
<1>6. QED
  BY <1>2, <1>3, <1>4, <1>5 DEF Served, SameRecord, Inv, ServerTypes, E!UpdateClient

LEMMA ServedByRefusal ==
  ASSUME Inv, NEW p \in connected, NEW msg,
         NEW h \in E!Heads, NEW c \in E!Commands, NEW d \in E!Codes,
         E!Refuse(p, h, c, d), Post,
         Serves(m_clients[p], m_clients[p], msg),
         msg[1] = "SEND_KEY_PAILLIER" => ~E!IsAdmin(m_clients[p]),
         <<p, Filled(<<h, c, d>>)>> \in Deliverable
  PROVE  Served(p, msg)
<1>1. m_clients \in [connected -> E!Client] /\ p \in Processes
  BY DEF Inv, ServerTypes
<1>2. E!Reply(p, << <<h, c, d>> >>)
  BY DEF E!Refuse
<1>3. <<h, c, d>> \in E!Message
  BY DEF E!Message
<1>4. outbox' \in Seq(Deliverable)
  BY <1>1, <1>2, <1>3, SingleMessage, ReplyPosts
<1>5. QED
  BY <1>1, <1>4 DEF Served, SameRecord, Inv, ServerTypes, E!Refuse

-----------------------------------------------------------------------------
\* The commands, one lemma each.

LEMMA RecordFacts ==
  ASSUME Inv, NEW p \in connected
  PROVE  /\ m_clients[p] \in E!Client /\ p \in Processes
         /\ m_clients[p].status \in E!State /\ m_clients[p].proofs \in Seq(E!ZKProof)
<1>1. m_clients[p] \in E!Client /\ p \in Processes
  BY DEF Inv, ServerTypes
<1>2. QED
  BY <1>1 DEF E!Client

LEMMA SendKeyServed ==
  ASSUME Inv, NEW p \in connected, NEW msg, msg[1] = "SEND_KEY",
         E!client_send_key(p, "valid"), Post
  PROVE  Served(p, msg)
<1> DEFINE old == m_clients[p]
           new == [old EXCEPT !.status = "PUB_KEY_KNOWN"]
<1>1. old \in E!Client /\ connected' = connected
  BY RecordFacts DEF E!client_send_key, E!Refuse, E!UpdateClient
<1>2. CASE E!Refuse(p, "RETURN", "SEND_KEY", "E12")
  <2>1. <<p, Filled(<<"RETURN", "SEND_KEY", "E12">>)>> \in Deliverable
    BY <1>1, RefusalDelivered, WordFacts
  <2>2. Serves(old, old, msg)
    BY DEF Serves
  <2>3. QED
    BY <1>2, <2>1, <2>2, ServedByRefusal, WordFacts
<1>3. CASE /\ old.status = "NO_AUTH"
           /\ E!UpdateClient(p, new)
           /\ E!Reply(p, << <<"SEND_KEY_PROOF", "", "">> >>)
  <2>1. new \in E!Client /\ Serves(old, new, msg)
    BY <1>1, <1>3 DEF E!Client, E!State, Serves, E!IsAuth
  <2>2. ~Auth(p)'
    <3>1. m_clients'[p].status = "PUB_KEY_KNOWN"
      BY <1>3, <1>1 DEF E!UpdateClient, Inv, ServerTypes, E!Client
    <3>2. QED
      BY <3>1 DEF Auth, E!IsAuth
  <2> DEFINE m == <<"SEND_KEY_PROOF", "", "">>
  <2>3. <<p, Filled(m)>> \in Deliverable
    <3>1. Filled(m) = <<"SEND_KEY_PROOF", "", "", <<>> >> /\ Filled(m) \in Answer
      BY FilledPlain, WordFacts
    <3>2. Genuine(p, <<"SEND_KEY_PROOF", "", "", <<>> >>)'
      BY DEF Genuine
    <3>3. QED
      BY <1>1, <2>2, <3>1, <3>2 DEF Deliverable
  <2>4. m \in E!Message
    BY WordFacts DEF E!Message
  <2> HIDE DEF m
  <2>5. QED
    BY <1>3, <2>1, <2>3, <2>4, SingleMessage, ServedByReply DEF m
<1>4. QED
  BY <1>2, <1>3 DEF E!client_send_key, E!MaySendKey

LEMMA SendKeyProofServed ==
  ASSUME Inv, NEW p \in connected, NEW msg, msg[1] = "SEND_KEY_PROOF",
         E!client_send_key_proof(p, "right"), Post
  PROVE  Served(p, msg)
<1> DEFINE old == m_clients[p]
           new == [old EXCEPT !.status = "PUB_KEY_CONFIRMED"]
<1>1. old \in E!Client /\ connected' = connected
  BY RecordFacts DEF E!client_send_key_proof, E!Refuse, E!UpdateClient
<1>2. CASE E!Refuse(p, "RETURN", "SEND_KEY_PROOF", "E12")
  <2>1. <<p, Filled(<<"RETURN", "SEND_KEY_PROOF", "E12">>)>> \in Deliverable
    BY <1>1, RefusalDelivered, WordFacts
  <2>2. Serves(old, old, msg)
    BY DEF Serves
  <2>3. QED
    BY <1>2, <2>1, <2>2, ServedByRefusal, WordFacts
<1>3. CASE /\ old.status = "PUB_KEY_KNOWN"
           /\ E!UpdateClient(p, new)
           /\ E!Reply(p, << <<"RETURN", "SEND_KEY_PROOF", "O2">> >>)
  <2>1. new \in E!Client /\ Serves(old, new, msg)
    BY <1>1, <1>3 DEF E!Client, E!State, Serves, E!IsAuth
  <2> DEFINE m == <<"RETURN", "SEND_KEY_PROOF", "O2">>
  <2>2. <<p, Filled(m)>> \in Deliverable
    BY <1>1, RefusalDelivered, WordFacts
  <2>3. m \in E!Message
    BY WordFacts DEF E!Message
  <2> HIDE DEF m
  <2>4. QED
    BY <1>3, <2>1, <2>2, <2>3, SingleMessage, ServedByReply DEF m
<1>4. QED
  BY <1>2, <1>3 DEF E!client_send_key_proof, E!MayProveKey

LEMMA LoginServed ==
  ASSUME Inv, NEW p \in connected, NEW msg, msg[1] = "LOGIN",
         E!client_login(p), Post
  PROVE  Served(p, msg)
<1> DEFINE old == m_clients[p]
           new == [old EXCEPT !.status = "FULL_AUTH"]
<1>1. old \in E!Client /\ connected' = connected
  BY RecordFacts DEF E!client_login, E!Refuse, E!UpdateClient
<1>2. CASE E!IsAuth(old) /\ E!Refuse(p, "RETURN", "LOGIN", "E9")
  <2>1. <<p, Filled(<<"RETURN", "LOGIN", "E9">>)>> \in Deliverable
    BY <1>1, RefusalDelivered, WordFacts
  <2>2. Serves(old, old, msg)
    BY <1>2 DEF Serves
  <2>3. QED
    BY <1>2, <2>1, <2>2, ServedByRefusal, WordFacts
<1>3. CASE /\ E!UpdateClient(p, new)
           /\ E!Reply(p, << <<"RETURN", "LOGIN", "O0">> >>)
  <2>1. new \in E!Client /\ Serves(old, new, msg)
    BY <1>1, <1>3 DEF E!Client, E!State, Serves, E!IsAuth
  <2>2. Auth(p)'
    <3>1. m_clients'[p].status = "FULL_AUTH"
      BY <1>3, <1>1 DEF E!UpdateClient, Inv, ServerTypes, E!Client
    <3>2. QED
      BY <1>1, <3>1 DEF Auth, E!IsAuth
  <2> DEFINE m == <<"RETURN", "LOGIN", "O0">>
  <2>3. <<p, Filled(m)>> \in Deliverable
    <3>1. Filled(m) = <<"RETURN", "LOGIN", "O0", <<>> >> /\ Filled(m) \in Answer
      BY FilledPlain, WordFacts
    <3>2. Genuine(p, <<"RETURN", "LOGIN", "O0", <<>> >>)'
      BY <2>2 DEF Genuine, IsKey, KeyWords
    <3>3. ~IsKey(<<"RETURN", "LOGIN", "O0", <<>> >>)
      BY DEF IsKey, KeyWords
    <3>4. QED
      BY <1>1, <3>1, <3>2, <3>3 DEF Deliverable
  <2>4. m \in E!Message
    BY WordFacts DEF E!Message
  <2> HIDE DEF m
  <2>5. QED
    BY <1>3, <2>1, <2>3, <2>4, SingleMessage, ServedByReply DEF m
<1>4. QED
  BY <1>2, <1>3 DEF E!client_login

LEMMA GetCandidatesServed ==
  ASSUME Inv, NEW p \in connected, NEW msg, msg[1] = "GET_CANDIDATES",
         E!client_get_candidates(p), Post
  PROVE  Served(p, msg)
<1> DEFINE old == m_clients[p]
<1>1. connected' = connected /\ Serves(old, old, msg)
  BY DEF E!client_get_candidates, E!Refuse, Serves
<1>2. CASE started /\ E!Refuse(p, "RETURN", "GET_CANDIDATES", "CHAR")
  <2> DEFINE m == <<"RETURN", "GET_CANDIDATES", "CHAR">>
             out == <<"RETURN", "GET_CANDIDATES", "CHAR", Slate>>
  <2>1. candidates' = Slate
    BY <1>2 DEF E!Refuse, Inv, ServerTypes
  <2>2. Filled(m) = out
    BY <2>1 DEF Filled
  <2>3. out \in Answer /\ ~IsKey(out)
    BY WordFacts DEF Answer, Enclosed, IsKey, KeyWords
  <2>4. Genuine(p, out)'
    BY <2>3 DEF Genuine
  <2>5. <<p, Filled(m)>> \in Deliverable
    BY <1>1, <2>2, <2>3, <2>4 DEF Deliverable
  <2>6. QED
    BY <1>1, <1>2, <2>5, ServedByRefusal, WordFacts
<1>3. CASE E!Refuse(p, "ERROR", "GET_CANDIDATES", "E13")
  <2>1. <<p, Filled(<<"ERROR", "GET_CANDIDATES", "E13">>)>> \in Deliverable
    BY <1>1, RefusalDelivered, WordFacts
  <2>2. QED
    BY <1>1, <1>3, <2>1, ServedByRefusal, WordFacts
<1>4. QED
  BY <1>2, <1>3 DEF E!client_get_candidates

LEMMA PallierKeyServed ==
  ASSUME Inv, NEW p \in connected, NEW msg, msg[1] = "SEND_KEY_PAILLIER",
         E!client_send_pallier_key(p, "valid"), Post
  PROVE  Served(p, msg)
<1> DEFINE old == m_clients[p]
<1>1. connected' = connected /\ Serves(old, old, msg)
  BY DEF E!client_send_pallier_key, E!Refuse, Serves
<1>2. CASE ~E!IsAdmin(old) /\ E!Refuse(p, "RETURN", "SEND_KEY_PALLIER", "E6")
  <2>1. <<p, Filled(<<"RETURN", "SEND_KEY_PALLIER", "E6">>)>> \in Deliverable
    BY <1>1, RefusalDelivered, WordFacts
  <2>2. QED
    BY <1>1, <1>2, <2>1, ServedByRefusal, WordFacts
<1>3. CASE /\ pallier' = ("valid" = "valid") /\ E!Silent
           /\ UNCHANGED <<connected, m_clients, started, candidates, server>>
  <2>1. outbox' \in Seq(Deliverable)
    BY <1>3, SilentPosts
  <2>2. QED
    BY <1>1, <1>3, <2>1 DEF Served, SameRecord, Inv, ServerTypes
<1>4. QED
  BY <1>2, <1>3 DEF E!client_send_pallier_key

LEMMA TwoMessages ==
  ASSUME NEW a \in E!Message, NEW b \in E!Message
  PROVE  /\ Append(<<>>, b) = <<b>> /\ Append(<<a>>, b) = <<a, b>>
         /\ <<b>> \in Seq(E!Message) /\ <<a, b>> \in Seq(E!Message)
         /\ \A k \in DOMAIN <<b>> : <<b>>[k] = b
         /\ \A k \in DOMAIN <<a, b>> : <<a, b>>[k] \in {a, b}
<1>1. Append(<<>>, b) = <<b>> /\ Append(<<a>>, b) = <<a, b>>
  <2>1. Append(<<>>, b) = <<b>>
    OBVIOUS
  <2>2. <<a>> \in Seq(E!Message) /\ <<a, b>> \in Seq(E!Message)
    OBVIOUS
  <2>3. Append(<<a>>, b) \in Seq(E!Message) /\ Len(Append(<<a>>, b)) = 2
    BY <2>2, AppendProperties
  <2>4. Append(<<a>>, b)[1] = a /\ Append(<<a>>, b)[2] = b
    BY <2>2, AppendProperties
  <2>5. Append(<<a>>, b) = <<a, b>>
    <3> DEFINE s == Append(<<a>>, b)
               t == <<a, b>>
    <3>1. Len(t) = 2 /\ t[1] = a /\ t[2] = b
      OBVIOUS
    <3> HIDE DEF s, t
    <3>2. Len(s) = 2 /\ s[1] = a /\ s[2] = b
      BY <2>3, <2>4 DEF s
    <3>3. \A i \in 1..Len(s) : s[i] = t[i]
      BY <3>1, <3>2
    <3>4. s \in Seq(E!Message) /\ t \in Seq(E!Message)
      BY <2>2, <2>3 DEF s, t
    <3>5. s = t
      BY <3>1, <3>2, <3>3, <3>4, SeqEqual
    <3>6. QED
      BY <3>5 DEF s, t
  <2>6. QED
    BY <2>1, <2>5
<1>2. <<b>> \in Seq(E!Message) /\ <<a, b>> \in Seq(E!Message)
  OBVIOUS
<1>3. \A k \in DOMAIN <<b>> : <<b>>[k] = b
  OBVIOUS
<1>4. \A k \in DOMAIN <<a, b>> : <<a, b>>[k] \in {a, b}
  OBVIOUS
<1>5. QED
  BY <1>1, <1>2, <1>3, <1>4

\* A window writes numbers only, so nothing is left of the ballot before.
LEMMA AllWritten ==
  ASSUME NEW old, NEW args \in Papers
  PROVE  E!Written(old, args) = args
<1>1. args \in [DOMAIN Slate -> {0, 1}]
  BY DEF Papers, Ballot
<1>2. \A i \in DOMAIN args : args[i] # 3
  BY <1>1
<1>3. args = [i \in DOMAIN args |-> args[i]]
  BY <1>1
<1>4. QED
  BY <1>2, <1>3 DEF E!Written

LEMMA VoteServed ==
  ASSUME Inv, NEW p \in connected, NEW msg, msg[1] = "VOTE", msg[2] \in Papers,
         Auth(p), chosen[p] # <<>>, UNCHANGED chosen,
         E!client_vote(p, msg[2]), Post
  PROVE  Served(p, msg)
<1> DEFINE old == m_clients[p]
           new == [old EXCEPT !.voted = TRUE, !.vote = msg[2]]
           o1 == <<"RETURN", "VOTE", "O1">>
           e4 == <<"RETURN", "VOTE", "E4">>
<1>1. old \in E!Client /\ connected' = connected /\ E!IsAuth(old)
  BY RecordFacts DEF E!client_vote, E!Refuse, E!UpdateClient, Auth
<1>5. o1 \in E!Message /\ e4 \in E!Message
  BY WordFacts DEF E!Message
<1> HIDE DEF o1, e4
<1>2. PICK msgs \in Seq(E!Message) :
        /\ E!UpdateClient(p, new) /\ E!Reply(p, msgs)
        /\ \A k \in DOMAIN msgs : msgs[k] \in {o1, e4}
  <2> DEFINE msgs == Append(IF Len(msg[2]) # Len(candidates) THEN <<e4>> ELSE <<>>, o1)
  <2>1. E!UpdateClient(p, new) /\ E!Reply(p, msgs)
    BY <1>1, AllWritten DEF E!client_vote, o1, e4
  <2>2. msgs = <<o1>> \/ msgs = <<e4, o1>>
    BY <1>5, TwoMessages
  <2>3. msgs \in Seq(E!Message) /\ \A k \in DOMAIN msgs : msgs[k] \in {o1, e4}
    BY <1>5, <2>2, TwoMessages
  <2>4. QED
    BY <2>1, <2>3
<1>3. new \in E!Client /\ Serves(old, new, msg)
  <2>1. msg[2] \in Seq(0..2)
    <3>1. msg[2] \in Seq({0, 1})
      BY SlateFacts
    <3>2. QED
      BY <3>1, SeqMonotonic
  <2>2. QED
    BY <1>1, <2>1 DEF E!Client, Serves, E!IsAuth
<1>4. \A d \in {"O1", "E4"} : <<p, Filled(<<"RETURN", "VOTE", d>>)>> \in Deliverable
  <2>1. TAKE d \in {"O1", "E4"}
  <2> DEFINE out == <<"RETURN", "VOTE", d, <<>> >>
  <2>2. Filled(<<"RETURN", "VOTE", d>>) = out /\ out \in Answer
    <3>1. d \in E!Codes /\ d # "CHAR" /\ "RETURN" \in E!Heads /\ "VOTE" \in E!Commands
      BY <2>1, WordFacts
    <3>2. QED
      BY <3>1, FilledPlain
  <2>3. ~IsKey(out) /\ Genuine(p, out)'
    BY DEF IsKey, KeyWords, Genuine
  <2>4. QED
    BY <1>1, <2>2, <2>3 DEF Deliverable
<1>6. \A k \in DOMAIN msgs : <<p, Filled(msgs[k])>> \in Deliverable
  BY <1>2, <1>4 DEF o1, e4
<1>7. QED
  BY <1>2, <1>3, <1>6, ServedByReply

LEMMA ZkpServed ==
  ASSUME Inv, NEW p \in connected, NEW msg, msg[1] = "SEND_ZKP", msg[2] \in DOMAIN Slate,
         E!client_send_zkp(p, msg[2], "none"), Post
  PROVE  Served(p, msg)
<1> DEFINE old == m_clients[p]
           index == msg[2]
           resized == E!Resized(old.proofs, Len(candidates))
           proofs == [resized EXCEPT ![index] = E!Stored(@, "none")]
           new == [old EXCEPT !.proofs = proofs]
<1>1. old \in E!Client /\ connected' = connected /\ old.proofs \in Seq(E!ZKProof)
  BY RecordFacts DEF E!client_send_zkp, E!Refuse, E!UpdateClient
<1>2. Serves(old, old, msg)
  BY DEF Serves
<1>3. CASE \E d \in {"E6", "E5"} : E!Refuse(p, "RETURN", "SEND_ZKP", d)
  <2>1. PICK d \in {"E6", "E5"} : E!Refuse(p, "RETURN", "SEND_ZKP", d)
    BY <1>3
  <2>2. <<p, Filled(<<"RETURN", "SEND_ZKP", d>>)>> \in Deliverable
    BY <1>1, RefusalDelivered, WordFacts
  <2>3. QED
    BY <1>2, <2>1, <2>2, ServedByRefusal, WordFacts
<1>4. CASE /\ index <= Len(candidates)
           /\ E!UpdateClient(p, new)
           /\ E!Reply(p, << <<"RETURN", "SEND_ZKP", "O4">> >>)
  <2> DEFINE n == Len(candidates)
             m == <<"RETURN", "SEND_ZKP", "O4">>
  <2>1. n \in Nat /\ index \in 1..n
    <3>1. candidates \in {<<>>, Slate}
      BY DEF Inv, ServerTypes
    <3>2. QED
      BY <1>4, <3>1, SlateFacts
  <2> HIDE DEF n
  <2>2. E!NoProof \in E!ZKProof
    BY DEF E!NoProof, E!ZKProof, E!Field
  <2>3. E!Resized(old.proofs, n) \in [1..n -> E!ZKProof]
    <3>1. \A i \in 1..n : i <= Len(old.proofs) => old.proofs[i] \in E!ZKProof
      BY <1>1
    <3>2. QED
      BY <2>2, <3>1 DEF E!Resized
  <2>4. \A z \in E!ZKProof : E!Stored(z, "none") \in E!ZKProof
    BY DEF E!Stored, E!ZKProof, E!Field
  <2>5. proofs \in [1..n -> E!ZKProof]
    BY <2>1, <2>3, <2>4 DEF n
  <2> HIDE DEF proofs
  <2>6. proofs \in Seq(E!ZKProof)
    BY <2>1, <2>5, SeqDef
  <2>7. new \in E!Client /\ Serves(old, new, msg)
    BY <1>1, <2>6 DEF E!Client, Serves, E!IsAuth
  <2>8. <<p, Filled(m)>> \in Deliverable
    BY <1>1, RefusalDelivered, WordFacts
  <2>9. m \in E!Message
    BY WordFacts DEF E!Message
  <2> HIDE DEF m, new
  <2>10. QED
    BY <1>4, <2>7, <2>8, <2>9, SingleMessage, ServedByReply DEF m, new, proofs
<1>5. QED
  BY <1>3, <1>4 DEF E!client_send_zkp

LEMMA VoteBeginServed ==
  ASSUME Inv, NEW p \in connected, NEW msg, msg[1] = "VOTE_BEGIN",
         E!vote_begin(p, Slate), Post
  PROVE  Served(p, msg)
<1> DEFINE old == m_clients[p]
<1>1. connected' = connected /\ Serves(old, old, msg)
  BY DEF E!vote_begin, E!Refuse, Serves
<1>2. CASE \E d \in {"E6", "E10"} : E!Refuse(p, "ERROR", "VOTE", d)
  <2>1. PICK d \in {"E6", "E10"} : E!Refuse(p, "ERROR", "VOTE", d)
    BY <1>2
  <2>2. <<p, Filled(<<"ERROR", "VOTE", d>>)>> \in Deliverable
    BY <1>1, RefusalDelivered, WordFacts
  <2>3. QED
    BY <1>1, <2>1, <2>2, ServedByRefusal, WordFacts
<1>3. CASE /\ started' = TRUE /\ candidates' = Slate /\ E!Silent
           /\ UNCHANGED <<connected, m_clients, pallier, server>>
  <2>1. outbox' \in Seq(Deliverable)
    BY <1>3, SilentPosts
  <2>2. QED
    BY <1>1, <1>3, <2>1 DEF Served, SameRecord, Inv, ServerTypes
<1>4. QED
  BY <1>2, <1>3 DEF E!vote_begin

LEMMA BallotsAreFull ==
  ASSUME Inv, NEW x \in connected, m_clients[x].voted
  PROVE  Len(m_clients[x].vote) = Len(Slate)
<1>1. x \in Voters
  BY ProcessFacts DEF Inv, ServerTypes, ScriptInv, ScriptOf
<1>2. m_clients[x].vote \in Papers
  BY <1>1 DEF Inv, VoterInv, VoterOf, BallotOf
<1>3. QED
  BY <1>2, SlateFacts

LEMMA CountsType ==
  ASSUME NEW r, r.slate = Slate, IsFiniteSet(DOMAIN r.counted)
  PROVE  Counts(r) \in [DOMAIN Slate -> Nat]
<1>1. \A i \in DOMAIN Slate :
        Cardinality({p \in DOMAIN r.counted :
                       i \in DOMAIN r.counted[p] /\ r.counted[p][i] = 1}) \in Nat
  <2>1. TAKE i \in DOMAIN Slate
  <2> DEFINE ones == {p \in DOMAIN r.counted :
                        i \in DOMAIN r.counted[p] /\ r.counted[p][i] = 1}
  <2>2. IsFiniteSet(ones)
    BY FS_Subset
  <2>3. QED
    BY <2>2, FS_CardinalityType
<1>2. QED
  BY <1>1 DEF Counts

LEMMA VoteEndServed ==
  ASSUME Inv, NEW p \in connected, NEW msg, msg[1] = "VOTE_END",
         m_clients[p].vote = <<>>, m_clients[p].proofs = <<>>, pallier,
         E!vote_end(p), Post
  PROVE  Served(p, msg)
<1> DEFINE ender == m_clients[p]
           approved == E!Approves(ender)
           counted == E!Counts(approved)
<1>1. Serves(ender, ender, msg) /\ connected' = connected
  BY DEF E!vote_end, E!Refuse, E!Abort, Serves
<1>2. CASE \E d \in {"E6", "E13"} : E!Refuse(p, "ERROR", "VOTE", d)
  <2>1. PICK d \in {"E6", "E13"} : E!Refuse(p, "ERROR", "VOTE", d)
    BY <1>2
  <2>2. <<p, Filled(<<"ERROR", "VOTE", d>>)>> \in Deliverable
    BY <1>1, RefusalDelivered, WordFacts
  <2>3. QED
    BY <1>1, <2>1, <2>2, ServedByRefusal, WordFacts
<1>3. CASE /\ started /\ started' = FALSE
           /\ m_clients' = [x \in DOMAIN m_clients |->
                              [m_clients[x] EXCEPT !.aproved = approved]]
           /\ result' = [round |-> round, slate |-> candidates, counted |->
                           [x \in counted |-> m_clients[x].vote]]
           /\ E!Broadcast(<<"SEND_VOTE_RESULT", "", "">>)
           /\ UNCHANGED <<connected, candidates, pallier, server>>
  <2>1. m_clients \in [connected -> E!Client] /\ connected \subseteq Processes
        /\ candidates = Slate
    BY <1>3 DEF Inv, ServerTypes
  <2>2. approved \in BOOLEAN
    BY DEF E!Approves
  <2> HIDE DEF approved
  <2>3. m_clients' \in [connected -> E!Client]
        /\ \A x \in connected : SameRecord(m_clients[x], m_clients'[x])
    <3>1. m_clients' = [x \in connected |-> [m_clients[x] EXCEPT !.aproved = approved]]
      BY <1>3, <2>1
    <3>2. \A x \in connected : /\ [m_clients[x] EXCEPT !.aproved = approved] \in E!Client
                               /\ SameRecord(m_clients[x],
                                             [m_clients[x] EXCEPT !.aproved = approved])
      BY <2>1, <2>2 DEF E!Client, SameRecord
    <3>3. QED
      BY <3>1, <3>2
  <2>4. PICK counts \in [DOMAIN Slate -> Nat] : counts = Counts(result')
    <3>1. counted \subseteq connected
      BY <2>1 DEF E!Counts
    <3>2. IsFiniteSet(counted)
      BY <2>1, <3>1, ProcessFacts, FS_Subset
    <3> HIDE DEF counted
    <3>3. result'.slate = Slate /\ DOMAIN result'.counted = counted
      BY <1>3, <2>1
    <3>4. QED
      BY <3>2, <3>3, CountsType
  <2> DEFINE m == <<"SEND_VOTE_RESULT", "", "">>
             out == <<"SEND_VOTE_RESULT", "", "", counts>>
  <2>5. Filled(m) = out
    BY <2>4 DEF Filled
  <2>6. out \in Answer /\ ~IsKey(out)
    BY <2>4, WordFacts DEF Answer, Enclosed, IsKey, KeyWords
  <2>7. \A q \in connected : Genuine(q, out)'
    BY <2>6 DEF Genuine
  <2> HIDE DEF m, out
  <2>8. \A q \in connected : <<q, Filled(m)>> \in Deliverable
    BY <1>1, <2>5, <2>6, <2>7 DEF Deliverable
  <2>9. outbox' \in Seq(Deliverable)
    <3>1. m \in E!Message
      BY WordFacts DEF E!Message, m
    <3>2. E!Broadcast(m)
      BY <1>3 DEF m
    <3>3. QED
      BY <2>8, <3>1, <3>2, BroadcastPosts
  <2>10. Serves(ender, m_clients'[p], msg)
    BY <2>3 DEF Serves, SameRecord, E!IsAuth
  <2>11. QED
    BY <1>1, <1>3, <2>3, <2>9, <2>10 DEF Served, Inv, ServerTypes
\* A script's ballot is empty, pallier is set and every ballot is full.
<1>4. ~(\/ E!DividesByZero(counted) \/ E!ReadsPastProofs(ender)
        \/ (started /\ E!ReadsPastBallot(counted)))
  <2>1. ~E!DividesByZero(counted)
    BY DEF E!DividesByZero
  <2>2. ~E!ReadsPastProofs(ender)
    BY DEF E!ReadsPastProofs
  <2>3. started => ~E!ReadsPastBallot(counted)
    <3>1. SUFFICES ASSUME started, NEW x \in counted
                   PROVE  ~(Len(m_clients[x].vote) < Len(candidates))
      BY DEF E!ReadsPastBallot
    <3>2. x \in connected /\ m_clients[x].voted /\ candidates = Slate
      BY <3>1 DEF Inv, ServerTypes, E!Counts
    <3>3. Len(m_clients[x].vote) = Len(Slate)
      BY <3>2, BallotsAreFull
    <3>4. QED
      BY <3>2, <3>3, SlateFacts
  <2>4. QED
    BY <2>1, <2>2, <2>3
<1>5. QED
  BY <1>2, <1>3, <1>4 DEF E!vote_end, E!MayEnd

-----------------------------------------------------------------------------
\* What there is to handle.

LEMMA HeadFacts ==
  ASSUME Inv, NEW p \in Processes, to_server[p] # <<>>
  PROVE  /\ to_server[p] \in Seq(Requests)
         /\ 1 \in DOMAIN to_server[p] /\ Head(to_server[p]) = to_server[p][1]
         /\ Tail(to_server[p]) \in Seq(Requests)
         /\ Len(Tail(to_server[p])) = Len(to_server[p]) - 1
         /\ DOMAIN Tail(to_server[p]) = 1..Len(to_server[p]) - 1
         /\ \A i \in DOMAIN Tail(to_server[p]) :
              i + 1 \in DOMAIN to_server[p] /\ Tail(to_server[p])[i] = to_server[p][i + 1]
<1>1. to_server[p] \in Seq(Requests)
  BY DEF Inv, ClientTypes
<1>2. Len(to_server[p]) \in Nat \ {0} /\ DOMAIN to_server[p] = 1..Len(to_server[p])
  BY <1>1
<1>3. /\ Tail(to_server[p]) \in Seq(Requests)
      /\ Len(Tail(to_server[p])) = Len(to_server[p]) - 1
      /\ \A i \in 1..Len(Tail(to_server[p])) : Tail(to_server[p])[i] = to_server[p][i + 1]
  BY <1>1, HeadTailProperties
<1>4. Head(to_server[p]) = to_server[p][1]
  BY <1>1, <1>2
<1>5. DOMAIN Tail(to_server[p]) = 1..Len(to_server[p]) - 1
  BY <1>3
<1>6. QED
  BY <1>1, <1>2, <1>3, <1>4, <1>5

LEMMA VoterHead ==
  ASSUME Inv, NEW p \in Voters, to_server[p] # <<>>, NEW msg, msg = Head(to_server[p])
  PROVE  /\ msg[1] \in {"SEND_KEY", "SEND_KEY_PROOF", "LOGIN", "GET_CANDIDATES",
                        "SEND_ZKP", "VOTE"}
         /\ msg[1] = "SEND_ZKP" => msg[2] \in DOMAIN Slate
         /\ msg[1] = "VOTE" => msg[2] \in Papers /\ Auth(p) /\ chosen[p] # <<>>
<1>1. 1 \in DOMAIN to_server[p] /\ msg = to_server[p][1]
  BY HeadFacts, ProcessFacts
<1>2. msg \in VoterRequests
  BY <1>1 DEF Inv, VoterInv, VoterOf, BallotOf
<1>3. msg[1] = "VOTE" => VoteInTransit(p)
  BY <1>1 DEF VoteInTransit
<1>4. msg[1] = "VOTE" => Auth(p) /\ chosen[p] # <<>>
  BY <1>3 DEF Inv, VoterInv, VoterOf, BallotOf
<1>5. QED
  BY <1>2, <1>4 DEF VoterRequests

LEMMA ScriptFacts ==
  ASSUME NEW k \in 1..Scripts
  PROVE  /\ Len(Script(k)) = IF Setup(k) THEN 5 ELSE 4
         /\ Script(k)[1] = <<"SEND_KEY">> /\ Script(k)[2] = <<"SEND_KEY_PROOF">>
         /\ Script(k)[3] = <<"LOGIN">>
         /\ Setup(k) => Script(k)[4] = <<"VOTE_BEGIN", Slate>>
                        /\ Script(k)[5] = <<"SEND_KEY_PAILLIER">>
         /\ ~Setup(k) => Script(k)[4] = <<"VOTE_END">>
         /\ Script(k) \in Seq(Requests)
<1>1. CASE Setup(k)
  <2>1. Script(k) = setup_vote
    BY <1>1 DEF Script
  <2>2. setup_vote \in Seq(ScriptRequests)
    BY DEF setup_vote, ScriptRequests
  <2>3. setup_vote \in Seq(Requests)
    BY <2>2, SeqMonotonic DEF Requests
  <2>4. QED
    BY <1>1, <2>1, <2>3 DEF setup_vote
<1>2. CASE ~Setup(k)
  <2>1. Script(k) = end_vote
    BY <1>2 DEF Script
  <2>2. end_vote \in Seq(ScriptRequests)
    BY DEF end_vote, ScriptRequests
  <2>3. end_vote \in Seq(Requests)
    BY <2>2, SeqMonotonic DEF Requests
  <2>4. QED
    BY <1>2, <2>1, <2>3 DEF end_vote
<1>3. QED
  BY <1>1, <1>2

\* A script that closes a poll runs after one that set pallier.
LEMMA KeyBeforeEnd ==
  ASSUME Inv, NEW k \in 1..Scripts, ~Setup(k), process[k] # "idle"
  PROVE  pallier
BY DEF Inv, ScriptInv, ScriptOf

LEMMA ScriptHead ==
  ASSUME Inv, NEW p \in 1..Scripts, p \in connected, to_server[p] # <<>>,
         NEW msg, msg = Head(to_server[p])
  PROVE  /\ Done(p) \in 0..Len(Script(p)) - 1
         /\ msg = Script(p)[Done(p) + 1]
         /\ msg[1] \in {"SEND_KEY", "SEND_KEY_PROOF", "LOGIN", "VOTE_BEGIN",
                        "SEND_KEY_PAILLIER", "VOTE_END"}
         /\ msg[1] = "LOGIN" <=> Done(p) = 2
         /\ msg[1] = "SEND_KEY_PAILLIER" <=> Done(p) = 4
         /\ msg[1] = "VOTE_BEGIN" => msg[2] = Slate
         /\ msg[1] = "VOTE_END" =>
              m_clients[p].vote = <<>> /\ m_clients[p].proofs = <<>> /\ pallier
<1>1. process[p] # "idle" /\ p \in Processes
  BY ProcessFacts DEF Inv, Presence
<1>2. /\ steps[p] \in Nat /\ steps[p] <= Len(Script(p))
      /\ Len(to_server[p]) <= steps[p]
      /\ \A i \in DOMAIN to_server[p] : to_server[p][i] = Script(p)[Done(p) + i]
  BY DEF Inv, ClientTypes, ScriptInv, ScriptOf
<1>3. Len(to_server[p]) \in Nat \ {0} /\ 1 \in DOMAIN to_server[p] /\ msg = to_server[p][1]
  BY <1>1, HeadFacts
<1>4. Done(p) \in 0..Len(Script(p)) - 1 /\ msg = Script(p)[Done(p) + 1]
  <2>1. Len(Script(p)) \in Nat
    BY ScriptFacts
  <2>2. Done(p) \in 0..Len(Script(p)) - 1
    BY <1>2, <1>3, <2>1 DEF Done
  <2>3. QED
    BY <1>2, <1>3, <2>2
<1>5. \/ Done(p) = 0 /\ msg = <<"SEND_KEY">>
      \/ Done(p) = 1 /\ msg = <<"SEND_KEY_PROOF">>
      \/ Done(p) = 2 /\ msg = <<"LOGIN">>
      \/ Done(p) = 3 /\ Setup(p) /\ msg = <<"VOTE_BEGIN", Slate>>
      \/ Done(p) = 3 /\ ~Setup(p) /\ msg = <<"VOTE_END">>
      \/ Done(p) = 4 /\ msg = <<"SEND_KEY_PAILLIER">>
  <2>1. Done(p) \in 0..4 /\ (~Setup(p) => Done(p) \in 0..3)
    <3>1. Len(Script(p)) = IF Setup(p) THEN 5 ELSE 4
      BY ScriptFacts
    <3>2. Done(p) \in 0..Len(Script(p)) - 1
      BY <1>4
    <3> HIDE DEF Done, Script, Setup
    <3>3. QED
      BY <3>1, <3>2
  <2> DEFINE d == Done(p)
             script == Script(p)
  <2>2. /\ script[1] = <<"SEND_KEY">> /\ script[2] = <<"SEND_KEY_PROOF">>
        /\ script[3] = <<"LOGIN">>
        /\ Setup(p) => script[4] = <<"VOTE_BEGIN", Slate>>
                       /\ script[5] = <<"SEND_KEY_PAILLIER">>
        /\ ~Setup(p) => script[4] = <<"VOTE_END">>
    BY ScriptFacts
  <2>3. msg = script[d + 1] /\ d \in 0..4 /\ (~Setup(p) => d \in 0..3)
    BY <1>4, <2>1
  <2> HIDE DEF d, script
  <2>4. \/ d = 0 /\ msg = script[1]
        \/ d = 1 /\ msg = script[2]
        \/ d = 2 /\ msg = script[3]
        \/ d = 3 /\ msg = script[4]
        \/ d = 4 /\ Setup(p) /\ msg = script[5]
    BY <2>3
  <2>5. QED
    BY <2>2, <2>4 DEF d
<1>6. ~Setup(p) => pallier
  BY <1>1, KeyBeforeEnd
<1>7. m_clients[p].vote = <<>> /\ m_clients[p].proofs = <<>>
  BY DEF Inv, ScriptInv, ScriptOf
<1> HIDE DEF Done
<1>8. QED
  BY <1>4, <1>5, <1>6, <1>7

LEMMA HandleServed ==
  ASSUME Inv, NEW p \in connected, to_server[p] # <<>>, UNCHANGED chosen,
         NEW msg, msg = Head(to_server[p]), Handle(p, msg), Post
  PROVE  Served(p, msg)
<1>1. p \in Processes
  BY DEF Inv, ServerTypes
<1>2. CASE msg[1] = "SEND_KEY" /\ E!client_send_key(p, "valid")
  BY <1>2, SendKeyServed
<1>3. CASE msg[1] = "SEND_KEY_PROOF" /\ E!client_send_key_proof(p, "right")
  BY <1>3, SendKeyProofServed
<1>4. CASE msg[1] = "LOGIN" /\ E!client_login(p)
  BY <1>4, LoginServed
<1>5. CASE msg[1] = "GET_CANDIDATES" /\ E!client_get_candidates(p)
  BY <1>5, GetCandidatesServed
<1>6. CASE msg[1] = "SEND_ZKP" /\ E!client_send_zkp(p, msg[2], "none")
  BY <1>1, <1>6, VoterHead, ScriptHead, ProcessFacts, ZkpServed
<1>7. CASE msg[1] = "VOTE" /\ E!client_vote(p, msg[2])
  BY <1>1, <1>7, VoterHead, ScriptHead, ProcessFacts, VoteServed
<1>8. CASE msg[1] = "VOTE_BEGIN" /\ E!vote_begin(p, msg[2])
  <2>1. msg[2] = Slate
    BY <1>1, <1>8, VoterHead, ScriptHead, ProcessFacts
  <2>2. QED
    BY <1>8, <2>1, VoteBeginServed
<1>9. CASE msg[1] = "SEND_KEY_PAILLIER" /\ E!client_send_pallier_key(p, "valid")
  BY <1>9, PallierKeyServed
<1>10. CASE msg[1] = "VOTE_END" /\ E!vote_end(p)
  <2>1. m_clients[p].vote = <<>> /\ m_clients[p].proofs = <<>> /\ pallier
    BY <1>1, <1>10, VoterHead, ScriptHead, ProcessFacts
  <2>2. QED
    BY <1>10, <2>1, VoteEndServed
<1>11. QED
  BY <1>2, <1>3, <1>4, <1>5, <1>6, <1>7, <1>8, <1>9, <1>10 DEF Handle
=============================================================================
