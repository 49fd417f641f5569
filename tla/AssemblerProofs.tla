---------------------------- MODULE AssemblerProofs ----------------------------
(***************************************************************************)
(* Theorems about Assembler: what it writes is read back as it was meant,  *)
(* for every operand, address and size its constants may hold.            *)
(***************************************************************************)
EXTENDS Assembler, FiniteSetTheorems, WellFoundedInduction, TLAPS

-----------------------------------------------------------------------------
(* Induction over the natural numbers, for a set instead of a predicate.   *)

\* A set of natural numbers has a least element.
LEMMA LeastElement ==
  ASSUME NEW S, S \subseteq Nat, S # {}
  PROVE  \E n \in S : \A m \in S : n <= m
<1>1. \A x, y \in Nat : x < y => <<x, y>> \in OpToRel(<, Nat)
  BY DEF OpToRel
<1>2. PICK n \in S : \A m \in S : ~(<<m, n>> \in OpToRel(<, Nat))
  <2>1. IsWellFoundedOn(OpToRel(<, Nat), Nat)
    BY NatLessThanWellFounded
  <2> QED
    BY <2>1, WFMin
<1>3. \A m \in S : ~(m < n)
  BY <1>1, <1>2
<1> QED
  BY <1>3

\* A set that holds 0, and with each number below n its successor, holds all up to n.
LEMMA BoundedInduction ==
  ASSUME NEW S, NEW n \in Nat, 0 \in S, \A k \in 0 .. n - 1 : k \in S => k + 1 \in S
  PROVE  0 .. n \subseteq S
<1> DEFINE T == (0 .. n) \ S
<1>1. SUFFICES ASSUME T # {} PROVE FALSE
  OBVIOUS
<1>2. T \subseteq Nat
  OBVIOUS
<1> HIDE DEF T
<1>3. PICK m \in T : \A k \in T : m <= k
  BY <1>1, <1>2, LeastElement
<1>4. m \in 1 .. n /\ m \notin S
  BY <1>3 DEF T
<1>5. m - 1 \in 0 .. n - 1 /\ m - 1 \notin T
  BY <1>2, <1>3, <1>4
<1> QED
  BY <1>4, <1>5 DEF T

-----------------------------------------------------------------------------
(* Division and powers of two.                                             *)

\* Quotient and remainder are what they should be, and no others are.
LEMMA Division ==
  ASSUME NEW T \in Nat \ {0}, NEW q \in Int, NEW r \in 0 .. T - 1, NEW x, x = q * T + r
  PROVE  x \div T = q /\ x % T = r
  OBVIOUS

\* They exist for every integer, negative ones too.
LEMMA QuotientAndRemainder ==
  ASSUME NEW T \in Nat \ {0}, NEW x \in Int
  PROVE  x \div T \in Int /\ x % T \in 0 .. T - 1 /\ x = (x \div T) * T + (x % T)
  OBVIOUS

\* The next bit of x doubles the modulus.
LEMMA NextBit ==
  ASSUME NEW T \in Nat \ {0}, NEW x \in Int
  PROVE  x % (2 * T) = (x % T) + (IF (x \div T) % 2 = 1 THEN T ELSE 0)
<1> DEFINE q == x \div T
           r == x % T
           h == q \div 2
           c == q % 2
           U == 2 * T
<1>1. q \in Int /\ r \in 0 .. T - 1 /\ x = q * T + r
  BY QuotientAndRemainder
<1>2. h \in Int /\ c \in {0, 1} /\ q = h * 2 + c
  BY <1>1
<1>3. U \in Nat \ {0} /\ c * T + r \in 0 .. U - 1 /\ c * T + r = r + (IF c = 1 THEN T ELSE 0)
  <2> HIDE DEF q, r, h, c
  <2> QED
    BY <1>1, <1>2
<1>4. x = h * U + (c * T + r)
  <2> HIDE DEF q, r, h, c
  <2>1. (h * 2 + c) * T = h * U + c * T
    BY <1>2
  <2>2. h * U \in Int /\ c * T \in Int
    BY <1>2, <1>3
  <2> QED
    BY <1>1, <1>2, <2>1, <2>2
<1>5. x % U = c * T + r
  <2> DEFINE s == c * T + r
  <2> HIDE DEF q, r, s, h, c, U
  <2>1. U \in Nat \ {0} /\ s \in 0 .. U - 1 /\ h \in Int /\ x = h * U + s
    BY <1>2, <1>3, <1>4 DEF s
  <2>2. x % U = s
    BY <2>1, Division
  <2> QED
    BY <2>2 DEF s
<1> QED
  BY <1>3, <1>5

\* Powers of two up to 2^31, which is as far as words need them.
LEMMA PowerDoubles ==
  ASSUME NEW i \in 0 .. 31
  PROVE  2 ^ (i + 1) = 2 * 2 ^ i /\ 2 ^ i \in Nat \ {0} /\ 2 ^ i <= 2 ^ 31
<1>0. CASE i = 0  BY SMT, <1>0
<1>1. CASE i = 1  BY SMT, <1>1
<1>2. CASE i = 2  BY SMT, <1>2
<1>3. CASE i = 3  BY SMT, <1>3
<1>4. CASE i = 4  BY SMT, <1>4
<1>5. CASE i = 5  BY SMT, <1>5
<1>6. CASE i = 6  BY SMT, <1>6
<1>7. CASE i = 7  BY SMT, <1>7
<1>8. CASE i = 8  BY SMT, <1>8
<1>9. CASE i = 9  BY SMT, <1>9
<1>10. CASE i = 10  BY SMT, <1>10
<1>11. CASE i = 11  BY SMT, <1>11
<1>12. CASE i = 12  BY SMT, <1>12
<1>13. CASE i = 13  BY SMT, <1>13
<1>14. CASE i = 14  BY SMT, <1>14
<1>15. CASE i = 15  BY SMT, <1>15
<1>16. CASE i = 16  BY SMT, <1>16
<1>17. CASE i = 17  BY SMT, <1>17
<1>18. CASE i = 18  BY SMT, <1>18
<1>19. CASE i = 19  BY SMT, <1>19
<1>20. CASE i = 20  BY SMT, <1>20
<1>21. CASE i = 21  BY SMT, <1>21
<1>22. CASE i = 22  BY SMT, <1>22
<1>23. CASE i = 23  BY SMT, <1>23
<1>24. CASE i = 24  BY SMT, <1>24
<1>25. CASE i = 25  BY SMT, <1>25
<1>26. CASE i = 26  BY SMT, <1>26
<1>27. CASE i = 27  BY SMT, <1>27
<1>28. CASE i = 28  BY SMT, <1>28
<1>29. CASE i = 29  BY SMT, <1>29
<1>30. CASE i = 30  BY SMT, <1>30
<1>31. CASE i = 31  BY SMT, <1>31
<1> QED
  BY SMT, <1>0, <1>1, <1>2, <1>3, <1>4, <1>5, <1>6, <1>7,
     <1>8, <1>9, <1>10, <1>11, <1>12, <1>13, <1>14, <1>15,
     <1>16, <1>17, <1>18, <1>19, <1>20, <1>21, <1>22, <1>23,
     <1>24, <1>25, <1>26, <1>27, <1>28, <1>29, <1>30, <1>31

-----------------------------------------------------------------------------
(* Words and numbers.                                                      *)

\* What the bit contributes, and the value of the bits below k.
Weight(S, i) == IF i \in S THEN 2 ^ i ELSE 0
Low(S) == LET sum[k \in 0 .. 32] == IF k = 0 THEN 0 ELSE sum[k - 1] + Weight(S, k - 1) IN sum

\* Low obeys its equation.
LEMMA LowEquation ==
  ASSUME NEW S
  PROVE  Low(S) = [k \in 0 .. 32 |-> IF k = 0 THEN 0 ELSE Low(S)[k - 1] + Weight(S, k - 1)]
<1> DEFINE D == {n \in Nat : \E f : f = [k \in 0 .. n |-> IF k = 0 THEN 0 ELSE f[k - 1] + Weight(S, k - 1)]}
<1>1. 0 \in D
  <2> DEFINE first == [k \in 0 .. 0 |-> 0]
  <2>1. first = [k \in 0 .. 0 |-> IF k = 0 THEN 0 ELSE first[k - 1] + Weight(S, k - 1)]
    OBVIOUS
  <2> QED
    BY <2>1
<1>2. ASSUME NEW n \in 0 .. 31, n \in D PROVE n + 1 \in D
  <2>1. PICK e : e = [k \in 0 .. n |-> IF k = 0 THEN 0 ELSE e[k - 1] + Weight(S, k - 1)]
    BY <1>2
  <2> DEFINE g == [k \in 0 .. n + 1 |-> IF k = n + 1 THEN e[n] + Weight(S, n) ELSE e[k]]
  <2>2. \A k \in 0 .. n + 1 : g[k] = IF k = 0 THEN 0 ELSE g[k - 1] + Weight(S, k - 1)
    BY <2>1
  <2>3. g = [k \in 0 .. n + 1 |-> IF k = 0 THEN 0 ELSE g[k - 1] + Weight(S, k - 1)]
    BY <2>2
  <2> HIDE DEF g
  <2>4. \E f : f = [k \in 0 .. n + 1 |-> IF k = 0 THEN 0 ELSE f[k - 1] + Weight(S, k - 1)]
    BY <2>3
  <2> QED
    BY <2>4
<1> HIDE DEF D
<1>3. 32 \in D
  BY <1>1, <1>2, BoundedInduction
<1>4. \E f : f = [k \in 0 .. 32 |-> IF k = 0 THEN 0 ELSE f[k - 1] + Weight(S, k - 1)]
  BY <1>3 DEF D
<1> QED
  BY <1>4 DEF Low

\* The bits below k make a number below 2^k.
LEMMA LowStep ==
  ASSUME NEW S, NEW k \in 0 .. 31
  PROVE  Low(S)[0] = 0 /\ Low(S)[k + 1] = Low(S)[k] + Weight(S, k)
  BY LowEquation

\* So are the bits below k of any set.
LEMMA LowRange ==
  ASSUME NEW S, NEW k \in 0 .. 32
  PROVE  Low(S)[k] \in 0 .. 2 ^ k - 1 /\ 2 ^ k \in Nat \ {0}
<1> DEFINE D == {n \in 0 .. 32 : Low(S)[n] \in 0 .. 2 ^ n - 1 /\ 2 ^ n \in Nat \ {0}}
<1>1. 0 \in D
  BY LowStep
<1>2. ASSUME NEW n \in 0 .. 31, n \in D PROVE n + 1 \in D
  <2>1. Low(S)[n + 1] = Low(S)[n] + Weight(S, n) /\ 2 ^ (n + 1) = 2 * 2 ^ n
    BY LowStep, PowerDoubles
  <2> QED
    BY <1>2, <2>1 DEF Weight
<1> HIDE DEF D
<1>3. 0 .. 32 \subseteq D
  BY <1>1, <1>2, BoundedInduction
<1> QED
  BY <1>3 DEF D

\* The value depends on the bits below k alone, and tells them.
LEMMA LowTellsBits ==
  ASSUME NEW S, NEW T, NEW k \in 0 .. 32
  PROVE  Low(S)[k] = Low(T)[k] <=> \A i \in 0 .. k - 1 : i \in S <=> i \in T
<1> DEFINE D == {n \in 0 .. 32 : Low(S)[n] = Low(T)[n] <=> \A i \in 0 .. n - 1 : i \in S <=> i \in T}
<1>1. 0 \in D
  BY LowStep
<1>2. ASSUME NEW n \in 0 .. 31, n \in D PROVE n + 1 \in D
  <2> HIDE DEF D
  <2>1. Low(S)[n + 1] = Low(S)[n] + Weight(S, n) /\ Low(T)[n + 1] = Low(T)[n] + Weight(T, n)
    BY LowStep
  <2>2. n \in 0 .. 32
    OBVIOUS
  <2>3. Low(S)[n] \in 0 .. 2 ^ n - 1 /\ Low(T)[n] \in 0 .. 2 ^ n - 1 /\ 2 ^ n \in Nat \ {0}
    BY <2>2, LowRange
  <2>4. Low(S)[n + 1] = Low(T)[n + 1] <=> Low(S)[n] = Low(T)[n] /\ (n \in S <=> n \in T)
    BY <2>1, <2>3 DEF Weight
  <2> QED
    BY <1>2, <2>4 DEF D
<1> HIDE DEF D
<1>3. 0 .. 32 \subseteq D
  BY <1>1, <1>2, BoundedInduction
<1> QED
  BY <1>3 DEF D

\* Taking a bit away takes its weight away.
LEMMA LowWithout ==
  ASSUME NEW S, NEW x \in S, NEW k \in 0 .. 32
  PROVE  Low(S)[k] = Low(S \ {x})[k] + (IF x \in 0 .. k - 1 THEN 2 ^ x ELSE 0)
<1> DEFINE R == S \ {x}
           D == {n \in 0 .. 32 : Low(S)[n] = Low(R)[n] + (IF x \in 0 .. n - 1 THEN 2 ^ x ELSE 0)}
<1> HIDE DEF R
<1>1. 0 \in D
  BY LowStep
<1>2. ASSUME NEW n \in 0 .. 31, n \in D PROVE n + 1 \in D
  <2>1. Low(S)[n] \in Int /\ Low(R)[n] \in Int /\ 2 ^ n \in Int
    BY LowRange
  <2>2. Low(S)[n + 1] = Low(S)[n] + Weight(S, n) /\ Low(R)[n + 1] = Low(R)[n] + Weight(R, n)
    BY LowStep
  <2>3. CASE n = x
    <3>1. Weight(S, n) = 2 ^ x /\ Weight(R, n) = 0
      BY <2>3 DEF Weight, R
    <3> QED
      BY <1>2, <2>1, <2>2, <2>3, <3>1
  <2>4. CASE n # x
    <3>1. Weight(S, n) = Weight(R, n) /\ Weight(R, n) \in Int
      BY <2>1, <2>4 DEF Weight, R
    <3>2. x \in 0 .. n - 1 <=> x \in 0 .. (n + 1) - 1
      BY <2>4
    <3>3. x \in 0 .. n - 1 => 2 ^ x \in Int
      BY PowerDoubles
    <3> QED
      BY <1>2, <2>1, <2>2, <3>1, <3>2, <3>3
  <2> QED
    BY <2>3, <2>4
<1> HIDE DEF D
<1>3. 0 .. 32 \subseteq D
  BY <1>1, <1>2, BoundedInduction
<1> QED
  BY <1>3 DEF D, R

\* A function that starts at 0 and adds the weights is Low.
LEMMA LowUnique ==
  ASSUME NEW S, NEW f, f[0] = 0, \A k \in 0 .. 31 : f[k + 1] = f[k] + Weight(S, k), NEW n \in 0 .. 32
  PROVE  Low(S)[n] = f[n]
<1> DEFINE D == {k \in 0 .. 32 : Low(S)[k] = f[k]}
<1>1. 0 \in D
  BY LowStep
<1>2. ASSUME NEW k \in 0 .. 31, k \in D PROVE k + 1 \in D
  BY <1>2, LowStep
<1> HIDE DEF D
<1>3. 0 .. 32 \subseteq D
  BY <1>1, <1>2, BoundedInduction
<1> QED
  BY <1>3 DEF D

\* No bits make 0.
LEMMA LowEmpty ==
  ASSUME NEW n \in 0 .. 32
  PROVE  Low({})[n] = 0
<1> DEFINE f == [k \in 0 .. 32 |-> 0]
<1>1. f[0] = 0 /\ \A k \in 0 .. 31 : f[k + 1] = f[k] + Weight({}, k)
  BY DEF Weight
<1>2. f[n] = 0
  OBVIOUS
<1> HIDE DEF f
<1> QED
  BY <1>1, <1>2, LowUnique

\* What SqFormats calls the number of a word, a sum over the set of its bits, is
\* the sum in their order.
LEMMA NumberIsLow ==
  ASSUME NEW S \in SUBSET Bit
  PROVE  Number(S) = Low(S)[32]
<1> DEFINE pick(s) == CHOOSE x \in s : TRUE
           F(iter) == [s \in SUBSET S |-> IF s = {} THEN 0 ELSE 2 ^ pick(s) + iter[s \ {pick(s)}]]
           L == [s \in SUBSET S |-> Low(s)[32]]
           I == CHOOSE iter : iter = F(iter)
<1>1. \A s \in SUBSET S : s # {} => /\ pick(s) \in s /\ pick(s) \in 0 .. 31
                                   /\ 2 ^ pick(s) \in Nat \ {0}
                                   /\ Low(s \ {pick(s)})[32] \in Nat
                                   /\ Low(s)[32] = 2 ^ pick(s) + Low(s \ {pick(s)})[32]
  <2> SUFFICES ASSUME NEW s \in SUBSET S, s # {}
               PROVE  /\ pick(s) \in s /\ pick(s) \in 0 .. 31 /\ 2 ^ pick(s) \in Nat \ {0}
                      /\ Low(s \ {pick(s)})[32] \in Nat
                      /\ Low(s)[32] = 2 ^ pick(s) + Low(s \ {pick(s)})[32]
    OBVIOUS
  <2> DEFINE x == pick(s)
  <2>1. x \in s
    OBVIOUS
  <2> HIDE DEF x
  <2>2. x \in 0 .. 31 /\ 32 \in 0 .. 32
    BY <2>1 DEF Bit
  <2>3. 2 ^ x \in Nat \ {0}
    BY <2>2, PowerDoubles
  <2>4. Low(s \ {x})[32] \in 0 .. 2 ^ 32 - 1 /\ 2 ^ 32 \in Nat \ {0}
    BY <2>2, LowRange
  <2>5. Low(s)[32] = Low(s \ {x})[32] + (IF x \in 0 .. 32 - 1 THEN 2 ^ x ELSE 0)
    BY <2>1, <2>2, LowWithout
  <2>6. Low(s)[32] = 2 ^ x + Low(s \ {x})[32]
    BY <2>2, <2>3, <2>4, <2>5
  <2> QED
    BY <2>1, <2>2, <2>3, <2>4, <2>6 DEF x
<1>2. L = F(L)
  <2>1. Low({})[32] = 0
    BY LowEmpty
  <2> HIDE DEF pick
  <2>2. \A s \in SUBSET S : L[s] = IF s = {} THEN 0 ELSE 2 ^ pick(s) + L[s \ {pick(s)}]
    BY <1>1, <2>1
  <2> QED
    BY <2>2
<1>3. I = F(I)
  <2> HIDE DEF L, F
  <2> QED
    BY <1>2
<1>4. \A s \in SUBSET S : I[s] = IF s = {} THEN 0 ELSE 2 ^ pick(s) + I[s \ {pick(s)}]
  <2> HIDE DEF I, pick
  <2> QED
    BY <1>3
<1>5. \A s \in SUBSET S : I[s] = Low(s)[32]
  <2> DEFINE Bad == {s \in SUBSET S : I[s] # Low(s)[32]}
             values == {Low(s)[32] : s \in Bad}
  <2> HIDE DEF I, pick
  <2>1. SUFFICES ASSUME Bad # {} PROVE FALSE
    OBVIOUS
  <2>2. \A s \in SUBSET S : Low(s)[32] \in Nat
    <3>1. \A s : Low(s)[32] \in 0 .. 2 ^ 32 - 1 /\ 2 ^ 32 \in Nat \ {0}
      BY LowRange
    <3> QED
      BY <3>1
  <2>3. values \subseteq Nat /\ values # {}
    BY <2>1, <2>2
  <2>4. PICK v \in values : \A u \in values : v <= u
    <3> HIDE DEF values
    <3> QED
      BY <2>3, LeastElement
  <2>5. PICK s \in Bad : v = Low(s)[32]
    BY <2>4
  <2>6. s # {}
    <3>1. Low({})[32] = 0 /\ I[{}] = 0
      BY <1>4, LowEmpty
    <3> QED
      BY <2>5, <3>1
  <2> DEFINE r == s \ {pick(s)}
  <2>7. /\ Low(s)[32] = 2 ^ pick(s) + Low(r)[32] /\ 2 ^ pick(s) \in Nat \ {0} /\ Low(r)[32] \in Nat
        /\ I[s] = 2 ^ pick(s) + I[r] /\ r \in SUBSET S
    BY <1>1, <1>4, <2>5, <2>6
  <2> HIDE DEF r
  <2>8. r \notin Bad
    <3>1. SUFFICES ASSUME r \in Bad PROVE FALSE
      OBVIOUS
    <3>2. Low(r)[32] \in values
      BY <3>1
    <3>3. Low(s)[32] <= Low(r)[32]
      BY <2>4, <2>5, <3>2
    <3> HIDE DEF values, Bad
    <3> QED
      BY <2>7, <3>3
  <2> QED
    BY <2>5, <2>7, <2>8
<1>6. Number(S) = I[S]
  BY DEF Number, MapThenSumSet, MapThenFoldSet
<1> HIDE DEF I
<1> QED
  BY <1>5, <1>6

\* Bits from k on do not count below k.
LEMMA LowCut ==
  ASSUME NEW S, NEW k \in 0 .. 32, NEW m \in k .. 32
  PROVE  Low(S \cap 0 .. k - 1)[m] = Low(S)[k]
<1> DEFINE R == S \cap 0 .. k - 1
           f == [j \in 0 .. 32 |-> IF j <= k THEN Low(S)[j] ELSE Low(S)[k]]
<1>1. f[0] = 0
  BY LowStep
<1>2. ASSUME NEW j \in 0 .. 31 PROVE f[j + 1] = f[j] + Weight(R, j)
  <2>1. CASE j < k
    <3>1. Weight(R, j) = Weight(S, j)
      BY <2>1 DEF Weight
    <3>2. f[j + 1] = Low(S)[j + 1] /\ f[j] = Low(S)[j]
      BY <2>1
    <3> HIDE DEF f, R
    <3> QED
      BY <3>1, <3>2, LowStep
  <2>2. CASE j >= k
    <3>1. Weight(R, j) = 0 /\ f[j + 1] = Low(S)[k] /\ f[j] = Low(S)[k]
      BY <2>2 DEF Weight
    <3>2. Low(S)[k] \in Int
      BY LowRange
    <3> HIDE DEF f, R
    <3> QED
      BY <3>1, <3>2
  <2> QED
    BY <2>1, <2>2
<1>3. f[m] = Low(S)[k] /\ m \in 0 .. 32
  OBVIOUS
<1> HIDE DEF f, R
<1>4. Low(R)[m] = f[m]
  BY <1>1, <1>2, <1>3, LowUnique
<1> QED
  BY <1>3, <1>4 DEF R

\* The numbers of disjoint sets of bits add up.
LEMMA NumberOfUnion ==
  ASSUME NEW A \in SUBSET Bit, NEW B \in SUBSET Bit, A \cap B = {}
  PROVE  Number(A \cup B) = Number(A) + Number(B)
<1> DEFINE f == [k \in 0 .. 32 |-> Low(A)[k] + Low(B)[k]]
<1>1. f[0] = 0
  BY LowStep
<1>2. ASSUME NEW k \in 0 .. 31 PROVE f[k + 1] = f[k] + Weight(A \cup B, k)
  <2>1. k \in 0 .. 32
    OBVIOUS
  <2>2. Low(A)[k] \in Int /\ Low(B)[k] \in Int /\ 2 ^ k \in Int
    BY <2>1, LowRange
  <2>3. Low(A)[k + 1] = Low(A)[k] + Weight(A, k) /\ Low(B)[k + 1] = Low(B)[k] + Weight(B, k)
    BY LowStep
  <2>4. Weight(A, k) \in Int /\ Weight(B, k) \in Int /\ Weight(A \cup B, k) = Weight(A, k) + Weight(B, k)
    BY <2>2 DEF Weight
  <2>5. f[k] = Low(A)[k] + Low(B)[k] /\ f[k + 1] = Low(A)[k + 1] + Low(B)[k + 1]
    BY <2>1
  <2> HIDE DEF f
  <2> QED
    BY <2>2, <2>3, <2>4, <2>5
<1>3. f[32] = Low(A)[32] + Low(B)[32]
  OBVIOUS
<1> HIDE DEF f
<1>4. Low(A \cup B)[32] = f[32]
  BY <1>1, <1>2, LowUnique
<1>5. A \cup B \in SUBSET Bit
  OBVIOUS
<1> QED
  BY <1>3, <1>4, <1>5, NumberIsLow

\* A word is a number of 32 bits.
LEMMA NumberRange ==
  ASSUME NEW S \in SUBSET Bit
  PROVE  Number(S) \in 0 .. 2 ^ 32 - 1
<1>1. Low(S)[32] \in 0 .. 2 ^ 32 - 1
  BY LowRange
<1> QED
  BY <1>1, NumberIsLow

\* A number tells the bits it was made of.
LEMMA NumberTells ==
  ASSUME NEW S \in SUBSET Bit, NEW T \in SUBSET Bit, Number(S) = Number(T)
  PROVE  S = T
<1>1. Low(S)[32] = Low(T)[32]
  BY NumberIsLow
<1>2. \A i \in 0 .. 31 : i \in S <=> i \in T
  <2>1. \A i \in 0 .. 32 - 1 : i \in S <=> i \in T
    BY <1>1, LowTellsBits
  <2> QED
    BY <2>1
<1> QED
  BY <1>2 DEF Bit

-----------------------------------------------------------------------------
(* What the bits of an int are.                                            *)

\* Two's complement: a negative number's bits are those of its complement, turned over.
LEMMA Complement ==
  ASSUME NEW T \in Nat \ {0}, NEW n \in Int
  PROVE  ((-n - 1) \div T) % 2 = 0 <=> (n \div T) % 2 = 1
<1> DEFINE q == n \div T
           r == n % T
           x == -n - 1
           y == -q - 1
           z == T - 1 - r
<1>1. q \in Int /\ r \in 0 .. T - 1 /\ n = q * T + r
  BY QuotientAndRemainder
<1>2. y \in Int /\ z \in 0 .. T - 1
  BY <1>1
<1>3. x = y * T + z
  <2> HIDE DEF q, r
  <2>1. (-q - 1) * T = -(q * T) - T /\ q * T \in Int
    BY <1>1
  <2> QED
    BY <1>1, <2>1
<1>4. x \div T = y
  <2> HIDE DEF q, r, x, y, z
  <2> QED
    BY <1>2, <1>3, Division
<1>5. y % 2 = 0 <=> q % 2 = 1
  <2> HIDE DEF q
  <2> QED
    BY <1>1
<1> QED
  BY <1>4, <1>5

\* Word gives bits of a word.
LEMMA WordBits ==
  ASSUME NEW n \in Int
  PROVE  /\ Word(n) \in SUBSET Bit
         /\ n >= 0 => 31 \notin Word(n)
         /\ \A i \in 0 .. 30 : i \in Word(n) <=> (n \div 2 ^ i) % 2 = 1
<1>1. ASSUME NEW i \in 0 .. 30 PROVE i \in Word(n) <=> (n \div 2 ^ i) % 2 = 1
  <2>1. CASE n >= 0
    BY <2>1 DEF Word
  <2>2. CASE ~(n >= 0)
    <3>0. i \in 0 .. 31
      OBVIOUS
    <3>1. 2 ^ i \in Nat \ {0}
      BY <3>0, PowerDoubles
    <3>2. ((-n - 1) \div 2 ^ i) % 2 = 0 <=> (n \div 2 ^ i) % 2 = 1
      BY <3>1, Complement
    <3>3. i \in Word(n) <=> ((-n - 1) \div 2 ^ i) % 2 = 0
      BY <2>2 DEF Word, Bit
    <3> QED
      BY <3>2, <3>3
  <2> QED
    BY <2>1, <2>2
<1> QED
  BY <1>1 DEF Word, Bit

\* The k lowest bits of an int make its remainder by 2^k.
LEMMA LowOfWord ==
  ASSUME NEW n \in Int, NEW k \in 0 .. 31
  PROVE  Low(Word(n))[k] = n % 2 ^ k
<1> DEFINE D == {j \in 0 .. 31 : Low(Word(n))[j] = n % 2 ^ j}
<1>1. 0 \in D
  <2>1. n % 2 ^ 0 = 0
    OBVIOUS
  <2> QED
    BY <2>1, LowStep
<1>2. ASSUME NEW j \in 0 .. 30, j \in D PROVE j + 1 \in D
  <2>0. j \in 0 .. 31
    OBVIOUS
  <2>1. 2 ^ (j + 1) = 2 * 2 ^ j /\ 2 ^ j \in Nat \ {0}
    BY <2>0, PowerDoubles
  <2>2. n % (2 * 2 ^ j) = (n % 2 ^ j) + (IF (n \div 2 ^ j) % 2 = 1 THEN 2 ^ j ELSE 0)
    BY <2>1, NextBit
  <2>3. Weight(Word(n), j) = IF (n \div 2 ^ j) % 2 = 1 THEN 2 ^ j ELSE 0
    BY WordBits DEF Weight
  <2>4. Low(Word(n))[j + 1] = Low(Word(n))[j] + Weight(Word(n), j)
    BY <2>0, LowStep
  <2> QED
    BY <1>2, <2>1, <2>2, <2>3, <2>4
<1> HIDE DEF D
<1>3. 0 .. 31 \subseteq D
  BY <1>1, <1>2, BoundedInduction
<1> QED
  BY <1>3 DEF D

\* A number below 2^k has its bits below k, and they make it up.
LEMMA SmallWord ==
  ASSUME NEW k \in 0 .. 31, NEW n \in Nat, n < 2 ^ k
  PROVE  Word(n) \subseteq 0 .. k - 1 /\ Low(Word(n))[k] = n /\ Number(Word(n)) = n
<1>1. 2 ^ k \in Nat \ {0} /\ 2 ^ k <= 2 ^ 31
  BY PowerDoubles
<1>2. ASSUME NEW m \in 0 .. 31, n < 2 ^ m PROVE Low(Word(n))[m] = n
  <2>1. n \in Int
    OBVIOUS
  <2>2. Low(Word(n))[m] = n % 2 ^ m
    BY <2>1, LowOfWord
  <2>3. n % 2 ^ m = n
    <3> DEFINE T == 2 ^ m
    <3>1. T \in Nat \ {0} /\ n \in 0 .. T - 1
      BY <1>2, PowerDoubles
    <3> HIDE DEF T
    <3>2. n = 0 * T + n
      BY <3>1
    <3>3. n % T = n
      BY <3>1, <3>2, Division
    <3> QED
      BY <3>3 DEF T
  <2> QED
    BY <2>2, <2>3
<1>3. Low(Word(n))[k] = n /\ Low(Word(n))[31] = n
  <2>1. Low(Word(n))[k] = n
    BY <1>2
  <2>2. n < 2 ^ 31
    BY <1>1
  <2> QED
    BY <1>2, <2>1, <2>2
<1>4. Low(Word(n))[32] = n
  <2>1. Low(Word(n))[31 + 1] = Low(Word(n))[31] + Weight(Word(n), 31)
    BY LowStep
  <2>2. Weight(Word(n), 31) = 0
    BY WordBits DEF Weight
  <2> QED
    BY <1>3, <2>1, <2>2
<1>5. Low(Word(n) \cap 0 .. k - 1)[32] = n
  <2>1. k \in 0 .. 32 /\ 32 \in k .. 32
    OBVIOUS
  <2>2. Low(Word(n) \cap 0 .. k - 1)[32] = Low(Word(n))[k]
    BY <2>1, LowCut
  <2> QED
    BY <1>3, <2>2
<1>6. \A i \in 0 .. 32 - 1 : i \in Word(n) <=> i \in Word(n) \cap 0 .. k - 1
  <2> DEFINE V == Word(n) \cap 0 .. k - 1
  <2>1. Low(Word(n))[32] = Low(V)[32]
    BY <1>4, <1>5
  <2> HIDE DEF V
  <2>2. \A i \in 0 .. 32 - 1 : i \in Word(n) <=> i \in V
    BY <2>1, LowTellsBits
  <2> QED
    BY <2>2 DEF V
<1>7. Word(n) \in SUBSET Bit
  BY WordBits
<1> QED
  BY <1>3, <1>4, <1>6, <1>7, NumberIsLow DEF Bit

\* A mask leaves the remainder, of negative numbers too.
LEMMA MaskedWord ==
  ASSUME NEW k \in 0 .. 31, NEW n \in Int
  PROVE  Number(Word(n) \cap 0 .. k - 1) = n % 2 ^ k
<1>1. Low(Word(n) \cap 0 .. k - 1)[32] = n % 2 ^ k
  <2>1. k \in 0 .. 32 /\ 32 \in k .. 32
    OBVIOUS
  <2>2. Low(Word(n) \cap 0 .. k - 1)[32] = Low(Word(n))[k]
    BY <2>1, LowCut
  <2> QED
    BY <2>2, LowOfWord
<1>2. Word(n) \cap 0 .. k - 1 \in SUBSET Bit
  BY WordBits
<1> QED
  BY <1>1, <1>2, NumberIsLow

-----------------------------------------------------------------------------
(* Fields: a number shifted to its place, and read from there.             *)

\* Exponents add.
LEMMA PowersAdd ==
  ASSUME NEW n \in 0 .. 32, NEW j \in 0 .. 32 - n
  PROVE  2 ^ (n + j) = 2 ^ n * 2 ^ j
<1> DEFINE m == 32 - n
           D == {i \in 0 .. m : 2 ^ (n + i) = 2 ^ n * 2 ^ i}
<1>0. 2 ^ n \in Nat \ {0}
  BY LowRange
<1>1. 0 \in D
  <2>1. 2 ^ 0 = 1 /\ n + 0 = n
    OBVIOUS
  <2> QED
    BY <1>0, <2>1
<1>2. ASSUME NEW i \in 0 .. m - 1, i \in D PROVE i + 1 \in D
  <2>1. i \in 0 .. 31 /\ n + i \in 0 .. 31
    OBVIOUS
  <2>2. 2 ^ (i + 1) = 2 * 2 ^ i /\ 2 ^ i \in Nat
    BY <2>1, PowerDoubles
  <2>3. 2 ^ ((n + i) + 1) = 2 * 2 ^ (n + i)
    BY <2>1, PowerDoubles
  <2>4. 2 ^ (n + i) = 2 ^ n * 2 ^ i /\ (n + i) + 1 = n + (i + 1)
    BY <1>2
  <2>5. 2 ^ (n + (i + 1)) = 2 ^ n * 2 ^ (i + 1)
    <3> DEFINE a == 2 ^ n
               b == 2 ^ i
    <3>1. 2 * (a * b) = a * (2 * b)
      <4>1. a \in Int /\ b \in Int
        BY <1>0, <2>2
      <4> HIDE DEF a, b
      <4> QED
        BY <4>1
    <3> QED
      BY <2>2, <2>3, <2>4, <3>1
  <2> QED
    BY <2>5
<1> HIDE DEF D
<1>3. m \in Nat
  OBVIOUS
<1> HIDE DEF m
<1>4. 0 .. m \subseteq D
  BY <1>1, <1>2, <1>3, BoundedInduction
<1> QED
  BY <1>4 DEF D, m

\* The bits of S from n on are those of H from 0 on, up to m in S and j in H.
Moved(S, H, n, j, m) ==
  /\ n \in 0 .. 32 /\ j \in 0 .. 32 - n /\ m = n + j
  /\ \A i \in 0 .. 32 - n - 1 : i \in H <=> n + i \in S

\* The bits from n on, moved to 0, count 2^n times what they count there.
LEMMA LowAt ==
  ASSUME NEW S, NEW H, NEW n, NEW j, NEW m, Moved(S, H, n, j, m)
  PROVE  Low(S)[m] = Low(S)[n] + 2 ^ n * Low(H)[j]
<1> DEFINE top == 32 - n
           D == {i \in 0 .. top : Low(S)[n + i] = Low(S)[n] + 2 ^ n * Low(H)[i]}
<1>0. /\ n \in 0 .. 32 /\ j \in 0 .. 32 - n /\ m = n + j
      /\ \A i \in 0 .. 32 - n - 1 : i \in H <=> n + i \in S
  BY DEF Moved
<1>a. 2 ^ n \in Int /\ Low(S)[n] \in Int
  BY <1>0, LowRange
<1>b. top \in Nat
  BY <1>0
<1>1. 0 \in D
  <2>1. Low(H)[0] = 0 /\ n + 0 = n
    BY <1>0, LowStep
  <2> QED
    BY <1>a, <1>b, <2>1
<1>2. ASSUME NEW i \in 0 .. top - 1, i \in D PROVE i + 1 \in D
  <2>1. i \in 0 .. 31 /\ i \in 0 .. 32 /\ n + i \in 0 .. 31 /\ i \in 0 .. 32 - n /\ i \in 0 .. 32 - n - 1
    BY <1>0
  <2>2. Low(H)[i + 1] = Low(H)[i] + Weight(H, i) /\ Low(H)[i] \in Int
    BY <2>1, LowStep, LowRange
  <2>3. Low(S)[(n + i) + 1] = Low(S)[n + i] + Weight(S, n + i)
    BY <2>1, LowStep
  <2>4. Weight(S, n + i) = 2 ^ n * Weight(H, i) /\ Weight(H, i) \in Int
    <3>1. 2 ^ (n + i) = 2 ^ n * 2 ^ i
      BY <1>0, <2>1, PowersAdd
    <3>2. i \in H <=> n + i \in S
      BY <1>0, <2>1
    <3>3. 2 ^ i \in Int
      BY <2>1, PowerDoubles
    <3> QED
      BY <1>a, <3>1, <3>2, <3>3 DEF Weight
  <2>5. Low(S)[n + i] = Low(S)[n] + 2 ^ n * Low(H)[i] /\ (n + i) + 1 = n + (i + 1)
    BY <1>0, <1>2
  <2>6. Low(S)[n + (i + 1)] = Low(S)[n] + 2 ^ n * Low(H)[i + 1]
    <3> DEFINE a == 2 ^ n
               b == Low(H)[i]
               c == Weight(H, i)
    <3>1. a * (b + c) = a * b + a * c /\ a * b \in Int /\ a * c \in Int
      <4>1. a \in Int /\ b \in Int /\ c \in Int
        BY <1>a, <2>2, <2>4
      <4> HIDE DEF a, b, c
      <4> QED
        BY <4>1
    <3> QED
      BY <1>a, <2>2, <2>3, <2>4, <2>5, <3>1
  <2>7. i + 1 \in 0 .. top
    BY <1>b
  <2> QED
    BY <2>6, <2>7
<1> HIDE DEF D
<1>3. 0 .. top \subseteq D
  <2> HIDE DEF top
  <2> QED
    BY <1>b, <1>1, <1>2, BoundedInduction
<1> QED
  BY <1>0, <1>3 DEF D

\* x << n for a number of w bits that does not lose one: its place and its value.
LEMMA ShlNumber ==
  ASSUME NEW n \in 0 .. 31, NEW w \in 0 .. 31, n + w <= 32, NEW x \in Nat, x < 2 ^ w
  PROVE  Shl(x, n) \subseteq n .. n + w - 1 /\ Shl(x, n) \in SUBSET Bit /\ Number(Shl(x, n)) = 2 ^ n * x
<1> DEFINE S == Shl(x, n)
           H == Word(x)
<1>1. H \subseteq 0 .. w - 1 /\ Low(H)[w] = x
  BY SmallWord
<1>2. S \subseteq n .. n + w - 1 /\ S \in SUBSET Bit
  BY <1>1 DEF Shl
<1>3. \A i \in 0 .. 32 - n - 1 : i \in H <=> n + i \in S
  BY <1>1 DEF Shl, Bit
<1>4. Low(S)[n] = 0
  <2>1. \A i \in 0 .. n - 1 : i \in S <=> i \in {}
    BY <1>2
  <2>2. n \in 0 .. 32
    OBVIOUS
  <2> HIDE DEF S
  <2>3. Low(S)[n] = Low({})[n]
    BY <2>1, <2>2, LowTellsBits
  <2> QED
    BY <2>2, <2>3, LowEmpty
<1>5. Low(H)[32 - n] = x
  <2>1. w \in 0 .. 32 /\ 32 - n \in w .. 32
    OBVIOUS
  <2>2. H \cap 0 .. w - 1 = H
    BY <1>1
  <2> HIDE DEF H
  <2>3. Low(H \cap 0 .. w - 1)[32 - n] = Low(H)[w]
    BY <2>1, LowCut
  <2> QED
    BY <1>1, <2>2, <2>3
<1>6. Low(S)[32] = 2 ^ n * x
  <2> DEFINE j == 32 - n
  <2>1. n \in 0 .. 32 /\ j \in 0 .. 32 - n /\ n + j = 32
    OBVIOUS
  <2> HIDE DEF S, H, j
  <2>a. Moved(S, H, n, j, 32)
    BY <1>3, <2>1 DEF Moved
  <2>b. Low(S)[32] = Low(S)[n] + 2 ^ n * Low(H)[j]
    BY <2>a, LowAt
  <2>2. Low(S)[32] = Low(S)[n] + 2 ^ n * Low(H)[32 - n]
    BY <2>b DEF j
  <2>3. 2 ^ n * x \in Int
    <3>1. 2 ^ n \in Nat
      BY <2>1, LowRange
    <3> QED
      BY <3>1
  <2> QED
    BY <1>4, <1>5, <2>1, <2>2, <2>3
<1> QED
  BY <1>2, <1>6, NumberIsLow

\* More bits do not change what remains of a number below 2^d.
LEMMA LowRemainder ==
  ASSUME NEW S, NEW d \in 0 .. 32, NEW m \in d .. 32
  PROVE  Low(S)[m] % 2 ^ d = Low(S)[d]
<1> DEFINE H == {i \in 0 .. 31 : d + i \in S}
           j == m - d
           T == 2 ^ d
           q == Low(H)[j]
           r == Low(S)[d]
           x == Low(S)[m]
<1>1. x = r + T * q
  <2>1. \A i \in 0 .. 32 - d - 1 : i \in H <=> d + i \in S
    OBVIOUS
  <2>2. j \in 0 .. 32 - d /\ d + j = m
    OBVIOUS
  <2> HIDE DEF H, j
  <2>3. d \in 0 .. 32 /\ m = d + j
    BY <2>2
  <2>4. Moved(S, H, d, j, m)
    BY <2>1, <2>2, <2>3 DEF Moved
  <2>5. Low(S)[m] = Low(S)[d] + 2 ^ d * Low(H)[j]
    BY <2>4, LowAt
  <2> QED
    BY <2>5
<1>2. T \in Nat \ {0} /\ r \in 0 .. T - 1 /\ q \in Int
  <2>1. j \in 0 .. 32
    OBVIOUS
  <2> HIDE DEF H, j
  <2>2. Low(H)[j] \in 0 .. 2 ^ j - 1
    BY <2>1, LowRange
  <2>3. Low(S)[d] \in 0 .. 2 ^ d - 1 /\ 2 ^ d \in Nat \ {0}
    BY LowRange
  <2> QED
    BY <2>2, <2>3
<1> HIDE DEF T, q, r, x
<1>3. x = q * T + r
  BY <1>1, <1>2
<1>4. x % T = r
  BY <1>2, <1>3, Division
<1> QED
  BY <1>4 DEF T, r, x

\* The G_ macros: (word >> s) & mask.
LEMMA FieldNumber ==
  ASSUME NEW S \in SUBSET Bit, NEW n \in 0 .. 31, NEW d \in 0 .. 32, n + d <= 32
  PROVE  Number({b - n : b \in S \cap n .. n + d - 1}) = (Number(S) \div 2 ^ n) % 2 ^ d
<1> DEFINE H == {b - n : b \in S \cap n .. n + d - 1}
           R == {b - n : b \in S \cap n .. 31}
           j == 32 - n
           T == 2 ^ n
           q == Low(R)[j]
           r == Low(S)[n]
           x == Number(S)
<1>1. x = r + T * q
  <2>1. \A i \in 0 .. 32 - n - 1 : i \in R <=> n + i \in S
    <3> SUFFICES ASSUME NEW i \in 0 .. 32 - n - 1 PROVE i \in R <=> n + i \in S
      OBVIOUS
    <3>1. n + i \in S => (n + i) - n \in R
      OBVIOUS
    <3>2. (n + i) - n = i
      OBVIOUS
    <3> QED
      BY <3>1, <3>2
  <2>2. j \in 0 .. 32 - n /\ n + j = 32
    OBVIOUS
  <2> HIDE DEF R, j
  <2>3. n \in 0 .. 32 /\ 32 = n + j
    BY <2>2
  <2>4. Moved(S, R, n, j, 32)
    BY <2>1, <2>2, <2>3 DEF Moved
  <2>5. Low(S)[32] = Low(S)[n] + 2 ^ n * Low(R)[j]
    BY <2>4, LowAt
  <2> QED
    BY <2>5, NumberIsLow
<1>2. T \in Nat \ {0} /\ r \in 0 .. T - 1 /\ q \in Int
  <2>1. j \in 0 .. 32 /\ n \in 0 .. 32
    OBVIOUS
  <2> HIDE DEF R, j
  <2>2. Low(R)[j] \in 0 .. 2 ^ j - 1
    BY <2>1, LowRange
  <2>3. Low(S)[n] \in 0 .. 2 ^ n - 1 /\ 2 ^ n \in Nat \ {0}
    BY <2>1, LowRange
  <2> QED
    BY <2>2, <2>3
<1>3. x \div T = q
  <2> HIDE DEF T, q, r, x
  <2>1. x = q * T + r
    BY <1>1, <1>2
  <2> QED
    BY <1>2, <2>1, Division
<1>4. H = R \cap 0 .. d - 1 /\ H \in SUBSET Bit
  <2>1. \A i \in R \cap 0 .. d - 1 : i \in H
    OBVIOUS
  <2>2. \A i \in H : i \in R \cap 0 .. d - 1 /\ i \in Bit
    BY DEF Bit
  <2> HIDE DEF H, R
  <2> QED
    BY <2>1, <2>2
<1>5. Number(H) = Low(R)[d]
  <2>1. 32 \in d .. 32
    OBVIOUS
  <2> HIDE DEF H, R
  <2>2. Low(R \cap 0 .. d - 1)[32] = Low(R)[d]
    BY <2>1, LowCut
  <2> QED
    BY <1>4, <2>2, NumberIsLow
<1>6. q % 2 ^ d = Low(R)[d]
  <2>1. j \in d .. 32
    OBVIOUS
  <2> HIDE DEF R, j
  <2> QED
    BY <2>1, LowRemainder
<1> QED
  BY <1>3, <1>5, <1>6

\* A field that holds nothing but x reads x.
LEMMA FieldHolds ==
  ASSUME NEW words, NEW k, NEW n \in 0 .. 31, NEW d \in 0 .. 31, n + d <= 32, NEW x \in Nat, x < 2 ^ d,
         \A b \in n .. n + d - 1 : b \in words[k] <=> b \in Shl(x, n)
  PROVE  G(At(k, n, d), words) = x
<1> DEFINE H == {b - n : b \in words[k] \cap n .. n + d - 1}
<1>1. Word(x) \subseteq 0 .. d - 1 /\ Number(Word(x)) = x
  BY SmallWord
<1>2. \A b \in n .. n + d - 1 : b \in words[k] <=> b - n \in Word(x)
  <2> SUFFICES ASSUME NEW b \in n .. n + d - 1 PROVE b \in Shl(x, n) <=> b - n \in Word(x)
    OBVIOUS
  <2>1. b \in Bit /\ (b - n) + n = b
    BY DEF Bit
  <2>2. ASSUME b - n \in Word(x) PROVE b \in Shl(x, n)
    BY <2>1, <2>2 DEF Shl
  <2>3. ASSUME b \in Shl(x, n) PROVE b - n \in Word(x)
    <3>1. PICK c \in Word(x) : b = c + n
      BY <2>3 DEF Shl
    <3>2. b - n = c
      BY <1>1, <3>1
    <3> QED
      BY <3>1, <3>2
  <2> QED
    BY <2>2, <2>3
<1>3. H = Word(x)
  <2>1. ASSUME NEW i \in Word(x) PROVE i \in H
    <3>1. i + n \in n .. n + d - 1 /\ (i + n) - n = i
      BY <1>1
    <3>2. i + n \in words[k]
      BY <1>2, <3>1
    <3> QED
      BY <3>1, <3>2
  <2>2. ASSUME NEW i \in H PROVE i \in Word(x)
    BY <1>2
  <2> HIDE DEF H
  <2> QED
    BY <2>1, <2>2
<1>4. G(At(k, n, d), words) = Number(H)
  BY DEF G, At
<1> HIDE DEF H
<1> QED
  BY <1>1, <1>3, <1>4

-----------------------------------------------------------------------------
(* Which format a word is of, by the number its nine highest bits make.     *)

\* The encoding field and its value, of each format.
LEMMA Encodings ==
  /\ SOP1.encoding = At(1, 23, 9) /\ SOP1.code = 381
  /\ SOP2.encoding = At(1, 30, 2) /\ SOP2.code = 2
  /\ SOPK.encoding = At(1, 28, 4) /\ SOPK.code = 11
  /\ SOPC.encoding = At(1, 23, 9) /\ SOPC.code = 382
  /\ SOPP.encoding = At(1, 23, 9) /\ SOPP.code = 383
  /\ SMRD.encoding = At(1, 27, 5) /\ SMRD.code = 24
  /\ VOP1.encoding = At(1, 25, 7) /\ VOP1.code = 63
  /\ VOP2.encoding = At(1, 31, 1) /\ VOP2.code = 0
  /\ VOPC.encoding = At(1, 25, 7) /\ VOPC.code = 62
  /\ VOP3.encoding = At(1, 26, 6) /\ VOP3.code = 52
  /\ MTBUF.encoding = At(1, 26, 6) /\ MTBUF.code = 58
  /\ MUBUF.encoding = At(1, 26, 6) /\ MUBUF.code = 56
  /\ MIMG.encoding = At(1, 26, 6) /\ MIMG.code = 60
  /\ DS.encoding = At(1, 26, 6) /\ DS.code = 54
  /\ FLAT.encoding = At(1, 26, 6) /\ FLAT.code = 55
  /\ VINTRP.encoding = At(1, 26, 6) /\ VINTRP.code = 50
  /\ EXP.encoding = At(1, 26, 6) /\ EXP.code = 62
<1>1. SOP1.encoding = At(1, 23, 9) /\ SOP1.code = 381
  BY DEF SOP1
<1>2. SOP2.encoding = At(1, 30, 2) /\ SOP2.code = 2
  BY DEF SOP2
<1>3. SOPK.encoding = At(1, 28, 4) /\ SOPK.code = 11
  BY DEF SOPK
<1>4. SOPC.encoding = At(1, 23, 9) /\ SOPC.code = 382
  BY DEF SOPC
<1>5. SOPP.encoding = At(1, 23, 9) /\ SOPP.code = 383
  BY DEF SOPP
<1>6. SMRD.encoding = At(1, 27, 5) /\ SMRD.code = 24
  BY DEF SMRD
<1>7. VOP1.encoding = At(1, 25, 7) /\ VOP1.code = 63
  BY DEF VOP1
<1>8. VOP2.encoding = At(1, 31, 1) /\ VOP2.code = 0
  BY DEF VOP2
<1>9. VOPC.encoding = At(1, 25, 7) /\ VOPC.code = 62
  BY DEF VOPC
<1>10. VOP3.encoding = At(1, 26, 6) /\ VOP3.code = 52
  BY DEF VOP3
<1>11. MTBUF.encoding = At(1, 26, 6) /\ MTBUF.code = 58
  BY DEF MTBUF
<1>12. MUBUF.encoding = At(1, 26, 6) /\ MUBUF.code = 56
  BY DEF MUBUF
<1>13. MIMG.encoding = At(1, 26, 6) /\ MIMG.code = 60
  BY DEF MIMG
<1>14. DS.encoding = At(1, 26, 6) /\ DS.code = 54
  BY DEF DS
<1>15. FLAT.encoding = At(1, 26, 6) /\ FLAT.code = 55
  BY DEF FLAT
<1>16. VINTRP.encoding = At(1, 26, 6) /\ VINTRP.code = 50
  BY DEF VINTRP
<1>17. EXP.encoding = At(1, 26, 6) /\ EXP.code = 62
  BY DEF EXP
<1> QED
  BY <1>1, <1>2, <1>3, <1>4, <1>5, <1>6, <1>7, <1>8, <1>9, <1>10, <1>11, <1>12, <1>13, <1>14, <1>15, <1>16, <1>17

Top(w) == Number(w) \div 2 ^ 23

\* Every field of a word, by arithmetic.
LEMMA FieldByNumber ==
  ASSUME NEW w \in SUBSET Bit, NEW n \in 0 .. 31, NEW d \in 0 .. 32, n + d <= 32
  PROVE  G(At(1, n, d), <<w>>) = (Number(w) \div 2 ^ n) % 2 ^ d
<1>1. G(At(1, n, d), <<w>>) = Number({b - n : b \in w \cap n .. n + d - 1})
  BY DEF G, At
<1> QED
  BY <1>1, FieldNumber

\* Nine bits make a number below 512.
LEMMA TopRange ==
  ASSUME NEW w \in SUBSET Bit
  PROVE  Top(w) \in 0 .. 511
<1> DEFINE N == Number(w)
<1>1. N \in 0 .. 2 ^ 32 - 1
  BY NumberRange
<1> HIDE DEF N
<1>2. N \div 2 ^ 23 \in 0 .. 511
  BY SMT, <1>1
<1> QED
  BY <1>2 DEF Top, N

\* The encoding of every format is within these nine bits.
LEMMA EncodingByTop ==
  ASSUME NEW w \in SUBSET Bit
  PROVE  /\ G(SOP1.encoding, <<w>>) = SOP1.code <=> Top(w) = 381
         /\ G(SOP2.encoding, <<w>>) = SOP2.code <=> Top(w) \div 128 = 2
         /\ G(SOPK.encoding, <<w>>) = SOPK.code <=> Top(w) \div 32 = 11
         /\ G(SOPC.encoding, <<w>>) = SOPC.code <=> Top(w) = 382
         /\ G(SOPP.encoding, <<w>>) = SOPP.code <=> Top(w) = 383
         /\ G(SMRD.encoding, <<w>>) = SMRD.code <=> Top(w) \div 16 = 24
         /\ G(VOP1.encoding, <<w>>) = VOP1.code <=> Top(w) \div 4 = 63
         /\ G(VOP2.encoding, <<w>>) = VOP2.code <=> Top(w) \div 256 = 0
         /\ G(VOPC.encoding, <<w>>) = VOPC.code <=> Top(w) \div 4 = 62
         /\ G(VOP3.encoding, <<w>>) = VOP3.code <=> Top(w) \div 8 = 52
         /\ G(MTBUF.encoding, <<w>>) = MTBUF.code <=> Top(w) \div 8 = 58
         /\ G(MUBUF.encoding, <<w>>) = MUBUF.code <=> Top(w) \div 8 = 56
         /\ G(MIMG.encoding, <<w>>) = MIMG.code <=> Top(w) \div 8 = 60
         /\ G(DS.encoding, <<w>>) = DS.code <=> Top(w) \div 8 = 54
         /\ G(FLAT.encoding, <<w>>) = FLAT.code <=> Top(w) \div 8 = 55
         /\ G(VINTRP.encoding, <<w>>) = VINTRP.code <=> Top(w) \div 8 = 50
         /\ G(EXP.encoding, <<w>>) = EXP.code <=> Top(w) \div 8 = 62
<1> DEFINE N == Number(w)
<1>0. N \in 0 .. 2 ^ 32 - 1
  BY NumberRange
<1>1. G(SOP1.encoding, <<w>>) = SOP1.code <=> Top(w) = 381
  <2>1. G(At(1, 23, 9), <<w>>) = (N \div 2 ^ 23) % 2 ^ 9
    BY SMT, FieldByNumber
  <2>2. (N \div 2 ^ 23) % 2 ^ 9 = 381 <=> N \div 2 ^ 23 = 381
    <3> HIDE DEF N
    <3> QED
      BY SMT, <1>0
  <2> QED
    BY <2>1, <2>2, Encodings DEF Top, N
<1>2. G(SOP2.encoding, <<w>>) = SOP2.code <=> Top(w) \div 128 = 2
  <2>1. G(At(1, 30, 2), <<w>>) = (N \div 2 ^ 30) % 2 ^ 2
    BY SMT, FieldByNumber
  <2>2. (N \div 2 ^ 30) % 2 ^ 2 = 2 <=> (N \div 2 ^ 23) \div 128 = 2
    <3> HIDE DEF N
    <3> QED
      BY SMT, <1>0
  <2> QED
    BY <2>1, <2>2, Encodings DEF Top, N
<1>3. G(SOPK.encoding, <<w>>) = SOPK.code <=> Top(w) \div 32 = 11
  <2>1. G(At(1, 28, 4), <<w>>) = (N \div 2 ^ 28) % 2 ^ 4
    BY SMT, FieldByNumber
  <2>2. (N \div 2 ^ 28) % 2 ^ 4 = 11 <=> (N \div 2 ^ 23) \div 32 = 11
    <3> HIDE DEF N
    <3> QED
      BY SMT, <1>0
  <2> QED
    BY <2>1, <2>2, Encodings DEF Top, N
<1>4. G(SOPC.encoding, <<w>>) = SOPC.code <=> Top(w) = 382
  <2>1. G(At(1, 23, 9), <<w>>) = (N \div 2 ^ 23) % 2 ^ 9
    BY SMT, FieldByNumber
  <2>2. (N \div 2 ^ 23) % 2 ^ 9 = 382 <=> N \div 2 ^ 23 = 382
    <3> HIDE DEF N
    <3> QED
      BY SMT, <1>0
  <2> QED
    BY <2>1, <2>2, Encodings DEF Top, N
<1>5. G(SOPP.encoding, <<w>>) = SOPP.code <=> Top(w) = 383
  <2>1. G(At(1, 23, 9), <<w>>) = (N \div 2 ^ 23) % 2 ^ 9
    BY SMT, FieldByNumber
  <2>2. (N \div 2 ^ 23) % 2 ^ 9 = 383 <=> N \div 2 ^ 23 = 383
    <3> HIDE DEF N
    <3> QED
      BY SMT, <1>0
  <2> QED
    BY <2>1, <2>2, Encodings DEF Top, N
<1>6. G(SMRD.encoding, <<w>>) = SMRD.code <=> Top(w) \div 16 = 24
  <2>1. G(At(1, 27, 5), <<w>>) = (N \div 2 ^ 27) % 2 ^ 5
    BY SMT, FieldByNumber
  <2>2. (N \div 2 ^ 27) % 2 ^ 5 = 24 <=> (N \div 2 ^ 23) \div 16 = 24
    <3> HIDE DEF N
    <3> QED
      BY SMT, <1>0
  <2> QED
    BY <2>1, <2>2, Encodings DEF Top, N
<1>7. G(VOP1.encoding, <<w>>) = VOP1.code <=> Top(w) \div 4 = 63
  <2>1. G(At(1, 25, 7), <<w>>) = (N \div 2 ^ 25) % 2 ^ 7
    BY SMT, FieldByNumber
  <2>2. (N \div 2 ^ 25) % 2 ^ 7 = 63 <=> (N \div 2 ^ 23) \div 4 = 63
    <3> HIDE DEF N
    <3> QED
      BY SMT, <1>0
  <2> QED
    BY <2>1, <2>2, Encodings DEF Top, N
<1>8. G(VOP2.encoding, <<w>>) = VOP2.code <=> Top(w) \div 256 = 0
  <2>1. G(At(1, 31, 1), <<w>>) = (N \div 2 ^ 31) % 2 ^ 1
    BY SMT, FieldByNumber
  <2>2. (N \div 2 ^ 31) % 2 ^ 1 = 0 <=> (N \div 2 ^ 23) \div 256 = 0
    <3> HIDE DEF N
    <3> QED
      BY SMT, <1>0
  <2> QED
    BY <2>1, <2>2, Encodings DEF Top, N
<1>9. G(VOPC.encoding, <<w>>) = VOPC.code <=> Top(w) \div 4 = 62
  <2>1. G(At(1, 25, 7), <<w>>) = (N \div 2 ^ 25) % 2 ^ 7
    BY SMT, FieldByNumber
  <2>2. (N \div 2 ^ 25) % 2 ^ 7 = 62 <=> (N \div 2 ^ 23) \div 4 = 62
    <3> HIDE DEF N
    <3> QED
      BY SMT, <1>0
  <2> QED
    BY <2>1, <2>2, Encodings DEF Top, N
<1>10. G(VOP3.encoding, <<w>>) = VOP3.code <=> Top(w) \div 8 = 52
  <2>1. G(At(1, 26, 6), <<w>>) = (N \div 2 ^ 26) % 2 ^ 6
    BY SMT, FieldByNumber
  <2>2. (N \div 2 ^ 26) % 2 ^ 6 = 52 <=> (N \div 2 ^ 23) \div 8 = 52
    <3> HIDE DEF N
    <3> QED
      BY SMT, <1>0
  <2> QED
    BY <2>1, <2>2, Encodings DEF Top, N
<1>11. G(MTBUF.encoding, <<w>>) = MTBUF.code <=> Top(w) \div 8 = 58
  <2>1. G(At(1, 26, 6), <<w>>) = (N \div 2 ^ 26) % 2 ^ 6
    BY SMT, FieldByNumber
  <2>2. (N \div 2 ^ 26) % 2 ^ 6 = 58 <=> (N \div 2 ^ 23) \div 8 = 58
    <3> HIDE DEF N
    <3> QED
      BY SMT, <1>0
  <2> QED
    BY <2>1, <2>2, Encodings DEF Top, N
<1>12. G(MUBUF.encoding, <<w>>) = MUBUF.code <=> Top(w) \div 8 = 56
  <2>1. G(At(1, 26, 6), <<w>>) = (N \div 2 ^ 26) % 2 ^ 6
    BY SMT, FieldByNumber
  <2>2. (N \div 2 ^ 26) % 2 ^ 6 = 56 <=> (N \div 2 ^ 23) \div 8 = 56
    <3> HIDE DEF N
    <3> QED
      BY SMT, <1>0
  <2> QED
    BY <2>1, <2>2, Encodings DEF Top, N
<1>13. G(MIMG.encoding, <<w>>) = MIMG.code <=> Top(w) \div 8 = 60
  <2>1. G(At(1, 26, 6), <<w>>) = (N \div 2 ^ 26) % 2 ^ 6
    BY SMT, FieldByNumber
  <2>2. (N \div 2 ^ 26) % 2 ^ 6 = 60 <=> (N \div 2 ^ 23) \div 8 = 60
    <3> HIDE DEF N
    <3> QED
      BY SMT, <1>0
  <2> QED
    BY <2>1, <2>2, Encodings DEF Top, N
<1>14. G(DS.encoding, <<w>>) = DS.code <=> Top(w) \div 8 = 54
  <2>1. G(At(1, 26, 6), <<w>>) = (N \div 2 ^ 26) % 2 ^ 6
    BY SMT, FieldByNumber
  <2>2. (N \div 2 ^ 26) % 2 ^ 6 = 54 <=> (N \div 2 ^ 23) \div 8 = 54
    <3> HIDE DEF N
    <3> QED
      BY SMT, <1>0
  <2> QED
    BY <2>1, <2>2, Encodings DEF Top, N
<1>15. G(FLAT.encoding, <<w>>) = FLAT.code <=> Top(w) \div 8 = 55
  <2>1. G(At(1, 26, 6), <<w>>) = (N \div 2 ^ 26) % 2 ^ 6
    BY SMT, FieldByNumber
  <2>2. (N \div 2 ^ 26) % 2 ^ 6 = 55 <=> (N \div 2 ^ 23) \div 8 = 55
    <3> HIDE DEF N
    <3> QED
      BY SMT, <1>0
  <2> QED
    BY <2>1, <2>2, Encodings DEF Top, N
<1>16. G(VINTRP.encoding, <<w>>) = VINTRP.code <=> Top(w) \div 8 = 50
  <2>1. G(At(1, 26, 6), <<w>>) = (N \div 2 ^ 26) % 2 ^ 6
    BY SMT, FieldByNumber
  <2>2. (N \div 2 ^ 26) % 2 ^ 6 = 50 <=> (N \div 2 ^ 23) \div 8 = 50
    <3> HIDE DEF N
    <3> QED
      BY SMT, <1>0
  <2> QED
    BY <2>1, <2>2, Encodings DEF Top, N
<1>17. G(EXP.encoding, <<w>>) = EXP.code <=> Top(w) \div 8 = 62
  <2>1. G(At(1, 26, 6), <<w>>) = (N \div 2 ^ 26) % 2 ^ 6
    BY SMT, FieldByNumber
  <2>2. (N \div 2 ^ 26) % 2 ^ 6 = 62 <=> (N \div 2 ^ 23) \div 8 = 62
    <3> HIDE DEF N
    <3> QED
      BY SMT, <1>0
  <2> QED
    BY <2>1, <2>2, Encodings DEF Top, N
<1> QED
  BY <1>1, <1>2, <1>3, <1>4, <1>5, <1>6, <1>7, <1>8, <1>9, <1>10, <1>11, <1>12, <1>13, <1>14, <1>15, <1>16, <1>17

\* The format each of them is decoded as: of those that match, the widest encoding.
LEMMA FormatNames ==
  /\ DOMAIN Formats = {"SOP1", "SOP2", "SOPK", "SOPC", "SOPP", "SMRD", "VOP1", "VOP2", "VOPC", "VOP3",
                       "MTBUF", "MUBUF", "MIMG", "DS", "FLAT", "VINTRP", "EXP"}
  /\ Formats["SOP1"] = SOP1
  /\ Formats["SOP2"] = SOP2
  /\ Formats["SOPK"] = SOPK
  /\ Formats["SOPC"] = SOPC
  /\ Formats["SOPP"] = SOPP
  /\ Formats["SMRD"] = SMRD
  /\ Formats["VOP1"] = VOP1
  /\ Formats["VOP2"] = VOP2
  /\ Formats["VOPC"] = VOPC
  /\ Formats["VOP3"] = VOP3
  /\ Formats["MTBUF"] = MTBUF
  /\ Formats["MUBUF"] = MUBUF
  /\ Formats["MIMG"] = MIMG
  /\ Formats["DS"] = DS
  /\ Formats["FLAT"] = FLAT
  /\ Formats["VINTRP"] = VINTRP
  /\ Formats["EXP"] = EXP
  BY DEF Formats

\* The widest of the encodings that match decides.
LEMMA Widest ==
  ASSUME NEW M, NEW f \in M, \A g \in M : Formats[g].encoding.width \in Int,
         \A g \in M : g # f => Formats[g].encoding.width < Formats[f].encoding.width
  PROVE  Longest(Formats, M) = {f}
  BY DEF Longest

\* The format, by the nine highest bits.
LEMMA Chosen ==
  ASSUME NEW w \in SUBSET Bit
  PROVE  /\ Top(w) = 383 => Longest(Formats, Matching(Formats, w)) = {"SOPP"}
         /\ Top(w) = 381 => Longest(Formats, Matching(Formats, w)) = {"SOP1"}
         /\ Top(w) = 382 => Longest(Formats, Matching(Formats, w)) = {"SOPC"}
         /\ Top(w) \in 256 .. 300 => Longest(Formats, Matching(Formats, w)) = {"SOP2"}
         /\ Top(w) = 370 => Longest(Formats, Matching(Formats, w)) = {"SOPK"}
         /\ Top(w) \div 16 = 24 => Longest(Formats, Matching(Formats, w)) = {"SMRD"}
         /\ Top(w) \div 4 = 63 => Longest(Formats, Matching(Formats, w)) = {"VOP1"}
         /\ Top(w) \div 4 = 62 => Longest(Formats, Matching(Formats, w)) = {"VOPC"}
         /\ Top(w) \div 4 \in 0 .. 61 => Longest(Formats, Matching(Formats, w)) = {"VOP2"}
         /\ Top(w) \div 8 = 52 => Longest(Formats, Matching(Formats, w)) = {"VOP3"}
         /\ Top(w) \div 8 = 58 => Longest(Formats, Matching(Formats, w)) = {"MTBUF"}
         /\ Top(w) \div 8 = 56 => Longest(Formats, Matching(Formats, w)) = {"MUBUF"}
<1> DEFINE M == Matching(Formats, w)
           t == Top(w)
<1>1. t \in 0 .. 511
  BY TopRange
<1>2. /\ M \subseteq {"SOP1", "SOP2", "SOPK", "SOPC", "SOPP", "SMRD", "VOP1", "VOP2", "VOPC", "VOP3",
                    "MTBUF", "MUBUF", "MIMG", "DS", "FLAT", "VINTRP", "EXP"}
      /\ "SOP1" \in M <=> t = 381
      /\ "SOP2" \in M <=> t \div 128 = 2
      /\ "SOPK" \in M <=> t \div 32 = 11
      /\ "SOPC" \in M <=> t = 382
      /\ "SOPP" \in M <=> t = 383
      /\ "SMRD" \in M <=> t \div 16 = 24
      /\ "VOP1" \in M <=> t \div 4 = 63
      /\ "VOP2" \in M <=> t \div 256 = 0
      /\ "VOPC" \in M <=> t \div 4 = 62
      /\ "VOP3" \in M <=> t \div 8 = 52
      /\ "MTBUF" \in M <=> t \div 8 = 58
      /\ "MUBUF" \in M <=> t \div 8 = 56
      /\ "MIMG" \in M <=> t \div 8 = 60
      /\ "DS" \in M <=> t \div 8 = 54
      /\ "FLAT" \in M <=> t \div 8 = 55
      /\ "VINTRP" \in M <=> t \div 8 = 50
      /\ "EXP" \in M <=> t \div 8 = 62
  <2>1. M \subseteq DOMAIN Formats
    BY DEF Matching
  <2> DEFINE matches(f, F) == f \in M <=> G(F.encoding, <<w>>) = F.code
  <2>0. /\ matches("SOP1", SOP1) /\ matches("SOP2", SOP2) /\ matches("SOPK", SOPK) /\ matches("SOPC", SOPC)
        /\ matches("SOPP", SOPP) /\ matches("SMRD", SMRD) /\ matches("VOP1", VOP1) /\ matches("VOP2", VOP2)
        /\ matches("VOPC", VOPC) /\ matches("VOP3", VOP3) /\ matches("MTBUF", MTBUF) /\ matches("MUBUF", MUBUF)
        /\ matches("MIMG", MIMG) /\ matches("DS", DS) /\ matches("FLAT", FLAT) /\ matches("VINTRP", VINTRP)
        /\ matches("EXP", EXP)
    BY FormatNames DEF Matching
  <2> HIDE DEF M, t
  <2>2. "SOP1" \in M <=> t = 381
    BY <2>0, EncodingByTop DEF t
  <2>3. "SOP2" \in M <=> t \div 128 = 2
    BY <2>0, EncodingByTop DEF t
  <2>4. "SOPK" \in M <=> t \div 32 = 11
    BY <2>0, EncodingByTop DEF t
  <2>5. "SOPC" \in M <=> t = 382
    BY <2>0, EncodingByTop DEF t
  <2>6. "SOPP" \in M <=> t = 383
    BY <2>0, EncodingByTop DEF t
  <2>7. "SMRD" \in M <=> t \div 16 = 24
    BY <2>0, EncodingByTop DEF t
  <2>8. "VOP1" \in M <=> t \div 4 = 63
    BY <2>0, EncodingByTop DEF t
  <2>9. "VOP2" \in M <=> t \div 256 = 0
    BY <2>0, EncodingByTop DEF t
  <2>10. "VOPC" \in M <=> t \div 4 = 62
    BY <2>0, EncodingByTop DEF t
  <2>11. "VOP3" \in M <=> t \div 8 = 52
    BY <2>0, EncodingByTop DEF t
  <2>12. "MTBUF" \in M <=> t \div 8 = 58
    BY <2>0, EncodingByTop DEF t
  <2>13. "MUBUF" \in M <=> t \div 8 = 56
    BY <2>0, EncodingByTop DEF t
  <2>14. "MIMG" \in M <=> t \div 8 = 60
    BY <2>0, EncodingByTop DEF t
  <2>15. "DS" \in M <=> t \div 8 = 54
    BY <2>0, EncodingByTop DEF t
  <2>16. "FLAT" \in M <=> t \div 8 = 55
    BY <2>0, EncodingByTop DEF t
  <2>17. "VINTRP" \in M <=> t \div 8 = 50
    BY <2>0, EncodingByTop DEF t
  <2>18. "EXP" \in M <=> t \div 8 = 62
    BY <2>0, EncodingByTop DEF t
  <2> QED
    BY <2>1, <2>2, <2>3, <2>4, <2>5, <2>6, <2>7, <2>8, <2>9,
       <2>10, <2>11, <2>12, <2>13, <2>14, <2>15, <2>16, <2>17, <2>18, FormatNames
<1>3. /\ Formats["SOP1"].encoding.width = 9 /\ Formats["SOP2"].encoding.width = 2 /\ Formats["SOPK"].encoding.width = 4
      /\ Formats["SOPC"].encoding.width = 9 /\ Formats["SOPP"].encoding.width = 9 /\ Formats["SMRD"].encoding.width = 5
      /\ Formats["VOP1"].encoding.width = 7 /\ Formats["VOP2"].encoding.width = 1 /\ Formats["VOPC"].encoding.width = 7
      /\ Formats["VOP3"].encoding.width = 6 /\ Formats["MTBUF"].encoding.width = 6 /\
         Formats["MUBUF"].encoding.width = 6
      /\ Formats["MIMG"].encoding.width = 6 /\ Formats["DS"].encoding.width = 6 /\ Formats["FLAT"].encoding.width = 6
      /\ Formats["VINTRP"].encoding.width = 6 /\ Formats["EXP"].encoding.width = 6
  BY FormatNames, Encodings DEF At
<1> HIDE DEF M, t
<1>4. t = 383 => Longest(Formats, M) = {"SOPP"}
  <2>1. SUFFICES ASSUME t = 383 PROVE Longest(Formats, M) = {"SOPP"}
    OBVIOUS
  <2>2. "SOPP" \in M /\ M \subseteq {"SOP2", "SOPK", "SOPP"}
    BY <1>1, <1>2, <2>1
  <2>3. Formats["SOPP"].encoding.width = 9
    BY <1>3
  <2>4. \A g \in M : Formats[g].encoding.width \in Int /\ (g # "SOPP" => Formats[g].encoding.width < 9)
    BY <1>3, <2>2
  <2> QED
    BY <2>2, <2>3, <2>4, Widest
<1>5. t = 381 => Longest(Formats, M) = {"SOP1"}
  <2>1. SUFFICES ASSUME t = 381 PROVE Longest(Formats, M) = {"SOP1"}
    OBVIOUS
  <2>2. "SOP1" \in M /\ M \subseteq {"SOP1", "SOP2", "SOPK"}
    BY <1>1, <1>2, <2>1
  <2>3. Formats["SOP1"].encoding.width = 9
    BY <1>3
  <2>4. \A g \in M : Formats[g].encoding.width \in Int /\ (g # "SOP1" => Formats[g].encoding.width < 9)
    BY <1>3, <2>2
  <2> QED
    BY <2>2, <2>3, <2>4, Widest
<1>6. t = 382 => Longest(Formats, M) = {"SOPC"}
  <2>1. SUFFICES ASSUME t = 382 PROVE Longest(Formats, M) = {"SOPC"}
    OBVIOUS
  <2>2. "SOPC" \in M /\ M \subseteq {"SOP2", "SOPK", "SOPC"}
    BY <1>1, <1>2, <2>1
  <2>3. Formats["SOPC"].encoding.width = 9
    BY <1>3
  <2>4. \A g \in M : Formats[g].encoding.width \in Int /\ (g # "SOPC" => Formats[g].encoding.width < 9)
    BY <1>3, <2>2
  <2> QED
    BY <2>2, <2>3, <2>4, Widest
<1>7. t \in 256 .. 300 => Longest(Formats, M) = {"SOP2"}
  <2>1. SUFFICES ASSUME t \in 256 .. 300 PROVE Longest(Formats, M) = {"SOP2"}
    OBVIOUS
  <2>2. "SOP2" \in M /\ M \subseteq {"SOP2"}
    BY <1>1, <1>2, <2>1
  <2>3. Formats["SOP2"].encoding.width = 2
    BY <1>3
  <2>4. \A g \in M : Formats[g].encoding.width \in Int /\ (g # "SOP2" => Formats[g].encoding.width < 2)
    BY <1>3, <2>2
  <2> QED
    BY <2>2, <2>3, <2>4, Widest
<1>8. t = 370 => Longest(Formats, M) = {"SOPK"}
  <2>1. SUFFICES ASSUME t = 370 PROVE Longest(Formats, M) = {"SOPK"}
    OBVIOUS
  <2>2. "SOPK" \in M /\ M \subseteq {"SOP2", "SOPK"}
    BY <1>1, <1>2, <2>1
  <2>3. Formats["SOPK"].encoding.width = 4
    BY <1>3
  <2>4. \A g \in M : Formats[g].encoding.width \in Int /\ (g # "SOPK" => Formats[g].encoding.width < 4)
    BY <1>3, <2>2
  <2> QED
    BY <2>2, <2>3, <2>4, Widest
<1>9. t \div 16 = 24 => Longest(Formats, M) = {"SMRD"}
  <2>1. SUFFICES ASSUME t \div 16 = 24 PROVE Longest(Formats, M) = {"SMRD"}
    OBVIOUS
  <2>2. "SMRD" \in M /\ M \subseteq {"SMRD"}
    BY <1>1, <1>2, <2>1
  <2>3. Formats["SMRD"].encoding.width = 5
    BY <1>3
  <2>4. \A g \in M : Formats[g].encoding.width \in Int /\ (g # "SMRD" => Formats[g].encoding.width < 5)
    <3>1. M = {"SMRD"}
      BY <2>2
    <3> QED
      BY <2>3, <3>1
  <2> QED
    BY <2>2, <2>3, <2>4, Widest
<1>10. t \div 4 = 63 => Longest(Formats, M) = {"VOP1"}
  <2>1. SUFFICES ASSUME t \div 4 = 63 PROVE Longest(Formats, M) = {"VOP1"}
    OBVIOUS
  <2>2. "VOP1" \in M /\ M \subseteq {"VOP1", "VOP2"}
    BY <1>1, <1>2, <2>1
  <2>3. Formats["VOP1"].encoding.width = 7
    BY <1>3
  <2>4. \A g \in M : Formats[g].encoding.width \in Int /\ (g # "VOP1" => Formats[g].encoding.width < 7)
    BY <1>3, <2>2
  <2> QED
    BY <2>2, <2>3, <2>4, Widest
<1>11. t \div 4 = 62 => Longest(Formats, M) = {"VOPC"}
  <2>1. SUFFICES ASSUME t \div 4 = 62 PROVE Longest(Formats, M) = {"VOPC"}
    OBVIOUS
  <2>2. "VOPC" \in M /\ M \subseteq {"VOP2", "VOPC"}
    BY <1>1, <1>2, <2>1
  <2>3. Formats["VOPC"].encoding.width = 7
    BY <1>3
  <2>4. \A g \in M : Formats[g].encoding.width \in Int /\ (g # "VOPC" => Formats[g].encoding.width < 7)
    BY <1>3, <2>2
  <2> QED
    BY <2>2, <2>3, <2>4, Widest
<1>12. t \div 4 \in 0 .. 61 => Longest(Formats, M) = {"VOP2"}
  <2>1. SUFFICES ASSUME t \div 4 \in 0 .. 61 PROVE Longest(Formats, M) = {"VOP2"}
    OBVIOUS
  <2>2. "VOP2" \in M /\ M \subseteq {"VOP2"}
    BY <1>1, <1>2, <2>1
  <2>3. Formats["VOP2"].encoding.width = 1
    BY <1>3
  <2>4. \A g \in M : Formats[g].encoding.width \in Int /\ (g # "VOP2" => Formats[g].encoding.width < 1)
    <3>1. M = {"VOP2"}
      BY <2>2
    <3> QED
      BY <2>3, <3>1
  <2> QED
    BY <2>2, <2>3, <2>4, Widest
<1>13. t \div 8 = 52 => Longest(Formats, M) = {"VOP3"}
  <2>1. SUFFICES ASSUME t \div 8 = 52 PROVE Longest(Formats, M) = {"VOP3"}
    OBVIOUS
  <2>2. "VOP3" \in M /\ M \subseteq {"VOP3"}
    BY <1>1, <1>2, <2>1
  <2>3. Formats["VOP3"].encoding.width = 6
    BY <1>3
  <2>4. \A g \in M : Formats[g].encoding.width \in Int /\ (g # "VOP3" => Formats[g].encoding.width < 6)
    BY <1>3, <2>2
  <2> QED
    BY <2>2, <2>3, <2>4, Widest
<1>14. t \div 8 = 58 => Longest(Formats, M) = {"MTBUF"}
  <2>1. SUFFICES ASSUME t \div 8 = 58 PROVE Longest(Formats, M) = {"MTBUF"}
    OBVIOUS
  <2>2. "MTBUF" \in M /\ M \subseteq {"MTBUF"}
    BY <1>1, <1>2, <2>1
  <2>3. Formats["MTBUF"].encoding.width = 6
    BY <1>3
  <2>4. \A g \in M : Formats[g].encoding.width \in Int /\ (g # "MTBUF" => Formats[g].encoding.width < 6)
    BY <1>3, <2>2
  <2> QED
    BY <2>2, <2>3, <2>4, Widest
<1>15. t \div 8 = 56 => Longest(Formats, M) = {"MUBUF"}
  <2>1. SUFFICES ASSUME t \div 8 = 56 PROVE Longest(Formats, M) = {"MUBUF"}
    OBVIOUS
  <2>2. "MUBUF" \in M /\ M \subseteq {"MUBUF"}
    BY <1>1, <1>2, <2>1
  <2>3. Formats["MUBUF"].encoding.width = 6
    BY <1>3
  <2>4. \A g \in M : Formats[g].encoding.width \in Int /\ (g # "MUBUF" => Formats[g].encoding.width < 6)
    BY <1>3, <2>2
  <2> QED
    BY <2>2, <2>3, <2>4, Widest
<1> QED
  BY <1>4, <1>5, <1>6, <1>7, <1>8, <1>9, <1>10, <1>11, <1>12, <1>13, <1>14, <1>15 DEF M, t

-----------------------------------------------------------------------------
(* What the encoders write, read as sid.h describes it.                    *)

\* The words are one instruction, of this format, opcode and operands, and sid.h
\* names the opcode and the code of every operand.
Encodes(words, format, op, operand) ==
  /\ words \in Seq(SUBSET Bit) /\ Len(words) = Formats[format].length
  /\ Longest(Formats, Matching(Formats, words[1])) = {format}
  /\ LET read == Read(format, Formats[format], words)
     IN  read.format = format /\ read.op = op /\ read.operand = operand /\ read.named

\* What Read makes of words whose fields are known.
LEMMA ReadNamed ==
  ASSUME NEW format, NEW words, NEW op, NEW operand, NEW F,
         G(F.op, words) = op, op \in F.ops,
         operand = [n \in DOMAIN F.fields |-> Held(F.fields[n], words)],
         \A n \in DOMAIN F.fields : operand[n] \in F.fields[n].codes
  PROVE  LET read == Read(format, F, words)
         IN  read.format = format /\ read.op = op /\ read.operand = operand /\ read.named
  BY DEF Read, Instruction

\* x needs at most d bits.
Fits(x, d) == x \in Nat /\ d \in 0 .. 31 /\ x < 2 ^ d

\* A number that fits, shifted, is within its field.
LEMMA Placed ==
  ASSUME NEW x, NEW n \in 0 .. 31, NEW d, Fits(x, d), n + d <= 32
  PROVE  Shl(x, n) \subseteq n .. n + d - 1 /\ Shl(x, n) \in SUBSET Bit
  BY ShlNumber DEF Fits

\* And counts there 2^n times what it is.
LEMMA PlacedNumber ==
  ASSUME NEW x, NEW n \in 0 .. 31, NEW d, Fits(x, d), n + d <= 32
  PROVE  Number(Shl(x, n)) = 2 ^ n * x
  BY ShlNumber DEF Fits

\* A field that holds only x is read as x.
LEMMA FieldIs ==
  ASSUME NEW words, NEW k, NEW n \in 0 .. 31, NEW d, NEW x, Fits(x, d), n + d <= 32,
         \A b \in n .. n + d - 1 : b \in words[k] <=> b \in Shl(x, n)
  PROVE  G(At(k, n, d), words) = x
  BY FieldHolds DEF Fits


\* A field lies within the words and holds x, a code it may hold.
Reads(words, field, x) == field.at.word <= Len(words) /\ G(field.at, words) = x /\ x \in field.codes

\* How the words of one instruction are read, once each of its fields is known.
LEMMA FieldsEncode ==
  ASSUME NEW words \in Seq(SUBSET Bit), NEW format \in DOMAIN Formats, NEW op, NEW operand, NEW F, F = Formats[format],
         Len(words) = F.length, Longest(Formats, Matching(Formats, words[1])) = {format},
         G(F.op, words) = op, op \in F.ops,
         operand = [n \in DOMAIN F.fields |-> operand[n]],
         \A n \in DOMAIN F.fields : Reads(words, F.fields[n], operand[n])
  PROVE  Encodes(words, format, op, operand)
<1>1. operand = [n \in DOMAIN F.fields |-> Held(F.fields[n], words)]
  BY DEF Held, Reads
<1>2. LET read == Read(format, F, words)
      IN  read.format = format /\ read.op = op /\ read.operand = operand /\ read.named
  <2>1. \A n \in DOMAIN F.fields : operand[n] \in F.fields[n].codes
    BY DEF Reads
  <2> QED
    BY <1>1, <2>1, ReadNamed
<1> QED
  BY <1>2 DEF Encodes

-----------------------------------------------------------------------------
(* The fields of each format, one by one.                                  *)

\* SOPP.
LEMMA SoppFields ==
  /\ SOPP.length = 1 /\ SOPP.op = At(1, 16, 7) /\ SOPP.ops = SOPPOp /\ DOMAIN SOPP.fields = {"SIMM16"}
  /\ SOPP.fields["SIMM16"].at = At(1, 0, 16) /\ SOPP.fields["SIMM16"].codes = Immediate
<1> QED  BY DEF SOPP, Operand
\* SOP1.
LEMMA Sop1Fields ==
  /\ SOP1.length = 1 /\ SOP1.op = At(1, 8, 8) /\ SOP1.ops = SOP1Op
  /\ DOMAIN SOP1.fields = {"SSRC0", "SDST"}
  /\ SOP1.fields["SSRC0"].at = At(1, 0, 8) /\ SOP1.fields["SSRC0"].codes = ScalarSource
  /\ SOP1.fields["SDST"].at = At(1, 16, 7) /\ SOP1.fields["SDST"].codes = ScalarDest
  BY DEF SOP1, Operand

\* SOP2.
LEMMA Sop2Fields ==
  /\ SOP2.length = 1 /\ SOP2.op = At(1, 23, 7) /\ SOP2.ops = SOP2Op
  /\ DOMAIN SOP2.fields = {"SSRC0", "SSRC1", "SDST"}
  /\ SOP2.fields["SSRC0"].at = At(1, 0, 8) /\ SOP2.fields["SSRC0"].codes = ScalarSource
  /\ SOP2.fields["SSRC1"].at = At(1, 8, 8) /\ SOP2.fields["SSRC1"].codes = ScalarSource
  /\ SOP2.fields["SDST"].at = At(1, 16, 7) /\ SOP2.fields["SDST"].codes = ScalarDest
  BY DEF SOP2, Operand

\* SOPK.
LEMMA SopkFields ==
  /\ SOPK.length = 1 /\ SOPK.op = At(1, 23, 5) /\ SOPK.ops = SOPKOp
  /\ DOMAIN SOPK.fields = {"SIMM16", "SDST"}
  /\ SOPK.fields["SIMM16"].at = At(1, 0, 16) /\ SOPK.fields["SIMM16"].codes = Immediate
  /\ SOPK.fields["SDST"].at = At(1, 16, 7) /\ SOPK.fields["SDST"].codes = ScalarDest
  BY DEF SOPK, Operand

\* SOPC.
LEMMA SopcFields ==
  /\ SOPC.length = 1 /\ SOPC.op = At(1, 16, 7) /\ SOPC.ops = SOPCOp
  /\ DOMAIN SOPC.fields = {"SSRC0", "SSRC1"}
  /\ SOPC.fields["SSRC0"].at = At(1, 0, 8) /\ SOPC.fields["SSRC0"].codes = ScalarSource
  /\ SOPC.fields["SSRC1"].at = At(1, 8, 8) /\ SOPC.fields["SSRC1"].codes = ScalarSource
  BY DEF SOPC, Operand

\* SMRD.
LEMMA SmrdFields ==
  /\ SMRD.length = 1 /\ SMRD.op = At(1, 22, 5) /\ SMRD.ops = SMRDOp
  /\ DOMAIN SMRD.fields = {"OFFSET", "IMM", "SBASE", "SDST"}
  /\ SMRD.fields["OFFSET"].at = At(1, 0, 8) /\ SMRD.fields["OFFSET"].codes = 0 .. 255
  /\ SMRD.fields["IMM"].at = At(1, 8, 1) /\ SMRD.fields["IMM"].codes = 0 .. 1
  /\ SMRD.fields["SBASE"].at = At(1, 9, 6) /\ SMRD.fields["SBASE"].codes = 0 .. 63
  /\ SMRD.fields["SDST"].at = At(1, 15, 7) /\ SMRD.fields["SDST"].codes = ScalarDest
  BY DEF SMRD, Operand, Flag

\* VOP1.
LEMMA Vop1Fields ==
  /\ VOP1.length = 1 /\ VOP1.op = At(1, 9, 8) /\ VOP1.ops = VOP1Op
  /\ DOMAIN VOP1.fields = {"SRC0", "VDST"}
  /\ VOP1.fields["SRC0"].at = At(1, 0, 9) /\ VOP1.fields["SRC0"].codes = VectorSource
  /\ VOP1.fields["VDST"].at = At(1, 17, 8) /\ VOP1.fields["VDST"].codes = Vgpr
  BY DEF VOP1, Operand

\* VOP2.
LEMMA Vop2Fields ==
  /\ VOP2.length = 1 /\ VOP2.op = At(1, 25, 6) /\ VOP2.ops = VOP2Op
  /\ DOMAIN VOP2.fields = {"SRC0", "VSRC1", "VDST"}
  /\ VOP2.fields["SRC0"].at = At(1, 0, 9) /\ VOP2.fields["SRC0"].codes = VectorSource
  /\ VOP2.fields["VSRC1"].at = At(1, 9, 8) /\ VOP2.fields["VSRC1"].codes = Vgpr
  /\ VOP2.fields["VDST"].at = At(1, 17, 8) /\ VOP2.fields["VDST"].codes = Vgpr
  BY DEF VOP2, Operand

\* VOPC.
LEMMA VopcFields ==
  /\ VOPC.length = 1 /\ VOPC.op = At(1, 17, 8) /\ VOPC.ops = VOPCOp
  /\ DOMAIN VOPC.fields = {"SRC0", "VSRC1"}
  /\ VOPC.fields["SRC0"].at = At(1, 0, 9) /\ VOPC.fields["SRC0"].codes = CompareSource
  /\ VOPC.fields["VSRC1"].at = At(1, 9, 8) /\ VOPC.fields["VSRC1"].codes = Vgpr
  BY DEF VOPC, Operand

\* VOP3.
LEMMA Vop3Fields ==
  /\ VOP3.length = 2 /\ VOP3.op = At(1, 17, 9) /\ VOP3.ops = VOP3Op
  /\ DOMAIN VOP3.fields = {"VDST", "ABS", "CLAMP", "SRC0", "SRC1", "SRC2", "OMOD", "NEG"}
  /\ VOP3.fields["VDST"].at = At(1, 0, 8) /\ VOP3.fields["VDST"].codes = Vgpr
  /\ VOP3.fields["ABS"].at = At(1, 8, 3) /\ VOP3.fields["ABS"].codes = 0 .. 7
  /\ VOP3.fields["CLAMP"].at = At(1, 11, 1) /\ VOP3.fields["CLAMP"].codes = 0 .. 1
  /\ VOP3.fields["SRC0"].at = At(2, 0, 9) /\ VOP3.fields["SRC0"].codes = VectorSource \ {Literal}
  /\ VOP3.fields["SRC1"].at = At(2, 9, 9) /\ VOP3.fields["SRC1"].codes = VectorSource \ {Literal}
  /\ VOP3.fields["SRC2"].at = At(2, 18, 9) /\ VOP3.fields["SRC2"].codes = VectorSource \ {Literal}
  /\ VOP3.fields["OMOD"].at = At(2, 27, 2) /\ VOP3.fields["OMOD"].codes = 0 .. 3
  /\ VOP3.fields["NEG"].at = At(2, 29, 3) /\ VOP3.fields["NEG"].codes = 0 .. 7
<1>1. VOP3.length = 2 /\ VOP3.op = At(1, 17, 9) /\ VOP3.ops = VOP3Op
  BY DEF VOP3, Both, VOP3_0, VOP3_1
<1>2. DOMAIN VOP3.fields = {"VDST", "ABS", "CLAMP", "SRC0", "SRC1", "SRC2", "OMOD", "NEG"}
  BY DEF VOP3, Both, VOP3_0, VOP3_1
<1>3. VOP3.fields["VDST"].at = At(1, 0, 8) /\ VOP3.fields["VDST"].codes = Vgpr
  <2>1. VOP3.fields["VDST"] = Operand(1, 0, 8, Vgpr)
    BY DEF VOP3, Both, VOP3_0, VOP3_1
  <2> QED
    BY <2>1 DEF Operand
<1>4. VOP3.fields["ABS"].at = At(1, 8, 3) /\ VOP3.fields["ABS"].codes = 0 .. 7
  <2>1. VOP3.fields["ABS"] = Operand(1, 8, 3, 0 .. 7)
    BY DEF VOP3, Both, VOP3_0, VOP3_1
  <2> QED
    BY <2>1 DEF Operand
<1>5. VOP3.fields["CLAMP"].at = At(1, 11, 1) /\ VOP3.fields["CLAMP"].codes = 0 .. 1
  <2>1. VOP3.fields["CLAMP"] = Flag(1, 11)
    BY DEF VOP3, Both, VOP3_0, VOP3_1
  <2> QED
    BY <2>1 DEF Operand, Flag
<1>6. VOP3.fields["SRC0"].at = At(2, 0, 9) /\ VOP3.fields["SRC0"].codes = VectorSource \ {Literal}
  <2>1. VOP3.fields["SRC0"] = Operand(2, 0, 9, VectorSource \ {Literal})
    BY DEF VOP3, Both, VOP3_0, VOP3_1
  <2> QED
    BY <2>1 DEF Operand
<1>7. VOP3.fields["SRC1"].at = At(2, 9, 9) /\ VOP3.fields["SRC1"].codes = VectorSource \ {Literal}
  <2>1. VOP3.fields["SRC1"] = Operand(2, 9, 9, VectorSource \ {Literal})
    BY DEF VOP3, Both, VOP3_0, VOP3_1
  <2> QED
    BY <2>1 DEF Operand
<1>8. VOP3.fields["SRC2"].at = At(2, 18, 9) /\ VOP3.fields["SRC2"].codes = VectorSource \ {Literal}
  <2>1. VOP3.fields["SRC2"] = Operand(2, 18, 9, VectorSource \ {Literal})
    BY DEF VOP3, Both, VOP3_0, VOP3_1
  <2> QED
    BY <2>1 DEF Operand
<1>9. VOP3.fields["OMOD"].at = At(2, 27, 2) /\ VOP3.fields["OMOD"].codes = 0 .. 3
  <2>1. VOP3.fields["OMOD"] = Operand(2, 27, 2, 0 .. 3)
    BY DEF VOP3, Both, VOP3_0, VOP3_1
  <2> QED
    BY <2>1 DEF Operand
<1>10. VOP3.fields["NEG"].at = At(2, 29, 3) /\ VOP3.fields["NEG"].codes = 0 .. 7
  <2>1. VOP3.fields["NEG"] = Operand(2, 29, 3, 0 .. 7)
    BY DEF VOP3, Both, VOP3_0, VOP3_1
  <2> QED
    BY <2>1 DEF Operand
<1> QED
  BY <1>1, <1>2, <1>3, <1>4, <1>5, <1>6, <1>7, <1>8, <1>9, <1>10

\* MTBUF.
LEMMA MtbufFields ==
  /\ MTBUF.length = 2 /\ MTBUF.op = At(1, 16, 3) /\ MTBUF.ops = MTBUFOp
  /\ DOMAIN MTBUF.fields = {"OFFSET", "OFFEN", "IDXEN", "GLC", "ADDR64", "DFMT", "NFMT", "VADDR", "VDATA", "SRSRC",
     "SLC", "TFE", "SOFFSET"}
  /\ MTBUF.fields["OFFSET"].at = At(1, 0, 12) /\ MTBUF.fields["OFFSET"].codes = ByteOffset
  /\ MTBUF.fields["OFFEN"].at = At(1, 12, 1) /\ MTBUF.fields["OFFEN"].codes = 0 .. 1
  /\ MTBUF.fields["IDXEN"].at = At(1, 13, 1) /\ MTBUF.fields["IDXEN"].codes = 0 .. 1
  /\ MTBUF.fields["GLC"].at = At(1, 14, 1) /\ MTBUF.fields["GLC"].codes = 0 .. 1
  /\ MTBUF.fields["ADDR64"].at = At(1, 15, 1) /\ MTBUF.fields["ADDR64"].codes = 0 .. 1
  /\ MTBUF.fields["DFMT"].at = At(1, 19, 4) /\ MTBUF.fields["DFMT"].codes = 0 .. 15
  /\ MTBUF.fields["NFMT"].at = At(1, 23, 3) /\ MTBUF.fields["NFMT"].codes = 0 .. 7
  /\ MTBUF.fields["VADDR"].at = At(2, 0, 8) /\ MTBUF.fields["VADDR"].codes = Vgpr
  /\ MTBUF.fields["VDATA"].at = At(2, 8, 8) /\ MTBUF.fields["VDATA"].codes = Vgpr
  /\ MTBUF.fields["SRSRC"].at = At(2, 16, 5) /\ MTBUF.fields["SRSRC"].codes = 0 .. 31
  /\ MTBUF.fields["SLC"].at = At(2, 22, 1) /\ MTBUF.fields["SLC"].codes = 0 .. 1
  /\ MTBUF.fields["TFE"].at = At(2, 23, 1) /\ MTBUF.fields["TFE"].codes = 0 .. 1
  /\ MTBUF.fields["SOFFSET"].at = At(2, 24, 8) /\ MTBUF.fields["SOFFSET"].codes = Offset
<1>1. MTBUF.length = 2 /\ MTBUF.op = At(1, 16, 3) /\ MTBUF.ops = MTBUFOp
  BY DEF MTBUF, Both, MTBUF_0, MTBUF_1
<1>2. DOMAIN MTBUF.fields = {"OFFSET", "OFFEN", "IDXEN", "GLC", "ADDR64", "DFMT", "NFMT", "VADDR", "VDATA", "SRSRC",
      "SLC", "TFE", "SOFFSET"}
  BY DEF MTBUF, Both, MTBUF_0, MTBUF_1
<1>3. MTBUF.fields["OFFSET"].at = At(1, 0, 12) /\ MTBUF.fields["OFFSET"].codes = ByteOffset
  <2>1. MTBUF.fields["OFFSET"] = Operand(1, 0, 12, ByteOffset)
    BY DEF MTBUF, Both, MTBUF_0, MTBUF_1
  <2> QED
    BY <2>1 DEF Operand
<1>4. MTBUF.fields["OFFEN"].at = At(1, 12, 1) /\ MTBUF.fields["OFFEN"].codes = 0 .. 1
  <2>1. MTBUF.fields["OFFEN"] = Flag(1, 12)
    BY DEF MTBUF, Both, MTBUF_0, MTBUF_1
  <2> QED
    BY <2>1 DEF Operand, Flag
<1>5. MTBUF.fields["IDXEN"].at = At(1, 13, 1) /\ MTBUF.fields["IDXEN"].codes = 0 .. 1
  <2>1. MTBUF.fields["IDXEN"] = Flag(1, 13)
    BY DEF MTBUF, Both, MTBUF_0, MTBUF_1
  <2> QED
    BY <2>1 DEF Operand, Flag
<1>6. MTBUF.fields["GLC"].at = At(1, 14, 1) /\ MTBUF.fields["GLC"].codes = 0 .. 1
  <2>1. MTBUF.fields["GLC"] = Flag(1, 14)
    BY DEF MTBUF, Both, MTBUF_0, MTBUF_1
  <2> QED
    BY <2>1 DEF Operand, Flag
<1>7. MTBUF.fields["ADDR64"].at = At(1, 15, 1) /\ MTBUF.fields["ADDR64"].codes = 0 .. 1
  <2>1. MTBUF.fields["ADDR64"] = Flag(1, 15)
    BY DEF MTBUF, Both, MTBUF_0, MTBUF_1
  <2> QED
    BY <2>1 DEF Operand, Flag
<1>8. MTBUF.fields["DFMT"].at = At(1, 19, 4) /\ MTBUF.fields["DFMT"].codes = 0 .. 15
  <2>1. MTBUF.fields["DFMT"] = Operand(1, 19, 4, 0 .. 15)
    BY DEF MTBUF, Both, MTBUF_0, MTBUF_1
  <2> QED
    BY <2>1 DEF Operand
<1>9. MTBUF.fields["NFMT"].at = At(1, 23, 3) /\ MTBUF.fields["NFMT"].codes = 0 .. 7
  <2>1. MTBUF.fields["NFMT"] = Operand(1, 23, 3, 0 .. 7)
    BY DEF MTBUF, Both, MTBUF_0, MTBUF_1
  <2> QED
    BY <2>1 DEF Operand
<1>10. MTBUF.fields["VADDR"].at = At(2, 0, 8) /\ MTBUF.fields["VADDR"].codes = Vgpr
  <2>1. MTBUF.fields["VADDR"] = Operand(2, 0, 8, Vgpr)
    BY DEF MTBUF, Both, MTBUF_0, MTBUF_1
  <2> QED
    BY <2>1 DEF Operand
<1>11. MTBUF.fields["VDATA"].at = At(2, 8, 8) /\ MTBUF.fields["VDATA"].codes = Vgpr
  <2>1. MTBUF.fields["VDATA"] = Operand(2, 8, 8, Vgpr)
    BY DEF MTBUF, Both, MTBUF_0, MTBUF_1
  <2> QED
    BY <2>1 DEF Operand
<1>12. MTBUF.fields["SRSRC"].at = At(2, 16, 5) /\ MTBUF.fields["SRSRC"].codes = 0 .. 31
  <2>1. MTBUF.fields["SRSRC"] = Operand(2, 16, 5, 0 .. 31)
    BY DEF MTBUF, Both, MTBUF_0, MTBUF_1
  <2> QED
    BY <2>1 DEF Operand
<1>13. MTBUF.fields["SLC"].at = At(2, 22, 1) /\ MTBUF.fields["SLC"].codes = 0 .. 1
  <2>1. MTBUF.fields["SLC"] = Flag(2, 22)
    BY DEF MTBUF, Both, MTBUF_0, MTBUF_1
  <2> QED
    BY <2>1 DEF Operand, Flag
<1>14. MTBUF.fields["TFE"].at = At(2, 23, 1) /\ MTBUF.fields["TFE"].codes = 0 .. 1
  <2>1. MTBUF.fields["TFE"] = Flag(2, 23)
    BY DEF MTBUF, Both, MTBUF_0, MTBUF_1
  <2> QED
    BY <2>1 DEF Operand, Flag
<1>15. MTBUF.fields["SOFFSET"].at = At(2, 24, 8) /\ MTBUF.fields["SOFFSET"].codes = Offset
  <2>1. MTBUF.fields["SOFFSET"] = Operand(2, 24, 8, Offset)
    BY DEF MTBUF, Both, MTBUF_0, MTBUF_1
  <2> QED
    BY <2>1 DEF Operand
<1> QED
  BY <1>1, <1>2, <1>3, <1>4, <1>5, <1>6, <1>7, <1>8, <1>9, <1>10, <1>11, <1>12, <1>13, <1>14, <1>15

\* MUBUF.
LEMMA MubufFields ==
  /\ MUBUF.length = 2 /\ MUBUF.op = At(1, 18, 7) /\ MUBUF.ops = MUBUFOp
  /\ DOMAIN MUBUF.fields = {"OFFSET", "OFFEN", "IDXEN", "GLC", "ADDR64", "LDS", "VADDR", "VDATA", "SRSRC", "SLC",
     "TFE", "SOFFSET"}
  /\ MUBUF.fields["OFFSET"].at = At(1, 0, 12) /\ MUBUF.fields["OFFSET"].codes = ByteOffset
  /\ MUBUF.fields["OFFEN"].at = At(1, 12, 1) /\ MUBUF.fields["OFFEN"].codes = 0 .. 1
  /\ MUBUF.fields["IDXEN"].at = At(1, 13, 1) /\ MUBUF.fields["IDXEN"].codes = 0 .. 1
  /\ MUBUF.fields["GLC"].at = At(1, 14, 1) /\ MUBUF.fields["GLC"].codes = 0 .. 1
  /\ MUBUF.fields["ADDR64"].at = At(1, 15, 1) /\ MUBUF.fields["ADDR64"].codes = 0 .. 1
  /\ MUBUF.fields["LDS"].at = At(1, 16, 1) /\ MUBUF.fields["LDS"].codes = 0 .. 1
  /\ MUBUF.fields["VADDR"].at = At(2, 0, 8) /\ MUBUF.fields["VADDR"].codes = Vgpr
  /\ MUBUF.fields["VDATA"].at = At(2, 8, 8) /\ MUBUF.fields["VDATA"].codes = Vgpr
  /\ MUBUF.fields["SRSRC"].at = At(2, 16, 5) /\ MUBUF.fields["SRSRC"].codes = 0 .. 31
  /\ MUBUF.fields["SLC"].at = At(2, 22, 1) /\ MUBUF.fields["SLC"].codes = 0 .. 1
  /\ MUBUF.fields["TFE"].at = At(2, 23, 1) /\ MUBUF.fields["TFE"].codes = 0 .. 1
  /\ MUBUF.fields["SOFFSET"].at = At(2, 24, 8) /\ MUBUF.fields["SOFFSET"].codes = Offset
<1>1. MUBUF.length = 2 /\ MUBUF.op = At(1, 18, 7) /\ MUBUF.ops = MUBUFOp
  BY DEF MUBUF, Both, MUBUF_0, MUBUF_1, MTBUF_1
<1>2. DOMAIN MUBUF.fields = {"OFFSET", "OFFEN", "IDXEN", "GLC", "ADDR64", "LDS", "VADDR", "VDATA", "SRSRC", "SLC",
      "TFE", "SOFFSET"}
  BY DEF MUBUF, Both, MUBUF_0, MUBUF_1, MTBUF_1
<1>3. MUBUF.fields["OFFSET"].at = At(1, 0, 12) /\ MUBUF.fields["OFFSET"].codes = ByteOffset
  <2>1. MUBUF.fields["OFFSET"] = Operand(1, 0, 12, ByteOffset)
    BY DEF MUBUF, Both, MUBUF_0, MUBUF_1, MTBUF_1
  <2> QED
    BY <2>1 DEF Operand
<1>4. MUBUF.fields["OFFEN"].at = At(1, 12, 1) /\ MUBUF.fields["OFFEN"].codes = 0 .. 1
  <2>1. MUBUF.fields["OFFEN"] = Flag(1, 12)
    BY DEF MUBUF, Both, MUBUF_0, MUBUF_1, MTBUF_1
  <2> QED
    BY <2>1 DEF Operand, Flag
<1>5. MUBUF.fields["IDXEN"].at = At(1, 13, 1) /\ MUBUF.fields["IDXEN"].codes = 0 .. 1
  <2>1. MUBUF.fields["IDXEN"] = Flag(1, 13)
    BY DEF MUBUF, Both, MUBUF_0, MUBUF_1, MTBUF_1
  <2> QED
    BY <2>1 DEF Operand, Flag
<1>6. MUBUF.fields["GLC"].at = At(1, 14, 1) /\ MUBUF.fields["GLC"].codes = 0 .. 1
  <2>1. MUBUF.fields["GLC"] = Flag(1, 14)
    BY DEF MUBUF, Both, MUBUF_0, MUBUF_1, MTBUF_1
  <2> QED
    BY <2>1 DEF Operand, Flag
<1>7. MUBUF.fields["ADDR64"].at = At(1, 15, 1) /\ MUBUF.fields["ADDR64"].codes = 0 .. 1
  <2>1. MUBUF.fields["ADDR64"] = Flag(1, 15)
    BY DEF MUBUF, Both, MUBUF_0, MUBUF_1, MTBUF_1
  <2> QED
    BY <2>1 DEF Operand, Flag
<1>8. MUBUF.fields["LDS"].at = At(1, 16, 1) /\ MUBUF.fields["LDS"].codes = 0 .. 1
  <2>1. MUBUF.fields["LDS"] = Flag(1, 16)
    BY DEF MUBUF, Both, MUBUF_0, MUBUF_1, MTBUF_1
  <2> QED
    BY <2>1 DEF Operand, Flag
<1>9. MUBUF.fields["VADDR"].at = At(2, 0, 8) /\ MUBUF.fields["VADDR"].codes = Vgpr
  <2>1. MUBUF.fields["VADDR"] = Operand(2, 0, 8, Vgpr)
    BY DEF MUBUF, Both, MUBUF_0, MUBUF_1, MTBUF_1
  <2> QED
    BY <2>1 DEF Operand
<1>10. MUBUF.fields["VDATA"].at = At(2, 8, 8) /\ MUBUF.fields["VDATA"].codes = Vgpr
  <2>1. MUBUF.fields["VDATA"] = Operand(2, 8, 8, Vgpr)
    BY DEF MUBUF, Both, MUBUF_0, MUBUF_1, MTBUF_1
  <2> QED
    BY <2>1 DEF Operand
<1>11. MUBUF.fields["SRSRC"].at = At(2, 16, 5) /\ MUBUF.fields["SRSRC"].codes = 0 .. 31
  <2>1. MUBUF.fields["SRSRC"] = Operand(2, 16, 5, 0 .. 31)
    BY DEF MUBUF, Both, MUBUF_0, MUBUF_1, MTBUF_1
  <2> QED
    BY <2>1 DEF Operand
<1>12. MUBUF.fields["SLC"].at = At(2, 22, 1) /\ MUBUF.fields["SLC"].codes = 0 .. 1
  <2>1. MUBUF.fields["SLC"] = Flag(2, 22)
    BY DEF MUBUF, Both, MUBUF_0, MUBUF_1, MTBUF_1
  <2> QED
    BY <2>1 DEF Operand, Flag
<1>13. MUBUF.fields["TFE"].at = At(2, 23, 1) /\ MUBUF.fields["TFE"].codes = 0 .. 1
  <2>1. MUBUF.fields["TFE"] = Flag(2, 23)
    BY DEF MUBUF, Both, MUBUF_0, MUBUF_1, MTBUF_1
  <2> QED
    BY <2>1 DEF Operand, Flag
<1>14. MUBUF.fields["SOFFSET"].at = At(2, 24, 8) /\ MUBUF.fields["SOFFSET"].codes = Offset
  <2>1. MUBUF.fields["SOFFSET"] = Operand(2, 24, 8, Offset)
    BY DEF MUBUF, Both, MUBUF_0, MUBUF_1, MTBUF_1
  <2> QED
    BY <2>1 DEF Operand
<1> QED
  BY <1>1, <1>2, <1>3, <1>4, <1>5, <1>6, <1>7, <1>8, <1>9, <1>10, <1>11, <1>12, <1>13, <1>14


\* What the operand codes of sid.h fit into.
LEMMA OperandCodes ==
  /\ ScalarDest \subseteq 0 .. 127 /\ ScalarSource \subseteq 0 .. 255 /\ Vgpr = 0 .. 255
  /\ VectorSource \subseteq 0 .. 511 /\ CompareSource \subseteq 0 .. 511 /\ Offset \subseteq 0 .. 255
<1>1. ScalarDest \subseteq 0 .. 127
  BY DEF ScalarDest, ScalarRegister
<1>2. ScalarSource \subseteq 0 .. 255
  BY DEF ScalarSource, ScalarRegister, Inline, Literal
<1>3. VectorSource \subseteq 0 .. 511
  <2>1. \A v \in Vgpr : 256 + v \in 0 .. 511
    BY DEF Vgpr
  <2>2. \A x \in ScalarSource : x \in 0 .. 511
    BY <1>2
  <2> QED
    BY <2>1, <2>2 DEF VectorSource
<1>4. CompareSource \subseteq 0 .. 511
  BY <1>3 DEF CompareSource
<1>5. Offset \subseteq 0 .. 255
  BY DEF Offset, ScalarRegister, Inline
<1> QED
  BY <1>1, <1>2, <1>3, <1>4, <1>5 DEF Vgpr

\* What the opcodes of each format fit into.
LEMMA OpcodeCodes ==
  /\ SOP1Op \subseteq 0 .. 255 /\ SOP2Op \subseteq 0 .. 44 /\ SOPCOp \subseteq 0 .. 16 /\ SOPPOp \subseteq 0 .. 26
  /\ SMRDOp \subseteq 0 .. 31 /\ VOP1Op \subseteq 0 .. 255 /\ VOP2Op \subseteq 0 .. 49
  /\ VOP3Op \subseteq 0 .. 511 /\ MTBUFOp \subseteq 0 .. 7 /\ MUBUFOp \subseteq 0 .. 127
  /\ 18 \in SOPKOp /\ VOPCOp \subseteq 0 .. 255 /\ 20 \in VOPCOp
<1>1. SOP1Op \subseteq 0 .. 255 /\ SOP2Op \subseteq 0 .. 44 /\ SOPCOp \subseteq 0 .. 16 /\ SOPPOp \subseteq 0 .. 26
  BY DEF SOP1Op, SOP2Op, SOPCOp, SOPPOp
<1>2. SMRDOp \subseteq 0 .. 31 /\ VOP1Op \subseteq 0 .. 255 /\ VOP2Op \subseteq 0 .. 49
  BY DEF SMRDOp, VOP1Op, VOP2Op
<1>3. VOP3Op \subseteq 0 .. 511
  BY DEF VOP3Op
<1>4. MTBUFOp \subseteq 0 .. 7
  BY DEF MTBUFOp
<1>5. MUBUFOp \subseteq 0 .. 127
  BY DEF MUBUFOp
<1>6. 18 \in SOPKOp /\ VOPCOp \subseteq 0 .. 255 /\ 20 \in VOPCOp
  BY DEF SOPKOp, VOPCOp
<1> QED
  BY <1>1, <1>2, <1>3, <1>4, <1>5, <1>6

\* The numbers of so many bits.
LEMMA Bits1 ==
  ASSUME NEW x \in 0 .. 1
  PROVE  Fits(x, 1)
  BY SMT DEF Fits

\* Two bits.
LEMMA Bits2 ==
  ASSUME NEW x \in 0 .. 3
  PROVE  Fits(x, 2)
  BY SMT DEF Fits

\* Three bits.
LEMMA Bits3 ==
  ASSUME NEW x \in 0 .. 7
  PROVE  Fits(x, 3)
  BY SMT DEF Fits

\* Four bits.
LEMMA Bits4 ==
  ASSUME NEW x \in 0 .. 15
  PROVE  Fits(x, 4)
  BY SMT DEF Fits

\* Five bits.
LEMMA Bits5 ==
  ASSUME NEW x \in 0 .. 31
  PROVE  Fits(x, 5)
  BY SMT DEF Fits

\* Six bits.
LEMMA Bits6 ==
  ASSUME NEW x \in 0 .. 63
  PROVE  Fits(x, 6)
  BY SMT DEF Fits

\* Seven bits.
LEMMA Bits7 ==
  ASSUME NEW x \in 0 .. 127
  PROVE  Fits(x, 7)
  BY SMT DEF Fits

\* Eight bits.
LEMMA Bits8 ==
  ASSUME NEW x \in 0 .. 255
  PROVE  Fits(x, 8)
  BY SMT DEF Fits

\* Nine bits.
LEMMA Bits9 ==
  ASSUME NEW x \in 0 .. 511
  PROVE  Fits(x, 9)
  BY SMT DEF Fits

\* Twelve bits.
LEMMA Bits12 ==
  ASSUME NEW x \in ByteOffset
  PROVE  Fits(x, 12)
  BY SMT DEF Fits, ByteOffset

\* Sixteen bits.
LEMMA Bits16 ==
  ASSUME NEW x \in WorkItems
  PROVE  Fits(x, 16)
  BY SMT DEF WorkItems, Fits

\* Nothing is or-ed by a zero.
LEMMA NoBits ==
  ASSUME NEW n \in 0 .. 31
  PROVE  Shl(0, n) = {}
<1>1. Fits(0, 0)
  BY DEF Fits
<1>2. Shl(0, n) \subseteq n .. n + 0 - 1
  BY <1>1, Placed
<1> QED
  BY <1>2

\* The code writes some encodings with their zeros.
LEMMA SameBits ==
  ASSUME NEW n \in 0 .. 31, NEW m \in 0 .. 31, NEW x, NEW y, NEW c, NEW d,
         Fits(x, c), Fits(y, d), n + c <= 32, m + d <= 32, 2 ^ n * x = 2 ^ m * y
  PROVE  Shl(x, n) = Shl(y, m)
<1>1. Shl(x, n) \in SUBSET Bit /\ Number(Shl(x, n)) = 2 ^ n * x
  BY ShlNumber DEF Fits
<1>2. Shl(y, m) \in SUBSET Bit /\ Number(Shl(y, m)) = 2 ^ m * y
  BY ShlNumber DEF Fits
<1> QED
  BY <1>1, <1>2, NumberTells

\* The constants of code_helper.h are the encodings of sid.h.
LEMMA EncodingBits ==
  /\ Shl(1, 31) = Shl(2, 30)
  /\ Shl(3, 30) = Shl(\h18, 27)
  /\ Shl(\hD0, 24) = Shl(\h34, 26)
  /\ Shl(\hE8, 24) = Shl(\h3A, 26)
  /\ Shl(\hE0, 24) = Shl(\h38, 26)
<1>1. Shl(1, 31) = Shl(2, 30)
  <2>1. Fits(1, 1) /\ Fits(2, 2) /\ 2 ^ 31 * 1 = 2 ^ 30 * 2
    BY SMT, Bits1, Bits2
  <2> QED
    BY SMT, <2>1, SameBits
<1>2. Shl(3, 30) = Shl(\h18, 27)
  <2>1. Fits(3, 2) /\ Fits(\h18, 5) /\ 2 ^ 30 * 3 = 2 ^ 27 * \h18
    BY SMT, Bits2, Bits5
  <2> QED
    BY SMT, <2>1, SameBits
<1>3. Shl(\hD0, 24) = Shl(\h34, 26)
  <2>1. Fits(\hD0, 8) /\ Fits(\h34, 6) /\ 2 ^ 24 * \hD0 = 2 ^ 26 * \h34
    BY SMT, Bits6, Bits8
  <2> QED
    BY SMT, <2>1, SameBits
<1>4. Shl(\hE8, 24) = Shl(\h3A, 26)
  <2>1. Fits(\hE8, 8) /\ Fits(\h3A, 6) /\ 2 ^ 24 * \hE8 = 2 ^ 26 * \h3A
    BY SMT, Bits6, Bits8
  <2> QED
    BY SMT, <2>1, SameBits
<1>5. Shl(\hE0, 24) = Shl(\h38, 26)
  <2>1. Fits(\hE0, 8) /\ Fits(\h38, 6) /\ 2 ^ 24 * \hE0 = 2 ^ 26 * \h38
    BY SMT, Bits6, Bits8
  <2> QED
    BY SMT, <2>1, SameBits
<1> QED
  BY <1>1, <1>2, <1>3, <1>4, <1>5

\* The opcodes that reach into the nine highest bits.
LEMMA OpcodeByTop ==
  ASSUME NEW w \in SUBSET Bit
  PROVE  /\ G(At(1, 23, 7), <<w>>) = Top(w) % 128
         /\ G(At(1, 23, 5), <<w>>) = Top(w) % 32
         /\ G(At(1, 25, 6), <<w>>) = (Top(w) \div 4) % 64
<1> DEFINE N == Number(w)
<1>1. N \in 0 .. 2 ^ 32 - 1
  BY NumberRange
<1>2. /\ G(At(1, 23, 7), <<w>>) = (N \div 2 ^ 23) % 2 ^ 7
      /\ G(At(1, 23, 5), <<w>>) = (N \div 2 ^ 23) % 2 ^ 5
      /\ G(At(1, 25, 6), <<w>>) = (N \div 2 ^ 25) % 2 ^ 6
  BY SMT, FieldByNumber
<1>3. /\ (N \div 2 ^ 23) % 2 ^ 7 = (N \div 2 ^ 23) % 128
      /\ (N \div 2 ^ 23) % 2 ^ 5 = (N \div 2 ^ 23) % 32
  BY SMT
<1>4. (N \div 2 ^ 25) % 2 ^ 6 = ((N \div 2 ^ 23) \div 4) % 64
  <2> HIDE DEF N
  <2> QED
    BY SMT, <1>1
<1> QED
  BY <1>2, <1>3, <1>4 DEF Top

-----------------------------------------------------------------------------
(* The encoders of code_helper.h.                                          *)

\* SOPP: sopp, for every immediate of 16 bits.
LEMMA SoppEncodes ==
  ASSUME NEW op \in SOPPOp, NEW imm \in SUBSET (0 .. 15), NEW n \in Immediate, Number(imm) = n
  PROVE  Encodes(sopp(op, imm), "SOPP", op, [SIMM16 |-> n])
<1> DEFINE A == Shl(\h17F, 23)
           B == Shl(op, 16)
           w == A \cup B \cup imm
           operand == [SIMM16 |-> n]
<1>1. Fits(\h17F, 9) /\ Fits(op, 7)
  BY DEF Fits, SOPPOp
<1>2. A \subseteq 23 .. 31 /\ A \in SUBSET Bit
  BY <1>1, Placed
<1>3. B \subseteq 16 .. 22 /\ B \in SUBSET Bit
  BY <1>1, Placed
<1>4. <<w>>[1] = A \cup B \cup imm /\ sopp(op, imm) = <<w>>
  BY DEF sopp
<1> HIDE DEF A, B
<1>5. w \in SUBSET Bit
  BY <1>2, <1>3 DEF Bit
<1> HIDE DEF w
<1>6. G(At(1, 23, 9), <<w>>) = \h17F
  <2>1. \A b \in 23 .. 23 + 9 - 1 : b \in <<w>>[1] <=> b \in Shl(\h17F, 23)
    BY <1>2, <1>3, <1>4 DEF A
  <2> QED
    BY <1>1, <2>1, FieldIs
<1>7. G(At(1, 16, 7), <<w>>) = op
  <2>1. \A b \in 16 .. 16 + 7 - 1 : b \in <<w>>[1] <=> b \in Shl(op, 16)
    BY <1>2, <1>3, <1>4 DEF B
  <2> QED
    BY <1>1, <2>1, FieldIs
<1>8. G(At(1, 0, 16), <<w>>) = n
  <2>1. \A b \in 0 .. 0 + 16 - 1 : b \in <<w>>[1] <=> b \in imm
    BY <1>2, <1>3, <1>4
  <2>2. imm = {b - 0 : b \in <<w>>[1] \cap 0 .. 0 + 16 - 1}
    BY <2>1
  <2> QED
    BY <2>2 DEF G, At
<1>9. Longest(Formats, Matching(Formats, w)) = {"SOPP"}
  <2>1. Top(w) = 383
    BY <1>5, <1>6, Encodings, EncodingByTop
  <2> QED
    BY <1>5, <2>1, Chosen
<1>10. operand = [m \in DOMAIN SOPP.fields |-> operand[m]] /\ operand["SIMM16"] = n
  BY SoppFields
<1> HIDE DEF operand
<1>11. <<w>> \in Seq(SUBSET Bit) /\ Len(<<w>>) = 1 /\ <<w>>[1] = w
  BY <1>5
<1>12. \A m \in DOMAIN SOPP.fields : Reads(<<w>>, SOPP.fields[m], operand[m])
  BY <1>8, <1>10, <1>11, SoppFields DEF At, Reads
<1>13. Formats["SOPP"] = SOPP /\ "SOPP" \in DOMAIN Formats
  BY FormatNames
<1>14. Len(<<w>>) = SOPP.length /\ G(SOPP.op, <<w>>) = op /\ op \in SOPP.ops
  BY <1>7, <1>11, SoppFields
<1>15. Encodes(<<w>>, "SOPP", op, operand)
  BY <1>9, <1>10, <1>11, <1>12, <1>13, <1>14, FieldsEncode
<1> QED
  BY <1>4, <1>15 DEF operand

\* SOP1: s_mov_b32 and its like.
LEMMA Sop1Encodes ==
  ASSUME NEW op \in SOP1Op, NEW sdst \in ScalarDest, NEW ssrc0 \in ScalarSource
  PROVE  Encodes(scalarOne(op, sdst, ssrc0), "SOP1", op, [SSRC0 |-> ssrc0, SDST |-> sdst])
<1> DEFINE A == Shl(\h17D, 23)
           B == Shl(op, 8)
           C == Shl(sdst, 16)
           D == Shl(ssrc0, 0)
           w == A \cup B \cup C \cup D
           operand == [SSRC0 |-> ssrc0, SDST |-> sdst]
<1>1. Fits(\h17D, 9) /\ Fits(op, 8) /\ Fits(sdst, 7) /\ Fits(ssrc0, 8)
  <2>1. \h17D \in 0 .. 511 /\ op \in 0 .. 255 /\ sdst \in 0 .. 127 /\ ssrc0 \in 0 .. 255
    BY OperandCodes, OpcodeCodes
  <2> QED
    BY <2>1, Bits7, Bits8, Bits9
<1>2. A \subseteq 23 .. 31 /\ A \in SUBSET Bit
  BY <1>1, Placed
<1>3. B \subseteq 8 .. 15 /\ B \in SUBSET Bit
  BY <1>1, Placed
<1>4. C \subseteq 16 .. 22 /\ C \in SUBSET Bit
  BY <1>1, Placed
<1>5. D \subseteq 0 .. 7 /\ D \in SUBSET Bit
  BY <1>1, Placed
<1>6. <<w>>[1] = A \cup B \cup C \cup D /\ scalarOne(op, sdst, ssrc0) = <<w>>
  BY DEF scalarOne
<1> HIDE DEF A, B, C, D
<1>7. w \in SUBSET Bit
  BY <1>2, <1>3, <1>4, <1>5
<1> HIDE DEF w
<1>8. G(At(1, 23, 9), <<w>>) = \h17D
  <2>1. \A b \in 23 .. 23 + 9 - 1 : b \in <<w>>[1] <=> b \in Shl(\h17D, 23)
    BY <1>2, <1>3, <1>4, <1>5, <1>6 DEF A
  <2> QED
    BY <1>1, <2>1, FieldIs
<1>9. G(At(1, 8, 8), <<w>>) = op
  <2>1. \A b \in 8 .. 8 + 8 - 1 : b \in <<w>>[1] <=> b \in Shl(op, 8)
    BY <1>2, <1>3, <1>4, <1>5, <1>6 DEF B
  <2> QED
    BY <1>1, <2>1, FieldIs
<1>10. G(At(1, 16, 7), <<w>>) = sdst
  <2>1. \A b \in 16 .. 16 + 7 - 1 : b \in <<w>>[1] <=> b \in Shl(sdst, 16)
    BY <1>2, <1>3, <1>4, <1>5, <1>6 DEF C
  <2> QED
    BY <1>1, <2>1, FieldIs
<1>11. G(At(1, 0, 8), <<w>>) = ssrc0
  <2>1. \A b \in 0 .. 0 + 8 - 1 : b \in <<w>>[1] <=> b \in Shl(ssrc0, 0)
    BY <1>2, <1>3, <1>4, <1>5, <1>6 DEF D
  <2> QED
    BY <1>1, <2>1, FieldIs
<1>12. Longest(Formats, Matching(Formats, w)) = {"SOP1"}
  BY <1>7, <1>8, Encodings, EncodingByTop, Chosen
<1>13. operand = [m \in DOMAIN SOP1.fields |-> operand[m]] /\ operand["SSRC0"] = ssrc0 /\ operand["SDST"] = sdst
  BY Sop1Fields
<1> HIDE DEF operand
<1>14. <<w>> \in Seq(SUBSET Bit) /\ Len(<<w>>) = 1 /\ <<w>>[1] = w
  BY <1>7
<1>15. \A m \in DOMAIN SOP1.fields : Reads(<<w>>, SOP1.fields[m], operand[m])
  BY <1>11, <1>10, <1>13, <1>14, Sop1Fields DEF At, Reads
<1>16. Len(<<w>>) = SOP1.length /\ G(SOP1.op, <<w>>) = op /\ op \in SOP1.ops
  BY <1>9, <1>14, Sop1Fields, OpcodeCodes
<1>17. Encodes(<<w>>, "SOP1", op, operand)
  BY <1>12, <1>13, <1>14, <1>15, <1>16, FormatNames, FieldsEncode
<1> QED
  BY <1>6, <1>17 DEF operand

\* SOPC: s_cmp_lt_i32 and s_cmp_gt_i32.
LEMMA SopcEncodes ==
  ASSUME NEW op \in SOPCOp, NEW ssrc1 \in ScalarSource, NEW ssrc0 \in ScalarSource
  PROVE  Encodes(sopc(op, ssrc1, ssrc0), "SOPC", op, [SSRC0 |-> ssrc0, SSRC1 |-> ssrc1])
<1> DEFINE A == Shl(\h17E, 23)
           B == Shl(ssrc0, 0)
           C == Shl(ssrc1, 8)
           D == Shl(op, 16)
           w == A \cup B \cup C \cup D
           operand == [SSRC0 |-> ssrc0, SSRC1 |-> ssrc1]
<1>1. Fits(\h17E, 9) /\ Fits(ssrc0, 8) /\ Fits(ssrc1, 8) /\ Fits(op, 7)
  <2>1. \h17E \in 0 .. 511 /\ ssrc0 \in 0 .. 255 /\ ssrc1 \in 0 .. 255 /\ op \in 0 .. 127
    BY OperandCodes, OpcodeCodes
  <2> QED
    BY <2>1, Bits7, Bits8, Bits9
<1>2. A \subseteq 23 .. 31 /\ A \in SUBSET Bit
  BY <1>1, Placed
<1>3. B \subseteq 0 .. 7 /\ B \in SUBSET Bit
  BY <1>1, Placed
<1>4. C \subseteq 8 .. 15 /\ C \in SUBSET Bit
  BY <1>1, Placed
<1>5. D \subseteq 16 .. 22 /\ D \in SUBSET Bit
  BY <1>1, Placed
<1>6. <<w>>[1] = A \cup B \cup C \cup D /\ sopc(op, ssrc1, ssrc0) = <<w>>
  BY DEF sopc
<1> HIDE DEF A, B, C, D
<1>7. w \in SUBSET Bit
  BY <1>2, <1>3, <1>4, <1>5
<1> HIDE DEF w
<1>8. G(At(1, 23, 9), <<w>>) = \h17E
  <2>1. \A b \in 23 .. 23 + 9 - 1 : b \in <<w>>[1] <=> b \in Shl(\h17E, 23)
    BY <1>2, <1>3, <1>4, <1>5, <1>6 DEF A
  <2> QED
    BY <1>1, <2>1, FieldIs
<1>9. G(At(1, 0, 8), <<w>>) = ssrc0
  <2>1. \A b \in 0 .. 0 + 8 - 1 : b \in <<w>>[1] <=> b \in Shl(ssrc0, 0)
    BY <1>2, <1>3, <1>4, <1>5, <1>6 DEF B
  <2> QED
    BY <1>1, <2>1, FieldIs
<1>10. G(At(1, 8, 8), <<w>>) = ssrc1
  <2>1. \A b \in 8 .. 8 + 8 - 1 : b \in <<w>>[1] <=> b \in Shl(ssrc1, 8)
    BY <1>2, <1>3, <1>4, <1>5, <1>6 DEF C
  <2> QED
    BY <1>1, <2>1, FieldIs
<1>11. G(At(1, 16, 7), <<w>>) = op
  <2>1. \A b \in 16 .. 16 + 7 - 1 : b \in <<w>>[1] <=> b \in Shl(op, 16)
    BY <1>2, <1>3, <1>4, <1>5, <1>6 DEF D
  <2> QED
    BY <1>1, <2>1, FieldIs
<1>12. Longest(Formats, Matching(Formats, w)) = {"SOPC"}
  BY <1>7, <1>8, Encodings, EncodingByTop, Chosen
<1>13. operand = [m \in DOMAIN SOPC.fields |-> operand[m]] /\ operand["SSRC0"] = ssrc0 /\ operand["SSRC1"] = ssrc1
  BY SopcFields
<1> HIDE DEF operand
<1>14. <<w>> \in Seq(SUBSET Bit) /\ Len(<<w>>) = 1 /\ <<w>>[1] = w
  BY <1>7
<1>15. \A m \in DOMAIN SOPC.fields : Reads(<<w>>, SOPC.fields[m], operand[m])
  BY <1>9, <1>10, <1>13, <1>14, SopcFields DEF At, Reads
<1>16. Len(<<w>>) = SOPC.length /\ G(SOPC.op, <<w>>) = op /\ op \in SOPC.ops
  BY <1>11, <1>14, SopcFields, OpcodeCodes
<1>17. Encodes(<<w>>, "SOPC", op, operand)
  BY <1>12, <1>13, <1>14, <1>15, <1>16, FormatNames, FieldsEncode
<1> QED
  BY <1>6, <1>17 DEF operand

\* VOP1: v_mov_b32 and its like.
LEMMA Vop1Encodes ==
  ASSUME NEW op \in VOP1Op, NEW vdst \in Vgpr, NEW src0 \in VectorSource
  PROVE  Encodes(vop1(op, vdst, src0), "VOP1", op, [SRC0 |-> src0, VDST |-> vdst])
<1> DEFINE A == Shl(\h3F, 25)
           B == Shl(src0, 0)
           C == Shl(op, 9)
           D == Shl(vdst, 17)
           w == A \cup B \cup C \cup D
           operand == [SRC0 |-> src0, VDST |-> vdst]
<1>1. Fits(\h3F, 7) /\ Fits(src0, 9) /\ Fits(op, 8) /\ Fits(vdst, 8)
  <2>1. \h3F \in 0 .. 127 /\ src0 \in 0 .. 511 /\ op \in 0 .. 255 /\ vdst \in 0 .. 255
    BY OperandCodes, OpcodeCodes
  <2> QED
    BY <2>1, Bits7, Bits8, Bits9
<1>2. A \subseteq 25 .. 31 /\ A \in SUBSET Bit
  BY <1>1, Placed
<1>3. B \subseteq 0 .. 8 /\ B \in SUBSET Bit
  BY <1>1, Placed
<1>4. C \subseteq 9 .. 16 /\ C \in SUBSET Bit
  BY <1>1, Placed
<1>5. D \subseteq 17 .. 24 /\ D \in SUBSET Bit
  BY <1>1, Placed
<1>6. <<w>>[1] = A \cup B \cup C \cup D /\ vop1(op, vdst, src0) = <<w>>
  BY DEF vop1
<1> HIDE DEF A, B, C, D
<1>7. w \in SUBSET Bit
  BY <1>2, <1>3, <1>4, <1>5
<1> HIDE DEF w
<1>8. G(At(1, 25, 7), <<w>>) = \h3F
  <2>1. \A b \in 25 .. 25 + 7 - 1 : b \in <<w>>[1] <=> b \in Shl(\h3F, 25)
    BY <1>2, <1>3, <1>4, <1>5, <1>6 DEF A
  <2> QED
    BY <1>1, <2>1, FieldIs
<1>9. G(At(1, 0, 9), <<w>>) = src0
  <2>1. \A b \in 0 .. 0 + 9 - 1 : b \in <<w>>[1] <=> b \in Shl(src0, 0)
    BY <1>2, <1>3, <1>4, <1>5, <1>6 DEF B
  <2> QED
    BY <1>1, <2>1, FieldIs
<1>10. G(At(1, 9, 8), <<w>>) = op
  <2>1. \A b \in 9 .. 9 + 8 - 1 : b \in <<w>>[1] <=> b \in Shl(op, 9)
    BY <1>2, <1>3, <1>4, <1>5, <1>6 DEF C
  <2> QED
    BY <1>1, <2>1, FieldIs
<1>11. G(At(1, 17, 8), <<w>>) = vdst
  <2>1. \A b \in 17 .. 17 + 8 - 1 : b \in <<w>>[1] <=> b \in Shl(vdst, 17)
    BY <1>2, <1>3, <1>4, <1>5, <1>6 DEF D
  <2> QED
    BY <1>1, <2>1, FieldIs
<1>12. Longest(Formats, Matching(Formats, w)) = {"VOP1"}
  BY <1>7, <1>8, Encodings, EncodingByTop, Chosen
<1>13. operand = [m \in DOMAIN VOP1.fields |-> operand[m]] /\ operand["SRC0"] = src0 /\ operand["VDST"] = vdst
  BY Vop1Fields
<1> HIDE DEF operand
<1>14. <<w>> \in Seq(SUBSET Bit) /\ Len(<<w>>) = 1 /\ <<w>>[1] = w
  BY <1>7
<1>15. \A m \in DOMAIN VOP1.fields : Reads(<<w>>, VOP1.fields[m], operand[m])
  BY <1>9, <1>11, <1>13, <1>14, Vop1Fields DEF At, Reads, Vgpr
<1>16. Len(<<w>>) = VOP1.length /\ G(VOP1.op, <<w>>) = op /\ op \in VOP1.ops
  BY <1>10, <1>14, Vop1Fields, OpcodeCodes
<1>17. Encodes(<<w>>, "VOP1", op, operand)
  BY <1>12, <1>13, <1>14, <1>15, <1>16, FormatNames, FieldsEncode
<1> QED
  BY <1>6, <1>17 DEF operand

\* v_cmpx_gt_f32, the compare that places vsrc1 as sid.h does.
LEMMA CmpxGtEncodes ==
  ASSUME NEW vsrc1 \in Vgpr, NEW src0 \in CompareSource
  PROVE  Encodes(v_cmpx_gt_f32(vsrc1, src0), "VOPC", 20, [SRC0 |-> src0, VSRC1 |-> vsrc1])
<1> DEFINE A == Shl(\h3E, 25)
           B == Shl(src0, 0)
           C == Shl(vsrc1, 9)
           D == Shl(20, 17)
           w == A \cup B \cup C \cup D
           operand == [SRC0 |-> src0, VSRC1 |-> vsrc1]
<1>1. Fits(\h3E, 7) /\ Fits(src0, 9) /\ Fits(vsrc1, 8) /\ Fits(20, 8)
  <2>1. \h3E \in 0 .. 127 /\ src0 \in 0 .. 511 /\ vsrc1 \in 0 .. 255 /\ 20 \in 0 .. 255
    BY OperandCodes, OpcodeCodes
  <2> QED
    BY <2>1, Bits7, Bits8, Bits9
<1>2. A \subseteq 25 .. 31 /\ A \in SUBSET Bit
  BY <1>1, Placed
<1>3. B \subseteq 0 .. 8 /\ B \in SUBSET Bit
  BY <1>1, Placed
<1>4. C \subseteq 9 .. 16 /\ C \in SUBSET Bit
  BY <1>1, Placed
<1>5. D \subseteq 17 .. 24 /\ D \in SUBSET Bit
  BY <1>1, Placed
<1>6. <<w>>[1] = A \cup B \cup C \cup D /\ v_cmpx_gt_f32(vsrc1, src0) = <<w>>
  BY DEF v_cmpx_gt_f32
<1> HIDE DEF A, B, C, D
<1>7. w \in SUBSET Bit
  BY <1>2, <1>3, <1>4, <1>5
<1> HIDE DEF w
<1>8. G(At(1, 25, 7), <<w>>) = \h3E
  <2>1. \A b \in 25 .. 25 + 7 - 1 : b \in <<w>>[1] <=> b \in Shl(\h3E, 25)
    BY <1>2, <1>3, <1>4, <1>5, <1>6 DEF A
  <2> QED
    BY <1>1, <2>1, FieldIs
<1>9. G(At(1, 0, 9), <<w>>) = src0
  <2>1. \A b \in 0 .. 0 + 9 - 1 : b \in <<w>>[1] <=> b \in Shl(src0, 0)
    BY <1>2, <1>3, <1>4, <1>5, <1>6 DEF B
  <2> QED
    BY <1>1, <2>1, FieldIs
<1>10. G(At(1, 9, 8), <<w>>) = vsrc1
  <2>1. \A b \in 9 .. 9 + 8 - 1 : b \in <<w>>[1] <=> b \in Shl(vsrc1, 9)
    BY <1>2, <1>3, <1>4, <1>5, <1>6 DEF C
  <2> QED
    BY <1>1, <2>1, FieldIs
<1>11. G(At(1, 17, 8), <<w>>) = 20
  <2>1. \A b \in 17 .. 17 + 8 - 1 : b \in <<w>>[1] <=> b \in Shl(20, 17)
    BY <1>2, <1>3, <1>4, <1>5, <1>6 DEF D
  <2> QED
    BY <1>1, <2>1, FieldIs
<1>12. Longest(Formats, Matching(Formats, w)) = {"VOPC"}
  BY <1>7, <1>8, Encodings, EncodingByTop, Chosen
<1>13. operand = [m \in DOMAIN VOPC.fields |-> operand[m]] /\ operand["SRC0"] = src0 /\ operand["VSRC1"] = vsrc1
  BY VopcFields
<1> HIDE DEF operand
<1>14. <<w>> \in Seq(SUBSET Bit) /\ Len(<<w>>) = 1 /\ <<w>>[1] = w
  BY <1>7
<1>15. \A m \in DOMAIN VOPC.fields : Reads(<<w>>, VOPC.fields[m], operand[m])
  BY <1>9, <1>10, <1>13, <1>14, VopcFields DEF At, Reads, Vgpr
<1>16. Len(<<w>>) = VOPC.length /\ G(VOPC.op, <<w>>) = 20 /\ 20 \in VOPC.ops
  BY <1>11, <1>14, VopcFields, OpcodeCodes
<1>17. Encodes(<<w>>, "VOPC", 20, operand)
  BY <1>12, <1>13, <1>14, <1>15, <1>16, FormatNames, FieldsEncode
<1> QED
  BY <1>6, <1>17 DEF operand

\* SOP2: s_add_i32 and its like.
LEMMA Sop2Encodes ==
  ASSUME NEW op \in SOP2Op, NEW sdst \in ScalarDest, NEW ssrc1 \in ScalarSource, NEW ssrc0 \in ScalarSource
  PROVE  Encodes(sop2(op, sdst, ssrc1, ssrc0), "SOP2", op, [SSRC0 |-> ssrc0, SSRC1 |-> ssrc1, SDST |-> sdst])
<1> DEFINE A == Shl(2, 30)
           B == Shl(op, 23)
           C == Shl(sdst, 16)
           D == Shl(ssrc1, 8)
           E == Shl(ssrc0, 0)
           w == A \cup B \cup C \cup D \cup E
           operand == [SSRC0 |-> ssrc0, SSRC1 |-> ssrc1, SDST |-> sdst]
<1>1. Fits(2, 2) /\ Fits(op, 7) /\ Fits(sdst, 7) /\ Fits(ssrc1, 8) /\ Fits(ssrc0, 8)
  <2>1. 2 \in 0 .. 3 /\ op \in 0 .. 127 /\ sdst \in 0 .. 127 /\ ssrc1 \in 0 .. 255 /\ ssrc0 \in 0 .. 255
    BY OperandCodes, OpcodeCodes
  <2> QED
    BY <2>1, Bits2, Bits7, Bits8
<1>2. A \subseteq 30 .. 31 /\ A \in SUBSET Bit
  BY <1>1, Placed
<1>3. B \subseteq 23 .. 29 /\ B \in SUBSET Bit
  BY <1>1, Placed
<1>4. C \subseteq 16 .. 22 /\ C \in SUBSET Bit
  BY <1>1, Placed
<1>5. D \subseteq 8 .. 15 /\ D \in SUBSET Bit
  BY <1>1, Placed
<1>6. E \subseteq 0 .. 7 /\ E \in SUBSET Bit
  BY <1>1, Placed
<1>7. <<w>>[1] = A \cup B \cup C \cup D \cup E /\ sop2(op, sdst, ssrc1, ssrc0) = <<w>>
  BY EncodingBits DEF sop2
<1> HIDE DEF A, B, C, D, E
<1>8. w \in SUBSET Bit
  BY <1>2, <1>3, <1>4, <1>5, <1>6
<1> HIDE DEF w
<1>9. G(At(1, 30, 2), <<w>>) = 2
  <2>1. \A b \in 30 .. 30 + 2 - 1 : b \in <<w>>[1] <=> b \in Shl(2, 30)
    BY <1>2, <1>3, <1>4, <1>5, <1>6, <1>7 DEF A
  <2> QED
    BY <1>1, <2>1, FieldIs
<1>10. G(At(1, 23, 7), <<w>>) = op
  <2>1. \A b \in 23 .. 23 + 7 - 1 : b \in <<w>>[1] <=> b \in Shl(op, 23)
    BY <1>2, <1>3, <1>4, <1>5, <1>6, <1>7 DEF B
  <2> QED
    BY <1>1, <2>1, FieldIs
<1>11. G(At(1, 16, 7), <<w>>) = sdst
  <2>1. \A b \in 16 .. 16 + 7 - 1 : b \in <<w>>[1] <=> b \in Shl(sdst, 16)
    BY <1>2, <1>3, <1>4, <1>5, <1>6, <1>7 DEF C
  <2> QED
    BY <1>1, <2>1, FieldIs
<1>12. G(At(1, 8, 8), <<w>>) = ssrc1
  <2>1. \A b \in 8 .. 8 + 8 - 1 : b \in <<w>>[1] <=> b \in Shl(ssrc1, 8)
    BY <1>2, <1>3, <1>4, <1>5, <1>6, <1>7 DEF D
  <2> QED
    BY <1>1, <2>1, FieldIs
<1>13. G(At(1, 0, 8), <<w>>) = ssrc0
  <2>1. \A b \in 0 .. 0 + 8 - 1 : b \in <<w>>[1] <=> b \in Shl(ssrc0, 0)
    BY <1>2, <1>3, <1>4, <1>5, <1>6, <1>7 DEF E
  <2> QED
    BY <1>1, <2>1, FieldIs
<1>14. Longest(Formats, Matching(Formats, w)) = {"SOP2"}
  <2>1. Top(w) \div 128 = 2
    BY <1>8, <1>9, Encodings, EncodingByTop
  <2>2. Top(w) % 128 = op
    BY <1>8, <1>10, OpcodeByTop
  <2>3. Top(w) \in 256 .. 300
    BY <1>8, <2>1, <2>2, TopRange, OpcodeCodes
  <2> QED
    BY <1>8, <2>3, Chosen
<1>15. operand = [m \in DOMAIN SOP2.fields |-> operand[m]] /\ operand["SSRC0"] = ssrc0 /\
       operand["SSRC1"] = ssrc1 /\ operand["SDST"] = sdst
  BY Sop2Fields
<1> HIDE DEF operand
<1>16. <<w>> \in Seq(SUBSET Bit) /\ Len(<<w>>) = 1 /\ <<w>>[1] = w
  BY <1>8
<1>17. \A m \in DOMAIN SOP2.fields : Reads(<<w>>, SOP2.fields[m], operand[m])
  BY <1>13, <1>12, <1>11, <1>15, <1>16, Sop2Fields DEF At, Reads
<1>18. Len(<<w>>) = SOP2.length /\ G(SOP2.op, <<w>>) = op /\ op \in SOP2.ops
  BY <1>10, <1>16, Sop2Fields, OpcodeCodes
<1>19. Encodes(<<w>>, "SOP2", op, operand)
  BY <1>14, <1>15, <1>16, <1>17, <1>18, FormatNames, FieldsEncode
<1> QED
  BY <1>7, <1>19 DEF operand

\* SMRD: s_load_dword and s_memtime.
LEMMA SmrdEncodes ==
  ASSUME NEW op \in SMRDOp, NEW sdst \in ScalarDest, NEW sbase \in 0 .. 63, NEW imm \in 0 .. 1,
         NEW offset \in 0 .. 255
  PROVE  Encodes(smrd(op, sdst, sbase, imm, offset), "SMRD", op, [OFFSET |-> offset, IMM |-> imm, SBASE |-> sbase,
    SDST |-> sdst])
<1> DEFINE A == Shl(\h18, 27)
           B == Shl(op, 22)
           C == Shl(sdst, 15)
           D == Shl(sbase, 9)
           E == Shl(imm, 8)
           F == Shl(offset, 0)
           w == A \cup B \cup C \cup D \cup E \cup F
           operand == [OFFSET |-> offset, IMM |-> imm, SBASE |-> sbase, SDST |-> sdst]
<1>1. Fits(\h18, 5) /\ Fits(op, 5) /\ Fits(sdst, 7) /\ Fits(sbase, 6) /\ Fits(imm, 1) /\ Fits(offset, 8)
  <2>1. \h18 \in 0 .. 31 /\ op \in 0 .. 31 /\ sdst \in 0 .. 127 /\ sbase \in 0 .. 63 /\ imm \in 0 .. 1 /\
        offset \in 0 .. 255
    BY OperandCodes, OpcodeCodes
  <2> QED
    BY <2>1, Bits1, Bits5, Bits6, Bits7, Bits8
<1>2. A \subseteq 27 .. 31 /\ A \in SUBSET Bit
  BY <1>1, Placed
<1>3. B \subseteq 22 .. 26 /\ B \in SUBSET Bit
  BY <1>1, Placed
<1>4. C \subseteq 15 .. 21 /\ C \in SUBSET Bit
  BY <1>1, Placed
<1>5. D \subseteq 9 .. 14 /\ D \in SUBSET Bit
  BY <1>1, Placed
<1>6. E \subseteq 8 .. 8 /\ E \in SUBSET Bit
  BY <1>1, Placed
<1>7. F \subseteq 0 .. 7 /\ F \in SUBSET Bit
  BY <1>1, Placed
<1>8. <<w>>[1] = A \cup B \cup C \cup D \cup E \cup F /\ smrd(op, sdst, sbase, imm, offset) = <<w>>
  BY EncodingBits DEF smrd
<1> HIDE DEF A, B, C, D, E, F
<1>9. w \in SUBSET Bit
  BY <1>2, <1>3, <1>4, <1>5, <1>6, <1>7
<1> HIDE DEF w
<1>10. G(At(1, 27, 5), <<w>>) = \h18
  <2>1. \A b \in 27 .. 27 + 5 - 1 : b \in <<w>>[1] <=> b \in Shl(\h18, 27)
    BY <1>2, <1>3, <1>4, <1>5, <1>6, <1>7, <1>8 DEF A
  <2> QED
    BY <1>1, <2>1, FieldIs
<1>11. G(At(1, 22, 5), <<w>>) = op
  <2>1. \A b \in 22 .. 22 + 5 - 1 : b \in <<w>>[1] <=> b \in Shl(op, 22)
    BY <1>2, <1>3, <1>4, <1>5, <1>6, <1>7, <1>8 DEF B
  <2> QED
    BY <1>1, <2>1, FieldIs
<1>12. G(At(1, 15, 7), <<w>>) = sdst
  <2>1. \A b \in 15 .. 15 + 7 - 1 : b \in <<w>>[1] <=> b \in Shl(sdst, 15)
    BY <1>2, <1>3, <1>4, <1>5, <1>6, <1>7, <1>8 DEF C
  <2> QED
    BY <1>1, <2>1, FieldIs
<1>13. G(At(1, 9, 6), <<w>>) = sbase
  <2>1. \A b \in 9 .. 9 + 6 - 1 : b \in <<w>>[1] <=> b \in Shl(sbase, 9)
    BY <1>2, <1>3, <1>4, <1>5, <1>6, <1>7, <1>8 DEF D
  <2> QED
    BY <1>1, <2>1, FieldIs
<1>14. G(At(1, 8, 1), <<w>>) = imm
  <2>1. \A b \in 8 .. 8 + 1 - 1 : b \in <<w>>[1] <=> b \in Shl(imm, 8)
    BY <1>2, <1>3, <1>4, <1>5, <1>6, <1>7, <1>8 DEF E
  <2> QED
    BY <1>1, <2>1, FieldIs
<1>15. G(At(1, 0, 8), <<w>>) = offset
  <2>1. \A b \in 0 .. 0 + 8 - 1 : b \in <<w>>[1] <=> b \in Shl(offset, 0)
    BY <1>2, <1>3, <1>4, <1>5, <1>6, <1>7, <1>8 DEF F
  <2> QED
    BY <1>1, <2>1, FieldIs
<1>16. Longest(Formats, Matching(Formats, w)) = {"SMRD"}
  BY <1>9, <1>10, Encodings, EncodingByTop, Chosen
<1>17. operand = [m \in DOMAIN SMRD.fields |-> operand[m]] /\ operand["OFFSET"] = offset /\ operand["IMM"] = imm /\
       operand["SBASE"] = sbase /\ operand["SDST"] = sdst
  BY SmrdFields
<1> HIDE DEF operand
<1>18. <<w>> \in Seq(SUBSET Bit) /\ Len(<<w>>) = 1 /\ <<w>>[1] = w
  BY <1>9
<1>19. \A m \in DOMAIN SMRD.fields : Reads(<<w>>, SMRD.fields[m], operand[m])
  BY <1>15, <1>14, <1>13, <1>12, <1>17, <1>18, SmrdFields DEF At, Reads
<1>20. Len(<<w>>) = SMRD.length /\ G(SMRD.op, <<w>>) = op /\ op \in SMRD.ops
  BY <1>11, <1>18, SmrdFields, OpcodeCodes
<1>21. Encodes(<<w>>, "SMRD", op, operand)
  BY <1>16, <1>17, <1>18, <1>19, <1>20, FormatNames, FieldsEncode
<1> QED
  BY <1>8, <1>21 DEF operand

\* VOP2: v_add_f32 and its like.
LEMMA Vop2Encodes ==
  ASSUME NEW op \in VOP2Op, NEW vdst \in Vgpr, NEW vsrc1 \in Vgpr, NEW src0 \in VectorSource
  PROVE  Encodes(vop2(op, vdst, vsrc1, src0), "VOP2", op, [SRC0 |-> src0, VSRC1 |-> vsrc1, VDST |-> vdst])
<1> DEFINE Z == Shl(0, 31)
           A == Shl(src0, 0)
           B == Shl(vsrc1, 9)
           C == Shl(vdst, 17)
           D == Shl(op, 25)
           w == A \cup B \cup C \cup D
           operand == [SRC0 |-> src0, VSRC1 |-> vsrc1, VDST |-> vdst]
<1>1. Fits(0, 1) /\ Fits(src0, 9) /\ Fits(vsrc1, 8) /\ Fits(vdst, 8) /\ Fits(op, 6)
  <2>1. 0 \in 0 .. 1 /\ src0 \in 0 .. 511 /\ vsrc1 \in 0 .. 255 /\ vdst \in 0 .. 255 /\ op \in 0 .. 63
    BY OperandCodes, OpcodeCodes
  <2> QED
    BY <2>1, Bits1, Bits6, Bits8, Bits9
<1>2. Z \subseteq 31 .. 31 /\ Z \in SUBSET Bit
  BY <1>1, Placed
<1>3. A \subseteq 0 .. 8 /\ A \in SUBSET Bit
  BY <1>1, Placed
<1>4. B \subseteq 9 .. 16 /\ B \in SUBSET Bit
  BY <1>1, Placed
<1>5. C \subseteq 17 .. 24 /\ C \in SUBSET Bit
  BY <1>1, Placed
<1>6. D \subseteq 25 .. 30 /\ D \in SUBSET Bit
  BY <1>1, Placed
<1>7. Z = {}
  BY NoBits
<1>8. <<w>>[1] = A \cup B \cup C \cup D /\ vop2(op, vdst, vsrc1, src0) = <<w>>
  BY DEF vop2
<1> HIDE DEF Z, A, B, C, D
<1>9. w \in SUBSET Bit
  BY <1>2, <1>3, <1>4, <1>5, <1>6, <1>7
<1> HIDE DEF w
<1>10. G(At(1, 31, 1), <<w>>) = 0
  <2>1. \A b \in 31 .. 31 + 1 - 1 : b \in <<w>>[1] <=> b \in Shl(0, 31)
    BY <1>2, <1>3, <1>4, <1>5, <1>6, <1>7, <1>8 DEF Z
  <2> QED
    BY <1>1, <2>1, FieldIs
<1>11. G(At(1, 0, 9), <<w>>) = src0
  <2>1. \A b \in 0 .. 0 + 9 - 1 : b \in <<w>>[1] <=> b \in Shl(src0, 0)
    BY <1>2, <1>3, <1>4, <1>5, <1>6, <1>7, <1>8 DEF A
  <2> QED
    BY <1>1, <2>1, FieldIs
<1>12. G(At(1, 9, 8), <<w>>) = vsrc1
  <2>1. \A b \in 9 .. 9 + 8 - 1 : b \in <<w>>[1] <=> b \in Shl(vsrc1, 9)
    BY <1>2, <1>3, <1>4, <1>5, <1>6, <1>7, <1>8 DEF B
  <2> QED
    BY <1>1, <2>1, FieldIs
<1>13. G(At(1, 17, 8), <<w>>) = vdst
  <2>1. \A b \in 17 .. 17 + 8 - 1 : b \in <<w>>[1] <=> b \in Shl(vdst, 17)
    BY <1>2, <1>3, <1>4, <1>5, <1>6, <1>7, <1>8 DEF C
  <2> QED
    BY <1>1, <2>1, FieldIs
<1>14. G(At(1, 25, 6), <<w>>) = op
  <2>1. \A b \in 25 .. 25 + 6 - 1 : b \in <<w>>[1] <=> b \in Shl(op, 25)
    BY <1>2, <1>3, <1>4, <1>5, <1>6, <1>7, <1>8 DEF D
  <2> QED
    BY <1>1, <2>1, FieldIs
<1>15. Longest(Formats, Matching(Formats, w)) = {"VOP2"}
  <2>1. Top(w) \div 256 = 0
    BY <1>9, <1>10, Encodings, EncodingByTop
  <2>2. (Top(w) \div 4) % 64 = op
    BY <1>9, <1>14, OpcodeByTop
  <2>3. Top(w) \div 4 \in 0 .. 61
    BY <1>9, <2>1, <2>2, TopRange, OpcodeCodes
  <2> QED
    BY <1>9, <2>3, Chosen
<1>16. operand = [m \in DOMAIN VOP2.fields |-> operand[m]] /\ operand["SRC0"] = src0 /\ operand["VSRC1"] = vsrc1 /\
       operand["VDST"] = vdst
  BY Vop2Fields
<1> HIDE DEF operand
<1>17. <<w>> \in Seq(SUBSET Bit) /\ Len(<<w>>) = 1 /\ <<w>>[1] = w
  BY <1>9
<1>18. \A m \in DOMAIN VOP2.fields : Reads(<<w>>, VOP2.fields[m], operand[m])
  BY <1>11, <1>12, <1>13, <1>16, <1>17, Vop2Fields DEF At, Reads, Vgpr
<1>19. Len(<<w>>) = VOP2.length /\ G(VOP2.op, <<w>>) = op /\ op \in VOP2.ops
  BY <1>14, <1>17, Vop2Fields, OpcodeCodes
<1>20. Encodes(<<w>>, "VOP2", op, operand)
  BY <1>15, <1>16, <1>17, <1>18, <1>19, FormatNames, FieldsEncode
<1> QED
  BY <1>8, <1>20 DEF operand

\* The other compares, for the one register they encode rightly.
LEMMA CompareEncodes ==
  ASSUME NEW op \in VOPCOp, NEW src0 \in CompareSource
  PROVE  Encodes(compareShift8(op, 0, src0), "VOPC", op, [SRC0 |-> src0, VSRC1 |-> 0])
<1> DEFINE A == Shl(\h3E, 25)
           B == Shl(src0, 0)
           C == Shl(0, 9)
           D == Shl(op, 17)
           w == A \cup B \cup D
           operand == [SRC0 |-> src0, VSRC1 |-> 0]
<1>1. Fits(\h3E, 7) /\ Fits(src0, 9) /\ Fits(0, 8) /\ Fits(op, 8)
  <2>1. \h3E \in 0 .. 127 /\ src0 \in 0 .. 511 /\ 0 \in 0 .. 255 /\ op \in 0 .. 255
    BY OperandCodes, OpcodeCodes
  <2> QED
    BY <2>1, Bits7, Bits8, Bits9
<1>2. A \subseteq 25 .. 31 /\ A \in SUBSET Bit
  BY <1>1, Placed
<1>3. B \subseteq 0 .. 8 /\ B \in SUBSET Bit
  BY <1>1, Placed
<1>4. C \subseteq 9 .. 16 /\ C \in SUBSET Bit
  BY <1>1, Placed
<1>5. D \subseteq 17 .. 24 /\ D \in SUBSET Bit
  BY <1>1, Placed
<1>6. C = {}
  BY NoBits
<1>7. <<w>>[1] = A \cup B \cup D /\ compareShift8(op, 0, src0) = <<w>>
  BY NoBits DEF compareShift8
<1> HIDE DEF A, B, C, D
<1>8. w \in SUBSET Bit
  BY <1>2, <1>3, <1>4, <1>5, <1>6
<1> HIDE DEF w
<1>9. G(At(1, 25, 7), <<w>>) = \h3E
  <2>1. \A b \in 25 .. 25 + 7 - 1 : b \in <<w>>[1] <=> b \in Shl(\h3E, 25)
    BY <1>2, <1>3, <1>4, <1>5, <1>6, <1>7 DEF A
  <2> QED
    BY <1>1, <2>1, FieldIs
<1>10. G(At(1, 0, 9), <<w>>) = src0
  <2>1. \A b \in 0 .. 0 + 9 - 1 : b \in <<w>>[1] <=> b \in Shl(src0, 0)
    BY <1>2, <1>3, <1>4, <1>5, <1>6, <1>7 DEF B
  <2> QED
    BY <1>1, <2>1, FieldIs
<1>11. G(At(1, 9, 8), <<w>>) = 0
  <2>1. \A b \in 9 .. 9 + 8 - 1 : b \in <<w>>[1] <=> b \in Shl(0, 9)
    BY <1>2, <1>3, <1>4, <1>5, <1>6, <1>7 DEF C
  <2> QED
    BY <1>1, <2>1, FieldIs
<1>12. G(At(1, 17, 8), <<w>>) = op
  <2>1. \A b \in 17 .. 17 + 8 - 1 : b \in <<w>>[1] <=> b \in Shl(op, 17)
    BY <1>2, <1>3, <1>4, <1>5, <1>6, <1>7 DEF D
  <2> QED
    BY <1>1, <2>1, FieldIs
<1>13. Longest(Formats, Matching(Formats, w)) = {"VOPC"}
  BY <1>8, <1>9, Encodings, EncodingByTop, Chosen
<1>14. operand = [m \in DOMAIN VOPC.fields |-> operand[m]] /\ operand["SRC0"] = src0 /\ operand["VSRC1"] = 0
  BY VopcFields
<1> HIDE DEF operand
<1>15. <<w>> \in Seq(SUBSET Bit) /\ Len(<<w>>) = 1 /\ <<w>>[1] = w
  BY <1>8
<1>16. \A m \in DOMAIN VOPC.fields : Reads(<<w>>, VOPC.fields[m], operand[m])
  BY <1>10, <1>11, <1>14, <1>15, VopcFields DEF At, Reads, Vgpr
<1>17. Len(<<w>>) = VOPC.length /\ G(VOPC.op, <<w>>) = op /\ op \in VOPC.ops
  BY <1>12, <1>15, VopcFields, OpcodeCodes
<1>18. Encodes(<<w>>, "VOPC", op, operand)
  BY <1>13, <1>14, <1>15, <1>16, <1>17, FormatNames, FieldsEncode
<1> QED
  BY <1>7, <1>18 DEF operand

\* VOP3: vop3a, both words.
LEMMA Vop3Encodes ==
  ASSUME NEW vdst \in Vgpr, NEW abs \in 0 .. 7, NEW clamp \in 0 .. 1, NEW op \in VOP3Op,
         NEW src0 \in VectorSource \ {Literal}, NEW src1 \in VectorSource \ {Literal},
         NEW src2 \in VectorSource \ {Literal}, NEW omod \in 0 .. 3, NEW neg \in 0 .. 7
  PROVE  Encodes(vop3a(vdst, abs, clamp, op, src0, src1, src2, omod, neg),
                 "VOP3", op, [VDST |-> vdst, ABS |-> abs, CLAMP |-> clamp, SRC0 |-> src0,
                       SRC1 |-> src1, SRC2 |-> src2, OMOD |-> omod, NEG |-> neg])
<1> DEFINE A == Shl(\h34, 26)
           B == Shl(vdst, 0)
           C == Shl(abs, 8)
           D == Shl(clamp, 11)
           E == Shl(op, 17)
           H == Shl(src0, 0)
           I == Shl(src1, 9)
           J == Shl(src2, 18)
           K == Shl(omod, 27)
           L == Shl(neg, 29)
           w == A \cup B \cup C \cup D \cup E
           v == H \cup I \cup J \cup K \cup L
           operand == [VDST |-> vdst, ABS |-> abs, CLAMP |-> clamp, SRC0 |-> src0,
                       SRC1 |-> src1, SRC2 |-> src2, OMOD |-> omod, NEG |-> neg]
<1>1. /\ \h34 \in 0 .. 63 /\ vdst \in 0 .. 255 /\ abs \in 0 .. 7 /\ clamp \in 0 .. 1 /\ op \in 0 .. 511
      /\ src0 \in 0 .. 511 /\ src1 \in 0 .. 511 /\ src2 \in 0 .. 511 /\ omod \in 0 .. 3 /\ neg \in 0 .. 7
  BY OperandCodes, OpcodeCodes
<1>2. Fits(\h34, 6) /\ A \subseteq 26 .. 31 /\ A \in SUBSET Bit
  BY <1>1, Bits6, Placed
<1>3. Fits(vdst, 8) /\ B \subseteq 0 .. 7 /\ B \in SUBSET Bit
  BY <1>1, Bits8, Placed
<1>4. Fits(abs, 3) /\ C \subseteq 8 .. 10 /\ C \in SUBSET Bit
  BY <1>1, Bits3, Placed
<1>5. Fits(clamp, 1) /\ D \subseteq 11 .. 11 /\ D \in SUBSET Bit
  BY <1>1, Bits1, Placed
<1>6. Fits(op, 9) /\ E \subseteq 17 .. 25 /\ E \in SUBSET Bit
  BY <1>1, Bits9, Placed
<1>7. Fits(src0, 9) /\ H \subseteq 0 .. 8 /\ H \in SUBSET Bit
  BY <1>1, Bits9, Placed
<1>8. Fits(src1, 9) /\ I \subseteq 9 .. 17 /\ I \in SUBSET Bit
  BY <1>1, Bits9, Placed
<1>9. Fits(src2, 9) /\ J \subseteq 18 .. 26 /\ J \in SUBSET Bit
  BY <1>1, Bits9, Placed
<1>10. Fits(omod, 2) /\ K \subseteq 27 .. 28 /\ K \in SUBSET Bit
  BY <1>1, Bits2, Placed
<1>11. Fits(neg, 3) /\ L \subseteq 29 .. 31 /\ L \in SUBSET Bit
  BY <1>1, Bits3, Placed
<1>12. <<w>>[1] = A \cup B \cup C \cup D \cup E /\ <<w, v>>[1] = <<w>>[1] /\ <<w, v>>[2] = H \cup I \cup J \cup K \cup L
  OBVIOUS
<1>13. vop3a(vdst, abs, clamp, op, src0, src1, src2, omod, neg)
        = <<w, v>>
  BY EncodingBits DEF vop3a
<1> HIDE DEF A, B, C, D, E, H, I, J, K, L
<1>14. w \in SUBSET Bit /\ v \in SUBSET Bit
  <2>1. w \in SUBSET Bit
    BY <1>2, <1>3, <1>4, <1>5, <1>6
  <2>2. v \in SUBSET Bit
    BY <1>7, <1>8, <1>9, <1>10, <1>11
  <2> QED
    BY <2>1, <2>2
<1> HIDE DEF w, v
<1>15. G(At(1, 26, 6), <<w>>) = \h34
  <2>1. \A b \in 26 .. 26 + 6 - 1 : b \in <<w>>[1] <=> b \in Shl(\h34, 26)
    BY <1>2, <1>3, <1>4, <1>5, <1>6, <1>12 DEF A
  <2> QED
    BY <1>2, <2>1, FieldIs
<1>16. G(At(1, 0, 8), <<w, v>>) = vdst
  <2>1. \A b \in 0 .. 0 + 8 - 1 : b \in <<w, v>>[1] <=> b \in Shl(vdst, 0)
    BY <1>2, <1>3, <1>4, <1>5, <1>6, <1>12 DEF B
  <2> QED
    BY <1>3, <2>1, FieldIs
<1>17. G(At(1, 8, 3), <<w, v>>) = abs
  <2>1. \A b \in 8 .. 8 + 3 - 1 : b \in <<w, v>>[1] <=> b \in Shl(abs, 8)
    BY <1>2, <1>3, <1>4, <1>5, <1>6, <1>12 DEF C
  <2> QED
    BY <1>4, <2>1, FieldIs
<1>18. G(At(1, 11, 1), <<w, v>>) = clamp
  <2>1. \A b \in 11 .. 11 + 1 - 1 : b \in <<w, v>>[1] <=> b \in Shl(clamp, 11)
    BY <1>2, <1>3, <1>4, <1>5, <1>6, <1>12 DEF D
  <2> QED
    BY <1>5, <2>1, FieldIs
<1>19. G(At(1, 17, 9), <<w, v>>) = op
  <2>1. \A b \in 17 .. 17 + 9 - 1 : b \in <<w, v>>[1] <=> b \in Shl(op, 17)
    BY <1>2, <1>3, <1>4, <1>5, <1>6, <1>12 DEF E
  <2> QED
    BY <1>6, <2>1, FieldIs
<1>20. G(At(2, 0, 9), <<w, v>>) = src0
  <2>1. \A b \in 0 .. 0 + 9 - 1 : b \in <<w, v>>[2] <=> b \in Shl(src0, 0)
    BY <1>7, <1>8, <1>9, <1>10, <1>11, <1>12 DEF H
  <2> QED
    BY <1>7, <2>1, FieldIs
<1>21. G(At(2, 9, 9), <<w, v>>) = src1
  <2>1. \A b \in 9 .. 9 + 9 - 1 : b \in <<w, v>>[2] <=> b \in Shl(src1, 9)
    BY <1>7, <1>8, <1>9, <1>10, <1>11, <1>12 DEF I
  <2> QED
    BY <1>8, <2>1, FieldIs
<1>22. G(At(2, 18, 9), <<w, v>>) = src2
  <2>1. \A b \in 18 .. 18 + 9 - 1 : b \in <<w, v>>[2] <=> b \in Shl(src2, 18)
    BY <1>7, <1>8, <1>9, <1>10, <1>11, <1>12 DEF J
  <2> QED
    BY <1>9, <2>1, FieldIs
<1>23. G(At(2, 27, 2), <<w, v>>) = omod
  <2>1. \A b \in 27 .. 27 + 2 - 1 : b \in <<w, v>>[2] <=> b \in Shl(omod, 27)
    BY <1>7, <1>8, <1>9, <1>10, <1>11, <1>12 DEF K
  <2> QED
    BY <1>10, <2>1, FieldIs
<1>24. G(At(2, 29, 3), <<w, v>>) = neg
  <2>1. \A b \in 29 .. 29 + 3 - 1 : b \in <<w, v>>[2] <=> b \in Shl(neg, 29)
    BY <1>7, <1>8, <1>9, <1>10, <1>11, <1>12 DEF L
  <2> QED
    BY <1>11, <2>1, FieldIs
<1>25. Longest(Formats, Matching(Formats, w)) = {"VOP3"}
  BY <1>14, <1>15, Encodings, EncodingByTop, Chosen
<1>26. operand = [m \in DOMAIN VOP3.fields |-> operand[m]]
  BY Vop3Fields
<1>27. /\ operand["VDST"] = vdst
      /\ operand["ABS"] = abs
      /\ operand["CLAMP"] = clamp
      /\ operand["SRC0"] = src0
      /\ operand["SRC1"] = src1
      /\ operand["SRC2"] = src2
      /\ operand["OMOD"] = omod
      /\ operand["NEG"] = neg
  OBVIOUS
<1> HIDE DEF operand
<1>28. <<w, v>> \in Seq(SUBSET Bit) /\ Len(<<w, v>>) = 2 /\ <<w, v>>[1] = w
  BY <1>14
<1>29. \A m \in DOMAIN VOP3.fields : Reads(<<w, v>>, VOP3.fields[m], operand[m])
  <2>1. Reads(<<w, v>>, VOP3.fields["VDST"], operand["VDST"])
    BY <1>16, <1>27, <1>28, Vop3Fields DEF At, Reads
  <2>2. Reads(<<w, v>>, VOP3.fields["ABS"], operand["ABS"])
    BY <1>17, <1>27, <1>28, Vop3Fields DEF At, Reads
  <2>3. Reads(<<w, v>>, VOP3.fields["CLAMP"], operand["CLAMP"])
    BY <1>18, <1>27, <1>28, Vop3Fields DEF At, Reads
  <2>4. Reads(<<w, v>>, VOP3.fields["SRC0"], operand["SRC0"])
    BY <1>20, <1>27, <1>28, Vop3Fields DEF At, Reads
  <2>5. Reads(<<w, v>>, VOP3.fields["SRC1"], operand["SRC1"])
    BY <1>21, <1>27, <1>28, Vop3Fields DEF At, Reads
  <2>6. Reads(<<w, v>>, VOP3.fields["SRC2"], operand["SRC2"])
    BY <1>22, <1>27, <1>28, Vop3Fields DEF At, Reads
  <2>7. Reads(<<w, v>>, VOP3.fields["OMOD"], operand["OMOD"])
    BY <1>23, <1>27, <1>28, Vop3Fields DEF At, Reads
  <2>8. Reads(<<w, v>>, VOP3.fields["NEG"], operand["NEG"])
    BY <1>24, <1>27, <1>28, Vop3Fields DEF At, Reads
  <2> QED
    BY <2>1, <2>2, <2>3, <2>4, <2>5, <2>6, <2>7, <2>8, Vop3Fields
<1>30. Len(<<w, v>>) = VOP3.length /\ G(VOP3.op, <<w, v>>) = op /\ op \in VOP3.ops
  BY <1>19, <1>28, Vop3Fields
<1>31. Encodes(<<w, v>>, "VOP3", op, operand)
  BY <1>25, <1>26, <1>28, <1>29, <1>30, FormatNames, FieldsEncode
<1> QED
  BY <1>13, <1>31 DEF operand

\* MTBUF: mtbuf, both words.
LEMMA MtbufEncodes ==
  ASSUME NEW offen \in 0 .. 1, NEW idxen \in 0 .. 1, NEW glc \in 0 .. 1, NEW addr64 \in 0 .. 1, NEW slc \in 0 .. 1,
         NEW tfe \in 0 .. 1, NEW vaddr \in Vgpr, NEW vdata \in Vgpr, NEW srsrc \in 0 .. 31, NEW soffset \in Offset,
         NEW offset \in ByteOffset, NEW op \in MTBUFOp, NEW dfmt \in 0 .. 15, NEW nfmt \in 0 .. 7
  PROVE  Encodes(mtbuf(nfmt, dfmt, op, addr64, glc, idxen, offen, offset, soffset, tfe, slc, srsrc, vdata, vaddr),
                 "MTBUF", op, [OFFSET |-> offset, OFFEN |-> offen, IDXEN |-> idxen, GLC |-> glc, ADDR64 |-> addr64,
                 DFMT |-> dfmt, NFMT |-> nfmt,
                       VADDR |-> vaddr, VDATA |-> vdata, SRSRC |-> srsrc, SLC |-> slc, TFE |-> tfe,
                       SOFFSET |-> soffset])
<1> DEFINE A == Shl(\h3A, 26)
           B == Shl(offset, 0)
           C == Shl(offen, 12)
           D == Shl(idxen, 13)
           E == Shl(glc, 14)
           F == Shl(addr64, 15)
           H == Shl(op, 16)
           I == Shl(dfmt, 19)
           J == Shl(nfmt, 23)
           M == Shl(vaddr, 0)
           N == Shl(vdata, 8)
           O == Shl(srsrc, 16)
           P == Shl(slc, 22)
           Q == Shl(tfe, 23)
           R == Shl(soffset, 24)
           w == A \cup B \cup C \cup D \cup E \cup F \cup H \cup I \cup J
           v == M \cup N \cup O \cup P \cup Q \cup R
           operand == [OFFSET |-> offset, OFFEN |-> offen, IDXEN |-> idxen, GLC |-> glc, ADDR64 |-> addr64,
                      DFMT |-> dfmt, NFMT |-> nfmt,
                       VADDR |-> vaddr, VDATA |-> vdata, SRSRC |-> srsrc, SLC |-> slc, TFE |-> tfe, SOFFSET |-> soffset]
<1>1. /\ \h3A \in 0 .. 63 /\ offset \in ByteOffset /\ offen \in 0 .. 1 /\ idxen \in 0 .. 1 /\ glc \in 0 .. 1 /\
         addr64 \in 0 .. 1 /\ op \in 0 .. 7 /\ dfmt \in 0 .. 15
      /\ nfmt \in 0 .. 7 /\ vaddr \in 0 .. 255 /\ vdata \in 0 .. 255 /\ srsrc \in 0 .. 31 /\ slc \in 0 .. 1 /\
         tfe \in 0 .. 1 /\ soffset \in 0 .. 255
  BY OperandCodes, OpcodeCodes
<1>2. Fits(\h3A, 6) /\ A \subseteq 26 .. 31 /\ A \in SUBSET Bit
  BY <1>1, Bits6, Placed
<1>3. Fits(offset, 12) /\ B \subseteq 0 .. 11 /\ B \in SUBSET Bit
  BY <1>1, Bits12, Placed
<1>4. Fits(offen, 1) /\ C \subseteq 12 .. 12 /\ C \in SUBSET Bit
  BY <1>1, Bits1, Placed
<1>5. Fits(idxen, 1) /\ D \subseteq 13 .. 13 /\ D \in SUBSET Bit
  BY <1>1, Bits1, Placed
<1>6. Fits(glc, 1) /\ E \subseteq 14 .. 14 /\ E \in SUBSET Bit
  BY <1>1, Bits1, Placed
<1>7. Fits(addr64, 1) /\ F \subseteq 15 .. 15 /\ F \in SUBSET Bit
  BY <1>1, Bits1, Placed
<1>8. Fits(op, 3) /\ H \subseteq 16 .. 18 /\ H \in SUBSET Bit
  BY <1>1, Bits3, Placed
<1>9. Fits(dfmt, 4) /\ I \subseteq 19 .. 22 /\ I \in SUBSET Bit
  BY <1>1, Bits4, Placed
<1>10. Fits(nfmt, 3) /\ J \subseteq 23 .. 25 /\ J \in SUBSET Bit
  BY <1>1, Bits3, Placed
<1>11. Fits(vaddr, 8) /\ M \subseteq 0 .. 7 /\ M \in SUBSET Bit
  BY <1>1, Bits8, Placed
<1>12. Fits(vdata, 8) /\ N \subseteq 8 .. 15 /\ N \in SUBSET Bit
  BY <1>1, Bits8, Placed
<1>13. Fits(srsrc, 5) /\ O \subseteq 16 .. 20 /\ O \in SUBSET Bit
  BY <1>1, Bits5, Placed
<1>14. Fits(slc, 1) /\ P \subseteq 22 .. 22 /\ P \in SUBSET Bit
  BY <1>1, Bits1, Placed
<1>15. Fits(tfe, 1) /\ Q \subseteq 23 .. 23 /\ Q \in SUBSET Bit
  BY <1>1, Bits1, Placed
<1>16. Fits(soffset, 8) /\ R \subseteq 24 .. 31 /\ R \in SUBSET Bit
  BY <1>1, Bits8, Placed
<1>17. <<w>>[1] = A \cup B \cup C \cup D \cup E \cup F \cup H \cup I \cup J /\ <<w, v>>[1] = <<w>>[1] /\ <<w,
       v>>[2] = M \cup N \cup O \cup P \cup Q \cup R
  OBVIOUS
<1>18. mtbuf(nfmt, dfmt, op, addr64, glc, idxen, offen, offset, soffset, tfe, slc, srsrc, vdata, vaddr)
        = <<w, v>>
  BY EncodingBits DEF mtbuf
<1> HIDE DEF A, B, C, D, E, F, H, I, J, M, N, O, P, Q, R
<1>19. w \in SUBSET Bit /\ v \in SUBSET Bit
  <2>1. w \in SUBSET Bit
    BY <1>2, <1>3, <1>4, <1>5, <1>6, <1>7, <1>8, <1>9, <1>10
  <2>2. v \in SUBSET Bit
    BY <1>11, <1>12, <1>13, <1>14, <1>15, <1>16
  <2> QED
    BY <2>1, <2>2
<1> HIDE DEF w, v
<1>20. G(At(1, 26, 6), <<w>>) = \h3A
  <2>1. \A b \in 26 .. 26 + 6 - 1 : b \in <<w>>[1] <=> b \in Shl(\h3A, 26)
    BY <1>2, <1>3, <1>4, <1>5, <1>6, <1>7, <1>8, <1>9, <1>10, <1>17 DEF A
  <2> QED
    BY <1>2, <2>1, FieldIs
<1>21. G(At(1, 0, 12), <<w, v>>) = offset
  <2>1. \A b \in 0 .. 0 + 12 - 1 : b \in <<w, v>>[1] <=> b \in Shl(offset, 0)
    BY <1>2, <1>3, <1>4, <1>5, <1>6, <1>7, <1>8, <1>9, <1>10, <1>17 DEF B
  <2> QED
    BY <1>3, <2>1, FieldIs
<1>22. G(At(1, 12, 1), <<w, v>>) = offen
  <2>1. \A b \in 12 .. 12 + 1 - 1 : b \in <<w, v>>[1] <=> b \in Shl(offen, 12)
    BY <1>2, <1>3, <1>4, <1>5, <1>6, <1>7, <1>8, <1>9, <1>10, <1>17 DEF C
  <2> QED
    BY <1>4, <2>1, FieldIs
<1>23. G(At(1, 13, 1), <<w, v>>) = idxen
  <2>1. \A b \in 13 .. 13 + 1 - 1 : b \in <<w, v>>[1] <=> b \in Shl(idxen, 13)
    BY <1>2, <1>3, <1>4, <1>5, <1>6, <1>7, <1>8, <1>9, <1>10, <1>17 DEF D
  <2> QED
    BY <1>5, <2>1, FieldIs
<1>24. G(At(1, 14, 1), <<w, v>>) = glc
  <2>1. \A b \in 14 .. 14 + 1 - 1 : b \in <<w, v>>[1] <=> b \in Shl(glc, 14)
    BY <1>2, <1>3, <1>4, <1>5, <1>6, <1>7, <1>8, <1>9, <1>10, <1>17 DEF E
  <2> QED
    BY <1>6, <2>1, FieldIs
<1>25. G(At(1, 15, 1), <<w, v>>) = addr64
  <2>1. \A b \in 15 .. 15 + 1 - 1 : b \in <<w, v>>[1] <=> b \in Shl(addr64, 15)
    BY <1>2, <1>3, <1>4, <1>5, <1>6, <1>7, <1>8, <1>9, <1>10, <1>17 DEF F
  <2> QED
    BY <1>7, <2>1, FieldIs
<1>26. G(At(1, 16, 3), <<w, v>>) = op
  <2>1. \A b \in 16 .. 16 + 3 - 1 : b \in <<w, v>>[1] <=> b \in Shl(op, 16)
    BY <1>2, <1>3, <1>4, <1>5, <1>6, <1>7, <1>8, <1>9, <1>10, <1>17 DEF H
  <2> QED
    BY <1>8, <2>1, FieldIs
<1>27. G(At(1, 19, 4), <<w, v>>) = dfmt
  <2>1. \A b \in 19 .. 19 + 4 - 1 : b \in <<w, v>>[1] <=> b \in Shl(dfmt, 19)
    BY <1>2, <1>3, <1>4, <1>5, <1>6, <1>7, <1>8, <1>9, <1>10, <1>17 DEF I
  <2> QED
    BY <1>9, <2>1, FieldIs
<1>28. G(At(1, 23, 3), <<w, v>>) = nfmt
  <2>1. \A b \in 23 .. 23 + 3 - 1 : b \in <<w, v>>[1] <=> b \in Shl(nfmt, 23)
    BY <1>2, <1>3, <1>4, <1>5, <1>6, <1>7, <1>8, <1>9, <1>10, <1>17 DEF J
  <2> QED
    BY <1>10, <2>1, FieldIs
<1>29. G(At(2, 0, 8), <<w, v>>) = vaddr
  <2>1. \A b \in 0 .. 0 + 8 - 1 : b \in <<w, v>>[2] <=> b \in Shl(vaddr, 0)
    BY <1>11, <1>12, <1>13, <1>14, <1>15, <1>16, <1>17 DEF M
  <2> QED
    BY <1>11, <2>1, FieldIs
<1>30. G(At(2, 8, 8), <<w, v>>) = vdata
  <2>1. \A b \in 8 .. 8 + 8 - 1 : b \in <<w, v>>[2] <=> b \in Shl(vdata, 8)
    BY <1>11, <1>12, <1>13, <1>14, <1>15, <1>16, <1>17 DEF N
  <2> QED
    BY <1>12, <2>1, FieldIs
<1>31. G(At(2, 16, 5), <<w, v>>) = srsrc
  <2>1. \A b \in 16 .. 16 + 5 - 1 : b \in <<w, v>>[2] <=> b \in Shl(srsrc, 16)
    BY <1>11, <1>12, <1>13, <1>14, <1>15, <1>16, <1>17 DEF O
  <2> QED
    BY <1>13, <2>1, FieldIs
<1>32. G(At(2, 22, 1), <<w, v>>) = slc
  <2>1. \A b \in 22 .. 22 + 1 - 1 : b \in <<w, v>>[2] <=> b \in Shl(slc, 22)
    BY <1>11, <1>12, <1>13, <1>14, <1>15, <1>16, <1>17 DEF P
  <2> QED
    BY <1>14, <2>1, FieldIs
<1>33. G(At(2, 23, 1), <<w, v>>) = tfe
  <2>1. \A b \in 23 .. 23 + 1 - 1 : b \in <<w, v>>[2] <=> b \in Shl(tfe, 23)
    BY <1>11, <1>12, <1>13, <1>14, <1>15, <1>16, <1>17 DEF Q
  <2> QED
    BY <1>15, <2>1, FieldIs
<1>34. G(At(2, 24, 8), <<w, v>>) = soffset
  <2>1. \A b \in 24 .. 24 + 8 - 1 : b \in <<w, v>>[2] <=> b \in Shl(soffset, 24)
    BY <1>11, <1>12, <1>13, <1>14, <1>15, <1>16, <1>17 DEF R
  <2> QED
    BY <1>16, <2>1, FieldIs
<1>35. Longest(Formats, Matching(Formats, w)) = {"MTBUF"}
  BY <1>19, <1>20, Encodings, EncodingByTop, Chosen
<1>36. operand = [m \in DOMAIN MTBUF.fields |-> operand[m]]
  BY MtbufFields
<1>37. /\ operand["OFFSET"] = offset
      /\ operand["OFFEN"] = offen
      /\ operand["IDXEN"] = idxen
      /\ operand["GLC"] = glc
      /\ operand["ADDR64"] = addr64
      /\ operand["DFMT"] = dfmt
      /\ operand["NFMT"] = nfmt
      /\ operand["VADDR"] = vaddr
      /\ operand["VDATA"] = vdata
      /\ operand["SRSRC"] = srsrc
      /\ operand["SLC"] = slc
      /\ operand["TFE"] = tfe
      /\ operand["SOFFSET"] = soffset
  OBVIOUS
<1> HIDE DEF operand
<1>38. <<w, v>> \in Seq(SUBSET Bit) /\ Len(<<w, v>>) = 2 /\ <<w, v>>[1] = w
  BY <1>19
<1>39. \A m \in DOMAIN MTBUF.fields : Reads(<<w, v>>, MTBUF.fields[m], operand[m])
  <2>1. Reads(<<w, v>>, MTBUF.fields["OFFSET"], operand["OFFSET"])
    BY <1>21, <1>37, <1>38, MtbufFields DEF At, Reads
  <2>2. Reads(<<w, v>>, MTBUF.fields["OFFEN"], operand["OFFEN"])
    BY <1>22, <1>37, <1>38, MtbufFields DEF At, Reads
  <2>3. Reads(<<w, v>>, MTBUF.fields["IDXEN"], operand["IDXEN"])
    BY <1>23, <1>37, <1>38, MtbufFields DEF At, Reads
  <2>4. Reads(<<w, v>>, MTBUF.fields["GLC"], operand["GLC"])
    BY <1>24, <1>37, <1>38, MtbufFields DEF At, Reads
  <2>5. Reads(<<w, v>>, MTBUF.fields["ADDR64"], operand["ADDR64"])
    BY <1>25, <1>37, <1>38, MtbufFields DEF At, Reads
  <2>6. Reads(<<w, v>>, MTBUF.fields["DFMT"], operand["DFMT"])
    BY <1>27, <1>37, <1>38, MtbufFields DEF At, Reads
  <2>7. Reads(<<w, v>>, MTBUF.fields["NFMT"], operand["NFMT"])
    BY <1>28, <1>37, <1>38, MtbufFields DEF At, Reads
  <2>8. Reads(<<w, v>>, MTBUF.fields["VADDR"], operand["VADDR"])
    BY <1>29, <1>37, <1>38, MtbufFields DEF At, Reads
  <2>9. Reads(<<w, v>>, MTBUF.fields["VDATA"], operand["VDATA"])
    BY <1>30, <1>37, <1>38, MtbufFields DEF At, Reads
  <2>10. Reads(<<w, v>>, MTBUF.fields["SRSRC"], operand["SRSRC"])
    BY <1>31, <1>37, <1>38, MtbufFields DEF At, Reads
  <2>11. Reads(<<w, v>>, MTBUF.fields["SLC"], operand["SLC"])
    BY <1>32, <1>37, <1>38, MtbufFields DEF At, Reads
  <2>12. Reads(<<w, v>>, MTBUF.fields["TFE"], operand["TFE"])
    BY <1>33, <1>37, <1>38, MtbufFields DEF At, Reads
  <2>13. Reads(<<w, v>>, MTBUF.fields["SOFFSET"], operand["SOFFSET"])
    BY <1>34, <1>37, <1>38, MtbufFields DEF At, Reads
  <2> QED
    BY <2>1, <2>2, <2>3, <2>4, <2>5, <2>6, <2>7, <2>8, <2>9, <2>10, <2>11, <2>12, <2>13, MtbufFields
<1>40. Len(<<w, v>>) = MTBUF.length /\ G(MTBUF.op, <<w, v>>) = op /\ op \in MTBUF.ops
  BY <1>26, <1>38, MtbufFields
<1>41. Encodes(<<w, v>>, "MTBUF", op, operand)
  BY <1>35, <1>36, <1>38, <1>39, <1>40, FormatNames, FieldsEncode
<1> QED
  BY <1>18, <1>41 DEF operand

\* MUBUF: mubuf, both words.
LEMMA MubufEncodes ==
  ASSUME NEW offen \in 0 .. 1, NEW idxen \in 0 .. 1, NEW glc \in 0 .. 1, NEW addr64 \in 0 .. 1, NEW slc \in 0 .. 1,
         NEW tfe \in 0 .. 1, NEW vaddr \in Vgpr, NEW vdata \in Vgpr, NEW srsrc \in 0 .. 31, NEW soffset \in Offset,
         NEW offset \in ByteOffset, NEW op \in MUBUFOp, NEW lds \in 0 .. 1
  PROVE  Encodes(mubuf(soffset, tfe, slc, srsrc, vdata, vaddr, op, lds, addr64, glc, idxen, offen, offset),
                 "MUBUF", op, [OFFSET |-> offset, OFFEN |-> offen, IDXEN |-> idxen, GLC |-> glc, ADDR64 |-> addr64,
                 LDS |-> lds,
                       VADDR |-> vaddr, VDATA |-> vdata, SRSRC |-> srsrc, SLC |-> slc, TFE |-> tfe,
                       SOFFSET |-> soffset])
<1> DEFINE A == Shl(\h38, 26)
           B == Shl(offset, 0)
           C == Shl(offen, 12)
           D == Shl(idxen, 13)
           E == Shl(glc, 14)
           F == Shl(addr64, 15)
           H == Shl(lds, 16)
           I == Shl(op, 18)
           M == Shl(vaddr, 0)
           N == Shl(vdata, 8)
           O == Shl(srsrc, 16)
           P == Shl(slc, 22)
           Q == Shl(tfe, 23)
           R == Shl(soffset, 24)
           w == A \cup B \cup C \cup D \cup E \cup F \cup H \cup I
           v == M \cup N \cup O \cup P \cup Q \cup R
           operand == [OFFSET |-> offset, OFFEN |-> offen, IDXEN |-> idxen, GLC |-> glc, ADDR64 |-> addr64, LDS |-> lds,
                       VADDR |-> vaddr, VDATA |-> vdata, SRSRC |-> srsrc, SLC |-> slc, TFE |-> tfe, SOFFSET |-> soffset]
<1>1. /\ \h38 \in 0 .. 63 /\ offset \in ByteOffset /\ offen \in 0 .. 1 /\ idxen \in 0 .. 1 /\ glc \in 0 .. 1 /\
         addr64 \in 0 .. 1 /\ lds \in 0 .. 1
      /\ op \in 0 .. 127 /\ vaddr \in 0 .. 255 /\ vdata \in 0 .. 255 /\ srsrc \in 0 .. 31 /\ slc \in 0 .. 1 /\
         tfe \in 0 .. 1 /\ soffset \in 0 .. 255
  BY OperandCodes, OpcodeCodes
<1>2. Fits(\h38, 6) /\ A \subseteq 26 .. 31 /\ A \in SUBSET Bit
  BY <1>1, Bits6, Placed
<1>3. Fits(offset, 12) /\ B \subseteq 0 .. 11 /\ B \in SUBSET Bit
  BY <1>1, Bits12, Placed
<1>4. Fits(offen, 1) /\ C \subseteq 12 .. 12 /\ C \in SUBSET Bit
  BY <1>1, Bits1, Placed
<1>5. Fits(idxen, 1) /\ D \subseteq 13 .. 13 /\ D \in SUBSET Bit
  BY <1>1, Bits1, Placed
<1>6. Fits(glc, 1) /\ E \subseteq 14 .. 14 /\ E \in SUBSET Bit
  BY <1>1, Bits1, Placed
<1>7. Fits(addr64, 1) /\ F \subseteq 15 .. 15 /\ F \in SUBSET Bit
  BY <1>1, Bits1, Placed
<1>8. Fits(lds, 1) /\ H \subseteq 16 .. 16 /\ H \in SUBSET Bit
  BY <1>1, Bits1, Placed
<1>9. Fits(op, 7) /\ I \subseteq 18 .. 24 /\ I \in SUBSET Bit
  BY <1>1, Bits7, Placed
<1>10. Fits(vaddr, 8) /\ M \subseteq 0 .. 7 /\ M \in SUBSET Bit
  BY <1>1, Bits8, Placed
<1>11. Fits(vdata, 8) /\ N \subseteq 8 .. 15 /\ N \in SUBSET Bit
  BY <1>1, Bits8, Placed
<1>12. Fits(srsrc, 5) /\ O \subseteq 16 .. 20 /\ O \in SUBSET Bit
  BY <1>1, Bits5, Placed
<1>13. Fits(slc, 1) /\ P \subseteq 22 .. 22 /\ P \in SUBSET Bit
  BY <1>1, Bits1, Placed
<1>14. Fits(tfe, 1) /\ Q \subseteq 23 .. 23 /\ Q \in SUBSET Bit
  BY <1>1, Bits1, Placed
<1>15. Fits(soffset, 8) /\ R \subseteq 24 .. 31 /\ R \in SUBSET Bit
  BY <1>1, Bits8, Placed
<1>16. <<w>>[1] = A \cup B \cup C \cup D \cup E \cup F \cup H \cup I /\ <<w, v>>[1] = <<w>>[1] /\ <<w,
       v>>[2] = M \cup N \cup O \cup P \cup Q \cup R
  OBVIOUS
<1>17. mubuf(soffset, tfe, slc, srsrc, vdata, vaddr, op, lds, addr64, glc, idxen, offen, offset)
        = <<w, v>>
  BY EncodingBits DEF mubuf
<1> HIDE DEF A, B, C, D, E, F, H, I, M, N, O, P, Q, R
<1>18. w \in SUBSET Bit /\ v \in SUBSET Bit
  <2>1. w \in SUBSET Bit
    BY <1>2, <1>3, <1>4, <1>5, <1>6, <1>7, <1>8, <1>9
  <2>2. v \in SUBSET Bit
    BY <1>10, <1>11, <1>12, <1>13, <1>14, <1>15
  <2> QED
    BY <2>1, <2>2
<1> HIDE DEF w, v
<1>19. G(At(1, 26, 6), <<w>>) = \h38
  <2>1. \A b \in 26 .. 26 + 6 - 1 : b \in <<w>>[1] <=> b \in Shl(\h38, 26)
    BY <1>2, <1>3, <1>4, <1>5, <1>6, <1>7, <1>8, <1>9, <1>16 DEF A
  <2> QED
    BY <1>2, <2>1, FieldIs
<1>20. G(At(1, 0, 12), <<w, v>>) = offset
  <2>1. \A b \in 0 .. 0 + 12 - 1 : b \in <<w, v>>[1] <=> b \in Shl(offset, 0)
    BY <1>2, <1>3, <1>4, <1>5, <1>6, <1>7, <1>8, <1>9, <1>16 DEF B
  <2> QED
    BY <1>3, <2>1, FieldIs
<1>21. G(At(1, 12, 1), <<w, v>>) = offen
  <2>1. \A b \in 12 .. 12 + 1 - 1 : b \in <<w, v>>[1] <=> b \in Shl(offen, 12)
    BY <1>2, <1>3, <1>4, <1>5, <1>6, <1>7, <1>8, <1>9, <1>16 DEF C
  <2> QED
    BY <1>4, <2>1, FieldIs
<1>22. G(At(1, 13, 1), <<w, v>>) = idxen
  <2>1. \A b \in 13 .. 13 + 1 - 1 : b \in <<w, v>>[1] <=> b \in Shl(idxen, 13)
    BY <1>2, <1>3, <1>4, <1>5, <1>6, <1>7, <1>8, <1>9, <1>16 DEF D
  <2> QED
    BY <1>5, <2>1, FieldIs
<1>23. G(At(1, 14, 1), <<w, v>>) = glc
  <2>1. \A b \in 14 .. 14 + 1 - 1 : b \in <<w, v>>[1] <=> b \in Shl(glc, 14)
    BY <1>2, <1>3, <1>4, <1>5, <1>6, <1>7, <1>8, <1>9, <1>16 DEF E
  <2> QED
    BY <1>6, <2>1, FieldIs
<1>24. G(At(1, 15, 1), <<w, v>>) = addr64
  <2>1. \A b \in 15 .. 15 + 1 - 1 : b \in <<w, v>>[1] <=> b \in Shl(addr64, 15)
    BY <1>2, <1>3, <1>4, <1>5, <1>6, <1>7, <1>8, <1>9, <1>16 DEF F
  <2> QED
    BY <1>7, <2>1, FieldIs
<1>25. G(At(1, 16, 1), <<w, v>>) = lds
  <2>1. \A b \in 16 .. 16 + 1 - 1 : b \in <<w, v>>[1] <=> b \in Shl(lds, 16)
    BY <1>2, <1>3, <1>4, <1>5, <1>6, <1>7, <1>8, <1>9, <1>16 DEF H
  <2> QED
    BY <1>8, <2>1, FieldIs
<1>26. G(At(1, 18, 7), <<w, v>>) = op
  <2>1. \A b \in 18 .. 18 + 7 - 1 : b \in <<w, v>>[1] <=> b \in Shl(op, 18)
    BY <1>2, <1>3, <1>4, <1>5, <1>6, <1>7, <1>8, <1>9, <1>16 DEF I
  <2> QED
    BY <1>9, <2>1, FieldIs
<1>27. G(At(2, 0, 8), <<w, v>>) = vaddr
  <2>1. \A b \in 0 .. 0 + 8 - 1 : b \in <<w, v>>[2] <=> b \in Shl(vaddr, 0)
    BY <1>10, <1>11, <1>12, <1>13, <1>14, <1>15, <1>16 DEF M
  <2> QED
    BY <1>10, <2>1, FieldIs
<1>28. G(At(2, 8, 8), <<w, v>>) = vdata
  <2>1. \A b \in 8 .. 8 + 8 - 1 : b \in <<w, v>>[2] <=> b \in Shl(vdata, 8)
    BY <1>10, <1>11, <1>12, <1>13, <1>14, <1>15, <1>16 DEF N
  <2> QED
    BY <1>11, <2>1, FieldIs
<1>29. G(At(2, 16, 5), <<w, v>>) = srsrc
  <2>1. \A b \in 16 .. 16 + 5 - 1 : b \in <<w, v>>[2] <=> b \in Shl(srsrc, 16)
    BY <1>10, <1>11, <1>12, <1>13, <1>14, <1>15, <1>16 DEF O
  <2> QED
    BY <1>12, <2>1, FieldIs
<1>30. G(At(2, 22, 1), <<w, v>>) = slc
  <2>1. \A b \in 22 .. 22 + 1 - 1 : b \in <<w, v>>[2] <=> b \in Shl(slc, 22)
    BY <1>10, <1>11, <1>12, <1>13, <1>14, <1>15, <1>16 DEF P
  <2> QED
    BY <1>13, <2>1, FieldIs
<1>31. G(At(2, 23, 1), <<w, v>>) = tfe
  <2>1. \A b \in 23 .. 23 + 1 - 1 : b \in <<w, v>>[2] <=> b \in Shl(tfe, 23)
    BY <1>10, <1>11, <1>12, <1>13, <1>14, <1>15, <1>16 DEF Q
  <2> QED
    BY <1>14, <2>1, FieldIs
<1>32. G(At(2, 24, 8), <<w, v>>) = soffset
  <2>1. \A b \in 24 .. 24 + 8 - 1 : b \in <<w, v>>[2] <=> b \in Shl(soffset, 24)
    BY <1>10, <1>11, <1>12, <1>13, <1>14, <1>15, <1>16 DEF R
  <2> QED
    BY <1>15, <2>1, FieldIs
<1>33. Longest(Formats, Matching(Formats, w)) = {"MUBUF"}
  BY <1>18, <1>19, Encodings, EncodingByTop, Chosen
<1>34. operand = [m \in DOMAIN MUBUF.fields |-> operand[m]]
  BY MubufFields
<1>35. /\ operand["OFFSET"] = offset
      /\ operand["OFFEN"] = offen
      /\ operand["IDXEN"] = idxen
      /\ operand["GLC"] = glc
      /\ operand["ADDR64"] = addr64
      /\ operand["LDS"] = lds
      /\ operand["VADDR"] = vaddr
      /\ operand["VDATA"] = vdata
      /\ operand["SRSRC"] = srsrc
      /\ operand["SLC"] = slc
      /\ operand["TFE"] = tfe
      /\ operand["SOFFSET"] = soffset
  OBVIOUS
<1> HIDE DEF operand
<1>36. <<w, v>> \in Seq(SUBSET Bit) /\ Len(<<w, v>>) = 2 /\ <<w, v>>[1] = w
  BY <1>18
<1>37. \A m \in DOMAIN MUBUF.fields : Reads(<<w, v>>, MUBUF.fields[m], operand[m])
  <2>1. Reads(<<w, v>>, MUBUF.fields["OFFSET"], operand["OFFSET"])
    BY <1>20, <1>35, <1>36, MubufFields DEF At, Reads
  <2>2. Reads(<<w, v>>, MUBUF.fields["OFFEN"], operand["OFFEN"])
    BY <1>21, <1>35, <1>36, MubufFields DEF At, Reads
  <2>3. Reads(<<w, v>>, MUBUF.fields["IDXEN"], operand["IDXEN"])
    BY <1>22, <1>35, <1>36, MubufFields DEF At, Reads
  <2>4. Reads(<<w, v>>, MUBUF.fields["GLC"], operand["GLC"])
    BY <1>23, <1>35, <1>36, MubufFields DEF At, Reads
  <2>5. Reads(<<w, v>>, MUBUF.fields["ADDR64"], operand["ADDR64"])
    BY <1>24, <1>35, <1>36, MubufFields DEF At, Reads
  <2>6. Reads(<<w, v>>, MUBUF.fields["LDS"], operand["LDS"])
    BY <1>25, <1>35, <1>36, MubufFields DEF At, Reads
  <2>7. Reads(<<w, v>>, MUBUF.fields["VADDR"], operand["VADDR"])
    BY <1>27, <1>35, <1>36, MubufFields DEF At, Reads
  <2>8. Reads(<<w, v>>, MUBUF.fields["VDATA"], operand["VDATA"])
    BY <1>28, <1>35, <1>36, MubufFields DEF At, Reads
  <2>9. Reads(<<w, v>>, MUBUF.fields["SRSRC"], operand["SRSRC"])
    BY <1>29, <1>35, <1>36, MubufFields DEF At, Reads
  <2>10. Reads(<<w, v>>, MUBUF.fields["SLC"], operand["SLC"])
    BY <1>30, <1>35, <1>36, MubufFields DEF At, Reads
  <2>11. Reads(<<w, v>>, MUBUF.fields["TFE"], operand["TFE"])
    BY <1>31, <1>35, <1>36, MubufFields DEF At, Reads
  <2>12. Reads(<<w, v>>, MUBUF.fields["SOFFSET"], operand["SOFFSET"])
    BY <1>32, <1>35, <1>36, MubufFields DEF At, Reads
  <2> QED
    BY <2>1, <2>2, <2>3, <2>4, <2>5, <2>6, <2>7, <2>8, <2>9, <2>10, <2>11, <2>12, MubufFields
<1>38. Len(<<w, v>>) = MUBUF.length /\ G(MUBUF.op, <<w, v>>) = op /\ op \in MUBUF.ops
  BY <1>26, <1>36, MubufFields
<1>39. Encodes(<<w, v>>, "MUBUF", op, operand)
  BY <1>33, <1>34, <1>36, <1>37, <1>38, FormatNames, FieldsEncode
<1> QED
  BY <1>17, <1>39 DEF operand

\* The immediate operand of s_getreg_b32.
HwregImmediate(size, offset, hwregid) == 2048 * size + 64 * offset + hwregid

\* s_getreg_b32 joins its three arguments in one immediate.
LEMMA GetregEncodes ==
  ASSUME NEW sdst \in ScalarDest, NEW size \in 0 .. 31, NEW offset \in 0 .. 31, NEW hwregid \in 0 .. 63
  PROVE  Encodes(s_getreg_b32(sdst, size, offset, hwregid), "SOPK", 18,
                 [SIMM16 |-> HwregImmediate(size, offset, hwregid), SDST |-> sdst])
<1> DEFINE A == Shl(\hB, 28)
           B == Shl(size, 11)
           C == Shl(offset, 6)
           D == Shl(hwregid, 0)
           E == Shl(18, 23)
           F == Shl(sdst, 16)
           imm == B \cup C \cup D
           n == HwregImmediate(size, offset, hwregid)
           w == A \cup B \cup C \cup D \cup E \cup F
           operand == [SIMM16 |-> n, SDST |-> sdst]
<1>1. Fits(\hB, 4) /\ Fits(size, 5) /\ Fits(offset, 5) /\ Fits(hwregid, 6) /\ Fits(18, 5) /\ Fits(sdst, 7)
  <2>1. \hB \in 0 .. 15 /\ size \in 0 .. 31 /\ offset \in 0 .. 31 /\ hwregid \in 0 .. 63 /\ 18 \in 0 .. 31 /\
        sdst \in 0 .. 127
    BY OperandCodes
  <2> QED
    BY <2>1, Bits4, Bits5, Bits6, Bits7
<1>2. A \subseteq 28 .. 31 /\ A \in SUBSET Bit
  BY <1>1, Placed
<1>3. B \subseteq 11 .. 15 /\ B \in SUBSET Bit
  BY <1>1, Placed
<1>4. C \subseteq 6 .. 10 /\ C \in SUBSET Bit
  BY <1>1, Placed
<1>5. D \subseteq 0 .. 5 /\ D \in SUBSET Bit
  BY <1>1, Placed
<1>6. E \subseteq 23 .. 27 /\ E \in SUBSET Bit
  BY <1>1, Placed
<1>7. F \subseteq 16 .. 22 /\ F \in SUBSET Bit
  BY <1>1, Placed
<1>8. Number(imm) = n /\ n \in Immediate
  <2>1. Number(B) = 2 ^ 11 * size /\ Number(C) = 2 ^ 6 * offset /\ Number(D) = 2 ^ 0 * hwregid
    <3>1. Number(B) = 2 ^ 11 * size
      BY <1>1, PlacedNumber
    <3>2. Number(C) = 2 ^ 6 * offset
      <4>1. Fits(offset, 5)
        BY <1>1
      <4> QED
        BY <4>1, PlacedNumber
    <3>3. Number(D) = 2 ^ 0 * hwregid
      BY <1>1, PlacedNumber
    <3> QED
      BY <3>1, <3>2, <3>3
  <2> HIDE DEF A, B, C, D, E, F
  <2>2. Number(B \cup C) = Number(B) + Number(C) /\ B \cup C \in SUBSET Bit
    BY <1>3, <1>4, NumberOfUnion
  <2>3. (B \cup C) \cap D = {}
    BY <1>3, <1>4, <1>5
  <2>4. Number(B \cup C \cup D) = Number(B \cup C) + Number(D)
    BY <1>5, <2>2, <2>3, NumberOfUnion
  <2>5. Number(imm) = n
    BY SMT, <2>1, <2>2, <2>4 DEF HwregImmediate
  <2>6. n \in Int /\ 0 <= n /\ n <= 65535
    BY SMT DEF HwregImmediate
  <2> HIDE DEF imm, n
  <2>7. n \in Immediate
    BY SMT, <2>6 DEF Immediate
  <2> QED
    BY <2>5, <2>7
<1>9. <<w>>[1] = A \cup B \cup C \cup D \cup E \cup F /\ s_getreg_b32(sdst, size, offset, hwregid) = <<w>>
  BY DEF s_getreg_b32
<1> HIDE DEF A, B, C, D, E, F
<1>10. w \in SUBSET Bit
  BY <1>2, <1>3, <1>4, <1>5, <1>6, <1>7
<1> HIDE DEF w
<1>11. G(At(1, 28, 4), <<w>>) = \hB
  <2>1. \A b \in 28 .. 28 + 4 - 1 : b \in <<w>>[1] <=> b \in Shl(\hB, 28)
    BY <1>2, <1>3, <1>4, <1>5, <1>6, <1>7, <1>9 DEF A
  <2> QED
    BY <1>1, <2>1, FieldIs
<1>12. G(At(1, 23, 5), <<w>>) = 18
  <2>1. \A b \in 23 .. 23 + 5 - 1 : b \in <<w>>[1] <=> b \in Shl(18, 23)
    BY <1>2, <1>3, <1>4, <1>5, <1>6, <1>7, <1>9 DEF E
  <2> QED
    BY <1>1, <2>1, FieldIs
<1>13. G(At(1, 16, 7), <<w>>) = sdst
  <2>1. \A b \in 16 .. 16 + 7 - 1 : b \in <<w>>[1] <=> b \in Shl(sdst, 16)
    BY <1>2, <1>3, <1>4, <1>5, <1>6, <1>7, <1>9 DEF F
  <2> QED
    BY <1>1, <2>1, FieldIs
<1>14. G(At(1, 0, 16), <<w>>) = n
  <2>1. \A b \in 0 .. 0 + 16 - 1 : b \in <<w>>[1] <=> b \in imm
    BY <1>2, <1>3, <1>4, <1>5, <1>6, <1>7, <1>9
  <2>2. \A b \in imm : b \in 0 .. 0 + 16 - 1
    BY <1>3, <1>4, <1>5
  <2> HIDE DEF imm, n
  <2>3. imm = {b - 0 : b \in <<w>>[1] \cap 0 .. 0 + 16 - 1}
    BY <2>1, <2>2
  <2> QED
    BY <1>8, <2>3 DEF G, At
<1> HIDE DEF n
<1>15. Longest(Formats, Matching(Formats, w)) = {"SOPK"}
  <2>1. Top(w) \div 32 = 11
    BY <1>10, <1>11, Encodings, EncodingByTop
  <2>2. Top(w) % 32 = 18
    BY <1>10, <1>12, OpcodeByTop
  <2>3. Top(w) = 370
    BY <1>10, <2>1, <2>2, TopRange
  <2> QED
    BY <1>10, <2>3, Chosen
<1>16. operand = [m \in DOMAIN SOPK.fields |-> operand[m]] /\ operand["SIMM16"] = n /\ operand["SDST"] = sdst
  BY SopkFields
<1> HIDE DEF operand, n
<1>17. <<w>> \in Seq(SUBSET Bit) /\ Len(<<w>>) = 1 /\ <<w>>[1] = w
  BY <1>10
<1>18. \A m \in DOMAIN SOPK.fields : Reads(<<w>>, SOPK.fields[m], operand[m])
  BY <1>8, <1>13, <1>14, <1>16, <1>17, SopkFields DEF At, Reads
<1>19. Formats["SOPK"] = SOPK /\ "SOPK" \in DOMAIN Formats
  BY FormatNames
<1>20. Len(<<w>>) = SOPK.length /\ G(SOPK.op, <<w>>) = 18 /\ 18 \in SOPK.ops
  BY <1>12, <1>17, SopkFields, OpcodeCodes
<1>21. Encodes(<<w>>, "SOPK", 18, operand)
  BY <1>15, <1>16, <1>17, <1>18, <1>19, <1>20, FieldsEncode
<1> QED
  BY <1>9, <1>21 DEF operand, n


(* A sequence, whatever its elements are. *)
IsSequence(s) == s \in Seq({s[k] : k \in DOMAIN s})

-----------------------------------------------------------------------------
(* Sequences of words.                                                     *)

\* One more element at the end.
LEMMA Appended ==
  ASSUME NEW s, IsSequence(s), NEW c
  PROVE  /\ IsSequence(Append(s, c)) /\ DOMAIN s = 1 .. Len(s) /\ Len(s) \in Nat
         /\ Len(Append(s, c)) = Len(s) + 1 /\ DOMAIN Append(s, c) = 1 .. Len(s) + 1
         /\ \A k \in DOMAIN s : Append(s, c)[k] = s[k]
         /\ Append(s, c)[Len(s) + 1] = c
<1> DEFINE R == {s[k] : k \in DOMAIN s}
           t == Append(s, c)
<1>1. s \in Seq(R \cup {c})
  BY DEF IsSequence
<1> HIDE DEF R
<1>2. DOMAIN s = 1 .. Len(s) /\ Len(s) \in Nat
  BY <1>1
<1>3. t \in Seq(R \cup {c}) /\ Len(t) = Len(s) + 1
  BY <1>1
<1>4. \A k \in DOMAIN s : t[k] = s[k]
  BY <1>1
<1>5. t[Len(s) + 1] = c
  BY <1>1
<1> HIDE DEF t
<1>6. t \in Seq({t[k] : k \in DOMAIN t})
  BY <1>3
<1> QED
  BY <1>2, <1>3, <1>4, <1>5, <1>6 DEF IsSequence, t

\* The elements of two sequences, one behind the other.
LEMMA Concatenated ==
  ASSUME NEW S, NEW w \in Seq(S), NEW v \in Seq(S)
  PROVE  /\ w \o v \in Seq(S) /\ Len(w \o v) = Len(w) + Len(v) /\ Len(w) \in Nat /\ Len(v) \in Nat
         /\ \A k \in 1 .. Len(w) : (w \o v)[k] = w[k]
         /\ \A k \in 1 .. Len(v) : (w \o v)[Len(w) + k] = v[k]
  OBVIOUS

\* What is appended does not change a subsequence before it.
LEMMA SubSeqBefore ==
  ASSUME NEW S, NEW w \in Seq(S), NEW v \in Seq(S), NEW i \in 1 .. Len(w), NEW j \in Int, i <= j, j <= Len(w)
  PROVE  SubSeq(w \o v, i, j) = SubSeq(w, i, j)
<1>1. w \o v \in Seq(S) /\ Len(w \o v) = Len(w) + Len(v) /\ \A k \in 1 .. Len(w) : (w \o v)[k] = w[k]
  BY Concatenated
<1> DEFINE u == w \o v
<1> HIDE DEF u
<1>2. SubSeq(u, i, j) = [k \in 1 .. j - i + 1 |-> u[i + k - 1]]
  BY <1>1 DEF u
<1>3. SubSeq(w, i, j) = [k \in 1 .. j - i + 1 |-> w[i + k - 1]]
  OBVIOUS
<1>4. \A k \in 1 .. j - i + 1 : u[i + k - 1] = w[i + k - 1]
  BY <1>1 DEF u
<1> QED
  BY <1>2, <1>3, <1>4 DEF u

\* The subsequence where v was written is v.
LEMMA SubSeqBehind ==
  ASSUME NEW S, NEW w \in Seq(S), NEW v \in Seq(S), NEW u \in Seq(S), NEW d \in Nat, d = Len(v), d > 0
  PROVE  SubSeq(w \o v \o u, Len(w) + 1, Len(w) + 1 + d - 1) = v
<1> DEFINE x == w \o v \o u
<1>1. w \o v \in Seq(S) /\ x \in Seq(S) /\ Len(x) = Len(w) + Len(v) + Len(u)
  BY Concatenated
<1>2. \A k \in 1 .. d : x[Len(w) + k] = v[k]
  BY Concatenated
<1> HIDE DEF x
<1>3. SubSeq(x, Len(w) + 1, Len(w) + 1 + d - 1) = [k \in 1 .. d |-> x[Len(w) + 1 + k - 1]]
  BY <1>1
<1>4. \A k \in 1 .. d : x[Len(w) + 1 + k - 1] = v[k]
  BY <1>2
<1>5. v = [k \in 1 .. d |-> v[k]]
  OBVIOUS
<1> QED
  BY <1>3, <1>4, <1>5 DEF x

\* An instruction without its literal has one or two words.
LEMMA Lengths == \A f \in DOMAIN Formats : Formats[f].length \in 1 .. 2
<1>1. /\ SOP1.length = 1 /\ SOP2.length = 1 /\ SOPK.length = 1 /\ SOPC.length = 1 /\ SOPP.length = 1
      /\ SMRD.length = 1 /\ VOP1.length = 1 /\ VOP2.length = 1 /\ VOPC.length = 1
  BY Sop1Fields, Sop2Fields, SopkFields, SopcFields, SoppFields, SmrdFields, Vop1Fields, Vop2Fields, VopcFields
<1>2. VOP3.length = 2 /\ MTBUF.length = 2 /\ MUBUF.length = 2
  BY Vop3Fields, MtbufFields, MubufFields
<1>3. MIMG.length = 2 /\ DS.length = 2 /\ FLAT.length = 2 /\ VINTRP.length = 1 /\ EXP.length = 2
  <2>1. MIMG.length = 2
    BY DEF MIMG
  <2>2. DS.length = 2
    BY DEF DS
  <2>3. FLAT.length = 2 
    BY DEF FLAT
  <2> QED
    BY <2>1, <2>2, <2>3 DEF VINTRP, EXP
<1> QED
  BY <1>1, <1>2, <1>3, FormatNames

\* What follows an instruction does not change how it is read.
LEMMA DecodeKept ==
  ASSUME NEW w \in Seq(SUBSET Bit), NEW v \in Seq(SUBSET Bit), NEW i \in 1 .. Len(w),
         Decode(w, i).named, i + Decode(w, i).size <= Len(w) + 1
  PROVE  Decode(w \o v, i) = Decode(w, i) /\ Decode(w, i).size \in Nat
<1> DEFINE names == Longest(Formats, Matching(Formats, w[i]))
           name == CHOOSE f \in names : TRUE
           words == SubSeq(w, i, i + Formats[name].length - 1)
<1>1. Decode(w, i) = DecodeAs(Formats, names, w, i)
  BY DEF Decode, DecodeBy
<1>2. names # {}
  BY <1>1 DEF DecodeAs
<1>3. names \subseteq DOMAIN Formats
  BY DEF Longest, Matching
<1> HIDE DEF names
<1>4. name \in DOMAIN Formats
  BY <1>2, <1>3
<1>5. Decode(w, i) = Read(name, Formats[name], words)
  BY <1>1, <1>2 DEF DecodeAs
<1>6. (w \o v)[i] = w[i]
  BY Concatenated
<1>7. Decode(w \o v, i) = DecodeAs(Formats, names, w \o v, i)
  BY <1>6 DEF Decode, DecodeBy, names
<1>8. Decode(w \o v, i) = Read(name, Formats[name], SubSeq(w \o v, i, i + Formats[name].length - 1))
  BY <1>2, <1>7 DEF DecodeAs
<1> HIDE DEF name
<1>9. Formats[name].length \in 1 .. 2
  BY <1>4, Lengths
<1>10. Decode(w, i).size \in {Formats[name].length, Formats[name].length + 1}
  BY <1>5, <1>9 DEF Read, Instruction
<1>11. SubSeq(w \o v, i, i + Formats[name].length - 1) = words
  <2> DEFINE j == i + Formats[name].length - 1
  <2>1. j \in Int /\ i <= j /\ j <= Len(w)
    BY <1>9, <1>10
  <2> HIDE DEF j
  <2>2. SubSeq(w \o v, i, j) = SubSeq(w, i, j)
    BY <2>1, SubSeqBefore
  <2> QED
    BY <2>2 DEF j
<1>12. Decode(w, i).size \in Nat
  BY <1>9, <1>10
<1> QED
  BY <1>5, <1>8, <1>11, <1>12

\* An instruction that was written behind the words w is read there.
LEMMA DecodeNew ==
  ASSUME NEW w \in Seq(SUBSET Bit), NEW words, NEW v \in Seq(SUBSET Bit),
         NEW format \in DOMAIN Formats, NEW op, NEW operand, Encodes(words, format, op, operand)
  PROVE  LET read == Decode(w \o words \o v, Len(w) + 1)
         IN  /\ read.format = format /\ read.op = op /\ read.operand = operand /\ read.named
             /\ read.literal = Constant(operand)
             /\ read.size = Len(words) + (IF Constant(operand) THEN 1 ELSE 0)
<1> DEFINE x == w \o words \o v
           i == Len(w) + 1
           F == Formats[format]
           read == Read(format, F, words)
<1>1. words \in Seq(SUBSET Bit) /\ Len(words) = F.length /\ F.length \in 1 .. 2
  BY Lengths DEF Encodes
<1>2. x[i] = words[1]
  <2>1. w \o words \in Seq(SUBSET Bit) /\ Len(w \o words) = Len(w) + Len(words) /\ (w \o words)[Len(w) + 1] = words[1]
    BY <1>1, Concatenated
  <2> QED
    BY <1>1, <2>1, Concatenated
<1>3. SubSeq(x, i, i + F.length - 1) = words
  <2> DEFINE d == F.length
  <2>1. d \in Nat /\ d > 0 /\ d = Len(words)
    BY <1>1
  <2> HIDE DEF d
  <2>2. SubSeq(w \o words \o v, Len(w) + 1, Len(w) + 1 + d - 1) = words
    BY <1>1, <2>1, SubSeqBehind
  <2> QED
    BY <2>2 DEF d
<1>4. Longest(Formats, Matching(Formats, x[i])) = {format}
  BY <1>2 DEF Encodes
<1> HIDE DEF x, i
<1>5. (CHOOSE f \in {format} : TRUE) = format
  OBVIOUS
<1>6. Decode(x, i) = read
  BY <1>3, <1>4, <1>5 DEF Decode, DecodeBy, DecodeAs
<1>7. read.format = format /\ read.op = op /\ read.operand = operand /\ read.named
  BY DEF Encodes
<1>8. read.literal = Constant(operand)
  <2>1. read.literal = Constant(read.operand)
    BY DEF Read, Instruction
  <2> QED
    BY <1>7, <2>1
<1>9. read.size = F.length + (IF Constant(operand) THEN 1 ELSE 0)
  <2>1. read.size = F.length + (IF Constant(read.operand) THEN 1 ELSE 0)
    BY DEF Read, Instruction
  <2> QED
    BY <1>7, <2>1
<1> HIDE DEF read
<1> QED
  BY <1>1, <1>6, <1>7, <1>8, <1>9 DEF x, i


\* Where the k-th of the instructions c begins in the words w.
StartOf(w, c, k) == IF k \in DOMAIN c THEN c[k].at ELSE Len(w) + 1

\* The k-th instruction lies in the words w, reads as it was called for and ends where
\* the next one begins.
ReadAt(w, c, k) ==
  LET read == Decode(w, StartOf(w, c, k))
  IN  /\ StartOf(w, c, k) \in 1 .. Len(w) /\ StartOf(w, c, k + 1) \in 1 .. Len(w) + 1
      /\ IsAsked(read, c[k])
      /\ read.named /\ StartOf(w, c, k) + read.size = StartOf(w, c, k + 1)

\* The words w are the instructions c, one behind the other.
InTurn(w, c) ==
  /\ w \in Seq(SUBSET Bit) /\ IsSequence(c)
  /\ StartOf(w, c, 1) = 1
  /\ \A k \in DOMAIN c : ReadAt(w, c, k)

-----------------------------------------------------------------------------
(* Instructions one behind the other.                                      *)

\* One more instruction behind the last keeps all the others where and what they were.
LEMMA Extended ==
  ASSUME NEW w, NEW c, InTurn(w, c), NEW y \in Seq(SUBSET Bit), NEW size \in Nat \ {0}, Len(y) = Len(w) + size,
         \A i \in 1 .. Len(w) :
           Decode(w, i).named /\ i + Decode(w, i).size <= Len(w) + 1 => Decode(y, i) = Decode(w, i),
         NEW asked, asked.at = Len(w) + 1, IsAsked(Decode(y, Len(w) + 1), asked),
         Decode(y, Len(w) + 1).named, Decode(y, Len(w) + 1).size = size
  PROVE  InTurn(y, Append(c, asked))
<1> DEFINE d == Append(c, asked)
           L == Len(c)
<1>1. /\ L \in Nat /\ DOMAIN c = 1 .. L /\ DOMAIN d = 1 .. L + 1 /\ IsSequence(d)
      /\ \A k \in 1 .. L : d[k] = c[k]
      /\ d[L + 1] = asked
  BY Appended DEF InTurn
<1>2. Len(w) \in Nat /\ Len(y) \in Nat
  BY DEF InTurn
<1> HIDE DEF L, d
<1>3. \A k \in 1 .. L : StartOf(y, d, k) = StartOf(w, c, k)
  BY <1>1 DEF StartOf
<1>4. StartOf(w, c, L + 1) = Len(w) + 1
  BY <1>1 DEF StartOf
<1>5. StartOf(y, d, L + 1) = Len(w) + 1
  BY <1>1 DEF StartOf
<1>6. StartOf(y, d, L + 2) = Len(y) + 1
  BY <1>1 DEF StartOf
<1>7. ASSUME NEW k \in 1 .. L
      PROVE  ReadAt(y, d, k)
  <2> DEFINE s == StartOf(w, c, k)
             t == StartOf(w, c, k + 1)
             read == Decode(w, s)
  <2>1. s \in 1 .. Len(w) /\ t \in 1 .. Len(w) + 1 /\ IsAsked(read, c[k]) /\ read.named /\ s + read.size = t
    BY <1>1 DEF InTurn, ReadAt
  <2>2. StartOf(y, d, k) = s
    BY <1>3
  <2>3. StartOf(y, d, k + 1) = t
    <3>1. CASE k = L
      BY <1>4, <1>5, <3>1
    <3>2. CASE k # L
      BY <1>1, <1>3, <3>2
    <3> QED
      BY <3>1, <3>2
  <2> HIDE DEF s, t
  <2>4. Decode(y, s) = read
    BY <1>2, <2>1
  <2>5. s \in 1 .. Len(y) /\ t \in 1 .. Len(y) + 1
    BY <1>2, <2>1
  <2>6. IsAsked(read, d[k])
    BY <1>1, <2>1
  <2> QED
    BY <2>1, <2>2, <2>3, <2>4, <2>5, <2>6 DEF ReadAt
<1>8. ReadAt(y, d, L + 1)
  <2>1. L + 1 + 1 = L + 2
    BY <1>1
  <2>2. Len(w) + 1 \in 1 .. Len(y) /\ Len(y) + 1 \in 1 .. Len(y) + 1 /\ Len(w) + 1 + size = Len(y) + 1
    BY <1>2
  <2> QED
    BY <1>1, <1>5, <1>6, <2>1, <2>2 DEF ReadAt
<1>9. StartOf(y, d, 1) = 1
  <2>1. CASE L = 0
    <3>1. 1 = L + 1
      BY <2>1
    <3>2. StartOf(w, c, 1) = 1
      BY DEF InTurn
    <3> QED
      BY <1>4, <1>5, <3>1, <3>2
  <2>2. CASE L # 0
    BY <1>1, <1>3, <2>2 DEF InTurn
  <2> QED
    BY <2>1, <2>2
<1>10. \A k \in DOMAIN d : ReadAt(y, d, k)
  BY <1>1, <1>7, <1>8
<1> QED
  BY <1>1, <1>9, <1>10 DEF InTurn, d

\* The sizes of an instruction and its literal.
LEMMA Sums ==
  ASSUME NEW a \in Nat, NEW b \in 1 .. 2, NEW d \in Nat
  PROVE  b + d \in Nat \ {0} /\ (a + b) + d = a + (b + d)
  OBVIOUS

\* The words behind an instruction with these operands that belong to it.
IsLiteralOf(v, operand) == v \in Seq(SUBSET Bit) /\ Len(v) = IF Constant(operand) THEN 1 ELSE 0

\* The call asks for this instruction at this place.
AsksFor(call, at, format, op, operand) ==
  /\ call.at = at /\ call.format = format /\ call.op = op /\ call.literal = Constant(operand)
  /\ \A n \in DOMAIN call.operand : call.operand[n] = operand[n]

\* An instruction that was written as it was called for, and what was appended where
\* 255 was given as a source, continue the words.
LEMMA Written ==
  ASSUME NEW w, NEW c, InTurn(w, c), NEW words, NEW v, NEW format \in DOMAIN Formats, NEW op, NEW operand,
         Encodes(words, format, op, operand), IsLiteralOf(v, operand),
         NEW asked, AsksFor(asked, Len(w) + 1, format, op, operand)
  PROVE  InTurn(w \o words \o v, Append(c, asked))
<1> DEFINE x == w \o words
           y == x \o v
           size == Len(words) + Len(v)
           read == Decode(y, Len(w) + 1)
<1>1. /\ w \in Seq(SUBSET Bit) /\ Len(w) \in Nat
      /\ v \in Seq(SUBSET Bit) /\ Len(v) = IF Constant(operand) THEN 1 ELSE 0
  BY DEF InTurn, IsLiteralOf
<1>2. words \in Seq(SUBSET Bit) /\ Len(words) \in 1 .. 2
  BY Lengths DEF Encodes
<1>3. /\ read.format = format /\ read.op = op /\ read.operand = operand /\ read.named
      /\ read.literal = Constant(operand)
      /\ read.size = Len(words) + (IF Constant(operand) THEN 1 ELSE 0)
  BY <1>1, DecodeNew
<1>4. x \in Seq(SUBSET Bit) /\ Len(x) = Len(w) + Len(words)
  BY <1>1, <1>2, Concatenated
<1>5. ASSUME NEW i \in 1 .. Len(w), Decode(w, i).named, i + Decode(w, i).size <= Len(w) + 1
      PROVE  Decode(x, i) = Decode(w, i) /\ Decode(w, i).size \in Nat
  BY <1>1, <1>2, <1>5, DecodeKept
<1> HIDE DEF x
<1>6. y \in Seq(SUBSET Bit) /\ Len(y) = Len(x) + Len(v)
  BY <1>1, <1>4, Concatenated
<1>7. ASSUME NEW i \in 1 .. Len(w), Decode(w, i).named, i + Decode(w, i).size <= Len(w) + 1
      PROVE  Decode(y, i) = Decode(w, i)
  <2>1. Decode(x, i) = Decode(w, i) /\ Decode(w, i).size \in Nat
    BY <1>5, <1>7
  <2>2. i \in 1 .. Len(x) /\ i + Decode(x, i).size <= Len(x) + 1
    BY <1>1, <1>2, <1>4, <1>7, <2>1
  <2>3. Decode(y, i) = Decode(x, i)
    BY <1>1, <1>4, <1>7, <2>1, <2>2, DecodeKept
  <2> QED
    BY <2>1, <2>3
<1> HIDE DEF y
<1>8. size \in Nat \ {0} /\ Len(y) = Len(w) + size /\ read.size = size
  <2>1. Len(v) \in Nat
    BY <1>1
  <2>2. size \in Nat \ {0}
    BY <1>1, <1>2, <2>1, Sums
  <2>3. Len(y) = Len(w) + size
    <3>1. Len(y) = (Len(w) + Len(words)) + Len(v)
      BY <1>4, <1>6
    <3>2. (Len(w) + Len(words)) + Len(v) = Len(w) + (Len(words) + Len(v))
      <4>1. Len(w) \in Nat
        BY <1>1
      <4> QED
        BY <1>2, <2>1, <4>1, Sums
    <3> QED
      BY <3>1, <3>2
  <2> HIDE DEF read
  <2>4. read.size = size
    BY <1>1, <1>3
  <2> QED
    BY <2>2, <2>3, <2>4
<1> HIDE DEF size, read
<1>9. IsAsked(read, asked)
  BY <1>3 DEF IsAsked, AsksFor
<1>10. InTurn(y, Append(c, asked))
  BY <1>1, <1>3, <1>6, <1>7, <1>8, <1>9, Extended DEF read, AsksFor
<1> QED
  BY <1>10 DEF x, y


\* The order of concatenation does not matter.
LEMMA Associative ==
  ASSUME NEW S, NEW w \in Seq(S), NEW v \in Seq(S), NEW u \in Seq(S)
  PROVE  w \o (v \o u) = w \o v \o u
<1> DEFINE x == w \o (v \o u)
           y == w \o v \o u
<1>1. x \in Seq(S) /\ y \in Seq(S) /\ Len(x) = Len(w) + Len(v) + Len(u) /\ Len(y) = Len(x)
  BY Concatenated
<1>2. \A i \in 1 .. Len(x) : x[i] = y[i]
  OBVIOUS
<1> QED
  BY <1>1, <1>2

\* An instruction the program calls for, the caller appending the literal.
LEMMA EmitKept ==
  ASSUME InTurn(code, calls), NEW words, NEW format \in DOMAIN Formats, NEW name, NEW op, op = Opcode[format][name],
         NEW operand, Encodes(words, format, op, operand),
         NEW asked, \A n \in DOMAIN asked : asked[n] = operand[n], Constant(asked) <=> Constant(operand),
         Emit(words, format, name, asked)
  PROVE  InTurn(code', calls')
<1> DEFINE v == IF Constant(asked) THEN <<Word(-1)>> ELSE <<>>
           call == [at |-> Len(code) + 1, format |-> format, op |-> Opcode[format][name],
                    operand |-> asked, literal |-> Constant(asked)]
<1>1. code' = code \o words \o v /\ calls' = Append(calls, call)
  BY DEF Emit
<1>2. IsLiteralOf(v, operand)
  <2>1. <<Word(-1)>> \in Seq(SUBSET Bit) /\ Len(<<Word(-1)>>) = 1
    BY WordBits
  <2>2. CASE Constant(asked)
    BY <2>1, <2>2 DEF IsLiteralOf
  <2>3. CASE ~Constant(asked)
    <3>1. v = <<>>
      BY <2>3
    <3> QED
      BY <2>3, <3>1 DEF IsLiteralOf
  <2> QED
    BY <2>2, <2>3
<1>3. AsksFor(call, Len(code) + 1, format, op, operand)
  BY DEF AsksFor, Constant
<1> HIDE DEF v, call
<1>4. InTurn(code \o words \o v, Append(calls, call))
  BY <1>2, <1>3, Written
<1> QED
  BY <1>1, <1>4

\* The same of an encoder that appends the literal z itself.
LEMMA EmitWithLiteralKept ==
  ASSUME InTurn(code, calls), NEW words, NEW z \in SUBSET Bit, NEW format \in DOMAIN Formats, NEW name, NEW op,
         op = Opcode[format][name],
         NEW operand, Encodes(words, format, op, operand), Constant(operand),
         NEW asked, \A n \in DOMAIN asked : asked[n] = operand[n],
         EmitWithLiteral(words \o <<z>>, format, name, asked)
  PROVE  InTurn(code', calls')
<1> DEFINE v == <<z>>
           call == [at |-> Len(code) + 1, format |-> format, op |-> Opcode[format][name],
                    operand |-> asked, literal |-> TRUE]
<1>1. code' = code \o (words \o v) /\ calls' = Append(calls, call)
  BY DEF EmitWithLiteral
<1>2. IsLiteralOf(v, operand)
  BY DEF IsLiteralOf
<1>3. AsksFor(call, Len(code) + 1, format, op, operand)
  BY DEF AsksFor, Constant
<1> HIDE DEF v, call
<1>4. InTurn(code \o words \o v, Append(calls, call))
  BY <1>2, <1>3, Written
<1>5. code \in Seq(SUBSET Bit) /\ words \in Seq(SUBSET Bit) /\ v \in Seq(SUBSET Bit)
  BY <1>2 DEF InTurn, Encodes, IsLiteralOf
<1>6. code \o (words \o v) = code \o words \o v
  BY <1>5, Associative
<1> QED
  BY <1>1, <1>4, <1>6


-----------------------------------------------------------------------------
(* The instructions that are called for, format by format.                 *)

\* The opcodes of SOP1 by name.
LEMMA Sop1Opcodes ==
  /\ Opcode["SOP1"]["S_MOV_B32"] = 3 /\ 3 \in SOP1Op
  /\ Opcode["SOP1"]["S_MOV_B64"] = 4 /\ 4 \in SOP1Op
  /\ Opcode["SOP1"]["S_GETPC_B64"] = 31 /\ 31 \in SOP1Op
  /\ Opcode["SOP1"]["S_SWAPPC_B64"] = 33 /\ 33 \in SOP1Op
  /\ Opcode["SOP1"]["S_RFE_B64"] = 34 /\ 34 \in SOP1Op
  BY DEF Opcode, SOP1Op

\* The opcodes of SOP2 by name.
LEMMA Sop2Opcodes ==
  /\ Opcode["SOP2"]["S_ADD_I32"] = 2 /\ 2 \in SOP2Op
  /\ Opcode["SOP2"]["S_AND_B32"] = 14 /\ 14 \in SOP2Op
  /\ Opcode["SOP2"]["S_AND_B64"] = 15 /\ 15 \in SOP2Op
  BY DEF Opcode, SOP2Op

\* The opcodes of SOPC by name.
LEMMA SopcOpcodes ==
  /\ Opcode["SOPC"]["S_CMP_GT_I32"] = 2 /\ 2 \in SOPCOp
  /\ Opcode["SOPC"]["S_CMP_LT_I32"] = 4 /\ 4 \in SOPCOp
  BY DEF Opcode, SOPCOp

\* The opcodes of SOPP by name.
LEMMA SoppOpcodes ==
  /\ Opcode["SOPP"]["S_NOP"] = 0 /\ 0 \in SOPPOp
  /\ Opcode["SOPP"]["S_ENDPGM"] = 1 /\ 1 \in SOPPOp
  /\ Opcode["SOPP"]["S_BRANCH"] = 2 /\ 2 \in SOPPOp
  /\ Opcode["SOPP"]["S_CBRANCH_SCC0"] = 4 /\ 4 \in SOPPOp
  /\ Opcode["SOPP"]["S_CBRANCH_EXECZ"] = 8 /\ 8 \in SOPPOp
  /\ Opcode["SOPP"]["S_WAITCNT"] = 12 /\ 12 \in SOPPOp
  /\ Opcode["SOPP"]["S_SLEEP"] = 14 /\ 14 \in SOPPOp
  /\ Opcode["SOPP"]["S_TRAP"] = 18 /\ 18 \in SOPPOp
  BY DEF Opcode, SOPPOp

\* The opcodes of SMRD by name.
LEMMA SmrdOpcodes ==
  /\ Opcode["SMRD"]["S_LOAD_DWORD"] = 0 /\ 0 \in SMRDOp
  /\ Opcode["SMRD"]["S_MEMTIME"] = 30 /\ 30 \in SMRDOp
  BY DEF Opcode, SMRDOp

\* The opcodes of VOP1 by name.
LEMMA Vop1Opcodes ==
  /\ Opcode["VOP1"]["V_MOV_B32"] = 1 /\ 1 \in VOP1Op
  /\ Opcode["VOP1"]["V_CVT_F32_I32"] = 5 /\ 5 \in VOP1Op
  /\ Opcode["VOP1"]["V_CVT_I32_F32"] = 8 /\ 8 \in VOP1Op
  /\ Opcode["VOP1"]["V_LOG_F32"] = 39 /\ 39 \in VOP1Op
  /\ Opcode["VOP1"]["V_RCP_F32"] = 42 /\ 42 \in VOP1Op
  /\ Opcode["VOP1"]["V_RCP_F64"] = 47 /\ 47 \in VOP1Op
  /\ Opcode["VOP1"]["V_SQRT_F32"] = 51 /\ 51 \in VOP1Op
  /\ Opcode["VOP1"]["V_SQRT_F64"] = 52 /\ 52 \in VOP1Op
  /\ Opcode["VOP1"]["V_SIN_F32"] = 53 /\ 53 \in VOP1Op
  /\ Opcode["VOP1"]["V_BFREV_B32"] = 56 /\ 56 \in VOP1Op
  BY DEF Opcode, VOP1Op

\* The opcodes of VOP2 by name.
LEMMA Vop2Opcodes ==
  /\ Opcode["VOP2"]["V_ADD_F32"] = 3 /\ 3 \in VOP2Op
  /\ Opcode["VOP2"]["V_SUB_F32"] = 4 /\ 4 \in VOP2Op
  /\ Opcode["VOP2"]["V_MUL_F32"] = 8 /\ 8 \in VOP2Op
  /\ Opcode["VOP2"]["V_MUL_I32_I24"] = 9 /\ 9 \in VOP2Op
  /\ Opcode["VOP2"]["V_AND_B32"] = 27 /\ 27 \in VOP2Op
  /\ Opcode["VOP2"]["V_ADD_I32"] = 37 /\ 37 \in VOP2Op
  BY DEF Opcode, VOP2Op

\* The opcodes of VOPC by name.
LEMMA VopcOpcodes ==
  /\ Opcode["VOPC"]["V_CMP_LT_F32"] = 1 /\ 1 \in VOPCOp
  /\ Opcode["VOPC"]["V_CMP_GT_F32"] = 4 /\ 4 \in VOPCOp
  /\ Opcode["VOPC"]["V_CMPX_LT_F32"] = 17 /\ 17 \in VOPCOp
  /\ Opcode["VOPC"]["V_CMPX_GT_F32"] = 20 /\ 20 \in VOPCOp
  BY DEF Opcode, VOPCOp

\* The opcodes of VOP3 by name.
LEMMA Vop3Opcodes ==
  /\ Opcode["VOP3"]["V_FMA_F32"] = 331 /\ 331 \in VOP3Op
  /\ Opcode["VOP3"]["V_MUL_LO_I32"] = 363 /\ 363 \in VOP3Op
  /\ Opcode["VOP3"]["V_MUL_HI_I32"] = 364 /\ 364 \in VOP3Op
  BY DEF Opcode, VOP3Op

\* SOPK.
LEMMA SopkOpcodes == Opcode["SOPK"]["S_GETREG_B32"] = 18
  BY DEF Opcode

\* One instruction of a format that was called for, for each format.
LEMMA SoppKept ==
  ASSUME InTurn(code, calls), NEW imm \in SUBSET (0 .. 15), NEW n \in Immediate, Number(imm) = n,
         NEW name, NEW op \in SOPPOp, op = Opcode["SOPP"][name],
         Emit(sopp(op, imm), "SOPP", name, [SIMM16 |-> n])
  PROVE  InTurn(code', calls')
<1> DEFINE operand == [SIMM16 |-> n]
           asked == [SIMM16 |-> n]
<1>1. Encodes(sopp(op, imm), "SOPP", op, operand)
  BY SoppEncodes
<1>2. (\A m \in DOMAIN asked : asked[m] = operand[m]) /\ (Constant(asked) <=> Constant(operand))
  BY DEF Constant
<1>3. "SOPP" \in DOMAIN Formats
  BY FormatNames
<1> HIDE DEF operand
<1> QED
  BY <1>1, <1>2, <1>3, EmitKept

\* SOP1.
LEMMA Sop1Kept ==
  ASSUME InTurn(code, calls), NEW d \in ScalarDest, NEW s \in ScalarSource,
         NEW name, NEW op \in SOP1Op, op = Opcode["SOP1"][name],
         Emit(scalarOne(op, d, s), "SOP1", name, [SDST |-> d, SSRC0 |-> s])
  PROVE  InTurn(code', calls')
<1> DEFINE operand == [SSRC0 |-> s, SDST |-> d]
           asked == [SDST |-> d, SSRC0 |-> s]
<1>1. Encodes(scalarOne(op, d, s), "SOP1", op, operand)
  BY Sop1Encodes
<1>2. (\A n \in DOMAIN asked : asked[n] = operand[n]) /\ (Constant(asked) <=> Constant(operand))
  BY DEF Constant
<1>3. "SOP1" \in DOMAIN Formats
  BY FormatNames
<1> HIDE DEF operand
<1> QED
  BY <1>1, <1>2, <1>3, EmitKept

\* SOPC.
LEMMA SopcKept ==
  ASSUME InTurn(code, calls), NEW d \in ScalarSource, NEW s \in ScalarSource,
         NEW name, NEW op \in SOPCOp, op = Opcode["SOPC"][name],
         Emit(sopc(op, d, s), "SOPC", name, [SSRC1 |-> d, SSRC0 |-> s])
  PROVE  InTurn(code', calls')
<1> DEFINE operand == [SSRC0 |-> s, SSRC1 |-> d]
           asked == [SSRC1 |-> d, SSRC0 |-> s]
<1>1. Encodes(sopc(op, d, s), "SOPC", op, operand)
  BY SopcEncodes
<1>2. (\A n \in DOMAIN asked : asked[n] = operand[n]) /\ (Constant(asked) <=> Constant(operand))
  BY DEF Constant
<1>3. "SOPC" \in DOMAIN Formats
  BY FormatNames
<1> HIDE DEF operand
<1> QED
  BY <1>1, <1>2, <1>3, EmitKept

\* SOP2.
LEMMA Sop2Kept ==
  ASSUME InTurn(code, calls), NEW d \in ScalarDest, NEW t \in ScalarSource, NEW s \in ScalarSource,
         NEW name, NEW op \in SOP2Op, op = Opcode["SOP2"][name],
         Emit(sop2(op, d, t, s), "SOP2", name, [SDST |-> d, SSRC1 |-> t, SSRC0 |-> s])
  PROVE  InTurn(code', calls')
<1> DEFINE operand == [SSRC0 |-> s, SSRC1 |-> t, SDST |-> d]
           asked == [SDST |-> d, SSRC1 |-> t, SSRC0 |-> s]
<1>1. Encodes(sop2(op, d, t, s), "SOP2", op, operand)
  BY Sop2Encodes
<1>2. (\A n \in DOMAIN asked : asked[n] = operand[n]) /\ (Constant(asked) <=> Constant(operand))
  BY DEF Constant
<1>3. "SOP2" \in DOMAIN Formats
  BY FormatNames
<1> HIDE DEF operand
<1> QED
  BY <1>1, <1>2, <1>3, EmitKept

\* VOP1.
LEMMA Vop1Kept ==
  ASSUME InTurn(code, calls), NEW d \in Vgpr, NEW s \in VectorSource,
         NEW name, NEW op \in VOP1Op, op = Opcode["VOP1"][name],
         Emit(vop1(op, d, s), "VOP1", name, [VDST |-> d, SRC0 |-> s])
  PROVE  InTurn(code', calls')
<1> DEFINE operand == [SRC0 |-> s, VDST |-> d]
           asked == [VDST |-> d, SRC0 |-> s]
<1>1. Encodes(vop1(op, d, s), "VOP1", op, operand)
  BY Vop1Encodes
<1>2. (\A n \in DOMAIN asked : asked[n] = operand[n]) /\ (Constant(asked) <=> Constant(operand))
  BY DEF Constant
<1>3. "VOP1" \in DOMAIN Formats
  BY FormatNames
<1> HIDE DEF operand
<1> QED
  BY <1>1, <1>2, <1>3, EmitKept

\* VOP2.
LEMMA Vop2Kept ==
  ASSUME InTurn(code, calls), NEW d \in Vgpr, NEW e \in Vgpr, NEW s \in VectorSource,
         NEW name, NEW op \in VOP2Op, op = Opcode["VOP2"][name],
         Emit(vop2(op, d, e, s), "VOP2", name, [VDST |-> d, VSRC1 |-> e, SRC0 |-> s])
  PROVE  InTurn(code', calls')
<1> DEFINE operand == [SRC0 |-> s, VSRC1 |-> e, VDST |-> d]
           asked == [VDST |-> d, VSRC1 |-> e, SRC0 |-> s]
<1>1. Encodes(vop2(op, d, e, s), "VOP2", op, operand)
  BY Vop2Encodes
<1>2. (\A n \in DOMAIN asked : asked[n] = operand[n]) /\ (Constant(asked) <=> Constant(operand))
  BY DEF Constant
<1>3. "VOP2" \in DOMAIN Formats
  BY FormatNames
<1> HIDE DEF operand
<1> QED
  BY <1>1, <1>2, <1>3, EmitKept

\* VOPC, with the second source v0.
LEMMA CompareKept ==
  ASSUME InTurn(code, calls), NEW s \in CompareSource,
         NEW name, NEW op \in VOPCOp, op = Opcode["VOPC"][name],
         Emit(compareShift8(op, 0, s), "VOPC", name, [VSRC1 |-> 0, SRC0 |-> s])
  PROVE  InTurn(code', calls')
<1> DEFINE operand == [SRC0 |-> s, VSRC1 |-> 0]
           asked == [VSRC1 |-> 0, SRC0 |-> s]
<1>1. Encodes(compareShift8(op, 0, s), "VOPC", op, operand)
  BY CompareEncodes
<1>2. (\A n \in DOMAIN asked : asked[n] = operand[n]) /\ (Constant(asked) <=> Constant(operand))
  BY DEF Constant
<1>3. "VOPC" \in DOMAIN Formats
  BY FormatNames
<1> HIDE DEF operand
<1> QED
  BY <1>1, <1>2, <1>3, EmitKept

\* SOP1 with a literal of its own.
LEMMA Sop1LiteralKept ==
  ASSUME InTurn(code, calls), NEW d \in ScalarDest, NEW z \in SUBSET Bit,
         NEW name, NEW op \in SOP1Op, op = Opcode["SOP1"][name],
         EmitWithLiteral(scalarOne(op, d, 255) \o <<z>>, "SOP1", name, [SDST |-> d, SSRC0 |-> Literal])
  PROVE  InTurn(code', calls')
<1> DEFINE operand == [SSRC0 |-> 255, SDST |-> d]
           asked == [SDST |-> d, SSRC0 |-> Literal]
<1>1. Encodes(scalarOne(op, d, 255), "SOP1", op, operand)
  BY Sop1Encodes DEF Literal, ScalarSource, VectorSource
<1>2. (\A n \in DOMAIN asked : asked[n] = operand[n]) /\ Constant(operand)
  BY DEF Constant, Literal
<1>3. "SOP1" \in DOMAIN Formats
  BY FormatNames
<1> HIDE DEF operand, asked
<1>4. EmitWithLiteral(scalarOne(op, d, 255) \o <<z>>, "SOP1", name, asked)
  BY DEF asked
<1> QED
  BY <1>1, <1>2, <1>3, <1>4, EmitWithLiteralKept

\* VOP1 with a literal of its own.
LEMMA Vop1LiteralKept ==
  ASSUME InTurn(code, calls), NEW d \in Vgpr, NEW z \in SUBSET Bit,
         NEW name, NEW op \in VOP1Op, op = Opcode["VOP1"][name],
         EmitWithLiteral(vop1(op, d, 255) \o <<z>>, "VOP1", name, [VDST |-> d, SRC0 |-> Literal])
  PROVE  InTurn(code', calls')
<1> DEFINE operand == [SRC0 |-> 255, VDST |-> d]
           asked == [VDST |-> d, SRC0 |-> Literal]
<1>1. Encodes(vop1(op, d, 255), "VOP1", op, operand)
  BY Vop1Encodes DEF Literal, ScalarSource, VectorSource
<1>2. (\A n \in DOMAIN asked : asked[n] = operand[n]) /\ Constant(operand)
  BY DEF Constant, Literal
<1>3. "VOP1" \in DOMAIN Formats
  BY FormatNames
<1> HIDE DEF operand, asked
<1>4. EmitWithLiteral(vop1(op, d, 255) \o <<z>>, "VOP1", name, asked)
  BY DEF asked
<1> QED
  BY <1>1, <1>2, <1>3, <1>4, EmitWithLiteralKept

\* VOP2 with a literal of its own.
LEMMA Vop2LiteralKept ==
  ASSUME InTurn(code, calls), NEW d \in Vgpr, NEW e \in Vgpr, NEW z \in SUBSET Bit,
         NEW name, NEW op \in VOP2Op, op = Opcode["VOP2"][name],
         EmitWithLiteral(vop2(op, d, e, 255) \o <<z>>, "VOP2", name, [VDST |-> d, VSRC1 |-> e, SRC0 |-> Literal])
  PROVE  InTurn(code', calls')
<1> DEFINE operand == [SRC0 |-> 255, VSRC1 |-> e, VDST |-> d]
           asked == [VDST |-> d, VSRC1 |-> e, SRC0 |-> Literal]
<1>1. Encodes(vop2(op, d, e, 255), "VOP2", op, operand)
  BY Vop2Encodes DEF Literal, ScalarSource, VectorSource
<1>2. (\A n \in DOMAIN asked : asked[n] = operand[n]) /\ Constant(operand)
  BY DEF Constant, Literal
<1>3. "VOP2" \in DOMAIN Formats
  BY FormatNames
<1> HIDE DEF operand, asked
<1>4. EmitWithLiteral(vop2(op, d, e, 255) \o <<z>>, "VOP2", name, asked)
  BY DEF asked
<1> QED
  BY <1>1, <1>2, <1>3, <1>4, EmitWithLiteralKept


\* (x & 0xFFFF) is x modulo 2^16.
LEMMA LowHalf ==
  ASSUME NEW o \in Int
  PROVE  Low16(o) \in SUBSET (0 .. 15) /\ Number(Low16(o)) = o % 65536 /\ o % 65536 \in Immediate
<1> DEFINE k == 16
<1>1. k \in 0 .. 31
  OBVIOUS
<1>2. Number(Low16(o)) = o % 65536
  <2> HIDE DEF k
  <2>1. Number(Word(o) \cap 0 .. k - 1) = o % 2 ^ k
    BY <1>1, MaskedWord
  <2>2. k - 1 = 15 /\ 2 ^ k = 65536
    BY SMT DEF k
  <2> QED
    BY <2>1, <2>2 DEF Low16
<1>3. o % 65536 \in Int /\ 0 <= o % 65536 /\ o % 65536 <= 65535
  BY SMT
<1>4. o % 65536 \in Immediate
  <2> DEFINE n == o % 65536
  <2> HIDE DEF n
  <2>1. n \in Immediate
    BY SMT, <1>3 DEF Immediate, n
  <2> QED
    BY <2>1 DEF n
<1> QED
  BY <1>2, <1>4 DEF Low16

\* A number below 2^16 fills the low half of a word.
LEMMA PlainHalf ==
  ASSUME NEW o \in Immediate
  PROVE  Shl(o, 0) \in SUBSET (0 .. 15) /\ Number(Shl(o, 0)) = o /\ o % 65536 = o
<1>1. o \in Nat /\ o < 65536
  BY SMT DEF Immediate
<1>2. Fits(o, 16)
  BY SMT, <1>1 DEF Fits
<1>3. Shl(o, 0) \subseteq 0 .. 0 + 16 - 1
  BY <1>2, Placed
<1>4. Number(Shl(o, 0)) = 2 ^ 0 * o
  BY <1>2, PlacedNumber
<1>5. 2 ^ 0 * o = o /\ o % 65536 = o
  BY SMT, <1>1
<1> QED
  BY <1>3, <1>4, <1>5

\* The immediates the code writes itself.
LEMMA SmallImmediates == 0 \in Immediate /\ 7 \in Immediate /\ 255 \in Immediate
  BY SMT DEF Immediate

\* An immediate that is left out is 0.
LEMMA NumberOfNothing == {} \in SUBSET (0 .. 15) /\ 0 \in Immediate /\ Number({}) = 0
<1>1. Number(Shl(0, 0)) = 0
  BY SmallImmediates, PlainHalf
<1>2. Shl(0, 0) = {}
  BY NoBits
<1> QED
  BY <1>1, <1>2, SmallImmediates

\* The instructions some of whose operands the code chooses itself.
LEMMA GetregCall ==
  ASSUME NEW d \in ScalarDest
  PROVE  Encodes(s_getreg_b32(d, 31, 0, 4), "SOPK", 18, [SIMM16 |-> 31 * 2048 + 4, SDST |-> d])
<1> DEFINE size == 31
           offset == 0
           hwregid == 4
<1>1. size \in 0 .. 31
  OBVIOUS
<1>2. offset \in 0 .. 31
  OBVIOUS
<1>3. hwregid \in 0 .. 63
  OBVIOUS
<1>4. 31 * 2048 + 4 = HwregImmediate(size, offset, hwregid)
  BY SMT DEF HwregImmediate
<1> HIDE DEF size, offset, hwregid
<1>5. Encodes(s_getreg_b32(d, size, offset, hwregid), "SOPK", 18,
              [SIMM16 |-> HwregImmediate(size, offset, hwregid), SDST |-> d])
  BY <1>1, <1>2, <1>3, GetregEncodes
<1> QED
  BY <1>4, <1>5 DEF size, offset, hwregid

\* s_load_dword with an offset in the instruction.
LEMMA LoadDwordCall ==
  ASSUME NEW d \in ScalarDest, NEW s \in ScalarSource
  PROVE  Encodes(s_load_dword(d \div 2, d, s, 1), "SMRD", 0,
                 [OFFSET |-> s, IMM |-> 1, SBASE |-> d \div 2, SDST |-> d])
<1> DEFINE op == 0
           base == d \div 2
           imm == 1
<1>1. op \in SMRDOp
  BY SmrdOpcodes
<1>2. base \in 0 .. 63
  <2>1. d \in 0 .. 127
    BY OperandCodes
  <2> QED
    BY <2>1
<1>3. imm \in 0 .. 1
  OBVIOUS
<1>4. s \in 0 .. 255
  BY OperandCodes
<1> HIDE DEF op, base, imm
<1>5. Encodes(smrd(op, d, base, imm, s), "SMRD", op, [OFFSET |-> s, IMM |-> imm, SBASE |-> base, SDST |-> d])
  BY <1>1, <1>2, <1>3, <1>4, SmrdEncodes
<1> QED
  BY <1>5 DEF op, base, imm, s_load_dword

\* s_memtime has no operand but the destination.
LEMMA MemtimeCall ==
  ASSUME NEW d \in ScalarDest
  PROVE  Encodes(s_memtime(d), "SMRD", 30, [OFFSET |-> 0, IMM |-> 0, SBASE |-> 0, SDST |-> d])
<1> DEFINE op == 30
           base == 0
           imm == 0
           offset == 0
<1>1. op \in SMRDOp
  BY SmrdOpcodes
<1>2. base \in 0 .. 63
  OBVIOUS
<1>3. imm \in 0 .. 1
  OBVIOUS
<1>4. offset \in 0 .. 255
  OBVIOUS
<1> HIDE DEF op, base, imm, offset
<1>5. Encodes(smrd(op, d, base, imm, offset), "SMRD", op,
              [OFFSET |-> offset, IMM |-> imm, SBASE |-> base, SDST |-> d])
  BY <1>1, <1>2, <1>3, <1>4, SmrdEncodes
<1> QED
  BY <1>5 DEF op, base, imm, offset, s_memtime

-----------------------------------------------------------------------------
(* Each action of Assembler that calls for an instruction.                 *)

\* The scalar branches, waits and ends.
LEMMA ControlKept ==
  ASSUME InTurn(code, calls), JumpOffsets \subseteq Immediate, Control
  PROVE  InTurn(code', calls')
<1>1. CASE Emit(s_nop, "SOPP", "S_NOP", [SIMM16 |-> 0])
  <2>1. {} \in SUBSET (0 .. 15) /\ 0 \in Immediate /\ Number({}) = 0
    BY NumberOfNothing
  <2> QED
    BY <1>1, <2>1, SoppKept, SoppOpcodes DEF s_nop
<1>2. CASE Emit(s_endpgm, "SOPP", "S_ENDPGM", [SIMM16 |-> 0])
  <2>1. {} \in SUBSET (0 .. 15) /\ 0 \in Immediate /\ Number({}) = 0
    BY NumberOfNothing
  <2> QED
    BY <1>2, <2>1, SoppKept, SoppOpcodes DEF s_endpgm
<1>3. CASE Emit(s_waitcnt, "SOPP", "S_WAITCNT", [SIMM16 |-> 0])
  <2>1. {} \in SUBSET (0 .. 15) /\ 0 \in Immediate /\ Number({}) = 0
    BY NumberOfNothing
  <2> QED
    BY <1>3, <2>1, SoppKept, SoppOpcodes DEF s_waitcnt
<1>4. CASE Emit(s_sleep(7), "SOPP", "S_SLEEP", [SIMM16 |-> 7])
  <2>1. Low16(7) \in SUBSET (0 .. 15) /\ 7 \in Immediate /\ Number(Low16(7)) = 7
    BY LowHalf, SMT
  <2> QED
    BY <1>4, <2>1, SoppKept, SoppOpcodes DEF s_sleep
<1>5. CASE Emit(s_trap(255), "SOPP", "S_TRAP", [SIMM16 |-> 255])
  <2>1. Shl(255, 0) \in SUBSET (0 .. 15) /\ 255 \in Immediate /\ Number(Shl(255, 0)) = 255
    BY SmallImmediates, PlainHalf
  <2> QED
    BY <1>5, <2>1, SoppKept, SoppOpcodes DEF s_trap
<1>6. ASSUME NEW o \in BranchOffsets,
             Emit(s_branch(o), "SOPP", "S_BRANCH", [SIMM16 |-> o % 65536])
      PROVE  InTurn(code', calls')
  <2>1. Low16(o) \in SUBSET (0 .. 15) /\ o % 65536 \in Immediate /\ Number(Low16(o)) = o % 65536
    BY OperandsAreNamed, LowHalf
  <2> QED
    BY <1>6, <2>1, SoppKept, SoppOpcodes DEF s_branch
<1>7. ASSUME NEW o \in BranchOffsets,
             Emit(s_cbranch_scc0(o), "SOPP", "S_CBRANCH_SCC0", [SIMM16 |-> o % 65536])
      PROVE  InTurn(code', calls')
  <2>1. Low16(o) \in SUBSET (0 .. 15) /\ o % 65536 \in Immediate /\ Number(Low16(o)) = o % 65536
    BY OperandsAreNamed, LowHalf
  <2> QED
    BY <1>7, <2>1, SoppKept, SoppOpcodes DEF s_cbranch_scc0
<1>8. ASSUME NEW o \in BranchOffsets,
             Emit(s_cbranch_execz(o), "SOPP", "S_CBRANCH_EXECZ", [SIMM16 |-> o % 65536])
      PROVE  InTurn(code', calls')
  <2>1. Low16(o) \in SUBSET (0 .. 15) /\ o % 65536 \in Immediate /\ Number(Low16(o)) = o % 65536
    BY OperandsAreNamed, LowHalf
  <2> QED
    BY <1>8, <2>1, SoppKept, SoppOpcodes DEF s_cbranch_execz
<1>9. ASSUME NEW o \in JumpOffsets,
             Emit(s_jump(o), "SOPP", "S_BRANCH", [SIMM16 |-> o % 65536])
      PROVE  InTurn(code', calls')
  <2>1. Shl(o, 0) \in SUBSET (0 .. 15) /\ o % 65536 \in Immediate /\ Number(Shl(o, 0)) = o % 65536
    BY PlainHalf
  <2> QED
    BY <1>9, <2>1, SoppKept, SoppOpcodes DEF s_jump
<1>10. (\E o \in BranchOffsets :
         \/ Emit(s_branch(o), "SOPP", "S_BRANCH", [SIMM16 |-> o % 65536])
         \/ Emit(s_cbranch_scc0(o), "SOPP", "S_CBRANCH_SCC0", [SIMM16 |-> o % 65536])
         \/ Emit(s_cbranch_execz(o), "SOPP", "S_CBRANCH_EXECZ", [SIMM16 |-> o % 65536]))
       => InTurn(code', calls')
  BY <1>6, <1>7, <1>8
<1>11. (\E o \in JumpOffsets : Emit(s_jump(o), "SOPP", "S_BRANCH", [SIMM16 |-> o % 65536])) => InTurn(code', calls')
  BY <1>9
<1> QED
  BY <1>1, <1>2, <1>3, <1>4, <1>5, <1>10, <1>11 DEF Control

\* The scalar arithmetic and loads.
LEMMA ScalarKept ==
  ASSUME InTurn(code, calls), Scalar
  PROVE  InTurn(code', calls')
<1>1. ASSUME NEW d \in ScalarRegisters, NEW s \in ScalarSources,
             Emit(s_mov_b32(d, s), "SOP1", "S_MOV_B32", [SDST |-> d, SSRC0 |-> s])
      PROVE  InTurn(code', calls')
  <2>1. d \in ScalarDest /\ d \in ScalarSource /\ s \in ScalarSource
    BY OperandsAreNamed DEF ScalarDest, ScalarSource
  <2> QED
    BY <1>1, <2>1, Sop1Kept, Sop1Opcodes DEF s_mov_b32
<1>2. ASSUME NEW d \in ScalarRegisters, NEW s \in ScalarSources,
             Emit(s_mov_b64(d, s), "SOP1", "S_MOV_B64", [SDST |-> d, SSRC0 |-> s])
      PROVE  InTurn(code', calls')
  <2>1. d \in ScalarDest /\ d \in ScalarSource /\ s \in ScalarSource
    BY OperandsAreNamed DEF ScalarDest, ScalarSource
  <2> QED
    BY <1>2, <2>1, Sop1Kept, Sop1Opcodes DEF s_mov_b64
<1>3. ASSUME NEW d \in ScalarRegisters, NEW s \in ScalarSources,
             Emit(s_swappc_b64(d, s), "SOP1", "S_SWAPPC_B64", [SDST |-> d, SSRC0 |-> s])
      PROVE  InTurn(code', calls')
  <2>1. d \in ScalarDest /\ d \in ScalarSource /\ s \in ScalarSource
    BY OperandsAreNamed DEF ScalarDest, ScalarSource
  <2> QED
    BY <1>3, <2>1, Sop1Kept, Sop1Opcodes DEF s_swappc_b64
<1>4. ASSUME NEW d \in ScalarRegisters, NEW s \in ScalarSources,
             Emit(s_getpc_b64(d), "SOP1", "S_GETPC_B64", [SDST |-> d])
      PROVE  InTurn(code', calls')
  <2>1. d \in ScalarDest /\ 0 \in ScalarSource
    BY OperandsAreNamed DEF ScalarSource, ScalarRegister
  <2> DEFINE operand == [SSRC0 |-> 0, SDST |-> d]
             asked == [SDST |-> d]
  <2>2. Encodes(s_getpc_b64(d), "SOP1", 31, operand)
    BY <2>1, Sop1Encodes, Sop1Opcodes DEF s_getpc_b64
  <2>3. (\A n \in DOMAIN asked : asked[n] = operand[n]) /\ (Constant(asked) <=> Constant(operand))
    BY DEF Constant, Literal
  <2>4. "SOP1" \in DOMAIN Formats
    BY FormatNames
  <2>5. Emit(s_getpc_b64(d), "SOP1", "S_GETPC_B64", asked)
    BY <1>4
  <2> HIDE DEF operand, asked
  <2> QED
    BY <2>2, <2>3, <2>4, <2>5, Sop1Opcodes, EmitKept
<1>5. ASSUME NEW d \in ScalarRegisters, NEW s \in ScalarSources,
             Emit(s_rfe_b64, "SOP1", "S_RFE_B64", [SDST |-> 0, SSRC0 |-> 0])
      PROVE  InTurn(code', calls')
  <2>1. 0 \in ScalarDest /\ 0 \in ScalarSource
    BY DEF ScalarDest, ScalarSource, ScalarRegister
  <2> QED
    BY <1>5, <2>1, Sop1Kept, Sop1Opcodes DEF s_rfe_b64
<1>6. ASSUME NEW d \in ScalarRegisters, NEW s \in ScalarSources,
             EmitWithLiteral(s_mov_imm32(d, s), "SOP1", "S_MOV_B32", [SDST |-> d, SSRC0 |-> Literal])
      PROVE  InTurn(code', calls')
  <2>1. d \in ScalarDest /\ d \in ScalarSource /\ s \in ScalarSource
    BY OperandsAreNamed DEF ScalarDest, ScalarSource
  <2>2. Word(s) \in SUBSET Bit
    BY <2>1, OperandCodes, WordBits
  <2> QED
    BY <1>6, <2>1, <2>2, Sop1LiteralKept, Sop1Opcodes DEF s_mov_imm32
<1>7. ASSUME NEW d \in ScalarRegisters, NEW s \in ScalarSources,
             Emit(s_getreg_b32(d, 31, 0, 4), "SOPK", "S_GETREG_B32", [SDST |-> d, SIMM16 |-> 31 * 2048 + 4])
      PROVE  InTurn(code', calls')
  <2>1. d \in ScalarDest
    BY OperandsAreNamed
  <2> DEFINE operand == [SIMM16 |-> 31 * 2048 + 4, SDST |-> d]
             asked == [SDST |-> d, SIMM16 |-> 31 * 2048 + 4]
  <2>2. Encodes(s_getreg_b32(d, 31, 0, 4), "SOPK", 18, operand)
    BY <2>1, GetregCall
  <2>3. (\A n \in DOMAIN asked : asked[n] = operand[n]) /\ (Constant(asked) <=> Constant(operand))
    BY DEF Constant, Literal
  <2>4. "SOPK" \in DOMAIN Formats
    BY FormatNames
  <2>5. Emit(s_getreg_b32(d, 31, 0, 4), "SOPK", "S_GETREG_B32", asked)
    BY <1>7
  <2> HIDE DEF operand, asked
  <2> QED
    BY <2>2, <2>3, <2>4, <2>5, SopkOpcodes, EmitKept
<1>8. ASSUME NEW d \in ScalarRegisters, NEW s \in ScalarSources,
             Emit(s_cmp_lt_i32(d, s), "SOPC", "S_CMP_LT_I32", [SSRC1 |-> d, SSRC0 |-> s])
      PROVE  InTurn(code', calls')
  <2>1. d \in ScalarDest /\ d \in ScalarSource /\ s \in ScalarSource
    BY OperandsAreNamed DEF ScalarDest, ScalarSource
  <2> QED
    BY <1>8, <2>1, SopcKept, SopcOpcodes DEF s_cmp_lt_i32
<1>9. ASSUME NEW d \in ScalarRegisters, NEW s \in ScalarSources,
             Emit(s_cmp_gt_i32(d, s), "SOPC", "S_CMP_GT_I32", [SSRC1 |-> d, SSRC0 |-> s])
      PROVE  InTurn(code', calls')
  <2>1. d \in ScalarDest /\ d \in ScalarSource /\ s \in ScalarSource
    BY OperandsAreNamed DEF ScalarDest, ScalarSource
  <2> QED
    BY <1>9, <2>1, SopcKept, SopcOpcodes DEF s_cmp_gt_i32
<1>10. ASSUME NEW d \in ScalarRegisters, NEW s \in ScalarSources,
             Emit(s_add_i32(d, d, s), "SOP2", "S_ADD_I32", [SDST |-> d, SSRC1 |-> d, SSRC0 |-> s])
      PROVE  InTurn(code', calls')
  <2>1. d \in ScalarDest /\ d \in ScalarSource /\ s \in ScalarSource
    BY OperandsAreNamed DEF ScalarDest, ScalarSource
  <2> QED
    BY <1>10, <2>1, Sop2Kept, Sop2Opcodes DEF s_add_i32
<1>11. ASSUME NEW d \in ScalarRegisters, NEW s \in ScalarSources,
             Emit(s_and_b32(d, s, d), "SOP2", "S_AND_B32", [SDST |-> d, SSRC1 |-> s, SSRC0 |-> d])
      PROVE  InTurn(code', calls')
  <2>1. d \in ScalarDest /\ d \in ScalarSource /\ s \in ScalarSource
    BY OperandsAreNamed DEF ScalarDest, ScalarSource
  <2> QED
    BY <1>11, <2>1, Sop2Kept, Sop2Opcodes DEF s_and_b32
<1>12. ASSUME NEW d \in ScalarRegisters, NEW s \in ScalarSources,
             Emit(s_and_b64(d, d, s), "SOP2", "S_AND_B64", [SDST |-> d, SSRC1 |-> d, SSRC0 |-> s])
      PROVE  InTurn(code', calls')
  <2>1. d \in ScalarDest /\ d \in ScalarSource /\ s \in ScalarSource
    BY OperandsAreNamed DEF ScalarDest, ScalarSource
  <2> QED
    BY <1>12, <2>1, Sop2Kept, Sop2Opcodes DEF s_and_b64
<1>13. ASSUME NEW d \in ScalarRegisters, NEW s \in ScalarSources,
             Emit(s_load_dword(d \div 2, d, s, 1), "SMRD", "S_LOAD_DWORD",
                  [SDST |-> d, SBASE |-> d \div 2, OFFSET |-> s, IMM |-> 1])
      PROVE  InTurn(code', calls')
  <2>1. d \in ScalarDest /\ s \in ScalarSource
    BY OperandsAreNamed
  <2> DEFINE operand == [OFFSET |-> s, IMM |-> 1, SBASE |-> d \div 2, SDST |-> d]
             asked == [SDST |-> d, SBASE |-> d \div 2, OFFSET |-> s, IMM |-> 1]
  <2>2. Encodes(s_load_dword(d \div 2, d, s, 1), "SMRD", 0, operand)
    BY <2>1, LoadDwordCall
  <2>3. (\A n \in DOMAIN asked : asked[n] = operand[n]) /\ (Constant(asked) <=> Constant(operand))
    BY DEF Constant, Literal
  <2>4. "SMRD" \in DOMAIN Formats
    BY FormatNames
  <2>5. Emit(s_load_dword(d \div 2, d, s, 1), "SMRD", "S_LOAD_DWORD", asked)
    BY <1>13
  <2> HIDE DEF operand, asked
  <2> QED
    BY <2>2, <2>3, <2>4, <2>5, SmrdOpcodes, EmitKept
<1>14. ASSUME NEW d \in ScalarRegisters, NEW s \in ScalarSources,
             Emit(s_memtime(d), "SMRD", "S_MEMTIME", [SDST |-> d])
      PROVE  InTurn(code', calls')
  <2>1. d \in ScalarDest
    BY OperandsAreNamed
  <2> DEFINE operand == [OFFSET |-> 0, IMM |-> 0, SBASE |-> 0, SDST |-> d]
             asked == [SDST |-> d]
  <2>2. Encodes(s_memtime(d), "SMRD", 30, operand)
    BY <2>1, MemtimeCall
  <2>3. (\A n \in DOMAIN asked : asked[n] = operand[n]) /\ (Constant(asked) <=> Constant(operand))
    BY DEF Constant, Literal
  <2>4. "SMRD" \in DOMAIN Formats
    BY FormatNames
  <2>5. Emit(s_memtime(d), "SMRD", "S_MEMTIME", asked)
    BY <1>14
  <2> HIDE DEF operand, asked
  <2> QED
    BY <2>2, <2>3, <2>4, <2>5, SmrdOpcodes, EmitKept
<1> QED
  BY <1>1, <1>2, <1>3, <1>4, <1>5, <1>6, <1>7, <1>8, <1>9, <1>10, <1>11, <1>12, <1>13, <1>14 DEF Scalar

\* The vector instructions of one source.
LEMMA VectorOneKept ==
  ASSUME InTurn(code, calls), VectorOne
  PROVE  InTurn(code', calls')
<1>1. ASSUME NEW d \in Vgprs, NEW s \in VectorSources,
             Emit(v_mov_b32(d, s), "VOP1", "V_MOV_B32", [VDST |-> d, SRC0 |-> s])
      PROVE  InTurn(code', calls')
  BY <1>1, OperandsAreNamed, Vop1Kept, Vop1Opcodes DEF v_mov_b32
<1>2. ASSUME NEW d \in Vgprs, NEW s \in VectorSources,
             Emit(v_cvt_f32_i32(d, s), "VOP1", "V_CVT_F32_I32", [VDST |-> d, SRC0 |-> s])
      PROVE  InTurn(code', calls')
  BY <1>2, OperandsAreNamed, Vop1Kept, Vop1Opcodes DEF v_cvt_f32_i32
<1>3. ASSUME NEW d \in Vgprs, NEW s \in VectorSources,
             Emit(v_cvt_i32_f32(d, s), "VOP1", "V_CVT_I32_F32", [VDST |-> d, SRC0 |-> s])
      PROVE  InTurn(code', calls')
  BY <1>3, OperandsAreNamed, Vop1Kept, Vop1Opcodes DEF v_cvt_i32_f32
<1>4. ASSUME NEW d \in Vgprs, NEW s \in VectorSources,
             Emit(v_log_f32(d, s), "VOP1", "V_LOG_F32", [VDST |-> d, SRC0 |-> s])
      PROVE  InTurn(code', calls')
  BY <1>4, OperandsAreNamed, Vop1Kept, Vop1Opcodes DEF v_log_f32
<1>5. ASSUME NEW d \in Vgprs, NEW s \in VectorSources,
             Emit(v_rcp_f32(d, s), "VOP1", "V_RCP_F32", [VDST |-> d, SRC0 |-> s])
      PROVE  InTurn(code', calls')
  BY <1>5, OperandsAreNamed, Vop1Kept, Vop1Opcodes DEF v_rcp_f32
<1>6. ASSUME NEW d \in Vgprs, NEW s \in VectorSources,
             Emit(v_rcp_f64(d, s), "VOP1", "V_RCP_F64", [VDST |-> d, SRC0 |-> s])
      PROVE  InTurn(code', calls')
  BY <1>6, OperandsAreNamed, Vop1Kept, Vop1Opcodes DEF v_rcp_f64
<1>7. ASSUME NEW d \in Vgprs, NEW s \in VectorSources,
             Emit(v_sqrt_f32(d, s), "VOP1", "V_SQRT_F32", [VDST |-> d, SRC0 |-> s])
      PROVE  InTurn(code', calls')
  BY <1>7, OperandsAreNamed, Vop1Kept, Vop1Opcodes DEF v_sqrt_f32
<1>8. ASSUME NEW d \in Vgprs, NEW s \in VectorSources,
             Emit(v_sqrt_f64(d, s), "VOP1", "V_SQRT_F64", [VDST |-> d, SRC0 |-> s])
      PROVE  InTurn(code', calls')
  BY <1>8, OperandsAreNamed, Vop1Kept, Vop1Opcodes DEF v_sqrt_f64
<1>9. ASSUME NEW d \in Vgprs, NEW s \in VectorSources,
             Emit(v_sin_f32(d, s), "VOP1", "V_SIN_F32", [VDST |-> d, SRC0 |-> s])
      PROVE  InTurn(code', calls')
  BY <1>9, OperandsAreNamed, Vop1Kept, Vop1Opcodes DEF v_sin_f32
<1>10. ASSUME NEW d \in Vgprs, NEW s \in VectorSources,
             Emit(v_bfrev_b32(d, s), "VOP1", "V_BFREV_B32", [VDST |-> d, SRC0 |-> s])
      PROVE  InTurn(code', calls')
  BY <1>10, OperandsAreNamed, Vop1Kept, Vop1Opcodes DEF v_bfrev_b32
<1>11. ASSUME NEW d \in Vgprs, NEW s \in VectorSources,
             EmitWithLiteral(v_mov_imm32(d, s), "VOP1", "V_MOV_B32", [VDST |-> d, SRC0 |-> Literal])
      PROVE  InTurn(code', calls')
  <2>1. d \in Vgpr /\ s \in VectorSource
    BY OperandsAreNamed
  <2>2. Word(s) \in SUBSET Bit
    BY <2>1, OperandCodes, WordBits
  <2> QED
    BY <1>11, <2>1, <2>2, Vop1LiteralKept, Vop1Opcodes DEF v_mov_imm32, v_mov_b32
<1> QED
  BY <1>1, <1>2, <1>3, <1>4, <1>5, <1>6, <1>7, <1>8, <1>9, <1>10, <1>11 DEF VectorOne

\* The vector instructions of two sources.
LEMMA VectorTwoKept ==
  ASSUME InTurn(code, calls), VectorTwo
  PROVE  InTurn(code', calls')
<1>1. ASSUME NEW d \in Vgprs, NEW e \in Vgprs, NEW s \in VectorSources,
             Emit(v_add_f32(d, e, s), "VOP2", "V_ADD_F32", [VDST |-> d, VSRC1 |-> e, SRC0 |-> s])
      PROVE  InTurn(code', calls')
  BY <1>1, OperandsAreNamed, Vop2Kept, Vop2Opcodes DEF v_add_f32
<1>2. ASSUME NEW d \in Vgprs, NEW e \in Vgprs, NEW s \in VectorSources,
             Emit(v_sub_f32(d, e, s), "VOP2", "V_SUB_F32", [VDST |-> d, VSRC1 |-> e, SRC0 |-> s])
      PROVE  InTurn(code', calls')
  BY <1>2, OperandsAreNamed, Vop2Kept, Vop2Opcodes DEF v_sub_f32
<1>3. ASSUME NEW d \in Vgprs, NEW e \in Vgprs, NEW s \in VectorSources,
             Emit(v_mul_f32(d, e, s), "VOP2", "V_MUL_F32", [VDST |-> d, VSRC1 |-> e, SRC0 |-> s])
      PROVE  InTurn(code', calls')
  BY <1>3, OperandsAreNamed, Vop2Kept, Vop2Opcodes DEF v_mul_f32
<1>4. ASSUME NEW d \in Vgprs, NEW e \in Vgprs, NEW s \in VectorSources,
             Emit(v_mul_i32_i24(d, e, s), "VOP2", "V_MUL_I32_I24", [VDST |-> d, VSRC1 |-> e, SRC0 |-> s])
      PROVE  InTurn(code', calls')
  BY <1>4, OperandsAreNamed, Vop2Kept, Vop2Opcodes DEF v_mul_i32_i24
<1>5. ASSUME NEW d \in Vgprs, NEW e \in Vgprs, NEW s \in VectorSources,
             Emit(v_and_b32(d, e, s), "VOP2", "V_AND_B32", [VDST |-> d, VSRC1 |-> e, SRC0 |-> s])
      PROVE  InTurn(code', calls')
  BY <1>5, OperandsAreNamed, Vop2Kept, Vop2Opcodes DEF v_and_b32
<1>6. ASSUME NEW d \in Vgprs, NEW e \in Vgprs, NEW s \in VectorSources,
             Emit(v_add_i32(d, e, s), "VOP2", "V_ADD_I32", [VDST |-> d, VSRC1 |-> e, SRC0 |-> s])
      PROVE  InTurn(code', calls')
  BY <1>6, OperandsAreNamed, Vop2Kept, Vop2Opcodes DEF v_add_i32
<1>7. ASSUME NEW d \in Vgprs, NEW e \in Vgprs, NEW s \in VectorSources,
             EmitWithLiteral(v_add_i32_imm32(d, e, s), "VOP2", "V_ADD_I32", [VDST |-> d, VSRC1 |-> e, SRC0 |-> Literal])
      PROVE  InTurn(code', calls')
  <2>1. d \in Vgpr /\ e \in Vgpr /\ s \in VectorSource
    BY OperandsAreNamed
  <2>2. Word(s) \in SUBSET Bit
    BY <2>1, OperandCodes, WordBits
  <2> QED
    BY <1>7, <2>1, <2>2, Vop2LiteralKept, Vop2Opcodes DEF v_add_i32_imm32, v_add_i32
<1>8. ASSUME NEW d \in Vgprs, NEW e \in Vgprs, NEW s \in VectorSources,
             EmitWithLiteral(v_mul_i32_i24_imm32(d, e, s), "VOP2", "V_MUL_I32_I24", [VDST |-> d, VSRC1 |-> e,
             SRC0 |-> Literal])
      PROVE  InTurn(code', calls')
  <2>1. d \in Vgpr /\ e \in Vgpr /\ s \in VectorSource
    BY OperandsAreNamed
  <2>2. Word(s) \in SUBSET Bit
    BY <2>1, OperandCodes, WordBits
  <2> QED
    BY <1>8, <2>1, <2>2, Vop2LiteralKept, Vop2Opcodes DEF v_mul_i32_i24_imm32, v_mul_i32_i24
<1>9. ASSUME NEW d \in Vgprs, NEW e \in Vgprs, NEW s \in VectorSources,
             EmitWithLiteral(v_add_f32_imm32(d, e, s), "VOP2", "V_ADD_F32", [VDST |-> d, VSRC1 |-> e, SRC0 |-> Literal])
      PROVE  InTurn(code', calls')
  <2>1. d \in Vgpr /\ e \in Vgpr /\ s \in VectorSource
    BY OperandsAreNamed
  <2>2. Word(s) \in SUBSET Bit
    BY <2>1, OperandCodes, WordBits
  <2> QED
    BY <1>9, <2>1, <2>2, Vop2LiteralKept, Vop2Opcodes DEF v_add_f32_imm32, v_add_f32
<1>10. ASSUME NEW d \in Vgprs, NEW e \in Vgprs, NEW s \in VectorSources,
             EmitWithLiteral(v_mul_f32_imm32(d, e, s), "VOP2", "V_MUL_F32", [VDST |-> d, VSRC1 |-> e, SRC0 |-> Literal])
      PROVE  InTurn(code', calls')
  <2>1. d \in Vgpr /\ e \in Vgpr /\ s \in VectorSource
    BY OperandsAreNamed
  <2>2. Word(s) \in SUBSET Bit
    BY <2>1, OperandCodes, WordBits
  <2> QED
    BY <1>10, <2>1, <2>2, Vop2LiteralKept, Vop2Opcodes DEF v_mul_f32_imm32, v_mul_f32
<1> QED
  BY <1>1, <1>2, <1>3, <1>4, <1>5, <1>6, <1>7, <1>8, <1>9, <1>10 DEF VectorTwo

\* The vector compares, which need v0 as the second source.
LEMMA ComparesKept ==
  ASSUME InTurn(code, calls), CompareVgprs \subseteq {0}, Compare
  PROVE  InTurn(code', calls')
<1>1. ASSUME NEW s \in VectorSources \cap CompareSource, NEW e \in CompareVgprs,
             Emit(v_cmp_lt_f32(e, s), "VOPC", "V_CMP_LT_F32", [VSRC1 |-> e, SRC0 |-> s])
      PROVE  InTurn(code', calls')
  <2>1. Emit(v_cmp_lt_f32(0, s), "VOPC", "V_CMP_LT_F32", [VSRC1 |-> 0, SRC0 |-> s])
    BY <1>1
  <2> QED
    BY <2>1, CompareKept, VopcOpcodes DEF v_cmp_lt_f32
<1>2. ASSUME NEW s \in VectorSources \cap CompareSource, NEW e \in CompareVgprs,
             Emit(v_cmpx_lt_f32(e, s), "VOPC", "V_CMPX_LT_F32", [VSRC1 |-> e, SRC0 |-> s])
      PROVE  InTurn(code', calls')
  <2>1. Emit(v_cmpx_lt_f32(0, s), "VOPC", "V_CMPX_LT_F32", [VSRC1 |-> 0, SRC0 |-> s])
    BY <1>2
  <2> QED
    BY <2>1, CompareKept, VopcOpcodes DEF v_cmpx_lt_f32
<1>3. ASSUME NEW s \in VectorSources \cap CompareSource, NEW e \in CompareVgprs,
             Emit(v_cmp_gt_f32(e, s), "VOPC", "V_CMP_GT_F32", [VSRC1 |-> e, SRC0 |-> s])
      PROVE  InTurn(code', calls')
  <2>1. Emit(v_cmp_gt_f32(0, s), "VOPC", "V_CMP_GT_F32", [VSRC1 |-> 0, SRC0 |-> s])
    BY <1>3
  <2> QED
    BY <2>1, CompareKept, VopcOpcodes DEF v_cmp_gt_f32
<1>4. ASSUME NEW s \in VectorSources \cap CompareSource, NEW e \in Vgprs,
             Emit(v_cmpx_gt_f32(e, s), "VOPC", "V_CMPX_GT_F32", [VSRC1 |-> e, SRC0 |-> s])
      PROVE  InTurn(code', calls')
  <2>1. e \in Vgpr /\ s \in CompareSource
    BY OperandsAreNamed
  <2> DEFINE operand == [SRC0 |-> s, VSRC1 |-> e]
             asked == [VSRC1 |-> e, SRC0 |-> s]
  <2>2. Encodes(v_cmpx_gt_f32(e, s), "VOPC", 20, operand)
    BY <2>1, CmpxGtEncodes
  <2>3. (\A n \in DOMAIN asked : asked[n] = operand[n]) /\ (Constant(asked) <=> Constant(operand))
    BY DEF Constant, Literal
  <2>4. "VOPC" \in DOMAIN Formats
    BY FormatNames
  <2>5. Emit(v_cmpx_gt_f32(e, s), "VOPC", "V_CMPX_GT_F32", asked)
    BY <1>4
  <2> HIDE DEF operand, asked
  <2> QED
    BY <2>2, <2>3, <2>4, <2>5, VopcOpcodes, EmitKept
<1> QED
  BY <1>1, <1>2, <1>3, <1>4 DEF Compare


\* The sources that VectorThree makes of a register are sources.
LEMMA Sources ==
  /\ \A d \in Vgpr : 256 + d \in VectorSource \ {Literal} /\ 255 - d \in Vgpr
  /\ 256 \in VectorSource \ {Literal} /\ 0 \in VectorSource \ {Literal} /\ 128 \in Offset
<1>1. \A d \in Vgpr : 256 + d \in VectorSource \ {Literal}
  BY DEF Vgpr, VectorSource, Literal
<1>2. \A d \in Vgpr : 255 - d \in Vgpr
  BY DEF Vgpr
<1>3. 256 \in VectorSource \ {Literal}
  <2>1. 0 \in Vgpr /\ 256 + 0 = 256
    BY DEF Vgpr
  <2> QED
    BY <1>1, <2>1
<1>4. 0 \in VectorSource \ {Literal} /\ 128 \in Offset
  BY DEF VectorSource, ScalarSource, ScalarRegister, Literal, Offset, Inline
<1> QED
  BY <1>1, <1>2, <1>3, <1>4

\* v_mul_lo_i32 and v_mul_hi_i32 leave the modifiers zero.
LEMMA MulCall ==
  ASSUME NEW d \in Vgpr, NEW s \in VectorSource \ {Literal}, NEW op \in VOP3Op
  PROVE  Encodes(vop3a(d, 0, 0, op, s, 256 + d, 0, 0, 0), "VOP3", op,
                 [VDST |-> d, ABS |-> 0, CLAMP |-> 0, SRC0 |-> s, SRC1 |-> 256 + d, SRC2 |-> 0, OMOD |-> 0, NEG |-> 0])
<1> DEFINE t == 256 + d
           z == 0
<1>1. t \in VectorSource \ {Literal}
  BY Sources
<1>2. z \in VectorSource \ {Literal}
  BY Sources
<1>3. z \in 0 .. 7
  OBVIOUS
<1>4. z \in 0 .. 1
  OBVIOUS
<1>5. z \in 0 .. 3
  OBVIOUS
<1> HIDE DEF t, z
<1>6. Encodes(vop3a(d, z, z, op, s, t, z, z, z), "VOP3", op,
              [VDST |-> d, ABS |-> z, CLAMP |-> z, SRC0 |-> s, SRC1 |-> t, SRC2 |-> z, OMOD |-> z, NEG |-> z])
  BY <1>1, <1>2, <1>3, <1>4, <1>5, Vop3Encodes
<1> QED
  BY <1>6 DEF t, z

\* v_fma_f32 has them all.
LEMMA FmaKept ==
  ASSUME InTurn(code, calls), NEW d \in Vgpr, NEW abs \in 0 .. 7, NEW clamp \in 0 .. 1,
         NEW s \in VectorSource \ {Literal}, NEW t \in VectorSource \ {Literal}, NEW u \in VectorSource \ {Literal},
         NEW omod \in 0 .. 3, NEW neg \in 0 .. 7,
         Emit(v_fma_f32(d, abs, clamp, s, t, u, omod, neg), "VOP3", "V_FMA_F32",
              [VDST |-> d, ABS |-> abs, CLAMP |-> clamp, SRC0 |-> s, SRC1 |-> t, SRC2 |-> u, OMOD |-> omod,
               NEG |-> neg])
  PROVE  InTurn(code', calls')
<1> DEFINE operand == [VDST |-> d, ABS |-> abs, CLAMP |-> clamp, SRC0 |-> s, SRC1 |-> t, SRC2 |-> u, OMOD |-> omod,
                       NEG |-> neg]
           words == v_fma_f32(d, abs, clamp, s, t, u, omod, neg)
<1>1. Encodes(words, "VOP3", 331, operand)
  <2> DEFINE op == 331
  <2>1. op \in VOP3Op
    BY Vop3Opcodes
  <2> HIDE DEF op
  <2>2. Encodes(vop3a(d, abs, clamp, op, s, t, u, omod, neg), "VOP3", op,
                [VDST |-> d, ABS |-> abs, CLAMP |-> clamp, SRC0 |-> s, SRC1 |-> t, SRC2 |-> u, OMOD |-> omod,
                 NEG |-> neg])
    BY <2>1, Vop3Encodes
  <2> QED
    BY <2>2 DEF v_fma_f32, op
<1>2. Emit(words, "VOP3", "V_FMA_F32", operand)
  OBVIOUS
<1>3. "VOP3" \in DOMAIN Formats
  BY FormatNames
<1> HIDE DEF operand, words
<1>4. \A n \in DOMAIN operand : operand[n] = operand[n]
  OBVIOUS
<1> QED
  BY <1>1, <1>2, <1>3, <1>4, Vop3Opcodes, EmitKept

\* The vector instructions of three sources.
LEMMA VectorThreeKept ==
  ASSUME InTurn(code, calls), VectorThree
  PROVE  InTurn(code', calls')
<1>1. PICK d \in Vgprs, s \in VectorSources \ {Literal}, n \in {0, 7} :
        \/ Emit(v_fma_f32(d, n, n % 2, s, 256 + d, 256, n % 4, n), "VOP3", "V_FMA_F32",
                [VDST |-> d, ABS |-> n, CLAMP |-> n % 2, SRC0 |-> s, SRC1 |-> 256 + d, SRC2 |-> 256,
                 OMOD |-> n % 4, NEG |-> n])
        \/ Emit(v_mul_lo_i32(d, s, 256 + d), "VOP3", "V_MUL_LO_I32", [VDST |-> d, SRC0 |-> s, SRC1 |-> 256 + d])
        \/ Emit(v_mul_hi_i32(d, s, 256 + d), "VOP3", "V_MUL_HI_I32", [VDST |-> d, SRC0 |-> s, SRC1 |-> 256 + d])
  BY DEF VectorThree
<1>2. d \in Vgpr /\ s \in VectorSource \ {Literal} /\ "VOP3" \in DOMAIN Formats
  BY OperandsAreNamed, FormatNames
<1>3. ASSUME NEW name, NEW op \in VOP3Op, op = Opcode["VOP3"][name],
             Emit(vop3a(d, 0, 0, op, s, 256 + d, 0, 0, 0), "VOP3", name, [VDST |-> d, SRC0 |-> s, SRC1 |-> 256 + d])
      PROVE  InTurn(code', calls')
  <2> DEFINE operand == [VDST |-> d, ABS |-> 0, CLAMP |-> 0, SRC0 |-> s, SRC1 |-> 256 + d, SRC2 |-> 0,
                         OMOD |-> 0, NEG |-> 0]
             asked == [VDST |-> d, SRC0 |-> s, SRC1 |-> 256 + d]
  <2>1. Encodes(vop3a(d, 0, 0, op, s, 256 + d, 0, 0, 0), "VOP3", op, operand)
    BY <1>2, MulCall
  <2>2. (\A n_1 \in DOMAIN asked : asked[n_1] = operand[n_1]) /\ (Constant(asked) <=> Constant(operand))
    BY DEF Constant, Literal
  <2>3. Emit(vop3a(d, 0, 0, op, s, 256 + d, 0, 0, 0), "VOP3", name, asked)
    BY <1>3
  <2> HIDE DEF operand, asked
  <2> QED
    BY <1>2, <1>3, <2>1, <2>2, <2>3, EmitKept
<1>4. CASE Emit(v_fma_f32(d, n, n % 2, s, 256 + d, 256, n % 4, n), "VOP3", "V_FMA_F32",
                [VDST |-> d, ABS |-> n, CLAMP |-> n % 2, SRC0 |-> s, SRC1 |-> 256 + d, SRC2 |-> 256,
                 OMOD |-> n % 4, NEG |-> n])
  <2> DEFINE clamp == n % 2
             omod == n % 4
             t == 256 + d
             u == 256
  <2>1. Emit(v_fma_f32(d, n, clamp, s, t, u, omod, n), "VOP3", "V_FMA_F32",
             [VDST |-> d, ABS |-> n, CLAMP |-> clamp, SRC0 |-> s, SRC1 |-> t, SRC2 |-> u, OMOD |-> omod, NEG |-> n])
    BY <1>4
  <2>2. clamp \in 0 .. 1 /\ omod \in 0 .. 3 /\ n \in 0 .. 7
    OBVIOUS
  <2>3. t \in VectorSource \ {Literal} /\ u \in VectorSource \ {Literal}
    BY <1>2, Sources
  <2> HIDE DEF clamp, omod, t, u
  <2> QED
    BY <1>2, <2>1, <2>2, <2>3, FmaKept
<1>5. CASE Emit(v_mul_lo_i32(d, s, 256 + d), "VOP3", "V_MUL_LO_I32", [VDST |-> d, SRC0 |-> s, SRC1 |-> 256 + d])
  BY <1>3, <1>5, Vop3Opcodes DEF v_mul_lo_i32
<1>6. CASE Emit(v_mul_hi_i32(d, s, 256 + d), "VOP3", "V_MUL_HI_I32", [VDST |-> d, SRC0 |-> s, SRC1 |-> 256 + d])
  BY <1>3, <1>6, Vop3Opcodes DEF v_mul_hi_i32
<1> QED
  BY <1>1, <1>4, <1>5, <1>6


\* The operands of a buffer instruction that both formats have.
BufferOperand(vdata, vaddr, srsrc, soffset, offset, idxen, offen, glc, addr64, slc, tfe) ==
  [VDATA |-> vdata, VADDR |-> vaddr, SRSRC |-> srsrc, SOFFSET |-> soffset, OFFSET |-> offset,
   IDXEN |-> idxen, OFFEN |-> offen, GLC |-> glc, ADDR64 |-> addr64, SLC |-> slc, TFE |-> tfe]

\* The call of a buffer instruction of one of the formats, with operands its fields can hold.
MtbufCalled(name, op, nfmt, dfmt, vdata, vaddr, srsrc, soffset, offset, idxen, offen, glc, addr64, slc, tfe) ==
  /\ idxen \in 0 .. 1 /\ offen \in 0 .. 1 /\ glc \in 0 .. 1 /\ addr64 \in 0 .. 1 /\ slc \in 0 .. 1 /\ tfe \in 0 .. 1
  /\ vdata \in Vgpr /\ vaddr \in Vgpr /\ srsrc \in 0 .. 31 /\ soffset \in Offset /\ offset \in ByteOffset
  /\ nfmt \in 0 .. 7 /\ dfmt \in 0 .. 15 /\ op \in MTBUFOp /\ op = Opcode["MTBUF"][name]
  /\ Emit(mtbuf(nfmt, dfmt, op, addr64, glc, idxen, offen, offset, soffset, tfe, slc, srsrc, vdata, vaddr),
       "MTBUF", name,
       Both([NFMT |-> nfmt, DFMT |-> dfmt],
            BufferOperand(vdata, vaddr, srsrc, soffset, offset, idxen, offen, glc, addr64, slc, tfe)))

MubufCalled(name, op, lds, vdata, vaddr, srsrc, soffset, offset, idxen, offen, glc, addr64, slc, tfe) ==
  /\ idxen \in 0 .. 1 /\ offen \in 0 .. 1 /\ glc \in 0 .. 1 /\ addr64 \in 0 .. 1 /\ slc \in 0 .. 1 /\ tfe \in 0 .. 1
  /\ vdata \in Vgpr /\ vaddr \in Vgpr /\ srsrc \in 0 .. 31 /\ soffset \in Offset /\ offset \in ByteOffset
  /\ lds \in 0 .. 1 /\ op \in MUBUFOp /\ op = Opcode["MUBUF"][name]
  /\ Emit(mubuf(soffset, tfe, slc, srsrc, vdata, vaddr, op, lds, addr64, glc, idxen, offen, offset),
       "MUBUF", name,
       Both([LDS |-> lds],
            BufferOperand(vdata, vaddr, srsrc, soffset, offset, idxen, offen, glc, addr64, slc, tfe)))

\* Typed buffer instructions.
LEMMA MtbufKept ==
  ASSUME InTurn(code, calls),
         NEW name, NEW op, NEW nfmt, NEW dfmt, NEW vdata, NEW vaddr, NEW srsrc, NEW soffset,
         NEW offset, NEW idxen, NEW offen, NEW glc, NEW addr64, NEW slc, NEW tfe,
         MtbufCalled(name, op, nfmt, dfmt, vdata, vaddr, srsrc, soffset, offset, idxen, offen, glc, addr64, slc, tfe)
  PROVE  InTurn(code', calls')
<1> DEFINE operand == [OFFSET |-> offset, OFFEN |-> offen, IDXEN |-> idxen, GLC |-> glc, ADDR64 |-> addr64,
                       DFMT |-> dfmt, NFMT |-> nfmt, VADDR |-> vaddr, VDATA |-> vdata, SRSRC |-> srsrc,
                       SLC |-> slc, TFE |-> tfe, SOFFSET |-> soffset]
           asked == Both([NFMT |-> nfmt, DFMT |-> dfmt],
                         BufferOperand(vdata, vaddr, srsrc, soffset, offset, idxen, offen, glc, addr64, slc, tfe))
           words == mtbuf(nfmt, dfmt, op, addr64, glc, idxen, offen, offset, soffset, tfe, slc, srsrc, vdata, vaddr)
<1>1. Encodes(words, "MTBUF", op, operand)
  BY MtbufEncodes DEF MtbufCalled
<1>2. \A n \in DOMAIN asked : asked[n] = operand[n]
  BY DEF Both, BufferOperand
<1>3. Constant(asked) <=> Constant(operand)
  BY DEF Constant, Both, BufferOperand
<1>4. Emit(words, "MTBUF", name, asked) /\ op = Opcode["MTBUF"][name]
  BY DEF MtbufCalled
<1>5. "MTBUF" \in DOMAIN Formats
  BY FormatNames
<1> HIDE DEF operand, asked, words
<1> QED
  BY <1>1, <1>2, <1>3, <1>4, <1>5, EmitKept

\* Untyped buffer instructions.
LEMMA MubufKept ==
  ASSUME InTurn(code, calls),
         NEW name, NEW op, NEW lds, NEW vdata, NEW vaddr, NEW srsrc, NEW soffset, NEW offset,
         NEW idxen, NEW offen, NEW glc, NEW addr64, NEW slc, NEW tfe,
         MubufCalled(name, op, lds, vdata, vaddr, srsrc, soffset, offset, idxen, offen, glc, addr64, slc, tfe)
  PROVE  InTurn(code', calls')
<1> DEFINE operand == [OFFSET |-> offset, OFFEN |-> offen, IDXEN |-> idxen, GLC |-> glc, ADDR64 |-> addr64,
                       LDS |-> lds, VADDR |-> vaddr, VDATA |-> vdata, SRSRC |-> srsrc, SLC |-> slc, TFE |-> tfe,
                       SOFFSET |-> soffset]
           asked == Both([LDS |-> lds],
                         BufferOperand(vdata, vaddr, srsrc, soffset, offset, idxen, offen, glc, addr64, slc, tfe))
           words == mubuf(soffset, tfe, slc, srsrc, vdata, vaddr, op, lds, addr64, glc, idxen, offen, offset)
<1>1. Encodes(words, "MUBUF", op, operand)
  BY MubufEncodes DEF MubufCalled
<1>2. \A n \in DOMAIN asked : asked[n] = operand[n]
  BY DEF Both, BufferOperand
<1>3. Constant(asked) <=> Constant(operand)
  BY DEF Constant, Both, BufferOperand
<1>4. Emit(words, "MUBUF", name, asked) /\ op = Opcode["MUBUF"][name]
  BY DEF MubufCalled
<1>5. "MUBUF" \in DOMAIN Formats
  BY FormatNames
<1> HIDE DEF operand, asked, words
<1> QED
  BY <1>1, <1>2, <1>3, <1>4, <1>5, EmitKept

\* The opcodes of both.
LEMMA BufferOpcodes ==
  /\ \A name \in DOMAIN Opcode["MTBUF"] : Opcode["MTBUF"][name] \in MTBUFOp
  /\ \A name \in DOMAIN Opcode["MUBUF"] : Opcode["MUBUF"][name] \in MUBUFOp
<1>1. \A name \in DOMAIN Opcode["MTBUF"] : Opcode["MTBUF"][name] \in MTBUFOp
  BY DEF Opcode, MTBUFOp
<1>2. \A name \in DOMAIN Opcode["MUBUF"] : Opcode["MUBUF"][name] \in MUBUFOp
  BY DEF Opcode, MUBUFOp
<1> QED
  BY <1>1, <1>2

\* The loads and stores of the vector unit.
LEMMA MemoryKept ==
  ASSUME InTurn(code, calls), Memory
  PROVE  InTurn(code', calls')
<1>1. PICK f \in {"IDXEN", "OFFEN", "GLC", "ADDR64", "SLC", "TFE"}, d \in Vgprs, offset \in {0, 4095} :
        LET set(n) == IF n = f THEN 1 ELSE 0
            operand == BufferOperand(d, 255 - d, 31, 128, offset, set("IDXEN"), set("OFFEN"), set("GLC"),
                                     set("ADDR64"), set("SLC"), set("TFE"))
        IN  \/ \E name \in DOMAIN Opcode.MTBUF :
                 Emit(mtbuf(4, 14, Opcode.MTBUF[name], set("ADDR64"), set("GLC"), set("IDXEN"), set("OFFEN"), offset,
                            128, set("TFE"), set("SLC"), 31, d, 255 - d),
                      "MTBUF", name, Both([NFMT |-> 4, DFMT |-> 14], operand))
            \/ \E name \in DOMAIN Opcode.MUBUF :
                 Emit(mubuf(128, set("TFE"), set("SLC"), 31, d, 255 - d, Opcode.MUBUF[name], 1, set("ADDR64"),
                            set("GLC"), set("IDXEN"), set("OFFEN"), offset),
                      "MUBUF", name, Both([LDS |-> 1], operand))
  BY DEF Memory, BufferOperand
<1> DEFINE flag(n) == IF n = f THEN 1 ELSE 0
           idxen == flag("IDXEN")
           offen == flag("OFFEN")
           glc == flag("GLC")
           addr64 == flag("ADDR64")
           slc == flag("SLC")
           tfe == flag("TFE")
           vaddr == 255 - d
           srsrc == 31
           soffset == 128
           nfmt == 4
           dfmt == 14
           lds == 1
           operand == BufferOperand(d, vaddr, srsrc, soffset, offset, idxen, offen, glc, addr64, slc, tfe)
<1>2. \/ \E name \in DOMAIN Opcode["MTBUF"] :
           Emit(mtbuf(nfmt, dfmt, Opcode["MTBUF"][name], addr64, glc, idxen, offen, offset, soffset, tfe, slc, srsrc,
                      d, vaddr), "MTBUF", name, Both([NFMT |-> nfmt, DFMT |-> dfmt], operand))
      \/ \E name \in DOMAIN Opcode["MUBUF"] :
           Emit(mubuf(soffset, tfe, slc, srsrc, d, vaddr, Opcode["MUBUF"][name], lds, addr64, glc, idxen, offen,
                      offset), "MUBUF", name, Both([LDS |-> lds], operand))
  BY <1>1
<1>3. idxen \in 0 .. 1 /\ offen \in 0 .. 1 /\ glc \in 0 .. 1 /\ addr64 \in 0 .. 1 /\ slc \in 0 .. 1 /\ tfe \in 0 .. 1
  OBVIOUS
<1>4. d \in Vgpr
  BY OperandsAreNamed
<1>5. vaddr \in Vgpr /\ soffset \in Offset
  BY <1>4, Sources
<1>6. srsrc \in 0 .. 31 /\ nfmt \in 0 .. 7 /\ dfmt \in 0 .. 15 /\ lds \in 0 .. 1
  OBVIOUS
<1>7. offset \in ByteOffset
  BY SMT DEF ByteOffset
<1> HIDE DEF idxen, offen, glc, addr64, slc, tfe, vaddr, srsrc, soffset, nfmt, dfmt, lds
<1>8. ASSUME NEW name \in DOMAIN Opcode["MTBUF"],
             Emit(mtbuf(nfmt, dfmt, Opcode["MTBUF"][name], addr64, glc, idxen, offen, offset, soffset, tfe, slc, srsrc,
                        d, vaddr), "MTBUF", name, Both([NFMT |-> nfmt, DFMT |-> dfmt], operand))
      PROVE  InTurn(code', calls')
  <2> DEFINE op == Opcode["MTBUF"][name]
  <2>1. op \in MTBUFOp /\ op = Opcode["MTBUF"][name]
    BY BufferOpcodes
  <2>2. Emit(mtbuf(nfmt, dfmt, op, addr64, glc, idxen, offen, offset, soffset, tfe, slc, srsrc, d, vaddr),
             "MTBUF", name, Both([NFMT |-> nfmt, DFMT |-> dfmt], operand))
    BY <1>8
  <2> HIDE DEF op
  <2>3. MtbufCalled(name, op, nfmt, dfmt, d, vaddr, srsrc, soffset, offset, idxen, offen, glc, addr64, slc, tfe)
    BY <1>3, <1>4, <1>5, <1>6, <1>7, <2>1, <2>2 DEF MtbufCalled
  <2> QED
    BY <2>3, MtbufKept
<1>9. ASSUME NEW name \in DOMAIN Opcode["MUBUF"],
             Emit(mubuf(soffset, tfe, slc, srsrc, d, vaddr, Opcode["MUBUF"][name], lds, addr64, glc, idxen, offen,
                        offset), "MUBUF", name, Both([LDS |-> lds], operand))
      PROVE  InTurn(code', calls')
  <2> DEFINE op == Opcode["MUBUF"][name]
  <2>1. op \in MUBUFOp /\ op = Opcode["MUBUF"][name]
    BY BufferOpcodes
  <2>2. Emit(mubuf(soffset, tfe, slc, srsrc, d, vaddr, op, lds, addr64, glc, idxen, offen, offset),
             "MUBUF", name, Both([LDS |-> lds], operand))
    BY <1>9
  <2> HIDE DEF op
  <2>3. MubufCalled(name, op, lds, d, vaddr, srsrc, soffset, offset, idxen, offen, glc, addr64, slc, tfe)
    BY <1>3, <1>4, <1>5, <1>6, <1>7, <2>1, <2>2 DEF MubufCalled
  <2> QED
    BY <2>3, MubufKept
<1> QED
  BY <1>2, <1>8, <1>9


-----------------------------------------------------------------------------
(* ReadsBack.                                                              *)

\* There is no instruction and no word at first.
LEMMA NothingYet == Init => InTurn(code, calls)
<1> SUFFICES ASSUME Init
             PROVE  InTurn(code, calls)
  OBVIOUS
<1>1. code = <<>> /\ calls = <<>>
  BY DEF Init
<1>2. code \in Seq(SUBSET Bit) /\ Len(code) = 0 /\ DOMAIN calls = {} /\ IsSequence(calls)
  BY <1>1 DEF IsSequence
<1> QED
  BY <1>2 DEF InTurn, StartOf

\* Instructions in turn are what ReadsBack asks for.
LEMMA InTurnReads == InTurn(code, calls) => ReadsBack
<1> SUFFICES ASSUME InTurn(code, calls)
             PROVE  ReadsBack
  OBVIOUS
<1>1. \A k : Start(k) = StartOf(code, calls, k)
  BY DEF Start, StartOf
<1>2. Start(1) = 1
  BY <1>1 DEF InTurn
<1>3. ASSUME NEW k \in DOMAIN calls
      PROVE  LET read == Decode(code, Start(k))
             IN  /\ IsAsked(read, calls[k])
                 /\ read.named /\ Start(k) + read.size = Start(k + 1)
  BY <1>1 DEF InTurn, ReadAt
<1> QED
  BY <1>2, <1>3 DEF ReadsBack

\* What a GPU reads is what was called for, for any operands that sid.h names and any
\* number of calls: the encoders of code_helper.h keep each field in its place, a literal is
\* behind the instruction that takes it, and no instruction begins in the middle of another.
\* It holds under what the two violations of ReadsBack show to be needed: a second source
\* v0 for the compares that shift it by 8, and no backward s_jump.
THEOREM InstructionsReadBack ==
  ASSUME CompareVgprs \subseteq {0}, JumpOffsets \subseteq Immediate
  PROVE  Spec => []ReadsBack
<1>1. Init => InTurn(code, calls)
  BY NothingYet
<1>2. InTurn(code, calls) /\ [Next]_vars => InTurn(code, calls)'
  <2> SUFFICES ASSUME InTurn(code, calls), [Next]_vars
               PROVE  InTurn(code', calls')
    BY DEF InTurn, ReadAt, StartOf, IsSequence, Decode, DecodeBy
  <2>1. CASE Control
    BY <2>1, ControlKept
  <2>2. CASE Scalar
    BY <2>2, ScalarKept
  <2>3. CASE VectorOne
    BY <2>3, VectorOneKept
  <2>4. CASE VectorTwo
    BY <2>4, VectorTwoKept
  <2>5. CASE Compare
    BY <2>5, ComparesKept
  <2>6. CASE VectorThree
    BY <2>6, VectorThreeKept
  <2>7. CASE Memory
    BY <2>7, MemoryKept
  <2>8. CASE FillResource
    BY <2>8 DEF FillResource
  <2>9. CASE Launch
    BY <2>9 DEF Launch, Submits
  <2>10. CASE compute_emit_compute_state
    BY <2>10 DEF compute_emit_compute_state, Submits
  <2>11. CASE CopyOnRing
    BY <2>11 DEF CopyOnRing, Submits
  <2>12. CASE FlushCaches
    BY <2>12 DEF FlushCaches, Submits
  <2>13. CASE UNCHANGED vars
    BY <2>13 DEF vars
  <2> QED
    BY <2>1, <2>2, <2>3, <2>4, <2>5, <2>6, <2>7, <2>8, <2>9, <2>10, <2>11, <2>12, <2>13 DEF Next
<1>3. InTurn(code, calls) => ReadsBack
  BY InTurnReads
<1> QED
  BY <1>1, <1>2, <1>3, PTL DEF Spec


-----------------------------------------------------------------------------
(* Copies: the pieces of a range.                                          *)

\* The recursive function unfolds once.
LEMMA MovedBeforeEquation ==
  ASSUME NEW pieces, NEW N \in Nat, Len(pieces) = N, \A k \in 1 .. N : pieces[k].bytes \in Int
  PROVE  MovedBefore(pieces) =
           [k \in 1 .. N + 1 |-> IF k = 1 THEN 0 ELSE MovedBefore(pieces)[k - 1] + pieces[k - 1].bytes]
<1> DEFINE D == {n \in Nat : \E f : f = [k \in 1 .. n + 1 |-> IF k = 1 THEN 0 ELSE f[k - 1] + pieces[k - 1].bytes]}
<1>1. 0 \in D
  <2> DEFINE first == [k \in 1 .. 0 + 1 |-> 0]
  <2>1. first = [k \in 1 .. 0 + 1 |-> IF k = 1 THEN 0 ELSE first[k - 1] + pieces[k - 1].bytes]
    OBVIOUS
  <2> QED
    BY <2>1
<1>2. ASSUME NEW n \in 0 .. N - 1, n \in D PROVE n + 1 \in D
  <2>1. PICK e : e = [k \in 1 .. n + 1 |-> IF k = 1 THEN 0 ELSE e[k - 1] + pieces[k - 1].bytes]
    BY <1>2
  <2> DEFINE g == [k \in 1 .. (n + 1) + 1 |-> IF k = (n + 1) + 1 THEN e[n + 1] + pieces[n + 1].bytes ELSE e[k]]
  <2>2. \A k \in 1 .. (n + 1) + 1 : g[k] = IF k = 1 THEN 0 ELSE g[k - 1] + pieces[k - 1].bytes
    BY <2>1
  <2>3. g = [k \in 1 .. (n + 1) + 1 |-> IF k = 1 THEN 0 ELSE g[k - 1] + pieces[k - 1].bytes]
    BY <2>2
  <2> HIDE DEF g
  <2>4. \E f : f = [k \in 1 .. (n + 1) + 1 |-> IF k = 1 THEN 0 ELSE f[k - 1] + pieces[k - 1].bytes]
    BY <2>3
  <2> QED
    BY <2>4
<1> HIDE DEF D
<1>3. N \in D
  <2>1. 0 .. N \subseteq D
    BY <1>1, <1>2, BoundedInduction
  <2> QED
    BY <2>1
<1>4. \E f : f = [k \in 1 .. N + 1 |-> IF k = 1 THEN 0 ELSE f[k - 1] + pieces[k - 1].bytes]
  BY <1>3 DEF D
<1> QED
  BY <1>4 DEF MovedBefore

\* Pieces are whole but the last, begin where the one before ended, and end with size.
LEMMA PieceFacts ==
  ASSUME NEW size \in Nat
  PROVE  /\ Pieces(size) \in Nat /\ (Pieces(size) = 0 <=> size = 0)
         /\ \A k \in 1 .. Pieces(size) :
              /\ PieceAt(k) \in Nat /\ CurSize(size, k) \in 1 .. fragmentSize
              /\ PieceAt(k) + CurSize(size, k) = IF k = Pieces(size) THEN size ELSE PieceAt(k + 1)
              /\ PieceAt(k) + CurSize(size, k) >= size <=> k = Pieces(size)
              /\ PieceAt(k) + CurSize(size, k) <= size
<1> DEFINE F == fragmentSize
           n == Pieces(size)
           x == size + F - 1
           r == x % F
<1>1. F \in Nat \ {0}
  BY SMT DEF fragmentSize
<1> HIDE DEF F
<1>2. x \in Nat
  BY <1>1
<1>3. n = x \div F
  BY DEF Pieces, F
<1> HIDE DEF x
<1>4. n \in Nat /\ r \in 0 .. F - 1 /\ x = n * F + r
  <2>1. x \div F \in Int /\ x % F \in 0 .. F - 1 /\ x = (x \div F) * F + (x % F)
    BY <1>1, <1>2, QuotientAndRemainder
  <2>2. x \div F \in Nat
    BY <1>1, <1>2
  <2> QED
    BY <1>3, <2>1, <2>2
<1> HIDE DEF n, r
<1>5. n * F \in Nat
  BY <1>1, <1>4
<1>6. n * F >= size /\ n * F < size + F
  BY <1>1, <1>4, <1>5 DEF x
<1>7. n = 0 <=> size = 0
  <2>1. CASE n = 0
    <3>1. n * F = 0
      BY <1>1, <2>1
    <3> QED
      BY <1>6, <2>1, <3>1
  <2>2. CASE n # 0
    <3>1. n * F >= F
      <4>1. n >= 1
        BY <1>4, <2>2
      <4>2. (n - 1) * F \in Nat /\ n * F = (n - 1) * F + F
        BY <1>1, <1>4, <4>1
      <4> QED
        BY <1>1, <1>5, <4>2
    <3> QED
      BY <1>1, <1>5, <1>6, <2>2, <3>1
  <2> QED
    BY <2>1, <2>2
<1>8. ASSUME NEW k \in 1 .. n
      PROVE  /\ PieceAt(k) \in Nat /\ CurSize(size, k) \in 1 .. F
             /\ PieceAt(k) + CurSize(size, k) = IF k = n THEN size ELSE PieceAt(k + 1)
             /\ PieceAt(k) + CurSize(size, k) >= size <=> k = n
             /\ PieceAt(k) + CurSize(size, k) <= size
  <2> DEFINE p == (k - 1) * F
             q == k * F
             d == (n - k) * F
  <2>1. p \in Nat /\ q = p + F /\ d \in Nat /\ n * F = q + d
    <3>1. k \in Nat /\ k >= 1 /\ n - k \in Nat
      BY <1>4
    <3>2. (k - 1) * F \in Nat /\ k * F = (k - 1) * F + F
      BY <1>1, <3>1
    <3>3. (n - k) * F \in Nat
      BY <1>1, <3>1
    <3>4. k * F + (n - k) * F = n * F
      BY <1>1, <1>4, <3>1
    <3> QED
      BY <3>2, <3>3, <3>4
  <2>2. PieceAt(k) = p /\ PieceAt(k + 1) = q
    <3>1. PieceAt(k) = p
      BY DEF PieceAt, F
    <3>2. k + 1 - 1 = k
      BY <1>4
    <3>3. PieceAt(k + 1) = (k + 1 - 1) * F
      BY DEF PieceAt, F
    <3> QED
      BY <3>1, <3>2, <3>3
  <2>3. CurSize(size, k) = IF size - p < F THEN size - p ELSE F
    BY <2>2 DEF CurSize, F
  <2>4. k # n => d >= F
    <3>1. SUFFICES ASSUME k # n PROVE d >= F
      OBVIOUS
    <3>2. n - k >= 1 /\ n - k \in Nat
      BY <1>4, <3>1
    <3> DEFINE m == n - k
    <3> HIDE DEF m
    <3>3. m \in Nat /\ m >= 1
      BY <3>2 DEF m
    <3>4. (m - 1) * F \in Nat /\ m * F = (m - 1) * F + F
      BY <1>1, <3>3
    <3>5. m * F >= F
      BY <1>1, <3>4
    <3> QED
      BY <3>5 DEF m
  <2>5. k = n => d = 0
    BY <1>1, <1>4
  <2> HIDE DEF p, q, d
  <2> QED
    BY <1>1, <1>5, <1>6, <2>1, <2>2, <2>3, <2>4, <2>5
<1> QED
  BY <1>4, <1>7, <1>8 DEF n, F

\* What CopyReadsBack says of one call of the library.
IsMoved(job) ==
  job.what \in {"sync", "async"} =>
    LET pieces == [k \in DOMAIN job.buffers |-> CopyOf(job.what, job.buffers[k])]
        before == MovedBefore(pieces)
    IN  /\ before[Len(pieces) + 1] = job.asked.size - LeftOut(job.what, job.asked)
        /\ \A k \in DOMAIN pieces :
             /\ k = Len(pieces) \/ pieces[k].bytes > 0
             /\ pieces[k].dst = VaBits(Plus(job.asked.dst, before[k]))
             /\ pieces[k].src = VaBits(Plus(job.asked.src, before[k]))
        /\ job.what = "sync" =>
             \A k \in DOMAIN pieces :
               /\ Len(Packets(job.buffers[k])) = 1
               /\ CP_SYNC \in job.buffers[k][3] <=> k = Len(pieces)
               /\ RAW_WAIT \in job.buffers[k][6] <=> k = 1

\* A virtual address of 40 bits.
Virtual(va) ==
  va = [high |-> va.high, low |-> va.low] /\ va.low \in Nat /\ va.low <= 2147483647 /\ va.high \subseteq 31 .. 39

\* Such an address has 40 bits, and its low word and the rest make it whole.
LEMMA VirtualBits ==
  ASSUME NEW va, Virtual(va)
  PROVE  /\ VaBits(va) \subseteq 0 .. 39
         /\ LowWord(va) \cup {b + 32 : b \in Shifted(va, 32)} = VaBits(va)
         /\ Shifted(va, 32) \subseteq 0 .. 7
<1>1. Word(va.low) \subseteq 0 .. 30
  <2>1. va.low \in Nat /\ va.low < 2 ^ 31
    BY SMT DEF Virtual
  <2>2. 31 \in 0 .. 31 /\ 31 - 1 = 30
    OBVIOUS
  <2> QED
    BY <2>1, <2>2, SmallWord
<1>2. VaBits(va) \subseteq 0 .. 39
  BY <1>1 DEF VaBits, Virtual
<1> DEFINE V == VaBits(va)
           H == {c \in V : c >= 32}
           S == {b - 32 : b \in H}
<1>3. LowWord(va) = V \cap 0 .. 31 /\ Shifted(va, 32) = S
  BY DEF LowWord, Shifted, Bit
<1> HIDE DEF V
<1>4. V \subseteq 0 .. 39
  BY <1>2 DEF V
<1>5. S \subseteq 0 .. 7
  BY <1>4
<1>6. {b + 32 : b \in S} = H
  <2>1. ASSUME NEW c \in H PROVE c \in {b + 32 : b \in S}
    <3>1. c - 32 \in S /\ c = (c - 32) + 32
      BY <1>4
    <3> QED
      BY <3>1
  <2>2. ASSUME NEW c \in {b + 32 : b \in S} PROVE c \in H
    BY <1>4, <2>2
  <2> QED
    BY <2>1, <2>2
<1>7. (V \cap 0 .. 31) \cup H = V
  <2>1. ASSUME NEW b \in V PROVE b \in 0 .. 31 \/ b \in H
    <3>1. b \in 0 .. 39
      BY <1>4
    <3> QED
      BY <3>1
  <2>2. H \subseteq V
    OBVIOUS
  <2> HIDE DEF H
  <2> QED
    BY <2>1, <2>2
<1> HIDE DEF H, S
<1> QED
  BY <1>2, <1>3, <1>5, <1>6, <1>7 DEF V

\* So has the address of a piece, aligned as the whole is.
LEMMA PieceIsVirtual ==
  ASSUME NEW va \in CopyAddresses, NEW size \in CopySizes, NEW o \in Nat, o <= size
  PROVE  Virtual(Plus(va, o)) /\ (o % 4 = 0 => (DwordAligned(Plus(va, o)) <=> DwordAligned(va)))
<1>1. /\ va = [high |-> va.high, low |-> va.low] /\ va.low \in Nat /\ va.high \subseteq 31 .. 39
      /\ va.low + size <= 2147483647 /\ size \in Nat
  BY SMT, AddressesAreVirtual
<1> DEFINE x == va.low
           h == va.high
<1>2. Plus(va, o) = [high |-> h, low |-> x + o]
  BY <1>1 DEF Plus
<1> HIDE DEF x, h
<1>3. x \in Nat /\ x + size <= 2147483647 /\ size \in Nat /\ h \subseteq 31 .. 39
  BY <1>1 DEF x, h
<1>4. x + o \in Nat /\ x + o <= 2147483647
  BY SMT, <1>3
<1>5. Virtual(Plus(va, o))
  BY <1>2, <1>3, <1>4 DEF Virtual
<1>6. o % 4 = 0 => ((x + o) % 4 = 0 <=> x % 4 = 0)
  BY SMT, <1>3
<1>7. DwordAligned(Plus(va, o)) <=> (x + o) % 4 = 0
  BY <1>2 DEF DwordAligned
<1>8. DwordAligned(va) <=> x % 4 = 0
  BY DEF DwordAligned, x
<1> QED
  BY <1>5, <1>6, <1>7, <1>8


-----------------------------------------------------------------------------
(* Packets: their headers, and the buffer read from one to the next.       *)

\* Put of sid.h and the shift of code_helper.h are one, for what fits.
LEMMA PutIsShl ==
  ASSUME NEW n \in 0 .. 31, NEW d, NEW x, Fits(x, d), n + d <= 32
  PROVE  Put(Field(n, d), x) = Shl(x, n)
<1>1. Word(x) \subseteq 0 .. d - 1
  BY SmallWord DEF Fits
<1>2. d \in 0 .. 31
  BY DEF Fits
<1> DEFINE W == Word(x)
<1> HIDE DEF W
<1>3. W \subseteq 0 .. d - 1
  BY <1>1 DEF W
<1>4. W \cap 0 .. d - 1 = W
  BY <1>3
<1>5. Put(Field(n, d), x) = {b + n : b \in W}
  BY <1>4 DEF Put, Field, W
<1>6. {b + n : b \in W} \subseteq Bit
  BY <1>2, <1>3 DEF Bit
<1>7. Shl(x, n) = {b + n : b \in W} \cap Bit
  BY DEF Shl, W
<1> QED
  BY <1>5, <1>6, <1>7

\* Put stays within the field.
LEMMA PutWithin ==
  ASSUME NEW n \in 0 .. 31, NEW d, NEW x, Fits(x, d), n + d <= 32
  PROVE  Put(Field(n, d), x) \subseteq n .. n + d - 1 /\ Put(Field(n, d), x) \in SUBSET Bit
<1>1. Put(Field(n, d), x) = Shl(x, n)
  BY PutIsShl
<1> QED
  BY <1>1, Placed

\* Of the bits of a field, w has those that place x there.
Placing(w, n, d, x) ==
  /\ n \in 0 .. 31 /\ n + d <= 32 /\ Fits(x, d)
  /\ \A b \in n .. n + d - 1 : b \in w <=> b \in Put(Field(n, d), x)

\* Get reads what Put placed, whatever the other fields hold.
LEMMA GetHolds ==
  ASSUME NEW w, NEW n, NEW d, NEW x, Placing(w, n, d, x)
  PROVE  Get(Field(n, d), w) = x
<1>. n \in 0 .. 31 /\ n + d <= 32 /\ Fits(x, d)
  BY DEF Placing
<1>1. Put(Field(n, d), x) = Shl(x, n)
  BY PutIsShl
<1> DEFINE words == <<w>>
<1>2. words[1] = w
  OBVIOUS
<1>3. Get(Field(n, d), w) = G(At(1, n, d), words)
  BY <1>2 DEF Get, Field, G, At
<1> HIDE DEF words
<1>4. \A b \in n .. n + d - 1 : b \in words[1] <=> b \in Shl(x, n)
  BY <1>1, <1>2 DEF Placing
<1>5. G(At(1, n, d), words) = x
  BY <1>4, FieldIs
<1> QED
  BY <1>3, <1>5

\* What the count of a header can hold.
PacketCount == 0 .. 16383

\* Fourteen bits.
LEMMA Bits14 ==
  ASSUME NEW x \in PacketCount
  PROVE  Fits(x, 14)
  BY SMT DEF Fits, PacketCount

\* The header of a packet, read.
IsHeader(w, op, count) ==
  /\ w \in SUBSET Bit
  /\ Get(Packet.type, w) = 3 /\ Get(Packet.shaderType, w) = 1
  /\ Get(Packet.count, w) = count /\ Get(Packet.opcode, w) = op

\* The fields of a header have room for what PKT3C gives them.
LEMMA HeaderFits ==
  ASSUME NEW op \in 0 .. 255, NEW count \in PacketCount
  PROVE  Fits(3, 2) /\ Fits(count, 14) /\ Fits(op, 8) /\ Fits(1, 1)
<1>1. 3 \in 0 .. 3 /\ 1 \in 0 .. 1
  OBVIOUS
<1>2. Fits(3, 2)
  BY <1>1, Bits2
<1>3. Fits(1, 1)
  BY <1>1, Bits1
<1>4. Fits(count, 14)
  BY Bits14
<1>5. Fits(op, 8)
  BY Bits8
<1> QED
  BY <1>2, <1>3, <1>4, <1>5

\* PKT3C makes a header that is read as it was meant.
LEMMA HeaderReads ==
  ASSUME NEW op \in 0 .. 255, NEW count \in PacketCount
  PROVE  IsHeader(PKT3C(op, count), op, count)
<1> DEFINE A == Put(Field(30, 2), 3)
           B == Put(Field(16, 14), count)
           C == Put(Field(8, 8), op)
           D == Put(Field(1, 1), 1)
           w == A \cup B \cup C \cup D
<1>1. PKT3C(op, count) = w
  BY DEF PKT3C, Packet
<1>2. Fits(3, 2) /\ Fits(count, 14) /\ Fits(op, 8) /\ Fits(1, 1)
  BY HeaderFits
<1>3. A \subseteq 30 .. 30 + 2 - 1 /\ A \in SUBSET Bit
  <2>1. 30 \in 0 .. 31 /\ 30 + 2 <= 32
    OBVIOUS
  <2> QED
    BY <1>2, <2>1, PutWithin
<1>4. B \subseteq 16 .. 16 + 14 - 1 /\ B \in SUBSET Bit
  <2>1. 16 \in 0 .. 31 /\ 16 + 14 <= 32
    OBVIOUS
  <2> QED
    BY <1>2, <2>1, PutWithin
<1>5. C \subseteq 8 .. 8 + 8 - 1 /\ C \in SUBSET Bit
  <2>1. 8 \in 0 .. 31 /\ 8 + 8 <= 32
    OBVIOUS
  <2> QED
    BY <1>2, <2>1, PutWithin
<1>6. D \subseteq 1 .. 1 + 1 - 1 /\ D \in SUBSET Bit
  <2>1. 1 \in 0 .. 31 /\ 1 + 1 <= 32
    OBVIOUS
  <2> QED
    BY <1>2, <2>1, PutWithin
<1>7. /\ \A b \in 30 .. 30 + 2 - 1 : b \in w <=> b \in A
      /\ \A b \in 16 .. 16 + 14 - 1 : b \in w <=> b \in B
      /\ \A b \in 8 .. 8 + 8 - 1 : b \in w <=> b \in C
      /\ \A b \in 1 .. 1 + 1 - 1 : b \in w <=> b \in D
  <2> HIDE DEF A, B, C, D
  <2>1. /\ \A b \in A : b \in Int /\ b >= 30
        /\ \A b \in B : b \in Int /\ b >= 16 /\ b <= 29
        /\ \A b \in C : b \in Int /\ b >= 8 /\ b <= 15
        /\ \A b \in D : b \in Int /\ b = 1
    BY <1>3, <1>4, <1>5, <1>6
  <2> QED
    BY <2>1
<1>8. w \in SUBSET Bit
  BY <1>3, <1>4, <1>5, <1>6
<1> HIDE DEF w
<1>9. Get(Field(30, 2), w) = 3
  <2>1. 30 \in 0 .. 31 /\ 30 + 2 <= 32
    OBVIOUS
  <2>2. Placing(w, 30, 2, 3)
    BY <1>2, <1>7, <2>1 DEF Placing
  <2> QED
    BY <2>2, GetHolds
<1>10. Get(Field(16, 14), w) = count
  <2>1. 16 \in 0 .. 31 /\ 16 + 14 <= 32
    OBVIOUS
  <2>2. Placing(w, 16, 14, count)
    BY <1>2, <1>7, <2>1 DEF Placing
  <2> QED
    BY <2>2, GetHolds
<1>11. Get(Field(8, 8), w) = op
  <2>1. 8 \in 0 .. 31 /\ 8 + 8 <= 32
    OBVIOUS
  <2>2. Placing(w, 8, 8, op)
    BY <1>2, <1>7, <2>1 DEF Placing
  <2> QED
    BY <2>2, GetHolds
<1>12. Get(Field(1, 1), w) = 1
  <2>1. 1 \in 0 .. 31 /\ 1 + 1 <= 32
    OBVIOUS
  <2>2. Placing(w, 1, 1, 1)
    BY <1>2, <1>7, <2>1 DEF Placing
  <2> QED
    BY <2>2, GetHolds
<1>13. /\ Packet.type = Field(30, 2) /\ Packet.count = Field(16, 14)
       /\ Packet.opcode = Field(8, 8) /\ Packet.shaderType = Field(1, 1)
  BY DEF Packet
<1> QED
  BY <1>1, <1>8, <1>9, <1>10, <1>11, <1>12, <1>13 DEF IsHeader

\* What the header at word i makes of the packets behind it.
PacketsAt(from, buffer, i) ==
  IF i > Len(buffer) THEN <<>>
  ELSE LET count == Get(Packet.count, buffer[i]) + 1
       IN  IF Get(Packet.type, buffer[i]) # 3 \/ Get(Packet.shaderType, buffer[i]) # 1 \/ i + count > Len(buffer)
           THEN <<[opcode |-> -1, body |-> <<>>]>>
           ELSE <<[opcode |-> Get(Packet.opcode, buffer[i]), body |-> SubSeq(buffer, i + 1, i + count)]>>
                \o from[i + count + 1]

\* A count is never negative, of any word.
LEMMA CountIsNatural ==
  ASSUME NEW w
  PROVE  Get(Packet.count, w) \in Nat
<1> DEFINE S == {b - 16 : b \in w \cap 16 .. 29}
<1>1. S \in SUBSET Bit
  BY DEF Bit
<1>2. Get(Packet.count, w) = Number(S)
  <2> DEFINE f == Packet.count
  <2>1. f.shift = 16 /\ f.width = 14
    BY DEF Packet, Field
  <2> HIDE DEF f
  <2>2. 16 + 14 - 1 = 29
    OBVIOUS
  <2>3. Get(f, w) = Number({b - 16 : b \in w \cap 16 .. 16 + 14 - 1})
    BY <2>1 DEF Get
  <2> QED
    BY <2>2, <2>3 DEF f
<1> HIDE DEF S
<1>3. Number(S) \in 0 .. 2 ^ 32 - 1
  BY <1>1, NumberRange
<1> QED
  BY <1>2, <1>3

\* The packets from i on depend on those behind i alone.
LEMMA PacketsLocal ==
  ASSUME NEW e, NEW g, NEW buffer, Len(buffer) \in Nat, NEW i \in 1 .. Len(buffer) + 1,
         \A j \in i + 1 .. Len(buffer) + 1 : e[j] = g[j]
  PROVE  PacketsAt(e, buffer, i) = PacketsAt(g, buffer, i)
<1> DEFINE c == Get(Packet.count, buffer[i])
           N == Len(buffer)
<1>1. c \in Nat
  BY CountIsNatural
<1>2. CASE i > N
  BY <1>2 DEF PacketsAt
<1>3. CASE i <= N /\ i + (c + 1) <= N
  <2> DEFINE j == i + (c + 1) + 1
  <2>1. j \in i + 1 .. N + 1
    <3> HIDE DEF c, N
    <3> QED
      BY <1>1, <1>3 DEF N
  <2>2. e[j] = g[j]
    BY <2>1
  <2> QED
    BY <2>2 DEF PacketsAt
<1>4. CASE i <= N /\ ~(i + (c + 1) <= N)
  <2>1. i + (c + 1) > N
    <3> HIDE DEF c, N
    <3> QED
      BY <1>1, <1>4 DEF N
  <2>2. ~(i > N)
    BY <1>4
  <2> QED
    BY <2>1, <2>2 DEF PacketsAt
<1> QED
  BY <1>2, <1>3, <1>4

\* The recursive function unfolds once.
LEMMA PacketsEquation ==
  ASSUME NEW buffer, Len(buffer) \in Nat
  PROVE  /\ PacketsFrom(buffer) = [i \in 1 .. Len(buffer) + 1 |-> PacketsAt(PacketsFrom(buffer), buffer, i)]
         /\ \A i \in 1 .. Len(buffer) + 1 : PacketsFrom(buffer)[i] = PacketsAt(PacketsFrom(buffer), buffer, i)
<1> DEFINE N == Len(buffer)
<1> HIDE DEF N
<1>1. N \in Nat
  BY DEF N
<1> DEFINE From(m) == \E f : f = [i \in m .. N + 1 |-> PacketsAt(f, buffer, i)]
           D == {n \in Nat : From(N + 1 - n)}
<1>2. 0 \in D
  <2> DEFINE f == [i \in N + 1 .. N + 1 |-> <<>>]
  <2>1. \A i \in N + 1 .. N + 1 : PacketsAt(f, buffer, i) = <<>>
    <3> SUFFICES ASSUME NEW i \in N + 1 .. N + 1 PROVE PacketsAt(f, buffer, i) = <<>>
      OBVIOUS
    <3>1. i > Len(buffer)
      BY <1>1 DEF N
    <3> QED
      BY <3>1 DEF PacketsAt
  <2>2. f = [i \in N + 1 .. N + 1 |-> PacketsAt(f, buffer, i)]
    BY <2>1
  <2> HIDE DEF f
  <2>3. From(N + 1)
    BY <2>2
  <2>4. N + 1 - 0 = N + 1
    BY <1>1
  <2> QED
    BY <2>3, <2>4
<1>3. ASSUME NEW n \in 0 .. N - 1, n \in D PROVE n + 1 \in D
  <2> DEFINE m == N - n
  <2>1. m \in 1 .. N /\ N + 1 - n = m + 1 /\ N + 1 - (n + 1) = m /\ n + 1 \in Nat
    BY <1>1
  <2>2. From(m + 1)
    BY <1>3, <2>1
  <2>3. PICK e : e = [i \in m + 1 .. N + 1 |-> PacketsAt(e, buffer, i)]
    BY <2>2
  <2> HIDE DEF m
  <2> DEFINE g == [i \in m .. N + 1 |-> IF i = m THEN PacketsAt(e, buffer, m) ELSE e[i]]
  <2>4. \A i \in m + 1 .. N + 1 : g[i] = e[i]
    BY <1>1, <2>1
  <2>5. ASSUME NEW i \in m .. N + 1 PROVE g[i] = PacketsAt(g, buffer, i)
    <3>1. i \in 1 .. Len(buffer) + 1 /\ \A j \in i + 1 .. Len(buffer) + 1 : e[j] = g[j]
      BY <1>1, <2>1, <2>4 DEF N
    <3> DEFINE r == PacketsAt(e, buffer, i)
    <3>2. g[i] = r
      <4>1. CASE i = m
        BY <4>1
      <4>2. CASE i # m
        <5>1. i \in m + 1 .. N + 1
          BY <1>1, <2>1, <4>2
        <5>2. e[i] = r
          BY <2>3, <5>1
        <5> QED
          BY <2>4, <5>1, <5>2
      <4> QED
        BY <4>1, <4>2
    <3> HIDE DEF g
    <3>3. r = PacketsAt(g, buffer, i)
      <4>1. Len(buffer) \in Nat
        OBVIOUS
      <4> QED
        BY <3>1, <4>1, PacketsLocal
    <3> QED
      BY <3>2, <3>3
  <2>6. g = [i \in m .. N + 1 |-> PacketsAt(g, buffer, i)]
    BY <2>5
  <2> HIDE DEF g
  <2>7. From(m)
    BY <2>6
  <2> QED
    BY <2>1, <2>7
<1> HIDE DEF D
<1>4. N \in D
  <2>1. 0 .. N \subseteq D
    BY <1>1, <1>2, <1>3, BoundedInduction
  <2> QED
    BY <1>1, <2>1
<1>5. From(1)
  <2>1. N + 1 - N = 1
    BY <1>1
  <2> QED
    BY <1>4, <2>1 DEF D
<1>6. PacketsFrom(buffer) = CHOOSE f : f = [i \in 1 .. N + 1 |-> PacketsAt(f, buffer, i)]
  BY DEF PacketsFrom, PacketsAt, N
<1>7. PacketsFrom(buffer) = [i \in 1 .. N + 1 |-> PacketsAt(PacketsFrom(buffer), buffer, i)]
  BY <1>5, <1>6
<1> QED
  BY <1>7 DEF N

\* A buffer of one packet.
LEMMA OnePacket ==
  ASSUME NEW buffer, NEW n \in PacketCount, NEW op, Len(buffer) = n + 2, IsHeader(buffer[1], op, n)
  PROVE  Packets(buffer) = <<[opcode |-> op, body |-> SubSeq(buffer, 2, n + 2)]>>
<1> DEFINE from == PacketsFrom(buffer)
<1> n \in Nat
  BY SMT DEF PacketCount
<1>1. Len(buffer) \in Nat /\ 1 \in 1 .. Len(buffer) + 1 /\ n + 3 \in 1 .. Len(buffer) + 1
  OBVIOUS
<1>2. from[1] = PacketsAt(from, buffer, 1) /\ from[n + 3] = PacketsAt(from, buffer, n + 3)
  BY <1>1, PacketsEquation
<1> HIDE DEF from
<1>3. PacketsAt(from, buffer, n + 3) = <<>>
  <2>1. n + 3 > Len(buffer)
    OBVIOUS
  <2> QED
    BY <2>1 DEF PacketsAt
<1> DEFINE p == [opcode |-> op, body |-> SubSeq(buffer, 2, n + 2)]
<1>4. PacketsAt(from, buffer, 1) = <<p>> \o from[n + 3]
  <2>1. /\ Get(Packet.type, buffer[1]) = 3 /\ Get(Packet.shaderType, buffer[1]) = 1
        /\ Get(Packet.count, buffer[1]) = n /\ Get(Packet.opcode, buffer[1]) = op
    BY DEF IsHeader
  <2> DEFINE c == Get(Packet.count, buffer[1]) + 1
             q == [opcode |-> Get(Packet.opcode, buffer[1]), body |-> SubSeq(buffer, 1 + 1, 1 + c)]
  <2>2. ~(1 > Len(buffer)) /\ ~(1 + c > Len(buffer)) /\ 1 + c + 1 = n + 3 /\ 1 + c = n + 2 /\ 1 + 1 = 2
    BY <2>1
  <2>3. q = p /\ from[1 + c + 1] = from[n + 3]
    BY <2>1, <2>2
  <2>4. PacketsAt(from, buffer, 1) =
          IF 1 > Len(buffer) THEN <<>>
          ELSE IF Get(Packet.type, buffer[1]) # 3 \/ Get(Packet.shaderType, buffer[1]) # 1 \/ 1 + c > Len(buffer)
               THEN <<[opcode |-> -1, body |-> <<>>]>>
               ELSE <<q>> \o from[1 + c + 1]
    BY DEF PacketsAt
  <2> HIDE DEF c, p, q
  <2>5. PacketsAt(from, buffer, 1) = <<q>> \o from[1 + c + 1]
    BY <2>1, <2>2, <2>4
  <2> QED
    BY <2>3, <2>5
<1>5. <<p>> \o <<>> = <<p>>
  <2> HIDE DEF p
  <2>1. <<p>> \in Seq({p})
    OBVIOUS
  <2> QED
    BY <2>1
<1> QED
  BY <1>2, <1>3, <1>4, <1>5 DEF Packets, from


\* The bytes of one piece.
PieceSize == {n \in Nat : 0 < n /\ n <= fragmentSize}

-----------------------------------------------------------------------------
(* Copies: what each request of a ring says.                               *)

\* A piece has a count of 20 bits: what both rings can move in one request.
LEMMA PieceSizeFits ==
  ASSUME NEW cur \in PieceSize
  PROVE  cur \in Nat \ {0} /\ Fits(cur, 21) /\ Fits(cur, 20)
  BY SMT DEF Fits, PieceSize, fragmentSize

\* So has its count of dwords.
LEMMA QuarterFits ==
  ASSUME NEW cur \in PieceSize
  PROVE  cur \div 4 \in Nat /\ Fits(cur \div 4, 20) /\ (cur \div 4) * 4 = cur - (cur % 4)
<1>1. cur \in Nat /\ cur <= 524288
  BY SMT DEF PieceSize, fragmentSize
<1>2. 4 \in Nat \ {0} /\ cur \in Int
  BY SMT, <1>1
<1>3. cur \div 4 \in Int /\ cur % 4 \in 0 .. 4 - 1 /\ cur = (cur \div 4) * 4 + (cur % 4)
  BY <1>2, QuotientAndRemainder
<1> DEFINE q == cur \div 4
           r == cur % 4
<1> HIDE DEF q, r
<1>4. q \in Int /\ r \in 0 .. 3 /\ cur = q * 4 + r
  BY <1>3 DEF q, r
<1>5. q \in Nat /\ q < 1048576
  BY SMT, <1>1, <1>4
<1>6. Fits(q, 20)
  BY SMT, <1>5 DEF Fits
<1>7. q * 4 = cur - r
  BY SMT, <1>4
<1> QED
  BY <1>5, <1>6, <1>7 DEF q, r

\* The address a packet gives, from its low word and the bits above.
\* The bits that go into the second word are the ones the first leaves out.
LEMMA AddressReads ==
  ASSUME NEW va, Virtual(va)
  PROVE  /\ LowWord(va) \cup {b + 32 : b \in Shifted(va, 32) \cap 0 .. 15} = VaBits(va)
         /\ LowWord(va) \cup {b + 32 : b \in Shifted(va, 32) \cap 0 .. 7} = VaBits(va)
         /\ Shifted(va, 32) \in SUBSET (0 .. 7)
<1> DEFINE S == Shifted(va, 32)
<1>1. S \subseteq 0 .. 7 /\ LowWord(va) \cup {b + 32 : b \in S} = VaBits(va)
  BY VirtualBits
<1> HIDE DEF S
<1>2. S \cap 0 .. 15 = S /\ S \cap 0 .. 7 = S
  <2>1. \A b \in S : b \in 0 .. 7
    BY <1>1
  <2>2. \A b \in 0 .. 7 : b \in 0 .. 15
    OBVIOUS
  <2> QED
    BY <2>1, <2>2
<1> QED
  BY <1>1, <1>2 DEF S

\* What the one packet says that moves a piece on the compute ring.
IsSyncRequest(buffer, dst, src, cur, last, wait) ==
  /\ CopyOf("sync", buffer) = [dst |-> VaBits(dst), src |-> VaBits(src), bytes |-> cur]
  /\ Len(Packets(buffer)) = 1
  /\ CP_SYNC \in buffer[3] <=> last
  /\ RAW_WAIT \in buffer[6] <=> wait

\* A request to the CP is one packet, and says the piece, the sync and the wait.
LEMMA SyncRequest ==
  ASSUME NEW dst, NEW src, NEW cur \in PieceSize, NEW last \in BOOLEAN, NEW wait \in BOOLEAN,
         Virtual(dst), Virtual(src)
  PROVE  IsSyncRequest(compute_send_sync_dma_req(dst, src, cur, last, wait, TRUE), dst, src, cur, last, wait)
<1> DEFINE buffer == compute_send_sync_dma_req(dst, src, cur, last, wait, TRUE)
           S == Shifted(src, 32)
           D == Shifted(dst, 32)
           third == (IF last THEN {31} ELSE {}) \cup {27} \cup (S \cap 0 .. 15)
           fifth == D \cap 0 .. 15
           sixth == (IF wait THEN {30} ELSE {}) \cup Word(cur)
<1>1. /\ buffer[1] = PKT3C(\h41, 4) /\ buffer[2] = LowWord(src) /\ buffer[3] = third /\ buffer[4] = LowWord(dst)
      /\ buffer[5] = fifth /\ buffer[6] = sixth /\ Len(buffer) = 6
  BY DEF compute_send_sync_dma_req, Opcodes, CP_SYNC, ENGINE, RAW_WAIT
<1> HIDE DEF buffer
<1>2. S \subseteq 0 .. 7 /\ D \subseteq 0 .. 7
  BY AddressReads
<1>3. third \cap 0 .. 15 = S \cap 0 .. 15 /\ fifth \cap 0 .. 15 = D \cap 0 .. 15
  <2> HIDE DEF S, D
  <2> QED
    BY <1>2
<1>4. CP_SYNC \in buffer[3] <=> last
  <2> HIDE DEF S, D
  <2> QED
    BY <1>1, <1>2 DEF CP_SYNC
<1> HIDE DEF third, fifth
<1>5. Fits(cur, 21)
  BY PieceSizeFits
<1>6. Word(cur) \subseteq 0 .. 20
  <2>1. Word(cur) \subseteq 0 .. 21 - 1
    BY <1>5, SmallWord DEF Fits
  <2>2. 21 - 1 = 20
    OBVIOUS
  <2> QED
    BY <2>1, <2>2
<1>7. RAW_WAIT \in buffer[6] <=> wait
  <2> DEFINE W == Word(cur)
  <2> HIDE DEF W
  <2>1. W \subseteq 0 .. 20
    BY <1>6 DEF W
  <2>2. sixth = (IF wait THEN {30} ELSE {}) \cup W
    BY DEF W
  <2>3. 30 \in sixth <=> wait
    BY <2>1, <2>2
  <2> HIDE DEF sixth
  <2> QED
    BY <1>1, <2>3 DEF RAW_WAIT
<1>8. Get(BYTE_COUNT, buffer[6]) = cur
  <2> DEFINE W == Word(cur)
             P == Put(Field(0, 21), cur)
  <2>1. P = {b + 0 : b \in W \cap 0 .. 21 - 1}
    BY DEF Put, Field
  <2> HIDE DEF W, P
  <2>2. W \subseteq 0 .. 20
    BY <1>6 DEF W
  <2>3. P = W
    <3>1. ASSUME NEW b \in W PROVE b \in P
      <4>1. b \in Int /\ b \in 0 .. 21 - 1
        BY <2>2
      <4>2. b = b + 0 /\ b \in W \cap 0 .. 21 - 1
        BY <4>1
      <4> QED
        BY <2>1, <4>2
    <3>2. ASSUME NEW b \in P PROVE b \in W
      BY <2>1, <2>2
    <3> QED
      BY <3>1, <3>2
  <2>4. sixth = (IF wait THEN {30} ELSE {}) \cup W
    BY DEF W
  <2>5. \A b \in 0 .. 0 + 21 - 1 : b \in sixth <=> b \in P
    BY <2>2, <2>3, <2>4
  <2> HIDE DEF sixth
  <2>6. 0 \in 0 .. 31 /\ 0 + 21 <= 32
    OBVIOUS
  <2>7. Placing(sixth, 0, 21, cur)
    BY <1>5, <2>5, <2>6 DEF Placing, P
  <2>8. Get(Field(0, 21), sixth) = cur
    BY <2>7, GetHolds
  <2> QED
    BY <1>1, <2>8 DEF BYTE_COUNT
<1> HIDE DEF sixth
<1>9. CopyOf("sync", buffer) = [dst |-> VaBits(dst), src |-> VaBits(src), bytes |-> cur]
  <2>1. buffer[4] \cup {b + 32 : b \in buffer[5] \cap 0 .. 15} = VaBits(dst)
    <3>1. buffer[5] \cap 0 .. 15 = D \cap 0 .. 15
      BY <1>1, <1>3
    <3> HIDE DEF D
    <3>2. LowWord(dst) \cup {b + 32 : b \in D \cap 0 .. 15} = VaBits(dst)
      BY AddressReads DEF D
    <3> QED
      BY <1>1, <3>1, <3>2
  <2>2. buffer[2] \cup {b + 32 : b \in buffer[3] \cap 0 .. 15} = VaBits(src)
    <3>1. buffer[3] \cap 0 .. 15 = S \cap 0 .. 15
      BY <1>1, <1>3
    <3> HIDE DEF S
    <3>2. LowWord(src) \cup {b + 32 : b \in S \cap 0 .. 15} = VaBits(src)
      BY AddressReads DEF S
    <3> QED
      BY <1>1, <3>1, <3>2
  <2> QED
    BY <1>8, <2>1, <2>2 DEF CopyOf
<1>10. Len(Packets(buffer)) = 1
  <2>1. 4 \in PacketCount /\ \h41 \in 0 .. 255
    BY SMT DEF PacketCount
  <2>2. IsHeader(buffer[1], \h41, 4)
    BY <1>1, <2>1, HeaderReads
  <2>3. Len(buffer) = 4 + 2
    BY <1>1
  <2>4. Packets(buffer) = <<[opcode |-> \h41, body |-> SubSeq(buffer, 2, 4 + 2)]>>
    BY <2>1, <2>2, <2>3, OnePacket
  <2> QED
    BY <2>4
<1> QED
  BY <1>4, <1>7, <1>9, <1>10 DEF buffer, IsSyncRequest

\* The header of the DMA ring reads back.
LEMMA DmaHeaderReads ==
  ASSUME NEW sub \in 0 .. 255, NEW n, Fits(n, 20)
  PROVE  Get(Dma.n, DMA_PACKET(3, sub, n)) = n /\ Get(Dma.sub_cmd, DMA_PACKET(3, sub, n)) = sub
<1> DEFINE A == Put(Field(28, 4), 3)
           B == Put(Field(20, 8), sub)
           C == Put(Field(0, 20), n)
           w == A \cup B \cup C
<1>1. DMA_PACKET(3, sub, n) = w
  BY DEF DMA_PACKET, Dma
<1>2. Fits(3, 4) /\ Fits(sub, 8)
  <2>1. 3 \in 0 .. 15
    OBVIOUS
  <2> QED
    BY <2>1, Bits4, Bits8
<1>3. A \subseteq 28 .. 28 + 4 - 1 /\ A \in SUBSET Bit
  <2>1. 28 \in 0 .. 31 /\ 28 + 4 <= 32
    OBVIOUS
  <2> QED
    BY <1>2, <2>1, PutWithin
<1>4. B \subseteq 20 .. 20 + 8 - 1 /\ B \in SUBSET Bit
  <2>1. 20 \in 0 .. 31 /\ 20 + 8 <= 32
    OBVIOUS
  <2> QED
    BY <1>2, <2>1, PutWithin
<1>5. C \subseteq 0 .. 0 + 20 - 1 /\ C \in SUBSET Bit
  <2>1. 0 \in 0 .. 31 /\ 0 + 20 <= 32
    OBVIOUS
  <2> QED
    BY <2>1, PutWithin
<1>6. /\ \A b \in 20 .. 20 + 8 - 1 : b \in w <=> b \in B
      /\ \A b \in 0 .. 0 + 20 - 1 : b \in w <=> b \in C
  <2> HIDE DEF A, B, C
  <2>1. /\ \A b \in A : b \in Int /\ b >= 28
        /\ \A b \in B : b \in Int /\ b >= 20 /\ b <= 27
        /\ \A b \in C : b \in Int /\ b <= 19
    BY <1>3, <1>4, <1>5
  <2> QED
    BY <2>1
<1> HIDE DEF w
<1>7. Get(Field(20, 8), w) = sub
  <2>1. 20 \in 0 .. 31 /\ 20 + 8 <= 32
    OBVIOUS
  <2>2. Placing(w, 20, 8, sub)
    BY <1>2, <1>6, <2>1 DEF Placing
  <2> QED
    BY <2>2, GetHolds
<1>8. Get(Field(0, 20), w) = n
  <2>1. 0 \in 0 .. 31 /\ 0 + 20 <= 32
    OBVIOUS
  <2>2. Placing(w, 0, 20, n)
    BY <1>6, <2>1 DEF Placing
  <2> QED
    BY <2>2, GetHolds
<1>9. Dma.n = Field(0, 20) /\ Dma.sub_cmd = Field(20, 8)
  BY DEF Dma
<1> QED
  BY <1>1, <1>7, <1>8, <1>9

\* A request to the DMA ring says the piece, in whole dwords or in bytes.
LEMMA AsyncRequest ==
  ASSUME NEW dst, NEW src, NEW cur \in PieceSize, Virtual(dst), Virtual(src)
  PROVE  CopyOf("async", compute_send_async_dma_req(dst, src, cur)) =
           [dst |-> VaBits(dst), src |-> VaBits(src),
            bytes |-> IF DwordAligned(src) /\ DwordAligned(dst) THEN cur - (cur % 4) ELSE cur]
<1> DEFINE buffer == compute_send_async_dma_req(dst, src, cur)
           aligned == DwordAligned(src) /\ DwordAligned(dst)
           q == cur \div 4
           header == IF aligned THEN DMA_PACKET(3, 0, q) ELSE DMA_PACKET(3, \h40, cur)
<1>1. /\ buffer[1] = header /\ buffer[2] = LowWord(dst) /\ buffer[3] = LowWord(src)
      /\ buffer[4] = Shifted(dst, 32) \cap 0 .. 7 /\ buffer[5] = Shifted(src, 32) \cap 0 .. 7
  BY DEF compute_send_async_dma_req, DMA_PACKET_COPY
<1> DEFINE units == Get(Dma.n, header)
           sub == Get(Dma.sub_cmd, header)
           bytes == units * (IF sub = 0 THEN 4 ELSE 1)
<1>2. bytes = IF aligned THEN cur - (cur % 4) ELSE cur
  <2>1. CASE aligned
    <3>1. Fits(q, 20) /\ 0 \in 0 .. 255
      BY QuarterFits
    <3>2. units = q /\ sub = 0
      BY <2>1, <3>1, DmaHeaderReads
    <3>3. q * 4 = cur - (cur % 4)
      BY QuarterFits
    <3> HIDE DEF units, sub, q, header
    <3> QED
      BY <2>1, <3>2, <3>3
  <2>2. CASE ~aligned
    <3>1. Fits(cur, 20) /\ \h40 \in 0 .. 255 /\ cur \in Nat
      BY PieceSizeFits
    <3>2. units = cur /\ sub = \h40
      BY <2>2, <3>1, DmaHeaderReads
    <3> HIDE DEF units, sub, q, header
    <3> QED
      BY <2>2, <3>1, <3>2
  <2> QED
    BY <2>1, <2>2
<1> HIDE DEF header, buffer
<1>3. buffer[2] \cup {b + 32 : b \in buffer[4]} = VaBits(dst)
  BY <1>1, AddressReads
<1>4. buffer[3] \cup {b + 32 : b \in buffer[5]} = VaBits(src)
  BY <1>1, AddressReads
<1>5. CopyOf("async", buffer) =
        [dst |-> buffer[2] \cup {b + 32 : b \in buffer[4]}, src |-> buffer[3] \cup {b + 32 : b \in buffer[5]},
         bytes |-> bytes]
  BY <1>1 DEF CopyOf
<1> HIDE DEF bytes
<1> QED
  BY <1>2, <1>3, <1>4, <1>5 DEF buffer


-----------------------------------------------------------------------------
(* CopyReadsBack.                                                          *)

\* Each piece moves its bytes, but for those the last one leaves out.
PiecesMove(pieces, size, left) ==
  \A k \in 1 .. Pieces(size) :
    pieces[k].bytes = CurSize(size, k) - IF k = Pieces(size) THEN left ELSE 0

\* Before piece k, k - 1 whole pieces were moved, and in the end all of size but
\* what the last one leaves out.
LEMMA MovedUntil ==
  ASSUME NEW size \in Nat, NEW left \in Nat, size = 0 => left = 0, NEW pieces, Len(pieces) = Pieces(size),
         PiecesMove(pieces, size, left)
  PROVE  /\ MovedBefore(pieces)[Pieces(size) + 1] = size - left
         /\ \A k \in 1 .. Pieces(size) : MovedBefore(pieces)[k] = PieceAt(k)
<1> DEFINE N == Pieces(size)
           before == MovedBefore(pieces)
           End(k) == PieceAt(k) + CurSize(size, k)
<1> USE DEF PiecesMove
<1>1. N \in Nat /\ (N = 0 <=> size = 0)
  BY PieceFacts
<1>2. \A k \in 1 .. N : /\ PieceAt(k) \in Nat /\ CurSize(size, k) \in 1 .. fragmentSize
                        /\ End(k) = IF k = N THEN size ELSE PieceAt(k + 1)
  BY PieceFacts
<1>3. fragmentSize \in Nat
  BY SMT DEF fragmentSize
<1>4. \A k \in 1 .. N : pieces[k].bytes \in Int
  <2>1. \A k \in 1 .. N : CurSize(size, k) \in Int
    BY <1>2, <1>3
  <2> QED
    BY <2>1
<1>5. before = [k \in 1 .. N + 1 |-> IF k = 1 THEN 0 ELSE before[k - 1] + pieces[k - 1].bytes]
  <2>1. Len(pieces) = N
    OBVIOUS
  <2> HIDE DEF N
  <2> QED
    BY <1>1, <1>4, <2>1, MovedBeforeEquation
<1> HIDE DEF N, before
<1>6. before[1] = 0
  <2>1. 1 \in 1 .. N + 1
    BY <1>1
  <2> QED
    BY <1>5, <2>1
<1>7. \A k \in 1 .. N : before[k + 1] = before[k] + pieces[k].bytes
  <2> SUFFICES ASSUME NEW k \in 1 .. N PROVE before[k + 1] = before[k] + pieces[k].bytes
    OBVIOUS
  <2>1. k + 1 \in 1 .. N + 1 /\ k + 1 # 1 /\ k + 1 - 1 = k
    BY <1>1
  <2> DEFINE j == k + 1
  <2>2. before[j] = IF j = 1 THEN 0 ELSE before[j - 1] + pieces[j - 1].bytes
    BY <1>5, <2>1
  <2>3. before[j] = before[k] + pieces[k].bytes
    BY <2>1, <2>2
  <2> QED
    BY <2>3
<1>8. CASE N = 0
  <2>1. before[N + 1] = size - left
    BY <1>1, <1>6, <1>8
  <2> QED
    BY <1>8, <2>1 DEF N, before
<1>9. CASE N # 0
  <2> DEFINE D == {i \in Nat : before[i + 1] = PieceAt(i + 1)}
  <2>1. 0 \in D
    <3>1. PieceAt(0 + 1) = 0
      BY <1>3 DEF PieceAt
    <3>2. 0 + 1 = 1
      OBVIOUS
    <3> QED
      BY <1>6, <3>1, <3>2
  <2>2. ASSUME NEW i \in 0 .. N - 1 - 1, i \in D PROVE i + 1 \in D
    <3> DEFINE k == i + 1
    <3>1. k \in 1 .. N /\ k # N /\ k \in Nat
      BY <1>1
    <3>2. before[k] = PieceAt(k)
      BY <2>2
    <3> HIDE DEF k
    <3>4. pieces[k].bytes = CurSize(size, k)
      <4>1. pieces[k].bytes = CurSize(size, k) - 0
        BY <3>1 DEF N
      <4> QED
        BY <1>2, <1>3, <3>1, <4>1
    <3>3. before[k + 1] = PieceAt(k + 1)
      BY <1>2, <1>7, <3>1, <3>2, <3>4
    <3> QED
      BY <3>1, <3>3 DEF k
  <2> HIDE DEF D
  <2>3. N - 1 \in Nat
    BY <1>1, <1>9
  <2>4. 0 .. N - 1 \subseteq D
    BY <2>1, <2>2, <2>3, BoundedInduction
  <2>5. \A k \in 1 .. N : before[k] = PieceAt(k)
    <3> SUFFICES ASSUME NEW k \in 1 .. N PROVE before[k] = PieceAt(k)
      OBVIOUS
    <3>1. k - 1 \in 0 .. N - 1 /\ (k - 1) + 1 = k
      BY <1>1
    <3>2. k - 1 \in D
      BY <2>4, <3>1
    <3> QED
      BY <3>1, <3>2 DEF D
  <2>6. before[N + 1] = size - left
    <3>1. N \in 1 .. N
      BY <1>1, <1>9
    <3>2. pieces[N].bytes = CurSize(size, N) - left
      BY <3>1 DEF N
    <3>3. before[N] = PieceAt(N) /\ before[N + 1] = before[N] + pieces[N].bytes
      BY <1>7, <2>5, <3>1
    <3>4. PieceAt(N) + CurSize(size, N) = size /\ PieceAt(N) \in Nat /\ CurSize(size, N) \in Int
      BY <1>2, <1>3, <3>1
    <3> QED
      BY <3>2, <3>3, <3>4
  <2> QED
    BY <2>5, <2>6 DEF N, before
<1> QED
  BY <1>8, <1>9

\* What PieceFacts says of a piece, without the arithmetic.
LEMMA PieceOf ==
  ASSUME NEW size \in Nat, NEW k \in 1 .. Pieces(size)
  PROVE  /\ PieceAt(k) \in Nat /\ PieceAt(k) <= size /\ PieceAt(k) % 4 = 0
         /\ CurSize(size, k) \in PieceSize /\ CurSize(size, k) > 0
         /\ PieceAt(k) + CurSize(size, k) >= size <=> k = Pieces(size)
         /\ CurSize(size, k) % 4 = IF k = Pieces(size) THEN size % 4 ELSE 0
<1> DEFINE p == PieceAt(k)
           c == CurSize(size, k)
<1>1. p \in Nat /\ c \in 1 .. fragmentSize /\ p + c <= size /\ (p + c >= size <=> k = Pieces(size))
  BY PieceFacts
<1>2. p = (k - 1) * 524288 /\ fragmentSize = 524288
  BY DEF PieceAt, fragmentSize
<1>3. k \in Int
  <2>1. Pieces(size) \in Nat
    BY PieceFacts
  <2> QED
    BY <2>1
<1>4. ((k - 1) * 524288) % 4 = 0
  BY SMT, <1>3
<1>5. c = IF size - p < fragmentSize THEN size - p ELSE fragmentSize
  BY DEF CurSize
<1> HIDE DEF p, c
<1>6. c \in Nat /\ 0 < c /\ c <= fragmentSize
  <2>1. fragmentSize \in Nat
    BY SMT DEF fragmentSize
  <2> QED
    BY <1>1, <2>1
<1>7. p % 4 = 0
  BY <1>2, <1>4
<1>8. c % 4 = IF k = Pieces(size) THEN size % 4 ELSE 0
  <2>1. ASSUME k = Pieces(size) PROVE c % 4 = size % 4
    <3>1. c \in Nat /\ size \in Nat /\ p \in Nat
      BY <1>1, <1>6
    <3>2. c = size - p
      BY <1>1, <2>1, <3>1
    <3> QED
      BY SMT, <1>7, <3>1, <3>2
  <2>2. ASSUME k # Pieces(size) PROVE c % 4 = 0
    <3>1. c = fragmentSize
      BY <1>1, <1>5, <1>6, <2>2
    <3> QED
      BY SMT, <1>2, <3>1
  <2> QED
    BY <2>1, <2>2
<1>9. p <= size
  BY <1>1, <1>6
<1> QED
  BY <1>1, <1>6, <1>7, <1>8, <1>9 DEF p, c, PieceSize

\* One copy, as the packets say it, of a whole that is cut into pieces.
IsPieceOf(piece, what, asked, k) ==
  piece = [dst |-> VaBits(Plus(asked.dst, PieceAt(k))), src |-> VaBits(Plus(asked.src, PieceAt(k))),
           bytes |-> CurSize(asked.size, k) - IF k = Pieces(asked.size) THEN LeftOut(what, asked) ELSE 0]

\* A call all of whose requests are pieces of the range moves the range.
LEMMA MovedByPieces ==
  ASSUME NEW job, job.asked.size \in Nat, LeftOut(job.what, job.asked) \in {0, job.asked.size % 4}, DOMAIN job.buffers = 1 .. Pieces(job.asked.size),
         \A k \in DOMAIN job.buffers : IsPieceOf(CopyOf(job.what, job.buffers[k]), job.what, job.asked, k),
         job.what = "sync" =>
           \A k \in DOMAIN job.buffers :
             /\ Len(Packets(job.buffers[k])) = 1
             /\ CP_SYNC \in job.buffers[k][3] <=> k = Pieces(job.asked.size)
             /\ RAW_WAIT \in job.buffers[k][6] <=> k = 1
  PROVE  IsMoved(job)
<1> DEFINE size == job.asked.size
           N == Pieces(size)
           pieces == [k \in DOMAIN job.buffers |-> CopyOf(job.what, job.buffers[k])]
           before == MovedBefore(pieces)
           left == LeftOut(job.what, job.asked)
<1>1. N \in Nat
  BY PieceFacts
<1>2. DOMAIN pieces = 1 .. N
  OBVIOUS
<1>3. Len(pieces) = N
  <2>1. pieces \in Seq({pieces[k] : k \in DOMAIN pieces})
    BY <1>1
  <2> HIDE DEF pieces, N
  <2> QED
    BY <1>1, <1>2, <2>1
<1>4. \A k \in 1 .. N :
        /\ pieces[k].dst = VaBits(Plus(job.asked.dst, PieceAt(k)))
        /\ pieces[k].src = VaBits(Plus(job.asked.src, PieceAt(k)))
        /\ pieces[k].bytes = CurSize(size, k) - IF k = N THEN left ELSE 0
  <2> SUFFICES ASSUME NEW k \in 1 .. N
               PROVE  /\ pieces[k].dst = VaBits(Plus(job.asked.dst, PieceAt(k)))
                      /\ pieces[k].src = VaBits(Plus(job.asked.src, PieceAt(k)))
                      /\ pieces[k].bytes = CurSize(size, k) - IF k = N THEN left ELSE 0
    OBVIOUS
  <2>1. pieces[k] = CopyOf(job.what, job.buffers[k])
    OBVIOUS
  <2>2. IsPieceOf(CopyOf(job.what, job.buffers[k]), job.what, job.asked, k)
    OBVIOUS
  <2> HIDE DEF pieces
  <2> QED
    BY <2>1, <2>2 DEF IsPieceOf
<1> HIDE DEF pieces, before
<1>9. left \in Nat /\ (size = 0 => left = 0)
  <2>1. size % 4 \in Nat /\ (size = 0 => size % 4 = 0)
    <3> HIDE DEF size
    <3>1. size \in Nat
      BY DEF size
    <3> QED
      BY SMT, <3>1
  <2> QED
    BY <2>1
<1> HIDE DEF left
<1>5. /\ before[N + 1] = size - left
      /\ \A k \in 1 .. N : before[k] = PieceAt(k)
  <2> HIDE DEF size
  <2>1. size \in Nat
    BY DEF size
  <2>2. PiecesMove(pieces, size, left)
    BY <1>4 DEF PiecesMove
  <2> QED
    BY <1>3, <1>9, <2>1, <2>2, MovedUntil DEF before
<1>6. before[Len(pieces) + 1] = size - left
  BY <1>3, <1>5
<1>7. ASSUME NEW k \in DOMAIN pieces
      PROVE  /\ k = Len(pieces) \/ pieces[k].bytes > 0
             /\ pieces[k].dst = VaBits(Plus(job.asked.dst, before[k]))
             /\ pieces[k].src = VaBits(Plus(job.asked.src, before[k]))
  <2>1. k \in 1 .. N
    BY <1>2
  <2>2. CurSize(size, k) > 0 /\ CurSize(size, k) \in Nat
    BY <2>1, PieceOf DEF PieceSize
  <2>3. k # N => pieces[k].bytes > 0
    BY <1>4, <2>1, <2>2
  <2> QED
    BY <1>3, <1>4, <1>5, <2>1, <2>3
<1>8. job.what = "sync" =>
        \A k \in DOMAIN pieces :
          /\ Len(Packets(job.buffers[k])) = 1
          /\ CP_SYNC \in job.buffers[k][3] <=> k = Len(pieces)
          /\ RAW_WAIT \in job.buffers[k][6] <=> k = 1
  BY <1>2, <1>3
<1> HIDE DEF size
<1> QED
  BY <1>6, <1>7, <1>8 DEF IsMoved, pieces, before, size, left


\* syncDMACopy, of any size.
LEMMA SyncIsMoved ==
  ASSUME NEW dst \in CopyAddresses, NEW src \in CopyAddresses, NEW size \in CopySizes
  PROVE  IsMoved([what |-> "sync", asked |-> [dst |-> dst, src |-> src, size |-> size],
                  buffers |-> syncDMACopy(dst, src, size)])
<1> DEFINE job == [what |-> "sync", asked |-> [dst |-> dst, src |-> src, size |-> size],
                   buffers |-> syncDMACopy(dst, src, size)]
           N == Pieces(size)
           Request(k) == compute_send_sync_dma_req(Plus(dst, PieceAt(k)), Plus(src, PieceAt(k)), CurSize(size, k),
                                                   PieceAt(k) + CurSize(size, k) >= size, k = 1, TRUE)
<1>1. size \in Nat
  BY AddressesAreVirtual
<1>2. job.buffers = [k \in 1 .. N |-> Request(k)]
  BY DEF syncDMACopy
<1>3. job.what = "sync" /\ job.asked.dst = dst /\ job.asked.src = src /\ job.asked.size = size
  OBVIOUS
<1> HIDE DEF job
<1>11. LeftOut(job.what, job.asked) = 0
  BY <1>3 DEF LeftOut
<1>4. DOMAIN job.buffers = 1 .. Pieces(job.asked.size)
  BY <1>2, <1>3
<1>5. ASSUME NEW k \in 1 .. N
      PROVE  /\ IsPieceOf(CopyOf(job.what, job.buffers[k]), job.what, job.asked, k)
             /\ Len(Packets(job.buffers[k])) = 1
             /\ CP_SYNC \in job.buffers[k][3] <=> k = N
             /\ RAW_WAIT \in job.buffers[k][6] <=> k = 1
  <2> DEFINE p == PieceAt(k)
             c == CurSize(size, k)
             last == p + c >= size
             wait == k = 1
             d == Plus(dst, p)
             s == Plus(src, p)
             buffer == compute_send_sync_dma_req(d, s, c, last, wait, TRUE)
  <2>1. job.buffers[k] = buffer
    BY <1>2
  <2>2. p \in Nat /\ p <= size /\ c \in PieceSize /\ (last <=> k = N)
    BY <1>1, PieceOf
  <2>3. Virtual(d) /\ Virtual(s)
    <3> HIDE DEF p
    <3> QED
      BY <2>2, PieceIsVirtual
  <2>4. last \in BOOLEAN /\ wait \in BOOLEAN
    OBVIOUS
  <2> HIDE DEF p, c, last, wait, d, s
  <2>5. IsSyncRequest(buffer, d, s, c, last, wait)
    BY <2>2, <2>3, <2>4, SyncRequest
  <2> HIDE DEF buffer
  <2>6. IsPieceOf(CopyOf(job.what, job.buffers[k]), job.what, job.asked, k)
    <3>1. c - 0 = c
      BY <2>2 DEF PieceSize
    <3>2. CopyOf(job.what, job.buffers[k]) = [dst |-> VaBits(d), src |-> VaBits(s), bytes |-> c - 0]
      BY <1>3, <2>1, <2>5, <3>1 DEF IsSyncRequest
    <3> QED
      BY <1>3, <1>11, <3>2 DEF IsPieceOf, d, s, p, c
  <2> QED
    BY <2>1, <2>2, <2>5, <2>6 DEF IsSyncRequest, wait
<1> HIDE DEF N
<1>6. DOMAIN job.buffers = 1 .. N /\ N = Pieces(job.asked.size)
  BY <1>3, <1>4 DEF N
<1>7. \A k \in DOMAIN job.buffers : IsPieceOf(CopyOf(job.what, job.buffers[k]), job.what, job.asked, k)
  BY <1>5, <1>6
<1>8. \A k \in DOMAIN job.buffers :
        /\ Len(Packets(job.buffers[k])) = 1
        /\ CP_SYNC \in job.buffers[k][3] <=> k = Pieces(job.asked.size)
        /\ RAW_WAIT \in job.buffers[k][6] <=> k = 1
  BY <1>5, <1>6
<1>9. job.asked.size \in Nat
  BY <1>1, <1>3
<1>10. IsMoved(job)
  BY <1>4, <1>7, <1>8, <1>9, <1>11, MovedByPieces
<1> QED
  BY <1>10 DEF job

\* asyncDMACopy, of any size: only the last piece can have bytes that are no dword.
LEMMA AsyncIsMoved ==
  ASSUME NEW dst \in CopyAddresses, NEW src \in CopyAddresses, NEW size \in CopySizes
  PROVE  IsMoved([what |-> "async", asked |-> [dst |-> dst, src |-> src, size |-> size],
                  buffers |-> asyncDMACopy(dst, src, size)])
<1> DEFINE job == [what |-> "async", asked |-> [dst |-> dst, src |-> src, size |-> size],
                   buffers |-> asyncDMACopy(dst, src, size)]
           N == Pieces(size)
           Request(k) == compute_send_async_dma_req(Plus(dst, PieceAt(k)), Plus(src, PieceAt(k)), CurSize(size, k))
<1>1. size \in Nat
  BY AddressesAreVirtual
<1>2. job.buffers = [k \in 1 .. N |-> Request(k)]
  BY DEF asyncDMACopy
<1>3. job.what = "async" /\ job.asked.dst = dst /\ job.asked.src = src /\ job.asked.size = size
  OBVIOUS
<1> HIDE DEF job
<1> DEFINE aligned == DwordAligned(src) /\ DwordAligned(dst)
           left == LeftOut(job.what, job.asked)
<1>10. left = IF aligned THEN size % 4 ELSE 0
  BY <1>3 DEF LeftOut
<1> HIDE DEF left
<1>4. DOMAIN job.buffers = 1 .. Pieces(job.asked.size)
  BY <1>2, <1>3
<1>5. ASSUME NEW k \in 1 .. N
      PROVE  IsPieceOf(CopyOf(job.what, job.buffers[k]), job.what, job.asked, k)
  <2> DEFINE p == PieceAt(k)
             c == CurSize(size, k)
             d == Plus(dst, p)
             s == Plus(src, p)
             buffer == compute_send_async_dma_req(d, s, c)
  <2>1. job.buffers[k] = buffer
    BY <1>2
  <2>2. p \in Nat /\ p <= size /\ p % 4 = 0 /\ c \in PieceSize
        /\ c % 4 = IF k = N THEN size % 4 ELSE 0
    BY <1>1, PieceOf
  <2> HIDE DEF p, c
  <2>3. Virtual(d) /\ Virtual(s) /\ (DwordAligned(d) <=> DwordAligned(dst)) /\ (DwordAligned(s) <=> DwordAligned(src))
    BY <2>2, PieceIsVirtual
  <2>4. (IF aligned THEN c - (c % 4) ELSE c) = c - IF k = N THEN left ELSE 0
    BY <1>10, <2>2 DEF PieceSize
  <2> HIDE DEF d, s, aligned
  <2>5. CopyOf("async", buffer) = [dst |-> VaBits(d), src |-> VaBits(s), bytes |-> IF aligned THEN c - (c % 4) ELSE c]
    BY <2>2, <2>3, AsyncRequest DEF aligned
  <2> HIDE DEF buffer
  <2> QED
    BY <1>3, <2>1, <2>4, <2>5 DEF IsPieceOf, left, d, s, p, c
<1>6. \A k \in DOMAIN job.buffers : IsPieceOf(CopyOf(job.what, job.buffers[k]), job.what, job.asked, k)
  BY <1>3, <1>4, <1>5
<1>7. job.asked.size \in Nat
  BY <1>1, <1>3
<1>8. job.what # "sync"
  BY <1>3
<1>9. IsMoved(job)
  BY <1>3, <1>4, <1>6, <1>7, <1>8, <1>10, MovedByPieces DEF left
<1> QED
  BY <1>9 DEF job

\* Instructions submit nothing.
LEMMA EmitKeeps ==
  /\ \A words, format, name, operand : Emit(words, format, name, operand) => UNCHANGED submitted
  /\ \A words, format, name, operand : EmitWithLiteral(words, format, name, operand) => UNCHANGED submitted
  BY DEF Emit, EmitWithLiteral

\* Nor do resources.
LEMMA SubmittedKept ==
  Control \/ Scalar \/ VectorOne \/ VectorTwo \/ Compare \/ VectorThree \/ Memory \/ FillResource
    => UNCHANGED submitted
<1>1. Control => UNCHANGED submitted
  <2> SUFFICES ASSUME Control PROVE UNCHANGED submitted
    OBVIOUS
  <2>1. (\E o \in BranchOffsets :
           \/ Emit(s_branch(o), "SOPP", "S_BRANCH", [SIMM16 |-> o % 65536])
           \/ Emit(s_cbranch_scc0(o), "SOPP", "S_CBRANCH_SCC0", [SIMM16 |-> o % 65536])
           \/ Emit(s_cbranch_execz(o), "SOPP", "S_CBRANCH_EXECZ", [SIMM16 |-> o % 65536]))
         => UNCHANGED submitted
    BY EmitKeeps
  <2>2. (\E o \in JumpOffsets : Emit(s_jump(o), "SOPP", "S_BRANCH", [SIMM16 |-> o % 65536]))
         => UNCHANGED submitted
    BY EmitKeeps
  <2>3. /\ Emit(s_nop, "SOPP", "S_NOP", [SIMM16 |-> 0]) => UNCHANGED submitted
        /\ Emit(s_endpgm, "SOPP", "S_ENDPGM", [SIMM16 |-> 0]) => UNCHANGED submitted
        /\ Emit(s_waitcnt, "SOPP", "S_WAITCNT", [SIMM16 |-> 0]) => UNCHANGED submitted
        /\ Emit(s_sleep(7), "SOPP", "S_SLEEP", [SIMM16 |-> 7]) => UNCHANGED submitted
        /\ Emit(s_trap(255), "SOPP", "S_TRAP", [SIMM16 |-> 255]) => UNCHANGED submitted
    BY EmitKeeps
  <2> QED
    BY <2>1, <2>2, <2>3 DEF Control
<1>2. Scalar => UNCHANGED submitted
  BY EmitKeeps DEF Scalar
<1>3. VectorOne => UNCHANGED submitted
  BY EmitKeeps DEF VectorOne
<1>4. VectorTwo => UNCHANGED submitted
  BY EmitKeeps DEF VectorTwo
<1>5. Compare => UNCHANGED submitted
  BY EmitKeeps DEF Compare
<1>6. VectorThree => UNCHANGED submitted
  BY EmitKeeps DEF VectorThree
<1>7. Memory => UNCHANGED submitted
  BY EmitKeeps DEF Memory
<1>8. FillResource => UNCHANGED submitted
  <2> SUFFICES ASSUME FillResource PROVE UNCHANGED submitted
    OBVIOUS
  <2> QED
    BY DEF FillResource
<1> QED
  BY <1>1, <1>2, <1>3, <1>4, <1>5, <1>6, <1>7, <1>8

\* A copy moves every byte of its range once, on either ring, for any size and any
\* addresses of the pool, but for the size % 4 bytes at the end that asyncDMACopy drops
\* between aligned addresses: no count is wider than its field, no piece is skipped or
\* repeated, no address loses the bits above the first word, and only the last is waited for.
THEOREM CopiesReadBack == Spec => []CopyReadsBack
<1>1. Init => CopyReadsBack
  BY DEF Init, CopyReadsBack
<1>2. CopyReadsBack /\ [Next]_vars => CopyReadsBack'
  <2> SUFFICES ASSUME CopyReadsBack, [Next]_vars
               PROVE  IsMoved(submitted')
    BY DEF CopyReadsBack, IsMoved
  <2>1. CASE UNCHANGED submitted
    BY <2>1 DEF CopyReadsBack, IsMoved
  <2>2. CASE CopyOnRing
    <3>1. PICK dst \in CopyAddresses, src \in CopyAddresses, size \in CopySizes :
            LET asked == [dst |-> dst, src |-> src, size |-> size]
            IN  \/ Submits("sync", asked, syncDMACopy(dst, src, size))
                \/ Submits("async", asked, asyncDMACopy(dst, src, size))
      BY <2>2 DEF CopyOnRing
    <3> DEFINE asked == [dst |-> dst, src |-> src, size |-> size]
    <3>2. CASE Submits("sync", asked, syncDMACopy(dst, src, size))
      <4>1. submitted' = [what |-> "sync", asked |-> asked, buffers |-> syncDMACopy(dst, src, size)]
        BY <3>2 DEF Submits
      <4> QED
        BY <4>1, SyncIsMoved
    <3>3. CASE Submits("async", asked, asyncDMACopy(dst, src, size))
      <4>1. submitted' = [what |-> "async", asked |-> asked, buffers |-> asyncDMACopy(dst, src, size)]
        BY <3>3 DEF Submits
      <4> QED
        BY <3>3, <4>1, AsyncIsMoved
    <3> QED
      BY <3>1, <3>2, <3>3
  <2>3. CASE Launch \/ compute_emit_compute_state \/ FlushCaches
    <3>1. submitted'.what \in {"launch", "state", "flush"}
      BY <2>3 DEF Launch, compute_emit_compute_state, FlushCaches, Submits
    <3> QED
      BY <3>1 DEF IsMoved
  <2>4. UNCHANGED vars => UNCHANGED submitted
    BY DEF vars
  <2> QED
    BY <2>1, <2>2, <2>3, <2>4, SubmittedKept DEF Next
<1> QED
  BY <1>1, <1>2, PTL DEF Spec


-----------------------------------------------------------------------------
(* The buffer resource: the members of the struct.                         *)

\* struct buffer_resource, member by member.
LEMMA MemberTable ==
  /\ DOMAIN Members = 1 .. 19
  /\ Members[1].name = "base_addr" /\ Members[1].width = 48
  /\ Members[2].name = "stride" /\ Members[2].width = 14
  /\ Members[3].name = "c_swizzle" /\ Members[3].width = 1
  /\ Members[4].name = "swizzle_en" /\ Members[4].width = 1
  /\ Members[5].name = "num_records" /\ Members[5].width = 32
  /\ Members[6].name = "dst_sel_x" /\ Members[6].width = 3
  /\ Members[7].name = "dst_sel_y" /\ Members[7].width = 3
  /\ Members[8].name = "dst_sel_z" /\ Members[8].width = 3
  /\ Members[9].name = "dst_sel_w" /\ Members[9].width = 3
  /\ Members[10].name = "num_format" /\ Members[10].width = 3
  /\ Members[11].name = "data_format" /\ Members[11].width = 4
  /\ Members[12].name = "element_size" /\ Members[12].width = 2
  /\ Members[13].name = "idx_stride" /\ Members[13].width = 2
  /\ Members[14].name = "add_tid_en" /\ Members[14].width = 1
  /\ Members[15].name = "reserved" /\ Members[15].width = 1
  /\ Members[16].name = "hash_en" /\ Members[16].width = 1
  /\ Members[17].name = "heap" /\ Members[17].width = 1
  /\ Members[18].name = "unused" /\ Members[18].width = 3
  /\ Members[19].name = "zero" /\ Members[19].width = 2
<1>1. DOMAIN Members = 1 .. 19
  BY DEF Members
<1>2. Members[1].name = "base_addr" /\ Members[1].width = 48
  BY DEF Members, Member
<1>3. Members[2].name = "stride" /\ Members[2].width = 14
  BY DEF Members, Member
<1>4. Members[3].name = "c_swizzle" /\ Members[3].width = 1
  BY DEF Members, Member
<1>5. Members[4].name = "swizzle_en" /\ Members[4].width = 1
  BY DEF Members, Member
<1>6. Members[5].name = "num_records" /\ Members[5].width = 32
  BY DEF Members, Member
<1>7. Members[6].name = "dst_sel_x" /\ Members[6].width = 3
  BY DEF Members, Member
<1>8. Members[7].name = "dst_sel_y" /\ Members[7].width = 3
  BY DEF Members, Member
<1>9. Members[8].name = "dst_sel_z" /\ Members[8].width = 3
  BY DEF Members, Member
<1>10. Members[9].name = "dst_sel_w" /\ Members[9].width = 3
  BY DEF Members, Member
<1>11. Members[10].name = "num_format" /\ Members[10].width = 3
  BY DEF Members, Member
<1>12. Members[11].name = "data_format" /\ Members[11].width = 4
  BY DEF Members, Member
<1>13. Members[12].name = "element_size" /\ Members[12].width = 2
  BY DEF Members, Member
<1>14. Members[13].name = "idx_stride" /\ Members[13].width = 2
  BY DEF Members, Member
<1>15. Members[14].name = "add_tid_en" /\ Members[14].width = 1
  BY DEF Members, Member
<1>16. Members[15].name = "reserved" /\ Members[15].width = 1
  BY DEF Members, Member
<1>17. Members[16].name = "hash_en" /\ Members[16].width = 1
  BY DEF Members, Member
<1>18. Members[17].name = "heap" /\ Members[17].width = 1
  BY DEF Members, Member
<1>19. Members[18].name = "unused" /\ Members[18].width = 3
  BY DEF Members, Member
<1>20. Members[19].name = "zero" /\ Members[19].width = 2
  BY DEF Members, Member
<1> QED
  BY <1>1, <1>2, <1>3, <1>4, <1>5, <1>6, <1>7, <1>8, <1>9, <1>10, <1>11, <1>12, <1>13, <1>14, <1>15, <1>16, <1>17,
    <1>18, <1>19, <1>20

\* The widths, in one fact for all members.
LEMMA WidthsAreInt == \A k \in 1 .. 19 : Members[k].width \in Nat
<1> SUFFICES ASSUME NEW k \in 1 .. 19 PROVE Members[k].width \in Nat
  OBVIOUS
<1>1. k \in {1, 2, 3, 4, 5, 6, 7, 8, 9, 10, 11, 12, 13, 14, 15, 16, 17, 18, 19}
  OBVIOUS
<1> QED
  BY <1>1, MemberTable

\* The recursive function unfolds once.
LEMMA BitEquation ==
  BitOf = [k \in 1 .. 19 |-> IF k = 1 THEN 0 ELSE BitOf[k - 1] + Members[k - 1].width]
<1> DEFINE D == {n \in Nat : \E f : f = [k \in 1 .. n + 1 |-> IF k = 1 THEN 0 ELSE f[k - 1] + Members[k - 1].width]}
<1>1. 0 \in D
  <2> DEFINE first == [k \in 1 .. 0 + 1 |-> 0]
  <2>1. first = [k \in 1 .. 0 + 1 |-> IF k = 1 THEN 0 ELSE first[k - 1] + Members[k - 1].width]
    OBVIOUS
  <2> QED
    BY <2>1
<1>2. ASSUME NEW n \in 0 .. 18 - 1, n \in D PROVE n + 1 \in D
  <2>1. PICK e : e = [k \in 1 .. n + 1 |-> IF k = 1 THEN 0 ELSE e[k - 1] + Members[k - 1].width]
    BY <1>2
  <2> DEFINE g == [k \in 1 .. (n + 1) + 1 |-> IF k = (n + 1) + 1 THEN e[n + 1] + Members[n + 1].width ELSE e[k]]
  <2>2. \A k \in 1 .. (n + 1) + 1 : g[k] = IF k = 1 THEN 0 ELSE g[k - 1] + Members[k - 1].width
    BY <2>1
  <2>3. g = [k \in 1 .. (n + 1) + 1 |-> IF k = 1 THEN 0 ELSE g[k - 1] + Members[k - 1].width]
    BY <2>2
  <2> HIDE DEF g
  <2>4. \E f : f = [k \in 1 .. (n + 1) + 1 |-> IF k = 1 THEN 0 ELSE f[k - 1] + Members[k - 1].width]
    BY <2>3
  <2> QED
    BY <2>4
<1> HIDE DEF D
<1>3. 18 \in D
  <2>1. 0 .. 18 \subseteq D
    BY <1>1, <1>2, BoundedInduction
  <2> QED
    BY <2>1
<1>4. \E f : f = [k \in 1 .. 18 + 1 |-> IF k = 1 THEN 0 ELSE f[k - 1] + Members[k - 1].width]
  BY <1>3 DEF D
<1>5. DOMAIN Members = 1 .. 18 + 1
  BY MemberTable
<1>6. BitOf = [k \in 1 .. 18 + 1 |-> IF k = 1 THEN 0 ELSE BitOf[k - 1] + Members[k - 1].width]
  BY <1>4, <1>5 DEF BitOf
<1> QED
  BY <1>6

\* Each member begins where the one before ends.
LEMMA BitStep ==
  /\ BitOf[1] = 0
  /\ \A k \in 1 .. 18 : BitOf[k + 1] = BitOf[k] + Members[k].width
<1>1. BitOf[1] = 0
  BY BitEquation
<1>2. ASSUME NEW k \in 1 .. 18 PROVE BitOf[k + 1] = BitOf[k] + Members[k].width
  <2> DEFINE j == k + 1
  <2>1. j \in 1 .. 19 /\ j # 1 /\ j - 1 = k
    OBVIOUS
  <2> HIDE DEF j
  <2>2. BitOf[j] = IF j = 1 THEN 0 ELSE BitOf[j - 1] + Members[j - 1].width
    BY <2>1, BitEquation
  <2> QED
    BY <2>1, <2>2 DEF j
<1> QED
  BY <1>1, <1>2

\* Where each member begins.
LEMMA BitTable ==
  /\ BitOf[1] = 0
  /\ BitOf[2] = 48
  /\ BitOf[3] = 62
  /\ BitOf[4] = 63
  /\ BitOf[5] = 64
  /\ BitOf[6] = 96
  /\ BitOf[7] = 99
  /\ BitOf[8] = 102
  /\ BitOf[9] = 105
  /\ BitOf[10] = 108
  /\ BitOf[11] = 111
  /\ BitOf[12] = 115
  /\ BitOf[13] = 117
  /\ BitOf[14] = 119
  /\ BitOf[15] = 120
  /\ BitOf[16] = 121
  /\ BitOf[17] = 122
  /\ BitOf[18] = 123
  /\ BitOf[19] = 126
<1>1. BitOf[1] = 0
  BY BitStep
<1>2. BitOf[2] = 48
  <2>1. 1 \in 1 .. 18 /\ 1 + 1 = 2 /\ Members[1].width = 48
    BY MemberTable
  <2>2. BitOf[1 + 1] = BitOf[1] + Members[1].width
    BY <2>1, BitStep
  <2> QED
    BY <1>1, <2>1, <2>2
<1>3. BitOf[3] = 62
  <2>1. 2 \in 1 .. 18 /\ 2 + 1 = 3 /\ Members[2].width = 14
    BY MemberTable
  <2>2. BitOf[2 + 1] = BitOf[2] + Members[2].width
    BY <2>1, BitStep
  <2> QED
    BY <1>2, <2>1, <2>2
<1>4. BitOf[4] = 63
  <2>1. 3 \in 1 .. 18 /\ 3 + 1 = 4 /\ Members[3].width = 1
    BY MemberTable
  <2>2. BitOf[3 + 1] = BitOf[3] + Members[3].width
    BY <2>1, BitStep
  <2> QED
    BY <1>3, <2>1, <2>2
<1>5. BitOf[5] = 64
  <2>1. 4 \in 1 .. 18 /\ 4 + 1 = 5 /\ Members[4].width = 1
    BY MemberTable
  <2>2. BitOf[4 + 1] = BitOf[4] + Members[4].width
    BY <2>1, BitStep
  <2> QED
    BY <1>4, <2>1, <2>2
<1>6. BitOf[6] = 96
  <2>1. 5 \in 1 .. 18 /\ 5 + 1 = 6 /\ Members[5].width = 32
    BY MemberTable
  <2>2. BitOf[5 + 1] = BitOf[5] + Members[5].width
    BY <2>1, BitStep
  <2> QED
    BY <1>5, <2>1, <2>2
<1>7. BitOf[7] = 99
  <2>1. 6 \in 1 .. 18 /\ 6 + 1 = 7 /\ Members[6].width = 3
    BY MemberTable
  <2>2. BitOf[6 + 1] = BitOf[6] + Members[6].width
    BY <2>1, BitStep
  <2> QED
    BY <1>6, <2>1, <2>2
<1>8. BitOf[8] = 102
  <2>1. 7 \in 1 .. 18 /\ 7 + 1 = 8 /\ Members[7].width = 3
    BY MemberTable
  <2>2. BitOf[7 + 1] = BitOf[7] + Members[7].width
    BY <2>1, BitStep
  <2> QED
    BY <1>7, <2>1, <2>2
<1>9. BitOf[9] = 105
  <2>1. 8 \in 1 .. 18 /\ 8 + 1 = 9 /\ Members[8].width = 3
    BY MemberTable
  <2>2. BitOf[8 + 1] = BitOf[8] + Members[8].width
    BY <2>1, BitStep
  <2> QED
    BY <1>8, <2>1, <2>2
<1>10. BitOf[10] = 108
  <2>1. 9 \in 1 .. 18 /\ 9 + 1 = 10 /\ Members[9].width = 3
    BY MemberTable
  <2>2. BitOf[9 + 1] = BitOf[9] + Members[9].width
    BY <2>1, BitStep
  <2> QED
    BY <1>9, <2>1, <2>2
<1>11. BitOf[11] = 111
  <2>1. 10 \in 1 .. 18 /\ 10 + 1 = 11 /\ Members[10].width = 3
    BY MemberTable
  <2>2. BitOf[10 + 1] = BitOf[10] + Members[10].width
    BY <2>1, BitStep
  <2> QED
    BY <1>10, <2>1, <2>2
<1>12. BitOf[12] = 115
  <2>1. 11 \in 1 .. 18 /\ 11 + 1 = 12 /\ Members[11].width = 4
    BY MemberTable
  <2>2. BitOf[11 + 1] = BitOf[11] + Members[11].width
    BY <2>1, BitStep
  <2> QED
    BY <1>11, <2>1, <2>2
<1>13. BitOf[13] = 117
  <2>1. 12 \in 1 .. 18 /\ 12 + 1 = 13 /\ Members[12].width = 2
    BY MemberTable
  <2>2. BitOf[12 + 1] = BitOf[12] + Members[12].width
    BY <2>1, BitStep
  <2> QED
    BY <1>12, <2>1, <2>2
<1>14. BitOf[14] = 119
  <2>1. 13 \in 1 .. 18 /\ 13 + 1 = 14 /\ Members[13].width = 2
    BY MemberTable
  <2>2. BitOf[13 + 1] = BitOf[13] + Members[13].width
    BY <2>1, BitStep
  <2> QED
    BY <1>13, <2>1, <2>2
<1>15. BitOf[15] = 120
  <2>1. 14 \in 1 .. 18 /\ 14 + 1 = 15 /\ Members[14].width = 1
    BY MemberTable
  <2>2. BitOf[14 + 1] = BitOf[14] + Members[14].width
    BY <2>1, BitStep
  <2> QED
    BY <1>14, <2>1, <2>2
<1>16. BitOf[16] = 121
  <2>1. 15 \in 1 .. 18 /\ 15 + 1 = 16 /\ Members[15].width = 1
    BY MemberTable
  <2>2. BitOf[15 + 1] = BitOf[15] + Members[15].width
    BY <2>1, BitStep
  <2> QED
    BY <1>15, <2>1, <2>2
<1>17. BitOf[17] = 122
  <2>1. 16 \in 1 .. 18 /\ 16 + 1 = 17 /\ Members[16].width = 1
    BY MemberTable
  <2>2. BitOf[16 + 1] = BitOf[16] + Members[16].width
    BY <2>1, BitStep
  <2> QED
    BY <1>16, <2>1, <2>2
<1>18. BitOf[18] = 123
  <2>1. 17 \in 1 .. 18 /\ 17 + 1 = 18 /\ Members[17].width = 1
    BY MemberTable
  <2>2. BitOf[17 + 1] = BitOf[17] + Members[17].width
    BY <2>1, BitStep
  <2> QED
    BY <1>17, <2>1, <2>2
<1>19. BitOf[19] = 126
  <2>1. 18 \in 1 .. 18 /\ 18 + 1 = 19 /\ Members[18].width = 3
    BY MemberTable
  <2>2. BitOf[18 + 1] = BitOf[18] + Members[18].width
    BY <2>1, BitStep
  <2> QED
    BY <1>18, <2>1, <2>2
<1> QED
  BY <1>1, <1>2, <1>3, <1>4, <1>5, <1>6, <1>7, <1>8, <1>9, <1>10, <1>11, <1>12, <1>13, <1>14, <1>15, <1>16, <1>17,
    <1>18, <1>19

\* One member ends before the next begins.
\* No two members overlap.
LEMMA MembersApart ==
  \A j, k \in 1 .. 19 : /\ BitOf[j] \in Nat /\ BitOf[k] \in Nat
                        /\ j < k => BitOf[j] + Members[j].width <= BitOf[k]
<1>1. \A k \in 1 .. 19 : BitOf[k] \in Nat
  <2> SUFFICES ASSUME NEW k \in 1 .. 19 PROVE BitOf[k] \in Nat
    OBVIOUS
  <2>1. k \in {1, 2, 3, 4, 5, 6, 7, 8, 9, 10, 11, 12, 13, 14, 15, 16, 17, 18, 19}
    OBVIOUS
  <2> QED
    BY <2>1, BitTable
<1>2. ASSUME NEW j \in 1 .. 19
      PROVE  \A k \in 1 .. 19 : j < k => BitOf[j] + Members[j].width <= BitOf[k]
  <2> DEFINE D == {n \in Nat : j + n + 1 <= 19 => BitOf[j] + Members[j].width <= BitOf[j + n + 1]}
  <2>1. 0 \in D
    <3>1. j + 0 + 1 = j + 1
      OBVIOUS
    <3>2. j + 1 <= 19 => BitOf[j + 1] = BitOf[j] + Members[j].width
      BY BitStep
    <3>3. BitOf[j] + Members[j].width \in Int
      BY <1>1, WidthsAreInt
    <3> QED
      BY <3>1, <3>2, <3>3
  <2>2. ASSUME NEW n \in 0 .. 18 - 1, n \in D PROVE n + 1 \in D
    <3> DEFINE k == j + n + 1
    <3>1. k \in Nat /\ k >= 1 /\ j + (n + 1) + 1 = k + 1 /\ n + 1 \in Nat
      OBVIOUS
    <3>2. k <= 19 => BitOf[j] + Members[j].width <= BitOf[k]
      BY <2>2
    <3> HIDE DEF k
    <3>3. k + 1 <= 19 => BitOf[j] + Members[j].width <= BitOf[k + 1]
      <4> SUFFICES ASSUME k + 1 <= 19 PROVE BitOf[j] + Members[j].width <= BitOf[k + 1]
        OBVIOUS
      <4>1. k \in 1 .. 18 /\ k \in 1 .. 19
        BY <3>1
      <4>2. BitOf[k + 1] = BitOf[k] + Members[k].width
        BY <4>1, BitStep
      <4>3. BitOf[k] \in Nat /\ Members[k].width \in Nat /\ BitOf[j] \in Nat /\ Members[j].width \in Nat
        BY <1>1, <4>1, WidthsAreInt
      <4>4. BitOf[j] + Members[j].width <= BitOf[k]
        BY <3>2, <4>1
      <4> QED
        BY <4>2, <4>3, <4>4
    <3> QED
      BY <3>1, <3>3
  <2> HIDE DEF D
  <2>3. 0 .. 18 \subseteq D
    BY <2>1, <2>2, BoundedInduction
  <2> SUFFICES ASSUME NEW k \in 1 .. 19, j < k PROVE BitOf[j] + Members[j].width <= BitOf[k]
    OBVIOUS
  <2> DEFINE n == k - j - 1
  <2>4. n \in 0 .. 18 /\ j + n + 1 = k
    OBVIOUS
  <2> HIDE DEF n
  <2>5. n \in D
    BY <2>3, <2>4
  <2>6. j + n + 1 <= 19 => BitOf[j] + Members[j].width <= BitOf[j + n + 1]
    BY <2>5 DEF D
  <2> QED
    BY <2>4, <2>6
<1> QED
  BY <1>1, <1>2


\* The bits that the members put into the resource, all in one row.
Bits(value) ==
  UNION {{BitOf[k] + b : b \in value[Members[k].name] \cap 0 .. Members[k].width - 1} :
           k \in {j \in DOMAIN Members : Members[j].name \in DOMAIN value}}

\* d bits of the row from bit p on.
Slice(row, p, d) == {c - p : c \in row \cap p .. p + d - 1}

\* What a member stores.
Stored(value, k) ==
  IF Members[k].name \in DOMAIN value THEN value[Members[k].name] \cap 0 .. Members[k].width - 1 ELSE {}

-----------------------------------------------------------------------------
(* The buffer resource: the fields of the registers.                       *)

\* A bit of the row is a bit of what some member stores.
LEMMA BitsBelong ==
  ASSUME NEW value, NEW c
  PROVE  c \in Bits(value) <=> \E k \in 1 .. 19 : \E b \in Stored(value, k) : c = BitOf[k] + b
<1>1. DOMAIN Members = 1 .. 19
  BY MemberTable
<1> QED
  BY <1>1 DEF Bits, Stored

\* The slice of a member holds what it stores and nothing else.
LEMMA MemberSlice ==
  ASSUME NEW value, NEW k \in 1 .. 19
  PROVE  Slice(Bits(value), BitOf[k], Members[k].width) = Stored(value, k)
<1> DEFINE p == BitOf[k]
           d == Members[k].width
           row == Bits(value)
           S == {c - p : c \in row \cap p .. p + d - 1}
<1>1. p \in Nat /\ d \in Nat
  BY MembersApart, WidthsAreInt
<1>2. \A b \in Stored(value, k) : b \in Nat /\ b <= d - 1
  BY <1>1 DEF Stored
<1>3. ASSUME NEW b \in Stored(value, k) PROVE b \in S
  <2> DEFINE c == p + b
  <2>1. c \in row
    BY BitsBelong
  <2>2. c \in p .. p + d - 1 /\ c - p = b
    <3> HIDE DEF p, d
    <3> QED
      BY <1>1, <1>2, <1>3
  <2> HIDE DEF c, row
  <2> QED
    BY <2>1, <2>2
<1>4. ASSUME NEW x \in S PROVE x \in Stored(value, k)
  <2>1. PICK c \in row : c \in p .. p + d - 1 /\ x = c - p
    BY <1>4
  <2>2. PICK j \in 1 .. 19 : \E b \in Stored(value, j) : c = BitOf[j] + b
    BY BitsBelong
  <2>3. PICK b \in Stored(value, j) : c = BitOf[j] + b
    BY <2>2
  <2> DEFINE q == BitOf[j]
             e == Members[j].width
  <2>4. q \in Nat /\ e \in Nat /\ b \in Nat /\ b <= e - 1
    <3>1. q \in Nat /\ e \in Nat
      BY MembersApart, WidthsAreInt
    <3> QED
      BY <3>1 DEF Stored
  <2>5. /\ j < k => q + e <= p
        /\ k < j => p + d <= q
    BY MembersApart
  <2> HIDE DEF p, d, q, e, row
  <2>6. c = q + b
    BY <2>3 DEF q
  <2>7. ~(j < k) /\ ~(k < j)
    BY <1>1, <2>1, <2>4, <2>5, <2>6
  <2>8. j = k
    BY <2>7
  <2>9. x = b
    BY <1>1, <2>1, <2>4, <2>6, <2>8 DEF p, q
  <2> QED
    BY <2>8, <2>9
<1>5. Slice(Bits(value), BitOf[k], Members[k].width) = S
  BY DEF Slice
<1> HIDE DEF S
<1> QED
  BY <1>3, <1>4, <1>5

\* The bits a field of SQ_BUF_RSRC_WORD0 to 3 holds.
FieldBits(data, field) == {b - field.shift : b \in data[field.word] \cap field.shift .. field.shift + field.width - 1}

\* A field of a register is a slice of the row.
LEMMA FieldIsSlice ==
  ASSUME NEW value, NEW w \in 1 .. 4, NEW s \in Nat, NEW d \in Nat, s + d <= 32
  PROVE  FieldBits(buffer_resource(value), At(w, s, d)) = Slice(Bits(value), 32 * (w - 1) + s, d)
<1> DEFINE row == Bits(value)
           o == 32 * (w - 1)
           data == {b - o : b \in row \cap o .. 32 * w - 1}
           L == {b - s : b \in data \cap s .. s + d - 1}
           R == {c - (o + s) : c \in row \cap o + s .. o + s + d - 1}
<1>1. buffer_resource(value)[w] = data
  BY DEF buffer_resource, Bits
<1>2. FieldBits(buffer_resource(value), At(w, s, d)) = L
  BY <1>1 DEF FieldBits, At
<1>3. Slice(Bits(value), o + s, d) = R
  BY DEF Slice
<1>4. o \in Nat /\ 32 * w = o + 32
  OBVIOUS
<1> HIDE DEF row, o
<1>5. ASSUME NEW x \in L PROVE x \in R
  <2>1. PICK b \in data : b \in s .. s + d - 1 /\ x = b - s
    BY <1>5
  <2>2. PICK c \in row : c \in o .. 32 * w - 1 /\ b = c - o
    BY <2>1
  <2>3. c \in o + s .. o + s + d - 1 /\ x = c - (o + s)
    BY <1>4, <2>1, <2>2
  <2> QED
    BY <2>3
<1>6. ASSUME NEW x \in R PROVE x \in L
  <2>1. PICK c \in row : c \in o + s .. o + s + d - 1 /\ x = c - (o + s)
    BY <1>6
  <2> DEFINE b == c - o
  <2>2. c \in o .. 32 * w - 1 /\ b \in s .. s + d - 1 /\ x = b - s
    BY <1>4, <2>1
  <2>3. b \in data
    BY <2>2
  <2> HIDE DEF b, data
  <2> QED
    BY <2>2, <2>3
<1> HIDE DEF L, R
<1>7. L = R
  BY <1>5, <1>6
<1> QED
  BY <1>2, <1>3, <1>7 DEF o

\* SQ_BUF_RSRC_WORD0 to 3, field by field.
LEMMA LayoutFields ==
  /\ SQ_BUF_RSRC.BASE_ADDRESS = At(1, 0, 32)
  /\ SQ_BUF_RSRC.BASE_ADDRESS_HI = At(2, 0, 16)
  /\ SQ_BUF_RSRC.STRIDE = At(2, 16, 14)
  /\ SQ_BUF_RSRC.CACHE_SWIZZLE = At(2, 30, 1)
  /\ SQ_BUF_RSRC.SWIZZLE_ENABLE = At(2, 31, 1)
  /\ SQ_BUF_RSRC.NUM_RECORDS = At(3, 0, 32)
  /\ SQ_BUF_RSRC.DST_SEL_X = At(4, 0, 3)
  /\ SQ_BUF_RSRC.DST_SEL_Y = At(4, 3, 3)
  /\ SQ_BUF_RSRC.DST_SEL_Z = At(4, 6, 3)
  /\ SQ_BUF_RSRC.DST_SEL_W = At(4, 9, 3)
  /\ SQ_BUF_RSRC.NUM_FORMAT = At(4, 12, 3)
  /\ SQ_BUF_RSRC.DATA_FORMAT = At(4, 15, 4)
  /\ SQ_BUF_RSRC.ELEMENT_SIZE = At(4, 19, 2)
  /\ SQ_BUF_RSRC.INDEX_STRIDE = At(4, 21, 2)
  /\ SQ_BUF_RSRC.ADD_TID_ENABLE = At(4, 23, 1)
  /\ SQ_BUF_RSRC.HASH_ENABLE = At(4, 25, 1)
  /\ SQ_BUF_RSRC.HEAP = At(4, 26, 1)
  /\ SQ_BUF_RSRC.TYPE = At(4, 30, 2)
  BY DEF SQ_BUF_RSRC

\* A field with the bits of a member holds what the member stores.
LEMMA MemberIsField ==
  ASSUME NEW value, NEW k \in 1 .. 19, NEW w \in 1 .. 4, NEW s \in Nat, NEW d \in Nat, s + d <= 32,
         BitOf[k] = 32 * (w - 1) + s, Members[k].width = d
  PROVE  FieldBits(buffer_resource(value), At(w, s, d)) = Stored(value, k)
<1>1. FieldBits(buffer_resource(value), At(w, s, d)) = Slice(Bits(value), 32 * (w - 1) + s, d)
  BY FieldIsSlice
<1>2. Slice(Bits(value), BitOf[k], Members[k].width) = Stored(value, k)
  BY MemberSlice
<1> QED
  BY <1>1, <1>2

\* Each field of the registers, as the members of the struct.
LEMMA FieldsAreMembers ==
  ASSUME NEW value
  PROVE  LET data == buffer_resource(value)
         IN  /\ FieldBits(data, SQ_BUF_RSRC.STRIDE) = Stored(value, 2)
             /\ FieldBits(data, SQ_BUF_RSRC.CACHE_SWIZZLE) = Stored(value, 3)
             /\ FieldBits(data, SQ_BUF_RSRC.SWIZZLE_ENABLE) = Stored(value, 4)
             /\ FieldBits(data, SQ_BUF_RSRC.NUM_RECORDS) = Stored(value, 5)
             /\ FieldBits(data, SQ_BUF_RSRC.DST_SEL_X) = Stored(value, 6)
             /\ FieldBits(data, SQ_BUF_RSRC.DST_SEL_Y) = Stored(value, 7)
             /\ FieldBits(data, SQ_BUF_RSRC.DST_SEL_Z) = Stored(value, 8)
             /\ FieldBits(data, SQ_BUF_RSRC.DST_SEL_W) = Stored(value, 9)
             /\ FieldBits(data, SQ_BUF_RSRC.NUM_FORMAT) = Stored(value, 10)
             /\ FieldBits(data, SQ_BUF_RSRC.DATA_FORMAT) = Stored(value, 11)
             /\ FieldBits(data, SQ_BUF_RSRC.ELEMENT_SIZE) = Stored(value, 12)
             /\ FieldBits(data, SQ_BUF_RSRC.INDEX_STRIDE) = Stored(value, 13)
             /\ FieldBits(data, SQ_BUF_RSRC.ADD_TID_ENABLE) = Stored(value, 14)
             /\ FieldBits(data, SQ_BUF_RSRC.HASH_ENABLE) = Stored(value, 16)
             /\ FieldBits(data, SQ_BUF_RSRC.HEAP) = Stored(value, 17)
             /\ FieldBits(data, SQ_BUF_RSRC.TYPE) = Stored(value, 19)
<1> DEFINE data == buffer_resource(value)
<1>1. FieldBits(data, SQ_BUF_RSRC.STRIDE) = Stored(value, 2)
  <2>1. SQ_BUF_RSRC.STRIDE = At(2, 16, 14)
    BY LayoutFields
  <2>2. BitOf[2] = 32 * (2 - 1) + 16 /\ Members[2].width = 14
    BY BitTable, MemberTable
  <2> QED
    BY <2>1, <2>2, MemberIsField
<1>2. FieldBits(data, SQ_BUF_RSRC.CACHE_SWIZZLE) = Stored(value, 3)
  <2>1. SQ_BUF_RSRC.CACHE_SWIZZLE = At(2, 30, 1)
    BY LayoutFields
  <2>2. BitOf[3] = 32 * (2 - 1) + 30 /\ Members[3].width = 1
    BY BitTable, MemberTable
  <2> QED
    BY <2>1, <2>2, MemberIsField
<1>3. FieldBits(data, SQ_BUF_RSRC.SWIZZLE_ENABLE) = Stored(value, 4)
  <2>1. SQ_BUF_RSRC.SWIZZLE_ENABLE = At(2, 31, 1)
    BY LayoutFields
  <2>2. BitOf[4] = 32 * (2 - 1) + 31 /\ Members[4].width = 1
    BY BitTable, MemberTable
  <2> QED
    BY <2>1, <2>2, MemberIsField
<1>4. FieldBits(data, SQ_BUF_RSRC.NUM_RECORDS) = Stored(value, 5)
  <2>1. SQ_BUF_RSRC.NUM_RECORDS = At(3, 0, 32)
    BY LayoutFields
  <2>2. BitOf[5] = 32 * (3 - 1) + 0 /\ Members[5].width = 32
    BY BitTable, MemberTable
  <2> QED
    BY <2>1, <2>2, MemberIsField
<1>5. FieldBits(data, SQ_BUF_RSRC.DST_SEL_X) = Stored(value, 6)
  <2>1. SQ_BUF_RSRC.DST_SEL_X = At(4, 0, 3)
    BY LayoutFields
  <2>2. BitOf[6] = 32 * (4 - 1) + 0 /\ Members[6].width = 3
    BY BitTable, MemberTable
  <2> QED
    BY <2>1, <2>2, MemberIsField
<1>6. FieldBits(data, SQ_BUF_RSRC.DST_SEL_Y) = Stored(value, 7)
  <2>1. SQ_BUF_RSRC.DST_SEL_Y = At(4, 3, 3)
    BY LayoutFields
  <2>2. BitOf[7] = 32 * (4 - 1) + 3 /\ Members[7].width = 3
    BY BitTable, MemberTable
  <2> QED
    BY <2>1, <2>2, MemberIsField
<1>7. FieldBits(data, SQ_BUF_RSRC.DST_SEL_Z) = Stored(value, 8)
  <2>1. SQ_BUF_RSRC.DST_SEL_Z = At(4, 6, 3)
    BY LayoutFields
  <2>2. BitOf[8] = 32 * (4 - 1) + 6 /\ Members[8].width = 3
    BY BitTable, MemberTable
  <2> QED
    BY <2>1, <2>2, MemberIsField
<1>8. FieldBits(data, SQ_BUF_RSRC.DST_SEL_W) = Stored(value, 9)
  <2>1. SQ_BUF_RSRC.DST_SEL_W = At(4, 9, 3)
    BY LayoutFields
  <2>2. BitOf[9] = 32 * (4 - 1) + 9 /\ Members[9].width = 3
    BY BitTable, MemberTable
  <2> QED
    BY <2>1, <2>2, MemberIsField
<1>9. FieldBits(data, SQ_BUF_RSRC.NUM_FORMAT) = Stored(value, 10)
  <2>1. SQ_BUF_RSRC.NUM_FORMAT = At(4, 12, 3)
    BY LayoutFields
  <2>2. BitOf[10] = 32 * (4 - 1) + 12 /\ Members[10].width = 3
    BY BitTable, MemberTable
  <2> QED
    BY <2>1, <2>2, MemberIsField
<1>10. FieldBits(data, SQ_BUF_RSRC.DATA_FORMAT) = Stored(value, 11)
  <2>1. SQ_BUF_RSRC.DATA_FORMAT = At(4, 15, 4)
    BY LayoutFields
  <2>2. BitOf[11] = 32 * (4 - 1) + 15 /\ Members[11].width = 4
    BY BitTable, MemberTable
  <2> QED
    BY <2>1, <2>2, MemberIsField
<1>11. FieldBits(data, SQ_BUF_RSRC.ELEMENT_SIZE) = Stored(value, 12)
  <2>1. SQ_BUF_RSRC.ELEMENT_SIZE = At(4, 19, 2)
    BY LayoutFields
  <2>2. BitOf[12] = 32 * (4 - 1) + 19 /\ Members[12].width = 2
    BY BitTable, MemberTable
  <2> QED
    BY <2>1, <2>2, MemberIsField
<1>12. FieldBits(data, SQ_BUF_RSRC.INDEX_STRIDE) = Stored(value, 13)
  <2>1. SQ_BUF_RSRC.INDEX_STRIDE = At(4, 21, 2)
    BY LayoutFields
  <2>2. BitOf[13] = 32 * (4 - 1) + 21 /\ Members[13].width = 2
    BY BitTable, MemberTable
  <2> QED
    BY <2>1, <2>2, MemberIsField
<1>13. FieldBits(data, SQ_BUF_RSRC.ADD_TID_ENABLE) = Stored(value, 14)
  <2>1. SQ_BUF_RSRC.ADD_TID_ENABLE = At(4, 23, 1)
    BY LayoutFields
  <2>2. BitOf[14] = 32 * (4 - 1) + 23 /\ Members[14].width = 1
    BY BitTable, MemberTable
  <2> QED
    BY <2>1, <2>2, MemberIsField
<1>14. FieldBits(data, SQ_BUF_RSRC.HASH_ENABLE) = Stored(value, 16)
  <2>1. SQ_BUF_RSRC.HASH_ENABLE = At(4, 25, 1)
    BY LayoutFields
  <2>2. BitOf[16] = 32 * (4 - 1) + 25 /\ Members[16].width = 1
    BY BitTable, MemberTable
  <2> QED
    BY <2>1, <2>2, MemberIsField
<1>15. FieldBits(data, SQ_BUF_RSRC.HEAP) = Stored(value, 17)
  <2>1. SQ_BUF_RSRC.HEAP = At(4, 26, 1)
    BY LayoutFields
  <2>2. BitOf[17] = 32 * (4 - 1) + 26 /\ Members[17].width = 1
    BY BitTable, MemberTable
  <2> QED
    BY <2>1, <2>2, MemberIsField
<1>16. FieldBits(data, SQ_BUF_RSRC.TYPE) = Stored(value, 19)
  <2>1. SQ_BUF_RSRC.TYPE = At(4, 30, 2)
    BY LayoutFields
  <2>2. BitOf[19] = 32 * (4 - 1) + 30 /\ Members[19].width = 2
    BY BitTable, MemberTable
  <2> QED
    BY <2>1, <2>2, MemberIsField
<1> QED
  BY <1>1, <1>2, <1>3, <1>4, <1>5, <1>6, <1>7, <1>8, <1>9, <1>10, <1>11, <1>12, <1>13, <1>14, <1>15, <1>16


\* What DescriptorReadsBack says of a resource.
ReadsAsStored(data, value) ==
  LET layout == SQ_BUF_RSRC
  IN  /\ FieldBits(data, layout.BASE_ADDRESS) = value.base_addr \cap 0 .. 31
      /\ {b + 32 : b \in FieldBits(data, layout.BASE_ADDRESS_HI)} = value.base_addr \ (0 .. 31)
      /\ FieldBits(data, layout.STRIDE) = value.stride
      /\ FieldBits(data, layout.NUM_RECORDS) = value.num_records
      /\ FieldBits(data, layout.DST_SEL_X) = value.dst_sel_x /\ FieldBits(data, layout.DST_SEL_Y) = value.dst_sel_y
      /\ FieldBits(data, layout.DST_SEL_Z) = value.dst_sel_z /\ FieldBits(data, layout.DST_SEL_W) = value.dst_sel_w
      /\ FieldBits(data, layout.NUM_FORMAT) = value.num_format
      /\ FieldBits(data, layout.DATA_FORMAT) = value.data_format
      /\ FieldBits(data, layout.ELEMENT_SIZE) = value.element_size
      /\ \A n \in {"CACHE_SWIZZLE", "SWIZZLE_ENABLE", "INDEX_STRIDE", "ADD_TID_ENABLE", "HASH_ENABLE", "HEAP",
                   "TYPE"} : FieldBits(data, layout[n]) = {}

\* The members the program sets, each with what it has room for.
IsValue(value) ==
  /\ DOMAIN value = {"base_addr", "stride", "num_records", "dst_sel_x", "dst_sel_y", "dst_sel_z", "dst_sel_w",
                     "num_format", "data_format", "element_size", "add_tid_en"}
  /\ value.base_addr \subseteq 0 .. 47 /\ value.stride \subseteq 0 .. 13 /\ value.num_records \subseteq 0 .. 31
  /\ value.dst_sel_x \subseteq 0 .. 2 /\ value.dst_sel_y \subseteq 0 .. 2 /\ value.dst_sel_z \subseteq 0 .. 2
  /\ value.dst_sel_w \subseteq 0 .. 2 /\ value.num_format \subseteq 0 .. 2 /\ value.data_format \subseteq 0 .. 3
  /\ value.element_size \subseteq 0 .. 1 /\ value.add_tid_en = {}

-----------------------------------------------------------------------------
(* DescriptorReadsBack.                                                    *)

\* What fits a member is stored whole.
LEMMA StoredWhole ==
  ASSUME NEW value, IsValue(value)
  PROVE  /\ Stored(value, 1) = value.base_addr /\ Stored(value, 2) = value.stride
         /\ Stored(value, 5) = value.num_records /\ Stored(value, 6) = value.dst_sel_x
         /\ Stored(value, 7) = value.dst_sel_y /\ Stored(value, 8) = value.dst_sel_z
         /\ Stored(value, 9) = value.dst_sel_w /\ Stored(value, 10) = value.num_format
         /\ Stored(value, 11) = value.data_format /\ Stored(value, 12) = value.element_size
         /\ Stored(value, 3) = {} /\ Stored(value, 4) = {} /\ Stored(value, 13) = {} /\ Stored(value, 14) = {}
         /\ Stored(value, 16) = {} /\ Stored(value, 17) = {} /\ Stored(value, 19) = {}
<1>1. \A S : \A d \in Nat : S \subseteq 0 .. d => S \cap 0 .. d = S
  OBVIOUS
<1>2. Stored(value, 1) = value.base_addr
  <2>1. Members[1].name = "base_addr" /\ Members[1].width = 48 /\ 48 - 1 = 47 /\ 47 \in Nat
    BY MemberTable
  <2>2. "base_addr" \in DOMAIN value /\ value.base_addr \subseteq 0 .. 47
    BY DEF IsValue
  <2>3. Stored(value, 1) = value.base_addr \cap 0 .. 47
    BY <2>1, <2>2 DEF Stored
  <2> QED
    BY <1>1, <2>1, <2>2, <2>3
<1>3. Stored(value, 2) = value.stride
  <2>1. Members[2].name = "stride" /\ Members[2].width = 14 /\ 14 - 1 = 13 /\ 13 \in Nat
    BY MemberTable
  <2>2. "stride" \in DOMAIN value /\ value.stride \subseteq 0 .. 13
    BY DEF IsValue
  <2>3. Stored(value, 2) = value.stride \cap 0 .. 13
    BY <2>1, <2>2 DEF Stored
  <2> QED
    BY <1>1, <2>1, <2>2, <2>3
<1>4. Stored(value, 5) = value.num_records
  <2>1. Members[5].name = "num_records" /\ Members[5].width = 32 /\ 32 - 1 = 31 /\ 31 \in Nat
    BY MemberTable
  <2>2. "num_records" \in DOMAIN value /\ value.num_records \subseteq 0 .. 31
    BY DEF IsValue
  <2>3. Stored(value, 5) = value.num_records \cap 0 .. 31
    BY <2>1, <2>2 DEF Stored
  <2> QED
    BY <1>1, <2>1, <2>2, <2>3
<1>5. Stored(value, 6) = value.dst_sel_x
  <2>1. Members[6].name = "dst_sel_x" /\ Members[6].width = 3 /\ 3 - 1 = 2 /\ 2 \in Nat
    BY MemberTable
  <2>2. "dst_sel_x" \in DOMAIN value /\ value.dst_sel_x \subseteq 0 .. 2
    BY DEF IsValue
  <2>3. Stored(value, 6) = value.dst_sel_x \cap 0 .. 2
    BY <2>1, <2>2 DEF Stored
  <2> QED
    BY <1>1, <2>1, <2>2, <2>3
<1>6. Stored(value, 7) = value.dst_sel_y
  <2>1. Members[7].name = "dst_sel_y" /\ Members[7].width = 3 /\ 3 - 1 = 2 /\ 2 \in Nat
    BY MemberTable
  <2>2. "dst_sel_y" \in DOMAIN value /\ value.dst_sel_y \subseteq 0 .. 2
    BY DEF IsValue
  <2>3. Stored(value, 7) = value.dst_sel_y \cap 0 .. 2
    BY <2>1, <2>2 DEF Stored
  <2> QED
    BY <1>1, <2>1, <2>2, <2>3
<1>7. Stored(value, 8) = value.dst_sel_z
  <2>1. Members[8].name = "dst_sel_z" /\ Members[8].width = 3 /\ 3 - 1 = 2 /\ 2 \in Nat
    BY MemberTable
  <2>2. "dst_sel_z" \in DOMAIN value /\ value.dst_sel_z \subseteq 0 .. 2
    BY DEF IsValue
  <2>3. Stored(value, 8) = value.dst_sel_z \cap 0 .. 2
    BY <2>1, <2>2 DEF Stored
  <2> QED
    BY <1>1, <2>1, <2>2, <2>3
<1>8. Stored(value, 9) = value.dst_sel_w
  <2>1. Members[9].name = "dst_sel_w" /\ Members[9].width = 3 /\ 3 - 1 = 2 /\ 2 \in Nat
    BY MemberTable
  <2>2. "dst_sel_w" \in DOMAIN value /\ value.dst_sel_w \subseteq 0 .. 2
    BY DEF IsValue
  <2>3. Stored(value, 9) = value.dst_sel_w \cap 0 .. 2
    BY <2>1, <2>2 DEF Stored
  <2> QED
    BY <1>1, <2>1, <2>2, <2>3
<1>9. Stored(value, 10) = value.num_format
  <2>1. Members[10].name = "num_format" /\ Members[10].width = 3 /\ 3 - 1 = 2 /\ 2 \in Nat
    BY MemberTable
  <2>2. "num_format" \in DOMAIN value /\ value.num_format \subseteq 0 .. 2
    BY DEF IsValue
  <2>3. Stored(value, 10) = value.num_format \cap 0 .. 2
    BY <2>1, <2>2 DEF Stored
  <2> QED
    BY <1>1, <2>1, <2>2, <2>3
<1>10. Stored(value, 11) = value.data_format
  <2>1. Members[11].name = "data_format" /\ Members[11].width = 4 /\ 4 - 1 = 3 /\ 3 \in Nat
    BY MemberTable
  <2>2. "data_format" \in DOMAIN value /\ value.data_format \subseteq 0 .. 3
    BY DEF IsValue
  <2>3. Stored(value, 11) = value.data_format \cap 0 .. 3
    BY <2>1, <2>2 DEF Stored
  <2> QED
    BY <1>1, <2>1, <2>2, <2>3
<1>11. Stored(value, 12) = value.element_size
  <2>1. Members[12].name = "element_size" /\ Members[12].width = 2 /\ 2 - 1 = 1 /\ 1 \in Nat
    BY MemberTable
  <2>2. "element_size" \in DOMAIN value /\ value.element_size \subseteq 0 .. 1
    BY DEF IsValue
  <2>3. Stored(value, 12) = value.element_size \cap 0 .. 1
    BY <2>1, <2>2 DEF Stored
  <2> QED
    BY <1>1, <2>1, <2>2, <2>3
<1>12. Stored(value, 3) = {}
  <2>1. Members[3].name = "c_swizzle"
    BY MemberTable
  <2>2. "c_swizzle" \notin DOMAIN value
    BY DEF IsValue
  <2> QED
    BY <2>1, <2>2 DEF Stored
<1>13. Stored(value, 4) = {}
  <2>1. Members[4].name = "swizzle_en"
    BY MemberTable
  <2>2. "swizzle_en" \notin DOMAIN value
    BY DEF IsValue
  <2> QED
    BY <2>1, <2>2 DEF Stored
<1>14. Stored(value, 13) = {}
  <2>1. Members[13].name = "idx_stride"
    BY MemberTable
  <2>2. "idx_stride" \notin DOMAIN value
    BY DEF IsValue
  <2> QED
    BY <2>1, <2>2 DEF Stored
<1>15. Stored(value, 14) = {}
  <2>1. Members[14].name = "add_tid_en"
    BY MemberTable
  <2>2. value.add_tid_en = {}
    BY DEF IsValue
  <2> QED
    BY <2>1, <2>2 DEF Stored
<1>16. Stored(value, 16) = {}
  <2>1. Members[16].name = "hash_en"
    BY MemberTable
  <2>2. "hash_en" \notin DOMAIN value
    BY DEF IsValue
  <2> QED
    BY <2>1, <2>2 DEF Stored
<1>17. Stored(value, 17) = {}
  <2>1. Members[17].name = "heap"
    BY MemberTable
  <2>2. "heap" \notin DOMAIN value
    BY DEF IsValue
  <2> QED
    BY <2>1, <2>2 DEF Stored
<1>18. Stored(value, 19) = {}
  <2>1. Members[19].name = "zero"
    BY MemberTable
  <2>2. "zero" \notin DOMAIN value
    BY DEF IsValue
  <2> QED
    BY <2>1, <2>2 DEF Stored
<1> QED
  BY <1>2, <1>3, <1>4, <1>5, <1>6, <1>7, <1>8, <1>9, <1>10, <1>11, <1>12, <1>13, <1>14, <1>15, <1>16, <1>17, <1>18

\* The base address is split between the first two words.
LEMMA AddressFields ==
  ASSUME NEW value, NEW address, address \subseteq 0 .. 47, Stored(value, 1) = address
  PROVE  LET data == buffer_resource(value)
         IN  /\ FieldBits(data, SQ_BUF_RSRC.BASE_ADDRESS) = address \cap 0 .. 31
             /\ {b + 32 : b \in FieldBits(data, SQ_BUF_RSRC.BASE_ADDRESS_HI)} = address \ (0 .. 31)
<1> DEFINE data == buffer_resource(value)
           row == Bits(value)
<1>1. FieldBits(data, SQ_BUF_RSRC.BASE_ADDRESS) = Slice(row, 0, 32)
  <2>1. 1 \in 1 .. 4 /\ 0 \in Nat /\ 32 \in Nat /\ 0 + 32 <= 32 /\ 32 * (1 - 1) + 0 = 0
    OBVIOUS
  <2>2. FieldBits(data, At(1, 0, 32)) = Slice(row, 32 * (1 - 1) + 0, 32)
    BY <2>1, FieldIsSlice
  <2> HIDE DEF data, row
  <2> QED
    BY <2>1, <2>2, LayoutFields
<1>2. FieldBits(data, SQ_BUF_RSRC.BASE_ADDRESS_HI) = Slice(row, 32, 16)
  <2>1. 2 \in 1 .. 4 /\ 0 \in Nat /\ 16 \in Nat /\ 0 + 16 <= 32 /\ 32 * (2 - 1) + 0 = 32
    OBVIOUS
  <2>2. FieldBits(data, At(2, 0, 16)) = Slice(row, 32 * (2 - 1) + 0, 16)
    BY <2>1, FieldIsSlice
  <2> HIDE DEF data, row
  <2> QED
    BY <2>1, <2>2, LayoutFields
<1>3. Slice(row, 0, 48) = address
  <2>1. 1 \in 1 .. 19 /\ BitOf[1] = 0 /\ Members[1].width = 48
    BY BitTable, MemberTable
  <2>2. Slice(row, BitOf[1], Members[1].width) = Stored(value, 1)
    BY <2>1, MemberSlice
  <2> HIDE DEF row
  <2> QED
    BY <2>1, <2>2
<1> HIDE DEF data, row
<1>4. \A b \in 0 .. 47 : b \in row <=> b \in address
  <2> SUFFICES ASSUME NEW b \in 0 .. 47 PROVE b \in row <=> b \in address
    OBVIOUS
  <2>1. ASSUME b \in row PROVE b \in address
    <3>1. b \in row \cap 0 .. 0 + 48 - 1 /\ b - 0 = b
      BY <2>1
    <3>2. b \in Slice(row, 0, 48)
      BY <3>1 DEF Slice
    <3> QED
      BY <1>3, <3>2
  <2>2. ASSUME b \in address PROVE b \in row
    <3>1. b \in Slice(row, 0, 48)
      BY <1>3, <2>2
    <3>2. PICK c \in row \cap 0 .. 0 + 48 - 1 : b = c - 0
      BY <3>1 DEF Slice
    <3>3. b = c
      BY <3>2
    <3> QED
      BY <3>2, <3>3
  <2> QED
    BY <2>1, <2>2
<1>5. Slice(row, 0, 32) = address \cap 0 .. 31
  <2> DEFINE S == {c - 0 : c \in row \cap 0 .. 0 + 32 - 1}
  <2>1. ASSUME NEW b \in S PROVE b \in address \cap 0 .. 31
    <3>1. PICK c \in row : c \in 0 .. 31 /\ b = c - 0
      BY <2>1
    <3>2. b = c /\ c \in 0 .. 47
      BY <3>1
    <3> QED
      BY <1>4, <3>1, <3>2
  <2>2. ASSUME NEW b \in address \cap 0 .. 31 PROVE b \in S
    <3>1. b \in 0 .. 47 /\ b \in 0 .. 0 + 32 - 1 /\ b - 0 = b
      BY <2>2
    <3>2. b \in row
      BY <1>4, <2>2, <3>1
    <3> QED
      BY <3>1, <3>2
  <2>3. Slice(row, 0, 32) = S
    BY DEF Slice
  <2> HIDE DEF S
  <2> QED
    BY <2>1, <2>2, <2>3
<1>6. {b + 32 : b \in Slice(row, 32, 16)} = address \ (0 .. 31)
  <2> DEFINE S == {c - 32 : c \in row \cap 32 .. 32 + 16 - 1}
             H == {b + 32 : b \in S}
  <2>1. ASSUME NEW x \in H PROVE x \in address \ (0 .. 31)
    <3>1. PICK c \in row : c \in 32 .. 47 /\ x = (c - 32) + 32
      BY <2>1
    <3>2. x = c /\ c \in 0 .. 47 /\ c \notin 0 .. 31
      BY <3>1
    <3> QED
      BY <1>4, <3>2
  <2>2. ASSUME NEW x \in address \ (0 .. 31) PROVE x \in H
    <3>1. x \in 0 .. 47 /\ x \in 32 .. 32 + 16 - 1 /\ x = (x - 32) + 32
      BY <2>2
    <3>2. x \in row
      BY <1>4, <2>2, <3>1
    <3>3. x - 32 \in S
      BY <3>1, <3>2
    <3> HIDE DEF S
    <3> QED
      BY <3>1, <3>3
  <2>3. Slice(row, 32, 16) = S
    BY DEF Slice
  <2> HIDE DEF S, H
  <2>4. H = address \ (0 .. 31)
    BY <2>1, <2>2
  <2> QED
    BY <2>3, <2>4 DEF H
<1> QED
  BY <1>1, <1>2, <1>5, <1>6 DEF data

\* For any such value.
LEMMA ResourceReadsBack ==
  ASSUME NEW value, IsValue(value)
  PROVE  ReadsAsStored(buffer_resource(value), value)
<1> DEFINE data == buffer_resource(value)
<1>1. /\ FieldBits(data, SQ_BUF_RSRC.BASE_ADDRESS) = value.base_addr \cap 0 .. 31
      /\ {b + 32 : b \in FieldBits(data, SQ_BUF_RSRC.BASE_ADDRESS_HI)} = value.base_addr \ (0 .. 31)
  BY StoredWhole, AddressFields DEF IsValue
<1>2. /\ FieldBits(data, SQ_BUF_RSRC.STRIDE) = value.stride
      /\ FieldBits(data, SQ_BUF_RSRC.NUM_RECORDS) = value.num_records
      /\ FieldBits(data, SQ_BUF_RSRC.DST_SEL_X) = value.dst_sel_x
      /\ FieldBits(data, SQ_BUF_RSRC.DST_SEL_Y) = value.dst_sel_y
      /\ FieldBits(data, SQ_BUF_RSRC.DST_SEL_Z) = value.dst_sel_z
      /\ FieldBits(data, SQ_BUF_RSRC.DST_SEL_W) = value.dst_sel_w
      /\ FieldBits(data, SQ_BUF_RSRC.NUM_FORMAT) = value.num_format
      /\ FieldBits(data, SQ_BUF_RSRC.DATA_FORMAT) = value.data_format
      /\ FieldBits(data, SQ_BUF_RSRC.ELEMENT_SIZE) = value.element_size
  BY StoredWhole, FieldsAreMembers
<1>3. /\ FieldBits(data, SQ_BUF_RSRC.CACHE_SWIZZLE) = {} /\ FieldBits(data, SQ_BUF_RSRC.SWIZZLE_ENABLE) = {}
      /\ FieldBits(data, SQ_BUF_RSRC.INDEX_STRIDE) = {} /\ FieldBits(data, SQ_BUF_RSRC.ADD_TID_ENABLE) = {}
      /\ FieldBits(data, SQ_BUF_RSRC.HASH_ENABLE) = {} /\ FieldBits(data, SQ_BUF_RSRC.HEAP) = {}
      /\ FieldBits(data, SQ_BUF_RSRC.TYPE) = {}
  BY StoredWhole, FieldsAreMembers
<1> HIDE DEF data
<1> QED
  BY <1>1, <1>2, <1>3 DEF ReadsAsStored, data

\* The values the programs set are such.
LEMMA ValuesFit ==
  ASSUME NEW address \in Addresses, NEW stride \in {4, 16}, NEW format \in {4, 10}
  PROVE  IsValue(ValueOf(address, stride, format))
<1>1. address \subseteq 0 .. 47
  BY AddressesAreVirtual
<1>2. Word(stride) \subseteq 0 .. 13
  <2>1. 14 \in 0 .. 31 /\ stride \in Nat /\ stride < 2 ^ 14 /\ 14 - 1 = 13
    BY SMT
  <2> QED
    BY <2>1, SmallWord
<1>3. Word(102400) \subseteq 0 .. 31
  <2>1. 102400 \in Int
    OBVIOUS
  <2> QED
    BY <2>1, WordBits DEF Bit
<1>4. Word(4) \subseteq 0 .. 2
  <2>1. 3 \in 0 .. 31 /\ 4 \in Nat /\ 4 < 2 ^ 3 /\ 3 - 1 = 2
    BY SMT
  <2> QED
    BY <2>1, SmallWord
<1>5. Word(format) \subseteq 0 .. 3
  <2>1. 4 \in 0 .. 31 /\ format \in Nat /\ format < 2 ^ 4 /\ 4 - 1 = 3
    BY SMT
  <2> QED
    BY <2>1, SmallWord
<1>6. Word(1) \subseteq 0 .. 1
  <2>1. 2 \in 0 .. 31 /\ 1 \in Nat /\ 1 < 2 ^ 2 /\ 2 - 1 = 1
    BY SMT
  <2> QED
    BY <2>1, SmallWord
<1> QED
  BY <1>1, <1>2, <1>3, <1>4, <1>5, <1>6 DEF IsValue, ValueOf

\* Instructions leave the resource as it is.
LEMMA ResourceKept ==
  Control \/ Scalar \/ VectorOne \/ VectorTwo \/ Compare \/ VectorThree \/ Memory => UNCHANGED resource
<1>0. /\ \A words, format, name, operand : Emit(words, format, name, operand) => UNCHANGED resource
      /\ \A words, format, name, operand : EmitWithLiteral(words, format, name, operand) => UNCHANGED resource
  BY DEF Emit, EmitWithLiteral
<1>1. Control => UNCHANGED resource
  <2> SUFFICES ASSUME Control PROVE UNCHANGED resource
    OBVIOUS
  <2>1. (\E o \in BranchOffsets :
           \/ Emit(s_branch(o), "SOPP", "S_BRANCH", [SIMM16 |-> o % 65536])
           \/ Emit(s_cbranch_scc0(o), "SOPP", "S_CBRANCH_SCC0", [SIMM16 |-> o % 65536])
           \/ Emit(s_cbranch_execz(o), "SOPP", "S_CBRANCH_EXECZ", [SIMM16 |-> o % 65536]))
         => UNCHANGED resource
    BY <1>0
  <2>2. (\E o \in JumpOffsets : Emit(s_jump(o), "SOPP", "S_BRANCH", [SIMM16 |-> o % 65536]))
         => UNCHANGED resource
    BY <1>0
  <2>3. /\ Emit(s_nop, "SOPP", "S_NOP", [SIMM16 |-> 0]) => UNCHANGED resource
        /\ Emit(s_endpgm, "SOPP", "S_ENDPGM", [SIMM16 |-> 0]) => UNCHANGED resource
        /\ Emit(s_waitcnt, "SOPP", "S_WAITCNT", [SIMM16 |-> 0]) => UNCHANGED resource
        /\ Emit(s_sleep(7), "SOPP", "S_SLEEP", [SIMM16 |-> 7]) => UNCHANGED resource
        /\ Emit(s_trap(255), "SOPP", "S_TRAP", [SIMM16 |-> 255]) => UNCHANGED resource
    BY <1>0
  <2> QED
    BY <2>1, <2>2, <2>3 DEF Control
<1>2. Scalar => UNCHANGED resource
  BY <1>0 DEF Scalar
<1>3. VectorOne => UNCHANGED resource
  BY <1>0 DEF VectorOne
<1>4. VectorTwo => UNCHANGED resource
  BY <1>0 DEF VectorTwo
<1>5. Compare => UNCHANGED resource
  BY <1>0 DEF Compare
<1>6. VectorThree => UNCHANGED resource
  BY <1>0 DEF VectorThree
<1>7. Memory => UNCHANGED resource
  BY <1>0 DEF Memory
<1> QED
  BY <1>1, <1>2, <1>3, <1>4, <1>5, <1>6, <1>7

\* The registers read from the resource are the members the program set, for every base
\* address of 48 bits, and the fields nobody sets are zero: the packing of the bit-fields in
\* the order of the struct is the layout that sid.h gives the words.
THEOREM ResourcesReadBack == Spec => []DescriptorReadsBack
<1> DEFINE Inv == "stride" \in DOMAIN resource.value => ReadsAsStored(resource.data, resource.value)
<1>1. Inv => DescriptorReadsBack
  BY DEF ReadsAsStored, DescriptorReadsBack, FieldBits
<1>2. Init => Inv
  BY DEF Init
<1>3. Inv /\ [Next]_vars => Inv'
  <2> SUFFICES ASSUME Inv, [Next]_vars,  "stride" \in DOMAIN resource'.value
               PROVE  ReadsAsStored(resource'.data, resource'.value)
    OBVIOUS
  <2>1. CASE UNCHANGED resource
    BY <2>1
  <2>2. CASE FillResource
    <3>1. PICK address \in Addresses, stride \in {4, 16}, format \in {4, 10} :
            resource' = [data |-> buffer_resource(ValueOf(address, stride, format)),
                         value |-> ValueOf(address, stride, format)]
      BY <2>2 DEF FillResource
    <3> DEFINE value == ValueOf(address, stride, format)
    <3>2. resource' = [data |-> buffer_resource(value), value |-> value]
      BY <3>1
    <3>3. IsValue(value)
      BY ValuesFit
    <3> HIDE DEF value
    <3>4. ReadsAsStored(buffer_resource(value), value)
      BY <3>3, ResourceReadsBack
    <3> QED
      BY <3>2, <3>4
  <2>3. Launch \/ compute_emit_compute_state \/ CopyOnRing \/ FlushCaches => UNCHANGED resource
    BY DEF Launch, compute_emit_compute_state, CopyOnRing, FlushCaches, Submits
  <2>4. UNCHANGED vars => UNCHANGED resource
    BY DEF vars
  <2> QED
    BY <2>1, <2>2, <2>3, <2>4, ResourceKept DEF Next
<1> HIDE DEF Inv
<1> QED
  BY <1>1, <1>2, <1>3, PTL DEF Spec


\* A packet whose header counts the words behind it.
IsPacket(p) ==
  /\ p \in Seq(SUBSET Bit) /\ Len(p) >= 2
  /\ Get(Packet.type, p[1]) = 3 /\ Get(Packet.shaderType, p[1]) = 1 /\ Get(Packet.count, p[1]) = Len(p) - 2

\* The same as the reader of a buffer sees it.
Parcel(p) == [opcode |-> Get(Packet.opcode, p[1]), body |-> SubSeq(p, 2, Len(p))]

\* What FlattenSeq computes: the packets up to i, one behind the other.
Flat(P) ==
  LET flatten[i \in 1 .. Len(P)] == IF i = 1 THEN P[i] ELSE flatten[i - 1] \o P[i]
  IN  flatten

-----------------------------------------------------------------------------
(* Packets one behind the other.                                           *)

\* FlattenSeq unfolds once.
LEMMA FlatEquation ==
  ASSUME NEW P, NEW N \in Nat \ {0}, Len(P) = N
  PROVE  /\ FlattenSeq(P) = Flat(P)[N]
         /\ Flat(P) = [i \in 1 .. N |-> IF i = 1 THEN P[i] ELSE Flat(P)[i - 1] \o P[i]]
<1> DEFINE D == {n \in Nat : \E f : f = [i \in 1 .. n |-> IF i = 1 THEN P[i] ELSE f[i - 1] \o P[i]]}
<1>1. 0 \in D
  <2> DEFINE first == [i \in 1 .. 0 |-> {}]
  <2>1. first = [i \in 1 .. 0 |-> IF i = 1 THEN P[i] ELSE first[i - 1] \o P[i]]
    OBVIOUS
  <2> QED
    BY <2>1
<1>2. ASSUME NEW n \in 0 .. N - 1, n \in D PROVE n + 1 \in D
  <2>1. PICK e : e = [i \in 1 .. n |-> IF i = 1 THEN P[i] ELSE e[i - 1] \o P[i]]
    BY <1>2
  <2> DEFINE next == IF n + 1 = 1 THEN P[n + 1] ELSE e[n] \o P[n + 1]
             g == [i \in 1 .. n + 1 |-> IF i = n + 1 THEN next ELSE e[i]]
  <2>2. ASSUME NEW i \in 1 .. n + 1 PROVE g[i] = IF i = 1 THEN P[i] ELSE g[i - 1] \o P[i]
    <3>1. CASE i = n + 1
      <4>1. g[i] = next
        BY <3>1
      <4>2. i # 1 => i - 1 \in 1 .. n /\ i - 1 = n /\ g[i - 1] = e[n]
        BY <3>1
      <4> QED
        BY <3>1, <4>1, <4>2
    <3>2. CASE i # n + 1
      <4>1. i \in 1 .. n
        BY <3>2
      <4> HIDE DEF next
      <4>2. g[i] = e[i] /\ (i # 1 => g[i - 1] = e[i - 1])
        BY <3>2, <4>1
      <4> HIDE DEF g
      <4>3. e[i] = IF i = 1 THEN P[i] ELSE e[i - 1] \o P[i]
        BY <2>1, <4>1
      <4> QED
        BY <4>2, <4>3
    <3> QED
      BY <3>1, <3>2
  <2>3. g = [i \in 1 .. n + 1 |-> IF i = 1 THEN P[i] ELSE g[i - 1] \o P[i]]
    BY <2>2
  <2> HIDE DEF g
  <2>4. \E f : f = [i \in 1 .. n + 1 |-> IF i = 1 THEN P[i] ELSE f[i - 1] \o P[i]]
    BY <2>3
  <2> HIDE DEF next
  <2>5. n + 1 \in Nat
    OBVIOUS
  <2> QED
    BY <2>4, <2>5
<1> HIDE DEF D
<1>3. N \in D
  <2>1. 0 .. N \subseteq D
    BY <1>1, <1>2, BoundedInduction
  <2> QED
    BY <2>1
<1>4. \E f : f = [i \in 1 .. N |-> IF i = 1 THEN P[i] ELSE f[i - 1] \o P[i]]
  BY <1>3 DEF D
<1>5. Flat(P) = CHOOSE f : f = [i \in 1 .. N |-> IF i = 1 THEN P[i] ELSE f[i - 1] \o P[i]]
  BY DEF Flat
<1>6. FlattenSeq(P) = Flat(P)[N]
  <2>1. N # 0
    OBVIOUS
  <2> QED
    BY <2>1 DEF FlattenSeq, Flat
<1> QED
  BY <1>4, <1>5, <1>6

\* It appends one packet after the other.
LEMMA FlatStep ==
  ASSUME NEW P, NEW N \in Nat \ {0}, Len(P) = N
  PROVE  /\ FlattenSeq(P) = Flat(P)[N] /\ Flat(P)[1] = P[1]
         /\ \A i \in 1 .. N - 1 : Flat(P)[i + 1] = Flat(P)[i] \o P[i + 1]
<1>1. /\ FlattenSeq(P) = Flat(P)[N]
      /\ Flat(P) = [i \in 1 .. N |-> IF i = 1 THEN P[i] ELSE Flat(P)[i - 1] \o P[i]]
  BY FlatEquation
<1>2. Flat(P)[1] = P[1]
  BY <1>1
<1>3. ASSUME NEW i \in 1 .. N - 1 PROVE Flat(P)[i + 1] = Flat(P)[i] \o P[i + 1]
  <2>1. i + 1 \in 1 .. N /\ i + 1 # 1 /\ (i + 1) - 1 = i
    OBVIOUS
  <2> QED
    BY <1>1, <2>1
<1> QED
  BY <1>1, <1>2, <1>3

\* t is s and what was written behind it.
Continues(s, t) ==
  /\ s \in Seq(SUBSET Bit) /\ t \in Seq(SUBSET Bit) /\ Len(s) <= Len(t)
  /\ \A b \in 1 .. Len(s) : t[b] = s[b]

\* What was written stays.
LEMMA FlatContinues ==
  ASSUME NEW P, NEW N \in Nat \ {0}, Len(P) = N, \A k \in 1 .. N : P[k] \in Seq(SUBSET Bit)
  PROVE  \A j \in 1 .. N : \A i \in 1 .. j : Continues(Flat(P)[i], Flat(P)[j])
<1> DEFINE F == Flat(P)
           D == {n \in Nat : \A i \in 1 .. n : Continues(F[i], F[n])}
<1>0. F[1] = P[1] /\ \A i \in 1 .. N - 1 : F[i + 1] = F[i] \o P[i + 1]
  BY FlatStep
<1> HIDE DEF F
<1>1. 0 \in D
  OBVIOUS
<1>2. ASSUME NEW n \in 0 .. N - 1, n \in D PROVE n + 1 \in D
  <2>1. F[n + 1] \in Seq(SUBSET Bit) /\ (n > 0 => Continues(F[n], F[n + 1]))
    <3>1. CASE n = 0
      BY <1>0, <3>1
    <3>2. CASE n > 0
      <4>0. n \in 1 .. N - 1 /\ n + 1 \in 1 .. N
        BY <3>2
      <4>1. F[n + 1] = F[n] \o P[n + 1] /\ P[n + 1] \in Seq(SUBSET Bit)
        BY <1>0, <4>0
      <4>2. Continues(F[n], F[n])
        BY <1>2, <3>2
      <4>3. F[n] \in Seq(SUBSET Bit)
        BY <4>2 DEF Continues
      <4> DEFINE w == F[n]
                 v == P[n + 1]
      <4> HIDE DEF w, v
      <4>4. w \in Seq(SUBSET Bit) /\ v \in Seq(SUBSET Bit) /\ F[n + 1] = w \o v
        BY <4>1, <4>3 DEF w, v
      <4>5. /\ w \o v \in Seq(SUBSET Bit) /\ Len(w \o v) = Len(w) + Len(v) /\ Len(w) \in Nat /\ Len(v) \in Nat
            /\ \A k \in 1 .. Len(w) : (w \o v)[k] = w[k]
        BY <4>4, Concatenated
      <4>6. Len(w) <= Len(w \o v)
        BY <4>5
      <4>7. Continues(w, w \o v)
        BY <4>4, <4>5, <4>6 DEF Continues
      <4> QED
        BY <4>4, <4>5, <4>7 DEF w
    <3> QED
      BY <3>1, <3>2
  <2>2. ASSUME NEW i \in 1 .. n + 1 PROVE Continues(F[i], F[n + 1])
    <3>1. CASE i = n + 1
      <4> DEFINE s == F[n + 1]
      <4> HIDE DEF s
      <4>1. s \in Seq(SUBSET Bit)
        BY <2>1 DEF s
      <4>2. Len(s) \in Nat
        BY <4>1
      <4>3. Continues(s, s)
        BY <4>1, <4>2 DEF Continues
      <4> QED
        BY <3>1, <4>3 DEF s
    <3>2. CASE i # n + 1
      <4>1. i \in 1 .. n /\ n > 0
        BY <3>2
      <4>2. Continues(F[i], F[n]) /\ Continues(F[n], F[n + 1])
        BY <1>2, <2>1, <4>1
      <4> DEFINE r == F[i]
                 s == F[n]
                 t == F[n + 1]
      <4> HIDE DEF r, s, t
      <4>3. Continues(r, s) /\ Continues(s, t)
        BY <4>2 DEF r, s, t
      <4>4. Len(r) \in Nat /\ Len(s) \in Nat /\ Len(t) \in Nat /\ Len(r) <= Len(s) /\ Len(s) <= Len(t)
        BY <4>3 DEF Continues
      <4>5. ASSUME NEW b \in 1 .. Len(r) PROVE t[b] = r[b]
        <5>1. b \in 1 .. Len(s)
          BY <4>4
        <5> QED
          BY <4>3, <5>1 DEF Continues
      <4>6. Len(r) <= Len(t)
        BY <4>4
      <4> QED
        BY <4>3, <4>5, <4>6 DEF Continues, r, t
    <3> QED
      BY <3>1, <3>2
  <2> QED
    BY <2>2
<1>3. 0 .. N \subseteq D
  <2> HIDE DEF D
  <2> QED
    BY <1>1, <1>2, BoundedInduction
<1> QED
  BY <1>3 DEF F


\* A sequence, first element and rest.
LEMMA Prepended ==
  ASSUME NEW n \in Nat, NEW f
  PROVE  <<f[1]>> \o [k \in 1 .. n |-> f[k + 1]] = [k \in 1 .. n + 1 |-> f[k]]
<1> DEFINE T == {f[k] : k \in 1 .. n + 1}
           w == <<f[1]>>
           v == [k \in 1 .. n |-> f[k + 1]]
           all == [k \in 1 .. n + 1 |-> f[k]]
<1>1. f[1] \in T /\ \A k \in 1 .. n : f[k + 1] \in T
  <2>1. 1 \in 1 .. n + 1 /\ \A k \in 1 .. n : k + 1 \in 1 .. n + 1
    OBVIOUS
  <2> QED
    BY <2>1
<1> HIDE DEF T
<1>2. w \in Seq(T) /\ v \in Seq(T) /\ Len(w) = 1 /\ w[1] = f[1] /\ Len(v) = n
  BY <1>1
<1>3. \A k \in 1 .. n : v[k] = f[k + 1]
  OBVIOUS
<1> HIDE DEF w, v
<1>4. /\ w \o v \in Seq(T) /\ Len(w \o v) = 1 + n
      /\ \A k \in 1 .. 1 : (w \o v)[k] = w[k]
      /\ \A k \in 1 .. n : (w \o v)[1 + k] = v[k]
  <2>1. w \in Seq(T)
    BY <1>2
  <2>2. v \in Seq(T)
    BY <1>2
  <2>3. /\ w \o v \in Seq(T) /\ Len(w \o v) = Len(w) + Len(v)
        /\ \A k \in 1 .. Len(w) : (w \o v)[k] = w[k]
        /\ \A k \in 1 .. Len(v) : (w \o v)[Len(w) + k] = v[k]
    BY <2>1, <2>2, Concatenated
  <2> QED
    BY <1>2, <2>3
<1> DEFINE u == w \o v
<1> HIDE DEF u
<1>5. u \in Seq(T) /\ Len(u) = n + 1
  BY <1>4 DEF u
<1>6. ASSUME NEW k \in 1 .. n + 1 PROVE u[k] = f[k]
  <2>1. CASE k = 1
    BY <1>2, <1>4, <2>1 DEF u
  <2>2. CASE k # 1
    <3>1. k - 1 \in 1 .. n /\ 1 + (k - 1) = k /\ (k - 1) + 1 = k
      BY <2>2
    <3>2. u[1 + (k - 1)] = v[k - 1] /\ v[k - 1] = f[(k - 1) + 1]
      BY <1>3, <1>4, <3>1 DEF u
    <3> QED
      BY <3>1, <3>2
  <2> QED
    BY <2>1, <2>2
<1>7. u = [k \in 1 .. n + 1 |-> u[k]]
  BY <1>5
<1>8. u = all
  BY <1>6, <1>7
<1> QED
  BY <1>8 DEF u, w, v

\* The reader of a buffer takes a packet whole and goes on behind it.
LEMMA PacketRead ==
  ASSUME NEW B \in Seq(SUBSET Bit), NEW p, IsPacket(p), NEW s \in Nat, s + Len(p) <= Len(B),
         \A b \in 1 .. Len(p) : B[s + b] = p[b]
  PROVE  PacketsFrom(B)[s + 1] = <<Parcel(p)>> \o PacketsFrom(B)[s + Len(p) + 1]
<1> DEFINE n == Len(p)
           i == s + 1
           from == PacketsFrom(B)
<1>1. p \in Seq(SUBSET Bit) /\ n \in Nat /\ n >= 2 /\ Len(B) \in Nat
  BY DEF IsPacket
<1>2. /\ Get(Packet.type, p[1]) = 3 /\ Get(Packet.shaderType, p[1]) = 1
      /\ Get(Packet.count, p[1]) = n - 2
  BY DEF IsPacket
<1>3. B[i] = p[1]
  BY <1>1
<1>4. SubSeq(B, s + 2, s + n) = SubSeq(p, 2, n)
  <2> DEFINE x == SubSeq(B, s + 2, s + n)
             y == SubSeq(p, 2, n)
  <2>1. /\ x = [k \in 1 .. n - 1 |-> B[s + 2 + k - 1]]
        /\ y = [k \in 1 .. n - 1 |-> p[2 + k - 1]]
    BY <1>1
  <2>2. ASSUME NEW k \in 1 .. n - 1 PROVE B[s + 2 + k - 1] = p[2 + k - 1]
    <3>1. k + 1 \in 1 .. Len(p) /\ s + 2 + k - 1 = s + (k + 1) /\ 2 + k - 1 = k + 1
      BY <1>1
    <3> QED
      BY <3>1
  <2> HIDE DEF x, y
  <2>3. x = y
    BY <2>1, <2>2
  <2> QED
    BY <2>3 DEF x, y
<1>5. i \in 1 .. Len(B) + 1 /\ ~(i > Len(B)) /\ i + (n - 2 + 1) = s + n /\ ~(s + n > Len(B))
      /\ i + 1 = s + 2 /\ s + n + 1 = i + (n - 2 + 1) + 1
  BY <1>1
<1>6. from[i] = PacketsAt(from, B, i)
  BY <1>1, <1>5, PacketsEquation
<1> HIDE DEF from, n, i
<1> DEFINE c == Get(Packet.count, B[i]) + 1
           q == [opcode |-> Get(Packet.opcode, B[i]), body |-> SubSeq(B, i + 1, i + c)]
<1>7. PacketsAt(from, B, i) =
        IF i > Len(B) THEN <<>>
        ELSE IF Get(Packet.type, B[i]) # 3 \/ Get(Packet.shaderType, B[i]) # 1 \/ i + c > Len(B)
             THEN <<[opcode |-> -1, body |-> <<>>]>>
             ELSE <<q>> \o from[i + c + 1]
  BY DEF PacketsAt
<1>8. c = n - 2 + 1
  BY <1>2, <1>3
<1>9. i + c = s + n /\ i + c + 1 = s + n + 1
  BY <1>5, <1>8
<1>10. q = Parcel(p)
  BY <1>3, <1>4, <1>5, <1>9 DEF Parcel, n
<1> HIDE DEF c, q
<1>11. PacketsAt(from, B, i) = <<q>> \o from[i + c + 1]
  BY <1>2, <1>3, <1>5, <1>7, <1>9
<1>12. from[i] = <<Parcel(p)>> \o from[s + n + 1]
  BY <1>6, <1>9, <1>10, <1>11
<1> QED
  BY <1>12 DEF from, n, i

\* Packets written one behind the other are read as these packets.
LEMMA FlattenedPackets ==
  ASSUME NEW P, NEW N \in Nat \ {0}, Len(P) = N, \A k \in 1 .. N : IsPacket(P[k])
  PROVE  /\ Packets(FlattenSeq(P)) = [k \in 1 .. N |-> Parcel(P[k])]
         /\ FlattenSeq(P) \in Seq(SUBSET Bit)
<1> DEFINE F == Flat(P)
           B == FlattenSeq(P)
           from == PacketsFrom(B)
           End(j) == IF j = 0 THEN 0 ELSE Len(F[j])
           h == [k \in 1 .. N |-> Parcel(P[k])]
           D == {n \in Nat : n <= N => from[End(N - n) + 1] = [k \in 1 .. n |-> h[N - n + k]]}
<1>0. \A k \in 1 .. N : P[k] \in Seq(SUBSET Bit)
  BY DEF IsPacket
<1>1. B = F[N] /\ F[1] = P[1] /\ \A j \in 1 .. N - 1 : F[j + 1] = F[j] \o P[j + 1]
  BY FlatStep
<1>2. \A j \in 1 .. N : \A i \in 1 .. j : Continues(F[i], F[j])
  BY <1>0, FlatContinues
<1> HIDE DEF F, B
<1>3. \A j \in 1 .. N : Continues(F[j], B)
  <2>1. N \in 1 .. N
    OBVIOUS
  <2> QED
    BY <1>1, <1>2, <2>1
<1>4. B \in Seq(SUBSET Bit)
  <2>1. Continues(F[N], B)
    BY <1>3
  <2> QED
    BY <2>1 DEF Continues
<1>5. Len(B) \in Nat /\ End(N) = Len(B)
  BY <1>1, <1>4
<1>6. 0 \in D
  <2>1. from[Len(B) + 1] = PacketsAt(from, B, Len(B) + 1)
    <3>1. Len(B) + 1 \in 1 .. Len(B) + 1
      BY <1>5
    <3> QED
      BY <1>5, <3>1, PacketsEquation
  <2>2. PacketsAt(from, B, Len(B) + 1) = <<>>
    <3>1. Len(B) + 1 > Len(B)
      BY <1>5
    <3> QED
      BY <3>1 DEF PacketsAt
  <2>3. [k \in 1 .. 0 |-> h[N - 0 + k]] = <<>>
    OBVIOUS
  <2>4. N - 0 = N
    OBVIOUS
  <2> HIDE DEF from, End, h
  <2>5. from[End(N) + 1] = <<>>
    BY <1>5, <2>1, <2>2
  <2> QED
    BY <2>3, <2>4, <2>5
<1>7. \A j \in 0 .. N - 1 :
        /\ End(j) \in Nat /\ End(j + 1) = End(j) + Len(P[j + 1]) /\ End(j + 1) <= Len(B)
        /\ \A b \in 1 .. Len(P[j + 1]) : B[End(j) + b] = P[j + 1][b]
  <2> SUFFICES ASSUME NEW j \in 0 .. N - 1
               PROVE  /\ End(j) \in Nat /\ End(j + 1) = End(j) + Len(P[j + 1]) /\ End(j + 1) <= Len(B)
                      /\ \A b \in 1 .. Len(P[j + 1]) : B[End(j) + b] = P[j + 1][b]
    OBVIOUS
  <2> DEFINE t == F[j + 1]
             v == P[j + 1]
  <2>1. j + 1 \in 1 .. N /\ j + 1 # 0 /\ End(j + 1) = Len(t)
    OBVIOUS
  <2>2. Continues(t, B) /\ v \in Seq(SUBSET Bit)
    BY <1>0, <1>3, <2>1
  <2> HIDE DEF t, v
  <2>3. Len(v) \in Nat /\ Len(t) \in Nat /\ Len(t) <= Len(B) /\ \A b \in 1 .. Len(t) : B[b] = t[b]
    BY <2>2 DEF Continues
  <2>4. End(j) \in Nat /\ Len(t) = End(j) + Len(v) /\ \A b \in 1 .. Len(v) : t[End(j) + b] = v[b]
    <3>1. CASE j = 0
      <4>1. End(j) = 0 /\ t = v
        BY <1>1, <3>1 DEF t, v
      <4> HIDE DEF End
      <4>2. \A b \in 1 .. Len(v) : 0 + b = b
        BY <2>3
      <4> QED
        BY <2>3, <4>1, <4>2
    <3>2. CASE j # 0
      <4> DEFINE w == F[j]
      <4>1. j \in 1 .. N - 1 /\ j \in 1 .. N
        BY <3>2
      <4>2. t = w \o v /\ End(j) = Len(w) /\ Continues(w, B)
        BY <1>1, <1>3, <3>2, <4>1 DEF t, v
      <4> HIDE DEF w, End
      <4>3. w \in Seq(SUBSET Bit)
        BY <4>2 DEF Continues
      <4>4. /\ Len(w \o v) = Len(w) + Len(v) /\ Len(w) \in Nat
            /\ \A k \in 1 .. Len(v) : (w \o v)[Len(w) + k] = v[k]
        BY <2>2, <4>3, Concatenated
      <4> QED
        BY <4>2, <4>4
    <3> QED
      BY <3>1, <3>2
  <2> HIDE DEF End
  <2>5. ASSUME NEW b \in 1 .. Len(v) PROVE B[End(j) + b] = v[b]
    <3>1. End(j) + b \in 1 .. Len(t)
      BY <2>3, <2>4
    <3> QED
      BY <2>3, <2>4, <3>1
  <2> QED
    BY <2>1, <2>3, <2>4, <2>5 DEF v
<1>8. ASSUME NEW n \in 0 .. N - 1, n \in D PROVE n + 1 \in D
  <2> DEFINE j == N - (n + 1)
             p == P[j + 1]
             s == End(j)
  <2>1. j \in 0 .. N - 1 /\ j + 1 \in 1 .. N /\ j + 1 = N - n /\ n <= N /\ n + 1 \in Nat
    OBVIOUS
  <2>2. from[End(j + 1) + 1] = [k \in 1 .. n |-> h[N - n + k]]
    BY <1>8, <2>1
  <2>3. s \in Nat /\ End(j + 1) = s + Len(p) /\ End(j + 1) <= Len(B) /\ \A b \in 1 .. Len(p) : B[s + b] = p[b]
    BY <1>7, <2>1
  <2>4. IsPacket(p) /\ h[j + 1] = Parcel(p)
    BY <2>1
  <2> HIDE DEF j, p, s, End, h, from
  <2>5. s + Len(p) <= Len(B)
    BY <2>3
  <2>6. from[s + 1] = <<Parcel(p)>> \o from[s + Len(p) + 1]
    BY <1>4, <2>3, <2>4, <2>5, PacketRead DEF from
  <2> DEFINE f == [k \in 1 .. n + 1 |-> h[j + k]]
  <2>7. f[1] = h[j + 1] /\ \A k \in 1 .. n : f[k + 1] = h[N - n + k]
    <3>1. 1 \in 1 .. n + 1
      OBVIOUS
    <3>2. \A k \in 1 .. n : k + 1 \in 1 .. n + 1 /\ j + (k + 1) = N - n + k
      BY <2>1
    <3> QED
      BY <3>1, <3>2
  <2>8. f = [k \in 1 .. n + 1 |-> f[k]]
    OBVIOUS
  <2> HIDE DEF f
  <2>9. [k \in 1 .. n |-> f[k + 1]] = [k \in 1 .. n |-> h[N - n + k]]
    BY <2>7
  <2>10. <<f[1]>> \o [k \in 1 .. n |-> f[k + 1]] = [k \in 1 .. n + 1 |-> f[k]]
    BY Prepended
  <2>11. from[s + 1] = f
    BY <2>2, <2>3, <2>4, <2>6, <2>7, <2>8, <2>9, <2>10
  <2>12. from[End(N - (n + 1)) + 1] = [k \in 1 .. n + 1 |-> h[N - (n + 1) + k]]
    BY <2>11 DEF s, f, j
  <2> QED
    BY <2>1, <2>12
<1>9. N \in D
  <2> HIDE DEF D
  <2>1. 0 .. N \subseteq D
    BY <1>6, <1>8, BoundedInduction
  <2> QED
    BY <2>1
<1>10. from[1] = h
  <2>1. from[End(N - N) + 1] = [k \in 1 .. N |-> h[N - N + k]]
    BY <1>9
  <2>2. N - N = 0 /\ End(0) + 1 = 1 /\ \A k \in 1 .. N : 0 + k = k
    OBVIOUS
  <2>3. h = [k \in 1 .. N |-> h[k]]
    OBVIOUS
  <2> HIDE DEF from, End, h
  <2>4. from[1] = [k \in 1 .. N |-> h[0 + k]]
    BY <2>1, <2>2
  <2>5. [k \in 1 .. N |-> h[0 + k]] = [k \in 1 .. N |-> h[k]]
    BY <2>2
  <2> QED
    BY <2>3, <2>4, <2>5
<1> QED
  BY <1>4, <1>10 DEF Packets, B


\* The packet sets this register to this value, and no other register.
SetsOnly(packet, reg, val) ==
  /\ packet.opcode = Opcodes.SET_SH_REG
  /\ \A r \in Int : Sets(packet, r) <=> r = reg
  /\ ValueSet(packet, reg) = val

RegisterOffset == 0 .. 1023

-----------------------------------------------------------------------------
(* The packets of a dispatch.                                              *)

\* The number of a register fits its word.
LEMMA SmallOffset ==
  ASSUME NEW o \in RegisterOffset
  PROVE  Number(Word(o)) = o /\ Word(o) \in SUBSET Bit
<1>1. o \in Nat /\ o < 2 ^ 10 /\ 10 \in 0 .. 31
  BY SMT DEF RegisterOffset
<1>2. Number(Word(o)) = o
  BY <1>1, SmallWord
<1>3. o \in Int
  BY <1>1
<1> QED
  BY <1>2, <1>3, WordBits

\* The header of a packet that sets registers.
LEMMA SetHeader ==
  ASSUME NEW n \in 1 .. 16
  PROVE  IsHeader(PKT3C(Opcodes.SET_SH_REG, n), \h76, n) /\ Opcodes.SET_SH_REG = \h76
<1>1. Opcodes.SET_SH_REG = \h76
  BY DEF Opcodes
<1>2. \h76 \in 0 .. 255 /\ n \in PacketCount
  BY SMT DEF PacketCount
<1>3. IsHeader(PKT3C(\h76, n), \h76, n)
  BY <1>2, HeaderReads
<1> QED
  BY <1>1, <1>3

\* A packet that sets registers from one on.
IsSetPacket(p, o, vals) ==
  LET packet == Parcel(p)
  IN  /\ IsPacket(p) /\ Len(p) = Len(vals) + 2
      /\ packet.opcode = Opcodes.SET_SH_REG
      /\ Len(packet.body) = Len(vals) + 1 /\ Number(packet.body[1]) = o
      /\ \A k \in 1 .. Len(vals) : packet.body[1 + k] = vals[k]

SetWords(o, vals) == <<PKT3C(Opcodes.SET_SH_REG, Len(vals)), Word(o)>> \o vals

\* A pair and a third.
LEMMA Triple ==
  ASSUME NEW a, NEW b, NEW c
  PROVE  <<a, b>> \o <<c>> = <<a, b, c>>
<1> DEFINE T == {a, b, c}
           w == <<a, b>>
           v == <<c>>
           x == <<a, b, c>>
<1>1. w \in Seq(T) /\ Len(w) = 2 /\ w[1] = a /\ w[2] = b
  OBVIOUS
<1>2. v \in Seq(T) /\ Len(v) = 1 /\ v[1] = c
  OBVIOUS
<1>3. x \in Seq(T) /\ Len(x) = 3 /\ x[1] = a /\ x[2] = b /\ x[3] = c
  OBVIOUS
<1> HIDE DEF T, w, v, x
<1>4. /\ w \o v \in Seq(T) /\ Len(w \o v) = Len(w) + Len(v)
      /\ \A k \in 1 .. Len(w) : (w \o v)[k] = w[k]
      /\ \A k \in 1 .. Len(v) : (w \o v)[Len(w) + k] = v[k]
  <2>1. w \in Seq(T)
    BY <1>1
  <2>2. v \in Seq(T)
    BY <1>2
  <2> QED
    BY <2>1, <2>2, Concatenated
<1> DEFINE u == w \o v
<1>5. u \in Seq(T) /\ Len(u) = 3 /\ u[1] = a /\ u[2] = b /\ u[3] = c
  <2>1. 1 \in 1 .. Len(w) /\ 2 \in 1 .. Len(w) /\ 1 \in 1 .. Len(v) /\ Len(w) + 1 = 3
    BY <1>1, <1>2
  <2> QED
    BY <1>1, <1>2, <1>4, <2>1
<1> HIDE DEF u
<1>6. u = x
  <2>1. u = [k \in 1 .. 3 |-> u[k]] /\ x = [k \in 1 .. 3 |-> x[k]]
    BY <1>3, <1>5
  <2>2. \A k \in 1 .. 3 : u[k] = x[k]
    BY <1>3, <1>5
  <2> QED
    BY <2>1, <2>2
<1> QED
  BY <1>6 DEF u, w, v, x

\* SET_SH_REG with any number of values up to 16.
LEMMA SetPacket ==
  ASSUME NEW o \in RegisterOffset, NEW vals \in Seq(SUBSET Bit), Len(vals) \in 1 .. 16
  PROVE  IsSetPacket(SetWords(o, vals), o, vals)
<1> DEFINE n == Len(vals)
           header == PKT3C(Opcodes.SET_SH_REG, n)
           w == <<header, Word(o)>>
           p == w \o vals
<1>0. n \in 1 .. 16 /\ Len(vals) = n
  OBVIOUS
<1> HIDE DEF n
<1>1. IsHeader(header, \h76, n) /\ Opcodes.SET_SH_REG = \h76
  BY <1>0, SetHeader
<1>2. header \in SUBSET Bit /\ Word(o) \in SUBSET Bit /\ Number(Word(o)) = o
  BY <1>1, SmallOffset DEF IsHeader
<1> HIDE DEF header
<1>3. w \in Seq(SUBSET Bit) /\ Len(w) = 2 /\ w[1] = header /\ w[2] = Word(o)
  BY <1>2
<1> HIDE DEF w
<1>4. /\ w \o vals \in Seq(SUBSET Bit) /\ Len(w \o vals) = Len(w) + Len(vals)
      /\ \A k \in 1 .. Len(w) : (w \o vals)[k] = w[k]
      /\ \A k \in 1 .. Len(vals) : (w \o vals)[Len(w) + k] = vals[k]
  <2>1. w \in Seq(SUBSET Bit)
    BY <1>3
  <2> QED
    BY <2>1, Concatenated
<1>5. /\ p \in Seq(SUBSET Bit) /\ Len(p) = n + 2 /\ p[1] = header /\ p[2] = Word(o)
      /\ \A k \in 1 .. n : p[2 + k] = vals[k]
  <2>1. 1 \in 1 .. Len(w) /\ 2 \in 1 .. Len(w)
    BY <1>3
  <2>2. 2 + n = n + 2
    BY <1>0
  <2> QED
    BY <1>0, <1>3, <1>4, <2>1, <2>2
<1> HIDE DEF p
<1>6. /\ Get(Packet.type, p[1]) = 3 /\ Get(Packet.shaderType, p[1]) = 1
      /\ Get(Packet.count, p[1]) = n /\ Get(Packet.opcode, p[1]) = Opcodes.SET_SH_REG
  BY <1>1, <1>5 DEF IsHeader
<1>7. Len(p) >= 2 /\ Len(p) - 2 = n
  BY <1>0, <1>5
<1>8. IsPacket(p)
  BY <1>5, <1>6, <1>7 DEF IsPacket
<1> DEFINE body == SubSeq(p, 2, Len(p))
<1>9. Len(body) = n + 1 /\ \A k \in 1 .. n + 1 : body[k] = p[2 + k - 1]
  BY <1>0, <1>5
<1>10. Parcel(p).opcode = Opcodes.SET_SH_REG /\ Parcel(p).body = body
  BY <1>6 DEF Parcel
<1> HIDE DEF body
<1>11. body[1] = Word(o)
  <2>1. 1 \in 1 .. n + 1 /\ 2 + 1 - 1 = 2
    BY <1>0
  <2> QED
    BY <1>5, <1>9, <2>1
<1>12. ASSUME NEW k \in 1 .. n PROVE body[1 + k] = vals[k]
  <2>1. 1 + k \in 1 .. n + 1 /\ 2 + (1 + k) - 1 = 2 + k
    BY <1>0
  <2> QED
    BY <1>5, <1>9, <2>1
<1> QED
  BY <1>2, <1>5, <1>8, <1>9, <1>10, <1>11, <1>12 DEF n, p, w, header, IsSetPacket, SetWords

\* set_compute_reg sets its register to its value, and no other register.
LEMMA SetCommand ==
  ASSUME NEW o \in RegisterOffset, NEW val \in SUBSET Bit, NEW reg, reg = \hB000 + 4 * o
  PROVE  /\ IsPacket(set_compute_reg(reg, val)) /\ Len(set_compute_reg(reg, val)) = 3
         /\ SetsOnly(Parcel(set_compute_reg(reg, val)), reg, val)
<1> DEFINE vals == <<val>>
           p == SetWords(o, vals)
           packet == Parcel(p)
<1>1. vals \in Seq(SUBSET Bit) /\ Len(vals) = 1 /\ vals[1] = val /\ 1 \in 1 .. 16
  OBVIOUS
<1> HIDE DEF vals
<1>2. IsSetPacket(p, o, vals)
  <2>1. vals \in Seq(SUBSET Bit)
    BY <1>1
  <2>2. Len(vals) \in 1 .. 16
    BY <1>1
  <2> QED
    BY <2>1, <2>2, SetPacket
<1>0. ShReg.begin = \hB000
  BY DEF ShReg
<1>3. (reg - \hB000) \div 4 = o /\ reg \in Int /\ o \in Int
  BY SMT DEF RegisterOffset
<1>4. set_compute_reg(reg, val) = p
  <2>1. set_compute_reg(reg, val) = <<PKT3C(Opcodes.SET_SH_REG, 1), Word(o), val>>
    BY <1>3 DEF set_compute_reg, ShReg
  <2>2. p = <<PKT3C(Opcodes.SET_SH_REG, 1), Word(o), val>>
    <3>1. p = <<PKT3C(Opcodes.SET_SH_REG, 1), Word(o)>> \o vals
      BY <1>1 DEF SetWords
    <3> QED
      BY <3>1, Triple DEF vals
  <2> HIDE DEF p
  <2> QED
    BY <2>1, <2>2
<1> HIDE DEF p
<1>9. /\ IsPacket(p) /\ Len(p) = 3
      /\ packet.opcode = Opcodes.SET_SH_REG
      /\ Len(packet.body) = 2 /\ Number(packet.body[1]) = o
      /\ \A k \in 1 .. 1 : packet.body[1 + k] = vals[k]
  BY <1>1, <1>2 DEF IsSetPacket
<1> HIDE DEF packet
<1>5. packet.body[2] = val /\ Len(packet.body) - 2 = 0
  <2>1. 1 \in 1 .. 1 /\ 1 + 1 = 2
    OBVIOUS
  <2> QED
    BY <1>1, <1>9, <2>1
<1>6. ASSUME NEW r \in Int PROVE Sets(packet, r) <=> r = reg
  <2> DEFINE m == Len(packet.body) - 2
  <2>1. m = 0
    BY <1>5
  <2> HIDE DEF m
  <2>2. r = reg <=> reg \in {r - 4 * n : n \in 0 .. m}
    <3>1. \A n \in 0 .. m : r - 4 * n = r
      BY <2>1
    <3>2. 0 \in 0 .. m
      BY <2>1
    <3> QED
      BY <3>1, <3>2
  <2>3. 4 * Number(packet.body[1]) + ShReg.begin = reg
    <3> DEFINE x == Number(packet.body[1])
    <3>1. x = o
      BY <1>9
    <3> HIDE DEF x
    <3>2. 4 * x + \hB000 = reg
      BY <1>3, <3>1
    <3> QED
      BY <1>0, <3>2 DEF x
  <2> QED
    BY <1>9, <2>2, <2>3 DEF Sets, m
<1>7. ValueSet(packet, reg) = val
  <2>1. 2 + (reg - ShReg.begin) \div 4 - Number(packet.body[1]) = 2
    BY <1>9, <1>3 DEF ShReg
  <2> QED
    BY <1>5, <2>1 DEF ValueSet
<1>8. SetsOnly(packet, reg, val)
  BY <1>9, <1>6, <1>7 DEF SetsOnly
<1> QED
  BY <1>4, <1>8, <1>9 DEF packet


\* The packet sets the registers of the user data to them, and no other register.
SetsUserData(packet, ud) ==
  /\ packet.opcode = Opcodes.SET_SH_REG
  /\ \A r \in Int : Sets(packet, r) <=> \E n \in 0 .. Len(ud) - 1 : r = \hB900 + 4 * n
  /\ \A n \in 1 .. Len(ud) : ValueSet(packet, \hB900 + 4 * (n - 1)) = ud[n]

\* The user data are one packet, which sets their registers one by one.
LEMMA UserDataCommand ==
  ASSUME NEW ud \in Seq(SUBSET Bit), Len(ud) \in 1 .. 16
  PROVE  /\ UserData(ud) = <<SetWords(576, ud)>>
         /\ IsPacket(SetWords(576, ud)) /\ Len(SetWords(576, ud)) <= 18
         /\ SetsUserData(Parcel(SetWords(576, ud)), ud)
<1> DEFINE p == SetWords(576, ud)
           packet == Parcel(p)
           m == Len(ud)
<1>0. ShReg.begin = \hB000 /\ Register.COMPUTE_USER_DATA_0 = \hB900 /\ (\hB900 - \hB000) \div 4 = 576
  <2>1. ShReg.begin = \hB000
    BY DEF ShReg
  <2>2. Register.COMPUTE_USER_DATA_0 = \hB900
    BY DEF Register
  <2>3. (\hB900 - \hB000) \div 4 = 576
    BY SMT
  <2> QED
    BY <2>1, <2>2, <2>3
<1>1. 576 \in RegisterOffset
  BY SMT DEF RegisterOffset
<1>2. IsSetPacket(p, 576, ud)
  BY <1>1, SetPacket
<1>3. UserData(ud) = <<p>>
  <2>1. ud # <<>>
    OBVIOUS
  <2> QED
    BY <1>0, <2>1 DEF UserData, SetWords
<1> HIDE DEF p
<1>4. /\ IsPacket(p) /\ Len(p) = m + 2
      /\ packet.opcode = Opcodes.SET_SH_REG
      /\ Len(packet.body) = m + 1 /\ Number(packet.body[1]) = 576
      /\ \A k \in 1 .. m : packet.body[1 + k] = ud[k]
  BY <1>2 DEF IsSetPacket
<1>5. m \in 1 .. 16
  OBVIOUS
<1> HIDE DEF packet, m
<1>6. ASSUME NEW r \in Int PROVE Sets(packet, r) <=> \E n \in 0 .. m - 1 : r = \hB900 + 4 * n
  <2> DEFINE last == Len(packet.body) - 2
  <2>1. last = m - 1
    BY <1>4, <1>5
  <2> HIDE DEF last
  <2>2. 4 * Number(packet.body[1]) + ShReg.begin = \hB900
    <3> DEFINE x == Number(packet.body[1])
    <3>1. x = 576
      BY <1>4
    <3> HIDE DEF x
    <3>2. 4 * x + \hB000 = \hB900
      BY SMT, <3>1
    <3> QED
      BY <1>0, <3>2 DEF x
  <2>3. \hB900 \in {r - 4 * n : n \in 0 .. last} <=> \E n \in 0 .. m - 1 : r = \hB900 + 4 * n
    <3>1. \A n \in 0 .. m - 1 : \hB900 = r - 4 * n <=> r = \hB900 + 4 * n
      BY SMT, <1>5
    <3> QED
      BY <2>1, <3>1
  <2> QED
    BY <1>4, <2>2, <2>3 DEF Sets, last
<1>7. ASSUME NEW n \in 1 .. m PROVE ValueSet(packet, \hB900 + 4 * (n - 1)) = ud[n]
  <2> DEFINE reg == \hB900 + 4 * (n - 1)
             x == Number(packet.body[1])
             y == (reg - ShReg.begin) \div 4
  <2>1. x = 576
    BY <1>4
  <2>2. y = 576 + (n - 1)
    <3>1. (\hB900 + 4 * (n - 1) - \hB000) \div 4 = 576 + (n - 1)
      BY SMT, <1>5
    <3> QED
      BY <1>0, <3>1
  <2> HIDE DEF reg
  <2>3. ValueSet(packet, reg) = packet.body[2 + y - x]
    BY DEF ValueSet
  <2> HIDE DEF x, y
  <2>4. 2 + y - x = 1 + n
    BY <1>5, <2>1, <2>2
  <2> QED
    BY <1>4, <2>3, <2>4 DEF reg
<1>8. Len(p) <= 18
  BY <1>4, <1>5
<1>9. SetsUserData(packet, ud)
  BY <1>4, <1>6, <1>7 DEF SetsUserData, m
<1> QED
  BY <1>3, <1>4, <1>8, <1>9 DEF p, packet

\* The flush of the caches is a packet, and sets no register.
LEMMA SyncCommand ==
  /\ IsPacket(SurfaceSync) /\ Len(SurfaceSync) = 5
  /\ Parcel(SurfaceSync).opcode = Opcodes.SURFACE_SYNC
  /\ Opcodes.SURFACE_SYNC # Opcodes.SET_SH_REG
<1> DEFINE header == PKT3C(Opcodes.SURFACE_SYNC, 3)
<1>1. Opcodes.SURFACE_SYNC = \h43 /\ Opcodes.SET_SH_REG = \h76
  BY DEF Opcodes
<1>2. \h43 \in 0 .. 255 /\ 3 \in PacketCount
  BY SMT DEF PacketCount
<1>3. IsHeader(PKT3C(\h43, 3), \h43, 3)
  BY <1>2, HeaderReads
<1>4. IsHeader(header, \h43, 3)
  BY <1>1, <1>3
<1>5. ActionEnables \in SUBSET Bit
  <2>1. 22 \in 0 .. 31 /\ 23 \in 0 .. 31 /\ 27 \in 0 .. 31 /\ 29 \in 0 .. 31
    OBVIOUS
  <2> QED
    BY <2>1 DEF ActionEnables, Bit
<1>6. Word(-1) \in SUBSET Bit /\ Word(10) \in SUBSET Bit /\ {} \in SUBSET Bit
  <2>1. -1 \in Int /\ 10 \in Int
    OBVIOUS
  <2> QED
    BY <2>1, WordBits
<1> DEFINE a == Word(-1)
           b == Word(10)
           p == <<header, ActionEnables, a, {}, b>>
<1> HIDE DEF header, a, b
<1>7. p \in Seq(SUBSET Bit) /\ Len(p) = 5 /\ p[1] = header
  BY <1>4, <1>5, <1>6 DEF IsHeader, a, b
<1>8. SurfaceSync = p
  BY DEF SurfaceSync, header, a, b
<1> HIDE DEF p
<1>9. /\ Get(Packet.type, p[1]) = 3 /\ Get(Packet.shaderType, p[1]) = 1
      /\ Get(Packet.count, p[1]) = 3 /\ Get(Packet.opcode, p[1]) = \h43
  BY <1>4, <1>7 DEF IsHeader
<1>10. IsPacket(p)
  <2>1. Len(p) >= 2 /\ Len(p) - 2 = 3
    BY <1>7
  <2> QED
    BY <1>7, <1>9, <2>1 DEF IsPacket
<1>11. Parcel(p).opcode = \h43
  BY <1>9 DEF Parcel
<1> QED
  BY <1>1, <1>7, <1>8, <1>10, <1>11

\* Where the registers of Settings are, in words.
SettingAt == <<513, 514, 515, 516, 517, 518, 519, 520, 521, 523, 524, 525, 530, 531, 533, 534, 535>>

\* The same, entry by entry.
LEMMA SettingTable ==
  /\ SettingAt[1] = 513
  /\ SettingAt[2] = 514
  /\ SettingAt[3] = 515
  /\ SettingAt[4] = 516
  /\ SettingAt[5] = 517
  /\ SettingAt[6] = 518
  /\ SettingAt[7] = 519
  /\ SettingAt[8] = 520
  /\ SettingAt[9] = 521
  /\ SettingAt[10] = 523
  /\ SettingAt[11] = 524
  /\ SettingAt[12] = 525
  /\ SettingAt[13] = 530
  /\ SettingAt[14] = 531
  /\ SettingAt[15] = 533
  /\ SettingAt[16] = 534
  /\ SettingAt[17] = 535
  BY DEF SettingAt

\* The registers are all different, between the initiator and the user data.
LEMMA SettingsApart ==
  \A j, k \in 1 .. 17 : /\ SettingAt[k] \in RegisterOffset /\ 512 < SettingAt[k] /\ SettingAt[k] < 576
                        /\ SettingAt[j] = SettingAt[k] => j = k
<1>1. \A k \in 1 .. 17 : k = 1 \/ k = 2 \/ k = 3 \/ k = 4 \/ k = 5 \/ k = 6 \/ k = 7 \/ k = 8 \/ k = 9 \/ k = 10
        \/ k = 11 \/ k = 12 \/ k = 13 \/ k = 14 \/ k = 15 \/ k = 16 \/ k = 17
  OBVIOUS
<1>2. \A k \in 1 .. 17 : SettingAt[k] \in Nat /\ 512 < SettingAt[k] /\ SettingAt[k] < 576
  BY SMT, <1>1, SettingTable
<1>3. \A k \in 1 .. 17 : SettingAt[k] \in RegisterOffset
  <2> SUFFICES ASSUME NEW k \in 1 .. 17 PROVE SettingAt[k] \in RegisterOffset
    OBVIOUS
  <2> DEFINE x == SettingAt[k]
  <2>1. x \in Nat /\ x < 576
    BY <1>2
  <2> HIDE DEF x
  <2>2. x \in RegisterOffset
    BY SMT, <2>1 DEF RegisterOffset
  <2> QED
    BY <2>2 DEF x
<1>4. ASSUME NEW j \in 1 .. 17, NEW k \in 1 .. 17, SettingAt[j] = SettingAt[k] PROVE j = k
  <2>1. CASE j = 1
    <3>1. SettingAt[k] = 513
      BY <1>4, <2>1, SettingTable
    <3> QED
      BY SMT, <1>1, <2>1, <3>1, SettingTable
  <2>2. CASE j = 2
    <3>1. SettingAt[k] = 514
      BY <1>4, <2>2, SettingTable
    <3> QED
      BY SMT, <1>1, <2>2, <3>1, SettingTable
  <2>3. CASE j = 3
    <3>1. SettingAt[k] = 515
      BY <1>4, <2>3, SettingTable
    <3> QED
      BY SMT, <1>1, <2>3, <3>1, SettingTable
  <2>4. CASE j = 4
    <3>1. SettingAt[k] = 516
      BY <1>4, <2>4, SettingTable
    <3> QED
      BY SMT, <1>1, <2>4, <3>1, SettingTable
  <2>5. CASE j = 5
    <3>1. SettingAt[k] = 517
      BY <1>4, <2>5, SettingTable
    <3> QED
      BY SMT, <1>1, <2>5, <3>1, SettingTable
  <2>6. CASE j = 6
    <3>1. SettingAt[k] = 518
      BY <1>4, <2>6, SettingTable
    <3> QED
      BY SMT, <1>1, <2>6, <3>1, SettingTable
  <2>7. CASE j = 7
    <3>1. SettingAt[k] = 519
      BY <1>4, <2>7, SettingTable
    <3> QED
      BY SMT, <1>1, <2>7, <3>1, SettingTable
  <2>8. CASE j = 8
    <3>1. SettingAt[k] = 520
      BY <1>4, <2>8, SettingTable
    <3> QED
      BY SMT, <1>1, <2>8, <3>1, SettingTable
  <2>9. CASE j = 9
    <3>1. SettingAt[k] = 521
      BY <1>4, <2>9, SettingTable
    <3> QED
      BY SMT, <1>1, <2>9, <3>1, SettingTable
  <2>10. CASE j = 10
    <3>1. SettingAt[k] = 523
      BY <1>4, <2>10, SettingTable
    <3> QED
      BY SMT, <1>1, <2>10, <3>1, SettingTable
  <2>11. CASE j = 11
    <3>1. SettingAt[k] = 524
      BY <1>4, <2>11, SettingTable
    <3> QED
      BY SMT, <1>1, <2>11, <3>1, SettingTable
  <2>12. CASE j = 12
    <3>1. SettingAt[k] = 525
      BY <1>4, <2>12, SettingTable
    <3> QED
      BY SMT, <1>1, <2>12, <3>1, SettingTable
  <2>13. CASE j = 13
    <3>1. SettingAt[k] = 530
      BY <1>4, <2>13, SettingTable
    <3> QED
      BY SMT, <1>1, <2>13, <3>1, SettingTable
  <2>14. CASE j = 14
    <3>1. SettingAt[k] = 531
      BY <1>4, <2>14, SettingTable
    <3> QED
      BY SMT, <1>1, <2>14, <3>1, SettingTable
  <2>15. CASE j = 15
    <3>1. SettingAt[k] = 533
      BY <1>4, <2>15, SettingTable
    <3> QED
      BY SMT, <1>1, <2>15, <3>1, SettingTable
  <2>16. CASE j = 16
    <3>1. SettingAt[k] = 534
      BY <1>4, <2>16, SettingTable
    <3> QED
      BY SMT, <1>1, <2>16, <3>1, SettingTable
  <2>17. CASE j = 17
    <3>1. SettingAt[k] = 535
      BY <1>4, <2>17, SettingTable
    <3> QED
      BY SMT, <1>1, <2>17, <3>1, SettingTable
  <2> QED
    BY <1>1, <2>1, <2>2, <2>3, <2>4, <2>5, <2>6, <2>7, <2>8, <2>9, <2>10, <2>11, <2>12, <2>13, <2>14, <2>15, <2>16,
    <2>17
<1> QED
  BY <1>2, <1>3, <1>4

\* The registers of Settings are the registers of the table.
LEMMA SettingRegisters ==
  ASSUME NEW state
  PROVE  /\ Len(Settings(state)) = 17 /\ DOMAIN Settings(state) = 1 .. 17
         /\ Settings(state)[1][1] = Register.COMPUTE_DIM[1] /\ Register.COMPUTE_DIM[1] = \hB000 + 4 * SettingAt[1]
         /\ Settings(state)[2][1] = Register.COMPUTE_DIM[2] /\ Register.COMPUTE_DIM[2] = \hB000 + 4 * SettingAt[2]
         /\ Settings(state)[3][1] = Register.COMPUTE_DIM[3] /\ Register.COMPUTE_DIM[3] = \hB000 + 4 * SettingAt[3]
         /\ Settings(state)[4][1] = Register.COMPUTE_START[1] /\ Register.COMPUTE_START[1] = \hB000 + 4 * SettingAt[4]
         /\ Settings(state)[5][1] = Register.COMPUTE_START[2] /\ Register.COMPUTE_START[2] = \hB000 + 4 * SettingAt[5]
         /\ Settings(state)[6][1] = Register.COMPUTE_START[3] /\ Register.COMPUTE_START[3] = \hB000 + 4 * SettingAt[6]
         /\ Settings(state)[7][1] = Register.COMPUTE_NUM_THREAD[1] /\
            Register.COMPUTE_NUM_THREAD[1] = \hB000 + 4 * SettingAt[7]
         /\ Settings(state)[8][1] = Register.COMPUTE_NUM_THREAD[2] /\
            Register.COMPUTE_NUM_THREAD[2] = \hB000 + 4 * SettingAt[8]
         /\ Settings(state)[9][1] = Register.COMPUTE_NUM_THREAD[3] /\
            Register.COMPUTE_NUM_THREAD[3] = \hB000 + 4 * SettingAt[9]
         /\ Settings(state)[10][1] = Register.COMPUTE_MAX_WAVE_ID /\
            Register.COMPUTE_MAX_WAVE_ID = \hB000 + 4 * SettingAt[10]
         /\ Settings(state)[11][1] = Register.COMPUTE_PGM_LO /\ Register.COMPUTE_PGM_LO = \hB000 + 4 * SettingAt[11]
         /\ Settings(state)[12][1] = Register.COMPUTE_PGM_HI /\ Register.COMPUTE_PGM_HI = \hB000 + 4 * SettingAt[12]
         /\ Settings(state)[13][1] = Register.COMPUTE_PGM_RSRC1 /\
            Register.COMPUTE_PGM_RSRC1 = \hB000 + 4 * SettingAt[13]
         /\ Settings(state)[14][1] = Register.COMPUTE_PGM_RSRC2 /\
            Register.COMPUTE_PGM_RSRC2 = \hB000 + 4 * SettingAt[14]
         /\ Settings(state)[15][1] = Register.COMPUTE_RESOURCE_LIMITS /\
            Register.COMPUTE_RESOURCE_LIMITS = \hB000 + 4 * SettingAt[15]
         /\ Settings(state)[16][1] = Register.COMPUTE_STATIC_THREAD_MGMT[1] /\
            Register.COMPUTE_STATIC_THREAD_MGMT[1] = \hB000 + 4 * SettingAt[16]
         /\ Settings(state)[17][1] = Register.COMPUTE_STATIC_THREAD_MGMT[2] /\
            Register.COMPUTE_STATIC_THREAD_MGMT[2] = \hB000 + 4 * SettingAt[17]
<1>1. Len(Settings(state)) = 17 /\ DOMAIN Settings(state) = 1 .. 17
  BY DEF Settings
<1>2. Settings(state)[1][1] = Register.COMPUTE_DIM[1] /\ Register.COMPUTE_DIM[1] = \hB000 + 4 * SettingAt[1]
  <2>1. Settings(state)[1][1] = Register.COMPUTE_DIM[1]
    BY DEF Settings
  <2>2. Register.COMPUTE_DIM[1] = 47108
    BY DEF Register
  <2>3. 47108 = \hB000 + 4 * 513
    BY SMT
  <2> QED
    BY <2>1, <2>2, <2>3, SettingTable
<1>3. Settings(state)[2][1] = Register.COMPUTE_DIM[2] /\ Register.COMPUTE_DIM[2] = \hB000 + 4 * SettingAt[2]
  <2>1. Settings(state)[2][1] = Register.COMPUTE_DIM[2]
    BY DEF Settings
  <2>2. Register.COMPUTE_DIM[2] = 47112
    BY DEF Register
  <2>3. 47112 = \hB000 + 4 * 514
    BY SMT
  <2> QED
    BY <2>1, <2>2, <2>3, SettingTable
<1>4. Settings(state)[3][1] = Register.COMPUTE_DIM[3] /\ Register.COMPUTE_DIM[3] = \hB000 + 4 * SettingAt[3]
  <2>1. Settings(state)[3][1] = Register.COMPUTE_DIM[3]
    BY DEF Settings
  <2>2. Register.COMPUTE_DIM[3] = 47116
    BY DEF Register
  <2>3. 47116 = \hB000 + 4 * 515
    BY SMT
  <2> QED
    BY <2>1, <2>2, <2>3, SettingTable
<1>5. Settings(state)[4][1] = Register.COMPUTE_START[1] /\ Register.COMPUTE_START[1] = \hB000 + 4 * SettingAt[4]
  <2>1. Settings(state)[4][1] = Register.COMPUTE_START[1]
    BY DEF Settings
  <2>2. Register.COMPUTE_START[1] = 47120
    BY DEF Register
  <2>3. 47120 = \hB000 + 4 * 516
    BY SMT
  <2> QED
    BY <2>1, <2>2, <2>3, SettingTable
<1>6. Settings(state)[5][1] = Register.COMPUTE_START[2] /\ Register.COMPUTE_START[2] = \hB000 + 4 * SettingAt[5]
  <2>1. Settings(state)[5][1] = Register.COMPUTE_START[2]
    BY DEF Settings
  <2>2. Register.COMPUTE_START[2] = 47124
    BY DEF Register
  <2>3. 47124 = \hB000 + 4 * 517
    BY SMT
  <2> QED
    BY <2>1, <2>2, <2>3, SettingTable
<1>7. Settings(state)[6][1] = Register.COMPUTE_START[3] /\ Register.COMPUTE_START[3] = \hB000 + 4 * SettingAt[6]
  <2>1. Settings(state)[6][1] = Register.COMPUTE_START[3]
    BY DEF Settings
  <2>2. Register.COMPUTE_START[3] = 47128
    BY DEF Register
  <2>3. 47128 = \hB000 + 4 * 518
    BY SMT
  <2> QED
    BY <2>1, <2>2, <2>3, SettingTable
<1>8. Settings(state)[7][1] = Register.COMPUTE_NUM_THREAD[1] /\
      Register.COMPUTE_NUM_THREAD[1] = \hB000 + 4 * SettingAt[7]
  <2>1. Settings(state)[7][1] = Register.COMPUTE_NUM_THREAD[1]
    BY DEF Settings
  <2>2. Register.COMPUTE_NUM_THREAD[1] = 47132
    BY DEF Register
  <2>3. 47132 = \hB000 + 4 * 519
    BY SMT
  <2> QED
    BY <2>1, <2>2, <2>3, SettingTable
<1>9. Settings(state)[8][1] = Register.COMPUTE_NUM_THREAD[2] /\
      Register.COMPUTE_NUM_THREAD[2] = \hB000 + 4 * SettingAt[8]
  <2>1. Settings(state)[8][1] = Register.COMPUTE_NUM_THREAD[2]
    BY DEF Settings
  <2>2. Register.COMPUTE_NUM_THREAD[2] = 47136
    BY DEF Register
  <2>3. 47136 = \hB000 + 4 * 520
    BY SMT
  <2> QED
    BY <2>1, <2>2, <2>3, SettingTable
<1>10. Settings(state)[9][1] = Register.COMPUTE_NUM_THREAD[3] /\
       Register.COMPUTE_NUM_THREAD[3] = \hB000 + 4 * SettingAt[9]
  <2>1. Settings(state)[9][1] = Register.COMPUTE_NUM_THREAD[3]
    BY DEF Settings
  <2>2. Register.COMPUTE_NUM_THREAD[3] = 47140
    BY DEF Register
  <2>3. 47140 = \hB000 + 4 * 521
    BY SMT
  <2> QED
    BY <2>1, <2>2, <2>3, SettingTable
<1>11. Settings(state)[10][1] = Register.COMPUTE_MAX_WAVE_ID /\
       Register.COMPUTE_MAX_WAVE_ID = \hB000 + 4 * SettingAt[10]
  <2>1. Settings(state)[10][1] = Register.COMPUTE_MAX_WAVE_ID
    BY DEF Settings
  <2>2. Register.COMPUTE_MAX_WAVE_ID = 47148
    BY DEF Register
  <2>3. 47148 = \hB000 + 4 * 523
    BY SMT
  <2> QED
    BY <2>1, <2>2, <2>3, SettingTable
<1>12. Settings(state)[11][1] = Register.COMPUTE_PGM_LO /\ Register.COMPUTE_PGM_LO = \hB000 + 4 * SettingAt[11]
  <2>1. Settings(state)[11][1] = Register.COMPUTE_PGM_LO
    BY DEF Settings
  <2>2. Register.COMPUTE_PGM_LO = 47152
    BY DEF Register
  <2>3. 47152 = \hB000 + 4 * 524
    BY SMT
  <2> QED
    BY <2>1, <2>2, <2>3, SettingTable
<1>13. Settings(state)[12][1] = Register.COMPUTE_PGM_HI /\ Register.COMPUTE_PGM_HI = \hB000 + 4 * SettingAt[12]
  <2>1. Settings(state)[12][1] = Register.COMPUTE_PGM_HI
    BY DEF Settings
  <2>2. Register.COMPUTE_PGM_HI = 47156
    BY DEF Register
  <2>3. 47156 = \hB000 + 4 * 525
    BY SMT
  <2> QED
    BY <2>1, <2>2, <2>3, SettingTable
<1>14. Settings(state)[13][1] = Register.COMPUTE_PGM_RSRC1 /\ Register.COMPUTE_PGM_RSRC1 = \hB000 + 4 * SettingAt[13]
  <2>1. Settings(state)[13][1] = Register.COMPUTE_PGM_RSRC1
    BY DEF Settings
  <2>2. Register.COMPUTE_PGM_RSRC1 = 47176
    BY DEF Register
  <2>3. 47176 = \hB000 + 4 * 530
    BY SMT
  <2> QED
    BY <2>1, <2>2, <2>3, SettingTable
<1>15. Settings(state)[14][1] = Register.COMPUTE_PGM_RSRC2 /\ Register.COMPUTE_PGM_RSRC2 = \hB000 + 4 * SettingAt[14]
  <2>1. Settings(state)[14][1] = Register.COMPUTE_PGM_RSRC2
    BY DEF Settings
  <2>2. Register.COMPUTE_PGM_RSRC2 = 47180
    BY DEF Register
  <2>3. 47180 = \hB000 + 4 * 531
    BY SMT
  <2> QED
    BY <2>1, <2>2, <2>3, SettingTable
<1>16. Settings(state)[15][1] = Register.COMPUTE_RESOURCE_LIMITS /\
       Register.COMPUTE_RESOURCE_LIMITS = \hB000 + 4 * SettingAt[15]
  <2>1. Settings(state)[15][1] = Register.COMPUTE_RESOURCE_LIMITS
    BY DEF Settings
  <2>2. Register.COMPUTE_RESOURCE_LIMITS = 47188
    BY DEF Register
  <2>3. 47188 = \hB000 + 4 * 533
    BY SMT
  <2> QED
    BY <2>1, <2>2, <2>3, SettingTable
<1>17. Settings(state)[16][1] = Register.COMPUTE_STATIC_THREAD_MGMT[1] /\
       Register.COMPUTE_STATIC_THREAD_MGMT[1] = \hB000 + 4 * SettingAt[16]
  <2>1. Settings(state)[16][1] = Register.COMPUTE_STATIC_THREAD_MGMT[1]
    BY DEF Settings
  <2>2. Register.COMPUTE_STATIC_THREAD_MGMT[1] = 47192
    BY DEF Register
  <2>3. 47192 = \hB000 + 4 * 534
    BY SMT
  <2> QED
    BY <2>1, <2>2, <2>3, SettingTable
<1>18. Settings(state)[17][1] = Register.COMPUTE_STATIC_THREAD_MGMT[2] /\
       Register.COMPUTE_STATIC_THREAD_MGMT[2] = \hB000 + 4 * SettingAt[17]
  <2>1. Settings(state)[17][1] = Register.COMPUTE_STATIC_THREAD_MGMT[2]
    BY DEF Settings
  <2>2. Register.COMPUTE_STATIC_THREAD_MGMT[2] = 47196
    BY DEF Register
  <2>3. 47196 = \hB000 + 4 * 535
    BY SMT
  <2> QED
    BY <2>1, <2>2, <2>3, SettingTable
<1> QED
  BY <1>1, <1>2, <1>3, <1>4, <1>5, <1>6, <1>7, <1>8, <1>9, <1>10, <1>11, <1>12, <1>13, <1>14, <1>15, <1>16, <1>17, <1>18


\* The two registers that hold several fields.
Rsrc1(state) ==
  Put(PGM_RSRC1.VGPRS, state.vgpr_num) \cup Put(PGM_RSRC1.SGPRS, state.sgpr_num)
  \cup Put(PGM_RSRC1.IEEE_MODE, state.ieee_mode)
Rsrc2(state) ==
  (UNION {Put(PGM_RSRC2[f], 1) : f \in {"TGID_X_EN", "TGID_Y_EN", "TGID_Z_EN", "TG_SIZE_EN"}})
  \cup Put(PGM_RSRC2.USER_SGPR, Len(state.user_data)) \cup Put(PGM_RSRC2.LDS_SIZE, state.lds_size)

-----------------------------------------------------------------------------
(* What the registers are set to.                                          *)

\* The fields of the registers, by place and width.
LEMMA DispatchFields ==
  /\ NUM_THREAD_FULL = Field(0, 16) /\ MAX_WAVE_ID = Field(0, 12) /\ TG_PER_CU = Field(12, 4)
  /\ SH_CU_EN[1] = Field(0, 16) /\ SH_CU_EN[2] = Field(16, 16) /\ COMPUTE_SHADER_EN = Field(0, 1)
  /\ PGM_RSRC1.VGPRS = Field(0, 6) /\ PGM_RSRC1.SGPRS = Field(6, 4) /\ PGM_RSRC1.IEEE_MODE = Field(23, 1)
  /\ PGM_RSRC2.USER_SGPR = Field(1, 5) /\ PGM_RSRC2.LDS_SIZE = Field(15, 9)
  /\ PGM_RSRC2["TGID_X_EN"] = Field(7, 1) /\ PGM_RSRC2["TGID_Y_EN"] = Field(8, 1)
  /\ PGM_RSRC2["TGID_Z_EN"] = Field(9, 1) /\ PGM_RSRC2["TG_SIZE_EN"] = Field(10, 1)
<1>1. NUM_THREAD_FULL = Field(0, 16) /\ MAX_WAVE_ID = Field(0, 12) /\ TG_PER_CU = Field(12, 4)
  BY DEF NUM_THREAD_FULL, MAX_WAVE_ID, TG_PER_CU
<1>2. SH_CU_EN[1] = Field(0, 16) /\ SH_CU_EN[2] = Field(16, 16)
  BY DEF SH_CU_EN
<1>3. COMPUTE_SHADER_EN = Field(0, 1)
  BY DEF COMPUTE_SHADER_EN
<1>4. PGM_RSRC1.VGPRS = Field(0, 6) /\ PGM_RSRC1.SGPRS = Field(6, 4) /\ PGM_RSRC1.IEEE_MODE = Field(23, 1)
  BY DEF PGM_RSRC1
<1>5. PGM_RSRC2.USER_SGPR = Field(1, 5) /\ PGM_RSRC2.LDS_SIZE = Field(15, 9)
  BY DEF PGM_RSRC2
<1>6. /\ PGM_RSRC2["TGID_X_EN"] = Field(7, 1) /\ PGM_RSRC2["TGID_Y_EN"] = Field(8, 1)
      /\ PGM_RSRC2["TGID_Z_EN"] = Field(9, 1) /\ PGM_RSRC2["TG_SIZE_EN"] = Field(10, 1)
  BY DEF PGM_RSRC2
<1> QED
  BY <1>1, <1>2, <1>3, <1>4, <1>5, <1>6

\* A field puts its bits in its place.
LEMMA PutBits ==
  ASSUME NEW n \in Nat, NEW d \in Nat, n + d <= 32, NEW x
  PROVE  Put(Field(n, d), x) \in SUBSET Bit /\ \A b \in Put(Field(n, d), x) : n <= b /\ b < n + d
<1>1. Put(Field(n, d), x) = {b + n : b \in Word(x) \cap 0 .. d - 1}
  BY DEF Put, Field
<1>2. \A b \in 0 .. d - 1 : n <= b + n /\ b + n < n + d /\ b + n \in 0 .. 31
  OBVIOUS
<1> QED
  BY <1>1, <1>2 DEF Bit

\* What Settings gives each register.
LEMMA SettingValues ==
  ASSUME NEW state
  PROVE  /\ Settings(state)[1][2] = Word(state.dim[1])
         /\ Settings(state)[2][2] = Word(state.dim[2])
         /\ Settings(state)[3][2] = Word(state.dim[3])
         /\ Settings(state)[4][2] = Word(state.start[1])
         /\ Settings(state)[5][2] = Word(state.start[2])
         /\ Settings(state)[6][2] = Word(state.start[3])
         /\ Settings(state)[7][2] = Put(NUM_THREAD_FULL, state.num_thread[1])
         /\ Settings(state)[8][2] = Put(NUM_THREAD_FULL, state.num_thread[2])
         /\ Settings(state)[9][2] = Put(NUM_THREAD_FULL, state.num_thread[3])
         /\ Settings(state)[10][2] = Put(MAX_WAVE_ID, \hF00)
         /\ Settings(state)[11][2] = Shifted(state.binary, 8) \cap Bit
         /\ Settings(state)[12][2] = Shifted(state.binary, 40) \cap Bit
         /\ Settings(state)[13][2] = Rsrc1(state)
         /\ Settings(state)[14][2] = Rsrc2(state)
         /\ Settings(state)[15][2] = Put(TG_PER_CU, state.thread_groups_per_cu)
         /\ Settings(state)[16][2] = Put(SH_CU_EN[1], \hFF) \cup Put(SH_CU_EN[2], \hFF)
         /\ Settings(state)[17][2] = Put(SH_CU_EN[1], \hFF) \cup Put(SH_CU_EN[2], \hFF)
<1>1. Settings(state)[1][2] = Word(state.dim[1])
  BY DEF Settings
<1>2. Settings(state)[2][2] = Word(state.dim[2])
  BY DEF Settings
<1>3. Settings(state)[3][2] = Word(state.dim[3])
  BY DEF Settings
<1>4. Settings(state)[4][2] = Word(state.start[1])
  BY DEF Settings
<1>5. Settings(state)[5][2] = Word(state.start[2])
  BY DEF Settings
<1>6. Settings(state)[6][2] = Word(state.start[3])
  BY DEF Settings
<1>7. Settings(state)[7][2] = Put(NUM_THREAD_FULL, state.num_thread[1])
  BY DEF Settings
<1>8. Settings(state)[8][2] = Put(NUM_THREAD_FULL, state.num_thread[2])
  BY DEF Settings
<1>9. Settings(state)[9][2] = Put(NUM_THREAD_FULL, state.num_thread[3])
  BY DEF Settings
<1>10. Settings(state)[10][2] = Put(MAX_WAVE_ID, \hF00)
  BY DEF Settings
<1>11. Settings(state)[11][2] = Shifted(state.binary, 8) \cap Bit
  BY DEF Settings
<1>12. Settings(state)[12][2] = Shifted(state.binary, 40) \cap Bit
  BY DEF Settings
<1>13. Settings(state)[13][2] = Rsrc1(state)
  BY DEF Settings, Rsrc1
<1>14. Settings(state)[14][2] = Rsrc2(state)
  BY DEF Settings, Rsrc2
<1>15. Settings(state)[15][2] = Put(TG_PER_CU, state.thread_groups_per_cu)
  BY DEF Settings
<1>16. Settings(state)[16][2] = Put(SH_CU_EN[1], \hFF) \cup Put(SH_CU_EN[2], \hFF)
  BY DEF Settings
<1>17. Settings(state)[17][2] = Put(SH_CU_EN[1], \hFF) \cup Put(SH_CU_EN[2], \hFF)
  BY DEF Settings
<1> QED
  BY <1>1, <1>2, <1>3, <1>4, <1>5, <1>6, <1>7, <1>8, <1>9, <1>10, <1>11, <1>12, <1>13, <1>14, <1>15, <1>16, <1>17

\* They are words.
LEMMA RsrcBits ==
  ASSUME NEW state
  PROVE  Rsrc1(state) \in SUBSET Bit /\ Rsrc2(state) \in SUBSET Bit
<1>1. /\ Put(PGM_RSRC1.VGPRS, state.vgpr_num) \in SUBSET Bit
      /\ Put(PGM_RSRC1.SGPRS, state.sgpr_num) \in SUBSET Bit
      /\ Put(PGM_RSRC1.IEEE_MODE, state.ieee_mode) \in SUBSET Bit
  BY DispatchFields, PutBits
<1>2. /\ Put(PGM_RSRC2.USER_SGPR, Len(state.user_data)) \in SUBSET Bit
      /\ Put(PGM_RSRC2.LDS_SIZE, state.lds_size) \in SUBSET Bit
  BY DispatchFields, PutBits
<1>3. /\ Put(PGM_RSRC2["TGID_X_EN"], 1) \in SUBSET Bit /\ Put(PGM_RSRC2["TGID_Y_EN"], 1) \in SUBSET Bit
      /\ Put(PGM_RSRC2["TGID_Z_EN"], 1) \in SUBSET Bit /\ Put(PGM_RSRC2["TG_SIZE_EN"], 1) \in SUBSET Bit
  BY DispatchFields, PutBits
<1>4. Rsrc1(state) \in SUBSET Bit
  BY <1>1 DEF Rsrc1
<1>5. Rsrc2(state) \in SUBSET Bit
  BY <1>2, <1>3 DEF Rsrc2
<1> QED
  BY <1>4, <1>5

\* An int that is not negative has 31 bits.
LEMMA NonNegativeFits ==
  ASSUME NEW x, x \in NonNegative
  PROVE  x \in Nat /\ Fits(x, 31)
<1>1. x \in Nat /\ x <= 2147483647
  BY SMT DEF NonNegative
<1> QED
  BY SMT, <1>1 DEF Fits

\* Every value of Settings is a word.
LEMMA SettingWords ==
  ASSUME NEW state, IsState(state)
  PROVE  \A k \in 1 .. 17 : Settings(state)[k][2] \in SUBSET Bit
<1>1. \A d \in 1 .. 3 : Word(state.dim[d]) \in SUBSET Bit /\ Word(state.start[d]) \in SUBSET Bit
  <2>1. \A d \in 1 .. 3 : state.dim[d] \in NonNegative /\ state.start[d] \in NonNegative
    BY DEF IsState
  <2>2. \A d \in 1 .. 3 : state.dim[d] \in Int /\ state.start[d] \in Int
    BY <2>1, NonNegativeFits
  <2> QED
    BY <2>2, WordBits
<1>2. \A d \in 1 .. 3 : Put(NUM_THREAD_FULL, state.num_thread[d]) \in SUBSET Bit
  BY DispatchFields, PutBits
<1>3. Put(MAX_WAVE_ID, \hF00) \in SUBSET Bit /\ Put(TG_PER_CU, state.thread_groups_per_cu) \in SUBSET Bit
  BY DispatchFields, PutBits
<1>4. Put(SH_CU_EN[1], \hFF) \in SUBSET Bit /\ Put(SH_CU_EN[2], \hFF) \in SUBSET Bit
  BY DispatchFields, PutBits
<1>5. (Shifted(state.binary, 8) \cap Bit) \in SUBSET Bit /\ (Shifted(state.binary, 40) \cap Bit) \in SUBSET Bit
  OBVIOUS
<1>6. Rsrc1(state) \in SUBSET Bit /\ Rsrc2(state) \in SUBSET Bit
  BY RsrcBits
<1>7. 1 \in 1 .. 3 /\ 2 \in 1 .. 3 /\ 3 \in 1 .. 3
  OBVIOUS
<1>8. \A k \in 1 .. 17 : k = 1 \/ k = 2 \/ k = 3 \/ k = 4 \/ k = 5 \/ k = 6 \/ k = 7 \/ k = 8 \/ k = 9 \/ k = 10
        \/ k = 11 \/ k = 12 \/ k = 13 \/ k = 14 \/ k = 15 \/ k = 16 \/ k = 17
  OBVIOUS
<1> SUFFICES ASSUME NEW k \in 1 .. 17 PROVE Settings(state)[k][2] \in SUBSET Bit
  OBVIOUS
<1>9. CASE k \in {1, 2, 3, 4, 5, 6}
  BY <1>1, <1>7, <1>9, SettingValues
<1>10. CASE k \in {7, 8, 9, 10}
  BY <1>2, <1>3, <1>7, <1>10, SettingValues
<1>11. CASE k \in {11, 12, 13, 14}
  BY <1>5, <1>6, <1>11, SettingValues
<1>12. CASE k \in {15, 16, 17}
  BY <1>3, <1>4, <1>12, SettingValues
<1> QED
  BY <1>8, <1>9, <1>10, <1>11, <1>12


-----------------------------------------------------------------------------
(* The commands of a dispatch, in order.                                   *)

\* Packets of at most 18 words make at most 18 words each.
LEMMA FlatLength ==
  ASSUME NEW P, NEW N \in Nat \ {0}, Len(P) = N,
         \A k \in 1 .. N : P[k] \in Seq(SUBSET Bit) /\ Len(P[k]) <= 18
  PROVE  Len(FlattenSeq(P)) <= 18 * N
<1> DEFINE F == Flat(P)
           D == {n \in Nat : n > 0 /\ n <= N => Len(F[n]) <= 18 * n}
<1>1. FlattenSeq(P) = F[N] /\ F[1] = P[1] /\ \A j \in 1 .. N - 1 : F[j + 1] = F[j] \o P[j + 1]
  BY FlatStep
<1>2. \A j \in 1 .. N : \A i \in 1 .. j : Continues(F[i], F[j])
  BY FlatContinues
<1> HIDE DEF F
<1>3. 0 \in D
  OBVIOUS
<1>4. ASSUME NEW n \in 0 .. N - 1, n \in D PROVE n + 1 \in D
  <2>1. n + 1 \in 1 .. N /\ n + 1 \in Nat
    OBVIOUS
  <2>2. CASE n = 0
    <3>1. Len(F[1]) <= 18
      <4>1. 1 \in 1 .. N
        OBVIOUS
      <4> QED
        BY <1>1, <4>1
    <3> QED
      BY <2>1, <2>2, <3>1
  <2>3. CASE n # 0
    <3> DEFINE w == F[n]
               v == P[n + 1]
    <3>1. n \in 1 .. N - 1 /\ n \in 1 .. N /\ n \in 1 .. n /\ n > 0 /\ n <= N
      BY <2>3
    <3>2. F[n + 1] = w \o v /\ Continues(w, w)
      BY <1>1, <1>2, <3>1
    <3>3. Len(w) <= 18 * n /\ v \in Seq(SUBSET Bit) /\ Len(v) <= 18
      BY <1>4, <2>1, <3>1
    <3> HIDE DEF w, v
    <3>4. w \in Seq(SUBSET Bit)
      BY <3>2 DEF Continues
    <3>5. v \in Seq(SUBSET Bit)
      BY <3>3
    <3>6. Len(w \o v) = Len(w) + Len(v) /\ Len(w) \in Nat /\ Len(v) \in Nat
      BY <3>4, <3>5, Concatenated
    <3>7. Len(F[n + 1]) <= 18 * (n + 1)
      BY <3>2, <3>3, <3>6
    <3> QED
      BY <2>1, <3>7
  <2> QED
    BY <2>2, <2>3
<1>5. N \in D
  <2> HIDE DEF D
  <2>1. 0 .. N \subseteq D
    BY <1>3, <1>4, BoundedInduction
  <2> QED
    BY <2>1
<1> QED
  BY <1>1, <1>5

\* Three sequences, one behind the other.
LEMMA ThreeParts ==
  ASSUME NEW Q, NEW a \in Seq(Q), NEW b \in Seq(Q), NEW c \in Seq(Q)
  PROVE  /\ a \o b \o c \in Seq(Q) /\ Len(a \o b \o c) = Len(a) + Len(b) + Len(c)
         /\ \A k \in 1 .. Len(a) : (a \o b \o c)[k] = a[k]
         /\ \A k \in 1 .. Len(b) : (a \o b \o c)[Len(a) + k] = b[k]
         /\ \A k \in 1 .. Len(c) : (a \o b \o c)[Len(a) + Len(b) + k] = c[k]
<1> DEFINE w == a \o b
<1>1. /\ w \in Seq(Q) /\ Len(w) = Len(a) + Len(b) /\ Len(a) \in Nat /\ Len(b) \in Nat
      /\ \A k \in 1 .. Len(a) : w[k] = a[k]
      /\ \A k \in 1 .. Len(b) : w[Len(a) + k] = b[k]
  BY Concatenated
<1> HIDE DEF w
<1>2. w \in Seq(Q)
  BY <1>1
<1> DEFINE x == w \o c
<1>3. /\ x \in Seq(Q) /\ Len(x) = Len(w) + Len(c) /\ Len(c) \in Nat
      /\ \A k \in 1 .. Len(w) : x[k] = w[k]
      /\ \A k \in 1 .. Len(c) : x[Len(w) + k] = c[k]
  BY <1>2, Concatenated
<1> HIDE DEF x
<1>4. ASSUME NEW k \in 1 .. Len(a) PROVE x[k] = a[k]
  <2>1. k \in 1 .. Len(w)
    BY <1>1
  <2> QED
    BY <1>1, <1>3, <2>1
<1>5. ASSUME NEW k \in 1 .. Len(b) PROVE x[Len(a) + k] = b[k]
  <2>1. Len(a) + k \in 1 .. Len(w)
    BY <1>1
  <2> QED
    BY <1>1, <1>3, <2>1
<1> QED
  BY <1>1, <1>3, <1>4, <1>5 DEF x, w

\* A sequence that is not empty has an element.
LEMMA NotEmpty ==
  ASSUME NEW S, NEW s \in Seq(S), s # <<>>
  PROVE  Len(s) \in Nat /\ Len(s) >= 1
<1>1. Len(s) \in Nat /\ s = [k \in 1 .. Len(s) |-> s[k]]
  OBVIOUS
<1>2. CASE Len(s) = 0
  <2>1. 1 .. Len(s) = {}
    BY <1>2
  <2>2. s = [k \in {} |-> s[k]]
    BY <1>1, <2>1
  <2>3. <<>> = [k \in {} |-> s[k]]
    OBVIOUS
  <2> QED
    BY <2>2, <2>3
<1> QED
  BY <1>1, <1>2

\* There is a packet for the user data unless there are none.
LEMMA UserDataIs ==
  ASSUME NEW ud \in Seq(SUBSET Bit), Len(ud) <= 16
  PROVE  UserData(ud) = IF ud = <<>> THEN <<>> ELSE <<SetWords(576, ud)>>
<1>1. CASE ud = <<>>
  BY <1>1 DEF UserData
<1>2. CASE ud # <<>>
  <2> DEFINE n == Len(ud)
  <2>1. n \in Nat /\ n >= 1 /\ n <= 16
    BY <1>2, NotEmpty
  <2> HIDE DEF n
  <2>2. n \in 1 .. 16
    BY <2>1
  <2>3. UserData(ud) = <<SetWords(576, ud)>>
    BY <2>2, UserDataCommand DEF n
  <2> QED
    BY <1>2, <2>3
<1> QED
  BY <1>1, <1>2

\* The packets of Commands, one by one; u is whether there are user data.
IsCommands(C, state, u) ==
  /\ u = (IF state.user_data = <<>> THEN 0 ELSE 1)
  /\ Len(C) = 20 + u
  /\ \A k \in 1 .. 17 : C[k] = set_compute_reg(Settings(state)[k][1], Settings(state)[k][2])
  /\ u = 1 => C[18] = SetWords(576, state.user_data)
  /\ C[18 + u] = SurfaceSync
  /\ C[19 + u] = set_compute_reg(Register.COMPUTE_DISPATCH_INITIATOR, Put(COMPUTE_SHADER_EN, 1))
  /\ C[20 + u] = set_compute_reg(Register.COMPUTE_DISPATCH_INITIATOR, {})

\* Commands writes them so.
LEMMA CommandList ==
  ASSUME NEW state, IsState(state)
  PROVE  \E u \in 0 .. 1 : IsCommands(Commands(state), state, u)
<1> DEFINE S == Settings(state)
           ud == state.user_data
           cmd(k) == set_compute_reg(S[k][1], S[k][2])
           a == [k \in DOMAIN S |-> cmd(k)]
           b == UserData(ud)
           start == set_compute_reg(Register.COMPUTE_DISPATCH_INITIATOR, Put(COMPUTE_SHADER_EN, 1))
           stop == set_compute_reg(Register.COMPUTE_DISPATCH_INITIATOR, {})
           c == <<SurfaceSync, start, stop>>
           Q == {cmd(k) : k \in 1 .. 17} \cup {SetWords(576, ud), SurfaceSync, start, stop}
           u == IF ud = <<>> THEN 0 ELSE 1
<1>1. Commands(state) = a \o b \o c
  BY DEF Commands
<1>2. DOMAIN S = 1 .. 17
  BY SettingRegisters
<1> HIDE DEF S
<1>3. a = [k \in 1 .. 17 |-> cmd(k)]
  BY <1>2
<1>4. ud \in Seq(SUBSET Bit) /\ Len(ud) <= 16
  BY DEF IsState
<1>5. b = IF ud = <<>> THEN <<>> ELSE <<SetWords(576, ud)>>
  <2> HIDE DEF ud
  <2> QED
    BY <1>4, UserDataIs
<1> HIDE DEF ud, start, stop, cmd
<1>6. \A k \in 1 .. 17 : cmd(k) \in Q
  OBVIOUS
<1>7. SetWords(576, ud) \in Q /\ SurfaceSync \in Q /\ start \in Q /\ stop \in Q
  OBVIOUS
<1> HIDE DEF Q
<1>8. a \in Seq(Q) /\ Len(a) = 17 /\ \A k \in 1 .. 17 : a[k] = cmd(k)
  <2> HIDE DEF a
  <2> QED
    BY <1>3, <1>6
<1>9. b \in Seq(Q) /\ Len(b) = u /\ (u = 1 => b[1] = SetWords(576, ud))
  <2> HIDE DEF b
  <2>1. CASE ud = <<>>
    BY <1>5, <2>1
  <2>2. CASE ud # <<>>
    BY <1>5, <1>7, <2>2
  <2> QED
    BY <2>1, <2>2
<1>10. c \in Seq(Q) /\ Len(c) = 3 /\ c[1] = SurfaceSync /\ c[2] = start /\ c[3] = stop
  BY <1>7
<1>11. u \in 0 .. 1
  OBVIOUS
<1> HIDE DEF a, b, c, u
<1>12. a \in Seq(Q)
  BY <1>8
<1>13. b \in Seq(Q)
  BY <1>9
<1>14. c \in Seq(Q)
  BY <1>10
<1> DEFINE C == a \o b \o c
<1>15. /\ Len(C) = Len(a) + Len(b) + Len(c)
       /\ \A k \in 1 .. Len(a) : C[k] = a[k]
       /\ \A k \in 1 .. Len(b) : C[Len(a) + k] = b[k]
       /\ \A k \in 1 .. Len(c) : C[Len(a) + Len(b) + k] = c[k]
  BY <1>12, <1>13, <1>14, ThreeParts
<1> HIDE DEF C
<1>16. Len(C) = 20 + u
  BY <1>8, <1>9, <1>10, <1>11, <1>15
<1>17. \A k \in 1 .. 17 : C[k] = cmd(k)
  BY <1>8, <1>15
<1>18. u = 1 => C[18] = SetWords(576, ud)
  <2> SUFFICES ASSUME u = 1 PROVE C[18] = SetWords(576, ud)
    OBVIOUS
  <2>1. 1 \in 1 .. Len(b) /\ Len(a) + 1 = 18
    BY <1>8, <1>9
  <2> QED
    BY <1>9, <1>15, <2>1
<1>19. C[18 + u] = SurfaceSync /\ C[19 + u] = start /\ C[20 + u] = stop
  <2>1. 1 \in 1 .. Len(c) /\ 2 \in 1 .. Len(c) /\ 3 \in 1 .. Len(c)
    BY <1>10
  <2>2. Len(a) + Len(b) + 1 = 18 + u /\ Len(a) + Len(b) + 2 = 19 + u /\ Len(a) + Len(b) + 3 = 20 + u
    BY <1>8, <1>9, <1>11
  <2>3. C[Len(a) + Len(b) + 1] = c[1] /\ C[Len(a) + Len(b) + 2] = c[2] /\ C[Len(a) + Len(b) + 3] = c[3]
    BY <1>15, <2>1
  <2> QED
    BY <1>10, <2>2, <2>3
<1>20. C = Commands(state)
  BY <1>1 DEF C
<1>21. IsCommands(C, state, u)
  BY <1>16, <1>17, <1>18, <1>19 DEF IsCommands, u, ud, cmd, S, start, stop
<1> QED
  BY <1>11, <1>20, <1>21


RegisterAt(k) == \hB000 + 4 * SettingAt[k]
StartRegister == \hB800
UserRegister(n) == \hB900 + 4 * (n - 1)

\* The register of each setting.
LEMMA SettingRegister ==
  ASSUME NEW state, NEW k \in 1 .. 17
  PROVE  Settings(state)[k][1] = RegisterAt(k)
<1> DEFINE r == RegisterAt(k)
<1>1. k = 1 \/ k = 2 \/ k = 3 \/ k = 4 \/ k = 5 \/ k = 6 \/ k = 7 \/ k = 8 \/ k = 9 \/ k = 10
        \/ k = 11 \/ k = 12 \/ k = 13 \/ k = 14 \/ k = 15 \/ k = 16 \/ k = 17
  OBVIOUS
<1>2. CASE k \in {1, 2, 3, 4, 5, 6}
  BY <1>2, SettingRegisters DEF RegisterAt
<1>3. CASE k \in {7, 8, 9, 10, 11, 12}
  BY <1>3, SettingRegisters DEF RegisterAt
<1>4. CASE k \in {13, 14, 15, 16, 17}
  BY <1>4, SettingRegisters DEF RegisterAt
<1> QED
  BY <1>1, <1>2, <1>3, <1>4

\* The initiator is below all registers of Settings.
LEMMA RegisterNumbers ==
  /\ StartRegister = \hB000 + 4 * 512 /\ 512 \in RegisterOffset /\ StartRegister \in Int
  /\ Register.COMPUTE_DISPATCH_INITIATOR = StartRegister
  /\ \A k \in 1 .. 17 : RegisterAt(k) \in Int /\ StartRegister < RegisterAt(k) /\ RegisterAt(k) < \hB900
  /\ \A j, k \in 1 .. 17 : RegisterAt(j) = RegisterAt(k) => j = k
<1>1. StartRegister = \hB000 + 4 * 512 /\ 512 \in RegisterOffset /\ StartRegister \in Int
  BY SMT DEF StartRegister, RegisterOffset
<1>2. Register.COMPUTE_DISPATCH_INITIATOR = StartRegister
  BY DEF Register, StartRegister
<1>3. ASSUME NEW k \in 1 .. 17 PROVE RegisterAt(k) \in Int /\ StartRegister < RegisterAt(k) /\ RegisterAt(k) < \hB900
  <2> DEFINE x == SettingAt[k]
  <2>1. x \in RegisterOffset /\ 512 < x /\ x < 576
    BY SettingsApart
  <2> HIDE DEF x
  <2>2. x \in Int
    BY <2>1 DEF RegisterOffset
  <2> DEFINE y == \hB000 + 4 * x
  <2>3. y \in Int /\ \hB800 < y /\ y < \hB900
    BY SMT, <2>1, <2>2
  <2> QED
    BY <2>3 DEF x, RegisterAt, StartRegister
<1>4. ASSUME NEW j \in 1 .. 17, NEW k \in 1 .. 17, RegisterAt(j) = RegisterAt(k) PROVE j = k
  <2> DEFINE x == SettingAt[j]
             y == SettingAt[k]
  <2>1. x \in RegisterOffset /\ y \in RegisterOffset /\ (x = y => j = k)
    BY SettingsApart
  <2>2. \hB000 + 4 * x = \hB000 + 4 * y
    BY <1>4 DEF RegisterAt
  <2> HIDE DEF x, y
  <2>3. x \in Int /\ y \in Int
    BY <2>1 DEF RegisterOffset
  <2>4. x = y
    BY SMT, <2>2, <2>3
  <2> QED
    BY <2>1, <2>4
<1> QED
  BY <1>1, <1>2, <1>3, <1>4

\* The packets of a submission, as they are read; u is whether there are user data.
IsStream(packets, state, u) ==
  /\ u \in 0 .. 1 /\ u = (IF state.user_data = <<>> THEN 0 ELSE 1)
  /\ DOMAIN packets = 1 .. 20 + u /\ Len(packets) = 20 + u
  /\ \A k \in 1 .. 17 : SetsOnly(packets[k], RegisterAt(k), Settings(state)[k][2])
  /\ u = 1 => SetsUserData(packets[18], state.user_data)
  /\ packets[18 + u].opcode = Opcodes.SURFACE_SYNC
  /\ SetsOnly(packets[19 + u], StartRegister, Put(COMPUTE_SHADER_EN, 1))
  /\ SetsOnly(packets[20 + u], StartRegister, {})

\* A write to the initiator.
LEMMA StartCommand ==
  ASSUME NEW C, NEW val \in SUBSET Bit, C = set_compute_reg(Register.COMPUTE_DISPATCH_INITIATOR, val)
  PROVE  IsPacket(C) /\ Len(C) <= 18 /\ SetsOnly(Parcel(C), StartRegister, val)
<1>1. StartRegister = \hB000 + 4 * 512 /\ 512 \in RegisterOffset
  BY RegisterNumbers
<1>2. C = set_compute_reg(StartRegister, val)
  BY RegisterNumbers
<1>3. IsPacket(C) /\ Len(C) = 3 /\ SetsOnly(Parcel(C), StartRegister, val)
  BY <1>1, <1>2, SetCommand
<1>4. Len(C) <= 18
  BY <1>3
<1> QED
  BY <1>3, <1>4

\* Each command is a packet, and sets what it is to set.
LEMMA CommandsArePackets ==
  ASSUME NEW state, IsState(state), NEW C, NEW u \in 0 .. 1, IsCommands(C, state, u)
  PROVE  /\ \A k \in 1 .. 20 + u : IsPacket(C[k]) /\ Len(C[k]) <= 18
         /\ \A k \in 1 .. 17 : SetsOnly(Parcel(C[k]), RegisterAt(k), Settings(state)[k][2])
         /\ u = 1 => SetsUserData(Parcel(C[18]), state.user_data)
         /\ Parcel(C[18 + u]).opcode = Opcodes.SURFACE_SYNC
         /\ SetsOnly(Parcel(C[19 + u]), StartRegister, Put(COMPUTE_SHADER_EN, 1))
         /\ SetsOnly(Parcel(C[20 + u]), StartRegister, {})
<1>1. ASSUME NEW k \in 1 .. 17
      PROVE  IsPacket(C[k]) /\ Len(C[k]) <= 18 /\ SetsOnly(Parcel(C[k]), RegisterAt(k), Settings(state)[k][2])
  <2> DEFINE val == Settings(state)[k][2]
             reg == Settings(state)[k][1]
             o == SettingAt[k]
  <2>1. C[k] = set_compute_reg(reg, val)
    BY DEF IsCommands
  <2>2. val \in SUBSET Bit
    BY SettingWords
  <2>3. reg = RegisterAt(k)
    BY SettingRegister
  <2>4. o \in RegisterOffset /\ RegisterAt(k) = \hB000 + 4 * o
    BY SettingsApart DEF RegisterAt
  <2> HIDE DEF val, reg, o
  <2>5. reg = \hB000 + 4 * o
    BY <2>3, <2>4
  <2>6. o \in RegisterOffset
    BY <2>4
  <2>7. /\ IsPacket(set_compute_reg(reg, val)) /\ Len(set_compute_reg(reg, val)) = 3
        /\ SetsOnly(Parcel(set_compute_reg(reg, val)), reg, val)
    BY <2>2, <2>5, <2>6, SetCommand
  <2> QED
    BY <2>1, <2>3, <2>7 DEF val
<1>2. ASSUME u = 1 PROVE IsPacket(C[18]) /\ Len(C[18]) <= 18 /\ SetsUserData(Parcel(C[18]), state.user_data)
  <2> DEFINE ud == state.user_data
             n == Len(ud)
  <2>1. ud \in Seq(SUBSET Bit) /\ n <= 16
    BY DEF IsState
  <2>2. ud # <<>> /\ C[18] = SetWords(576, ud)
    BY <1>2 DEF IsCommands
  <2> HIDE DEF ud
  <2>3. n \in Nat /\ n >= 1 /\ n <= 16
    BY <2>1, <2>2, NotEmpty
  <2> HIDE DEF n
  <2>4. n \in 1 .. 16
    BY <2>3
  <2>5. /\ IsPacket(SetWords(576, ud)) /\ Len(SetWords(576, ud)) <= 18
        /\ SetsUserData(Parcel(SetWords(576, ud)), ud)
    <3>1. ud \in Seq(SUBSET Bit)
      BY <2>1
    <3> QED
      BY <2>4, <3>1, UserDataCommand DEF n
  <2> QED
    BY <2>2, <2>5 DEF ud
<1>3. IsPacket(C[18 + u]) /\ Len(C[18 + u]) <= 18 /\ Parcel(C[18 + u]).opcode = Opcodes.SURFACE_SYNC
  <2>1. C[18 + u] = SurfaceSync
    BY DEF IsCommands
  <2> QED
    BY <2>1, SyncCommand
<1>5. IsPacket(C[19 + u]) /\ Len(C[19 + u]) <= 18
      /\ SetsOnly(Parcel(C[19 + u]), StartRegister, Put(COMPUTE_SHADER_EN, 1))
  <2>1. Put(COMPUTE_SHADER_EN, 1) \in SUBSET Bit
    BY DispatchFields, PutBits
  <2>2. C[19 + u] = set_compute_reg(Register.COMPUTE_DISPATCH_INITIATOR, Put(COMPUTE_SHADER_EN, 1))
    BY DEF IsCommands
  <2> QED
    BY <2>1, <2>2, StartCommand
<1>6. IsPacket(C[20 + u]) /\ Len(C[20 + u]) <= 18 /\ SetsOnly(Parcel(C[20 + u]), StartRegister, {})
  <2>1. {} \in SUBSET Bit
    OBVIOUS
  <2>2. C[20 + u] = set_compute_reg(Register.COMPUTE_DISPATCH_INITIATOR, {})
    BY DEF IsCommands
  <2> QED
    BY <2>1, <2>2, StartCommand
<1>7. ASSUME NEW k \in 1 .. 20 + u PROVE IsPacket(C[k]) /\ Len(C[k]) <= 18
  <2>1. k \in 1 .. 17 \/ (u = 1 /\ k = 18) \/ k = 18 + u \/ k = 19 + u \/ k = 20 + u
    OBVIOUS
  <2> QED
    BY <1>1, <1>2, <1>3, <1>5, <1>6, <2>1
<1> QED
  BY <1>1, <1>2, <1>3, <1>5, <1>6, <1>7

\* For every state that fits, the commands are read back so and fit into buf[1024].
LEMMA StreamOf ==
  ASSUME NEW state, IsState(state)
  PROVE  /\ \E u \in 0 .. 1 : IsStream(Packets(compute_emit_compute_state_manual_relocs(state)), state, u)
         /\ Len(compute_emit_compute_state_manual_relocs(state)) <= 1024
<1> DEFINE C == Commands(state)
           packets == Packets(FlattenSeq(C))
<1>1. PICK u \in 0 .. 1 : IsCommands(C, state, u)
  BY CommandList
<1> HIDE DEF C
<1> DEFINE N == 20 + u
<1>2. Len(C) = N /\ u = (IF state.user_data = <<>> THEN 0 ELSE 1)
  BY <1>1 DEF IsCommands
<1>3. /\ \A k \in 1 .. N : IsPacket(C[k]) /\ Len(C[k]) <= 18
      /\ \A k \in 1 .. 17 : SetsOnly(Parcel(C[k]), RegisterAt(k), Settings(state)[k][2])
      /\ u = 1 => SetsUserData(Parcel(C[18]), state.user_data)
      /\ Parcel(C[18 + u]).opcode = Opcodes.SURFACE_SYNC
      /\ SetsOnly(Parcel(C[19 + u]), StartRegister, Put(COMPUTE_SHADER_EN, 1))
      /\ SetsOnly(Parcel(C[20 + u]), StartRegister, {})
  BY <1>1, CommandsArePackets
<1>4. N \in Nat \ {0} /\ N <= 21 /\ \A k \in 1 .. 17 : k \in 1 .. N
  OBVIOUS
<1>5. 18 + u \in 1 .. N /\ 19 + u \in 1 .. N /\ 20 + u \in 1 .. N /\ (u = 1 => 18 \in 1 .. N)
  OBVIOUS
<1>6. \A k \in 1 .. N : C[k] \in Seq(SUBSET Bit) /\ Len(C[k]) <= 18
  BY <1>3 DEF IsPacket
<1> HIDE DEF N
<1>7. packets = [k \in 1 .. N |-> Parcel(C[k])]
  <2>1. \A k \in 1 .. N : IsPacket(C[k])
    BY <1>3
  <2>2. N \in Nat \ {0}
    BY <1>4
  <2>3. Len(C) = N
    BY <1>2
  <2> QED
    BY <2>1, <2>2, <2>3, FlattenedPackets
<1>8. Len(FlattenSeq(C)) <= 18 * N
  <2>1. N \in Nat \ {0}
    BY <1>4
  <2>2. Len(C) = N
    BY <1>2
  <2> QED
    BY <1>6, <2>1, <2>2, FlatLength
<1>9. FlattenSeq(C) \in Seq(SUBSET Bit)
  <2>1. \A k \in 1 .. N : IsPacket(C[k])
    BY <1>3
  <2>2. N \in Nat \ {0}
    BY <1>4
  <2>3. Len(C) = N
    BY <1>2
  <2> QED
    BY <2>1, <2>2, <2>3, FlattenedPackets
<1>10. Len(FlattenSeq(C)) <= 1024
  <2> DEFINE x == Len(FlattenSeq(C))
  <2>1. x \in Nat
    BY <1>9
  <2> HIDE DEF x
  <2> QED
    BY SMT, <1>4, <1>8, <2>1 DEF x
<1> HIDE DEF packets
<1>11. DOMAIN packets = 1 .. N /\ Len(packets) = N /\ \A k \in 1 .. N : packets[k] = Parcel(C[k])
  BY <1>4, <1>7
<1>12. IsStream(packets, state, u)
  <2>1. u \in 0 .. 1 /\ u = (IF state.user_data = <<>> THEN 0 ELSE 1)
    BY <1>2
  <2>2. DOMAIN packets = 1 .. 20 + u /\ Len(packets) = 20 + u
    BY <1>11 DEF N
  <2>3. \A k \in 1 .. 17 : SetsOnly(packets[k], RegisterAt(k), Settings(state)[k][2])
    BY <1>3, <1>4, <1>11
  <2>4. u = 1 => SetsUserData(packets[18], state.user_data)
    BY <1>3, <1>5, <1>11
  <2>5. packets[18 + u].opcode = Opcodes.SURFACE_SYNC
    BY <1>3, <1>5, <1>11
  <2>6. SetsOnly(packets[19 + u], StartRegister, Put(COMPUTE_SHADER_EN, 1))
    BY <1>3, <1>5, <1>11
  <2>7. SetsOnly(packets[20 + u], StartRegister, {})
    BY <1>3, <1>5, <1>11
  <2> QED
    BY <2>1, <2>2, <2>3, <2>4, <2>5, <2>6, <2>7 DEF IsStream
<1>13. compute_emit_compute_state_manual_relocs(state) = FlattenSeq(C)
  BY DEF compute_emit_compute_state_manual_relocs, C
<1> QED
  BY <1>10, <1>12, <1>13 DEF packets


-----------------------------------------------------------------------------
(* Each register is set once.                                              *)

\* The registers of the user data are none of the others.
LEMMA UserRegisterApart ==
  ASSUME NEW n \in Nat, n >= 1
  PROVE  /\ UserRegister(n) \in Int /\ UserRegister(n) # StartRegister
         /\ \A k \in 1 .. 17 : UserRegister(n) # RegisterAt(k)
<1> DEFINE x == UserRegister(n)
<1>1. x \in Int /\ \hB900 <= x
  BY SMT DEF UserRegister
<1>2. x # StartRegister
  BY SMT, <1>1 DEF StartRegister
<1> HIDE DEF x
<1>3. ASSUME NEW k \in 1 .. 17 PROVE x # RegisterAt(k)
  <2> DEFINE y == RegisterAt(k)
  <2>1. y \in Int /\ y < \hB900
    BY RegisterNumbers
  <2> HIDE DEF y
  <2>2. x # y
    BY SMT, <1>1, <2>1
  <2> QED
    BY <2>2 DEF y
<1> QED
  BY <1>1, <1>2, <1>3 DEF x

\* Which registers the packet of the user data sets, counted from 1.
LEMMA UserDataRegisters ==
  ASSUME NEW packet, NEW ud \in Seq(SUBSET Bit), SetsUserData(packet, ud)
  PROVE  /\ \A r \in Int : Sets(packet, r) <=> \E n \in 1 .. Len(ud) : r = UserRegister(n)
         /\ \A n \in 1 .. Len(ud) : ValueSet(packet, UserRegister(n)) = ud[n]
<1> DEFINE m == Len(ud)
           at(n) == \hB900 + 4 * n
<1>1. m \in Nat
  OBVIOUS
<1>2. \A r \in Int : Sets(packet, r) <=> \E n \in 0 .. m - 1 : r = at(n)
  BY DEF SetsUserData
<1>3. \A n \in 1 .. m : ValueSet(packet, UserRegister(n)) = ud[n]
  BY DEF SetsUserData, UserRegister
<1>4. \A n \in 1 .. m : UserRegister(n) = at(n - 1)
  BY DEF UserRegister
<1> HIDE DEF m, at
<1>5. ASSUME NEW r PROVE (\E n \in 0 .. m - 1 : r = at(n)) <=> \E n \in 1 .. m : r = UserRegister(n)
  <2>1. ASSUME NEW n \in 0 .. m - 1, r = at(n) PROVE \E i \in 1 .. m : r = UserRegister(i)
    <3>1. n + 1 \in 1 .. m /\ (n + 1) - 1 = n
      BY <1>1
    <3>2. r = UserRegister(n + 1)
      BY <1>4, <2>1, <3>1
    <3> QED
      BY <3>1, <3>2
  <2>2. ASSUME NEW n \in 1 .. m, r = UserRegister(n) PROVE \E i \in 0 .. m - 1 : r = at(i)
    <3>1. n - 1 \in 0 .. m - 1
      BY <1>1
    <3> QED
      BY <1>4, <2>2, <3>1
  <2> QED
    BY <2>1, <2>2
<1> QED
  BY <1>2, <1>3, <1>5 DEF m

\* The registers each packet of a submission sets.
LEMMA StreamSets ==
  ASSUME NEW packets, NEW state, IsState(state), NEW u, IsStream(packets, state, u)
  PROVE  /\ \A j \in 1 .. 17 : \A r \in Int : Sets(packets[j], r) <=> r = RegisterAt(j)
         /\ u = 1 => \A r \in Int :
                       Sets(packets[18], r) <=> \E n \in 1 .. Len(state.user_data) : r = UserRegister(n)
         /\ \A r \in Int : ~Sets(packets[18 + u], r)
         /\ \A r \in Int : Sets(packets[19 + u], r) <=> r = StartRegister
         /\ \A r \in Int : Sets(packets[20 + u], r) <=> r = StartRegister
<1>1. \A j \in 1 .. 17 : SetsOnly(packets[j], RegisterAt(j), Settings(state)[j][2])
  BY DEF IsStream
<1>2. u = 1 => SetsUserData(packets[18], state.user_data)
  BY DEF IsStream
<1>3. packets[18 + u].opcode = Opcodes.SURFACE_SYNC
  BY DEF IsStream
<1>4. /\ SetsOnly(packets[19 + u], StartRegister, Put(COMPUTE_SHADER_EN, 1))
      /\ SetsOnly(packets[20 + u], StartRegister, {})
  BY DEF IsStream
<1>5. state.user_data \in Seq(SUBSET Bit)
  BY DEF IsState
<1>6. \A r \in Int : ~Sets(packets[18 + u], r)
  BY <1>3, SyncCommand DEF Sets
<1>7. u = 1 => \A r \in Int :
                 Sets(packets[18], r) <=> \E n \in 1 .. Len(state.user_data) : r = UserRegister(n)
  BY <1>2, <1>5, UserDataRegisters
<1>8. \A j \in 1 .. 17 : \A r \in Int : Sets(packets[j], r) <=> r = RegisterAt(j)
  BY <1>1 DEF SetsOnly
<1>9. /\ \A r \in Int : Sets(packets[19 + u], r) <=> r = StartRegister
      /\ \A r \in Int : Sets(packets[20 + u], r) <=> r = StartRegister
  BY <1>4 DEF SetsOnly
<1> QED
  BY <1>6, <1>7, <1>8, <1>9

Setters(packets, reg) == {k \in DOMAIN packets : Sets(packets[k], reg)}

\* The packets of a dispatch: settings, user data if there is any, flush and two starts.
LEMMA PacketNumbers ==
  ASSUME NEW u \in 0 .. 1, NEW j \in 1 .. 20 + u
  PROVE  j \in 1 .. 17 \/ (u = 1 /\ j = 18) \/ j = 18 + u \/ j = 19 + u \/ j = 20 + u
<1>1. CASE u = 0
  BY SMT, <1>1
<1>2. CASE u = 1
  BY SMT, <1>2
<1> QED
  BY <1>1, <1>2

\* Each register is set by one packet, and the initiator by the last two.
LEMMA StreamSetters ==
  ASSUME NEW packets, NEW state, IsState(state), NEW u, IsStream(packets, state, u)
  PROVE  /\ \A k \in 1 .. 17 : Setters(packets, RegisterAt(k)) = {k}
         /\ \A n \in 1 .. Len(state.user_data) : u = 1 /\ Setters(packets, UserRegister(n)) = {18}
         /\ Setters(packets, StartRegister) = {19 + u, 20 + u}
<1> DEFINE m == Len(state.user_data)
<1>0. m \in Nat /\ (u # 1 => m = 0)
  <2>1. state.user_data \in Seq(SUBSET Bit) /\ (u # 1 => state.user_data = <<>>)
    BY DEF IsState, IsStream
  <2> QED
    BY <2>1
<1>1. /\ \A j \in 1 .. 17 : \A r \in Int : Sets(packets[j], r) <=> r = RegisterAt(j)
      /\ u = 1 => \A r \in Int : Sets(packets[18], r) <=> \E n \in 1 .. m : r = UserRegister(n)
      /\ \A r \in Int : ~Sets(packets[18 + u], r)
      /\ \A r \in Int : Sets(packets[19 + u], r) <=> r = StartRegister
      /\ \A r \in Int : Sets(packets[20 + u], r) <=> r = StartRegister
  BY StreamSets
<1>2. DOMAIN packets = 1 .. 20 + u /\ u \in 0 .. 1
  BY DEF IsStream
<1>3. \A n \in 1 .. m : /\ UserRegister(n) \in Int /\ UserRegister(n) # StartRegister
                        /\ \A k \in 1 .. 17 : UserRegister(n) # RegisterAt(k)
  <2>1. \A n \in 1 .. m : n \in Nat /\ n >= 1
    BY <1>0
  <2> QED
    BY <2>1, UserRegisterApart
<1>4. /\ StartRegister \in Int
      /\ \A k \in 1 .. 17 : RegisterAt(k) \in Int /\ RegisterAt(k) # StartRegister
      /\ \A j, k \in 1 .. 17 : RegisterAt(j) = RegisterAt(k) => j = k
  <2>1. StartRegister \in Int
    BY RegisterNumbers
  <2>2. ASSUME NEW k \in 1 .. 17 PROVE RegisterAt(k) \in Int /\ RegisterAt(k) # StartRegister
    <3> DEFINE x == RegisterAt(k)
               y == StartRegister
    <3>1. x \in Int /\ y \in Int /\ y < x
      BY RegisterNumbers
    <3> HIDE DEF x, y
    <3>2. x # y
      BY <3>1
    <3> QED
      BY <3>1, <3>2 DEF x, y
  <2>3. \A j, k \in 1 .. 17 : RegisterAt(j) = RegisterAt(k) => j = k
    BY RegisterNumbers
  <2> QED
    BY <2>1, <2>2, <2>3
<1>5. \A j \in DOMAIN packets : j \in 1 .. 17 \/ (u = 1 /\ j = 18) \/ j = 18 + u \/ j = 19 + u \/ j = 20 + u
  BY <1>2, PacketNumbers
<1> HIDE DEF m
<1>6. ASSUME NEW k \in 1 .. 17 PROVE Setters(packets, RegisterAt(k)) = {k}
  <2> DEFINE reg == RegisterAt(k)
  <2>0. reg \in Int /\ reg # StartRegister /\ \A n \in 1 .. m : reg # UserRegister(n)
    BY <1>3, <1>4
  <2>1. \A j \in 1 .. 17 : Sets(packets[j], reg) <=> j = k
    BY <1>1, <1>4, <2>0
  <2>2. u = 1 => ~Sets(packets[18], reg)
    BY <1>1, <2>0
  <2>3. ~Sets(packets[18 + u], reg) /\ ~Sets(packets[19 + u], reg) /\ ~Sets(packets[20 + u], reg)
    BY <1>1, <2>0
  <2>4. k \in DOMAIN packets
    BY <1>2
  <2> HIDE DEF reg
  <2>5. \A j \in DOMAIN packets : Sets(packets[j], reg) <=> j = k
    BY <1>5, <2>1, <2>2, <2>3
  <2> QED
    BY <2>4, <2>5 DEF Setters, reg
<1>7. ASSUME NEW n \in 1 .. m PROVE u = 1 /\ Setters(packets, UserRegister(n)) = {18}
  <2> DEFINE reg == UserRegister(n)
  <2>0. reg \in Int /\ reg # StartRegister /\ \A k \in 1 .. 17 : reg # RegisterAt(k)
    BY <1>3
  <2>1. \A j \in 1 .. 17 : ~Sets(packets[j], reg)
    BY <1>1, <2>0
  <2>2. u = 1
    BY <1>0
  <2>3. Sets(packets[18], reg)
    BY <1>1, <2>0, <2>2
  <2>4. ~Sets(packets[18 + u], reg) /\ ~Sets(packets[19 + u], reg) /\ ~Sets(packets[20 + u], reg)
    BY <1>1, <2>0
  <2>5. 18 \in DOMAIN packets
    BY <1>2
  <2> HIDE DEF reg
  <2>6. \A j \in DOMAIN packets : Sets(packets[j], reg) <=> j = 18
    BY <1>5, <2>1, <2>3, <2>4
  <2> QED
    BY <2>2, <2>5, <2>6 DEF Setters, reg
<1>8. Setters(packets, StartRegister) = {19 + u, 20 + u}
  <2> DEFINE reg == StartRegister
  <2>1. \A j \in 1 .. 17 : ~Sets(packets[j], reg)
    BY <1>1, <1>4
  <2>2. u = 1 => ~Sets(packets[18], reg)
    BY <1>1, <1>3, <1>4
  <2>3. ~Sets(packets[18 + u], reg) /\ Sets(packets[19 + u], reg) /\ Sets(packets[20 + u], reg)
    BY <1>1, <1>4
  <2>4. 19 + u \in DOMAIN packets /\ 20 + u \in DOMAIN packets
    BY <1>2
  <2> HIDE DEF reg
  <2>5. \A j \in DOMAIN packets : Sets(packets[j], reg) <=> j \in {19 + u, 20 + u}
    BY <1>5, <2>1, <2>2, <2>3
  <2> QED
    BY <2>4, <2>5 DEF Setters, reg
<1> QED
  BY <1>6, <1>7, <1>8 DEF m

\* What a register is set to.
Value(packets, reg) == ValueSet(packets[CHOOSE k \in Setters(packets, reg) : TRUE], reg)

\* A register that one packet sets has the value that packet gives it.
LEMMA SetOnce ==
  ASSUME NEW packets, NEW reg, NEW k, Setters(packets, reg) = {k}
  PROVE  Value(packets, reg) = ValueSet(packets[k], reg)
<1>1. (CHOOSE j \in {k} : TRUE) = k
  OBVIOUS
<1> QED
  BY <1>1 DEF Value

\* What the registers are set to.
LEMMA StreamValues ==
  ASSUME NEW packets, NEW state, IsState(state), NEW u, IsStream(packets, state, u)
  PROVE  /\ \A k \in 1 .. 17 : Value(packets, RegisterAt(k)) = Settings(state)[k][2]
         /\ \A n \in 1 .. Len(state.user_data) : Value(packets, UserRegister(n)) = state.user_data[n]
<1>1. /\ \A k \in 1 .. 17 : Setters(packets, RegisterAt(k)) = {k}
      /\ \A n \in 1 .. Len(state.user_data) : u = 1 /\ Setters(packets, UserRegister(n)) = {18}
  BY StreamSetters
<1>3. ASSUME NEW k \in 1 .. 17 PROVE Value(packets, RegisterAt(k)) = Settings(state)[k][2]
  <2>1. SetsOnly(packets[k], RegisterAt(k), Settings(state)[k][2])
    BY DEF IsStream
  <2>2. Value(packets, RegisterAt(k)) = ValueSet(packets[k], RegisterAt(k))
    BY <1>1, SetOnce
  <2> QED
    BY <2>1, <2>2 DEF SetsOnly
<1>4. ASSUME NEW n \in 1 .. Len(state.user_data)
      PROVE  Value(packets, UserRegister(n)) = state.user_data[n]
  <2>1. u = 1 /\ Setters(packets, UserRegister(n)) = {18}
    BY <1>1
  <2>2. SetsUserData(packets[18], state.user_data)
    BY <2>1 DEF IsStream
  <2>3. state.user_data \in Seq(SUBSET Bit)
    BY DEF IsState
  <2>4. ValueSet(packets[18], UserRegister(n)) = state.user_data[n]
    BY <2>2, <2>3, UserDataRegisters
  <2>5. Value(packets, UserRegister(n)) = ValueSet(packets[18], UserRegister(n))
    BY <2>1, SetOnce
  <2> QED
    BY <2>4, <2>5
<1> QED
  BY <1>3, <1>4


-----------------------------------------------------------------------------
(* The values read back.                                                   *)

\* The members of a state fit the fields they go to.
LEMMA StateFits ==
  ASSUME NEW state, IsState(state)
  PROVE  /\ \A d \in 1 .. 3 : /\ Fits(state.dim[d], 31) /\ Fits(state.start[d], 31)
                              /\ Fits(state.num_thread[d], 16)
         /\ Fits(state.vgpr_num, 6) /\ Fits(state.sgpr_num, 4) /\ Fits(state.ieee_mode, 1)
         /\ Fits(Len(state.user_data), 5) /\ Fits(state.lds_size, 9)
<1>1. ASSUME NEW d \in 1 .. 3
      PROVE  Fits(state.dim[d], 31) /\ Fits(state.start[d], 31) /\ Fits(state.num_thread[d], 16)
  <2>1. state.dim[d] \in NonNegative /\ state.start[d] \in NonNegative /\ state.num_thread[d] \in WorkItems
    BY DEF IsState
  <2>2. Fits(state.dim[d], 31) /\ Fits(state.start[d], 31)
    BY <2>1, NonNegativeFits
  <2> DEFINE x == state.num_thread[d]
  <2>3. x \in WorkItems
    BY <2>1
  <2> HIDE DEF x
  <2>4. Fits(x, 16)
    BY <2>3, Bits16
  <2> QED
    BY <2>2, <2>4 DEF x
<1>2. Fits(state.vgpr_num, 6) /\ Fits(state.sgpr_num, 4) /\ Fits(state.ieee_mode, 1)
  <2>1. state.vgpr_num \in 0 .. 63 /\ state.sgpr_num \in 0 .. 15 /\ state.ieee_mode \in 0 .. 1
    BY DEF IsState
  <2> QED
    BY <2>1, Bits1, Bits4, Bits6
<1>3. Fits(Len(state.user_data), 5)
  <2>1. state.user_data \in Seq(SUBSET Bit) /\ Len(state.user_data) <= 16
    BY DEF IsState
  <2> DEFINE n == Len(state.user_data)
  <2>2. n \in Nat /\ n <= 16
    BY <2>1
  <2> HIDE DEF n
  <2>3. n \in 0 .. 31
    BY <2>2
  <2>4. Fits(n, 5)
    BY <2>3, Bits5
  <2> QED
    BY <2>4 DEF n
<1>4. Fits(state.lds_size, 9)
  <2>1. state.lds_size \in 0 .. 511
    BY DEF IsState
  <2> QED
    BY <2>1, Bits9
<1> QED
  BY <1>1, <1>2, <1>3, <1>4

\* A field that is alone in its word reads back.
LEMMA PlacedAlone ==
  ASSUME NEW n \in 0 .. 31, NEW d, n + d <= 32, NEW x, Fits(x, d)
  PROVE  Get(Field(n, d), Put(Field(n, d), x)) = x
<1>1. Placing(Put(Field(n, d), x), n, d, x)
  BY DEF Placing
<1> QED
  BY <1>1, GetHolds

\* Grid, offset and group read back.
LEMMA ParametersRead ==
  ASSUME NEW state, IsState(state), NEW d \in 1 .. 3
  PROVE  /\ Number(Word(state.dim[d])) = state.dim[d] /\ Number(Word(state.start[d])) = state.start[d]
         /\ Get(NUM_THREAD_FULL, Put(NUM_THREAD_FULL, state.num_thread[d])) = state.num_thread[d]
<1>1. Fits(state.dim[d], 31) /\ Fits(state.start[d], 31) /\ Fits(state.num_thread[d], 16)
  BY StateFits
<1>2. Number(Word(state.dim[d])) = state.dim[d]
  BY <1>1, SmallWord DEF Fits
<1>3. Number(Word(state.start[d])) = state.start[d]
  BY <1>1, SmallWord DEF Fits
<1>4. Get(NUM_THREAD_FULL, Put(NUM_THREAD_FULL, state.num_thread[d])) = state.num_thread[d]
  <2>1. 0 \in 0 .. 31 /\ 0 + 16 <= 32
    OBVIOUS
  <2>2. Get(Field(0, 16), Put(Field(0, 16), state.num_thread[d])) = state.num_thread[d]
    BY <1>1, <2>1, PlacedAlone
  <2> QED
    BY <2>2, DispatchFields
<1> QED
  BY <1>2, <1>3, <1>4

\* The first write to the initiator starts the waves, the second does not.
LEMMA EnableReads ==
  /\ Get(COMPUTE_SHADER_EN, Put(COMPUTE_SHADER_EN, 1)) = 1
  /\ Get(COMPUTE_SHADER_EN, {}) # 1
<1>1. 0 \in 0 .. 31 /\ 0 + 1 <= 32 /\ 1 \in 0 .. 1
  OBVIOUS
<1>2. Fits(1, 1)
  BY <1>1, Bits1
<1>3. Get(Field(0, 1), Put(Field(0, 1), 1)) = 1
  BY <1>1, <1>2, PlacedAlone
<1>4. Get(Field(0, 1), {}) = 0
  <2>1. Get(Field(0, 1), {}) = Number({})
    BY DEF Get, Field
  <2> QED
    BY <2>1, NumberOfNothing
<1> QED
  BY <1>3, <1>4, DispatchFields

\* The registers of a wave read back.
LEMMA Rsrc1Reads ==
  ASSUME NEW state, IsState(state)
  PROVE  /\ Get(PGM_RSRC1["VGPRS"], Rsrc1(state)) = state.vgpr_num
         /\ Get(PGM_RSRC1["SGPRS"], Rsrc1(state)) = state.sgpr_num
<1> DEFINE A == Put(Field(0, 6), state.vgpr_num)
           B == Put(Field(6, 4), state.sgpr_num)
           C == Put(Field(23, 1), state.ieee_mode)
           w == A \cup B \cup C
<1>1. Fits(state.vgpr_num, 6) /\ Fits(state.sgpr_num, 4) /\ Fits(state.ieee_mode, 1)
  BY StateFits
<1>2. /\ PGM_RSRC1["VGPRS"] = Field(0, 6) /\ PGM_RSRC1["SGPRS"] = Field(6, 4)
      /\ PGM_RSRC1["IEEE_MODE"] = Field(23, 1)
  BY DispatchFields
<1>3. Rsrc1(state) = w
  BY <1>2 DEF Rsrc1
<1>4. /\ 0 \in Nat /\ 6 \in Nat /\ 4 \in Nat /\ 23 \in Nat /\ 1 \in Nat
      /\ 0 + 6 <= 32 /\ 6 + 4 <= 32 /\ 23 + 1 <= 32 /\ 0 \in 0 .. 31 /\ 6 \in 0 .. 31
  OBVIOUS
<1>5. /\ A \in SUBSET Bit /\ \A b \in A : 0 <= b /\ b < 0 + 6
      /\ B \in SUBSET Bit /\ \A b \in B : 6 <= b /\ b < 6 + 4
      /\ C \in SUBSET Bit /\ \A b \in C : 23 <= b /\ b < 23 + 1
  BY <1>4, PutBits
<1>6. /\ \A b \in 0 .. 0 + 6 - 1 : b \in w <=> b \in A
      /\ \A b \in 6 .. 6 + 4 - 1 : b \in w <=> b \in B
  <2> HIDE DEF A, B, C
  <2>1. /\ \A b \in A : b \in Int /\ b <= 5
        /\ \A b \in B : b \in Int /\ b >= 6 /\ b <= 9
        /\ \A b \in C : b \in Int /\ b >= 23
    BY <1>5 DEF Bit
  <2> QED
    BY <2>1
<1> HIDE DEF w
<1>7. Placing(w, 0, 6, state.vgpr_num)
  BY <1>1, <1>4, <1>6 DEF Placing
<1>8. Placing(w, 6, 4, state.sgpr_num)
  BY <1>1, <1>4, <1>6 DEF Placing
<1>9. Get(Field(0, 6), w) = state.vgpr_num
  BY <1>7, GetHolds
<1>10. Get(Field(6, 4), w) = state.sgpr_num
  BY <1>8, GetHolds
<1> QED
  BY <1>2, <1>3, <1>9, <1>10

\* So do the number of user data and the local memory.
LEMMA Rsrc2Reads ==
  ASSUME NEW state, IsState(state)
  PROVE  /\ Get(PGM_RSRC2["USER_SGPR"], Rsrc2(state)) = Len(state.user_data)
         /\ Get(PGM_RSRC2["LDS_SIZE"], Rsrc2(state)) = state.lds_size
<1> DEFINE A == Put(Field(1, 5), Len(state.user_data))
           B == Put(Field(15, 9), state.lds_size)
           E == UNION {Put(PGM_RSRC2[f], 1) : f \in {"TGID_X_EN", "TGID_Y_EN", "TGID_Z_EN", "TG_SIZE_EN"}}
           w == E \cup A \cup B
<1>1. Fits(Len(state.user_data), 5) /\ Fits(state.lds_size, 9)
  BY StateFits
<1>2. /\ PGM_RSRC2["USER_SGPR"] = Field(1, 5) /\ PGM_RSRC2["LDS_SIZE"] = Field(15, 9)
      /\ PGM_RSRC2["TGID_X_EN"] = Field(7, 1) /\ PGM_RSRC2["TGID_Y_EN"] = Field(8, 1)
      /\ PGM_RSRC2["TGID_Z_EN"] = Field(9, 1) /\ PGM_RSRC2["TG_SIZE_EN"] = Field(10, 1)
  BY DispatchFields
<1>3. Rsrc2(state) = w
  BY <1>2 DEF Rsrc2
<1>4. /\ 1 \in Nat /\ 5 \in Nat /\ 15 \in Nat /\ 9 \in Nat
      /\ 1 + 5 <= 32 /\ 15 + 9 <= 32 /\ 1 \in 0 .. 31 /\ 15 \in 0 .. 31
  OBVIOUS
<1>5. /\ A \in SUBSET Bit /\ \A b \in A : 1 <= b /\ b < 1 + 5
      /\ B \in SUBSET Bit /\ \A b \in B : 15 <= b /\ b < 15 + 9
  BY <1>4, PutBits
<1>6. \A b \in E : b \in Int /\ b >= 7 /\ b <= 10
  <2>1. ASSUME NEW n \in 7 .. 10 PROVE \A b \in Put(Field(n, 1), 1) : b \in Int /\ b >= 7 /\ b <= 10
    <3>1. n \in Nat /\ 1 \in Nat /\ n + 1 <= 32
      OBVIOUS
    <3>2. Put(Field(n, 1), 1) \in SUBSET Bit /\ \A b \in Put(Field(n, 1), 1) : n <= b /\ b < n + 1
      BY <3>1, PutBits
    <3> QED
      BY <3>2 DEF Bit
  <2>2. 7 \in 7 .. 10 /\ 8 \in 7 .. 10 /\ 9 \in 7 .. 10 /\ 10 \in 7 .. 10
    OBVIOUS
  <2>3. ASSUME NEW f \in {"TGID_X_EN", "TGID_Y_EN", "TGID_Z_EN", "TG_SIZE_EN"}
        PROVE  \A b \in Put(PGM_RSRC2[f], 1) : b \in Int /\ b >= 7 /\ b <= 10
    BY <1>2, <2>1, <2>2
  <2> QED
    BY <2>3
<1>7. /\ \A b \in 1 .. 1 + 5 - 1 : b \in w <=> b \in A
      /\ \A b \in 15 .. 15 + 9 - 1 : b \in w <=> b \in B
  <2> HIDE DEF A, B, E
  <2>1. /\ \A b \in A : b \in Int /\ b >= 1 /\ b <= 5
        /\ \A b \in B : b \in Int /\ b >= 15
    BY <1>5 DEF Bit
  <2> QED
    BY <1>6, <2>1
<1> HIDE DEF w
<1>8. Placing(w, 1, 5, Len(state.user_data))
  BY <1>1, <1>4, <1>7 DEF Placing
<1>9. Placing(w, 15, 9, state.lds_size)
  BY <1>1, <1>4, <1>7 DEF Placing
<1>10. Get(Field(1, 5), w) = Len(state.user_data)
  BY <1>8, GetHolds
<1>11. Get(Field(15, 9), w) = state.lds_size
  BY <1>9, GetHolds
<1> QED
  BY <1>2, <1>3, <1>10, <1>11

\* The lowest byte is the remainder by 256.
LEMMA LowByte ==
  ASSUME NEW n \in Int
  PROVE  Number(Word(n) \cap 0 .. 7) = n % 256
<1> DEFINE k == 8
<1>1. k \in 0 .. 31
  OBVIOUS
<1>2. 2 ^ k = 256 /\ k - 1 = 7
  BY SMT
<1> HIDE DEF k
<1>3. Number(Word(n) \cap 0 .. k - 1) = n % 2 ^ k
  BY <1>1, MaskedWord
<1> QED
  BY <1>2, <1>3

\* An address of a page has no bits below 8, which COMPUTE_PGM_LO leaves out.
LEMMA PageBits ==
  ASSUME NEW n \in Nat, n % 4096 = 0
  PROVE  \A b \in Word(n) : b >= 8
<1> DEFINE q == n \div 4096
<1>1. q \in Int /\ n = q * 4096
  BY SMT
<1> HIDE DEF q
<1>2. n % 256 = 0
  BY SMT, <1>1
<1>3. Number(Word(n) \cap 0 .. 7) = n % 256
  BY LowByte
<1>5. Number(Word(n) \cap 0 .. 7) = Number({})
  BY <1>2, <1>3, NumberOfNothing
<1>6. Word(n) \in SUBSET Bit
  BY WordBits
<1>7. Word(n) \cap 0 .. 7 = {}
  <2>1. (Word(n) \cap 0 .. 7) \in SUBSET Bit /\ {} \in SUBSET Bit
    BY <1>6
  <2> QED
    BY <1>5, <2>1, NumberTells
<1> QED
  BY <1>6, <1>7 DEF Bit

\* The address of the code reads back from its two registers.
LEMMA CodeReads ==
  ASSUME NEW va, IsCode(va)
  PROVE  {b + 8 : b \in Shifted(va, 8) \cap Bit} \cup {b + 40 : b \in Shifted(va, 40) \cap Bit} = VaBits(va)
<1> DEFINE V == VaBits(va)
           n == va.low
<1>1. n \in NonNegative /\ n % 4096 = 0 /\ va.high \subseteq 31 .. 39 /\ va = [high |-> va.high, low |-> n]
  BY DEF IsCode
<1> HIDE DEF n
<1>2. n \in Nat /\ n <= 2147483647
  BY SMT, <1>1 DEF NonNegative
<1>3. Virtual(va)
  BY <1>1, <1>2 DEF Virtual, n
<1>4. V \subseteq 0 .. 39
  BY <1>3, VirtualBits
<1>5. \A b \in Word(n) : b >= 8
  BY <1>1, <1>2, PageBits
<1>6. \A b \in V : b \in Int /\ b >= 8 /\ b <= 39
  <2>1. V = Word(n) \cup va.high
    BY DEF VaBits, n
  <2>2. \A b \in va.high : b >= 8
    BY <1>1
  <2> HIDE DEF V
  <2> QED
    BY <1>4, <1>5, <2>1, <2>2
<1>7. Shifted(va, 8) = {b - 8 : b \in {c \in V : c >= 8}} /\ Shifted(va, 40) = {b - 40 : b \in {c \in V : c >= 40}}
  BY DEF Shifted
<1> HIDE DEF V
<1>8. Shifted(va, 40) = {}
  BY <1>6, <1>7
<1>9. Shifted(va, 8) \cap Bit = {b - 8 : b \in V}
  <2>1. \A b \in V : b - 8 \in Bit /\ b >= 8
    BY <1>6 DEF Bit
  <2> QED
    BY <1>7, <2>1
<1>10. {b + 8 : b \in {c - 8 : c \in V}} = V
  <2>1. \A c \in V : (c - 8) + 8 = c
    BY <1>6
  <2> QED
    BY <2>1
<1> QED
  BY <1>8, <1>9, <1>10 DEF V


\* The registers of a state, by their place in Settings.
LEMMA StateRegisters ==
  /\ \A d \in 1 .. 3 : /\ Register.COMPUTE_DIM[d] = RegisterAt(d)
                       /\ Register.COMPUTE_START[d] = RegisterAt(3 + d)
                       /\ Register.COMPUTE_NUM_THREAD[d] = RegisterAt(6 + d)
  /\ Register.COMPUTE_PGM_LO = RegisterAt(11) /\ Register.COMPUTE_PGM_HI = RegisterAt(12)
  /\ Register.COMPUTE_PGM_RSRC1 = RegisterAt(13) /\ Register.COMPUTE_PGM_RSRC2 = RegisterAt(14)
<1>1. ASSUME NEW d \in 1 .. 3
      PROVE  /\ Register.COMPUTE_DIM[d] = RegisterAt(d)
             /\ Register.COMPUTE_START[d] = RegisterAt(3 + d)
             /\ Register.COMPUTE_NUM_THREAD[d] = RegisterAt(6 + d)
  <2>1. d = 1 \/ d = 2 \/ d = 3
    OBVIOUS
  <2>2. CASE d = 1
    BY <2>2, SettingRegisters DEF RegisterAt
  <2>3. CASE d = 2
    BY <2>3, SettingRegisters DEF RegisterAt
  <2>4. CASE d = 3
    BY <2>4, SettingRegisters DEF RegisterAt
  <2> QED
    BY <2>1, <2>2, <2>3, <2>4
<1>2. Register.COMPUTE_PGM_LO = RegisterAt(11) /\ Register.COMPUTE_PGM_HI = RegisterAt(12)
  BY SettingRegisters DEF RegisterAt
<1>3. Register.COMPUTE_PGM_RSRC1 = RegisterAt(13) /\ Register.COMPUTE_PGM_RSRC2 = RegisterAt(14)
  BY SettingRegisters DEF RegisterAt
<1> QED
  BY <1>1, <1>2, <1>3

\* And their values.
LEMMA StateValues ==
  ASSUME NEW state
  PROVE  /\ \A d \in 1 .. 3 : /\ Settings(state)[d][2] = Word(state.dim[d])
                              /\ Settings(state)[3 + d][2] = Word(state.start[d])
                              /\ Settings(state)[6 + d][2] = Put(NUM_THREAD_FULL, state.num_thread[d])
         /\ Settings(state)[11][2] = Shifted(state.binary, 8) \cap Bit
         /\ Settings(state)[12][2] = Shifted(state.binary, 40) \cap Bit
         /\ Settings(state)[13][2] = Rsrc1(state) /\ Settings(state)[14][2] = Rsrc2(state)
<1>1. ASSUME NEW d \in 1 .. 3
      PROVE  /\ Settings(state)[d][2] = Word(state.dim[d])
             /\ Settings(state)[3 + d][2] = Word(state.start[d])
             /\ Settings(state)[6 + d][2] = Put(NUM_THREAD_FULL, state.num_thread[d])
  <2>1. d = 1 \/ d = 2 \/ d = 3
    OBVIOUS
  <2>2. CASE d = 1
    BY <2>2, SettingValues
  <2>3. CASE d = 2
    BY <2>3, SettingValues
  <2>4. CASE d = 3
    BY <2>4, SettingValues
  <2> QED
    BY <2>1, <2>2, <2>3, <2>4
<1> QED
  BY <1>1, SettingValues

\* What the packets set is the state.
IsSet(packets, state) ==
  /\ \A d \in 1 .. 3 :
       /\ Number(Value(packets, Register.COMPUTE_DIM[d])) = state.dim[d]
       /\ Number(Value(packets, Register.COMPUTE_START[d])) = state.start[d]
       /\ Get(NUM_THREAD_FULL, Value(packets, Register.COMPUTE_NUM_THREAD[d])) = state.num_thread[d]
  /\ {b + 8 : b \in Value(packets, Register.COMPUTE_PGM_LO)}
       \cup {b + 40 : b \in Value(packets, Register.COMPUTE_PGM_HI)} = VaBits(state.binary)
  /\ [n \in DOMAIN state.user_data |-> Value(packets, Register.COMPUTE_USER_DATA_0 + 4 * (n - 1))] = state.user_data
  /\ Get(PGM_RSRC1["VGPRS"], Value(packets, Register.COMPUTE_PGM_RSRC1)) = state.vgpr_num
  /\ Get(PGM_RSRC1["SGPRS"], Value(packets, Register.COMPUTE_PGM_RSRC1)) = state.sgpr_num
  /\ Get(PGM_RSRC2["USER_SGPR"], Value(packets, Register.COMPUTE_PGM_RSRC2)) = Len(state.user_data)
  /\ Get(PGM_RSRC2["LDS_SIZE"], Value(packets, Register.COMPUTE_PGM_RSRC2)) = state.lds_size

\* What the packets set is the state they were made of.
LEMMA StateIsSet ==
  ASSUME NEW packets, NEW state, IsState(state), NEW u, IsStream(packets, state, u)
  PROVE  IsSet(packets, state)
<1>1. \A k \in 1 .. 17 : Value(packets, RegisterAt(k)) = Settings(state)[k][2]
  BY StreamValues
<1>2. ASSUME NEW d \in 1 .. 3
      PROVE  /\ Number(Value(packets, Register.COMPUTE_DIM[d])) = state.dim[d]
             /\ Number(Value(packets, Register.COMPUTE_START[d])) = state.start[d]
             /\ Get(NUM_THREAD_FULL, Value(packets, Register.COMPUTE_NUM_THREAD[d])) = state.num_thread[d]
  <2>1. d \in 1 .. 17 /\ 3 + d \in 1 .. 17 /\ 6 + d \in 1 .. 17
    OBVIOUS
  <2>2. /\ Value(packets, Register.COMPUTE_DIM[d]) = Word(state.dim[d])
        /\ Value(packets, Register.COMPUTE_START[d]) = Word(state.start[d])
        /\ Value(packets, Register.COMPUTE_NUM_THREAD[d]) = Put(NUM_THREAD_FULL, state.num_thread[d])
    BY <1>1, <2>1, StateRegisters, StateValues
  <2> QED
    BY <2>2, ParametersRead
<1>3. 11 \in 1 .. 17 /\ 12 \in 1 .. 17 /\ 13 \in 1 .. 17 /\ 14 \in 1 .. 17
  OBVIOUS
<1>4. {b + 8 : b \in Value(packets, Register.COMPUTE_PGM_LO)}
        \cup {b + 40 : b \in Value(packets, Register.COMPUTE_PGM_HI)} = VaBits(state.binary)
  <2>1. /\ Value(packets, Register.COMPUTE_PGM_LO) = Shifted(state.binary, 8) \cap Bit
        /\ Value(packets, Register.COMPUTE_PGM_HI) = Shifted(state.binary, 40) \cap Bit
    BY <1>1, <1>3, StateRegisters, StateValues
  <2>2. IsCode(state.binary)
    BY DEF IsState
  <2> QED
    BY <2>1, <2>2, CodeReads
<1>5. [n \in DOMAIN state.user_data |-> Value(packets, Register.COMPUTE_USER_DATA_0 + 4 * (n - 1))] = state.user_data
  <2> DEFINE ud == state.user_data
             at(n) == Value(packets, Register.COMPUTE_USER_DATA_0 + 4 * (n - 1))
  <2>1. ud \in Seq(SUBSET Bit)
    BY DEF IsState
  <2>2. \A n \in 1 .. Len(ud) : Value(packets, UserRegister(n)) = ud[n]
    BY StreamValues
  <2>3. \A n : UserRegister(n) = Register.COMPUTE_USER_DATA_0 + 4 * (n - 1)
    BY DEF UserRegister, Register
  <2>4. \A n \in 1 .. Len(ud) : at(n) = ud[n]
    BY <2>2, <2>3
  <2>5. ud = [n \in 1 .. Len(ud) |-> ud[n]] /\ DOMAIN ud = 1 .. Len(ud)
    BY <2>1
  <2> HIDE DEF ud, at
  <2>6. [n \in DOMAIN ud |-> at(n)] = ud
    BY <2>4, <2>5
  <2> QED
    BY <2>6 DEF ud, at
<1>6. /\ Get(PGM_RSRC1["VGPRS"], Value(packets, Register.COMPUTE_PGM_RSRC1)) = state.vgpr_num
      /\ Get(PGM_RSRC1["SGPRS"], Value(packets, Register.COMPUTE_PGM_RSRC1)) = state.sgpr_num
  <2>1. Value(packets, Register.COMPUTE_PGM_RSRC1) = Rsrc1(state)
    BY <1>1, <1>3, StateRegisters, StateValues
  <2> QED
    BY <2>1, Rsrc1Reads
<1>7. /\ Get(PGM_RSRC2["USER_SGPR"], Value(packets, Register.COMPUTE_PGM_RSRC2)) = Len(state.user_data)
      /\ Get(PGM_RSRC2["LDS_SIZE"], Value(packets, Register.COMPUTE_PGM_RSRC2)) = state.lds_size
  <2>1. Value(packets, Register.COMPUTE_PGM_RSRC2) = Rsrc2(state)
    BY <1>1, <1>3, StateRegisters, StateValues
  <2> QED
    BY <2>1, Rsrc2Reads
<1> QED
  BY <1>2, <1>4, <1>5, <1>6, <1>7 DEF IsSet


\* The packets that start the waves.
Starts(packets) ==
  {k \in Setters(packets, Register.COMPUTE_DISPATCH_INITIATOR) :
     Get(COMPUTE_SHADER_EN, ValueSet(packets[k], Register.COMPUTE_DISPATCH_INITIATOR)) = 1}

\* There is one, behind a flush of the caches and before nothing but the initiator.
StartsAtLast(packets) ==
  /\ \A k \in DOMAIN packets : packets[k].opcode \in {Opcodes.SET_SH_REG, Opcodes.SURFACE_SYNC}
  /\ Cardinality(Starts(packets)) = 1
  /\ \A k \in Starts(packets) :
       /\ \E j \in 1 .. k - 1 : packets[j].opcode = Opcodes.SURFACE_SYNC
       /\ \A j \in k + 1 .. Len(packets) : Sets(packets[j], Register.COMPUTE_DISPATCH_INITIATOR)

-----------------------------------------------------------------------------
(* The start, and the theorem.                                             *)

\* The waves start once, at the end and behind the flush.
LEMMA StreamStarts ==
  ASSUME NEW packets, NEW state, IsState(state), NEW u, IsStream(packets, state, u)
  PROVE  StartsAtLast(packets)
<1>0. u \in 0 .. 1 /\ DOMAIN packets = 1 .. 20 + u /\ Len(packets) = 20 + u
  BY DEF IsStream
<1>1. Setters(packets, StartRegister) = {19 + u, 20 + u}
  BY StreamSetters
<1>2. Register.COMPUTE_DISPATCH_INITIATOR = StartRegister
  BY RegisterNumbers
<1>3. /\ ValueSet(packets[19 + u], StartRegister) = Put(COMPUTE_SHADER_EN, 1)
      /\ ValueSet(packets[20 + u], StartRegister) = {}
  BY DEF IsStream, SetsOnly
<1>4. Starts(packets) = {19 + u}
  <2> DEFINE on(k) == Get(COMPUTE_SHADER_EN, ValueSet(packets[k], StartRegister)) = 1
  <2>1. on(19 + u) /\ ~on(20 + u)
    BY <1>3, EnableReads
  <2>2. Starts(packets) = {k \in {19 + u, 20 + u} : on(k)}
    BY <1>1, <1>2 DEF Starts
  <2> HIDE DEF on
  <2> QED
    BY <2>1, <2>2
<1>5. Cardinality(Starts(packets)) = 1
  BY <1>4, FS_Singleton
<1>6. ASSUME NEW k \in DOMAIN packets PROVE packets[k].opcode \in {Opcodes.SET_SH_REG, Opcodes.SURFACE_SYNC}
  <2>1. k \in 1 .. 17 \/ (u = 1 /\ k = 18) \/ k = 18 + u \/ k = 19 + u \/ k = 20 + u
    BY <1>0, PacketNumbers
  <2>2. CASE k \in 1 .. 17
    BY <2>2 DEF IsStream, SetsOnly
  <2>3. CASE u = 1 /\ k = 18
    BY <2>3 DEF IsStream, SetsUserData
  <2>4. CASE k = 18 + u
    BY <2>4 DEF IsStream
  <2>5. CASE k = 19 + u \/ k = 20 + u
    BY <2>5 DEF IsStream, SetsOnly
  <2> QED
    BY <2>1, <2>2, <2>3, <2>4, <2>5
<1>7. ASSUME NEW k, k = 19 + u
      PROVE  /\ \E j \in 1 .. k - 1 : packets[j].opcode = Opcodes.SURFACE_SYNC
             /\ \A j \in k + 1 .. Len(packets) : Sets(packets[j], StartRegister)
  <2>1. 18 + u \in 1 .. k - 1 /\ packets[18 + u].opcode = Opcodes.SURFACE_SYNC
    BY <1>0, <1>7 DEF IsStream
  <2>2. Sets(packets[20 + u], StartRegister)
    BY <1>1 DEF Setters
  <2>3. \A j \in k + 1 .. Len(packets) : j = 20 + u
    BY <1>0, <1>7
  <2> QED
    BY <2>1, <2>2, <2>3
<1> QED
  BY <1>2, <1>4, <1>5, <1>6, <1>7 DEF StartsAtLast

\* The defaults are in range.
LEMMA SmallNumbers == 0 \in NonNegative /\ 1 \in NonNegative /\ 1 \in WorkItems
<1>1. 0 \in NonNegative
  BY SMT DEF NonNegative
<1>2. 1 \in NonNegative
  BY SMT DEF NonNegative
<1>3. 1 \in WorkItems
  BY SMT DEF WorkItems
<1> QED
  BY <1>1, <1>2, <1>3

\* resize keeps to the numbers it is given.
LEMMA Resized ==
  ASSUME NEW S, NEW seq \in Seq(S), NEW default \in S, NEW d \in 1 .. 3
  PROVE  resize(seq, default)[d] \in S
<1>1. resize(seq, default)[d] = IF d <= Len(seq) THEN seq[d] ELSE default
  BY DEF resize
<1>2. d <= Len(seq) => seq[d] \in S
  OBVIOUS
<1> QED
  BY <1>1, <1>2

\* Eight scalar registers are the unit.
LEMMA SgprsRound ==
  ASSUME NEW n \in 0 .. 128, NEW r, r = ((IF n = 0 THEN 104 ELSE n) + 7) \div 8 - 1
  PROVE  r \in 0 .. 15 /\ (n > 0 => 8 * (r + 1) \in n .. n + 7)
  BY SMT

\* Four vector registers are the unit.
LEMMA VgprsRound ==
  ASSUME NEW n \in 0 .. 256, NEW r, r = ((IF n = 0 THEN 256 ELSE n) + 3) \div 4 - 1
  PROVE  r \in 0 .. 63 /\ (n > 0 => 4 * (r + 1) \in n .. n + 3)
  BY SMT

\* 256 bytes of local memory are the unit.
LEMMA LdsRounds ==
  ASSUME NEW n \in LocalMemory, NEW r, r = (n + 255) \div 256
  PROVE  r \in 0 .. 511 /\ 256 * r \in n .. n + 255
<1> DEFINE x == n + 255
           e == x % 256
<1>1. n \in Int /\ 0 <= n /\ n <= 32768
  BY SMT DEF LocalMemory
<1>2. x \in Int /\ x >= 255 /\ x <= 33023
  BY SMT, <1>1
<1>3. r = x \div 256
  OBVIOUS
<1> HIDE DEF x
<1>4. r \in Int /\ e \in Int /\ 0 <= e /\ e <= 255 /\ x = 256 * r + e
  BY SMT, <1>2, <1>3
<1> HIDE DEF e
<1>5. r >= 0 /\ r <= 511
  BY SMT, <1>2, <1>4
<1>6. n = 256 * r + e - 255
  BY SMT, <1>1, <1>4 DEF x
<1>7. 256 * r \in n .. n + 255
  BY SMT, <1>1, <1>4, <1>6
<1> QED
  BY <1>4, <1>5, <1>7

\* What the packets make of the sizes a launch asks for.
Rounds(state, a) ==
  /\ a.vgprnum > 0 => 4 * (state.vgpr_num + 1) \in a.vgprnum .. a.vgprnum + 3
  /\ a.sgprnum > 0 => 8 * (state.sgpr_num + 1) \in a.sgprnum .. a.sgprnum + 7
  /\ 256 * state.lds_size \in a.localMemSize .. a.localMemSize + 255

\* What launch accepts makes a state whose fields have room, with no unit more than asked for.
LEMMA LaunchMakesState ==
  ASSUME NEW a, IsLaunch(a)
  PROVE  IsState(LaunchState(a)) /\ Rounds(LaunchState(a), a)
<1> DEFINE s == LaunchState(a)
<1>1. /\ s.user_data = a.userData /\ s.dim = resize(a.blockDim, 1) /\ s.start = resize(a.threadOffset, 0)
      /\ s.num_thread = resize(a.localSize, 1) /\ s.ieee_mode = 1 /\ s.binary = a.code
  BY DEF LaunchState
<1>2. /\ s.sgpr_num = ((IF a.sgprnum = 0 THEN 104 ELSE a.sgprnum) + 7) \div 8 - 1
      /\ s.vgpr_num = ((IF a.vgprnum = 0 THEN 256 ELSE a.vgprnum) + 3) \div 4 - 1
      /\ s.lds_size = (a.localMemSize + 255) \div 256
  BY DEF LaunchState
<1> HIDE DEF s
<1>3. a.userData \in Seq(SUBSET Bit) /\ Len(a.userData) <= 16 /\ IsCode(a.code)
  BY DEF IsLaunch
<1>4. \A d \in 1 .. 3 : s.dim[d] \in NonNegative /\ s.start[d] \in NonNegative /\ s.num_thread[d] \in WorkItems
  <2>1. a.blockDim \in Seq(NonNegative) /\ a.threadOffset \in Seq(NonNegative) /\ a.localSize \in Seq(WorkItems)
    BY DEF IsLaunch
  <2> QED
    BY <1>1, <2>1, Resized, SmallNumbers
<1>5. s.sgpr_num \in 0 .. 15 /\ (a.sgprnum > 0 => 8 * (s.sgpr_num + 1) \in a.sgprnum .. a.sgprnum + 7)
  <2>1. a.sgprnum \in 0 .. 128
    BY DEF IsLaunch
  <2> QED
    BY <1>2, <2>1, SgprsRound
<1>6. s.vgpr_num \in 0 .. 63 /\ (a.vgprnum > 0 => 4 * (s.vgpr_num + 1) \in a.vgprnum .. a.vgprnum + 3)
  <2>1. a.vgprnum \in 0 .. 256
    BY DEF IsLaunch
  <2> QED
    BY <1>2, <2>1, VgprsRound
<1>7. s.lds_size \in 0 .. 511 /\ 256 * s.lds_size \in a.localMemSize .. a.localMemSize + 255
  <2>1. a.localMemSize \in LocalMemory
    BY DEF IsLaunch
  <2> QED
    BY <1>2, <2>1, LdsRounds
<1>8. s.ieee_mode \in 0 .. 1
  BY <1>1
<1>9. IsState(s)
  BY <1>1, <1>3, <1>4, <1>5, <1>6, <1>7, <1>8 DEF IsState
<1>10. Rounds(s, a)
  BY <1>5, <1>6, <1>7 DEF Rounds
<1> QED
  BY <1>9, <1>10 DEF s


StateAsked(job) == IF job.what = "launch" THEN LaunchState(job.asked) ELSE job.asked

\* The submission does what it is to do.
IsDispatched(job) ==
  job.what \in {"launch", "state"} =>
    /\ Len(job.buffers[1]) <= 1024
    /\ StartsAtLast(Packets(job.buffers[1]))
    /\ IsSet(Packets(job.buffers[1]), StateAsked(job))
    /\ job.what = "launch" => Rounds(StateAsked(job), job.asked)

\* The commands of such a state do what they are to do.
LEMMA StateIsDispatched ==
  ASSUME NEW job, NEW state, IsState(state), state = StateAsked(job),
         job.buffers = <<compute_emit_compute_state_manual_relocs(state)>>,
         job.what = "launch" => Rounds(state, job.asked)
  PROVE  IsDispatched(job)
<1> DEFINE buffer == compute_emit_compute_state_manual_relocs(state)
           packets == Packets(buffer)
<1>1. Len(buffer) <= 1024
  BY StreamOf
<1>2. PICK u \in 0 .. 1 : IsStream(packets, state, u)
  BY StreamOf
<1>3. StartsAtLast(packets)
  BY <1>2, StreamStarts
<1>4. IsSet(packets, state)
  BY <1>2, StateIsSet
<1>5. job.buffers[1] = buffer
  OBVIOUS
<1> HIDE DEF buffer
<1> QED
  BY <1>1, <1>3, <1>4, <1>5 DEF IsDispatched

\* Which is what the property says.
LEMMA DispatchedReadsBack ==
  ASSUME IsDispatched(submitted)
  PROVE  DispatchReadsBack
<1> DEFINE asked == submitted.asked
           state == IF submitted.what = "launch" THEN LaunchState(asked) ELSE asked
           buffer == submitted.buffers[1]
           packets == Packets(buffer)
           setters(reg) == {k \in DOMAIN packets : Sets(packets[k], reg)}
           value(reg) == ValueSet(packets[CHOOSE k \in setters(reg) : TRUE], reg)
           starts == {k \in setters(Register.COMPUTE_DISPATCH_INITIATOR) :
                        Get(COMPUTE_SHADER_EN, ValueSet(packets[k], Register.COMPUTE_DISPATCH_INITIATOR)) = 1}
           rsrc1(f) == Get(PGM_RSRC1[f], value(Register.COMPUTE_PGM_RSRC1))
           rsrc2(f) == Get(PGM_RSRC2[f], value(Register.COMPUTE_PGM_RSRC2))
           userData == [n \in DOMAIN state.user_data |-> value(Register.COMPUTE_USER_DATA_0 + 4 * (n - 1))]
<1> SUFFICES ASSUME submitted.what \in {"launch", "state"}
             PROVE  /\ Len(buffer) <= 1024
                    /\ \A k \in DOMAIN packets : packets[k].opcode \in {Opcodes.SET_SH_REG, Opcodes.SURFACE_SYNC}
                    /\ Cardinality(starts) = 1
                    /\ \A k \in starts :
                         /\ \E j \in 1 .. k - 1 : packets[j].opcode = Opcodes.SURFACE_SYNC
                         /\ \A j \in k + 1 .. Len(packets) : Sets(packets[j], Register.COMPUTE_DISPATCH_INITIATOR)
                    /\ \A d \in 1 .. 3 :
                         /\ Number(value(Register.COMPUTE_DIM[d])) = state.dim[d]
                         /\ Number(value(Register.COMPUTE_START[d])) = state.start[d]
                         /\ Get(NUM_THREAD_FULL, value(Register.COMPUTE_NUM_THREAD[d])) = state.num_thread[d]
                    /\ {b + 8 : b \in value(Register.COMPUTE_PGM_LO)}
                         \cup {b + 40 : b \in value(Register.COMPUTE_PGM_HI)} = VaBits(state.binary)
                    /\ userData = state.user_data /\ rsrc2("USER_SGPR") = Len(state.user_data)
                    /\ submitted.what = "state" => rsrc1("VGPRS") = state.vgpr_num /\ rsrc1("SGPRS") = state.sgpr_num
                    /\ submitted.what = "launch" =>
                         /\ asked.vgprnum > 0 => 4 * (rsrc1("VGPRS") + 1) \in asked.vgprnum .. asked.vgprnum + 3
                         /\ asked.sgprnum > 0 => 8 * (rsrc1("SGPRS") + 1) \in asked.sgprnum .. asked.sgprnum + 7
                         /\ 256 * rsrc2("LDS_SIZE") \in asked.localMemSize .. asked.localMemSize + 255
  BY DEF DispatchReadsBack
<1>1. /\ Len(buffer) <= 1024 /\ StartsAtLast(packets) /\ IsSet(packets, state)
      /\ submitted.what = "launch" => Rounds(state, asked)
  BY DEF IsDispatched, StateAsked
<1> HIDE DEF asked, state, buffer, packets
<1>2. starts = Starts(packets)
  BY DEF Starts, Setters
<1>3. \A reg : value(reg) = Value(packets, reg)
  BY DEF Value, Setters
<1>4. /\ \A k \in DOMAIN packets : packets[k].opcode \in {Opcodes.SET_SH_REG, Opcodes.SURFACE_SYNC}
      /\ Cardinality(starts) = 1
      /\ \A k \in starts :
           /\ \E j \in 1 .. k - 1 : packets[j].opcode = Opcodes.SURFACE_SYNC
           /\ \A j \in k + 1 .. Len(packets) : Sets(packets[j], Register.COMPUTE_DISPATCH_INITIATOR)
  <2> HIDE DEF starts
  <2> QED
    BY <1>1, <1>2 DEF StartsAtLast
<1> HIDE DEF setters, value
<1>5. \A d \in 1 .. 3 :
        /\ Number(value(Register.COMPUTE_DIM[d])) = state.dim[d]
        /\ Number(value(Register.COMPUTE_START[d])) = state.start[d]
        /\ Get(NUM_THREAD_FULL, value(Register.COMPUTE_NUM_THREAD[d])) = state.num_thread[d]
  BY <1>1, <1>3 DEF IsSet
<1>6. {b + 8 : b \in value(Register.COMPUTE_PGM_LO)}
        \cup {b + 40 : b \in value(Register.COMPUTE_PGM_HI)} = VaBits(state.binary)
  BY <1>1, <1>3 DEF IsSet
<1>7. userData = state.user_data
  BY <1>1, <1>3 DEF IsSet
<1>8. /\ rsrc1("VGPRS") = state.vgpr_num /\ rsrc1("SGPRS") = state.sgpr_num
      /\ rsrc2("USER_SGPR") = Len(state.user_data) /\ rsrc2("LDS_SIZE") = state.lds_size
  BY <1>1, <1>3 DEF IsSet
<1> HIDE DEF starts, userData, rsrc1, rsrc2
<1>9. submitted.what = "launch" =>
        /\ asked.vgprnum > 0 => 4 * (rsrc1("VGPRS") + 1) \in asked.vgprnum .. asked.vgprnum + 3
        /\ asked.sgprnum > 0 => 8 * (rsrc1("SGPRS") + 1) \in asked.sgprnum .. asked.sgprnum + 7
        /\ 256 * rsrc2("LDS_SIZE") \in asked.localMemSize .. asked.localMemSize + 255
  BY <1>1, <1>8 DEF Rounds
<1> QED
  BY <1>1, <1>4, <1>5, <1>6, <1>7, <1>8, <1>9

Dispatched == IsDispatched(submitted)

\* What a launch or a compute_state asks for is what the GPU reads, for all arguments that
\* ArgumentsFit allows: every register is set once and to its value, nothing of the grid, the
\* code address or the user data is cut off, the sizes are rounded up by less than a unit, the
\* start comes once, last and behind the flush, and nothing runs over the buffer.
THEOREM DispatchesReadBack == Spec => []DispatchReadsBack
<1>1. Init => Dispatched
  BY DEF Init, IsDispatched, Dispatched
<1>2. Dispatched /\ [Next]_vars => Dispatched'
  <2> SUFFICES ASSUME IsDispatched(submitted), [Next]_vars
               PROVE  IsDispatched(submitted')
    BY DEF Dispatched
  <2>1. CASE UNCHANGED submitted
    BY <2>1
  <2>2. CASE Launch
    <3>1. PICK a \in Launches : Submits("launch", a, <<compute_emit_compute_state_manual_relocs(LaunchState(a))>>)
      BY <2>2 DEF Launch
    <3> DEFINE s == LaunchState(a)
               job == [what |-> "launch", asked |-> a, buffers |-> <<compute_emit_compute_state_manual_relocs(s)>>]
    <3>2. submitted' = job
      BY <3>1 DEF Submits
    <3>3. IsState(s) /\ Rounds(s, a)
      BY ArgumentsFit, LaunchMakesState
    <3>4. /\ job.buffers = <<compute_emit_compute_state_manual_relocs(s)>>
          /\ job.asked = a /\ s = StateAsked(job)
      BY DEF StateAsked
    <3> HIDE DEF job, s
    <3>5. IsDispatched(job)
      BY <3>3, <3>4, StateIsDispatched
    <3> QED
      BY <3>2, <3>5
  <2>3. CASE compute_emit_compute_state
    <3>1. PICK s \in States : Submits("state", s, <<compute_emit_compute_state_manual_relocs(s)>>)
      BY <2>3 DEF compute_emit_compute_state
    <3> DEFINE job == [what |-> "state", asked |-> s, buffers |-> <<compute_emit_compute_state_manual_relocs(s)>>]
    <3>2. submitted' = job
      BY <3>1 DEF Submits
    <3>3. IsState(s)
      BY ArgumentsFit
    <3>4. /\ job.buffers = <<compute_emit_compute_state_manual_relocs(s)>>
          /\ job.what # "launch" /\ s = StateAsked(job)
      BY DEF StateAsked
    <3> HIDE DEF job
    <3>5. IsDispatched(job)
      BY <3>3, <3>4, StateIsDispatched
    <3> QED
      BY <3>2, <3>5
  <2>4. CASE CopyOnRing \/ FlushCaches
    <3>1. submitted'.what \in {"sync", "async", "flush"}
      BY <2>4 DEF CopyOnRing, FlushCaches, Submits
    <3> QED
      BY <3>1 DEF IsDispatched
  <2>5. UNCHANGED vars => UNCHANGED submitted
    BY DEF vars
  <2> QED
    BY <2>1, <2>2, <2>3, <2>4, <2>5, SubmittedKept DEF Next
<1>3. Dispatched => DispatchReadsBack
  BY DispatchedReadsBack DEF Dispatched
<1> QED
  BY <1>1, <1>2, <1>3, PTL DEF Spec
=============================================================================
