----------------------------- MODULE KeysProofs -----------------------------
(***************************************************************************)
(* Proofs about Keys, for strings and checksums of every length: which     *)
(* slips in a key the checksum cannot see, and what normalize_key and      *)
(* sanitize_key make of a string, character by character.                  *)
(*                                                                         *)
(* A recursive function reaches the provers as the CHOOSE of a solution of *)
(* its equation.  That one exists, and what its values are, is an          *)
(* induction, which NatInd makes about the set of numbers that have the    *)
(* property.                                                               *)
(***************************************************************************)
EXTENDS Keys, WellFoundedInduction, FiniteSetTheorems, TLAPS

-----------------------------------------------------------------------------
(* Induction and recursion *)

LEMMA NatInd ==
  ASSUME NEW S, 0 \in S, \A n \in Nat : n \in S => n + 1 \in S
  PROVE  Nat \subseteq S
<1>. DEFINE Out == Nat \ S
<1>1. SUFFICES ASSUME Out # {} PROVE FALSE
  OBVIOUS
<1>. HIDE DEF Out
<1>2. PICK x \in Out : \A y \in Out : ~ (<<y, x>> \in OpToRel(<, Nat))
  <2>1. Out \subseteq Nat
    BY DEF Out
  <2>. QED BY <1>1, <2>1, WFMin, NatLessThanWellFounded, Zenon
<1>3. \A y \in Out : ~(y < x)
  BY <1>2 DEF OpToRel, Out
<1>4. x # 0 /\ x - 1 \in Nat /\ x - 1 \notin Out
  BY <1>3 DEF Out
<1>. QED BY <1>4 DEF Out

\* f is what step makes of b in n steps.
Unrolls(f, n, T, b, step) ==
  f \in [0..n -> T] /\ f[0] = b /\ \A i \in 1..n : f[i] = step[i][f[i - 1]]

\* Every step function has such an f.
LEMMA Recursion ==
  ASSUME NEW n \in Nat, NEW T, NEW b \in T, NEW step \in [1..n -> [T -> T]]
  PROVE  \E f : Unrolls(f, n, T, b, step)
<1>. DEFINE S == { m \in Nat : m <= n => \E f : Unrolls(f, m, T, b, step) }
<1>1. 0 \in S
  <2>1. Unrolls([i \in 0..0 |-> b], 0, T, b, step)
    BY DEF Unrolls
  <2>. QED BY <2>1
<1>2. ASSUME NEW m \in Nat, NEW f, Unrolls(f, m, T, b, step), m + 1 <= n
      PROVE  \E g : Unrolls(g, m + 1, T, b, step)
  <2>. DEFINE g == [i \in 0..(m + 1) |-> IF i <= m THEN f[i] ELSE step[i][f[i - 1]]]
  <2>1. f[m] \in T /\ step[m + 1][f[m]] \in T
    BY <1>2 DEF Unrolls
  <2>2. g \in [0..(m + 1) -> T]
    BY <1>2, <2>1 DEF Unrolls
  <2>3. \A i \in 1..m : g[i] = step[i][g[i - 1]]
    BY <1>2 DEF Unrolls
  <2>4. g[m + 1] = step[m + 1][g[(m + 1) - 1]] /\ g[0] = b
    BY <1>2 DEF Unrolls
  <2>5. \A i \in 1..(m + 1) : i \in 1..m \/ i = m + 1
    OBVIOUS
  <2>. HIDE DEF g
  <2>6. \A i \in 1..(m + 1) : g[i] = step[i][g[i - 1]]
    BY <2>3, <2>4, <2>5
  <2>7. Unrolls(g, m + 1, T, b, step)
    BY <2>2, <2>4, <2>6 DEF Unrolls
  <2>. QED BY <2>7
<1>3. \A m \in Nat : m \in S => m + 1 \in S
  BY <1>2
<1>. HIDE DEF S
<1>4. n \in S
  BY <1>1, <1>3, NatInd
<1>. QED BY <1>4 DEF S

-----------------------------------------------------------------------------
(* The sum the checksum is made of *)

LEMMA IndexRange == \A c : alphabetIndex(c) \in -1..31
BY DEF alphabetIndex, Alphabet

Weighted(data, n) == alphabetIndex(data[n]) * (1 + (n % 2))

\* total[n] is the sum over the first n characters of data.
SumOf(data, total) ==
  /\ total \in [0..Len(data) -> Int]
  /\ total[0] = 0
  /\ \A n \in 1..Len(data) : total[n] = total[n - 1] + Weighted(data, n)

LEMMA WeightedInt == ASSUME NEW data, NEW n \in Nat PROVE Weighted(data, n) \in Int
<1>1. alphabetIndex(data[n]) \in Int
  BY IndexRange
<1>2. n % 2 \in {0, 1}
  OBVIOUS
<1>3. alphabetIndex(data[n]) * (1 + 0) \in Int /\ alphabetIndex(data[n]) * (1 + 1) \in Int
  BY <1>1
<1>. QED BY <1>2, <1>3 DEF Weighted

\* calculateChecksum turns the sum over the whole of data into characters.
LEMMA ChecksumIsSum ==
  ASSUME NEW S, NEW data \in Seq(S), NEW length
  PROVE  \E total : SumOf(data, total) /\ calculateChecksum(data, length) = ChecksumOf(total[Len(data)], length)
<1>. DEFINE m == Len(data)
            body(f) == [n \in 0..m |-> IF n = 0 THEN 0 ELSE f[n - 1] + Weighted(data, n)]
            total == CHOOSE f : f = body(f)
<1>0. m \in Nat
  OBVIOUS
<1>1. calculateChecksum(data, length) = ChecksumOf(total[Len(data)], length)
  BY DEF calculateChecksum, Weighted
<1>2. \E f : f = body(f)
  <2>. DEFINE step == [i \in 1..m |-> [x \in Int |-> x + Weighted(data, i)]]
  <2>1. step \in [1..m -> [Int -> Int]]
    BY WeightedInt
  <2>2. PICK f : Unrolls(f, m, Int, 0, step)
    <3>1. 0 \in Int
      OBVIOUS
    <3>. HIDE DEF step, m
    <3>. QED BY <1>0, <2>1, <3>1, Recursion
  <2>3. f \in [0..m -> Int] /\ f[0] = 0 /\ \A i \in 1..m : f[i] = f[i - 1] + Weighted(data, i)
    <3>1. f \in [0..m -> Int] /\ f[0] = 0 /\ \A i \in 1..m : f[i] = step[i][f[i - 1]]
      BY <2>2 DEF Unrolls
    <3>2. \A i \in 1..m, x \in Int : step[i][x] = x + Weighted(data, i)
      OBVIOUS
    <3>3. \A i \in 1..m : f[i - 1] \in Int
      BY <3>1
    <3>. HIDE DEF step
    <3>. QED BY <3>1, <3>2, <3>3
  <2>4. f = body(f)
    BY <2>3
  <2>. QED BY <2>4
<1>3. total = body(total)
  <2>. HIDE DEF body
  <2>. QED BY <1>2
<1>. HIDE DEF total
<1>4. total[0] = 0 /\ \A n \in 1..m : total[n] = total[n - 1] + Weighted(data, n)
  BY <1>3
<1>5. \A n \in 0..m : total[n] \in Int
  <2>. DEFINE U == { n \in Nat : n <= m => total[n] \in Int }
  <2>1. 0 \in U
    BY <1>4
  <2>2. \A n \in Nat : n \in U => n + 1 \in U
    BY <1>4, WeightedInt
  <2>. HIDE DEF U
  <2>3. Nat \subseteq U
    BY <2>1, <2>2, NatInd
  <2>. QED BY <2>3 DEF U
<1>6. SumOf(data, total)
  BY <1>3, <1>4, <1>5 DEF SumOf
<1>. QED BY <1>1, <1>6

\* d and e have the same characters at the places P.
Agree(d, e, P) == \A j \in P : d[j] = e[j]

\* Between two places where the strings agree everywhere the sums keep their distance.
LEMMA SameInBetween ==
  ASSUME NEW S, NEW d \in Seq(S), NEW e \in Seq(S), Len(d) = Len(e),
         NEW t, NEW u, SumOf(d, t), SumOf(e, u),
         NEW a \in 0..Len(d), NEW b \in a..Len(d), Agree(d, e, (a + 1)..b)
  PROVE  t[b] - u[b] = t[a] - u[a]
<1>. DEFINE m == Len(d)
            U == { n \in Nat : a <= n /\ n <= b => t[n] - u[n] = t[a] - u[a] }
<1>1. m \in Nat /\ a \in Nat /\ b \in Nat /\ a <= b /\ b <= m
  OBVIOUS
<1>2. \A n \in 0..m : t[n] \in Int /\ u[n] \in Int
  BY DEF SumOf
<1>3. \A n \in 1..m : t[n] = t[n - 1] + Weighted(d, n) /\ u[n] = u[n - 1] + Weighted(e, n)
  BY DEF SumOf
<1>4. 0 \in U
  BY <1>1
<1>5. ASSUME NEW n \in Nat, n \in U PROVE n + 1 \in U
  <2>1. SUFFICES ASSUME a <= n, n + 1 <= b PROVE t[n + 1] - u[n + 1] = t[a] - u[a]
    BY <1>1
  <2>2. Weighted(d, n + 1) = Weighted(e, n + 1)
    BY <1>1, <2>1 DEF Agree, Weighted
  <2>3. t[n + 1] = t[n] + Weighted(d, n + 1) /\ u[n + 1] = u[n] + Weighted(e, n + 1)
    BY <1>1, <1>3, <2>1
  <2>4. t[n] - u[n] = t[a] - u[a]
    BY <1>1, <1>5, <2>1
  <2>5. t[n] \in Int /\ u[n] \in Int /\ Weighted(d, n + 1) \in Int
    BY <1>1, <1>2, <2>1, WeightedInt
  <2>. QED BY <2>2, <2>3, <2>4, <2>5
<1>. HIDE DEF U
<1>6. b \in U
  BY <1>1, <1>4, <1>5, NatInd
<1>. QED BY <1>1, <1>6 DEF U

-----------------------------------------------------------------------------
(* The alphabet, and the characters of a checksum *)

LEMMA IndexInt == \A c : alphabetIndex(c) \in Int
BY IndexRange

LEMMA AlphabetInjective ==
  ASSUME NEW i \in 1..32, NEW j \in 1..32, Alphabet[i] = Alphabet[j]
  PROVE  i = j
BY DEF Alphabet

LEMMA AlphabetLength == Len(Alphabet) = 32 /\ DOMAIN Alphabet = 1..32
BY DEF Alphabet

\* A character is foreign to the alphabet or at the place its index says.
LEMMA IndexDef ==
  ASSUME NEW c
  PROVE  \/ alphabetIndex(c) = -1 /\ \A i \in 1..32 : Alphabet[i] # c
         \/ alphabetIndex(c) \in 0..31 /\ Alphabet[alphabetIndex(c) + 1] = c
<1>1. CASE \E i \in 1..32 : Alphabet[i] = c
  <2>. DEFINE k == CHOOSE i \in DOMAIN Alphabet : Alphabet[i] = c
  <2>1. k \in 1..32 /\ Alphabet[k] = c
    BY <1>1, AlphabetLength
  <2>2. alphabetIndex(c) = k - 1
    BY <1>1, AlphabetLength DEF alphabetIndex
  <2>. HIDE DEF k
  <2>3. k - 1 \in 0..31 /\ (k - 1) + 1 = k
    BY <2>1
  <2>. QED BY <2>1, <2>2, <2>3
<1>2. CASE ~ \E i \in 1..32 : Alphabet[i] = c
  BY <1>2, AlphabetLength DEF alphabetIndex
<1>. QED BY <1>1, <1>2

LEMMA ModDiff ==
  ASSUME NEW t \in Int, NEW u \in Int
  PROVE  /\ t % 32 = u % 32 <=> (t - u) % 32 = 0
         /\ t % 32 \in 0..31
OBVIOUS

\* The character k places into the checksum of a sum.
CheckChar(total, k) == Alphabet[((total + k * 31) % 32) + 1]

\* The same character at the same place of two checksums: sums that agree modulo 32.
LEMMA CheckCharTells ==
  ASSUME NEW t \in Int, NEW u \in Int, NEW k \in Nat, CheckChar(t, k) = CheckChar(u, k)
  PROVE  t % 32 = u % 32 /\ (t - u) % 32 = 0
<1>. DEFINE x == k * 31
<1>1. x \in Int /\ t + x \in Int /\ u + x \in Int
  OBVIOUS
<1>2. (t + x) % 32 \in 0..31 /\ (u + x) % 32 \in 0..31
  BY <1>1, ModDiff
<1>3. (t + x) % 32 = (u + x) % 32
  <2>1. ((t + x) % 32) + 1 = ((u + x) % 32) + 1
    BY <1>2, AlphabetInjective DEF CheckChar
  <2>. QED BY <1>2, <2>1
<1>. HIDE DEF x
<1>4. ((t + x) - (u + x)) % 32 = 0
  BY <1>1, <1>3, ModDiff
<1>5. (t + x) - (u + x) = t - u
  BY <1>1
<1>6. (t - u) % 32 = 0
  BY <1>4, <1>5
<1>. QED BY <1>6, ModDiff

LEMMA SmallMultiple ==
  /\ \A v \in -31..31 : v % 32 = 0 => v = 0
  /\ \A v \in -32..32 : (2 * v) % 32 = 0 => v % 16 = 0
OBVIOUS

\* What a valid key is: its data part has a sum, and each character of the rest is a
\* function of it.
Checked(key, n, length, total) ==
  /\ SumOf(SubSeq(key, 1, n), total)
  /\ \A k \in 0..(length - 1) : key[n + 1 + k] = CheckChar(total[n], k)

LEMMA ValidMeans ==
  ASSUME NEW S, NEW key \in Seq(S), NEW length \in Nat, validateKey(key, length)
  PROVE  /\ Len(key) - length \in Nat
         /\ \E total : Checked(key, Len(key) - length, length, total)
<1>. DEFINE n == Len(key) - length
            data == SubSeq(key, 1, n)
<1>1. n \in Nat /\ n <= Len(key) /\ Len(key) \in Nat
  BY DEF validateKey
<1>2. data \in Seq(S) /\ Len(data) = n
  BY <1>1
<1>3. calculateChecksum(data, length) = SubSeq(key, n + 1, Len(key))
  BY DEF validateKey
<1>. HIDE DEF data
<1>4. PICK total : SumOf(data, total) /\ calculateChecksum(data, length) = ChecksumOf(total[n], length)
  BY <1>2, ChecksumIsSum
<1>5. ASSUME NEW k \in 0..(length - 1)
      PROVE  key[n + 1 + k] = CheckChar(total[n], k)
  <2>1. k + 1 \in 1..length /\ (k + 1) - 1 = k /\ n + 1 + k = (n + 1) + (k + 1) - 1
    BY <1>1
  <2>2. SubSeq(key, n + 1, Len(key))[k + 1] = key[n + 1 + k]
    BY <1>1, <2>1
  <2>3. ChecksumOf(total[n], length)[k + 1] = Alphabet[((total[n] + ((k + 1) - 1) * 31) % Len(Alphabet)) + 1]
    BY <2>1 DEF ChecksumOf
  <2>. QED BY <1>3, <1>4, <2>1, <2>2, <2>3, AlphabetLength DEF CheckChar
<1>6. Checked(key, n, length, total)
  BY <1>4, <1>5 DEF Checked, data
<1>. QED BY <1>1, <1>6

\* The part before the checksum, character by character.
LEMMA DataPart ==
  ASSUME NEW S, NEW key \in Seq(S), NEW n \in 0..Len(key)
  PROVE  /\ SubSeq(key, 1, n) \in Seq(S) /\ Len(SubSeq(key, 1, n)) = n
         /\ \A j \in 1..n : SubSeq(key, 1, n)[j] = key[j]
OBVIOUS

-----------------------------------------------------------------------------
(* Slips *)

Foreign(c) == alphabetIndex(c) = -1

\* The sums of two strings that differ in one place.
LEMMA SubstitutedSum ==
  ASSUME NEW S, NEW d \in Seq(S), NEW e \in Seq(S), Len(d) = Len(e),
         NEW t, NEW u, SumOf(d, t), SumOf(e, u),
         NEW i \in 1..Len(d), Agree(d, e, (1..Len(d)) \ {i})
  PROVE  t[Len(d)] - u[Len(d)] = Weighted(d, i) - Weighted(e, i)
<1>. DEFINE m == Len(d)
<1>1. m \in Nat /\ i \in Nat /\ i - 1 \in 0..m /\ i \in 0..m /\ m \in i..m /\ i - 1 \in 0..(i - 1)
  OBVIOUS
<1>2. t[m] - u[m] = t[i] - u[i]
  <2>1. Agree(d, e, (i + 1)..m)
    BY <1>1 DEF Agree
  <2>. QED BY <1>1, <2>1, SameInBetween
<1>3. t[i - 1] - u[i - 1] = 0
  <2>1. Agree(d, e, (0 + 1)..(i - 1))
    BY <1>1 DEF Agree
  <2>2. t[i - 1] - u[i - 1] = t[0] - u[0]
    BY <1>1, <2>1, SameInBetween
  <2>. QED BY <2>2 DEF SumOf
<1>4. t[i] = t[i - 1] + Weighted(d, i) /\ u[i] = u[i - 1] + Weighted(e, i)
  BY DEF SumOf
<1>5. t[i - 1] \in Int /\ u[i - 1] \in Int /\ Weighted(d, i) \in Int /\ Weighted(e, i) \in Int
  BY <1>1, WeightedInt DEF SumOf
<1>. QED BY <1>2, <1>3, <1>4, <1>5

\* The difference that one replaced character makes to the sum.
LEMMA SubstitutedBy ==
  ASSUME NEW S, NEW d \in Seq(S), NEW e \in Seq(S), Len(d) = Len(e),
         NEW t, NEW u, SumOf(d, t), SumOf(e, u),
         NEW i \in 1..Len(d), Agree(d, e, (1..Len(d)) \ {i})
  PROVE  t[Len(d)] - u[Len(d)] = (alphabetIndex(d[i]) - alphabetIndex(e[i])) * (1 + (i % 2))
<1>1. t[Len(d)] - u[Len(d)] = Weighted(d, i) - Weighted(e, i)
  BY SubstitutedSum
<1>. DEFINE a == alphabetIndex(d[i])
            b == alphabetIndex(e[i])
<1>2. Weighted(d, i) = a * (1 + (i % 2)) /\ Weighted(e, i) = b * (1 + (i % 2))
  BY DEF Weighted
<1>3. a \in Int /\ b \in Int /\ i % 2 \in {0, 1}
  <2>1. a \in Int /\ b \in Int
    BY IndexInt
  <2>. QED BY <2>1
<1>. HIDE DEF a, b
<1>4. Weighted(d, i) - Weighted(e, i) = (a - b) * (1 + (i % 2))
  <2>1. CASE i % 2 = 0
    BY <1>2, <1>3, <2>1
  <2>2. CASE i % 2 = 1
    BY <1>2, <1>3, <2>2
  <2>. QED BY <1>3, <2>1, <2>2
<1>. QED BY <1>1, <1>4 DEF a, b

LEMMA CheckCharSame ==
  ASSUME NEW t \in Int, NEW u \in Int, NEW k \in Nat, (t - u) % 32 = 0
  PROVE  CheckChar(t, k) = CheckChar(u, k)
<1>. DEFINE x == k * 31
<1>1. x \in Int
  OBVIOUS
<1>. HIDE DEF x
<1>2. (t + x) - (u + x) = t - u /\ t + x \in Int /\ u + x \in Int
  BY <1>1
<1>3. (t + x) % 32 = (u + x) % 32
  BY <1>2, ModDiff
<1>. QED BY <1>3 DEF CheckChar, x

\* e is d with the characters at i and i + 1 swapped.
SwappedAt(d, e, i) ==
  /\ Len(d) = Len(e) /\ Agree(d, e, (1..Len(d)) \ {i, i + 1})
  /\ e[i] = d[i + 1] /\ e[i + 1] = d[i]

LEMMA SwappedSum ==
  ASSUME NEW S, NEW d \in Seq(S), NEW e \in Seq(S), NEW t, NEW u, SumOf(d, t), SumOf(e, u),
         NEW i \in 1..(Len(d) - 1), SwappedAt(d, e, i)
  PROVE  \/ t[Len(d)] - u[Len(d)] = alphabetIndex(d[i]) - alphabetIndex(d[i + 1])
         \/ t[Len(d)] - u[Len(d)] = alphabetIndex(d[i + 1]) - alphabetIndex(d[i])
<1>. DEFINE m == Len(d)
<1>1. m \in Nat /\ i \in Nat /\ i - 1 \in 0..m /\ i + 1 \in 0..m /\ m \in (i + 1)..m /\ i - 1 \in 0..(i - 1)
  OBVIOUS
<1>2. t[m] - u[m] = t[i + 1] - u[i + 1]
  <2>. DEFINE k == i + 1
  <2>1. Agree(d, e, (k + 1)..m) /\ k \in 0..m /\ m \in k..m
    BY <1>1 DEF Agree, SwappedAt
  <2>. HIDE DEF k
  <2>2. t[m] - u[m] = t[k] - u[k]
    BY <2>1, SameInBetween DEF SwappedAt
  <2>. QED BY <2>2 DEF k
<1>3. t[i - 1] - u[i - 1] = 0
  <2>1. Agree(d, e, (0 + 1)..(i - 1))
    BY <1>1 DEF Agree, SwappedAt
  <2>2. t[i - 1] - u[i - 1] = t[0] - u[0]
    BY <1>1, <2>1, SameInBetween DEF SwappedAt
  <2>. QED BY <2>2 DEF SumOf
<1>4. /\ t[i] = t[i - 1] + Weighted(d, i) /\ u[i] = u[i - 1] + Weighted(e, i)
      /\ t[i + 1] = t[i] + Weighted(d, i + 1) /\ u[i + 1] = u[i] + Weighted(e, i + 1)
  BY <1>1 DEF SumOf, SwappedAt
<1>. DEFINE x == t[i - 1]
<1>5. x \in Int /\ u[i - 1] = x
  <2>1. t[i - 1] \in Int /\ u[i - 1] \in Int
    BY <1>1 DEF SumOf, SwappedAt
  <2>. QED BY <1>3, <2>1
<1>. HIDE DEF x
<1>. DEFINE a == alphabetIndex(d[i])
            b == alphabetIndex(d[i + 1])
<1>6. a \in Int /\ b \in Int
  BY IndexInt
<1>7. /\ Weighted(d, i) = a * (1 + (i % 2)) /\ Weighted(e, i) = b * (1 + (i % 2))
      /\ Weighted(d, i + 1) = b * (1 + ((i + 1) % 2)) /\ Weighted(e, i + 1) = a * (1 + ((i + 1) % 2))
  BY DEF Weighted, SwappedAt
<1>8. (i % 2 = 1 /\ (i + 1) % 2 = 0) \/ (i % 2 = 0 /\ (i + 1) % 2 = 1)
  BY <1>1
<1>. HIDE DEF a, b
<1>9. CASE i % 2 = 1 /\ (i + 1) % 2 = 0
  <2>1. Weighted(d, i) = a + a /\ Weighted(e, i) = b + b /\ Weighted(d, i + 1) = b /\ Weighted(e, i + 1) = a
    BY <1>6, <1>7, <1>9
  <2>2. t[i + 1] = x + (a + a) + b /\ u[i + 1] = x + (b + b) + a
    BY <1>4, <1>5, <2>1 DEF x
  <2>3. t[i + 1] - u[i + 1] = a - b
    BY <1>5, <1>6, <2>2
  <2>. QED BY <1>2, <2>3 DEF a, b
<1>10. CASE i % 2 = 0 /\ (i + 1) % 2 = 1
  <2>1. Weighted(d, i) = a /\ Weighted(e, i) = b /\ Weighted(d, i + 1) = b + b /\ Weighted(e, i + 1) = a + a
    BY <1>6, <1>7, <1>10
  <2>2. t[i + 1] = x + a + (b + b) /\ u[i + 1] = x + b + (a + a)
    BY <1>4, <1>5, <2>1 DEF x
  <2>3. t[i + 1] - u[i + 1] = b - a
    BY <1>5, <1>6, <2>2
  <2>. QED BY <1>2, <2>3 DEF a, b
<1>. QED BY <1>8, <1>9, <1>10

\* One character of a valid key replaced by another: the result is valid only if the
\* two stand before the checksum and weigh the same modulo 32.
LEMMA SubstitutionSeen ==
  ASSUME NEW S, NEW key \in Seq(S), NEW slip \in Seq(S), NEW length \in Nat \ {0},
         validateKey(key, length), validateKey(slip, length), Len(slip) = Len(key),
         NEW i \in DOMAIN key, slip[i] # key[i], Agree(slip, key, DOMAIN key \ {i})
  PROVE  /\ i <= Len(key) - length
         /\ ((alphabetIndex(key[i]) - alphabetIndex(slip[i])) * (1 + (i % 2))) % 32 = 0
<1>. DEFINE n == Len(key) - length
            d == SubSeq(key, 1, n)
            e == SubSeq(slip, 1, n)
<1>1. /\ n \in Nat /\ n \in 0..Len(key) /\ n \in 0..Len(slip) /\ Len(key) = n + length
      /\ DOMAIN key = 1..(n + length) /\ i \in Nat /\ 1 <= i /\ i <= n + length
  BY ValidMeans
<1>2. PICK t : Checked(key, n, length, t)
  BY ValidMeans
<1>3. PICK u : Checked(slip, n, length, u)
  BY ValidMeans
<1>4. /\ d \in Seq(S) /\ Len(d) = n /\ \A j \in 1..n : d[j] = key[j]
      /\ e \in Seq(S) /\ Len(e) = n /\ \A j \in 1..n : e[j] = slip[j]
  BY <1>1, DataPart
<1>5. SumOf(d, t) /\ SumOf(e, u)
  BY <1>2, <1>3 DEF Checked
<1>. HIDE DEF n, d, e
<1>6. t[n] \in Int /\ u[n] \in Int
  BY <1>1, <1>4, <1>5 DEF SumOf
<1>7. i <= n
  <2>1. SUFFICES ASSUME i > n PROVE FALSE
    BY <1>1
  <2>2. Agree(d, e, 1..n)
    <3>1. \A j \in 1..n : j \in DOMAIN key \ {i}
      BY <1>1, <2>1
    <3>. QED BY <1>4, <3>1 DEF Agree
  <2>3. t[n] - u[n] = t[0] - u[0]
    <3>1. 0 \in 0..Len(d) /\ n \in 0..Len(d) /\ Agree(d, e, (0 + 1)..n)
      BY <1>1, <1>4, <2>2 DEF Agree
    <3>2. Len(d) = Len(e)
      BY <1>4
    <3>. QED BY <1>4, <1>5, <3>1, <3>2, SameInBetween
  <2>4. t[n] = u[n]
    BY <1>5, <1>6, <2>3 DEF SumOf
  <2>5. i - n - 1 \in 0..(length - 1) /\ n + 1 + (i - n - 1) = i
    BY <1>1, <2>1
  <2>. DEFINE k == i - n - 1
  <2>6. /\ key[n + 1 + k] = CheckChar(t[n], k)
        /\ slip[n + 1 + k] = CheckChar(u[n], k)
    BY <1>2, <1>3, <2>5 DEF Checked
  <2>. QED BY <2>4, <2>5, <2>6
<1>8. (t[n] - u[n]) % 32 = 0
  <2>. DEFINE k == 0
  <2>1. length \in Nat /\ k \in Nat /\ k \in 0..(length - 1) /\ n + 1 + k \in DOMAIN key \ {i}
    BY <1>1, <1>7
  <2>. HIDE DEF k
  <2>2. key[n + 1 + k] = slip[n + 1 + k]
    BY <2>1 DEF Agree
  <2>3. /\ key[n + 1 + k] = CheckChar(t[n], k)
        /\ slip[n + 1 + k] = CheckChar(u[n], k)
    BY <1>2, <1>3, <2>1 DEF Checked
  <2>4. CheckChar(t[n], k) = CheckChar(u[n], k)
    BY <2>2, <2>3
  <2>. QED BY <1>6, <2>1, <2>4, CheckCharTells
<1>9. t[n] - u[n] = (alphabetIndex(d[i]) - alphabetIndex(e[i])) * (1 + (i % 2))
  <2>1. i \in 1..Len(d) /\ Len(d) = Len(e) /\ Agree(d, e, (1..Len(d)) \ {i})
    <3>1. \A j \in (1..n) \ {i} : j \in DOMAIN key \ {i}
      BY <1>1, <1>7
    <3>2. Agree(d, e, (1..n) \ {i})
      BY <1>4, <3>1 DEF Agree
    <3>. QED BY <1>1, <1>4, <1>7, <3>2
  <2>2. t[Len(d)] - u[Len(d)] = (alphabetIndex(d[i]) - alphabetIndex(e[i])) * (1 + (i % 2))
    BY <1>4, <1>5, <2>1, SubstitutedBy
  <2>. QED BY <1>4, <2>2
<1>10. d[i] = key[i] /\ e[i] = slip[i]
  BY <1>1, <1>4, <1>7
<1>. QED BY <1>7, <1>8, <1>9, <1>10 DEF n

\* The other way round: of the slips in the data part it is exactly those that weigh the
\* same that pass for valid.
LEMMA SubstitutionUnseen ==
  ASSUME NEW S, NEW key \in Seq(S), NEW slip \in Seq(S), NEW length \in Nat \ {0},
         validateKey(key, length), Len(slip) = Len(key),
         NEW i \in DOMAIN key, Agree(slip, key, DOMAIN key \ {i}), i <= Len(key) - length,
         ((alphabetIndex(key[i]) - alphabetIndex(slip[i])) * (1 + (i % 2))) % 32 = 0
  PROVE  validateKey(slip, length)
<1>. DEFINE n == Len(key) - length
            d == SubSeq(key, 1, n)
            e == SubSeq(slip, 1, n)
<1>1. /\ n \in Nat /\ n \in 0..Len(key) /\ n \in 0..Len(slip) /\ Len(key) = n + length
      /\ DOMAIN key = 1..(n + length) /\ i \in Nat /\ 1 <= i /\ i <= n
  BY ValidMeans
<1>2. PICK t : Checked(key, n, length, t)
  BY ValidMeans
<1>3. /\ d \in Seq(S) /\ Len(d) = n /\ \A j \in 1..n : d[j] = key[j]
      /\ e \in Seq(S) /\ Len(e) = n /\ \A j \in 1..n : e[j] = slip[j]
  BY <1>1, DataPart
<1>4. validateKey(slip, length) <=> n >= 0 /\ calculateChecksum(e, length) = SubSeq(slip, n + 1, Len(slip))
  BY DEF validateKey
<1>5. SumOf(d, t)
  BY <1>2 DEF Checked
<1>. HIDE DEF n, d, e
<1>6. PICK u : SumOf(e, u) /\ calculateChecksum(e, length) = ChecksumOf(u[n], length)
  BY <1>3, ChecksumIsSum
<1>7. t[n] \in Int /\ u[n] \in Int
  BY <1>1, <1>3, <1>5, <1>6 DEF SumOf
<1>8. (t[n] - u[n]) % 32 = 0
  <2>1. \A j \in (1..n) \ {i} : j \in DOMAIN key \ {i}
    BY <1>1
  <2>2. Agree(d, e, (1..n) \ {i})
    BY <1>3, <2>1 DEF Agree
  <2>3. i \in 1..Len(d) /\ Len(d) = Len(e) /\ Agree(d, e, (1..Len(d)) \ {i})
    BY <1>1, <1>3, <2>2
  <2>4. t[Len(d)] - u[Len(d)] = (alphabetIndex(d[i]) - alphabetIndex(e[i])) * (1 + (i % 2))
    BY <1>3, <1>5, <1>6, <2>3, SubstitutedBy
  <2>5. d[i] = key[i] /\ e[i] = slip[i]
    BY <1>1, <1>3
  <2>. QED BY <1>3, <2>4, <2>5
<1>9. ASSUME NEW j \in 1..length
      PROVE  ChecksumOf(u[n], length)[j] = SubSeq(slip, n + 1, Len(slip))[j]
  <2>. DEFINE k == j - 1
  <2>1. k \in Nat /\ k \in 0..(length - 1) /\ n + 1 + k \in DOMAIN key \ {i} /\ n + 1 + k = n + j
    BY <1>1
  <2>2. SubSeq(slip, n + 1, Len(slip))[j] = slip[n + j]
    BY <1>1
  <2>3. ChecksumOf(u[n], length)[j] = CheckChar(u[n], k)
    BY AlphabetLength DEF ChecksumOf, CheckChar
  <2>. HIDE DEF k
  <2>4. slip[n + 1 + k] = key[n + 1 + k]
    BY <2>1 DEF Agree
  <2>5. key[n + 1 + k] = CheckChar(t[n], k)
    BY <1>2, <2>1 DEF Checked
  <2>6. CheckChar(t[n], k) = CheckChar(u[n], k)
    BY <1>7, <1>8, <2>1, CheckCharSame
  <2>. QED BY <2>1, <2>2, <2>3, <2>4, <2>5, <2>6
<1>. DEFINE p == ChecksumOf(u[n], length)
            q == SubSeq(slip, n + 1, Len(slip))
<1>10. p = [ j \in 1..length |-> p[j] ]
  BY DEF ChecksumOf
<1>11. q \in Seq(S) /\ Len(q) = length
  BY <1>1
<1>12. \A j \in 1..length : p[j] = q[j]
  BY <1>9
<1>. HIDE DEF p, q
<1>13. q = [ j \in 1..length |-> q[j] ]
  BY <1>11
<1>14. p = q
  BY <1>10, <1>12, <1>13
<1>. QED BY <1>1, <1>4, <1>6, <1>14 DEF p, q

\* key.py:20-40: one character of a valid key replaced by another gives a valid key
\* exactly when it stands before the checksum and the two weigh the same modulo 32.
THEOREM SubstitutionTold ==
  ASSUME NEW S, NEW key \in Seq(S), NEW slip \in Seq(S), NEW length \in Nat \ {0},
         validateKey(key, length), Len(slip) = Len(key),
         NEW i \in DOMAIN key, slip[i] # key[i], Agree(slip, key, DOMAIN key \ {i})
  PROVE  validateKey(slip, length) <=>
           /\ i <= Len(key) - length
           /\ ((alphabetIndex(key[i]) - alphabetIndex(slip[i])) * (1 + (i % 2))) % 32 = 0
BY SubstitutionSeen, SubstitutionUnseen

\* key.py:20-40: two different neighbours of a valid key that are both in the alphabet
\* are never swapped unseen.
THEOREM SwapSeen ==
  ASSUME NEW S, NEW key \in Seq(S), NEW slip \in Seq(S), NEW length \in Nat \ {0, 1},
         validateKey(key, length), validateKey(slip, length),
         NEW i \in 1..(Len(key) - 1), SwappedAt(key, slip, i),
         ~Foreign(key[i]), ~Foreign(key[i + 1])
  PROVE  key[i] = key[i + 1]
<1>. DEFINE n == Len(key) - length
            d == SubSeq(key, 1, n)
            e == SubSeq(slip, 1, n)
<1>0. /\ Len(slip) = Len(key) /\ slip[i] = key[i + 1] /\ slip[i + 1] = key[i]
      /\ Agree(key, slip, DOMAIN key \ {i, i + 1})
  <2>1. 1..Len(key) = DOMAIN key
    OBVIOUS
  <2>. QED BY <2>1 DEF SwappedAt
<1>1. /\ n \in Nat /\ n \in 0..Len(key) /\ n \in 0..Len(slip) /\ Len(key) = n + length
      /\ DOMAIN key = 1..(n + length) /\ i \in Nat /\ 1 <= i /\ i + 1 <= n + length
  BY <1>0, ValidMeans
<1>2. PICK t : Checked(key, n, length, t)
  BY ValidMeans
<1>3. PICK u : Checked(slip, n, length, u)
  BY <1>0, ValidMeans
<1>4. /\ d \in Seq(S) /\ Len(d) = n /\ \A j \in 1..n : d[j] = key[j]
      /\ e \in Seq(S) /\ Len(e) = n /\ \A j \in 1..n : e[j] = slip[j]
  BY <1>1, DataPart
<1>5. SumOf(d, t) /\ SumOf(e, u)
  BY <1>2, <1>3 DEF Checked
<1>. HIDE DEF n, d, e
<1>6. t[n] \in Int /\ u[n] \in Int
  BY <1>1, <1>4, <1>5 DEF SumOf
<1>7. \A k \in 0..(length - 1) :
        /\ key[n + 1 + k] = CheckChar(t[n], k)
        /\ slip[n + 1 + k] = CheckChar(u[n], k)
  BY <1>2, <1>3 DEF Checked
\* In the data part the two weights differ by one.
<1>8. CASE i + 1 <= n
  <2>1. (t[n] - u[n]) % 32 = 0
    <3>. DEFINE k == 0
    <3>1. k \in Nat /\ k \in 0..(length - 1) /\ n + 1 + k \in DOMAIN key \ {i, i + 1}
      BY <1>1, <1>8
    <3>. HIDE DEF k
    <3>2. key[n + 1 + k] = slip[n + 1 + k]
      BY <1>0, <3>1 DEF Agree
    <3>. QED BY <1>6, <1>7, <3>1, <3>2, CheckCharTells
  <2>2. Len(d) = Len(e) /\ Agree(d, e, (1..Len(d)) \ {i, i + 1})
    <3>1. \A j \in (1..n) \ {i, i + 1} : j \in DOMAIN key \ {i, i + 1}
      BY <1>1, <1>8
    <3>2. Agree(d, e, (1..n) \ {i, i + 1})
      BY <1>0, <1>4, <3>1 DEF Agree
    <3>. QED BY <1>4, <3>2
  <2>3. d[i] = key[i] /\ d[i + 1] = key[i + 1] /\ e[i] = d[i + 1] /\ e[i + 1] = d[i]
    <3>1. i \in 1..n /\ i + 1 \in 1..n
      BY <1>1, <1>8
    <3>. QED BY <1>0, <1>4, <3>1
  <2>. DEFINE a == alphabetIndex(key[i])
              b == alphabetIndex(key[i + 1])
  <2>4. t[n] - u[n] = a - b \/ t[n] - u[n] = b - a
    <3>1. \/ t[Len(d)] - u[Len(d)] = alphabetIndex(d[i]) - alphabetIndex(d[i + 1])
          \/ t[Len(d)] - u[Len(d)] = alphabetIndex(d[i + 1]) - alphabetIndex(d[i])
      <4>1. d \in Seq(S) /\ e \in Seq(S) /\ i \in 1..(Len(d) - 1)
        BY <1>1, <1>4, <1>8
      <4>2. SwappedAt(d, e, i)
        BY <2>2, <2>3 DEF SwappedAt
      <4>. QED BY <1>5, <4>1, <4>2, SwappedSum
    <3>. QED BY <1>4, <2>3, <3>1
  <2>5. a \in 0..31 /\ b \in 0..31 /\ Alphabet[a + 1] = key[i] /\ Alphabet[b + 1] = key[i + 1]
    BY IndexDef DEF Foreign
  <2>. HIDE DEF a, b
  <2>6. t[n] - u[n] \in -31..31
    <3>1. a \in 0..31 /\ b \in 0..31
      BY <2>5
    <3>2. a - b \in -31..31 /\ b - a \in -31..31
      BY <3>1
    <3>. QED BY <2>4, <3>2
  <2>7. t[n] - u[n] = 0
    BY <2>1, <2>6, SmallMultiple
  <2>8. a = b
    BY <2>4, <2>5, <2>7
  <2>. QED BY <2>5, <2>8
\* Across the boundary the next character of the checksum tells the sums apart.
<1>9. CASE i = n
  <2>. DEFINE k == 1
  <2>1. k \in Nat /\ k \in 0..(length - 1) /\ n + 1 + k \in DOMAIN key \ {i, i + 1}
    BY <1>1, <1>9
  <2>. HIDE DEF k
  <2>2. key[n + 1 + k] = slip[n + 1 + k]
    BY <1>0, <2>1 DEF Agree
  <2>3. CheckChar(t[n], k) = CheckChar(u[n], k)
    BY <1>7, <2>1, <2>2
  <2>4. t[n] % 32 = u[n] % 32
    BY <1>6, <2>1, <2>3, CheckCharTells
  <2>. DEFINE z == 0
  <2>5. z \in 0..(length - 1) /\ n + 1 + z = i + 1 /\ t[n] + z * 31 = t[n] /\ u[n] + z * 31 = u[n]
    BY <1>1, <1>6, <1>9
  <2>. HIDE DEF z
  <2>6. key[i + 1] = Alphabet[(t[n] % 32) + 1] /\ slip[i + 1] = Alphabet[(u[n] % 32) + 1]
    BY <1>7, <2>5 DEF CheckChar
  <2>. QED BY <1>0, <2>4, <2>6
\* In the checksum both are what the data part, which is the same, makes of them.
<1>10. CASE i > n
  <2>1. Agree(d, e, 1..n)
    <3>1. \A j \in 1..n : j \in DOMAIN key \ {i, i + 1}
      BY <1>1, <1>10
    <3>. QED BY <1>0, <1>4, <3>1 DEF Agree
  <2>2. t[n] - u[n] = t[0] - u[0]
    <3>1. 0 \in 0..Len(d) /\ n \in 0..Len(d) /\ Len(d) = Len(e) /\ Agree(d, e, (0 + 1)..n)
      BY <1>1, <1>4, <2>1
    <3>. QED BY <1>4, <1>5, <3>1, SameInBetween
  <2>3. t[n] = u[n]
    BY <1>5, <1>6, <2>2 DEF SumOf
  <2>. DEFINE k == i - n - 1
  <2>4. k \in 0..(length - 1) /\ n + 1 + k = i
    BY <1>1, <1>10
  <2>. HIDE DEF k
  <2>5. key[i] = slip[i]
    BY <1>7, <2>3, <2>4
  <2>. QED BY <1>0, <2>5
<1>. QED BY <1>1, <1>8, <1>9, <1>10

-----------------------------------------------------------------------------
(* Stripping a string of its hyphens and blanks. *)

Keep(x, c) == IF c \in Separators THEN x ELSE Append(x, c)

LEMMA KeepType ==
  ASSUME NEW S, NEW x \in Seq(S), NEW c \in S
  PROVE  Keep(x, c) \in Seq(S)
<1>1. Append(x, c) \in Seq(S)
  OBVIOUS
<1>. QED BY <1>1 DEF Keep

\* kept[n] is what is left of the first n characters.
KeptOf(raw, kept, S) ==
  /\ kept \in [0..Len(raw) -> Seq(S)]
  /\ kept[0] = <<>>
  /\ \A n \in 1..Len(raw) : kept[n] = Keep(kept[n - 1], raw[n])

\* strip returns the last of the strings kept on the way.
LEMMA StripIsKept ==
  ASSUME NEW S, NEW raw \in Seq(S)
  PROVE  \E kept : KeptOf(raw, kept, S) /\ strip(raw) = kept[Len(raw)]
<1>. DEFINE m == Len(raw)
            body(f) == [n \in 0..m |-> IF n = 0 THEN <<>> ELSE Keep(f[n - 1], raw[n])]
            kept == CHOOSE f : f = body(f)
            T == Seq(S)
<1>0. m \in Nat /\ (\A n \in 1..m : raw[n] \in S) /\ <<>> \in T
  OBVIOUS
<1>1. strip(raw) = kept[m]
  BY DEF strip, Keep
<1>2. \A x \in T, n \in 1..m : Keep(x, raw[n]) \in T
  BY <1>0, KeepType
<1>. HIDE DEF m, T
<1>3. \E f : f = body(f)
  <2>. DEFINE step == [i \in 1..m |-> [x \in T |-> Keep(x, raw[i])]]
  <2>1. step \in [1..m -> [T -> T]]
    BY <1>2
  <2>2. PICK f : Unrolls(f, m, T, <<>>, step)
    <3>. HIDE DEF step
    <3>. QED BY <1>0, <2>1, Recursion
  <2>3. f \in [0..m -> T] /\ f[0] = <<>> /\ \A i \in 1..m : f[i] = step[i][f[i - 1]]
    BY <2>2 DEF Unrolls
  <2>4. \A i \in 1..m, x \in T : step[i][x] = Keep(x, raw[i])
    OBVIOUS
  <2>5. \A i \in 1..m : f[i - 1] \in T
    BY <1>0, <2>3
  <2>. HIDE DEF step
  <2>6. \A i \in 1..m : f[i] = Keep(f[i - 1], raw[i])
    BY <2>3, <2>4, <2>5
  <2>7. f = body(f)
    BY <1>0, <2>3, <2>6
  <2>. QED BY <2>7
<1>4. kept = body(kept)
  <2>. HIDE DEF body
  <2>. QED BY <1>3
<1>. HIDE DEF kept
<1>5. kept[0] = <<>> /\ \A n \in 1..m : kept[n] = Keep(kept[n - 1], raw[n])
  BY <1>0, <1>4
<1>6. \A n \in 0..m : kept[n] \in T
  <2>. DEFINE U == { n \in Nat : n <= m => kept[n] \in T }
  <2>1. 0 \in U
    BY <1>0, <1>5
  <2>2. ASSUME NEW n \in Nat, n \in U PROVE n + 1 \in U
    <3>1. SUFFICES ASSUME n + 1 <= m PROVE kept[n + 1] \in T
      OBVIOUS
    <3>2. n + 1 \in 1..m /\ (n + 1) - 1 = n /\ kept[n] \in T
      BY <1>0, <2>2, <3>1
    <3>3. kept[n + 1] = Keep(kept[n], raw[n + 1])
      BY <1>5, <3>2
    <3>. QED BY <1>2, <3>2, <3>3
  <2>. HIDE DEF U
  <2>3. Nat \subseteq U
    BY <2>1, <2>2, NatInd
  <2>. QED BY <1>0, <2>3 DEF U
<1>7. KeptOf(raw, kept, S)
  BY <1>4, <1>5, <1>6 DEF KeptOf, m, T
<1>. QED BY <1>1, <1>7 DEF m

\* The places up to n that hold no separator.
Marks(s, n) == { i \in 1..n : s[i] \notin Separators }
Rank(s, i)  == Cardinality(Marks(s, i))

\* p holds what is in the places up to n, one after the other.
Spread(s, n, p) ==
  /\ Len(p) = Rank(s, n)
  /\ \A i \in Marks(s, n) : Rank(s, i) \in 1..Len(p) /\ p[Rank(s, i)] = s[i]
  /\ \A k \in 1..Len(p) : \E i \in Marks(s, n) : Rank(s, i) = k

\* One more character: one more mark, unless it is a separator.
LEMMA MarksGrow ==
  ASSUME NEW s, NEW n \in Nat
  PROVE  /\ IsFiniteSet(Marks(s, n)) /\ Rank(s, n) \in Nat
         /\ s[n + 1] \in Separators => Marks(s, n + 1) = Marks(s, n)
         /\ s[n + 1] \notin Separators =>
              Marks(s, n + 1) = Marks(s, n) \cup {n + 1} /\ Rank(s, n + 1) = Rank(s, n) + 1
         /\ Marks(s, 0) = {} /\ Rank(s, 0) = 0
<1>1. IsFiniteSet(Marks(s, n))
  <2>1. IsFiniteSet(1..n) /\ Marks(s, n) \subseteq 1..n
    BY FS_Interval DEF Marks
  <2>. QED BY <2>1, FS_Subset
<1>2. Rank(s, n) \in Nat
  BY <1>1, FS_CardinalityType DEF Rank
<1>3. s[n + 1] \in Separators => Marks(s, n + 1) = Marks(s, n)
  BY DEF Marks
<1>4. ASSUME s[n + 1] \notin Separators
      PROVE  Marks(s, n + 1) = Marks(s, n) \cup {n + 1} /\ n + 1 \notin Marks(s, n)
  BY <1>4 DEF Marks
<1>5. s[n + 1] \notin Separators => Rank(s, n + 1) = Rank(s, n) + 1
  BY <1>1, <1>4, FS_AddElement DEF Rank
<1>6. Marks(s, 0) = {} /\ Rank(s, 0) = 0
  BY FS_EmptySet DEF Marks, Rank
<1>. QED BY <1>1, <1>2, <1>3, <1>4, <1>5, <1>6

\* strip(s) is what s holds between its separators, in that order.
LEMMA StripSpreads ==
  ASSUME NEW S, NEW s \in Seq(S)
  PROVE  strip(s) \in Seq(S) /\ Spread(s, Len(s), strip(s))
<1>1. PICK kept : KeptOf(s, kept, S) /\ strip(s) = kept[Len(s)]
  BY StripIsKept
<1>. DEFINE m == Len(s)
<1>2. /\ m \in Nat /\ kept[0] = <<>> /\ \A n \in 0..m : kept[n] \in Seq(S)
      /\ \A n \in 1..m : kept[n] = Keep(kept[n - 1], s[n])
      /\ \A n \in 1..m : s[n] \in S
  <2>1. m \in Nat /\ \A n \in 1..m : s[n] \in S
    OBVIOUS
  <2>. QED BY <1>1, <2>1 DEF KeptOf
<1>. HIDE DEF m
<1>. DEFINE U == { n \in Nat : n <= m => Spread(s, n, kept[n]) }
<1>3. 0 \in U
  <2>1. Marks(s, 0) = {} /\ Rank(s, 0) = 0
    BY MarksGrow
  <2>2. Len(<<>>) = 0 /\ 1..0 = {}
    OBVIOUS
  <2>3. Spread(s, 0, <<>>)
    BY <2>1, <2>2 DEF Spread
  <2>. QED BY <1>2, <2>3
<1>4. ASSUME NEW n \in Nat, n \in U PROVE n + 1 \in U
  <2>1. SUFFICES ASSUME n + 1 <= m PROVE Spread(s, n + 1, kept[n + 1])
    OBVIOUS
  <2>. DEFINE p == kept[n]
              q == kept[n + 1]
  <2>2. n + 1 \in 1..m /\ n \in 0..m /\ (n + 1) - 1 = n
    BY <1>2, <2>1
  <2>3. p \in Seq(S) /\ q = (IF s[n + 1] \in Separators THEN p ELSE Append(p, s[n + 1]))
    BY <1>2, <2>2 DEF Keep
  <2>4. Spread(s, n, p)
    BY <1>2, <1>4, <2>1
  <2>5. s[n + 1] \in S
    BY <1>2, <2>2
  <2>. HIDE DEF p, q
  <2>6. CASE s[n + 1] \in Separators
    BY <2>3, <2>4, <2>6, MarksGrow DEF Spread, Rank, q
  <2>7. CASE s[n + 1] \notin Separators
    <3>1. q = Append(p, s[n + 1]) /\ Len(q) = Len(p) + 1 /\ q[Len(p) + 1] = s[n + 1]
          /\ \A k \in 1..Len(p) : q[k] = p[k]
      BY <2>3, <2>5, <2>7
    <3>2. Marks(s, n + 1) = Marks(s, n) \cup {n + 1} /\ Rank(s, n + 1) = Rank(s, n) + 1
      BY <2>7, MarksGrow
    <3>3. Len(p) \in Nat /\ Len(p) = Rank(s, n)
      BY <2>3, <2>4 DEF Spread
    <3>4. \A i \in Marks(s, n + 1) : Rank(s, i) \in 1..Len(q) /\ q[Rank(s, i)] = s[i]
      <4>1. ASSUME NEW i \in Marks(s, n) PROVE Rank(s, i) \in 1..Len(q) /\ q[Rank(s, i)] = s[i]
        <5>1. Rank(s, i) \in 1..Len(p) /\ p[Rank(s, i)] = s[i]
          BY <2>4 DEF Spread
        <5>. QED BY <3>1, <3>3, <5>1
      <4>2. Rank(s, n + 1) \in 1..Len(q) /\ q[Rank(s, n + 1)] = s[n + 1]
        BY <3>1, <3>2, <3>3
      <4>. QED BY <3>2, <4>1, <4>2
    <3>5. ASSUME NEW k \in 1..Len(q) PROVE \E i \in Marks(s, n + 1) : Rank(s, i) = k
      <4>1. CASE k \in 1..Len(p)
        BY <2>4, <3>2, <4>1 DEF Spread
      <4>2. CASE k = Len(p) + 1
        BY <3>2, <3>3, <4>2
      <4>. QED BY <3>1, <3>3, <4>1, <4>2
    <3>. QED BY <3>1, <3>2, <3>3, <3>4, <3>5 DEF Spread, q
  <2>. QED BY <2>6, <2>7
<1>. HIDE DEF U
<1>5. m \in U
  BY <1>2, <1>3, <1>4, NatInd
<1>6. Spread(s, m, kept[m]) /\ kept[m] \in Seq(S)
  BY <1>2, <1>5 DEF U
<1>. QED BY <1>1, <1>6 DEF m

-----------------------------------------------------------------------------
(* Spellings *)

\* The characters.  The union is STRING itself, but for the provers no literal is in it.
Chars == STRING \cup { UpperCase[i] : i \in 1..26 } \cup {"0", "1"}

\* No letter is there twice, and none is a separator.
LEMMA LettersApart ==
  ASSUME NEW i \in 1..26, NEW j \in 1..26
  PROVE  /\ LowerCase[i] = LowerCase[j] => i = j
         /\ UpperCase[i] = UpperCase[j] => i = j
         /\ LowerCase[i] # UpperCase[j]
<1>1. LowerCase[i] = LowerCase[j] => i = j
  BY DEF LowerCase
<1>2. UpperCase[i] = UpperCase[j] => i = j
  BY DEF UpperCase
<1>3. LowerCase[i] # UpperCase[j]
  BY DEF LowerCase, UpperCase
<1>. QED BY <1>1, <1>2, <1>3

LEMMA LettersNoMarks ==
  ASSUME NEW i \in 1..26
  PROVE  LowerCase[i] \notin Separators /\ UpperCase[i] \notin Separators
<1>1. LowerCase[i] \in { "a", "b", "c", "d", "e", "f", "g", "h", "i", "j", "k", "l", "m",
                         "n", "o", "p", "q", "r", "s", "t", "u", "v", "w", "x", "y", "z" }
  BY DEF LowerCase
<1>2. UpperCase[i] \in { "A", "B", "C", "D", "E", "F", "G", "H", "I", "J", "K", "L", "M",
                         "N", "O", "P", "Q", "R", "S", "T", "U", "V", "W", "X", "Y", "Z" }
  BY DEF UpperCase
<1>3. LowerCase[i] # "-" /\ LowerCase[i] # " "
  BY <1>1
<1>4. UpperCase[i] # "-" /\ UpperCase[i] # " "
  BY <1>2
<1>. QED BY <1>3, <1>4 DEF Separators

\* A small letter becomes its capital; anything else stays.
LEMMA UpperIs ==
  ASSUME NEW c
  PROVE  \/ \E i \in 1..26 : c = LowerCase[i] /\ Upper(c) = UpperCase[i]
         \/ (\A i \in 1..26 : c # LowerCase[i]) /\ Upper(c) = c
<1>0. DOMAIN LowerCase = 1..26
  BY DEF LowerCase
<1>1. CASE \E i \in 1..26 : LowerCase[i] = c
  <2>. DEFINE k == CHOOSE i \in DOMAIN LowerCase : LowerCase[i] = c
  <2>1. k \in 1..26 /\ LowerCase[k] = c
    BY <1>0, <1>1
  <2>2. Upper(c) = UpperCase[k]
    BY <1>0, <1>1 DEF Upper
  <2>. HIDE DEF k
  <2>. QED BY <2>1, <2>2
<1>2. CASE ~ \E i \in 1..26 : LowerCase[i] = c
  BY <1>0, <1>2 DEF Upper
<1>. QED BY <1>1, <1>2

LEMMA UpperOf ==
  ASSUME NEW i \in 1..26
  PROVE  Upper(LowerCase[i]) = UpperCase[i]
<1>1. PICK j \in 1..26 : LowerCase[i] = LowerCase[j] /\ Upper(LowerCase[i]) = UpperCase[j]
  BY UpperIs
<1>. QED BY <1>1, LettersApart

\* No letter becomes a separator, and no separator a letter.
LEMMA LettersKept ==
  ASSUME NEW c \in Chars
  PROVE  /\ Upper(c) \in Chars /\ Fold(c) \in Chars
         /\ Upper(c) \in Separators <=> c \in Separators
         /\ Fold(c) \in Separators <=> c \in Separators
<1>1. \/ \E i \in 1..26 : c = LowerCase[i] /\ Upper(c) = UpperCase[i]
      \/ Upper(c) = c
  BY UpperIs
<1>2. Fold(c) = c \/ (c \in {"O", "I", "L"} /\ Fold(c) \in {"0", "1"})
  BY DEF Fold
<1>3. \A i \in 1..26 : UpperCase[i] \in Chars
  BY DEF Chars
<1>4. \A d \in {"0", "1"} : d \in Chars /\ d \notin Separators
  BY DEF Chars, Separators
<1>5. \A d \in {"O", "I", "L"} : d \notin Separators
  BY DEF Separators
<1>6. Upper(c) \in Chars /\ (Upper(c) \in Separators <=> c \in Separators)
  BY <1>1, <1>3, LettersNoMarks
<1>7. Fold(c) \in Chars /\ (Fold(c) \in Separators <=> c \in Separators)
  BY <1>2, <1>4, <1>5
<1>. QED BY <1>6, <1>7

\* Separators stay separators, and nothing else becomes one.
SameMarks(s, r) == Len(s) = Len(r) /\ \A i \in 1..Len(s) : s[i] \in Separators <=> r[i] \in Separators

LEMMA MarksSame ==
  ASSUME NEW S, NEW s \in Seq(S), NEW r \in Seq(S), SameMarks(s, r)
  PROVE  \A n \in 0..Len(s) : Marks(s, n) = Marks(r, n) /\ Rank(s, n) = Rank(r, n)
<1>1. Len(s) \in Nat /\ \A i \in 1..Len(s) : s[i] \in Separators <=> r[i] \in Separators
  BY DEF SameMarks
<1>. SUFFICES ASSUME NEW n \in 0..Len(s) PROVE Marks(s, n) = Marks(r, n)
  BY DEF Rank
<1>. QED BY <1>1 DEF Marks

\* q is spelled by s: character by character what s has between its separators.
Spells(s, q) ==
  /\ Rank(s, Len(s)) = Len(q)
  /\ \A i \in Marks(s, Len(s)) : s[i] = q[Rank(s, i)]

\* What is spread over s is the one string that s spells.
LEMMA SpreadSpells ==
  ASSUME NEW S, NEW s \in Seq(S), NEW p \in Seq(S), NEW q \in Seq(S), Spread(s, Len(s), p)
  PROVE  p = q <=> Spells(s, q)
<1>1. p = q => Spells(s, q)
  BY DEF Spread, Spells
<1>2. ASSUME Spells(s, q) PROVE p = q
  <2>1. Len(p) = Len(q)
    BY <1>2 DEF Spread, Spells
  <2>2. ASSUME NEW k \in 1..Len(p) PROVE p[k] = q[k]
    <3>1. PICK i \in Marks(s, Len(s)) : Rank(s, i) = k
      BY DEF Spread
    <3>2. p[k] = s[i]
      BY <3>1 DEF Spread
    <3>3. s[i] = q[k]
      BY <1>2, <3>1 DEF Spells
    <3>. QED BY <3>2, <3>3
  <2>. QED BY <2>1, <2>2
<1>. QED BY <1>1, <1>2

Uppered(raw) == [ i \in DOMAIN raw |-> Upper(raw[i]) ]
Folded(raw)  == [ i \in DOMAIN raw |-> Fold(raw[i]) ]

LEMMA UpperedType ==
  ASSUME NEW raw \in Seq(Chars)
  PROVE  Uppered(raw) \in Seq(Chars) /\ SameMarks(Uppered(raw), raw)
         /\ Len(Uppered(raw)) = Len(raw) /\ \A i \in 1..Len(raw) : Uppered(raw)[i] = Upper(raw[i])
<1>. DEFINE s == Uppered(raw)
<1>1. Len(raw) \in Nat /\ DOMAIN raw = 1..Len(raw) /\ \A i \in 1..Len(raw) : raw[i] \in Chars
  OBVIOUS
<1>2. s = [ i \in 1..Len(raw) |-> Upper(raw[i]) ] /\ \A i \in 1..Len(raw) : Upper(raw[i]) \in Chars
  BY <1>1, LettersKept DEF Uppered
<1>3. s \in Seq(Chars) /\ Len(s) = Len(raw)
  BY <1>1, <1>2
<1>. QED BY <1>1, <1>2, <1>3, LettersKept DEF SameMarks

LEMMA FoldedType ==
  ASSUME NEW raw \in Seq(Chars)
  PROVE  Folded(raw) \in Seq(Chars) /\ SameMarks(Folded(raw), raw)
         /\ Len(Folded(raw)) = Len(raw) /\ \A i \in 1..Len(raw) : Folded(raw)[i] = Fold(raw[i])
<1>. DEFINE s == Folded(raw)
<1>1. Len(raw) \in Nat /\ DOMAIN raw = 1..Len(raw) /\ \A i \in 1..Len(raw) : raw[i] \in Chars
  OBVIOUS
<1>2. s = [ i \in 1..Len(raw) |-> Fold(raw[i]) ] /\ \A i \in 1..Len(raw) : Fold(raw[i]) \in Chars
  BY <1>1, LettersKept DEF Folded
<1>3. s \in Seq(Chars) /\ Len(s) = Len(raw)
  BY <1>1, <1>2
<1>. QED BY <1>1, <1>2, <1>3, LettersKept DEF SameMarks

\* Folding what is left after stripping is stripping what is folded.
LEMMA SpreadFolded ==
  ASSUME NEW s \in Seq(Chars), NEW p \in Seq(Chars), Spread(s, Len(s), p)
  PROVE  Spread(Folded(s), Len(s), Folded(p))
<1>1. /\ Len(Folded(s)) = Len(s) /\ \A i \in 1..Len(s) : Folded(s)[i] = Fold(s[i])
      /\ Len(Folded(p)) = Len(p) /\ \A k \in 1..Len(p) : Folded(p)[k] = Fold(p[k])
      /\ Len(s) \in Nat /\ Len(p) \in Nat
  BY FoldedType
<1>2. \A n \in 0..Len(s) : Marks(Folded(s), n) = Marks(s, n) /\ Rank(Folded(s), n) = Rank(s, n)
  BY <1>1, FoldedType, MarksSame
<1>3. Marks(s, Len(s)) \subseteq 1..Len(s) /\ Len(s) \in 0..Len(s)
  BY <1>1 DEF Marks
<1>4. Len(Folded(p)) = Rank(Folded(s), Len(s))
  BY <1>1, <1>2, <1>3 DEF Spread
<1>5. ASSUME NEW i \in Marks(Folded(s), Len(s))
      PROVE  /\ Rank(Folded(s), i) \in 1..Len(Folded(p))
             /\ Folded(p)[Rank(Folded(s), i)] = Folded(s)[i]
  <2>1. i \in Marks(s, Len(s)) /\ i \in 1..Len(s) /\ Rank(Folded(s), i) = Rank(s, i)
    BY <1>2, <1>3
  <2>2. Rank(s, i) \in 1..Len(p) /\ p[Rank(s, i)] = s[i]
    BY <2>1 DEF Spread
  <2>. QED BY <1>1, <2>1, <2>2
<1>6. ASSUME NEW k \in 1..Len(Folded(p))
      PROVE  \E i \in Marks(Folded(s), Len(s)) : Rank(Folded(s), i) = k
  <2>1. PICK i \in Marks(s, Len(s)) : Rank(s, i) = k
    BY <1>1 DEF Spread
  <2>. QED BY <1>2, <1>3, <2>1
<1>. QED BY <1>4, <1>5, <1>6 DEF Spread

\* key.py:60: a key is what normalize_key makes of raw exactly when the characters of
\* raw that are no separators become those of the key, one by one.
THEOREM NormalizedIs ==
  ASSUME NEW raw \in Seq(Chars), NEW q \in Seq(Chars)
  PROVE  normalizeKey(raw) = q <=>
           /\ Rank(raw, Len(raw)) = Len(q)
           /\ \A i \in Marks(raw, Len(raw)) : Upper(raw[i]) = q[Rank(raw, i)]
<1>. DEFINE s == Uppered(raw)
<1>1. /\ s \in Seq(Chars) /\ SameMarks(s, raw) /\ Len(s) = Len(raw)
      /\ \A i \in 1..Len(raw) : s[i] = Upper(raw[i])
  BY UpperedType
<1>2. normalizeKey(raw) = strip(s)
  BY DEF normalizeKey, Uppered
<1>. HIDE DEF s
<1>3. strip(s) \in Seq(Chars) /\ Spread(s, Len(s), strip(s))
  BY <1>1, StripSpreads
<1>4. strip(s) = q <=> Spells(s, q)
  BY <1>1, <1>3, SpreadSpells
<1>5. \A n \in 0..Len(raw) : Marks(s, n) = Marks(raw, n) /\ Rank(s, n) = Rank(raw, n)
  BY <1>1, MarksSame
<1>6. Marks(raw, Len(raw)) \subseteq 1..Len(raw) /\ Len(raw) \in 0..Len(raw)
  BY DEF Marks
<1>. QED BY <1>1, <1>2, <1>4, <1>5, <1>6 DEF Spells

\* key.py:46: the same of sanitize_key, which folds look-alikes as well.
THEOREM SanitizedIs ==
  ASSUME NEW raw \in Seq(Chars), NEW q \in Seq(Chars)
  PROVE  sanitizeKey(raw) = q <=>
           /\ Rank(raw, Len(raw)) = Len(q)
           /\ \A i \in Marks(raw, Len(raw)) : Fold(Upper(raw[i])) = q[Rank(raw, i)]
<1>. DEFINE s == Uppered(raw)
            p == strip(s)
            f == Folded(s)
<1>1. /\ s \in Seq(Chars) /\ SameMarks(s, raw) /\ Len(s) = Len(raw)
      /\ \A i \in 1..Len(raw) : s[i] = Upper(raw[i])
  BY UpperedType
<1>2. sanitizeKey(raw) = Folded(p)
  BY DEF sanitizeKey, normalizeKey, Uppered, Folded
<1>. HIDE DEF s
<1>3. p \in Seq(Chars) /\ Spread(s, Len(s), p)
  BY <1>1, StripSpreads
<1>. HIDE DEF p
<1>4. /\ f \in Seq(Chars) /\ SameMarks(f, s) /\ Len(f) = Len(s)
      /\ \A i \in 1..Len(s) : f[i] = Fold(s[i])
      /\ Folded(p) \in Seq(Chars)
  BY <1>1, <1>3, FoldedType
<1>5. Spread(f, Len(f), Folded(p))
  BY <1>1, <1>3, <1>4, SpreadFolded
<1>. HIDE DEF f
<1>6. Folded(p) = q <=> Spells(f, q)
  BY <1>4, <1>5, SpreadSpells
<1>7. \A n \in 0..Len(raw) : Marks(s, n) = Marks(raw, n) /\ Rank(s, n) = Rank(raw, n)
  BY <1>1, MarksSame
<1>8. \A n \in 0..Len(raw) : Marks(f, n) = Marks(s, n) /\ Rank(f, n) = Rank(s, n)
  BY <1>1, <1>4, MarksSame
<1>9. Marks(raw, Len(raw)) \subseteq 1..Len(raw) /\ Len(raw) \in 0..Len(raw)
  BY DEF Marks
<1>10. \A i \in 1..Len(raw) : f[i] = Fold(Upper(raw[i]))
  BY <1>1, <1>4
<1>. QED BY <1>1, <1>2, <1>4, <1>6, <1>7, <1>8, <1>9, <1>10 DEF Spells

LEMMA StringsAreChars == Seq(STRING) \subseteq Seq(Chars)
<1>1. ASSUME NEW s \in Seq(STRING) PROVE s \in Seq(Chars)
  <2>0. STRING \subseteq Chars
    BY Zenon DEF Chars
  <2>1. \A i \in 1..Len(s) : s[i] \in Chars
    <3>1. \A i \in 1..Len(s) : s[i] \in STRING
      OBVIOUS
    <3>. QED BY <2>0, <3>1
  <2>2. s = [ i \in 1..Len(s) |-> s[i] ] /\ Len(s) \in Nat
    OBVIOUS
  <2>. QED BY <2>1, <2>2
<1>. QED BY <1>1
=============================================================================
