------------------------- MODULE InstructionsProofs -------------------------
(***************************************************************************)
(* The instructions of the hart compute what the instruction set defines,  *)
(* for every width of a register, and every word is decoded, encoded and   *)
(* logged as the formats say.                                              *)
(***************************************************************************)
EXTENDS Instructions, FiniteSetTheorems, WellFoundedInduction, TLAPS

-----------------------------------------------------------------------------
(* Induction, for a set of natural numbers.                                *)

\* A set of natural numbers has a least element.
LEMMA Least ==
  ASSUME NEW T \in SUBSET Nat, T # {}
  PROVE  \E m \in T : \A n \in T : m <= n
<1>1. PICK R : R = {ss \in Nat \X Nat : ss[1] < ss[2]}
  OBVIOUS
<1>2. IsWellFoundedOn(R, Nat)
  BY <1>1, NatLessThanWellFounded DEF OpToRel
<1>3. PICK m \in T : \A n \in T : ~ (<<n, m>> \in R)
  BY <1>2, WFMin
<1>4. \A n \in T : <<n, m>> \in R <=> n < m
  BY <1>1
<1>5. ASSUME NEW n \in T PROVE m <= n
  <2>1. ~(n < m)
    BY <1>3, <1>4
  <2>2. m \in Nat /\ n \in Nat
    OBVIOUS
  <2>3. QED
    BY <2>1, <2>2
<1>6. QED
  BY <1>5

\* A set that holds 0 and the successor of each of its members is Nat.
LEMMA Induction ==
  ASSUME NEW S \in SUBSET Nat, 0 \in S, \A n \in S : n + 1 \in S
  PROVE  S = Nat
<1>1. SUFFICES ASSUME Nat \ S # {} PROVE FALSE
  OBVIOUS
<1>2. PICK m \in Nat \ S : \A n \in Nat \ S : m <= n
  BY <1>1, Least
<1>3. m - 1 \in S /\ m = (m - 1) + 1
  BY <1>2
<1>4. QED
  BY <1>2, <1>3

-----------------------------------------------------------------------------
(* Powers of 2.  That 2^n is the number of subsets of a set of n elements  *)
(* is the fact of the library they follow from.                            *)

LEMMA SubsetsOf ==
  ASSUME NEW n \in Nat
  PROVE  /\ IsFiniteSet(SUBSET (1 .. n))
         /\ Cardinality(SUBSET (1 .. n)) = 2 ^ n
<1>1. IsFiniteSet(1 .. n) /\ Cardinality(1 .. n) = n
  BY FS_Interval
<1>2. QED
  BY <1>1, FS_SUBSET

\* Every bit more doubles.
LEMMA PowerStep ==
  ASSUME NEW n \in Nat
  PROVE  2 ^ n \in Nat \ {0} /\ 2 ^ (n + 1) = 2 * 2 ^ n
<1>1. PICK A, C : A = SUBSET (1 .. n) /\ C = {X \cup {n + 1} : X \in A}
  OBVIOUS
<1>2. IsFiniteSet(A) /\ Cardinality(A) = 2 ^ n
  BY <1>1, SubsetsOf
<1>3. Cardinality(A) \in Nat /\ Cardinality(A) # 0
  <2>1. A # {}
    BY <1>1
  <2>2. QED
    BY <1>2, <2>1, FS_CardinalityType, FS_EmptySet
<1>4. IsFiniteSet(C) /\ Cardinality(C) = Cardinality(A)
  <2>1. PICK f : f = [X \in A |-> X \cup {n + 1}]
    OBVIOUS
  <2>2. f \in Surjection(A, C)
    BY <1>1, <2>1 DEF Surjection
  <2>3. \A X \in A, Y \in A : f[X] = f[Y] => X = Y
    <3>1. SUFFICES ASSUME NEW X \in A, NEW Y \in A, X \cup {n + 1} = Y \cup {n + 1}
                   PROVE  X = Y
      BY <2>1
    <3>2. n + 1 \notin X /\ n + 1 \notin Y
      BY <1>1
    <3>3. QED
      BY <3>1, <3>2
  <2>4. f \in Injection(A, C)
    BY <2>2, <2>3 DEF Injection, IsInjective, Surjection
  <2>5. QED
    BY <1>2, <2>2, <2>4, FS_Surjection
<1>5. A \cap C = {}
  <2>1. \A X \in C : n + 1 \in X
    BY <1>1
  <2>2. \A X \in A : n + 1 \notin X
    BY <1>1
  <2>3. QED
    BY <2>1, <2>2
<1>6. SUBSET (1 .. n + 1) = A \cup C
  <2>1. ASSUME NEW X \in SUBSET (1 .. n + 1) PROVE X \in A \cup C
    <3>1. PICK Y : Y = X \ {n + 1}
      OBVIOUS
    <3>2. Y \in A
      BY <1>1, <3>1
    <3>3. X = Y \/ X = Y \cup {n + 1}
      BY <3>1
    <3>4. QED
      BY <1>1, <3>2, <3>3
  <2>2. ASSUME NEW X \in A \cup C PROVE X \in SUBSET (1 .. n + 1)
    <3>1. CASE X \in A
      BY <1>1, <3>1
    <3>2. CASE X \in C
      <4>1. PICK Y \in A : X = Y \cup {n + 1}
        BY <1>1, <3>2
      <4>2. QED
        BY <1>1, <4>1
    <3>3. QED
      BY <3>1, <3>2
  <2>3. QED
    BY <2>1, <2>2
<1>7. Cardinality(A \cup C) = Cardinality(A) + Cardinality(C)
  <2>1. Cardinality(A \cup C) = Cardinality(A) + Cardinality(C) - Cardinality({})
    BY <1>2, <1>4, <1>5, FS_Union
  <2>2. Cardinality({}) = 0
    BY FS_EmptySet
  <2>3. QED
    BY <1>3, <1>4, <2>1, <2>2
<1>8. Cardinality(SUBSET (1 .. n + 1)) = 2 ^ (n + 1)
  BY SubsetsOf
<1>9. PICK c \in Nat \ {0} : c = Cardinality(A)
  BY <1>3
<1>10. 2 ^ n = c /\ 2 ^ (n + 1) = c + c
  BY <1>2, <1>4, <1>6, <1>7, <1>8, <1>9
<1>11. QED
  BY <1>10

\* The power of a sum.
LEMMA PowerSum ==
  ASSUME NEW m \in Nat, NEW n \in Nat
  PROVE  2 ^ (m + n) = 2 ^ m * 2 ^ n
<1>1. PICK S : S = {k \in Nat : 2 ^ (m + k) = 2 ^ m * 2 ^ k}
  OBVIOUS
<1>2. 0 \in S
  BY <1>1, PowerStep
<1>3. ASSUME NEW k \in S PROVE k + 1 \in S
  <2>1. k \in Nat /\ 2 ^ (m + k) = 2 ^ m * 2 ^ k
    BY <1>1
  <2>2. 2 ^ (m + (k + 1)) = 2 * 2 ^ (m + k)
    <3>1. m + (k + 1) = (m + k) + 1 /\ m + k \in Nat
      BY <2>1
    <3>2. QED
      BY <3>1, PowerStep
  <2>3. 2 ^ (k + 1) = 2 * 2 ^ k
    BY <2>1, PowerStep
  <2>4. PICK a \in Nat, b \in Nat : a = 2 ^ m /\ b = 2 ^ k
    BY <2>1, PowerStep
  <2>5. 2 * (a * b) = a * (2 * b)
    OBVIOUS
  <2>6. QED
    BY <1>1, <2>1, <2>2, <2>3, <2>4, <2>5
<1>4. S = Nat
  BY <1>1, <1>2, <1>3, Induction
<1>5. QED
  BY <1>1, <1>4

-----------------------------------------------------------------------------
(* Quotients and remainders.                                               *)

LEMMA DivMod ==
  ASSUME NEW v \in Int, NEW n \in Nat \ {0}
  PROVE  /\ v \div n \in Int
         /\ v % n \in 0 .. n - 1
         /\ v = n * (v \div n) + (v % n)
OBVIOUS

LEMMA Divided ==
  ASSUME NEW v \in Int, NEW n \in Nat \ {0}
  PROVE  \E q \in Int, r \in 0 .. n - 1 : q = v \div n /\ r = v % n /\ v = n * q + r
BY DivMod, Zenon

LEMMA DivModUnique ==
  ASSUME NEW n \in Nat \ {0}, NEW v \in Int, NEW q \in Int,
         NEW r \in 0 .. n - 1, v = n * q + r
  PROVE  v \div n = q /\ v % n = r
OBVIOUS

\* A multiple of n does not count in a remainder by n.
LEMMA ModShift ==
  ASSUME NEW n \in Nat \ {0}, NEW v \in Int, NEW k \in Int
  PROVE  (v + n * k) % n = v % n /\ (v + n * k) \div n = (v \div n) + k
<1>1. PICK q \in Int, r \in 0 .. n - 1 : q = v \div n /\ r = v % n /\ v = n * q + r
  BY DivMod, Zenon
<1>2. PICK u \in Int, p \in Int : u = v + n * k /\ p = q + k
  OBVIOUS
<1>3. u = n * p + r
  BY <1>1, <1>2
<1>4. u \div n = p /\ u % n = r
  BY <1>3, DivModUnique
<1>5. QED
  BY <1>1, <1>2, <1>4

\* A remainder by n, for a number that differs by a multiple of n.
LEMMA ModOfMultiple ==
  ASSUME NEW n \in Nat \ {0}, NEW a \in Nat \ {0}, NEW v \in Int
  PROVE  \E k \in Int : v % (n * a) = v + n * k
<1>1. PICK m \in Nat \ {0} : m = n * a
  OBVIOUS
<1>2. PICK q \in Int, r \in 0 .. m - 1 : q = v \div m /\ r = v % m /\ v = m * q + r
  BY DivMod, Zenon
<1>3. PICK k \in Int : k = 0 - a * q
  OBVIOUS
<1>4. n * k = 0 - m * q
  BY <1>1, <1>3
<1>5. r = v + n * k
  BY <1>2, <1>4
<1>6. QED
  BY <1>1, <1>2, <1>5

LEMMA ModOfMod ==
  ASSUME NEW n \in Nat \ {0}, NEW a \in Nat \ {0}, NEW v \in Int
  PROVE  (v % (n * a)) % n = v % n
<1>1. PICK k \in Int : v % (n * a) = v + n * k
  BY ModOfMultiple
<1>2. (v + n * k) % n = v % n
  BY ModShift, Zenon
<1>3. QED
  BY <1>1, <1>2, Zenon

\* A quotient lies in proportion.
LEMMA DivBounds ==
  ASSUME NEW n \in Nat \ {0}, NEW v \in Int, NEW lo \in Int, NEW hi \in Int,
         n * lo <= v, v < n * hi
  PROVE  lo <= v \div n /\ v \div n < hi
<1>1. PICK q \in Int, r \in 0 .. n - 1 : q = v \div n /\ v = n * q + r
  BY DivMod, Zenon
<1>2. ASSUME q < lo PROVE FALSE
  <2>1. PICK d \in Nat : lo = q + 1 + d
    BY <1>2
  <2>2. n * lo = n * q + n + n * d
    BY <2>1
  <2>3. n * d >= 0
    OBVIOUS
  <2>4. QED
    BY <1>1, <2>2, <2>3
<1>3. ASSUME hi <= q PROVE FALSE
  <2>1. PICK d \in Nat : q = hi + d
    BY <1>3
  <2>2. n * q = n * hi + n * d
    BY <2>1
  <2>3. n * d >= 0
    OBVIOUS
  <2>4. QED
    BY <1>1, <2>2, <2>3
<1>4. QED
  BY <1>1, <1>2, <1>3

-----------------------------------------------------------------------------
(* The width of a word and of a register.                                  *)

\* The weight of the sign bit of a word and of a register.
Half == 2 ^ (H - 1)
HalfM == 2 ^ (W - 1)

LEMMA Widths ==
  /\ H \in Nat \ {0, 1}
  /\ W \in Nat \ {0, 1} /\ W = H + H /\ W # H
  /\ B \in Nat \ {0} /\ 2 ^ H = B /\ B = Half + Half
  /\ M \in Nat \ {0} /\ 2 ^ W = M /\ M = HalfM + HalfM
  /\ Half \in Nat \ {0, 1}
  /\ HalfM \in Nat \ {0, 1}
  /\ M = B * B
  /\ HalfM = Half * B
  /\ B \div 2 = Half
  /\ M \div 2 = HalfM
  /\ B <= HalfM
<1>1. H \in Nat \ {0, 1}
  <2>1. PICK k \in 1 .. H : H = 2 ^ k
    BY WidthAssumption
  <2>2. H \in Nat
    BY WidthAssumption
  <2>3. PICK j \in Nat : k = j + 1
    BY <2>2
  <2>4. 2 ^ k = 2 * 2 ^ j /\ 2 ^ j \in Nat \ {0}
    BY <2>3, PowerStep
  <2>5. PICK c \in Nat \ {0} : c = 2 ^ j
    BY <2>4
  <2>6. QED
    BY <2>1, <2>4, <2>5
<1>2. W \in Nat \ {0, 1} /\ W = H + H /\ W # H
  BY <1>1 DEF W
<1>3. B \in Nat \ {0} /\ 2 ^ H = B /\ B = 2 * Half /\ Half \in Nat \ {0}
  <2> DEFINE j == H - 1
  <2>1. j \in Nat /\ j = H - 1 /\ H = j + 1
    BY <1>1
  <2> HIDE DEF j
  <2>2. QED
    BY <2>1, PowerStep, <1>1 DEF B, Half
<1>4. M \in Nat \ {0} /\ 2 ^ W = M /\ M = 2 * HalfM /\ HalfM \in Nat \ {0}
  <2> DEFINE j == W - 1
  <2>1. j \in Nat /\ j = W - 1 /\ W = j + 1
    BY <1>2
  <2> HIDE DEF j
  <2>2. QED
    BY <2>1, PowerStep, <1>2 DEF M, HalfM
<1>5. Half # 1
  <2> DEFINE j == H - 2
  <2>1. j \in Nat /\ H - 1 = j + 1
    BY <1>1
  <2> HIDE DEF j
  <2>2. 2 ^ j \in Nat \ {0} /\ 2 ^ (j + 1) = 2 * 2 ^ j
    BY <2>1, PowerStep
  <2>3. PICK c \in Nat \ {0} : c = 2 ^ j
    BY <2>2
  <2>4. Half = 2 * c
    BY <2>1, <2>2, <2>3 DEF Half
  <2>5. QED
    BY <2>4
<1>6. M = B * B
  BY <1>1, <1>2, <1>3, <1>4, PowerSum
<1>7. HalfM = Half * B
  <2> DEFINE j == H - 1
  <2>1. j \in Nat /\ j = H - 1
    BY <1>1
  <2> HIDE DEF j
  <2>2. W - 1 = j + H
    BY <1>1, <1>2, <2>1
  <2>3. 2 ^ (j + H) = 2 ^ j * 2 ^ H
    BY <1>1, <2>1, PowerSum
  <2>4. QED
    BY <1>3, <2>1, <2>2, <2>3 DEF HalfM, Half
<1>8. B <= HalfM
  <2>1. PICK c \in Nat : Half = c + 1
    BY <1>3
  <2>2. HalfM = c * B + B /\ c * B >= 0
    BY <1>3, <1>7, <2>1
  <2>3. QED
    BY <1>3, <1>4, <2>2
<1>9. B = Half + Half /\ M = HalfM + HalfM /\ B \div 2 = Half /\ M \div 2 = HalfM
  BY <1>3, <1>4
<1>10. HalfM # 1
  BY <1>3, <1>5, <1>8, <1>9
<1>11. QED
  BY <1>1, <1>2, <1>3, <1>4, <1>5, <1>6, <1>7, <1>8, <1>9, <1>10

-----------------------------------------------------------------------------
(* Sign extension.                                                         *)

\* t is a number that a word can show as a signed one.
IsSignedWord(t) == t \in Int /\ 0 - Half <= t /\ t < Half

\* The signed number of a word, and the register that shows it.
LEMMA WordValue ==
  ASSUME NEW v \in Int
  PROVE  /\ IsSignedWord(AsSigned(v, H))
         /\ \E k \in Int : v = AsSigned(v, H) + B * k
         /\ Word(v) = IF AsSigned(v, H) < 0 THEN AsSigned(v, H) + B ELSE AsSigned(v, H)
         /\ Word(v) \in 0 .. B - 1
         /\ Sext32bit(v) = IF AsSigned(v, H) < 0 THEN AsSigned(v, H) + M ELSE AsSigned(v, H)
<1>1. PICK q \in Int, r \in 0 .. B - 1 : q = v \div B /\ r = v % B /\ v = B * q + r
  <2>1. B \in Nat \ {0}
    BY Widths
  <2>2. QED
    BY <2>1, Divided, Zenon
<1>2. AsSigned(v, H) = IF r >= Half THEN r - B ELSE r
  BY <1>1, Widths DEF AsSigned, AsUnsigned, Half
<1>3. Word(v) = r
  BY <1>1 DEF Word
<1>4. Sext32bit(v) = IF r >= Half THEN r + (M - B) ELSE r
  BY <1>3, Widths DEF Sext32bit
<1>5. IsSignedWord(AsSigned(v, H))
  BY <1>2, Widths DEF IsSignedWord
<1>6. \E k \in Int : v = AsSigned(v, H) + B * k
  <2>1. CASE r >= Half
    <3>1. PICK p \in Int : p = q + 1
      OBVIOUS
    <3>2. B * p = B * q + B
      BY <3>1, Widths
    <3>3. v = (r - B) + B * p
      BY <1>1, <3>2, Widths
    <3>4. QED
      BY <1>2, <2>1, <3>3
  <2>2. CASE r < Half
    <3>1. v = r + B * q
      BY <1>1, Widths
    <3>2. QED
      BY <1>2, <2>2, <3>1, Widths
  <2>3. QED
    BY <2>1, <2>2, Widths
<1>7. Word(v) = IF AsSigned(v, H) < 0 THEN AsSigned(v, H) + B ELSE AsSigned(v, H)
  BY <1>2, <1>3, Widths
<1>8. Sext32bit(v) = IF AsSigned(v, H) < 0 THEN AsSigned(v, H) + M ELSE AsSigned(v, H)
  BY <1>2, <1>4, Widths
<1>9. Word(v) \in 0 .. B - 1
  BY <1>3
<1>10. QED
  BY <1>5, <1>6, <1>7, <1>8, <1>9

\* A word shows one signed number only.
LEMMA WordValueUnique ==
  ASSUME NEW t, IsSignedWord(t), NEW k \in Int
  PROVE  AsSigned(t + B * k, H) = t
<1>1. PICK v \in Int : v = t + B * k
  BY Widths DEF IsSignedWord
<1>2. CASE t >= 0
  <2>1. t \in 0 .. B - 1 /\ v = B * k + t
    BY <1>1, <1>2, Widths DEF IsSignedWord
  <2>2. v % B = t
    BY <2>1, Widths, DivModUnique
  <2>3. QED
    BY <1>1, <1>2, <2>2, Widths DEF IsSignedWord, AsSigned, AsUnsigned, Half
<1>3. CASE t < 0
  <2>1. PICK u \in Int, j \in Int : u = t + B /\ j = k - 1
    BY Widths DEF IsSignedWord
  <2>2. u \in 0 .. B - 1
    BY <1>3, <2>1, Widths DEF IsSignedWord
  <2>3. v = B * j + u
    BY <1>1, <2>1, Widths DEF IsSignedWord
  <2>4. v % B = u
    BY <2>2, <2>3, Widths, DivModUnique
  <2>5. AsSigned(v, H) = IF u >= Half THEN u - B ELSE u
    BY <2>4, Widths DEF AsSigned, AsUnsigned, Half
  <2>6. QED
    BY <1>1, <1>3, <2>1, <2>5, Widths DEF IsSignedWord
<1>4. QED
  BY <1>2, <1>3 DEF IsSignedWord

\* What differs by a multiple of B has the same word.
LEMMA SameWord ==
  ASSUME NEW v \in Int, NEW k \in Int
  PROVE  /\ Word(v + B * k) = Word(v)
         /\ Sext32bit(v + B * k) = Sext32bit(v)
         /\ AsSigned(v + B * k, H) = AsSigned(v, H)
<1>1. (v + B * k) % B = v % B
  BY ModShift, Widths
<1>2. QED
  BY <1>1, Widths DEF Word, Sext32bit, AsSigned, AsUnsigned

\* A sign extended register, read as a signed and as an unsigned number.
LEMMA ExtendedRegister ==
  ASSUME NEW t, IsSignedWord(t)
  PROVE  /\ t % M = IF t < 0 THEN t + M ELSE t
         /\ t % M \in Register
         /\ Signed(t % M) = t
         /\ \E k \in Int : t % M = t + B * k
<1>1. t % M = IF t < 0 THEN t + M ELSE t
  <2>1. CASE t >= 0
    <3>1. t \in 0 .. M - 1 /\ t = M * 0 + t
      BY <2>1, Widths DEF IsSignedWord
    <3>2. QED
      BY <2>1, <3>1, Widths, DivModUnique
  <2>2. CASE t < 0
    <3>1. PICK u \in 0 .. M - 1 : u = t + M
      BY <2>2, Widths DEF IsSignedWord
    <3>2. t \in Int /\ t = M * (0 - 1) + u
      BY <3>1, Widths DEF IsSignedWord
    <3>3. t % M = u
      BY <3>2, Widths, DivModUnique
    <3>4. QED
      BY <2>2, <3>1, <3>3
  <2>3. QED
    BY <2>1, <2>2 DEF IsSignedWord
<1>2. t % M \in Register
  BY <1>1, Widths DEF IsSignedWord, Register
<1>3. Signed(t % M) = t
  BY <1>1, Widths DEF IsSignedWord, Signed
<1>4. \E k \in Int : t % M = t + B * k
  <2>1. CASE t >= 0
    <3>1. t % M = t /\ t = t + B * 0
      BY <1>1, <2>1, Widths DEF IsSignedWord
    <3>2. QED
      BY <3>1
  <2>2. CASE t < 0
    BY <1>1, <2>2, Widths
  <2>3. QED
    BY <2>1, <2>2 DEF IsSignedWord
<1>5. QED
  BY <1>1, <1>2, <1>3, <1>4

\* Sign extension shows the number of the word in a register.
LEMMA SextValue ==
  ASSUME NEW v \in Int
  PROVE  /\ Sext32bit(v) = AsSigned(v, H) % M
         /\ Sext32bit(v) = Shown(v, H)
         /\ Sext32bit(v) \in Register
         /\ Sext32bit(v) \in Int
         /\ Signed(Sext32bit(v)) = AsSigned(v, H)
         /\ Word(Sext32bit(v)) = Word(v)
         /\ AsSigned(Sext32bit(v), H) = AsSigned(v, H)
         /\ Sext32bit(Sext32bit(v)) = Sext32bit(v)
<1>1. PICK t : t = AsSigned(v, H)
  OBVIOUS
<1>2. IsSignedWord(t) /\ \E k \in Int : v = t + B * k
  BY <1>1, WordValue
<1>3. Sext32bit(v) = t % M
  BY <1>1, WordValue, ExtendedRegister
<1>4. PICK j \in Int : t % M = t + B * j
  BY <1>2, ExtendedRegister
<1>5. PICK k \in Int : v = t + B * k
  BY <1>2
<1>6. PICK i \in Int : i = j - k
  OBVIOUS
<1>7. B * i = B * j - B * k
  BY <1>6, Widths
<1>8. Sext32bit(v) = v + B * i
  BY <1>2, <1>3, <1>4, <1>5, <1>7, Widths DEF IsSignedWord
<1>9. Word(Sext32bit(v)) = Word(v) /\ Sext32bit(Sext32bit(v)) = Sext32bit(v)
      /\ AsSigned(Sext32bit(v), H) = AsSigned(v, H)
  BY <1>8, SameWord
<1>10. Sext32bit(v) \in Register /\ Signed(Sext32bit(v)) = t
  BY <1>2, <1>3, ExtendedRegister
<1>11. Sext32bit(v) \in Int
  BY <1>10 DEF Register
<1>12. QED
  BY <1>1, <1>3, <1>9, <1>10, <1>11 DEF Shown

\* A number of a register wraps to the register that shows it.
LEMMA WrapValue ==
  ASSUME NEW v \in Int
  PROVE  /\ Wrap(v) \in Register
         /\ Wrap(v) \in Int
         /\ Shown(v, W) = Wrap(v)
         /\ AsSigned(v, W) = Signed(Wrap(v))
         /\ AsUnsigned(v, W) = Wrap(v)
         /\ Sext32bit(Wrap(v)) = Sext32bit(v)
         /\ Word(Wrap(v)) = Word(v)
         /\ AsSigned(Wrap(v), H) = AsSigned(v, H)
<1>1. v % M \in 0 .. M - 1
  BY DivMod, Widths
<1>2. Wrap(v) \in Register /\ Wrap(v) \in Int /\ AsUnsigned(v, W) = Wrap(v)
  BY <1>1, Widths DEF Wrap, Register, AsUnsigned
<1>3. AsSigned(v, W) = Signed(Wrap(v))
  BY <1>2, Widths DEF AsSigned, Signed, HalfM
<1>4. Shown(v, W) = Wrap(v)
  <2>1. PICK r \in 0 .. M - 1 : r = Wrap(v)
    BY <1>1 DEF Wrap
  <2>2. r % M = r
    <3>1. r \in Int /\ r = M * 0 + r
      BY Widths
    <3>2. QED
      BY <3>1, Widths, DivModUnique
  <2>3. (r - M) % M = r
    <3>1. PICK u \in Int : u = r - M
      BY Widths
    <3>2. u = M * (0 - 1) + r
      BY <3>1, Widths
    <3>3. u % M = r
      BY <3>2, Widths, DivModUnique
    <3>4. QED
      BY <3>1, <3>3
  <2>4. QED
    BY <1>3, <2>1, <2>2, <2>3 DEF Shown, Signed
<1>5. PICK k \in Int : v % (B * B) = v + B * k
  BY Widths, ModOfMultiple
<1>6. Wrap(v) = v + B * k
  BY <1>5, Widths DEF Wrap
<1>7. QED
  BY <1>2, <1>3, <1>4, <1>6, SameWord

-----------------------------------------------------------------------------
(* Single bits.                                                            *)

\* A power and a smaller one.
LEMMA PowerMultiple ==
  ASSUME NEW n \in Nat, NEW k \in 0 .. n
  PROVE  \E c \in Nat \ {0} : 2 ^ n = 2 ^ k * c
<1>1. n - k \in Nat /\ n = k + (n - k)
  OBVIOUS
<1>2. 2 ^ n = 2 ^ k * 2 ^ (n - k)
  BY <1>1, PowerSum
<1>3. 2 ^ (n - k) \in Nat \ {0}
  BY <1>1, PowerStep
<1>4. QED
  BY <1>2, <1>3

\* The bit of weight p.
LEMMA BitByRemainder ==
  ASSUME NEW p \in Nat \ {0}, NEW v \in Int
  PROVE  (v % (2 * p)) \div p = (v \div p) % 2
<1>1. PICK q \in Int, r \in 0 .. p - 1 : q = v \div p /\ v = p * q + r
  BY DivMod, Zenon
<1>2. PICK u \in Int, b \in 0 .. 1 : b = q % 2 /\ q = 2 * u + b
  OBVIOUS
<1>3. PICK s \in Int, d \in Nat \ {0} : s = p * b + r /\ d = 2 * p
  OBVIOUS
<1>4. s \in 0 .. d - 1
  BY <1>3
<1>5. v = d * u + s
  <2>1. p * q = p * (2 * u) + p * b
    BY <1>2
  <2>2. p * (2 * u) = d * u
    BY <1>3
  <2>3. QED
    BY <1>1, <1>3, <2>1, <2>2
<1>6. v % d = s
  BY <1>4, <1>5, DivModUnique
<1>7. s \div p = b
  BY <1>3, DivModUnique
<1>8. QED
  BY <1>1, <1>2, <1>3, <1>6, <1>7

LEMMA SetBit ==
  ASSUME NEW v \in Int, NEW k \in Nat
  PROVE  IsSet(v, k) <=> BitOf(v, k) = 1
<1>1. PICK p \in Nat \ {0} : p = 2 ^ k /\ 2 ^ (k + 1) = 2 * p
  BY PowerStep
<1>2. QED
  BY <1>1, BitByRemainder DEF IsSet, AsUnsigned, BitOf

\* The lower bits of a number do not depend on multiples of a higher weight.
LEMMA LowerBits ==
  ASSUME NEW n \in Nat, NEW k \in 0 .. n - 1, NEW v \in Int, NEW j \in Int
  PROVE  IsSet(v + 2 ^ n * j, k) <=> IsSet(v, k)
<1>1. k + 1 \in 0 .. n /\ k \in Nat
  OBVIOUS
<1>2. PICK c \in Nat \ {0} : 2 ^ n = 2 ^ (k + 1) * c
  BY <1>1, PowerMultiple
<1>3. PICK p \in Nat \ {0} : p = 2 ^ (k + 1)
  BY <1>1, PowerStep
<1>4. PICK i \in Int : i = c * j
  OBVIOUS
<1>5. 2 ^ n * j = p * i
  BY <1>2, <1>3, <1>4
<1>6. (v + p * i) % p = v % p
  BY ModShift
<1>7. QED
  BY <1>3, <1>5, <1>6 DEF IsSet, AsUnsigned

\* f[k] is the sum of the first k bits with their weights.
Sums(f, bits, n) ==
  f = [k \in 0 .. n |-> IF k = 0 THEN 0 ELSE f[k - 1] + bits[k - 1] * 2 ^ (k - 1)]

LEMMA SumsDefined ==
  ASSUME NEW bits, NEW n \in Nat
  PROVE  \E f : Sums(f, bits, n)
<1> DEFINE S == {l \in Nat : \E f : Sums(f, bits, l)}
<1>1. 0 \in S
  <2>1. PICK f : f = [k \in 0 .. 0 |-> 0]
    OBVIOUS
  <2>2. \A k \in 0 .. 0 : k = 0
    OBVIOUS
  <2>3. Sums(f, bits, 0)
    BY <2>1, <2>2 DEF Sums
  <2>4. QED
    BY <2>3
<1>2. ASSUME NEW l \in S
      PROVE  l + 1 \in S
  <2>1. PICK f : Sums(f, bits, l)
    OBVIOUS
  <2>2. PICK a : a = f[l] + bits[l] * 2 ^ l
    OBVIOUS
  <2>3. PICK g : g = [k \in 0 .. l + 1 |-> IF k = l + 1 THEN a ELSE f[k]]
    OBVIOUS
  <2>4. l \in Nat /\ l + 1 \in Nat
    OBVIOUS
  <2>5. ASSUME NEW k \in 0 .. l + 1
        PROVE  g[k] = IF k = 0 THEN 0 ELSE g[k - 1] + bits[k - 1] * 2 ^ (k - 1)
    <3>1. CASE k = l + 1
      <4>1. g[k] = a /\ k - 1 = l /\ l \in 0 .. l + 1 /\ l # l + 1 /\ k # 0
        BY <2>3, <2>4, <3>1
      <4>2. g[k - 1] = f[l]
        BY <2>3, <4>1
      <4>3. QED
        BY <2>2, <4>1, <4>2
    <3>2. CASE k # l + 1 /\ k # 0
      <4>1. k \in 0 .. l /\ k - 1 \in 0 .. l + 1 /\ k - 1 # l + 1
        BY <2>4, <3>2
      <4>2. g[k] = f[k] /\ g[k - 1] = f[k - 1]
        BY <2>3, <3>2, <4>1
      <4>3. f[k] = f[k - 1] + bits[k - 1] * 2 ^ (k - 1)
        BY <2>1, <3>2, <4>1 DEF Sums
      <4>4. QED
        BY <3>2, <4>2, <4>3
    <3>3. CASE k = 0
      <4>1. k \in 0 .. l /\ k # l + 1
        BY <2>4, <3>3
      <4>2. g[k] = f[k] /\ f[k] = 0
        BY <2>1, <2>3, <3>3, <4>1 DEF Sums
      <4>3. QED
        BY <3>3, <4>2
    <3>4. QED
      BY <3>1, <3>2, <3>3
  <2>6. Sums(g, bits, l + 1)
    <3>1. g = [k \in 0 .. l + 1 |-> g[k]]
      BY <2>3
    <3>2. QED
      BY <2>5, <3>1 DEF Sums
  <2>7. QED
    BY <2>4, <2>6
<1>3. S = Nat
  <2>1. S \in SUBSET Nat
    OBVIOUS
  <2> HIDE DEF S
  <2>2. QED
    BY <1>1, <1>2, <2>1, Induction
<1>4. QED
  BY <1>3

\* One bit more on top of a number below its weight.
LEMMA TopBit ==
  ASSUME NEW n \in Nat, NEW s \in 0 .. 2 ^ n - 1, NEW b \in {0, 1}
  PROVE  /\ s + b * 2 ^ n \in 0 .. 2 ^ (n + 1) - 1
         /\ IsSet(s + b * 2 ^ n, n) <=> b = 1
         /\ \A k \in 0 .. n - 1 : IsSet(s + b * 2 ^ n, k) <=> IsSet(s, k)
<1>1. PICK p \in Nat \ {0} : p = 2 ^ n /\ 2 ^ (n + 1) = p + p
  <2>1. 2 ^ n \in Nat \ {0} /\ 2 ^ (n + 1) = 2 * 2 ^ n
    BY PowerStep
  <2>2. PICK p \in Nat \ {0} : p = 2 ^ n
    BY <2>1
  <2>3. QED
    BY <2>1, <2>2
<1>2. s \in Nat /\ s < p
  BY <1>1
<1>3. s + b * p \in 0 .. (p + p) - 1
  BY <1>2
<1>4. PICK v \in Int : v = s + b * p /\ v = p * b + s
  BY <1>2
<1>5. v \div p = b
  BY <1>2, <1>4, DivModUnique
<1>6. BitOf(v, n) = b
  BY <1>1, <1>5 DEF BitOf
<1>7. IsSet(v, n) <=> b = 1
  BY <1>6, SetBit
<1>8. ASSUME NEW k \in 0 .. n - 1
      PROVE  IsSet(v, k) <=> IsSet(s, k)
  <2>1. v = s + 2 ^ n * b
    BY <1>1, <1>4
  <2>2. s \in Int /\ b \in Int
    BY <1>2
  <2>3. QED
    BY <2>1, <2>2, LowerBits
<1>9. QED
  BY <1>1, <1>3, <1>4, <1>7, <1>8

\* FromBits gives a register with the bits it is given.
LEMMA BitsOfSum ==
  ASSUME NEW bits \in [0 .. W - 1 -> {0, 1}]
  PROVE  /\ FromBits(bits) \in Register
         /\ \A k \in 0 .. W - 1 : IsSet(FromBits(bits), k) <=> bits[k] = 1
<1> DEFINE f == CHOOSE f : f = [k \in 0 .. W |-> IF k = 0 THEN 0
                                  ELSE f[k - 1] + bits[k - 1] * 2 ^ (k - 1)]
<1>1. Sums(f, bits, W)
  <2>1. \E g : Sums(g, bits, W)
    BY Widths, SumsDefined
  <2>2. QED
    BY <2>1 DEF Sums
<1>2. FromBits(bits) = f[W]
  BY DEF FromBits
<1> HIDE DEF f
<1>3. /\ f[0] = 0
      /\ \A k \in 0 .. W - 1 : f[k + 1] = f[k] + bits[k] * 2 ^ k
  <2>1. f[0] = 0
    BY <1>1, Widths DEF Sums
  <2>2. ASSUME NEW k \in 0 .. W - 1 PROVE f[k + 1] = f[k] + bits[k] * 2 ^ k
    <3>1. k + 1 \in 0 .. W /\ k + 1 # 0 /\ (k + 1) - 1 = k
      BY Widths
    <3>2. f[k + 1] = f[(k + 1) - 1] + bits[(k + 1) - 1] * 2 ^ ((k + 1) - 1)
      BY <1>1, <3>1 DEF Sums
    <3>3. QED
      BY <3>1, <3>2
  <2>3. QED
    BY <2>1, <2>2
<1> DEFINE S == {n \in Nat : n <= W => /\ f[n] \in 0 .. 2 ^ n - 1
                                       /\ \A k \in 0 .. n - 1 : IsSet(f[n], k) <=> bits[k] = 1}
<1>4. 0 \in S
  BY <1>3
<1>5. ASSUME NEW n \in S PROVE n + 1 \in S
  <2>1. n \in Nat
    OBVIOUS
  <2>2. SUFFICES ASSUME n + 1 <= W
                 PROVE  /\ f[n + 1] \in 0 .. 2 ^ (n + 1) - 1
                        /\ \A k \in 0 .. (n + 1) - 1 : IsSet(f[n + 1], k) <=> bits[k] = 1
    BY <2>1
  <2>3. n \in 0 .. W - 1 /\ n <= W
    BY <2>1, <2>2, Widths
  <2>4. /\ f[n] \in 0 .. 2 ^ n - 1
        /\ \A k \in 0 .. n - 1 : IsSet(f[n], k) <=> bits[k] = 1
    BY <2>3
  <2>5. bits[n] \in {0, 1} /\ f[n + 1] = f[n] + bits[n] * 2 ^ n
    BY <1>3, <2>3
  <2>6. /\ f[n + 1] \in 0 .. 2 ^ (n + 1) - 1
        /\ IsSet(f[n + 1], n) <=> bits[n] = 1
        /\ \A k \in 0 .. n - 1 : IsSet(f[n + 1], k) <=> IsSet(f[n], k)
    <3>1. PICK s \in 0 .. 2 ^ n - 1, b \in {0, 1} : s = f[n] /\ b = bits[n]
      BY <2>4, <2>5
    <3>2. /\ s + b * 2 ^ n \in 0 .. 2 ^ (n + 1) - 1
          /\ IsSet(s + b * 2 ^ n, n) <=> b = 1
          /\ \A k \in 0 .. n - 1 : IsSet(s + b * 2 ^ n, k) <=> IsSet(s, k)
      BY <2>1, TopBit
    <3>3. f[n + 1] = s + b * 2 ^ n
      BY <2>5, <3>1
    <3>4. QED
      BY <3>1, <3>2, <3>3
  <2>7. ASSUME NEW k \in 0 .. (n + 1) - 1
        PROVE  IsSet(f[n + 1], k) <=> bits[k] = 1
    <3>1. k = n \/ k \in 0 .. n - 1
      BY <2>1
    <3>2. QED
      BY <2>4, <2>6, <3>1
  <2>8. QED
    BY <2>6, <2>7
<1>6. S = Nat
  <2>1. S \in SUBSET Nat
    OBVIOUS
  <2> HIDE DEF S
  <2>2. QED
    BY <1>4, <1>5, <2>1, Induction
<1>7. W \in S
  BY <1>6, Widths
<1>8. f[W] \in 0 .. 2 ^ W - 1 /\ \A k \in 0 .. W - 1 : IsSet(f[W], k) <=> bits[k] = 1
  BY <1>7, Widths
<1>9. QED
  BY <1>2, <1>8, Widths DEF Register

LEMMA BitValue ==
  ASSUME NEW v \in Int, NEW k \in Nat
  PROVE  BitOf(v, k) \in {0, 1} /\ (IsSet(v, k) <=> BitOf(v, k) = 1)
<1>1. PICK q \in Int : q = v \div 2 ^ k
  BY PowerStep, DivMod
<1>2. q % 2 \in {0, 1}
  OBVIOUS
<1>3. QED
  BY <1>1, <1>2, SetBit DEF BitOf

\* & | and ^ of two registers, bit by bit.
LEMMA BitOperations ==
  ASSUME NEW a \in Register, NEW b \in Register
  PROVE  /\ And(a, b) \in Register /\ Or(a, b) \in Register /\ Xor(a, b) \in Register
         /\ \A k \in 0 .. W - 1 :
              /\ IsSet(And(a, b), k) <=> IsSet(a, k) /\ IsSet(b, k)
              /\ IsSet(Or(a, b), k) <=> IsSet(a, k) \/ IsSet(b, k)
              /\ IsSet(Xor(a, b), k) <=> ~(IsSet(a, k) <=> IsSet(b, k))
<1>1. a \in Int /\ b \in Int
  BY DEF Register
<1>2. \A k \in 0 .. W - 1 : k \in Nat
  BY Widths
<1>3. \A k \in 0 .. W - 1 : /\ BitOf(a, k) \in {0, 1} /\ (IsSet(a, k) <=> BitOf(a, k) = 1)
                            /\ BitOf(b, k) \in {0, 1} /\ (IsSet(b, k) <=> BitOf(b, k) = 1)
  BY <1>1, <1>2, BitValue
<1>4. /\ And(a, b) \in Register
      /\ \A k \in 0 .. W - 1 : IsSet(And(a, b), k) <=> IsSet(a, k) /\ IsSet(b, k)
  <2>1. PICK bits : bits = [k \in 0 .. W - 1 |-> BitOf(a, k) * BitOf(b, k)]
    OBVIOUS
  <2>2. bits \in [0 .. W - 1 -> {0, 1}]
    BY <1>3, <2>1
  <2>3. \A k \in 0 .. W - 1 : bits[k] = 1 <=> IsSet(a, k) /\ IsSet(b, k)
    BY <1>3, <2>1
  <2>4. QED
    BY <2>1, <2>2, <2>3, BitsOfSum DEF And
<1>5. /\ Or(a, b) \in Register
      /\ \A k \in 0 .. W - 1 : IsSet(Or(a, b), k) <=> IsSet(a, k) \/ IsSet(b, k)
  <2>1. PICK bits : bits = [k \in 0 .. W - 1 |-> IF BitOf(a, k) + BitOf(b, k) = 0
                                                 THEN 0 ELSE 1]
    OBVIOUS
  <2>2. bits \in [0 .. W - 1 -> {0, 1}]
    BY <1>3, <2>1
  <2>3. \A k \in 0 .. W - 1 : bits[k] = 1 <=> IsSet(a, k) \/ IsSet(b, k)
    BY <1>3, <2>1
  <2>4. QED
    BY <2>1, <2>2, <2>3, BitsOfSum DEF Or
<1>6. /\ Xor(a, b) \in Register
      /\ \A k \in 0 .. W - 1 : IsSet(Xor(a, b), k) <=> ~(IsSet(a, k) <=> IsSet(b, k))
  <2>1. PICK bits : bits = [k \in 0 .. W - 1 |-> IF BitOf(a, k) = BitOf(b, k)
                                                 THEN 0 ELSE 1]
    OBVIOUS
  <2>2. bits \in [0 .. W - 1 -> {0, 1}]
    BY <1>3, <2>1
  <2>3. \A k \in 0 .. W - 1 : bits[k] = 1 <=> ~(IsSet(a, k) <=> IsSet(b, k))
    BY <1>3, <2>1
  <2>4. QED
    BY <2>1, <2>2, <2>3, BitsOfSum DEF Xor
<1>7. QED
  BY <1>4, <1>5, <1>6

\* Sign extension keeps the bits of a word.
LEMMA SextBits ==
  ASSUME NEW v \in Int, NEW k \in 0 .. H - 1
  PROVE  IsSet(Sext32bit(v), k) <=> IsSet(v, k)
<1>1. PICK t \in Int : t = AsSigned(v, H) /\ \E i \in Int : v = t + B * i
  BY WordValue DEF IsSignedWord
<1>2. PICK i \in Int : v = t + B * i
  BY <1>1
<1>3. PICK j \in Int : Sext32bit(v) = t + B * j
  BY <1>1, WordValue, SextValue, ExtendedRegister
<1>4. IsSet(t + 2 ^ H * i, k) <=> IsSet(t, k)
  BY LowerBits, Widths
<1>5. IsSet(t + 2 ^ H * j, k) <=> IsSet(t, k)
  BY LowerBits, Widths
<1>6. QED
  BY <1>2, <1>3, <1>4, <1>5, Widths

-----------------------------------------------------------------------------
(* OperationInstruction.                                                   *)

\* What an instruction that computes leaves in a register of the present hart.
Proper(v) == v \in Register /\ (xlen = H => IsExtended(v))

WidthOK == xlen \in {H, W}

\* A register, read in the width of the hart and in that of a word.
LEMMA RegisterValue ==
  ASSUME WidthOK, NEW a \in Register
  PROVE  /\ a \in Int /\ 0 <= a /\ a < M
         /\ AsUnsigned(a, H) = Word(a)
         /\ AsUnsigned(a, xlen) = IF xlen = H THEN Word(a) ELSE a
         /\ AsUnsigned(a, W) = a
         /\ AsSigned(a, W) = Signed(a)
         /\ Wrap(a) = a
<1>1. a \in Int /\ 0 <= a /\ a < M
  BY Widths DEF Register
<1>2. a % M = a
  <2>1. a \in 0 .. M - 1 /\ a = M * 0 + a
    BY <1>1, Widths
  <2>2. QED
    BY <1>1, <2>1, Widths, DivModUnique
<1>3. AsUnsigned(a, H) = Word(a)
  BY Widths DEF AsUnsigned, Word
<1>4. AsUnsigned(a, W) = a /\ AsSigned(a, W) = Signed(a) /\ Wrap(a) = a
  BY <1>1, <1>2, WrapValue DEF Wrap
<1>5. QED
  BY <1>1, <1>3, <1>4 DEF WidthOK

\* An extended register is, as a signed number, the word it extends.
LEMMA ProperValue ==
  ASSUME WidthOK, NEW a, Proper(a)
  PROVE  a \in Register /\ AsSigned(a, xlen) = Signed(a)
<1>1. a \in Register /\ a \in Int /\ AsSigned(a, W) = Signed(a)
  BY RegisterValue DEF Proper
<1>2. xlen = H => AsSigned(a, H) = Signed(a)
  BY <1>1, SextValue DEF Proper, IsExtended
<1>3. QED
  BY <1>1, <1>2 DEF WidthOK

\* A result that is wrapped or extended as the code does shows u in its width.
LEMMA ExtendedResult ==
  ASSUME NEW u \in Int
  PROVE  /\ Sext32bit(Wrap(u)) = Shown(u, H)
         /\ Wrap(u) = Shown(u, W)
         /\ Sext32bit(Word(u)) = Shown(u, H)
<1>1. Sext32bit(Word(u)) = Sext32bit(u)
  <2>1. PICK q \in Int, r \in Int : r = u % B /\ u = B * q + r
    BY DivMod, Widths
  <2>2. u = r + B * q
    BY <2>1, Widths
  <2>3. QED
    BY <2>1, <2>2, SameWord DEF Word
<1>2. QED
  BY <1>1, WrapValue, SextValue

\* Whatever a width shows is a register of it.
LEMMA ShownProper ==
  ASSUME WidthOK, NEW u \in Int, NEW w \in {H, W}, xlen = H => w = H
  PROVE  Proper(Shown(u, w))
<1>1. CASE w = H
  BY <1>1, SextValue DEF Proper, IsExtended
<1>2. CASE w = W
  BY <1>2, WrapValue, Widths DEF Proper, IsExtended
<1>3. QED
  BY <1>1, <1>2

LEMMA WidthOfOperation ==
  ASSUME WidthOK, NEW op \in Operations, NEW b \in Register
  PROVE  /\ WidthOf(op) \in {H, W}
         /\ Narrow(op) <=> WidthOf(op) = H
         /\ xlen = H => WidthOf(op) = H /\ op \notin WordOperations
         /\ op \in WordOperations => WidthOf(op) = H
         /\ op \notin WordOperations => WidthOf(op) = xlen
         /\ ShiftAmount(op, b) = b % WidthOf(op)
         /\ b % WidthOf(op) \in 0 .. WidthOf(op) - 1
<1>1. op \notin WordDivisions \cup {"MULW", "SLLIW", "SRLIW", "SRAIW"}
  BY DEF Operations, WordOperations, WordDivisions
<1>2. WidthOf(op) = IF op \in WordOperations THEN H ELSE xlen
  BY <1>1 DEF WidthOf
<1>3. xlen = H => op \notin WordOperations
  BY Widths DEF Operations, WordOperations
<1>4. b % H \in 0 .. H - 1 /\ b % W \in 0 .. W - 1
  <2>1. b \in Int
    BY DEF Register
  <2>2. QED
    BY <2>1, DivMod, Widths
<1>5. ShiftAmount(op, b) = b % WidthOf(op)
  BY <1>2, Widths DEF ShiftAmount, Narrow, WidthOK
<1>6. QED
  BY <1>2, <1>3, <1>4, <1>5, Widths DEF Narrow, WidthOK

\* Addition, subtraction and left shifts.
LEMMA WrappedOperations ==
  ASSUME WidthOK, NEW a \in Register, NEW b \in Register, NEW op \in Operations
  PROVE  LET w == WidthOf(op)
             n == b % w
         IN  /\ op \in {"ADD", "ADDW"} => Operation(op, a, b) = Shown(a + b, w)
             /\ op \in {"SUB", "SUBW"} => Operation(op, a, b) = Shown(a - b, w)
             /\ op \in {"SLL", "SLLW"} => /\ a * 2 ^ n \in Int
                                          /\ Operation(op, a, b) = Shown(a * 2 ^ n, w)
<1>1. a \in Int /\ b \in Int
  BY RegisterValue
<1>2. PICK w, n : w = WidthOf(op) /\ n = b % w
  OBVIOUS
<1>3. /\ w \in {H, W} /\ (Narrow(op) <=> w = H)
      /\ ShiftAmount(op, b) = n /\ n \in 0 .. w - 1
  BY <1>2, WidthOfOperation
<1>4. ASSUME NEW u \in Int, Unextended(op, a, b) = Wrap(u)
      PROVE  Operation(op, a, b) = Shown(u, w)
  BY <1>3, <1>4, ExtendedResult DEF Operation
<1>5. CASE op \in {"ADD", "ADDW"}
  <2>1. Unextended(op, a, b) = Wrap(a + b)
    BY <1>5 DEF Unextended
  <2>2. QED
    BY <1>1, <1>2, <1>4, <1>5, <2>1
<1>6. CASE op \in {"SUB", "SUBW"}
  <2>1. Unextended(op, a, b) = Wrap(a - b)
    BY <1>6 DEF Unextended
  <2>2. QED
    BY <1>1, <1>2, <1>4, <1>6, <2>1
<1>7. CASE op \in {"SLL", "SLLW"}
  <2>1. Unextended(op, a, b) = Wrap(a * 2 ^ n)
    BY <1>3, <1>7 DEF Unextended, ShiftLeft
  <2>2. n \in Nat
    BY <1>3, Widths
  <2>3. a * 2 ^ n \in Int
    BY <1>1, <2>2, PowerStep
  <2>4. QED
    BY <1>2, <1>4, <1>7, <2>1, <2>3
<1>8. QED
  BY <1>5, <1>6, <1>7

\* Dividing a register by a power of 2 gives a register.
LEMMA ShiftedRight ==
  ASSUME NEW v \in Nat, v < M, NEW n \in Nat
  PROVE  /\ v \div 2 ^ n \in Nat
         /\ v \div 2 ^ n < M
         /\ Wrap(v \div 2 ^ n) = v \div 2 ^ n
<1>1. PICK p \in Nat \ {0} : p = 2 ^ n
  BY PowerStep
<1>2. PICK q \in Int, r \in 0 .. p - 1 : q = v \div p /\ v = p * q + r
  <2>1. v \in Int
    OBVIOUS
  <2>2. v \div p \in Int /\ v % p \in 0 .. p - 1 /\ v = p * (v \div p) + (v % p)
    BY <2>1, DivMod
  <2>3. QED
    BY <2>2
<1>3. q >= 0
  <2>1. SUFFICES ASSUME q < 0 PROVE FALSE
    BY <1>2
  <2>2. PICK d \in Nat : q = 0 - 1 - d
    BY <2>1
  <2>3. p * q = 0 - p - p * d /\ p * d >= 0
    BY <2>2
  <2>4. QED
    BY <1>2, <2>3
<1>4. q <= v
  <2>1. PICK c \in Nat : p = c + 1
    BY <1>1
  <2>2. p * q = c * q + q /\ c * q >= 0
    BY <1>3, <2>1
  <2>3. QED
    BY <1>2, <2>2
<1>5. q \in 0 .. M - 1 /\ q = M * 0 + q
  BY <1>3, <1>4, Widths
<1>6. q % M = q
  BY <1>5, Widths, DivModUnique
<1>7. v \div 2 ^ n = q /\ Wrap(q) = q
  BY <1>1, <1>2, <1>6 DEF Wrap
<1>8. q \in Nat /\ q < M
  BY <1>5, Widths
<1>9. QED
  BY <1>7, <1>8

\* Shifting the sign extended word right, as an unsigned register, does not
\* change the word of the result.
LEMMA WordShift ==
  ASSUME NEW a \in Int, NEW n \in 0 .. H - 1
  PROVE  Sext32bit(Sext32bit(a) \div 2 ^ n) = Sext32bit(AsSigned(a, H) \div 2 ^ n)
<1>1. PICK t \in Int : t = AsSigned(a, H)
  BY WordValue DEF IsSignedWord
<1>2. n \in Nat /\ H \in Nat /\ n \in 0 .. H
  BY Widths
<1>3. PICK p \in Nat \ {0} : p = 2 ^ n
  BY <1>2, PowerStep
<1>4. PICK c \in Nat \ {0} : 2 ^ H = 2 ^ n * c
  BY <1>2, PowerMultiple
<1>5. PICK d \in Nat : d = B * c
  BY Widths
<1>6. M = p * d
  <2>1. B = p * c
    BY <1>3, <1>4, Widths
  <2>2. B * B = p * (B * c)
    BY <2>1, Widths
  <2>3. QED
    BY <1>5, <2>2, Widths
<1>7. PICK q \in Int : q = t \div p
  BY <1>3, DivMod
<1>8. CASE t >= 0
  BY <1>1, <1>3, <1>8, WordValue
<1>9. CASE t < 0
  <2>1. Sext32bit(a) = t + p * d
    BY <1>1, <1>6, <1>9, WordValue
  <2>2. Sext32bit(a) \div p = q + d
    BY <1>7, <2>1, ModShift
  <2>3. Sext32bit(q + B * c) = Sext32bit(q)
    BY SameWord
  <2>4. QED
    BY <1>1, <1>3, <1>5, <1>7, <2>2, <2>3
<1>10. QED
  BY <1>8, <1>9

LEMMA RightShifts ==
  ASSUME WidthOK, NEW a \in Register, NEW b \in Register, NEW op \in Operations
  PROVE  LET w == WidthOf(op)
             n == b % w
         IN  /\ op \in {"SRL", "SRLW"} =>
                  /\ AsUnsigned(a, w) \div 2 ^ n \in Int
                  /\ Operation(op, a, b) = Shown(AsUnsigned(a, w) \div 2 ^ n, w)
             /\ op = "SRAW" =>
                  /\ AsSigned(a, w) \div 2 ^ n \in Int
                  /\ Operation(op, a, b) = Shown(AsSigned(a, w) \div 2 ^ n, w)
             /\ op = "SRA" =>
                  /\ w = xlen
                  /\ Signed(a) \div 2 ^ n \in Int
                  /\ Operation(op, a, b) = Shown(Signed(a) \div 2 ^ n, w)
<1>1. a \in Int /\ b \in Int
  BY RegisterValue
<1>2. PICK w, n : w = WidthOf(op) /\ n = b % w
  OBVIOUS
<1>3. /\ w \in {H, W} /\ (Narrow(op) <=> w = H)
      /\ ShiftAmount(op, b) = n /\ n \in 0 .. w - 1
      /\ op \notin WordOperations => w = xlen
      /\ op \in WordOperations => w = H
  BY <1>2, WidthOfOperation
<1>4. n \in Nat /\ 2 ^ n \in Nat \ {0}
  BY <1>3, Widths, PowerStep
<1>5. CASE op \in {"SRL", "SRLW"}
  <2>1. PICK v : v = AsUnsigned(a, w)
    OBVIOUS
  <2>2. v = IF w = H THEN Word(a) ELSE a
    BY <1>3, <2>1, RegisterValue
  <2>3. v \in Nat /\ v < M
    <3>1. Word(a) \in 0 .. B - 1 /\ a \in Nat /\ a < M
      BY <1>1, WordValue, RegisterValue
    <3>2. QED
      BY <2>2, <3>1, Widths
  <2>4. PICK u \in Int : u = v \div 2 ^ n /\ Wrap(u) = u
    BY <1>4, <2>3, ShiftedRight
  <2>5. Unextended(op, a, b) = u
    BY <1>3, <1>5, <2>2, <2>4 DEF Unextended, ShiftRight
  <2>6. Operation(op, a, b) = Shown(u, w)
    BY <1>3, <2>4, <2>5, ExtendedResult DEF Operation
  <2>7. QED
    BY <1>2, <1>5, <2>1, <2>4, <2>6
<1>6. CASE op = "SRA"
  <2>1. w = xlen
    BY <1>3, <1>6 DEF WordOperations
  <2>2. PICK t \in Int : t = Signed(a)
    <3>1. a - M \in Int
      BY <1>1, Widths
    <3>2. Signed(a) = a \/ Signed(a) = a - M
      BY DEF Signed
    <3>3. QED
      BY <1>1, <3>1, <3>2
  <2>3. PICK u \in Int : u = t \div 2 ^ n
    BY <1>4, DivMod
  <2>4. Unextended(op, a, b) = Wrap(u)
    BY <1>3, <1>6, <2>2, <2>3 DEF Unextended, ShiftRightSigned
  <2>5. Operation(op, a, b) = Shown(u, w)
    BY <1>3, <2>4, ExtendedResult DEF Operation
  <2>6. QED
    BY <1>2, <1>6, <2>1, <2>2, <2>3, <2>5
<1>7. CASE op = "SRAW"
  <2>1. w = H
    BY <1>3, <1>7 DEF WordOperations
  <2>2. PICK t \in Int : t = AsSigned(a, H)
    BY <1>1, WordValue DEF IsSignedWord
  <2>3. PICK u \in Int : u = t \div 2 ^ n
    BY <1>4, DivMod
  <2>4. Unextended(op, a, b) = Sext32bit(a) \div 2 ^ n
    BY <1>3, <1>7 DEF Unextended, ShiftRight
  <2>5. Sext32bit(Unextended(op, a, b)) = Sext32bit(u)
    BY <1>1, <1>3, <2>1, <2>2, <2>3, <2>4, WordShift
  <2>6. Operation(op, a, b) = Shown(u, w)
    BY <1>3, <2>1, <2>5, SextValue DEF Operation
  <2>7. QED
    BY <1>2, <1>7, <2>1, <2>2, <2>3, <2>6
<1>8. QED
  BY <1>5, <1>6, <1>7

\* Sign extension keeps the order of signed and of unsigned numbers.
LEMMA ProperOrder ==
  ASSUME WidthOK, NEW a, NEW b, Proper(a), Proper(b)
  PROVE  /\ Signed(a) < Signed(b) <=> AsSigned(a, xlen) < AsSigned(b, xlen)
         /\ a < b <=> AsUnsigned(a, xlen) < AsUnsigned(b, xlen)
         /\ a = b <=> AsUnsigned(a, xlen) = AsUnsigned(b, xlen)
         /\ AsSigned(a, xlen) \in Int /\ AsSigned(b, xlen) \in Int
         /\ AsUnsigned(a, xlen) \in Int /\ AsUnsigned(b, xlen) \in Int
<1>0. a \in Register /\ b \in Register
  BY DEF Proper
<1>1. a \in Int /\ b \in Int
  BY <1>0, RegisterValue
<1>2. /\ AsSigned(a, xlen) = Signed(a)
      /\ AsSigned(b, xlen) = Signed(b)
      /\ Signed(a) \in Int /\ Signed(b) \in Int
  BY <1>1, ProperValue, Widths DEF Signed
<1>3. CASE xlen = W
  BY <1>0, <1>1, <1>2, <1>3, RegisterValue
<1>4. CASE xlen = H
  <2>1. PICK s, t : s = AsSigned(a, H) /\ t = AsSigned(b, H)
    OBVIOUS
  <2>2. IsSignedWord(s) /\ IsSignedWord(t)
    BY <1>1, <2>1, WordValue
  <2>3. /\ a = IF s < 0 THEN s + M ELSE s
        /\ b = IF t < 0 THEN t + M ELSE t
    BY <1>1, <1>4, <2>1, WordValue DEF Proper, IsExtended
  <2>4. /\ AsUnsigned(a, xlen) = IF s < 0 THEN s + B ELSE s
        /\ AsUnsigned(b, xlen) = IF t < 0 THEN t + B ELSE t
    BY <1>0, <1>1, <1>4, <2>1, WordValue, RegisterValue
  <2>5. QED
    BY <1>2, <2>2, <2>3, <2>4, Widths DEF IsSignedWord
<1>5. QED
  BY <1>3, <1>4 DEF WidthOK

LEMMA Comparisons ==
  ASSUME WidthOK, NEW a \in Register, NEW b \in Register, NEW op \in {"SLT", "SLTU"}
  PROVE  /\ Operation(op, a, b) \in {0, 1}
         /\ Proper(Operation(op, a, b))
         /\ Proper(a) /\ Proper(b) => OperationAsDefined(op, a, b)
<1>1. WidthOf(op) = xlen /\ (Narrow(op) <=> xlen = H)
  BY DEF WidthOf, WordOperations, WordDivisions, Narrow
<1>2. PICK c \in {0, 1} : c = Unextended(op, a, b)
  BY DEF Unextended
<1>3. Sext32bit(c) = c
  <2>1. IsSignedWord(c)
    BY Widths DEF IsSignedWord
  <2>2. AsSigned(c + B * 0, H) = c
    BY <2>1, WordValueUnique
  <2>3. c \in Int /\ c + B * 0 = c
    BY Widths
  <2>4. AsSigned(c, H) = c
    BY <2>2, <2>3
  <2>5. QED
    BY <2>3, <2>4, WordValue
<1>4. Operation(op, a, b) = c
  BY <1>2, <1>3 DEF Operation
<1>5. Proper(c)
  BY <1>3, Widths DEF Proper, Register, IsExtended
<1>6. CASE op = "SLT"
  <2>1. c = 1 <=> Signed(a) < Signed(b)
    BY <1>2, <1>6 DEF Unextended
  <2>2. Proper(a) /\ Proper(b) => (c = 1 <=> AsSigned(a, xlen) < AsSigned(b, xlen))
    BY <2>1, ProperOrder
  <2>3. QED
    BY <1>1, <1>4, <1>5, <1>6, <2>2 DEF OperationAsDefined
<1>7. CASE op = "SLTU"
  <2>1. c = 1 <=> a < b
    BY <1>2, <1>7 DEF Unextended
  <2>2. Proper(a) /\ Proper(b) => (c = 1 <=> AsUnsigned(a, xlen) < AsUnsigned(b, xlen))
    BY <2>1, ProperOrder
  <2>3. QED
    BY <1>1, <1>4, <1>5, <1>7, <2>2 DEF OperationAsDefined
<1>8. QED
  BY <1>6, <1>7

LEMMA Logic ==
  ASSUME WidthOK, NEW a \in Register, NEW b \in Register, NEW op \in {"AND", "OR", "XOR"}
  PROVE  Proper(Operation(op, a, b)) /\ OperationAsDefined(op, a, b)
<1>1. WidthOf(op) = xlen /\ (Narrow(op) <=> xlen = H)
  BY DEF WidthOf, WordOperations, WordDivisions, Narrow
<1>2. PICK c : c = Unextended(op, a, b)
  OBVIOUS
<1>3. PICK r : r = Operation(op, a, b)
  OBVIOUS
<1>5. /\ op = "AND" => c = And(a, b)
      /\ op = "OR" => c = Or(a, b)
      /\ op = "XOR" => c = Xor(a, b)
  BY <1>2 DEF Unextended
<1>6. c \in Register /\ c \in Int
  <2>1. c \in Register
    BY <1>5, BitOperations
  <2>2. QED
    BY <2>1 DEF Register
<1>7. r = IF xlen = H THEN Sext32bit(c) ELSE c
  BY <1>1, <1>2, <1>3 DEF Operation
<1>8. Proper(r)
  BY <1>6, <1>7, SextValue DEF Proper, IsExtended
<1>9. ASSUME NEW k \in 0 .. xlen - 1
      PROVE  k \in 0 .. W - 1 /\ (IsSet(r, k) <=> IsSet(c, k))
  BY <1>6, <1>7, <1>9, SextBits, Widths DEF WidthOK
<1>10. ASSUME NEW k \in 0 .. xlen - 1
       PROVE  /\ op = "AND" => (IsSet(r, k) <=> IsSet(a, k) /\ IsSet(b, k))
              /\ op = "OR" => (IsSet(r, k) <=> IsSet(a, k) \/ IsSet(b, k))
              /\ op = "XOR" => (IsSet(r, k) <=> ~(IsSet(a, k) <=> IsSet(b, k)))
  BY <1>5, <1>9, BitOperations
<1>11. \A v, k : IsSet(v, k) \in BOOLEAN
  BY DEF IsSet
<1>12. CASE op = "AND"
  BY <1>1, <1>3, <1>8, <1>10, <1>11, <1>12 DEF OperationAsDefined
<1>13. CASE op = "OR"
  BY <1>1, <1>3, <1>8, <1>10, <1>11, <1>13 DEF OperationAsDefined
<1>14. CASE op = "XOR"
  BY <1>1, <1>3, <1>8, <1>10, <1>11, <1>14 DEF OperationAsDefined
<1>15. QED
  BY <1>12, <1>13, <1>14

\* OperationInstruction on registers of the hart.
LEMMA OperationDefined ==
  ASSUME WidthOK, NEW a \in Register, NEW b \in Register, NEW op \in Operations
  PROVE  /\ Proper(Operation(op, a, b))
         /\ (op \in LooksAtWhole => Proper(a) /\ Proper(b)) => OperationAsDefined(op, a, b)
<1>1. a \in Int /\ b \in Int
  BY RegisterValue
<1>2. PICK w : w = WidthOf(op)
  OBVIOUS
<1>3. w \in {H, W} /\ (xlen = H => w = H)
  BY <1>2, WidthOfOperation
<1>4. op \in {"ADD", "ADDW", "SUB", "SUBW", "AND", "OR", "XOR", "SLL", "SLLW", "SRL",
              "SRLW", "SRA", "SRAW", "SLT", "SLTU"}
  BY DEF Operations, WordOperations
<1>5. ASSUME NEW u \in Int, Operation(op, a, b) = Shown(u, w)
      PROVE  Proper(Operation(op, a, b))
  BY <1>3, <1>5, ShownProper
<1>6. CASE op \in {"ADD", "ADDW"}
  <2>1. PICK u \in Int : u = a + b
    BY <1>1
  <2>2. Operation(op, a, b) = Shown(u, w)
    BY <1>2, <1>6, <2>1, WrappedOperations
  <2>3. QED
    BY <1>2, <1>5, <1>6, <2>1, <2>2 DEF OperationAsDefined
<1>7. CASE op \in {"SUB", "SUBW"}
  <2>1. PICK u \in Int : u = a - b
    BY <1>1
  <2>2. Operation(op, a, b) = Shown(u, w)
    BY <1>2, <1>7, <2>1, WrappedOperations
  <2>3. QED
    BY <1>2, <1>5, <1>7, <2>1, <2>2 DEF OperationAsDefined
<1>8. CASE op \in {"SLL", "SLLW"}
  <2>1. a * 2 ^ (b % w) \in Int /\ Operation(op, a, b) = Shown(a * 2 ^ (b % w), w)
    BY <1>2, <1>8, WrappedOperations
  <2>2. QED
    BY <1>2, <1>5, <1>8, <2>1 DEF OperationAsDefined
<1>9. CASE op \in {"SRL", "SRLW"}
  <2>1. /\ AsUnsigned(a, w) \div 2 ^ (b % w) \in Int
        /\ Operation(op, a, b) = Shown(AsUnsigned(a, w) \div 2 ^ (b % w), w)
    BY <1>2, <1>9, RightShifts
  <2>2. QED
    BY <1>2, <1>5, <1>9, <2>1 DEF OperationAsDefined
<1>10. CASE op = "SRAW"
  <2>1. /\ AsSigned(a, w) \div 2 ^ (b % w) \in Int
        /\ Operation(op, a, b) = Shown(AsSigned(a, w) \div 2 ^ (b % w), w)
    BY <1>2, <1>10, RightShifts
  <2>2. QED
    BY <1>2, <1>5, <1>10, <2>1 DEF OperationAsDefined
<1>a. CASE op = "SRA"
  <2>1. /\ w = xlen
        /\ Signed(a) \div 2 ^ (b % w) \in Int
        /\ Operation(op, a, b) = Shown(Signed(a) \div 2 ^ (b % w), w)
    BY <1>2, <1>a, RightShifts
  <2>2. Proper(a) => AsSigned(a, w) = Signed(a)
    BY <2>1, ProperValue
  <2>3. op \in LooksAtWhole
    BY <1>a DEF LooksAtWhole
  <2>4. QED
    BY <1>2, <1>5, <1>a, <2>1, <2>2, <2>3 DEF OperationAsDefined
<1>11. CASE op \in {"AND", "OR", "XOR"}
  BY <1>11, Logic
<1>12. CASE op \in {"SLT", "SLTU"}
  BY <1>12, Comparisons DEF LooksAtWhole
<1>13. QED
  BY <1>4, <1>6, <1>7, <1>8, <1>9, <1>10, <1>a, <1>11, <1>12

-----------------------------------------------------------------------------
(* ImmediateShiftInstruction and BranchInstruction.                        *)

\* A number that a word can show needs no extension.
LEMMA SignedWordShown ==
  ASSUME NEW u, IsSignedWord(u)
  PROVE  AsSigned(u, H) = u /\ Shown(u, H) = Wrap(u) /\ Shown(u, W) = Wrap(u)
<1>1. u \in Int /\ u + B * 0 = u
  BY Widths DEF IsSignedWord
<1>2. AsSigned(u + B * 0, H) = u
  BY WordValueUnique
<1>3. QED
  BY <1>1, <1>2, WrapValue DEF Shown, Wrap

LEMMA SignedShift ==
  ASSUME NEW t, IsSignedWord(t), NEW n \in Nat
  PROVE  IsSignedWord(t \div 2 ^ n)
<1>1. PICK p \in Nat \ {0} : p = 2 ^ n
  BY PowerStep
<1>2. PICK lo \in Int, hi \in Int : lo = 0 - Half /\ hi = Half
  BY Widths
<1>3. PICK c \in Nat, h \in Nat : p = c + 1 /\ h = Half
  BY <1>1, Widths
<1>4. c * h >= 0
  BY <1>3
<1>5. p * lo = 0 - c * h - h /\ p * hi = c * h + h
  BY <1>2, <1>3
<1>6. p * lo <= t /\ t < p * hi
  BY <1>3, <1>4, <1>5 DEF IsSignedWord
<1>7. t \div p \in Int /\ lo <= t \div p /\ t \div p < hi
  BY <1>6, DivBounds, DivMod DEF IsSignedWord
<1>8. QED
  BY <1>1, <1>2, <1>7 DEF IsSignedWord

LEMMA WidthOfShift ==
  ASSUME WidthOK, NEW op \in ShiftOperations
  PROVE  /\ op \in {"SLLI", "SRLI", "SRAI", "SLLIW", "SRLIW", "SRAIW"}
         /\ op \in {"SLLIW", "SRLIW", "SRAIW"} => xlen = W /\ WidthOf(op) = H
         /\ op \in {"SLLI", "SRLI", "SRAI"} => WidthOf(op) = xlen
         /\ WidthOf(op) \in {H, W} /\ (xlen = H => WidthOf(op) = H)
         /\ WidthOf(op) = IF xlen = W /\ op \in {"SLLI", "SRLI", "SRAI"} THEN W ELSE H
<1>1. op \in {"SLLI", "SRLI", "SRAI", "SLLIW", "SRLIW", "SRAIW"}
  BY DEF ShiftOperations
<1>2. op \in {"SLLIW", "SRLIW", "SRAIW"} => xlen = W /\ WidthOf(op) = H
  BY DEF ShiftOperations, WidthOf
<1>3. op \in {"SLLI", "SRLI", "SRAI"} => WidthOf(op) = xlen
  BY DEF WidthOf, WordOperations, WordDivisions
<1>4. QED
  BY <1>1, <1>2, <1>3, Widths DEF WidthOK

LEMMA ShiftDefined ==
  ASSUME WidthOK, NEW a \in Register, NEW op \in ShiftOperations,
         NEW n \in 0 .. WidthOf(op) - 1, op \in LooksAtWhole => Proper(a)
  PROVE  Proper(ImmediateShift(op, a, n)) /\ ShiftAsDefined(op, a, n)
<1>1. a \in Int
  BY RegisterValue
<1>2. PICK w : w = WidthOf(op)
  OBVIOUS
<1>3. /\ w \in {H, W} /\ (xlen = H => w = H)
      /\ op \in {"SLLI", "SRLI", "SRAI"} => w = xlen
      /\ op \in {"SLLIW", "SRLIW", "SRAIW"} => w = H /\ xlen = W
  BY <1>2, WidthOfShift
<1>4. n \in Nat /\ 2 ^ n \in Nat \ {0}
  BY <1>2, <1>3, Widths, PowerStep
<1>5. ASSUME NEW u \in Int, ImmediateShift(op, a, n) = Shown(u, w)
      PROVE  Proper(ImmediateShift(op, a, n))
  BY <1>3, <1>5, ShownProper
<1>6. CASE op \in {"SLLI", "SLLIW"}
  <2>1. PICK u \in Int : u = a * 2 ^ n
    BY <1>1, <1>4
  <2>2. /\ Sext32bit(Wrap(u)) = Shown(u, H) /\ Wrap(u) = Shown(u, W)
        /\ Sext32bit(Word(Wrap(u))) = Shown(u, H)
    BY <2>1, ExtendedResult, WrapValue, SextValue
  <2>3. ImmediateShift(op, a, n) = Shown(u, w)
    BY <1>3, <1>6, <2>1, <2>2, Widths DEF ImmediateShift, ShiftLeft, WidthOK
  <2>4. QED
    BY <1>2, <1>5, <1>6, <2>1, <2>3 DEF ShiftAsDefined
<1>7. CASE op \in {"SRLI", "SRLIW"}
  <2>1. PICK v : v = AsUnsigned(a, w)
    OBVIOUS
  <2>2. v = IF w = H THEN Word(a) ELSE a
    BY <1>3, <2>1, RegisterValue
  <2>3. v \in Nat /\ v < M
    <3>1. Word(a) \in 0 .. B - 1 /\ a \in Nat /\ a < M
      BY <1>1, WordValue, RegisterValue
    <3>2. QED
      BY <2>2, <3>1, Widths
  <2>4. PICK u \in Int : u = v \div 2 ^ n /\ Wrap(u) = u
    BY <1>4, <2>3, ShiftedRight
  <2>5. Sext32bit(u) = Shown(u, H) /\ u = Shown(u, W)
    BY <2>4, ExtendedResult
  <2>6. ImmediateShift(op, a, n) = Shown(u, w)
    BY <1>3, <1>7, <2>2, <2>4, <2>5, Widths DEF ImmediateShift, ShiftRight, WidthOK
  <2>7. QED
    BY <1>2, <1>5, <1>7, <2>1, <2>4, <2>6 DEF ShiftAsDefined
<1>8. CASE op \in {"SRAI", "SRAIW"}
  <2>1. PICK t \in Int : t = AsSigned(a, w)
    <3>1. AsSigned(a, H) \in Int
      BY <1>1, WordValue DEF IsSignedWord
    <3>2. xlen = W => AsSigned(a, W) \in Int
      BY <1>1, RegisterValue, Widths DEF Signed
    <3>3. QED
      BY <1>3, <3>1, <3>2, Widths DEF WidthOK
  <2>2. PICK u \in Int : u = t \div 2 ^ n
    BY <1>4, <2>1, DivMod
  <2>3. Wrap(u) = Shown(u, w)
    <3>1. CASE w = W
      BY <3>1, ExtendedResult
    <3>2. CASE w = H
      BY <1>1, <1>4, <2>1, <2>2, <3>2, WordValue, SignedShift, SignedWordShown
    <3>3. QED
      BY <1>3, <3>1, <3>2
  <2>4. ImmediateShift(op, a, n) = Wrap(u)
    <3>1. CASE op = "SRAI"
      BY <1>3, <2>1, <2>2, <3>1, ProperValue
      DEF ImmediateShift, ShiftRightSigned, LooksAtWhole
    <3>2. CASE op = "SRAIW"
      BY <1>1, <1>3, <2>1, <2>2, <3>2, SextValue DEF ImmediateShift
    <3>3. QED
      BY <1>8, <3>1, <3>2
  <2>5. QED
    BY <1>2, <1>5, <1>8, <2>1, <2>2, <2>3, <2>4 DEF ShiftAsDefined
<1>9. QED
  BY <1>6, <1>7, <1>8, WidthOfShift

LEMMA BranchDefined ==
  ASSUME WidthOK, NEW a, NEW b, Proper(a), Proper(b)
  PROVE  BranchesAsDefined(a, b)
<1>1. /\ Branch("BEQ", a, b) <=> a = b
      /\ Branch("BNE", a, b) <=> a # b
      /\ Branch("BLT", a, b) <=> Signed(a) < Signed(b)
      /\ Branch("BGE", a, b) <=> Signed(a) >= Signed(b)
      /\ Branch("BLTU", a, b) <=> a < b
      /\ Branch("BGEU", a, b) <=> a >= b
  BY DEF Branch
<1>2. /\ Branch("BEQ", a, b) \in BOOLEAN /\ Branch("BNE", a, b) \in BOOLEAN
      /\ Branch("BLT", a, b) \in BOOLEAN /\ Branch("BGE", a, b) \in BOOLEAN
      /\ Branch("BLTU", a, b) \in BOOLEAN /\ Branch("BGEU", a, b) \in BOOLEAN
  BY DEF Branch
<1>3. /\ Signed(a) >= Signed(b) <=> ~(Signed(a) < Signed(b))
      /\ a >= b <=> ~(a < b)
  <2>1. a \in Int /\ b \in Int /\ Signed(a) \in Int /\ Signed(b) \in Int
    BY RegisterValue, Widths DEF Signed, Proper
  <2>2. QED
    BY <2>1
<1>4. QED
  BY <1>1, <1>2, <1>3, ProperOrder DEF BranchesAsDefined

-----------------------------------------------------------------------------
(* Products.                                                               *)

LEMMA Expand ==
  ASSUME NEW n \in Int, NEW a \in Int, NEW b \in Int, NEW c \in Int, NEW d \in Int
  PROVE  (n * a + b) * (n * c + d) = (n * n) * (a * c) + n * (a * d) + n * (b * c) + b * d
OBVIOUS

LEMMA Collect ==
  ASSUME NEW n \in Int, NEW ac \in Int, NEW q1 \in Int, NEW r1 \in Int, NEW q2 \in Int,
         NEW r2 \in Int, NEW q3 \in Int, NEW r3 \in Int, NEW q4 \in Int
  PROVE  (n * n) * ac + n * (n * q1 + r1) + n * (n * q2 + r2) + (n * q3 + r3)
           = (n * n) * (ac + q1 + q2 + q4) + (n * ((r1 + r2 + q3) - n * q4) + r3)
OBVIOUS

\* The four partial products and the carry are the upper half of the product.
LEMMA PartialProducts ==
  ASSUME NEW n \in Nat \ {0}, NEW a \in Int, NEW b \in Int, NEW c \in Int, NEW d \in Int
  PROVE  /\ a * c + ((a * d) \div n) + ((b * c) \div n)
              + ((((a * d) % n) + ((b * c) % n) + ((b * d) \div n)) \div n)
            = ((n * a + b) * (n * c + d)) \div (n * n)
         /\ ((n * a + b) * (n * c + d)) \div (n * n) \in Int
<1>1. PICK ad \in Int, bc \in Int, bd \in Int, ac \in Int :
        ad = a * d /\ bc = b * c /\ bd = b * d /\ ac = a * c
  OBVIOUS
<1>2. PICK q1 \in Int, r1 \in 0 .. n - 1 : q1 = ad \div n /\ r1 = ad % n /\ ad = n * q1 + r1
  BY Divided, Zenon
<1>3. PICK q2 \in Int, r2 \in 0 .. n - 1 : q2 = bc \div n /\ r2 = bc % n /\ bc = n * q2 + r2
  BY Divided, Zenon
<1>4. PICK q3 \in Int, r3 \in 0 .. n - 1 : q3 = bd \div n /\ r3 = bd % n /\ bd = n * q3 + r3
  BY Divided, Zenon
<1>5. PICK mid \in Int : mid = r1 + r2 + q3
  OBVIOUS
<1>6. PICK q4 \in Int, r4 \in 0 .. n - 1 : q4 = mid \div n /\ r4 = mid % n /\ mid = n * q4 + r4
  BY Divided, Zenon
<1>7. PICK q \in Int, r \in Int : q = ac + q1 + q2 + q4 /\ r = n * r4 + r3
  OBVIOUS
<1>8. PICK nn \in Nat \ {0} : nn = n * n
  OBVIOUS
<1>9. PICK p \in Int : p = (n * a + b) * (n * c + d)
  OBVIOUS
<1>10. p = nn * q + r
  <2>1. n \in Int
    OBVIOUS
  <2>2. (n * a + b) * (n * c + d) = (n * n) * (a * c) + n * (a * d) + n * (b * c) + b * d
    BY <2>1, Expand
  <2>3. p = (n * n) * ac + n * (n * q1 + r1) + n * (n * q2 + r2) + (n * q3 + r3)
    BY <1>1, <1>2, <1>3, <1>4, <1>9, <2>2, Zenon
  <2>4. r4 = (r1 + r2 + q3) - n * q4
    <3>1. PICK t \in Int : t = n * q4
      OBVIOUS
    <3>2. QED
      BY <1>5, <1>6, <3>1
  <2>5. (n * n) * ac + n * (n * q1 + r1) + n * (n * q2 + r2) + (n * q3 + r3)
          = (n * n) * (ac + q1 + q2 + q4) + (n * ((r1 + r2 + q3) - n * q4) + r3)
    <3>1. r1 \in Int /\ r2 \in Int /\ r3 \in Int
      OBVIOUS
    <3>2. QED
      BY <2>1, <3>1, Collect
  <2>6. QED
    BY <1>7, <1>8, <2>3, <2>4, <2>5, Zenon
<1>11. r \in 0 .. nn - 1
  <2>1. PICK e \in Nat : n = r4 + 1 + e
    OBVIOUS
  <2>2. nn = n * r4 + n + n * e
    <3>1. n * (r4 + 1 + e) = n * r4 + n + n * e
      OBVIOUS
    <3>2. QED
      BY <1>8, <2>1, <3>1, Zenon
  <2>3. n * e >= 0 /\ n * r4 >= 0
    OBVIOUS
  <2>4. QED
    BY <1>4, <1>7, <2>2, <2>3
<1>12. p \div nn = q
  BY <1>10, <1>11, DivModUnique
<1>13. QED
  BY <1>1, <1>2, <1>3, <1>4, <1>5, <1>6, <1>7, <1>8, <1>9, <1>12

LEMMA HighHalfValue ==
  ASSUME NEW a \in Int, NEW b \in Int, NEW c \in Int, NEW d \in Int,
         NEW v \in Int, NEW u \in Int, v = B * a + b, u = B * c + d
  PROVE  /\ (v * u) \div M \in Int
         /\ HighHalf(a, b, c, d) = Wrap((v * u) \div M)
<1>1. B \in Nat \ {0} /\ M = B * B
  BY Widths
<1>2. HighHalf(a, b, c, d)
        = Wrap(a * c + ((a * d) \div B) + ((b * c) \div B)
                 + ((((a * d) % B) + ((b * c) % B) + ((b * d) \div B)) \div B))
  BY DEF HighHalf
<1>3. /\ a * c + ((a * d) \div B) + ((b * c) \div B)
           + ((((a * d) % B) + ((b * c) % B) + ((b * d) \div B)) \div B)
         = ((B * a + b) * (B * c + d)) \div (B * B)
      /\ ((B * a + b) * (B * c + d)) \div (B * B) \in Int
  BY <1>1, PartialProducts
<1>4. QED
  BY <1>1, <1>2, <1>3, Zenon

\* A register by its upper and its lower half, signed or not.
LEMMA Halves ==
  ASSUME NEW a \in Register
  PROVE  /\ a \in Int /\ Signed(a) \in Int
         /\ Upper(a) \in Int /\ UpperSigned(a) \in Int /\ Word(a) \in Int
         /\ a = B * Upper(a) + Word(a)
         /\ Signed(a) = B * UpperSigned(a) + Word(a)
<1>1. a \in Int /\ Signed(a) \in Int /\ (Signed(a) = a \/ Signed(a) = a - M)
  BY Widths DEF Register, Signed
<1>2. PICK n \in Nat \ {0} : n = B
  BY Widths
<1>3. PICK s \in Int : s = Signed(a)
  BY <1>1
<1>4. PICK k \in Int : s = a + n * k
  <2>1. M = B * B
    BY Widths
  <2>2. s = a + n * 0 \/ s = a + n * (0 - n)
    BY <1>1, <1>2, <1>3, <2>1
  <2>3. 0 \in Int /\ 0 - n \in Int
    OBVIOUS
  <2>4. QED
    BY <2>2, <2>3, Zenon
<1>5. s % n = a % n
  BY <1>1, <1>4, ModShift
<1>6. /\ a \div n \in Int /\ a % n \in 0 .. n - 1 /\ a = n * (a \div n) + (a % n)
      /\ s \div n \in Int /\ s = n * (s \div n) + (s % n)
  BY <1>1, DivMod
<1>7. QED
  BY <1>1, <1>2, <1>3, <1>5, <1>6 DEF Upper, UpperSigned, Word

\* The upper half of a product that fits a register, however it is wrapped.
LEMMA WordHighHalf ==
  ASSUME NEW p \in Int
  PROVE  /\ p \div B \in Int
         /\ Sext32bit(Wrap(p) \div B) = Shown(p \div B, H)
         /\ Sext32bit(Wrap(Signed(Wrap(p)) \div B)) = Shown(p \div B, H)
         /\ Sext32bit(p \div B) = Shown(p \div B, H)
<1>1. PICK n \in Nat \ {0} : n = B
  BY Widths
<1>2. PICK q \in Int : q = p \div n
  BY DivMod, Zenon
<1>3. \A k \in Int : /\ (p + M * k) \div n = q + n * k
                     /\ q + n * k \in Int
                     /\ Sext32bit(q + n * k) = Shown(q, H)
  <2>1. SUFFICES ASSUME NEW k \in Int
                 PROVE  /\ (p + M * k) \div n = q + n * k
                        /\ q + n * k \in Int
                        /\ Sext32bit(q + n * k) = Shown(q, H)
    OBVIOUS
  <2>2. PICK j \in Int : j = n * k
    OBVIOUS
  <2>3. M * k = n * j
    BY <1>1, <2>2, Widths
  <2>4. (p + n * j) \div n = q + j
    BY <1>2, ModShift
  <2>5. Sext32bit(q + n * k) = Sext32bit(q)
    BY <1>1, SameWord
  <2>6. QED
    BY <2>2, <2>3, <2>4, <2>5, SextValue
<1>4. PICK k \in Int : Wrap(p) = p + M * k
  <2>1. PICK m \in Nat \ {0} : m = M
    BY Widths
  <2>2. PICK t \in Int, r \in 0 .. m - 1 : t = p \div m /\ r = p % m /\ p = m * t + r
    BY DivMod, Zenon
  <2>3. PICK k \in Int : k = 0 - t
    OBVIOUS
  <2>4. r = p + m * k
    <3>1. m * k = 0 - m * t
      BY <2>3
    <3>2. QED
      BY <2>2, <3>1
  <2>5. QED
    BY <2>1, <2>2, <2>4 DEF Wrap
<1>5. PICK j \in Int : Signed(Wrap(p)) = p + M * j
  <2>1. PICK i \in Int : i = k - 1
    OBVIOUS
  <2>2. M * i = M * k - M
    BY <2>1, Widths
  <2>3. Wrap(p) - M = p + M * i
    BY <1>4, <2>2, Widths
  <2>4. QED
    BY <1>4, <2>3 DEF Signed
<1>6. Sext32bit(Wrap(p) \div B) = Shown(q, H)
  BY <1>1, <1>3, <1>4
<1>7. Sext32bit(Wrap(Signed(Wrap(p)) \div B)) = Shown(q, H)
  BY <1>1, <1>3, <1>5, WrapValue
<1>8. Sext32bit(q) = Shown(q, H)
  BY SextValue
<1>9. QED
  BY <1>1, <1>2, <1>6, <1>7, <1>8

\* The multiplications of MultInstruction on registers of the hart.
LEMMA ProductDefined ==
  ASSUME WidthOK, NEW a \in Register, NEW b \in Register, NEW op \in Multiplications
  PROVE  /\ Proper(Extended(op, Multiply(op, a, b)))
         /\ (op \in LooksAtWhole => Proper(a) /\ Proper(b)) => ProductAsDefined(op, a, b)
<1>1. a \in Int /\ b \in Int
  BY RegisterValue
<1>2. PICK w : w = WidthOf(op)
  OBVIOUS
<1>3. /\ op \in {"MUL", "MULH", "MULHSU", "MULHU", "MULW"}
      /\ op # "MULW" => w = xlen
      /\ op = "MULW" => w = H /\ xlen = W
      /\ w \in {H, W} /\ (xlen = H => w = H)
  BY <1>2 DEF Multiplications, WidthOf, WidthOK, WordOperations, WordDivisions
<1>4. ASSUME NEW u \in Int, Extended(op, Multiply(op, a, b)) = Shown(u, w)
      PROVE  Proper(Extended(op, Multiply(op, a, b)))
  BY <1>3, <1>4, ShownProper
<1>5. CASE op \in {"MUL", "MULW"}
  <2>1. PICK u \in Int : u = a * b
    BY <1>1
  <2>2. Extended(op, Multiply(op, a, b)) = Shown(u, w)
    BY <1>3, <1>5, <2>1, ExtendedResult, Widths
       DEF Extended, Multiply, WordDivisions, WidthOK
  <2>3. QED
    BY <1>2, <1>4, <1>5, <2>1, <2>2 DEF ProductAsDefined
<1>6. ASSUME NEW p \in Int, op \in {"MULH", "MULHSU", "MULHU"},
             Extended(op, Multiply(op, a, b)) = Shown(p \div 2 ^ w, w),
             (op \in LooksAtWhole => Proper(a) /\ Proper(b)) =>
               /\ op = "MULH" => p = AsSigned(a, w) * AsSigned(b, w)
               /\ op = "MULHSU" => p = AsSigned(a, w) * AsUnsigned(b, w)
               /\ op = "MULHU" => p = AsUnsigned(a, w) * AsUnsigned(b, w)
      PROVE  /\ Proper(Extended(op, Multiply(op, a, b)))
             /\ (op \in LooksAtWhole => Proper(a) /\ Proper(b)) => ProductAsDefined(op, a, b)
  <2>1. 2 ^ w \in Nat \ {0}
    BY <1>3, Widths
  <2>2. p \div 2 ^ w \in Int
    BY <2>1, DivMod
  <2>3. Proper(Extended(op, Multiply(op, a, b)))
    BY <1>4, <1>6, <2>2
  <2>4. (op \in LooksAtWhole => Proper(a) /\ Proper(b)) => ProductAsDefined(op, a, b)
    BY <1>2, <1>6 DEF ProductAsDefined
  <2>5. QED
    BY <2>3, <2>4
<1>7. /\ Signed(a) \in Int /\ Signed(b) \in Int /\ Word(a) \in Int /\ Word(b) \in Int
      /\ Upper(a) \in Int /\ Upper(b) \in Int
      /\ UpperSigned(a) \in Int /\ UpperSigned(b) \in Int
      /\ a = B * Upper(a) + Word(a) /\ b = B * Upper(b) + Word(b)
      /\ Signed(a) = B * UpperSigned(a) + Word(a)
      /\ Signed(b) = B * UpperSigned(b) + Word(b)
  BY <1>1, Halves
<1>8. CASE op \in {"MULH", "MULHSU", "MULHU"} /\ xlen = H
  <2>1. /\ Proper(a) => AsSigned(a, w) = Signed(a)
        /\ Proper(b) => AsSigned(b, w) = Signed(b)
        /\ AsUnsigned(a, w) = Word(a) /\ AsUnsigned(b, w) = Word(b) /\ 2 ^ w = B
    BY <1>3, <1>8, ProperValue, RegisterValue, Widths
  <2>2. CASE op = "MULH"
    <3>1. PICK p \in Int : p = Signed(a) * Signed(b)
      BY <1>7
    <3>2. Extended(op, Multiply(op, a, b)) = Shown(p \div B, H)
      BY <1>8, <2>2, <3>1, WordHighHalf DEF Extended, Multiply
    <3>3. QED
      BY <1>3, <1>6, <1>8, <2>1, <2>2, <3>1, <3>2 DEF LooksAtWhole
  <2>3. CASE op = "MULHSU"
    <3>1. PICK p \in Int : p = Signed(a) * Word(b)
      BY <1>7
    <3>2. Extended(op, Multiply(op, a, b)) = Shown(p \div B, H)
      BY <1>8, <2>3, <3>1, WordHighHalf DEF Extended, Multiply
    <3>3. QED
      BY <1>3, <1>6, <1>8, <2>1, <2>3, <3>1, <3>2 DEF LooksAtWhole
  <2>4. CASE op = "MULHU"
    <3>1. PICK p \in Int : p = Word(a) * Word(b)
      BY <1>7
    <3>2. Extended(op, Multiply(op, a, b)) = Shown(p \div B, H)
      BY <1>8, <2>4, <3>1, WordHighHalf DEF Extended, Multiply
    <3>3. QED
      BY <1>3, <1>6, <1>8, <2>1, <2>4, <3>1, <3>2
  <2>5. QED
    BY <1>8, <2>2, <2>3, <2>4
<1>9. CASE op \in {"MULH", "MULHSU", "MULHU"} /\ xlen = W
  <2>1. /\ AsSigned(a, w) = Signed(a) /\ AsSigned(b, w) = Signed(b)
        /\ AsUnsigned(a, w) = a /\ AsUnsigned(b, w) = b /\ 2 ^ w = M /\ w = W
    BY <1>3, <1>9, RegisterValue, Widths
  <2>2. Extended(op, Multiply(op, a, b)) = Multiply(op, a, b)
    BY <1>9, Widths DEF Extended, WordDivisions
  <2>3. CASE op = "MULH"
    <3>1. PICK p \in Int : p = Signed(a) * Signed(b)
      BY <1>7
    <3>2. Multiply(op, a, b) = Wrap(p \div M) /\ p \div M \in Int
      <4>1. Multiply(op, a, b) = HighHalf(UpperSigned(a), Word(a), UpperSigned(b), Word(b))
        BY <1>9, <2>3, Widths DEF Multiply
      <4>2. QED
        BY <1>7, <3>1, <4>1, HighHalfValue
    <3>3. QED
      BY <1>6, <1>9, <2>1, <2>2, <2>3, <3>1, <3>2, ExtendedResult
  <2>4. CASE op = "MULHSU"
    <3>1. PICK p \in Int : p = Signed(a) * b
      BY <1>1, <1>7
    <3>2. Multiply(op, a, b) = Wrap(p \div M) /\ p \div M \in Int
      <4>1. Multiply(op, a, b) = HighHalf(UpperSigned(a), Word(a), Upper(b), Word(b))
        BY <1>9, <2>4, Widths DEF Multiply
      <4>2. QED
        BY <1>1, <1>7, <3>1, <4>1, HighHalfValue
    <3>3. QED
      BY <1>6, <1>9, <2>1, <2>2, <2>4, <3>1, <3>2, ExtendedResult
  <2>5. CASE op = "MULHU"
    <3>1. PICK p \in Int : p = a * b
      BY <1>1
    <3>2. Multiply(op, a, b) = Wrap(p \div M) /\ p \div M \in Int
      <4>1. Multiply(op, a, b) = HighHalf(Upper(a), Word(a), Upper(b), Word(b))
        BY <1>9, <2>5, Widths DEF Multiply
      <4>2. QED
        BY <1>1, <1>7, <3>1, <4>1, HighHalfValue
    <3>3. QED
      BY <1>6, <1>9, <2>1, <2>2, <2>5, <3>1, <3>2, ExtendedResult
  <2>6. QED
    BY <1>9, <2>3, <2>4, <2>5
<1>10. QED
  BY <1>3, <1>5, <1>8, <1>9 DEF WidthOK

-----------------------------------------------------------------------------
(* Quotients towards zero.                                                 *)

\* The host's division.
LEMMA TowardsZero ==
  ASSUME NEW a \in Int, NEW b \in Int, b # 0
  PROVE  \E q \in Int, r \in Int, t \in Nat, s \in Nat :
           /\ q = Quotient(a, b) /\ r = Remainder(a, b) /\ a = q * b + r
           /\ q = IF (a < 0) # (b < 0) THEN 0 - t ELSE t
           /\ r = IF a < 0 THEN 0 - s ELSE s
           /\ Magnitude(a) = Magnitude(b) * t + s
           /\ t <= Magnitude(a) /\ s < Magnitude(b) /\ s <= Magnitude(a)
           /\ Magnitude(b) > 1 /\ t > 0 => t < Magnitude(a)
<1>1. PICK m \in Nat, n \in Nat \ {0} : m = Magnitude(a) /\ n = Magnitude(b)
  BY DEF Magnitude
<1>2. m \in Int
  OBVIOUS
<1>3. PICK t \in Int, s \in 0 .. n - 1 : t = m \div n /\ m = n * t + s
  BY <1>2, DivMod
<1>4. t >= 0
  <2>1. SUFFICES ASSUME t < 0 PROVE FALSE
    OBVIOUS
  <2>2. PICK e \in Nat : t = 0 - 1 - e
    BY <2>1
  <2>3. n * (0 - 1 - e) = 0 - n - n * e /\ n * e >= 0
    OBVIOUS
  <2>4. QED
    BY <1>3, <2>2, <2>3
<1>5. t \in Nat
  BY <1>4
<1>6. t <= m /\ s <= m /\ (n > 1 /\ t > 0 => t < m)
  <2>1. PICK e \in Nat : n = e + 1
    OBVIOUS
  <2>2. (e + 1) * t = e * t + t /\ e * t >= 0
    BY <1>5
  <2>3. n * t >= t /\ n * t >= 0
    BY <1>5, <2>1, <2>2
  <2>4. n > 1 /\ t > 0 => e * t > 0
    BY <1>5, <2>1
  <2>5. QED
    BY <1>3, <1>5, <2>1, <2>2, <2>3, <2>4
<1>7. PICK q \in Int : q = IF (a < 0) # (b < 0) THEN 0 - t ELSE t
  OBVIOUS
<1>8. Quotient(a, b) = q
  <2>1. -t = 0 - t
    OBVIOUS
  <2>2. Quotient(a, b) = IF (a < 0) # (b < 0) THEN -t ELSE t
    BY <1>1, <1>3, Zenon DEF Quotient
  <2>3. QED
    BY <1>7, <2>1, <2>2
<1>9. b * q = IF a < 0 THEN 0 - n * t ELSE n * t
  <2>1. b = n \/ b = 0 - n
    BY <1>1 DEF Magnitude
  <2>2. b < 0 => b = 0 - n
    BY <1>1 DEF Magnitude
  <2>3. ~(b < 0) => b = n
    BY <1>1 DEF Magnitude
  <2>4. /\ (0 - n) * (0 - t) = n * t /\ (0 - n) * t = 0 - n * t
        /\ n * (0 - t) = 0 - n * t
    OBVIOUS
  <2>5. CASE b < 0
    BY <1>7, <2>2, <2>4, <2>5
  <2>6. CASE ~(b < 0)
    BY <1>7, <2>3, <2>4, <2>6
  <2>7. QED
    BY <2>5, <2>6
<1>10. PICK r \in Int : r = IF a < 0 THEN 0 - s ELSE s
  OBVIOUS
<1>11. r = a - b * q
  <2>1. a = IF a < 0 THEN 0 - m ELSE m
    BY <1>1 DEF Magnitude
  <2>2. PICK z \in Int : z = n * t
    OBVIOUS
  <2>3. QED
    BY <1>3, <1>9, <1>10, <2>1, <2>2
<1>12. Remainder(a, b) = r
  BY <1>8, <1>11 DEF Remainder
<1>13. a = q * b + r
  <2>1. q * b = b * q /\ b * q \in Int
    OBVIOUS
  <2>2. QED
    BY <1>11, <2>1
<1>14. s \in Nat /\ s < n
  OBVIOUS
<1>15. QED
  BY <1>1, <1>3, <1>5, <1>6, <1>7, <1>8, <1>10, <1>12, <1>13, <1>14

\* A remainder has the sign of the dividend.
LEMMA RemainderSign ==
  ASSUME NEW a \in Int, NEW r \in Int, NEW s \in Nat, r = IF a < 0 THEN 0 - s ELSE s
  PROVE  r * a >= 0
<1>1. PICK m \in Nat : a = IF a < 0 THEN 0 - m ELSE m
  <2>1. 0 - a \in Nat \/ a \in Nat
    OBVIOUS
  <2>2. QED
    BY <2>1
<1>2. (0 - s) * (0 - m) = s * m /\ s * m >= 0
  OBVIOUS
<1>3. QED
  BY <1>1, <1>2

\* The pair of a quotient and a remainder of signed numbers, which overflows
\* for one pair of operands only.
LEMMA SignedPair ==
  ASSUME NEW p \in Nat \ {0, 1}, NEW a \in Int, NEW b \in Int, b # 0,
         0 - p <= a, a < p, 0 - p <= b, b < p
  PROVE  /\ Quotient(a, b) \in Int /\ Remainder(a, b) \in Int
         /\ a = 0 - p /\ b = 0 - 1 => Quotient(a, b) = p /\ Remainder(a, b) = 0
         /\ ~(a = 0 - p /\ b = 0 - 1) =>
              /\ 0 - p <= Quotient(a, b) /\ Quotient(a, b) < p
              /\ 0 - p <= Remainder(a, b) /\ Remainder(a, b) < p
              /\ a = Quotient(a, b) * b + Remainder(a, b)
              /\ Magnitude(Remainder(a, b)) < Magnitude(b)
              /\ Remainder(a, b) * a >= 0
<1>1. PICK q \in Int, r \in Int, t \in Nat, s \in Nat :
           /\ q = Quotient(a, b) /\ r = Remainder(a, b) /\ a = q * b + r
           /\ q = IF (a < 0) # (b < 0) THEN 0 - t ELSE t
           /\ r = IF a < 0 THEN 0 - s ELSE s
           /\ Magnitude(a) = Magnitude(b) * t + s
           /\ t <= Magnitude(a) /\ s < Magnitude(b) /\ s <= Magnitude(a)
           /\ Magnitude(b) > 1 /\ t > 0 => t < Magnitude(a)
  BY TowardsZero
<1>2. PICK m \in Nat, n \in Nat \ {0} : m = Magnitude(a) /\ n = Magnitude(b)
  BY DEF Magnitude
<1>3. m <= p /\ n <= p /\ (a >= 0 => m < p) /\ (m = p <=> a = 0 - p)
      /\ (n = 1 <=> b = 1 \/ b = 0 - 1)
  BY <1>2 DEF Magnitude
<1>4. Magnitude(r) = s
  BY <1>1 DEF Magnitude
<1>5. r * a >= 0
  BY <1>1, RemainderSign
<1>6. CASE a = 0 - p /\ b = 0 - 1
  <2>1. n = 1 /\ m = p
    BY <1>3, <1>6
  <2>2. s = 0 /\ t = m
    BY <1>1, <1>2, <2>1
  <2>3. q = p /\ r = 0
    BY <1>1, <1>6, <2>1, <2>2
  <2>4. QED
    BY <1>1, <1>6, <2>3
<1>7. CASE ~(a = 0 - p /\ b = 0 - 1)
  <2>1. t <= m /\ s < n /\ s <= m /\ (n > 1 /\ t > 0 => t < m)
        /\ q = (IF (a < 0) # (b < 0) THEN 0 - t ELSE t) /\ r = IF a < 0 THEN 0 - s ELSE s
    BY <1>1, <1>2
  <2>2. ~(a < 0) => t < p
    BY <1>3, <2>1
  <2>3. a < 0 /\ b < 0 => t < p
    <3>1. CASE m < p
      BY <2>1, <3>1
    <3>2. CASE m = p
      BY <1>3, <1>7, <2>1, <3>2
    <3>3. QED
      BY <1>3, <3>1, <3>2
  <2>4. 0 - p <= q /\ q < p
    BY <1>3, <2>1, <2>2, <2>3
  <2>5. 0 - p <= r /\ r < p
    BY <1>3, <2>1
  <2>6. Magnitude(r) < Magnitude(b)
    BY <1>2, <1>4, <2>1
  <2>7. QED
    BY <1>1, <1>5, <1>7, <2>4, <2>5, <2>6
<1>8. QED
  BY <1>6, <1>7

LEMMA UnsignedPair ==
  ASSUME NEW p \in Nat \ {0}, NEW a \in Int, NEW b \in Int,
         0 <= a, a < p, 0 < b, b < p
  PROVE  /\ Quotient(a, b) \in Int /\ Remainder(a, b) \in Int
         /\ 0 <= Quotient(a, b) /\ Quotient(a, b) < p
         /\ 0 <= Remainder(a, b) /\ Remainder(a, b) < p
         /\ a = Quotient(a, b) * b + Remainder(a, b)
         /\ Magnitude(Remainder(a, b)) < Magnitude(b)
         /\ Remainder(a, b) * a >= 0
<1>0. b # 0
  OBVIOUS
<1>1. PICK q \in Int, r \in Int, t \in Nat, s \in Nat :
           /\ q = Quotient(a, b) /\ r = Remainder(a, b) /\ a = q * b + r
           /\ q = IF (a < 0) # (b < 0) THEN 0 - t ELSE t
           /\ r = IF a < 0 THEN 0 - s ELSE s
           /\ Magnitude(a) = Magnitude(b) * t + s
           /\ t <= Magnitude(a) /\ s < Magnitude(b) /\ s <= Magnitude(a)
           /\ Magnitude(b) > 1 /\ t > 0 => t < Magnitude(a)
  BY <1>0, TowardsZero
<1>2. Magnitude(a) = a /\ Magnitude(b) = b
  BY DEF Magnitude
<1>3. q = t /\ r = s /\ t <= a /\ s < b
  BY <1>1, <1>2
<1>4. Magnitude(r) = r /\ r * a >= 0
  BY <1>1, <1>3, RemainderSign DEF Magnitude
<1>5. QED
  <2>1. 0 <= q /\ q < p /\ 0 <= r /\ r < p
    BY <1>3
  <2>2. Magnitude(r) < Magnitude(b)
    BY <1>2, <1>3, <1>4
  <2>3. QED
    BY <1>1, <1>4, <2>1, <2>2

-----------------------------------------------------------------------------
(* Divisions.                                                              *)

\* The weight of the sign bit and the range, in both widths.
LEMMA RangeOf ==
  ASSUME NEW w \in {H, W}
  PROVE  /\ w \in Int /\ 2 ^ w \in Nat \ {0} /\ 2 ^ (w - 1) \in Nat \ {0, 1}
         /\ 2 ^ w = 2 ^ (w - 1) + 2 ^ (w - 1)
         /\ 2 ^ (w - 1) < M /\ 2 ^ w <= M
<1>1. CASE w = H
  BY <1>1, Widths DEF Half
<1>2. CASE w = W
  BY <1>2, Widths DEF HalfM
<1>3. QED
  BY <1>1, <1>2

\* What a register shows in a width is there again when it is read.
LEMMA ShownValue ==
  ASSUME NEW w \in {H, W}, NEW u \in Int
  PROVE  /\ Shown(u, w) \in Int
         /\ AsSigned(Shown(u, w), w) = AsSigned(u, w)
         /\ AsUnsigned(Shown(u, w), w) = AsUnsigned(u, w)
         /\ Shown(Shown(u, w), w) = Shown(u, w)
<1>1. CASE w = H
  <2>1. \A v \in Int : AsUnsigned(v, H) = Word(v)
    BY Widths DEF AsUnsigned, Word
  <2>2. QED
    BY <1>1, <2>1, SextValue
<1>2. CASE w = W
  <2>1. Wrap(u) \in 0 .. M - 1 /\ Wrap(u) \in Int
    BY WrapValue DEF Register
  <2>2. Wrap(Wrap(u)) = Wrap(u)
    BY <2>1, Widths DEF Wrap
  <2>3. QED
    BY <1>2, <2>1, <2>2, WrapValue
<1>3. QED
  BY <1>1, <1>2

\* The range of what a width reads, and what it reads unchanged.
LEMMA ReadValue ==
  ASSUME NEW w \in {H, W}, NEW u \in Int
  PROVE  /\ AsUnsigned(u, w) \in Int /\ 0 <= AsUnsigned(u, w) /\ AsUnsigned(u, w) < 2 ^ w
         /\ AsSigned(u, w) \in Int
         /\ 0 - 2 ^ (w - 1) <= AsSigned(u, w) /\ AsSigned(u, w) < 2 ^ (w - 1)
         /\ 0 <= u /\ u < 2 ^ w => AsUnsigned(u, w) = u
         /\ 0 - 2 ^ (w - 1) <= u /\ u < 2 ^ (w - 1) => AsSigned(u, w) = u
         /\ AsSigned(u, w) = 0 <=> AsUnsigned(u, w) = 0
         /\ u = 0 => AsUnsigned(u, w) = 0
<1>1. PICK n \in Nat \ {0}, p \in Nat \ {0, 1} : n = 2 ^ w /\ p = 2 ^ (w - 1) /\ n = p + p
  BY RangeOf
<1>2. PICK q \in Int, r \in 0 .. n - 1 : q = u \div n /\ r = u % n /\ u = n * q + r
  BY DivMod, Zenon
<1>3. AsUnsigned(u, w) = r /\ AsSigned(u, w) = IF r >= p THEN r - n ELSE r
  BY <1>1, <1>2 DEF AsUnsigned, AsSigned
<1>4. 0 <= u /\ u < n => r = u
  <2>1. u \in 0 .. n - 1 => u % n = u
    BY DivModUnique
  <2>2. QED
    BY <1>2, <2>1
<1>5. 0 - p <= u /\ u < 0 => r = u + n
  <2>1. SUFFICES ASSUME 0 - p <= u, u < 0 PROVE r = u + n
    OBVIOUS
  <2>2. PICK v \in 0 .. n - 1 : v = u + n
    BY <1>1, <2>1
  <2>3. u = n * (0 - 1) + v
    BY <2>2
  <2>4. u % n = v
    BY <2>3, DivModUnique
  <2>5. QED
    BY <1>2, <2>2, <2>4
<1>6. QED
  BY <1>1, <1>3, <1>4, <1>5

\* A division in width w: what it shows of a result.
Divides(op, w) ==
  IF xlen = H \/ op \in WordDivisions \cup {"MULW"} THEN w = H ELSE w = W

LEMMA ExtendedDivision ==
  ASSUME NEW op, NEW w, Divides(op, w), NEW u \in Int
  PROVE  /\ Extended(op, Wrap(u)) = Shown(u, w)
         /\ u \in Register => Extended(op, u) = Shown(u, w)
<1>1. Wrap(u) \in Int /\ (u \in Register => Wrap(u) = u)
  <2>1. u \in Register => u \in 0 .. M - 1
    BY DEF Register
  <2>2. QED
    BY <2>1, WrapValue, Widths DEF Wrap
<1>2. QED
  BY <1>1, ExtendedResult, Widths DEF Divides, Extended

\* All ones are minus one in both widths.
LEMMA AllOnes ==
  ASSUME NEW w \in {H, W}
  PROVE  Shown(M - 1, w) = Shown(-1, w)
<1>1. -1 \in Int /\ -1 = 0 - 1 /\ M - 1 \in Int
  BY Widths
<1>2. CASE w = W
  <2>1. (0 - 1) % M = M - 1 /\ (M - 1) % M = M - 1
    BY Widths
  <2>2. QED
    BY <1>1, <1>2, <2>1, WrapValue DEF Wrap
<1>3. CASE w = H
  <2>1. M - 1 = (0 - 1) + B * B /\ B \in Int
    BY Widths
  <2>2. Sext32bit(M - 1) = Sext32bit(0 - 1)
    BY <1>1, <2>1, SameWord
  <2>3. QED
    BY <1>1, <1>3, <2>2, SextValue
<1>4. QED
  BY <1>2, <1>3

\* DIV and REM, and DIVW and REMW on a 64 bit hart.
LEMMA SignedDivision ==
  ASSUME WidthOK, NEW v, NEW d, Proper(v), Proper(d), NEW w \in {H, W}, NEW div, NEW rem,
         \/ div = "DIV" /\ rem = "REM" /\ w = xlen
         \/ div = "DIVW" /\ rem = "REMW" /\ w = H /\ xlen = W,
         ~DividesByZero(div, d)
  PROVE  /\ Pair(div, rem, w, TRUE, v, d)
         /\ Proper(Extended(div, Divide(div, v, d)))
         /\ Proper(Extended(rem, Divide(rem, v, d)))
<1>1. /\ v \in Int /\ d \in Int /\ v \in Register /\ d \in Register
      /\ 0 <= d /\ d < M /\ 0 <= v /\ v < M
  BY RegisterValue DEF Proper
<1>2. Divides(div, w) /\ Divides(rem, w) /\ (xlen = H => w = H)
  BY Widths DEF Divides, WidthOK, WordDivisions
<1>3. PICK a \in Int, b \in Int : a = AsSigned(v, w) /\ b = AsSigned(d, w)
  BY <1>1, ReadValue
<1>4. /\ Operand(div, v) = a /\ Operand(rem, v) = a
      /\ Operand(div, d) = b /\ Operand(rem, d) = b
  BY <1>1, <1>3, ProperValue, SextValue DEF Operand
<1>5. PICK p \in Nat \ {0, 1}, n \in Nat \ {0} :
        p = 2 ^ (w - 1) /\ n = 2 ^ w /\ n = p + p /\ p < M
  BY RangeOf
<1>6. 0 - p <= a /\ a < p /\ 0 - p <= b /\ b < p
  BY <1>1, <1>3, <1>5, ReadValue
<1>7. d = 0 <=> b = 0
  <2>1. d # 0 => b # 0
    BY <1>4 DEF DividesByZero
  <2>2. d = 0 => b = 0
    BY <1>1, <1>3, ReadValue
  <2>3. QED
    BY <2>1, <2>2
<1>8. ASSUME NEW z \in Int, NEW y1 \in Int,
             Extended(div, Divide(div, v, d)) = Shown(z, w),
             Extended(rem, Divide(rem, v, d)) = Shown(y1, w),
             \/ b = 0 /\ Shown(z, w) = Shown(-1, w) /\ Shown(y1, w) = Shown(v, w)
             \/ /\ b # 0 /\ a = 0 - p /\ b = 0 - 1
                /\ Shown(z, w) = Shown(v, w) /\ Shown(y1, w) = 0
             \/ /\ b # 0 /\ ~(a = 0 - p /\ b = 0 - 1)
                /\ AsSigned(z, w) = z /\ AsSigned(y1, w) = y1
                /\ a = z * b + y1 /\ Magnitude(y1) < Magnitude(b) /\ y1 * a >= 0
      PROVE  /\ Pair(div, rem, w, TRUE, v, d)
             /\ Proper(Extended(div, Divide(div, v, d)))
             /\ Proper(Extended(rem, Divide(rem, v, d)))
  <2>1. Proper(Shown(z, w)) /\ Proper(Shown(y1, w))
    BY <1>2, ShownProper
  <2>2. /\ Shown(Shown(z, w), w) = Shown(z, w) /\ Shown(Shown(y1, w), w) = Shown(y1, w)
        /\ AsSigned(Shown(z, w), w) = AsSigned(z, w)
        /\ AsSigned(Shown(y1, w), w) = AsSigned(y1, w)
    BY ShownValue
  <2>3. -(2 ^ (w - 1)) = 0 - p /\ -1 = 0 - 1
    BY <1>5
  <2>4. Pair(div, rem, w, TRUE, v, d)
    BY <1>3, <1>8, <2>2, <2>3 DEF Pair
  <2>5. QED
    BY <1>8, <2>1, <2>4
<1>9. CASE b = 0
  <2>1. Divide(div, v, d) = M - 1 /\ Divide(rem, v, d) = v
    BY <1>7, <1>9 DEF Divide
  <2>2. M - 1 \in Int /\ M - 1 \in Register
    BY Widths DEF Register
  <2>3. Extended(div, M - 1) = Shown(M - 1, w) /\ Extended(rem, v) = Shown(v, w)
    BY <1>1, <1>2, <2>2, ExtendedDivision
  <2>4. Shown(M - 1, w) = Shown(-1, w)
    BY AllOnes
  <2>5. QED
    BY <1>1, <1>8, <1>9, <2>1, <2>2, <2>3, <2>4
<1>10. Overflows(div, v, d) \/ Overflows(rem, v, d) =>
         /\ a = 0 - p /\ b = 0 - 1
         /\ Overflow(div) = p /\ Overflow(rem) = 0
  <2>1. SUFFICES ASSUME Overflows(div, v, d) \/ Overflows(rem, v, d)
                 PROVE  /\ a = 0 - p /\ b = 0 - 1
                        /\ Overflow(div) = p /\ Overflow(rem) = 0
    OBVIOUS
  <2>2. v = p /\ Signed(d) = -1
    BY <1>5, <2>1 DEF Overflows, LargestNegative
  <2>3. Overflow(div) = p /\ Overflow(rem) = 0
    BY <1>5 DEF Overflow, LargestNegative
  <2>4. a = 0 - p
    <3>1. v % n = p
      <4>1. v \in 0 .. n - 1
        BY <1>5, <2>2
      <4>2. QED
        BY <1>1, <2>2, <4>1
    <3>2. QED
      BY <1>3, <1>5, <3>1 DEF AsSigned, AsUnsigned
  <2>5. b = 0 - 1
    <3>1. d = M - 1
      BY <1>1, <2>2, Widths DEF Signed
    <3>2. CASE w = W
      BY <1>1, <1>3, <2>2, <3>2, RegisterValue
    <3>3. CASE w = H
      <4>1. IsSignedWord(0 - 1)
        BY Widths DEF IsSignedWord
      <4>2. d = (0 - 1) + B * B /\ B \in Int
        BY <3>1, Widths
      <4>3. QED
        BY <1>3, <3>3, <4>1, <4>2, WordValueUnique
    <3>4. QED
      BY <3>2, <3>3
  <2>6. QED
    BY <2>3, <2>4, <2>5
<1>11. CASE b # 0 /\ a = 0 - p /\ b = 0 - 1
  <2>1. Quotient(a, b) = p /\ Remainder(a, b) = 0
    BY <1>6, <1>11, SignedPair
  <2>2. p \in Int /\ p \in Register /\ 0 \in Int /\ 0 \in Register
    BY <1>5, Widths DEF Register
  <2>3. Wrap(p) = p /\ Wrap(0) = 0
    BY <1>5, Widths DEF Wrap
  <2>4. Divide(div, v, d) = p /\ Divide(rem, v, d) = 0
    BY <1>4, <1>7, <1>10, <1>11, <2>1, <2>3 DEF Divide
  <2>5. Extended(div, p) = Shown(p, w) /\ Extended(rem, 0) = Shown(0, w)
    BY <1>2, <2>2, ExtendedDivision
  <2>6. AsSigned(p, w) = a
    <3>1. p % n = p
      BY <1>5
    <3>2. QED
      BY <1>5, <1>11, <3>1 DEF AsSigned, AsUnsigned
  <2>7. Shown(p, w) = Shown(v, w)
    BY <1>3, <2>6 DEF Shown
  <2>8. Shown(0, w) = 0
    <3>1. AsSigned(0, w) = 0
      BY <1>5, ReadValue
    <3>2. 0 % M = 0
      BY Widths
    <3>3. QED
      BY <3>1, <3>2 DEF Shown
  <2>9. QED
    BY <1>8, <1>11, <2>2, <2>4, <2>5, <2>7, <2>8, Zenon
<1>12. CASE b # 0 /\ ~(a = 0 - p /\ b = 0 - 1)
  <2>1. PICK q \in Int, r \in Int : q = Quotient(a, b) /\ r = Remainder(a, b)
    BY <1>6, <1>12, SignedPair
  <2>2. /\ 0 - p <= q /\ q < p /\ 0 - p <= r /\ r < p
        /\ a = q * b + r /\ Magnitude(r) < Magnitude(b) /\ r * a >= 0
    <3>1. /\ 0 - p <= Quotient(a, b) /\ Quotient(a, b) < p
          /\ 0 - p <= Remainder(a, b) /\ Remainder(a, b) < p
          /\ a = Quotient(a, b) * b + Remainder(a, b)
          /\ Magnitude(Remainder(a, b)) < Magnitude(b)
          /\ Remainder(a, b) * a >= 0
      BY <1>6, <1>12, SignedPair, Zenon
    <3>2. QED
      BY <2>1, <3>1, Zenon
  <2>3. Divide(div, v, d) = Wrap(q) /\ Divide(rem, v, d) = Wrap(r)
    BY <1>4, <1>7, <1>10, <1>12, <2>1 DEF Divide
  <2>4. Extended(div, Wrap(q)) = Shown(q, w) /\ Extended(rem, Wrap(r)) = Shown(r, w)
    BY <1>2, ExtendedDivision
  <2>5. AsSigned(q, w) = q /\ AsSigned(r, w) = r
    BY <1>5, <2>2, ReadValue
  <2>6. QED
    BY <1>8, <1>12, <2>2, <2>3, <2>4, <2>5, Zenon
<1>13. QED
  BY <1>9, <1>11, <1>12

\* DIVU and REMU, and DIVUW and REMUW on a 64 bit hart.
LEMMA UnsignedDivision ==
  ASSUME WidthOK, NEW v \in Register, NEW d \in Register, NEW w \in {H, W}, NEW div, NEW rem,
         \/ div = "DIVU" /\ rem = "REMU" /\ w = xlen
         \/ div = "DIVUW" /\ rem = "REMUW" /\ w = H /\ xlen = W,
         ~DividesByZero(div, d)
  PROVE  /\ Pair(div, rem, w, FALSE, v, d)
         /\ Proper(Extended(div, Divide(div, v, d)))
         /\ Proper(Extended(rem, Divide(rem, v, d)))
<1>1. v \in Int /\ d \in Int
  BY RegisterValue
<1>2. Divides(div, w) /\ Divides(rem, w) /\ (xlen = H => w = H)
  BY Widths DEF Divides, WidthOK, WordDivisions
<1>3. PICK a \in Int, b \in Int : a = AsUnsigned(v, w) /\ b = AsUnsigned(d, w)
  BY <1>1, ReadValue
<1>4. /\ Operand(div, v) = a /\ Operand(rem, v) = a
      /\ Operand(div, d) = b /\ Operand(rem, d) = b
  BY <1>1, <1>3, RegisterValue DEF Operand, WidthOK
<1>5. PICK n \in Nat \ {0} : n = 2 ^ w
  BY RangeOf
<1>6. 0 <= a /\ a < n /\ 0 <= b /\ b < n
  BY <1>1, <1>3, <1>5, ReadValue
<1>7. d = 0 <=> b = 0
  <2>1. d # 0 => b # 0
    BY <1>4 DEF DividesByZero
  <2>2. d = 0 => b = 0
    BY <1>1, <1>3, ReadValue
  <2>3. QED
    BY <2>1, <2>2
<1>8. ASSUME NEW z \in Int, NEW y1 \in Int,
             Extended(div, Divide(div, v, d)) = Shown(z, w),
             Extended(rem, Divide(rem, v, d)) = Shown(y1, w),
             \/ b = 0 /\ Shown(z, w) = Shown(-1, w) /\ Shown(y1, w) = Shown(v, w)
             \/ /\ b # 0 /\ AsUnsigned(z, w) = z /\ AsUnsigned(y1, w) = y1
                /\ a = z * b + y1 /\ Magnitude(y1) < Magnitude(b) /\ y1 * a >= 0
      PROVE  /\ Pair(div, rem, w, FALSE, v, d)
             /\ Proper(Extended(div, Divide(div, v, d)))
             /\ Proper(Extended(rem, Divide(rem, v, d)))
  <2>1. Proper(Shown(z, w)) /\ Proper(Shown(y1, w))
    BY <1>2, ShownProper
  <2>2. /\ Shown(Shown(z, w), w) = Shown(z, w) /\ Shown(Shown(y1, w), w) = Shown(y1, w)
        /\ AsUnsigned(Shown(z, w), w) = AsUnsigned(z, w)
        /\ AsUnsigned(Shown(y1, w), w) = AsUnsigned(y1, w)
    BY ShownValue
  <2>3. Pair(div, rem, w, FALSE, v, d)
    BY <1>3, <1>8, <2>2 DEF Pair
  <2>4. QED
    BY <1>8, <2>1, <2>3
<1>9. CASE b = 0
  <2>1. Divide(div, v, d) = M - 1 /\ Divide(rem, v, d) = v
    BY <1>7, <1>9 DEF Divide
  <2>2. M - 1 \in Int /\ M - 1 \in Register
    BY Widths DEF Register
  <2>3. Extended(div, M - 1) = Shown(M - 1, w) /\ Extended(rem, v) = Shown(v, w)
    BY <1>1, <1>2, <2>2, ExtendedDivision
  <2>4. Shown(M - 1, w) = Shown(-1, w)
    BY AllOnes
  <2>5. QED
    BY <1>1, <1>8, <1>9, <2>1, <2>2, <2>3, <2>4
<1>10. CASE b # 0
  <2>1. 0 < b
    BY <1>6, <1>10
  <2>2. PICK q \in Int, r \in Int : q = Quotient(a, b) /\ r = Remainder(a, b)
    BY <1>6, <2>1, UnsignedPair
  <2>3. /\ 0 <= q /\ q < n /\ 0 <= r /\ r < n
        /\ a = q * b + r /\ Magnitude(r) < Magnitude(b) /\ r * a >= 0
    <3>1. /\ 0 <= Quotient(a, b) /\ Quotient(a, b) < n
          /\ 0 <= Remainder(a, b) /\ Remainder(a, b) < n
          /\ a = Quotient(a, b) * b + Remainder(a, b)
          /\ Magnitude(Remainder(a, b)) < Magnitude(b)
          /\ Remainder(a, b) * a >= 0
      BY <1>6, <2>1, UnsignedPair, Zenon
    <3>2. QED
      BY <2>2, <3>1, Zenon
  <2>4. ~Overflows(div, v, d) /\ ~Overflows(rem, v, d)
    BY DEF Overflows
  <2>5. Divide(div, v, d) = Wrap(q) /\ Divide(rem, v, d) = Wrap(r)
    BY <1>4, <1>7, <1>10, <2>2, <2>4 DEF Divide
  <2>6. Extended(div, Wrap(q)) = Shown(q, w) /\ Extended(rem, Wrap(r)) = Shown(r, w)
    BY <1>2, ExtendedDivision
  <2>7. AsUnsigned(q, w) = q /\ AsUnsigned(r, w) = r
    BY <1>5, <2>3, ReadValue
  <2>8. QED
    BY <1>8, <1>10, <2>3, <2>5, <2>6, <2>7, Zenon
<1>11. QED
  BY <1>9, <1>10

\* A register whose lower half alone is zero is the only one that the host
\* divides by as zero.
LEMMA ZeroDivisor ==
  ASSUME WidthOK, NEW d \in Register, NEW op \in Divisions, DividesByZero(op, d)
  PROVE  Word(d) = 0 /\ d # 0
<1>1. d \in Int /\ 0 <= d /\ d < M /\ d # 0 /\ Operand(op, d) = 0
  BY RegisterValue DEF DividesByZero
<1>2. Signed(d) # 0
  BY <1>1, Widths DEF Signed
<1>3. AsUnsigned(d, H) = Word(d) /\ AsSigned(d, H) = Signed(Sext32bit(d))
  BY <1>1, RegisterValue, SextValue
<1>4. AsSigned(d, H) = 0 <=> Word(d) = 0
  BY <1>1, <1>3, ReadValue
<1>5. Operand(op, d) \in {Signed(d), d, Word(d), Signed(Sext32bit(d))}
  BY DEF Operand
<1>6. QED
  BY <1>1, <1>2, <1>3, <1>4, <1>5

\* DIV and REM leave a register of the hart whatever they divide.
LEMMA DividedProper ==
  ASSUME WidthOK, NEW v \in Register, NEW d \in Register, NEW op \in {"DIV", "REM"}
  PROVE  Proper(Extended(op, Divide(op, v, d)))
<1>1. v \in Int /\ d \in Int /\ 0 <= d /\ d < M
  BY RegisterValue
<1>2. CASE xlen = W
  <2>1. Proper(v) /\ Proper(d)
    BY <1>2, Widths DEF Proper
  <2>2. ~DividesByZero("DIV", d)
    BY <1>1, Widths DEF DividesByZero, Operand, Signed
  <2>3. W \in {H, W}
    OBVIOUS
  <2>4. QED
    BY <1>2, <2>1, <2>2, <2>3, SignedDivision
<1>3. CASE xlen = H
  <2>1. PICK a \in Int, b \in Int : a = Signed(v) /\ b = Signed(d) /\ (d # 0 => b # 0)
    <3>1. Signed(v) \in Int /\ Signed(d) \in Int
      BY Halves
    <3>2. d # 0 => Signed(d) # 0
      BY <1>1, Widths DEF Signed
    <3>3. QED
      BY <3>1, <3>2
  <2>2. Operand(op, v) = a /\ Operand(op, d) = b
    BY <2>1 DEF Operand
  <2>3. d # 0 => Wrap(Quotient(a, b)) \in Int /\ Wrap(Remainder(a, b)) \in Int
    BY <2>1, TowardsZero, WrapValue
  <2>4. Overflow(op) \in Int
    BY <1>3, Widths DEF Overflow, LargestNegative, Half
  <2>5. M - 1 \in Int
    BY Widths
  <2>6. PICK u : u = Divide(op, v, d)
    OBVIOUS
  <2>7. u \in Int
    BY <1>1, <2>2, <2>3, <2>4, <2>5, <2>6 DEF Divide
  <2>8. Extended(op, u) = Sext32bit(u)
    BY <1>3 DEF Extended
  <2>9. QED
    BY <2>6, <2>7, <2>8, SextValue DEF Proper, IsExtended
<1>4. QED
  BY <1>2, <1>3 DEF WidthOK

\* The divisions of MultInstruction on registers of the hart.
LEMMA DivisionDefined ==
  ASSUME WidthOK, NEW v \in Register, NEW d \in Register
  PROVE  /\ \A op \in Divisions :
              ~DividesByZero(op, d) => Proper(Extended(op, Divide(op, v, d)))
         /\ Proper(v) /\ Proper(d) => Pair("DIV", "REM", xlen, TRUE, v, d)
         /\ Pair("DIVU", "REMU", xlen, FALSE, v, d)
         /\ xlen = W => /\ Pair("DIVW", "REMW", H, TRUE, v, d)
                        /\ Pair("DIVUW", "REMUW", H, FALSE, v, d)
<1>1. xlen \in {H, W} /\ H \in {H, W}
  BY DEF WidthOK
<1>2. /\ DividesByZero("DIV", d) => Pair("DIV", "REM", xlen, TRUE, v, d)
      /\ DividesByZero("DIVU", d) => Pair("DIVU", "REMU", xlen, FALSE, v, d)
      /\ DividesByZero("DIVW", d) => Pair("DIVW", "REMW", H, TRUE, v, d)
      /\ DividesByZero("DIVUW", d) => Pair("DIVUW", "REMUW", H, FALSE, v, d)
  BY DEF Pair
<1>3. /\ DividesByZero("REM", d) <=> DividesByZero("DIV", d)
      /\ DividesByZero("REMU", d) <=> DividesByZero("DIVU", d)
      /\ DividesByZero("REMW", d) <=> DividesByZero("DIVW", d)
      /\ DividesByZero("REMUW", d) <=> DividesByZero("DIVUW", d)
  BY DEF DividesByZero, Operand
<1>4. /\ Proper(v) /\ Proper(d) /\ ~DividesByZero("DIV", d) =>
           Pair("DIV", "REM", xlen, TRUE, v, d)
      /\ Proper(Extended("DIV", Divide("DIV", v, d)))
      /\ Proper(Extended("REM", Divide("REM", v, d)))
  BY <1>1, SignedDivision, DividedProper
<1>5. ~DividesByZero("DIVU", d) =>
        /\ Pair("DIVU", "REMU", xlen, FALSE, v, d)
        /\ Proper(Extended("DIVU", Divide("DIVU", v, d)))
        /\ Proper(Extended("REMU", Divide("REMU", v, d)))
  BY <1>1, UnsignedDivision
<1>6. xlen = W /\ ~DividesByZero("DIVW", d) =>
        /\ Pair("DIVW", "REMW", H, TRUE, v, d)
        /\ Proper(Extended("DIVW", Divide("DIVW", v, d)))
        /\ Proper(Extended("REMW", Divide("REMW", v, d)))
  <2>1. xlen = W => Proper(v) /\ Proper(d)
    BY Widths DEF Proper
  <2>2. QED
    BY <1>1, <2>1, SignedDivision
<1>7. xlen = W /\ ~DividesByZero("DIVUW", d) =>
        /\ Pair("DIVUW", "REMUW", H, FALSE, v, d)
        /\ Proper(Extended("DIVUW", Divide("DIVUW", v, d)))
        /\ Proper(Extended("REMUW", Divide("REMUW", v, d)))
  BY <1>1, UnsignedDivision
<1>8. ASSUME NEW op \in Divisions, ~DividesByZero(op, d)
      PROVE  Proper(Extended(op, Divide(op, v, d)))
  <2>1. \/ op \in {"DIV", "DIVU", "REM", "REMU"}
        \/ xlen = W /\ op \in {"DIVW", "DIVUW", "REMW", "REMUW"}
    BY DEF Divisions, WordDivisions
  <2>2. QED
    BY <1>3, <1>4, <1>5, <1>6, <1>7, <1>8, <2>1
<1>9. QED
  BY <1>2, <1>4, <1>5, <1>6, <1>7, <1>8

-----------------------------------------------------------------------------
(* AmoInstruction.                                                         *)

\* What is read of the part of a value that an AMO stores.
LEMMA StoredPart ==
  ASSUME NEW w \in {H, W}, NEW v \in Int
  PROVE  /\ AsUnsigned(AsUnsigned(v, w), w) = AsUnsigned(v, w)
         /\ AsSigned(AsUnsigned(v, w), w) = AsSigned(v, w)
         /\ \A k \in 0 .. w - 1 : IsSet(AsUnsigned(v, w), k) <=> IsSet(v, k)
<1>1. AsUnsigned(AsUnsigned(v, w), w) = AsUnsigned(v, w)
  <2>1. PICK u \in Int : u = AsUnsigned(v, w) /\ 0 <= u /\ u < 2 ^ w
    BY ReadValue
  <2>2. QED
    BY <2>1, ReadValue
<1>2. AsSigned(AsUnsigned(v, w), w) = AsSigned(v, w)
  BY <1>1 DEF AsSigned
<1>3. ASSUME NEW k \in 0 .. w - 1 PROVE IsSet(AsUnsigned(v, w), k) <=> IsSet(v, k)
  <2>1. PICK n \in Nat \ {0} : n = 2 ^ w
    BY RangeOf
  <2>2. PICK q \in Int, r \in 0 .. n - 1 : q = v \div n /\ r = v % n /\ v = n * q + r
    BY Divided, Zenon
  <2>3. r \in Int /\ v = r + 2 ^ w * q /\ AsUnsigned(v, w) = r
    BY <2>1, <2>2 DEF AsUnsigned
  <2>4. w \in Nat
    BY Widths
  <2>5. IsSet(r + 2 ^ w * q, k) <=> IsSet(r, k)
    BY <2>3, <2>4, LowerBits
  <2>6. QED
    BY <2>3, <2>5
<1>4. QED
  BY <1>1, <1>2, <1>3

\* The numbers that an AMO of width w compares and stores, in terms of what it
\* loaded.
LEMMA AmoOperands ==
  ASSUME WidthOK, NEW w \in {H, W}, NEW m \in Register
  PROVE  /\ AmoLoaded(w, m) \in Register
         /\ AsUnsigned(AmoLoaded(w, m), w) = AsUnsigned(m, w)
         /\ AsSigned(AmoLoaded(w, m), w) = AsSigned(m, w)
         /\ \A k \in 0 .. w - 1 : IsSet(AmoLoaded(w, m), k) <=> IsSet(m, k)
         /\ Signed(IF w = H THEN Sext32bit(m) ELSE m) = AsSigned(m, w)
         /\ (IF w = H THEN Word(m) ELSE m) = AsUnsigned(m, w)
<1>1. m \in Int /\ AsUnsigned(m, H) = Word(m) /\ AsUnsigned(m, W) = m
      /\ AsSigned(m, W) = Signed(m)
  BY RegisterValue
<1>2. CASE w = H
  <2>1. PICK t \in Int : t = Sext32bit(m) /\ t \in Register /\ Signed(t) = AsSigned(m, H)
                         /\ Word(t) = Word(m) /\ AsSigned(t, H) = AsSigned(m, H)
    BY <1>1, SextValue
  <2>2. AsUnsigned(t, H) = Word(t)
    BY Widths DEF AsUnsigned, Word
  <2>3. \A k \in 0 .. H - 1 : IsSet(t, k) <=> IsSet(m, k)
    BY <1>1, <2>1, SextBits
  <2>4. QED
    BY <1>1, <1>2, <2>1, <2>2, <2>3 DEF AmoLoaded
<1>3. CASE w = W
  BY <1>1, <1>3, Widths DEF AmoLoaded
<1>4. QED
  BY <1>2, <1>3

\* A sum of what an AMO loaded.
LEMMA AmoSum ==
  ASSUME WidthOK, NEW w \in {H, W}, NEW m \in Register, NEW b \in Register
  PROVE  AsUnsigned(Wrap(AmoLoaded(w, m) + b), w) = AsUnsigned(m + b, w)
<1>1. m \in Int /\ b \in Int /\ m + b \in Int
  BY RegisterValue
<1>2. CASE w = W
  <2>1. PICK u \in Int : u = m + b
    BY <1>1
  <2>2. Wrap(u) \in Register /\ AsUnsigned(u, W) = Wrap(u)
    BY WrapValue
  <2>3. AsUnsigned(Wrap(u), W) = Wrap(u)
    BY <2>2, RegisterValue
  <2>4. AmoLoaded(w, m) = m
    BY <1>2, Widths DEF AmoLoaded
  <2>5. QED
    BY <1>2, <2>1, <2>2, <2>3, <2>4
<1>3. CASE w = H
  <2>1. PICK t \in Int, j \in Int : t = Sext32bit(m) /\ t = m + B * j
    <3>1. PICK s \in Int : s = AsSigned(m, H) /\ IsSignedWord(s)
      BY <1>1, WordValue DEF IsSignedWord
    <3>2. PICK k \in Int : m = s + B * k
      BY <1>1, <3>1, WordValue
    <3>3. PICK i \in Int : s % M = s + B * i
      BY <3>1, ExtendedRegister
    <3>4. Sext32bit(m) = s % M
      BY <1>1, <3>1, SextValue
    <3>5. PICK j \in Int : j = i - k
      OBVIOUS
    <3>6. B * j = B * i - B * k
      BY <3>5, Widths
    <3>7. s + B * i = m + B * j
      BY <1>1, <3>2, <3>6, Widths
    <3>8. s + B * i \in Int
      BY Widths
    <3>9. QED
      BY <3>3, <3>4, <3>7, <3>8
  <2>2. PICK u \in Int, v \in Int : u = t + b /\ v = m + b
    BY <1>1
  <2>3. u = v + B * j
    BY <1>1, <2>1, <2>2, Widths
  <2>4. Word(v + B * j) = Word(v)
    BY SameWord
  <2>5. Word(Wrap(u)) = Word(u) /\ Wrap(u) \in Int
    BY WrapValue
  <2>6. \A z \in Int : AsUnsigned(z, H) = Word(z)
    BY Widths DEF AsUnsigned, Word
  <2>7. AmoLoaded(w, m) = t
    BY <1>3, <2>1 DEF AmoLoaded
  <2>8. QED
    BY <1>3, <2>2, <2>3, <2>4, <2>5, <2>6, <2>7
<1>4. QED
  BY <1>2, <1>3

\* Every AMO on what memory and a register hold.
LEMMA AmoDefined ==
  ASSUME WidthOK, x \in Register, y \in Register, NEW op \in AmoOperations,
         NEW w \in AmoWidths
  PROVE  AmoAsDefined(op, w)
<1>0. w \in {H, W} /\ x \in Int /\ y \in Int
  BY RegisterValue DEF AmoWidths
<1>1. PICK t \in Register : t = AmoLoaded(w, x)
  BY <1>0, AmoOperands
<1>2. PICK c : c = AmoValue(op, w, t, y)
  OBVIOUS
<1>3. PICK r : r = AmoStored(op, w, x, y)
  OBVIOUS
<1>4. r = IF w = H THEN Word(c) ELSE c
  BY <1>1, <1>2, <1>3 DEF AmoStored
<1>5. ASSUME c \in Register
      PROVE  /\ r = AsUnsigned(c, w) /\ AsSigned(r, w) = AsSigned(c, w)
             /\ \A k \in 0 .. w - 1 : IsSet(r, k) <=> IsSet(c, k)
  <2>1. r = AsUnsigned(c, w) /\ c \in Int
    BY <1>0, <1>4, <1>5, AmoOperands, RegisterValue
  <2>2. QED
    BY <1>0, <2>1, StoredPart
<1>6. /\ AsUnsigned(t, w) = AsUnsigned(x, w)
      /\ AsSigned(t, w) = AsSigned(x, w)
      /\ \A k \in 0 .. w - 1 : IsSet(t, k) <=> IsSet(x, k)
  BY <1>0, <1>1, AmoOperands
<1>7. \A k \in 0 .. w - 1 : k \in 0 .. W - 1
  BY <1>0, Widths
<1>8. \A v, k : IsSet(v, k) \in BOOLEAN
  BY DEF IsSet
<1>9. CASE op = "ADD"
  <2>1. c = Wrap(t + y) /\ c \in Register
    BY <1>2, <1>9, RegisterValue, WrapValue DEF AmoValue
  <2>2. r = AsUnsigned(x + y, w)
    BY <1>0, <1>1, <1>5, <2>1, AmoSum
  <2>3. QED
    BY <1>3, <1>9, <2>2 DEF AmoAsDefined
<1>10. CASE op = "AND"
  <2>1. c = And(t, y) /\ c \in Register
    BY <1>2, <1>10, BitOperations DEF AmoValue
  <2>2. \A k \in 0 .. w - 1 : IsSet(r, k) <=> IsSet(x, k) /\ IsSet(y, k)
    BY <1>5, <1>6, <1>7, <2>1, BitOperations
  <2>3. QED
    BY <1>3, <1>8, <1>10, <2>2 DEF AmoAsDefined
<1>11. CASE op = "OR"
  <2>1. c = Or(t, y) /\ c \in Register
    BY <1>2, <1>11, BitOperations DEF AmoValue
  <2>2. \A k \in 0 .. w - 1 : IsSet(r, k) <=> IsSet(x, k) \/ IsSet(y, k)
    BY <1>5, <1>6, <1>7, <2>1, BitOperations
  <2>3. QED
    BY <1>3, <1>8, <1>11, <2>2 DEF AmoAsDefined
<1>12. CASE op = "XOR"
  <2>1. c = Xor(t, y) /\ c \in Register
    BY <1>2, <1>12, BitOperations DEF AmoValue
  <2>2. \A k \in 0 .. w - 1 : IsSet(r, k) <=> ~(IsSet(x, k) <=> IsSet(y, k))
    BY <1>5, <1>6, <1>7, <2>1, BitOperations
  <2>3. QED
    BY <1>3, <1>8, <1>12, <2>2 DEF AmoAsDefined
<1>13. CASE op = "SWAP"
  <2>1. c = y
    BY <1>2, <1>13 DEF AmoValue
  <2>2. QED
    BY <1>3, <1>5, <1>13, <2>1 DEF AmoAsDefined
<1>14. PICK s \in Int, b \in Int, u \in Int, d \in Int :
         /\ s = AsSigned(x, w) /\ b = AsSigned(y, w)
         /\ u = AsUnsigned(x, w) /\ d = AsUnsigned(y, w)
  BY <1>0, ReadValue
<1>15. /\ Signed(IF w = H THEN Sext32bit(t) ELSE t) = s
       /\ Signed(IF w = H THEN Sext32bit(y) ELSE y) = b
       /\ (IF w = H THEN Word(t) ELSE t) = u
       /\ (IF w = H THEN Word(y) ELSE y) = d
  BY <1>0, <1>6, <1>14, AmoOperands
<1>16. CASE op = "MAX"
  <2>1. c = IF s > b THEN t ELSE y
    BY <1>2, <1>15, <1>16 DEF AmoValue
  <2>2. AsSigned(r, w) = IF s > b THEN s ELSE b
    BY <1>5, <1>6, <1>14, <2>1
  <2>3. QED
    BY <1>3, <1>14, <1>16, <2>2 DEF AmoAsDefined
<1>17. CASE op = "MIN"
  <2>1. c = IF s < b THEN t ELSE y
    BY <1>2, <1>15, <1>17 DEF AmoValue
  <2>2. AsSigned(r, w) = IF s < b THEN s ELSE b
    BY <1>5, <1>6, <1>14, <2>1
  <2>3. QED
    BY <1>3, <1>14, <1>17, <2>2 DEF AmoAsDefined
<1>18. CASE op = "MAXU"
  <2>1. c = IF u > d THEN t ELSE y
    BY <1>2, <1>15, <1>18 DEF AmoValue
  <2>2. r = IF u > d THEN u ELSE d
    BY <1>5, <1>6, <1>14, <2>1
  <2>3. QED
    BY <1>3, <1>14, <1>18, <2>2 DEF AmoAsDefined
<1>19. CASE op = "MINU"
  <2>1. c = IF u < d THEN t ELSE y
    BY <1>2, <1>15, <1>19 DEF AmoValue
  <2>2. r = IF u < d THEN u ELSE d
    BY <1>5, <1>6, <1>14, <2>1
  <2>3. QED
    BY <1>3, <1>14, <1>19, <2>2 DEF AmoAsDefined
<1>20. QED
  BY <1>9, <1>10, <1>11, <1>12, <1>13, <1>16, <1>17, <1>18, <1>19 DEF AmoOperations

-----------------------------------------------------------------------------
(* Registers that are not extended.                                        *)

\* Two right shifts are one.
LEMMA ShiftTwice ==
  ASSUME NEW s \in Int, NEW n \in Nat, NEW m \in Nat
  PROVE  (s \div 2 ^ n) \div 2 ^ m = s \div 2 ^ (n + m)
<1>1. PICK p \in Nat \ {0}, d \in Nat \ {0} : p = 2 ^ n /\ d = 2 ^ m
  BY PowerStep
<1>2. PICK e \in Nat \ {0} : e = p * d /\ 2 ^ (n + m) = e
  <2>1. p * d \in Nat \ {0}
    OBVIOUS
  <2>2. 2 ^ (n + m) = p * d
    BY <1>1, PowerSum
  <2>3. QED
    BY <2>1, <2>2
<1>3. PICK q \in Int, r \in 0 .. p - 1 : q = s \div p /\ r = s % p /\ s = p * q + r
  BY Divided, Zenon
<1>4. PICK q1 \in Int, r1 \in 0 .. d - 1 : q1 = q \div d /\ r1 = q % d /\ q = d * q1 + r1
  BY Divided, Zenon
<1>5. PICK z \in Int : z = p * r1 + r
  OBVIOUS
<1>6. s = e * q1 + z
  <2>1. p * (d * q1 + r1) = (p * d) * q1 + p * r1
    OBVIOUS
  <2>2. PICK h \in Int, g \in Int : h = e * q1 /\ g = p * r1
    OBVIOUS
  <2>3. p * q = h + g
    BY <1>2, <1>4, <2>1, <2>2
  <2>4. QED
    BY <1>3, <1>5, <2>2, <2>3
<1>7. z \in 0 .. e - 1
  <2>1. PICK c \in Nat : d = r1 + 1 + c
    OBVIOUS
  <2>2. p * (r1 + 1 + c) = p * r1 + p + p * c
    OBVIOUS
  <2>3. p * r1 >= 0 /\ p * c >= 0
    OBVIOUS
  <2>4. e = p * r1 + p + p * c
    BY <1>2, <2>1, <2>2
  <2>5. QED
    BY <1>5, <2>3, <2>4
<1>8. s \div e = q1
  BY <1>6, <1>7, DivModUnique
<1>9. QED
  BY <1>1, <1>2, <1>3, <1>4, <1>8

\* A number that a register can show as a signed one, shifted right.
LEMMA ShiftedRegister ==
  ASSUME NEW s \in Int, 0 - HalfM <= s, s < HalfM, NEW n \in Nat
  PROVE  /\ s \div 2 ^ n \in Int
         /\ 0 - HalfM <= s \div 2 ^ n /\ s \div 2 ^ n < HalfM
         /\ n >= W => s \div 2 ^ n \in {0, 0 - 1}
<1>1. PICK p \in Nat \ {0} : p = 2 ^ n
  BY PowerStep
<1>2. PICK lo \in Int, hi \in Int : lo = 0 - HalfM /\ hi = HalfM
  BY Widths
<1>3. PICK c \in Nat, h \in Nat : p = c + 1 /\ h = HalfM
  BY <1>1, Widths
<1>4. c * h >= 0
  BY <1>3
<1>5. p * lo = 0 - c * h - h /\ p * hi = c * h + h
  BY <1>2, <1>3
<1>6. p * lo <= s /\ s < p * hi
  BY <1>3, <1>4, <1>5
<1>7. PICK q \in Int : q = s \div p /\ lo <= q /\ q < hi
  BY <1>6, DivBounds, DivMod
<1>8. ASSUME n >= W PROVE q \in {0, 0 - 1}
  <2>1. W \in Nat /\ W \in 0 .. n
    BY <1>8, Widths
  <2>2. PICK k \in Nat \ {0} : 2 ^ n = 2 ^ W * k
    BY <2>1, PowerMultiple
  <2>3. PICK g \in Nat : k = g + 1
    OBVIOUS
  <2>4. p = M * g + M /\ M * g >= 0
    BY <1>1, <2>2, <2>3, Widths
  <2>5. p >= HalfM
    BY <2>4, Widths
  <2>6. p * (0 - 1) <= s /\ s < p * 1
    BY <2>5, Widths
  <2>7. 0 - 1 <= q /\ q < 1
    <3>1. 0 - 1 \in Int /\ 1 \in Int
      OBVIOUS
    <3>2. 0 - 1 <= s \div p /\ s \div p < 1
      BY <2>6, <3>1, DivBounds
    <3>3. QED
      BY <1>7, <3>2
  <2>8. QED
    BY <2>7
<1>9. QED
  BY <1>1, <1>2, <1>7, <1>8

\* A register read as a signed number, and a signed number stored in one.
LEMMA SignedRange ==
  ASSUME NEW u \in Register
  PROVE  Signed(u) \in Int /\ 0 - HalfM <= Signed(u) /\ Signed(u) < HalfM
BY Widths DEF Signed, Register

LEMMA SignedWrap ==
  ASSUME NEW s \in Int, 0 - HalfM <= s, s < HalfM
  PROVE  Signed(Wrap(s)) = s
<1>1. W \in {H, W} /\ 2 ^ (W - 1) = HalfM
  BY DEF HalfM
<1>2. AsSigned(s, W) = s
  BY <1>1, ReadValue
<1>3. QED
  BY <1>2, WrapValue

\* What a register of a 32 bit hart may hold: an extended value, or a value
\* from elsewhere after SRAI.
Settled(v) ==
  \/ IsExtended(v)
  \/ \E u \in Inputs \cup {StackTop}, n \in 0 .. W - 1 : v = ShiftRightSigned(u, n)

LEMMA ForeignRegister ==
  ASSUME NEW u \in Inputs \cup {StackTop}
  PROVE  u \in Register
<1>1. StackTop \in Register
  BY Widths DEF StackTop, Register
<1>2. QED
  BY <1>1, WidthAssumption

\* SRAI of a value from elsewhere that SRAI has shifted already.
LEMMA ShiftedAgain ==
  ASSUME NEW u \in Inputs \cup {StackTop}, NEW n \in 0 .. W - 1, NEW m \in 0 .. H - 1
  PROVE  Settled(ShiftRightSigned(ShiftRightSigned(u, n), m))
<1>1. PICK s \in Int : s = Signed(u) /\ 0 - HalfM <= s /\ s < HalfM
  BY ForeignRegister, SignedRange
<1>2. n \in Nat /\ m \in Nat /\ n + m \in Nat
  BY Widths
<1>3. PICK z \in Int : z = s \div 2 ^ n /\ 0 - HalfM <= z /\ z < HalfM
  BY <1>1, <1>2, ShiftedRegister
<1>4. Signed(ShiftRightSigned(u, n)) = z
  BY <1>1, <1>3, SignedWrap DEF ShiftRightSigned
<1>5. ShiftRightSigned(ShiftRightSigned(u, n), m) = Wrap(s \div 2 ^ (n + m))
  <2>1. (s \div 2 ^ n) \div 2 ^ m = s \div 2 ^ (n + m)
    BY <1>2, ShiftTwice
  <2>2. QED
    BY <1>3, <1>4, <2>1 DEF ShiftRightSigned
<1>6. CASE n + m <= W - 1
  <2>1. PICK k \in 0 .. W - 1 : k = n + m
    BY <1>2, <1>6, Widths
  <2>2. ShiftRightSigned(ShiftRightSigned(u, n), m) = ShiftRightSigned(u, k)
    BY <1>1, <1>5, <2>1 DEF ShiftRightSigned
  <2>3. QED
    BY <2>2 DEF Settled
<1>7. CASE n + m >= W
  <2>1. PICK e : e = s \div 2 ^ (n + m)
    OBVIOUS
  <2>2. e \in {0, 0 - 1}
    BY <1>1, <1>2, <1>7, <2>1, ShiftedRegister
  <2>3. IsSignedWord(e) /\ e \in Int
    BY <2>2, Widths DEF IsSignedWord
  <2>4. Wrap(e) = Shown(e, H)
    BY <2>3, SignedWordShown
  <2>5. Sext32bit(e) = Shown(e, H) /\ Sext32bit(Sext32bit(e)) = Sext32bit(e)
    BY <2>3, SextValue
  <2>6. QED
    BY <1>5, <2>1, <2>4, <2>5 DEF Settled, IsExtended
<1>8. QED
  BY <1>2, <1>6, <1>7, Widths

\* SRAI on a 32 bit hart.
LEMMA SettledShift ==
  ASSUME WidthOK, xlen = H, NEW a \in Register, Settled(a), NEW m \in 0 .. H - 1
  PROVE  /\ ImmediateShift("SRAI", a, m) \in Register
         /\ Settled(ImmediateShift("SRAI", a, m))
<1>1. ImmediateShift("SRAI", a, m) = ShiftRightSigned(a, m)
  BY DEF ImmediateShift
<1>2. CASE IsExtended(a)
  <2>1. Proper(a)
    BY <1>2 DEF Proper
  <2>2. "SRAI" \in ShiftOperations /\ m \in 0 .. WidthOf("SRAI") - 1
    BY DEF ShiftOperations, WidthOf, WordOperations, WordDivisions
  <2>3. Proper(ImmediateShift("SRAI", a, m))
    BY <2>1, <2>2, ShiftDefined
  <2>4. QED
    BY <2>3 DEF Proper, Settled
<1>3. CASE \E u \in Inputs \cup {StackTop}, n \in 0 .. W - 1 : a = ShiftRightSigned(u, n)
  <2>1. PICK u \in Inputs \cup {StackTop}, n \in 0 .. W - 1 : a = ShiftRightSigned(u, n)
    BY <1>3
  <2>2. Settled(ShiftRightSigned(a, m))
    BY <2>1, ShiftedAgain
  <2>3. ShiftRightSigned(a, m) \in Register
    <3>1. m \in Nat /\ Signed(a) \in Int
      BY SignedRange, Widths
    <3>2. PICK z \in Int : z = Signed(a) \div 2 ^ m
      BY <3>1, PowerStep, DivMod
    <3>3. QED
      BY <3>2, WrapValue DEF ShiftRightSigned
  <2>4. QED
    BY <1>1, <2>2, <2>3
<1>4. QED
  BY <1>2, <1>3 DEF Settled

-----------------------------------------------------------------------------
(* The registers of the hart, whatever it executes.                        *)

\* What a register of the present hart may hold.
Kept(v) == v \in Register /\ (xlen = H => Settled(v))

HartInv ==
  /\ WidthOK
  /\ Kept(x) /\ Kept(y)
  /\ crashed \in BOOLEAN
  /\ CrashesOnlyOnWords
  /\ mxl = IF xlen = H THEN 1 ELSE 2
  /\ ir \in {{}} \cup HalfWords \cup FullWords

LEMMA ProperKept ==
  ASSUME NEW v, Proper(v)
  PROVE  Kept(v)
BY DEF Proper, Kept, Settled

\* What comes from elsewhere is stored as it is.
LEMMA ForeignKept ==
  ASSUME NEW v \in Inputs \cup {StackTop}
  PROVE  Kept(v)
<1>1. v \in Register
  BY ForeignRegister
<1>2. PICK s \in Int : s = Signed(v) /\ (s = v \/ s = v - M)
  BY <1>1, Widths DEF Signed, Register
<1>3. 2 ^ 0 = 1 /\ s \div 1 = s
  BY PowerStep
<1>4. Wrap(s) = v
  <2>1. v \in 0 .. M - 1 /\ v \in Int
    BY <1>1 DEF Register
  <2>2. s = M * 0 + v \/ s = M * (0 - 1) + v
    BY <1>2, <2>1, Widths
  <2>3. s % M = v
    BY <2>1, <2>2, Widths, DivModUnique
  <2>4. QED
    BY <2>3 DEF Wrap
<1>5. ShiftRightSigned(v, 0) = v
  BY <1>2, <1>3, <1>4 DEF ShiftRightSigned
<1>6. 0 \in 0 .. W - 1
  BY Widths
<1>7. QED
  BY <1>1, <1>5, <1>6 DEF Kept, Settled

LEMMA ImmediateRegister ==
  ASSUME NEW i \in Immediates
  PROVE  i \in Int /\ Wrap(i) \in Register
<1>1. i \in Int
  BY WidthAssumption, Widths
<1>2. QED
  BY <1>1, WrapValue

\* Every instruction that writes a register leaves registers of the hart.
LEMMA Computed ==
  ASSUME HartInv, NEW v, Kept(v), Compute(v), UNCHANGED decodeVars
  PROVE  HartInv'
<1>1. /\ xlen' = xlen /\ crashed' = crashed /\ ~crashed
      /\ ir' = ir /\ mxl' = mxl
      /\ x' \in {x, v} /\ y' \in {y, v}
  BY DEF Compute, decodeVars
<1>2. Kept(x') /\ Kept(y')
  BY <1>1 DEF HartInv
<1>3. WidthOK' /\ Kept(x)' /\ Kept(y)'
  BY <1>1, <1>2 DEF HartInv, WidthOK, Kept, Settled
<1>4. CrashesOnlyOnWords'
  BY <1>1 DEF CrashesOnlyOnWords
<1>5. QED
  BY <1>1, <1>3, <1>4 DEF HartInv

LEMMA HartInitial ==
  ASSUME HartInit
  PROVE  HartInv
<1>1. /\ xlen \in {H, W} /\ x \in InitialRegister /\ y \in InitialRegister
      /\ crashed = FALSE /\ ir = {} /\ mxl = IF xlen = H THEN 1 ELSE 2
  BY DEF HartInit, Init
<1>2. Kept(0)
  BY Widths DEF Kept, Settled, IsExtended, Register, Sext32bit, Word
<1>3. Kept(x) /\ Kept(y)
  BY <1>1, <1>2, ForeignKept DEF InitialRegister
<1>4. QED
  BY <1>1, <1>3 DEF HartInv, WidthOK, CrashesOnlyOnWords

\* A step of Arithmetic keeps the invariant: one case per instruction.
LEMMA InstructionStep ==
  ASSUME HartInv, Next, UNCHANGED decodeVars
  PROVE  HartInv'
<1>1. WidthOK /\ x \in Register /\ y \in Register /\ (xlen = H => Settled(x) /\ Settled(y))
  BY DEF HartInv, Kept
<1>2. ASSUME NEW op \in Operations, OperationInstruction(op)
      PROVE  HartInv'
  <2>1. PICK r : r = Operation(op, x, y)
    OBVIOUS
  <2>2. Kept(r)
    BY <1>1, <2>1, OperationDefined, ProperKept
  <2>3. Compute(r)
    BY <1>2, <2>1 DEF OperationInstruction
  <2>4. QED
    BY <2>2, <2>3, Computed
<1>3. ASSUME NEW i \in Immediates, NEW op \in Operations, ImmediateInstruction(op, i)
      PROVE  HartInv'
  <2>1. PICK r : r = Operation(op, x, Wrap(i))
    OBVIOUS
  <2>2. Wrap(i) \in Register
    BY ImmediateRegister
  <2>3. Kept(r)
    BY <1>1, <2>1, <2>2, OperationDefined, ProperKept
  <2>4. Compute(r)
    BY <1>3, <2>1 DEF ImmediateInstruction
  <2>5. QED
    BY <2>3, <2>4, Computed
<1>4. ASSUME NEW i \in Immediates, NEW base \in {0} \cup Inputs, LoadUpper(base, i)
      PROVE  HartInv'
  <2>1. base \in Int /\ i \in Int
    BY WidthAssumption, Widths, ImmediateRegister DEF Register
  <2>2. PICK u \in Int : u = base + i
    BY <2>1
  <2>3. PICK r : r = Shown(u, xlen)
    OBVIOUS
  <2>4. Proper(r)
    BY <1>1, <2>3, ShownProper DEF WidthOK
  <2>5. r = IF xlen = H THEN Sext32bit(Wrap(u)) ELSE Wrap(u)
    BY <1>1, <2>3, ExtendedResult DEF WidthOK
  <2>6. Compute(r)
    BY <1>4, <2>2, <2>5 DEF LoadUpper
  <2>7. QED
    BY <2>4, <2>6, Computed, ProperKept
<1>5. ASSUME NEW op \in ShiftOperations,
             NEW n \in 0 .. (IF xlen = W /\ op \in {"SLLI", "SRLI", "SRAI"} THEN W ELSE H) - 1,
             ImmediateShiftInstruction(op, n)
      PROVE  HartInv'
  <2>1. n \in 0 .. WidthOf(op) - 1
    BY <1>1, WidthOfShift
  <2>2. PICK r : r = ImmediateShift(op, x, n)
    OBVIOUS
  <2>3. Kept(r)
    <3>1. CASE op = "SRAI" /\ xlen = H
      <4>1. n \in 0 .. H - 1
        BY <3>1, Widths
      <4>2. QED
        BY <1>1, <2>2, <3>1, <4>1, SettledShift DEF Kept
    <3>2. CASE ~(op = "SRAI" /\ xlen = H)
      <4>1. op \in LooksAtWhole => Proper(x)
        BY <1>1, <3>2 DEF LooksAtWhole, Proper, ShiftOperations
      <4>2. Proper(r)
        BY <1>1, <2>1, <2>2, <4>1, ShiftDefined
      <4>3. QED
        BY <4>2, ProperKept
    <3>3. QED
      BY <3>1, <3>2
  <2>4. Compute(r)
    BY <1>5, <2>2 DEF ImmediateShiftInstruction
  <2>5. QED
    BY <2>3, <2>4, Computed
<1>6. ASSUME NEW op \in Multiplications \cup Divisions, MultInstruction(op)
      PROVE  HartInv'
  <2>1. CASE op \in Multiplications /\ Compute(Extended(op, Multiply(op, x, y)))
    <3>1. PICK r : r = Extended(op, Multiply(op, x, y))
      OBVIOUS
    <3>2. Kept(r)
      BY <1>1, <2>1, <3>1, ProductDefined, ProperKept
    <3>3. QED
      BY <2>1, <3>1, <3>2, Computed
  <2>2. CASE /\ op \in Divisions /\ ~DividesByZero(op, y)
             /\ Compute(Extended(op, Divide(op, x, y)))
    <3>1. PICK r : r = Extended(op, Divide(op, x, y))
      OBVIOUS
    <3>2. Kept(r)
      BY <1>1, <2>2, <3>1, DivisionDefined, ProperKept
    <3>3. QED
      BY <2>2, <3>1, <3>2, Computed
  <2>3. CASE /\ ~crashed /\ op \in Divisions /\ DividesByZero(op, y)
             /\ crashed' = TRUE /\ UNCHANGED <<xlen, x, y>>
    <3>1. Word(y) = 0 /\ y # 0
      BY <1>1, <2>3, ZeroDivisor
    <3>2. CrashesOnlyOnWords'
      BY <2>3, <3>1 DEF CrashesOnlyOnWords
    <3>3. WidthOK' /\ Kept(x)' /\ Kept(y)'
      BY <2>3 DEF HartInv, WidthOK, Kept, Settled
    <3>4. QED
      BY <2>3, <3>2, <3>3 DEF HartInv, decodeVars
  <2>4. QED
    BY <1>6, <2>1, <2>2, <2>3 DEF MultInstruction
<1>7. ASSUME NEW w \in AmoWidths, NEW m \in Inputs, LoadWord(w, m)
      PROVE  HartInv'
  <2>1. PICK r : r = AmoLoaded(w, m)
    OBVIOUS
  <2>2. m \in Register /\ m \in Int
    BY WidthAssumption DEF Register
  <2>3. Proper(r)
    BY <1>1, <2>1, <2>2, SextValue, Widths DEF AmoWidths, AmoLoaded, Proper, IsExtended
  <2>4. Compute(r)
    BY <1>7, <2>1 DEF LoadWord
  <2>5. QED
    BY <2>3, <2>4, Computed, ProperKept
<1>8. ASSUME NEW v \in Inputs, StoreLink(v)
      PROVE  HartInv'
  <2>1. Kept(v)
    BY ForeignKept
  <2>2. QED
    BY <1>8, <2>1, Computed DEF StoreLink
<1>9. CASE Crashed
  BY <1>9 DEF Crashed, vars, HartInv, decodeVars, WidthOK, Kept, Settled, CrashesOnlyOnWords
<1>10. QED
  BY <1>2, <1>3, <1>4, <1>5, <1>6, <1>7, <1>8, <1>9 DEF Next

LEMMA HartStep ==
  ASSUME HartInv, [HartNext]_hartVars
  PROVE  HartInv'
<1>1. ASSUME UNCHANGED <<xlen, x, y, crashed, mxl>>, ir' \in {{}} \cup HalfWords \cup FullWords
      PROVE  HartInv'
  BY <1>1 DEF HartInv, WidthOK, Kept, Settled, CrashesOnlyOnWords
<1>2. CASE Fetch
  BY <1>1, <1>2 DEF Fetch
<1>3. CASE Retire
  BY <1>1, <1>3 DEF Retire
<1>4. CASE Next /\ UNCHANGED decodeVars
  BY <1>4, InstructionStep
<1>5. CASE UNCHANGED hartVars
  <2>1. ir' \in {{}} \cup HalfWords \cup FullWords
    BY <1>5 DEF hartVars, HartInv
  <2>2. QED
    BY <1>1, <1>5, <2>1 DEF hartVars
<1>6. QED
  BY <1>2, <1>3, <1>4, <1>5 DEF HartNext

LEMMA HartInvariant == HartSpec => []HartInv
<1>1. HartInit => HartInv
  BY HartInitial
<1>2. HartInv /\ [HartNext]_hartVars => HartInv'
  BY HartStep
<1>3. QED
  BY <1>1, <1>2, PTL DEF HartSpec

\* On a 32 bit hart every register is the sign extension of its lower half,
\* except for what run(), JAL, JALR, the CSR instructions, LWU, LD and system
\* calls put there and what SRAI made of it: every other instruction leaves an
\* extended result, whatever its operands.  For every width and every value
\* from elsewhere.
THEOREM RegistersExtendedHolds == HartSpec => []RegistersExtended
<1>1. HartInv => RegistersExtended
  BY DEF HartInv, Kept, Settled, RegistersExtended
<1>2. QED
  BY <1>1, HartInvariant, PTL

\* What RunCpu computes from the registers that any instruction sequence left
\* behind is what the instruction set defines: sums, logic, shifts,
\* comparisons and branches, the halves of products that GetMulh64 puts
\* together from partial products, quotients and remainders, and what the AMOs
\* store; the emulator divides by zero only by a register whose lower half
\* alone is zero.  For every width, and for every register, except that the
\* instructions that look at the whole register (comparisons, branches, SRA,
\* SRAI, DIV, REM, MULH and MULHSU) are claimed on a 32 bit hart for extended
\* operands only.
THEOREM ResultsAsDefinedHolds == HartSpec => []ResultsAsDefined
<1>1. ASSUME HartInv PROVE ResultsAsDefined
  <2>1. WidthOK /\ x \in Register /\ y \in Register
    BY <1>1 DEF HartInv, Kept
  <2>2. Canonical => Proper(x) /\ Proper(y)
    BY <2>1 DEF Canonical, Proper
  <2>3. OperationsAsDefined
    <3>1. \A op \in Operations :
            (op \in LooksAtWhole => Canonical) => OperationAsDefined(op, x, y)
      BY <2>1, <2>2, OperationDefined
    <3>2. \A op \in ShiftOperations : \A n \in 0 .. WidthOf(op) - 1 :
            (op \in LooksAtWhole => Canonical) => ShiftAsDefined(op, x, n)
      BY <2>1, <2>2, ShiftDefined
    <3>3. Canonical => BranchesAsDefined(x, y)
      BY <2>1, <2>2, BranchDefined
    <3>4. QED
      BY <3>1, <3>2, <3>3 DEF OperationsAsDefined
  <2>4. \A op \in Multiplications :
          (op \in LooksAtWhole => Canonical) => ProductAsDefined(op, x, y)
    BY <2>1, <2>2, ProductDefined
  <2>5. DivisionsAsDefined
    BY <2>1, <2>2, DivisionDefined DEF DivisionsAsDefined
  <2>6. \A op \in AmoOperations, w \in AmoWidths : AmoAsDefined(op, w)
    BY <2>1, AmoDefined
  <2>7. CrashesOnlyOnWords
    BY <1>1 DEF HartInv
  <2>8. QED
    BY <2>3, <2>4, <2>5, <2>6, <2>7 DEF ResultsAsDefined
<1>2. QED
  BY <1>1, HartInvariant, PTL

-----------------------------------------------------------------------------
(* Words as sets of bits.                                                  *)

LEMMA Cropped ==
  ASSUME NEW w \in SUBSET Int, NEW width \in Nat, NEW offset \in Int, NEW k
  PROVE  k \in bitcrop(w, width, offset) <=> k \in 0 .. width - 1 /\ k + offset \in w
<1>1. ASSUME k \in bitcrop(w, width, offset)
      PROVE  k \in 0 .. width - 1 /\ k + offset \in w
  BY <1>1 DEF bitcrop, mask
<1>2. ASSUME k \in 0 .. width - 1, k + offset \in w
      PROVE  k \in bitcrop(w, width, offset)
  <2>1. k = (k + offset) - offset
    BY <1>2
  <2>2. QED
    BY <1>2, <2>1 DEF bitcrop, mask
<1>3. QED
  BY <1>1, <1>2

LEMMA ShiftedUp ==
  ASSUME NEW v \in SUBSET Int, NEW n \in Int, NEW k
  PROVE  k \in ShiftUp(v, n) <=> k \in Bit /\ k - n \in v
<1>1. ASSUME k \in ShiftUp(v, n)
      PROVE  k \in Bit /\ k - n \in v
  BY <1>1 DEF ShiftUp, Bit
<1>2. ASSUME k \in Bit, k - n \in v
      PROVE  k \in ShiftUp(v, n)
  <2>1. k = (k - n) + n
    BY <1>2 DEF Bit
  <2>2. QED
    BY <1>2, <2>1 DEF ShiftUp
<1>3. QED
  BY <1>1, <1>2

\* A field that is moved from one place to another.
LEMMA MovedBits ==
  ASSUME NEW w \in SUBSET Int, NEW width \in Nat, NEW offset \in Int, NEW distpos \in Int,
         NEW k
  PROVE  k \in BitShift(w, width, offset, distpos) <=>
           /\ k \in 0 .. 31 /\ k - distpos \in 0 .. width - 1
           /\ k - distpos + offset \in w
<1>1. bitcrop(w, width, offset) \in SUBSET Int
  BY Cropped
<1>2. QED
  BY <1>1, Cropped, ShiftedUp DEF BitShift, Bit

\* A piece of a layout.
Run(w, bit, s) == {s[i] : i \in {j \in DOMAIN s : bit - j + 1 \in w}}

\* Bits from a down to b.
LEMMA RunDown ==
  ASSUME NEW w, NEW bit \in Int, NEW a \in Int, NEW b \in Int, NEW k
  PROVE  k \in Run(w, bit, Downto(a, b)) <=> k \in b .. a /\ k - a + bit \in w
<1>1. DOMAIN Downto(a, b) = 1 .. a - b + 1
  BY DEF Downto
<1>2. \A j \in 1 .. a - b + 1 : Downto(a, b)[j] = a - j + 1
  BY DEF Downto
<1>3. k \in Run(w, bit, Downto(a, b)) <=>
        \E j \in 1 .. a - b + 1 : bit - j + 1 \in w /\ k = a - j + 1
  BY <1>1, <1>2 DEF Run
<1>4. ASSUME NEW j \in 1 .. a - b + 1, bit - j + 1 \in w, k = a - j + 1
      PROVE  k \in b .. a /\ k - a + bit \in w
  <2>1. k - a + bit = bit - j + 1
    BY <1>4
  <2>2. QED
    BY <1>4, <2>1
<1>5. ASSUME k \in b .. a, k - a + bit \in w
      PROVE  \E j \in 1 .. a - b + 1 : bit - j + 1 \in w /\ k = a - j + 1
  <2>1. PICK j \in 1 .. a - b + 1 : j = a - k + 1
    BY <1>5
  <2>2. bit - j + 1 = k - a + bit /\ k = a - j + 1
    BY <1>5, <2>1
  <2>3. QED
    BY <1>5, <2>2
<1>6. QED
  BY <1>3, <1>4, <1>5

\* Bits one by one.
LEMMA Run1 ==
  ASSUME NEW w, NEW bit \in Int, NEW a
  PROVE  \A k : k \in Run(w, bit, <<a>>) <=> bit \in w /\ k = a
BY DEF Run

LEMMA Run2 ==
  ASSUME NEW w, NEW bit \in Int, NEW a, NEW b
  PROVE  \A k : k \in Run(w, bit, <<a, b>>) <=>
           \/ bit \in w /\ k = a
           \/ bit - 1 \in w /\ k = b
BY DEF Run

LEMMA Run11 ==
  ASSUME NEW w, NEW bit \in Int, NEW a, NEW b, NEW c, NEW d, NEW e, NEW f, NEW g,
         NEW h, NEW i, NEW j, NEW l
  PROVE  \A k : k \in Run(w, bit, <<a, b, c, d, e, f, g, h, i, j, l>>) <=>
           \/ bit \in w /\ k = a
           \/ bit - 1 \in w /\ k = b
           \/ bit - 2 \in w /\ k = c
           \/ bit - 3 \in w /\ k = d
           \/ bit - 4 \in w /\ k = e
           \/ bit - 5 \in w /\ k = f
           \/ bit - 6 \in w /\ k = g
           \/ bit - 7 \in w /\ k = h
           \/ bit - 8 \in w /\ k = i
           \/ bit - 9 \in w /\ k = j
           \/ bit - 10 \in w /\ k = l
BY DEF Run

\* The two ways to extend a sign, for a value of width bits.
LEMMA Extension ==
  ASSUME NEW width \in 1 .. 32, NEW v \in SUBSET (0 .. width - 1)
  PROVE  SignExtend(v, width) = Extend(v, width)
<1>1. width > 0 /\ (width - 1) + 1 = width
  OBVIOUS
<1>2. v \cap (width .. 31) = {}
  OBVIOUS
<1>3. v \ (width .. 31) = v
  BY <1>2
<1>4. QED
  BY <1>1, <1>3 DEF SignExtend, Extend, sign_mask

LEMMA Run3 ==
  ASSUME NEW w, NEW bit \in Int, NEW a, NEW b, NEW c
  PROVE  \A k : k \in Run(w, bit, <<a, b, c>>) <=>
           \/ bit \in w /\ k = a
           \/ bit - 1 \in w /\ k = b
           \/ bit - 2 \in w /\ k = c
BY DEF Run

LEMMA Run5 ==
  ASSUME NEW w, NEW bit \in Int, NEW a, NEW b, NEW c, NEW d, NEW e
  PROVE  \A k : k \in Run(w, bit, <<a, b, c, d, e>>) <=>
           \/ bit \in w /\ k = a
           \/ bit - 1 \in w /\ k = b
           \/ bit - 2 \in w /\ k = c
           \/ bit - 3 \in w /\ k = d
           \/ bit - 4 \in w /\ k = e
BY DEF Run

LEMMA Run6 ==
  ASSUME NEW w, NEW bit \in Int, NEW a, NEW b, NEW c, NEW d, NEW e, NEW f
  PROVE  \A k : k \in Run(w, bit, <<a, b, c, d, e, f>>) <=>
           \/ bit \in w /\ k = a
           \/ bit - 1 \in w /\ k = b
           \/ bit - 2 \in w /\ k = c
           \/ bit - 3 \in w /\ k = d
           \/ bit - 4 \in w /\ k = e
           \/ bit - 5 \in w /\ k = f
BY DEF Run

LEMMA Run8 ==
  ASSUME NEW w, NEW bit \in Int, NEW a, NEW b, NEW c, NEW d, NEW e, NEW f, NEW g, NEW h
  PROVE  \A k : k \in Run(w, bit, <<a, b, c, d, e, f, g, h>>) <=>
           \/ bit \in w /\ k = a
           \/ bit - 1 \in w /\ k = b
           \/ bit - 2 \in w /\ k = c
           \/ bit - 3 \in w /\ k = d
           \/ bit - 4 \in w /\ k = e
           \/ bit - 5 \in w /\ k = f
           \/ bit - 6 \in w /\ k = g
           \/ bit - 7 \in w /\ k = h
BY DEF Run

LEMMA SignExtension ==
  ASSUME NEW width \in 1 .. 32, NEW v \in SUBSET (0 .. width - 1)
  PROVE  /\ SignExtend(v, width) \in SUBSET Int
         /\ \A k \in 0 .. width - 1 : k \in SignExtend(v, width) <=> k \in v
BY DEF SignExtend, sign_mask

-----------------------------------------------------------------------------
(* The immediates of 16 bit instructions, bit by bit.                      *)

LEMMA Imm6Bits ==
  ASSUME NEW w \in SUBSET Int
  PROVE  Imm6(w) = Placed(w, Imm6Layout)
<1>1. \A k : k \in Placed(w, Imm6Layout) <=>
        \/ k \in Run(w, 12, <<5>>)
        \/ k \in Run(w, 6, Downto(4, 0))
  BY DEF Imm6Layout, Placed, Run
<1>2. \A k :
        /\ k \in Run(w, 12, <<5>>) <=> 12 \in w /\ k = 5
        /\ k \in Run(w, 6, Downto(4, 0)) <=>
             \/ 6 \in w /\ k = 4
             \/ 5 \in w /\ k = 3
             \/ 4 \in w /\ k = 2
             \/ 3 \in w /\ k = 1
             \/ 2 \in w /\ k = 0
  BY Run1, RunDown
<1>3. \A k : k \in Imm6(w) <=>
        \/ k \in BitShift(w, 1, 12, 5)
        \/ k \in BitShift(w, 5, 2, 0)
  BY DEF Imm6, Gather
<1>4. \A k : k \in BitShift(w, 1, 12, 5) <=> 12 \in w /\ k = 5
  BY MovedBits
<1>5. \A k : k \in BitShift(w, 5, 2, 0) <=>
        \/ 6 \in w /\ k = 4
        \/ 5 \in w /\ k = 3
        \/ 4 \in w /\ k = 2
        \/ 3 \in w /\ k = 1
        \/ 2 \in w /\ k = 0
  BY MovedBits
<1>6. QED
  BY <1>1, <1>2, <1>3, <1>4, <1>5

LEMMA Addi4spnImmBits ==
  ASSUME NEW w \in SUBSET Int
  PROVE  Addi4spnImm(w) = Placed(w, {<<12, <<5, 4, 9, 8, 7, 6, 2, 3>>>>})
<1>1. \A k : k \in Placed(w, {<<12, <<5, 4, 9, 8, 7, 6, 2, 3>>>>}) <=>
        k \in Run(w, 12, <<5, 4, 9, 8, 7, 6, 2, 3>>)
  BY DEF Placed, Run
<1>2. \A k :
        /\ k \in Run(w, 12, <<5, 4, 9, 8, 7, 6, 2, 3>>) <=>
             \/ 12 \in w /\ k = 5
             \/ 11 \in w /\ k = 4
             \/ 10 \in w /\ k = 9
             \/ 9 \in w /\ k = 8
             \/ 8 \in w /\ k = 7
             \/ 7 \in w /\ k = 6
             \/ 6 \in w /\ k = 2
             \/ 5 \in w /\ k = 3
  BY Run8
<1>3. \A k : k \in Addi4spnImm(w) <=>
        \/ k \in BitShift(w, 2, 11, 4)
        \/ k \in BitShift(w, 4, 7, 6)
        \/ k \in BitShift(w, 1, 6, 2)
        \/ k \in BitShift(w, 1, 5, 3)
  BY DEF Addi4spnImm, Gather
<1>4. \A k : k \in BitShift(w, 2, 11, 4) <=>
        \/ 12 \in w /\ k = 5
        \/ 11 \in w /\ k = 4
  BY MovedBits
<1>5. \A k : k \in BitShift(w, 4, 7, 6) <=>
        \/ 10 \in w /\ k = 9
        \/ 9 \in w /\ k = 8
        \/ 8 \in w /\ k = 7
        \/ 7 \in w /\ k = 6
  BY MovedBits
<1>6. \A k : k \in BitShift(w, 1, 6, 2) <=> 6 \in w /\ k = 2
  BY MovedBits
<1>7. \A k : k \in BitShift(w, 1, 5, 3) <=> 5 \in w /\ k = 3
  BY MovedBits
<1>8. QED
  BY <1>1, <1>2, <1>3, <1>4, <1>5, <1>6, <1>7

LEMMA WordImmBits ==
  ASSUME NEW w \in SUBSET Int
  PROVE  WordImm(w) = Placed(w, WordLayout)
<1>1. \A k : k \in Placed(w, WordLayout) <=>
        \/ k \in Run(w, 12, <<5, 4, 3>>)
        \/ k \in Run(w, 6, <<2, 6>>)
  BY DEF WordLayout, Placed, Run
<1>2. \A k :
        /\ k \in Run(w, 12, <<5, 4, 3>>) <=>
             \/ 12 \in w /\ k = 5
             \/ 11 \in w /\ k = 4
             \/ 10 \in w /\ k = 3
        /\ k \in Run(w, 6, <<2, 6>>) <=>
             \/ 6 \in w /\ k = 2
             \/ 5 \in w /\ k = 6
  BY Run2, Run3
<1>3. \A k : k \in WordImm(w) <=>
        \/ k \in BitShift(w, 3, 10, 3)
        \/ k \in BitShift(w, 1, 6, 2)
        \/ k \in BitShift(w, 1, 5, 6)
  BY DEF WordImm, Gather
<1>4. \A k : k \in BitShift(w, 3, 10, 3) <=>
        \/ 12 \in w /\ k = 5
        \/ 11 \in w /\ k = 4
        \/ 10 \in w /\ k = 3
  BY MovedBits
<1>5. \A k : k \in BitShift(w, 1, 6, 2) <=> 6 \in w /\ k = 2
  BY MovedBits
<1>6. \A k : k \in BitShift(w, 1, 5, 6) <=> 5 \in w /\ k = 6
  BY MovedBits
<1>7. QED
  BY <1>1, <1>2, <1>3, <1>4, <1>5, <1>6

LEMMA DoubleImmBits ==
  ASSUME NEW w \in SUBSET Int
  PROVE  DoubleImm(w) = Placed(w, DoubleLayout)
<1>1. \A k : k \in Placed(w, DoubleLayout) <=>
        \/ k \in Run(w, 12, <<5, 4, 3>>)
        \/ k \in Run(w, 6, <<7, 6>>)
  BY DEF DoubleLayout, Placed, Run
<1>2. \A k :
        /\ k \in Run(w, 12, <<5, 4, 3>>) <=>
             \/ 12 \in w /\ k = 5
             \/ 11 \in w /\ k = 4
             \/ 10 \in w /\ k = 3
        /\ k \in Run(w, 6, <<7, 6>>) <=>
             \/ 6 \in w /\ k = 7
             \/ 5 \in w /\ k = 6
  BY Run2, Run3
<1>3. \A k : k \in DoubleImm(w) <=>
        \/ k \in BitShift(w, 3, 10, 3)
        \/ k \in BitShift(w, 2, 5, 6)
  BY DEF DoubleImm, Gather
<1>4. \A k : k \in BitShift(w, 3, 10, 3) <=>
        \/ 12 \in w /\ k = 5
        \/ 11 \in w /\ k = 4
        \/ 10 \in w /\ k = 3
  BY MovedBits
<1>5. \A k : k \in BitShift(w, 2, 5, 6) <=>
        \/ 6 \in w /\ k = 7
        \/ 5 \in w /\ k = 6
  BY MovedBits
<1>6. QED
  BY <1>1, <1>2, <1>3, <1>4, <1>5

LEMMA LoadWordSpImmBits ==
  ASSUME NEW w \in SUBSET Int
  PROVE  LoadWordSpImm(w) = Placed(w, {<<12, <<5>>>>, <<6, <<4, 3, 2, 7, 6>>>>})
<1>1. \A k : k \in Placed(w, {<<12, <<5>>>>, <<6, <<4, 3, 2, 7, 6>>>>}) <=>
        \/ k \in Run(w, 12, <<5>>)
        \/ k \in Run(w, 6, <<4, 3, 2, 7, 6>>)
  BY DEF Placed, Run
<1>2. \A k :
        /\ k \in Run(w, 12, <<5>>) <=> 12 \in w /\ k = 5
        /\ k \in Run(w, 6, <<4, 3, 2, 7, 6>>) <=>
             \/ 6 \in w /\ k = 4
             \/ 5 \in w /\ k = 3
             \/ 4 \in w /\ k = 2
             \/ 3 \in w /\ k = 7
             \/ 2 \in w /\ k = 6
  BY Run1, Run5
<1>3. \A k : k \in LoadWordSpImm(w) <=>
        \/ k \in BitShift(w, 1, 12, 5)
        \/ k \in BitShift(w, 3, 4, 2)
        \/ k \in BitShift(w, 2, 2, 6)
  BY DEF LoadWordSpImm, Gather
<1>4. \A k : k \in BitShift(w, 1, 12, 5) <=> 12 \in w /\ k = 5
  BY MovedBits
<1>5. \A k : k \in BitShift(w, 3, 4, 2) <=>
        \/ 6 \in w /\ k = 4
        \/ 5 \in w /\ k = 3
        \/ 4 \in w /\ k = 2
  BY MovedBits
<1>6. \A k : k \in BitShift(w, 2, 2, 6) <=>
        \/ 3 \in w /\ k = 7
        \/ 2 \in w /\ k = 6
  BY MovedBits
<1>7. QED
  BY <1>1, <1>2, <1>3, <1>4, <1>5, <1>6

LEMMA LoadDoubleSpImmBits ==
  ASSUME NEW w \in SUBSET Int
  PROVE  LoadDoubleSpImm(w) = Placed(w, {<<12, <<5>>>>, <<6, <<4, 3, 8, 7, 6>>>>})
<1>1. \A k : k \in Placed(w, {<<12, <<5>>>>, <<6, <<4, 3, 8, 7, 6>>>>}) <=>
        \/ k \in Run(w, 12, <<5>>)
        \/ k \in Run(w, 6, <<4, 3, 8, 7, 6>>)
  BY DEF Placed, Run
<1>2. \A k :
        /\ k \in Run(w, 12, <<5>>) <=> 12 \in w /\ k = 5
        /\ k \in Run(w, 6, <<4, 3, 8, 7, 6>>) <=>
             \/ 6 \in w /\ k = 4
             \/ 5 \in w /\ k = 3
             \/ 4 \in w /\ k = 8
             \/ 3 \in w /\ k = 7
             \/ 2 \in w /\ k = 6
  BY Run1, Run5
<1>3. \A k : k \in LoadDoubleSpImm(w) <=>
        \/ k \in BitShift(w, 1, 12, 5)
        \/ k \in BitShift(w, 2, 5, 3)
        \/ k \in BitShift(w, 3, 2, 6)
  BY DEF LoadDoubleSpImm, Gather
<1>4. \A k : k \in BitShift(w, 1, 12, 5) <=> 12 \in w /\ k = 5
  BY MovedBits
<1>5. \A k : k \in BitShift(w, 2, 5, 3) <=>
        \/ 6 \in w /\ k = 4
        \/ 5 \in w /\ k = 3
  BY MovedBits
<1>6. \A k : k \in BitShift(w, 3, 2, 6) <=>
        \/ 4 \in w /\ k = 8
        \/ 3 \in w /\ k = 7
        \/ 2 \in w /\ k = 6
  BY MovedBits
<1>7. QED
  BY <1>1, <1>2, <1>3, <1>4, <1>5, <1>6

LEMMA StoreWordSpImmBits ==
  ASSUME NEW w \in SUBSET Int
  PROVE  StoreWordSpImm(w) = Placed(w, {<<12, <<5, 4, 3, 2, 7, 6>>>>})
<1>1. \A k : k \in Placed(w, {<<12, <<5, 4, 3, 2, 7, 6>>>>}) <=>
        k \in Run(w, 12, <<5, 4, 3, 2, 7, 6>>)
  BY DEF Placed, Run
<1>2. \A k :
        /\ k \in Run(w, 12, <<5, 4, 3, 2, 7, 6>>) <=>
             \/ 12 \in w /\ k = 5
             \/ 11 \in w /\ k = 4
             \/ 10 \in w /\ k = 3
             \/ 9 \in w /\ k = 2
             \/ 8 \in w /\ k = 7
             \/ 7 \in w /\ k = 6
  BY Run6
<1>3. \A k : k \in StoreWordSpImm(w) <=>
        \/ k \in BitShift(w, 4, 9, 2)
        \/ k \in BitShift(w, 2, 7, 6)
  BY DEF StoreWordSpImm, Gather
<1>4. \A k : k \in BitShift(w, 4, 9, 2) <=>
        \/ 12 \in w /\ k = 5
        \/ 11 \in w /\ k = 4
        \/ 10 \in w /\ k = 3
        \/ 9 \in w /\ k = 2
  BY MovedBits
<1>5. \A k : k \in BitShift(w, 2, 7, 6) <=>
        \/ 8 \in w /\ k = 7
        \/ 7 \in w /\ k = 6
  BY MovedBits
<1>6. QED
  BY <1>1, <1>2, <1>3, <1>4, <1>5

LEMMA StoreDoubleSpImmBits ==
  ASSUME NEW w \in SUBSET Int
  PROVE  StoreDoubleSpImm(w) = Placed(w, {<<12, <<5, 4, 3, 8, 7, 6>>>>})
<1>1. \A k : k \in Placed(w, {<<12, <<5, 4, 3, 8, 7, 6>>>>}) <=>
        k \in Run(w, 12, <<5, 4, 3, 8, 7, 6>>)
  BY DEF Placed, Run
<1>2. \A k :
        /\ k \in Run(w, 12, <<5, 4, 3, 8, 7, 6>>) <=>
             \/ 12 \in w /\ k = 5
             \/ 11 \in w /\ k = 4
             \/ 10 \in w /\ k = 3
             \/ 9 \in w /\ k = 8
             \/ 8 \in w /\ k = 7
             \/ 7 \in w /\ k = 6
  BY Run6
<1>3. \A k : k \in StoreDoubleSpImm(w) <=>
        \/ k \in BitShift(w, 3, 10, 3)
        \/ k \in BitShift(w, 3, 7, 6)
  BY DEF StoreDoubleSpImm, Gather
<1>4. \A k : k \in BitShift(w, 3, 10, 3) <=>
        \/ 12 \in w /\ k = 5
        \/ 11 \in w /\ k = 4
        \/ 10 \in w /\ k = 3
  BY MovedBits
<1>5. \A k : k \in BitShift(w, 3, 7, 6) <=>
        \/ 9 \in w /\ k = 8
        \/ 8 \in w /\ k = 7
        \/ 7 \in w /\ k = 6
  BY MovedBits
<1>6. QED
  BY <1>1, <1>2, <1>3, <1>4, <1>5

LEMMA Addi16spImmBits ==
  ASSUME NEW w \in SUBSET Int
  PROVE  /\ Addi16spImm(w) = Extend(Placed(w, {<<12, <<9>>>>, <<6, <<4, 6, 8, 7, 5>>>>}), 10)
         /\ w \cap (Rs2Bits \cup {12}) # {} => Addi16spImm(w) # {}
<1>1. \A k : k \in Placed(w, {<<12, <<9>>>>, <<6, <<4, 6, 8, 7, 5>>>>}) <=>
        \/ k \in Run(w, 12, <<9>>)
        \/ k \in Run(w, 6, <<4, 6, 8, 7, 5>>)
  BY DEF Placed, Run
<1>2. \A k :
        /\ k \in Run(w, 12, <<9>>) <=> 12 \in w /\ k = 9
        /\ k \in Run(w, 6, <<4, 6, 8, 7, 5>>) <=>
             \/ 6 \in w /\ k = 4
             \/ 5 \in w /\ k = 6
             \/ 4 \in w /\ k = 8
             \/ 3 \in w /\ k = 7
             \/ 2 \in w /\ k = 5
  BY Run1, Run5
<1>3. PICK v : v =
        Gather(w, {<<1, 12, 9>>, <<1, 6, 4>>,
                   <<1, 5, 6>>, <<2, 3, 7>>, <<1, 2, 5>>})
  OBVIOUS
<1>4. \A k : k \in v <=>
        \/ k \in BitShift(w, 1, 12, 9)
        \/ k \in BitShift(w, 1, 6, 4)
        \/ k \in BitShift(w, 1, 5, 6)
        \/ k \in BitShift(w, 2, 3, 7)
        \/ k \in BitShift(w, 1, 2, 5)
  BY <1>3 DEF Gather
<1>5. \A k : k \in BitShift(w, 1, 12, 9) <=> 12 \in w /\ k = 9
  BY MovedBits
<1>6. \A k : k \in BitShift(w, 1, 6, 4) <=> 6 \in w /\ k = 4
  BY MovedBits
<1>7. \A k : k \in BitShift(w, 1, 5, 6) <=> 5 \in w /\ k = 6
  BY MovedBits
<1>8. \A k : k \in BitShift(w, 2, 3, 7) <=>
        \/ 4 \in w /\ k = 8
        \/ 3 \in w /\ k = 7
  BY MovedBits
<1>9. \A k : k \in BitShift(w, 1, 2, 5) <=> 2 \in w /\ k = 5
  BY MovedBits
<1>10. v = Placed(w, {<<12, <<9>>>>, <<6, <<4, 6, 8, 7, 5>>>>})
  BY <1>1, <1>2, <1>4, <1>5, <1>6, <1>7, <1>8, <1>9
<1>11. v \in SUBSET (0 .. 9)
  BY <1>4, <1>5, <1>6, <1>7, <1>8, <1>9
<1>12. SignExtend(v, 10) = Extend(v, 10)
  BY <1>11, Extension
<1>13. w \cap (Rs2Bits \cup {12}) # {} => v # {}
  BY <1>4, <1>5, <1>6, <1>7, <1>8, <1>9 DEF Rs2Bits
<1>14. v \subseteq SignExtend(v, 10)
  BY <1>11, SignExtension
<1>15. QED
  BY <1>3, <1>10, <1>12, <1>13, <1>14 DEF Addi16spImm

LEMMA LuiImmBits ==
  ASSUME NEW w \in SUBSET Int
  PROVE  /\ LuiImm(w) = Extend(Placed(w, {<<12, <<17>>>>, <<6, Downto(16, 12)>>}), 18)
         /\ w \cap (Rs2Bits \cup {12}) # {} => LuiImm(w) # {}
<1>1. \A k : k \in Placed(w, {<<12, <<17>>>>, <<6, Downto(16, 12)>>}) <=>
        \/ k \in Run(w, 12, <<17>>)
        \/ k \in Run(w, 6, Downto(16, 12))
  BY DEF Placed, Run
<1>2. \A k :
        /\ k \in Run(w, 12, <<17>>) <=> 12 \in w /\ k = 17
        /\ k \in Run(w, 6, Downto(16, 12)) <=>
             \/ 6 \in w /\ k = 16
             \/ 5 \in w /\ k = 15
             \/ 4 \in w /\ k = 14
             \/ 3 \in w /\ k = 13
             \/ 2 \in w /\ k = 12
  BY Run1, RunDown
<1>3. PICK v : v = Gather(w, {<<1, 12, 17>>, <<5, 2, 12>>})
  OBVIOUS
<1>4. \A k : k \in v <=>
        \/ k \in BitShift(w, 1, 12, 17)
        \/ k \in BitShift(w, 5, 2, 12)
  BY <1>3 DEF Gather
<1>5. \A k : k \in BitShift(w, 1, 12, 17) <=> 12 \in w /\ k = 17
  BY MovedBits
<1>6. \A k : k \in BitShift(w, 5, 2, 12) <=>
        \/ 6 \in w /\ k = 16
        \/ 5 \in w /\ k = 15
        \/ 4 \in w /\ k = 14
        \/ 3 \in w /\ k = 13
        \/ 2 \in w /\ k = 12
  BY MovedBits
<1>7. v = Placed(w, {<<12, <<17>>>>, <<6, Downto(16, 12)>>})
  BY <1>1, <1>2, <1>4, <1>5, <1>6
<1>8. v \in SUBSET (0 .. 17)
  BY <1>4, <1>5, <1>6
<1>9. SignExtend(v, 18) = Extend(v, 18)
  BY <1>8, Extension
<1>10. w \cap (Rs2Bits \cup {12}) # {} => v # {}
  BY <1>4, <1>5, <1>6 DEF Rs2Bits
<1>11. v \subseteq SignExtend(v, 18)
  BY <1>8, SignExtension
<1>12. QED
  BY <1>3, <1>7, <1>9, <1>10, <1>11 DEF LuiImm

LEMMA JumpImmBits ==
  ASSUME NEW w \in SUBSET Int
  PROVE  JumpImm(w) = Extend(Placed(w, JumpLayout), 12)
<1>1. \A k : k \in Placed(w, JumpLayout) <=>
        \/ k \in Run(w, 12, <<11, 4, 9, 8, 10, 6, 7, 3, 2, 1, 5>>)
  BY DEF JumpLayout, Placed, Run
<1>2. \A k :
        /\ k \in Run(w, 12, <<11, 4, 9, 8, 10, 6, 7, 3, 2, 1, 5>>) <=>
             \/ 12 \in w /\ k = 11
             \/ 11 \in w /\ k = 4
             \/ 10 \in w /\ k = 9
             \/ 9 \in w /\ k = 8
             \/ 8 \in w /\ k = 10
             \/ 7 \in w /\ k = 6
             \/ 6 \in w /\ k = 7
             \/ 5 \in w /\ k = 3
             \/ 4 \in w /\ k = 2
             \/ 3 \in w /\ k = 1
             \/ 2 \in w /\ k = 5
  BY Run11
<1>3. PICK v : v =
        Gather(w, {<<1, 12, 11>>, <<1, 11, 4>>, <<2, 9, 8>>, <<1, 8, 10>>,
                   <<1, 7, 6>>, <<1, 6, 7>>, <<3, 3, 1>>, <<1, 2, 5>>})
  OBVIOUS
<1>4. \A k : k \in v <=>
        \/ k \in BitShift(w, 1, 12, 11)
        \/ k \in BitShift(w, 1, 11, 4)
        \/ k \in BitShift(w, 2, 9, 8)
        \/ k \in BitShift(w, 1, 8, 10)
        \/ k \in BitShift(w, 1, 7, 6)
        \/ k \in BitShift(w, 1, 6, 7)
        \/ k \in BitShift(w, 3, 3, 1)
        \/ k \in BitShift(w, 1, 2, 5)
  BY <1>3 DEF Gather
<1>5. \A k : k \in BitShift(w, 1, 12, 11) <=> 12 \in w /\ k = 11
  BY MovedBits
<1>6. \A k : k \in BitShift(w, 1, 11, 4) <=> 11 \in w /\ k = 4
  BY MovedBits
<1>7. \A k : k \in BitShift(w, 2, 9, 8) <=>
        \/ 10 \in w /\ k = 9
        \/ 9 \in w /\ k = 8
  BY MovedBits
<1>8. \A k : k \in BitShift(w, 1, 8, 10) <=> 8 \in w /\ k = 10
  BY MovedBits
<1>9. \A k : k \in BitShift(w, 1, 7, 6) <=> 7 \in w /\ k = 6
  BY MovedBits
<1>10. \A k : k \in BitShift(w, 1, 6, 7) <=> 6 \in w /\ k = 7
  BY MovedBits
<1>11. \A k : k \in BitShift(w, 3, 3, 1) <=>
        \/ 5 \in w /\ k = 3
        \/ 4 \in w /\ k = 2
        \/ 3 \in w /\ k = 1
  BY MovedBits
<1>12. \A k : k \in BitShift(w, 1, 2, 5) <=> 2 \in w /\ k = 5
  BY MovedBits
<1>13. v = Placed(w, JumpLayout)
  BY <1>1, <1>2, <1>4, <1>5, <1>6, <1>7, <1>8, <1>9, <1>10, <1>11, <1>12
<1>14. v \in SUBSET (0 .. 11)
  BY <1>4, <1>5, <1>6, <1>7, <1>8, <1>9, <1>10, <1>11, <1>12
<1>15. SignExtend(v, 12) = Extend(v, 12)
  BY <1>14, Extension
<1>16. QED
  BY <1>3, <1>13, <1>15 DEF JumpImm

LEMMA BranchImmBits ==
  ASSUME NEW w \in SUBSET Int
  PROVE  BranchImm(w) = Extend(Placed(w, BranchLayout), 9)
<1>1. \A k : k \in Placed(w, BranchLayout) <=>
        \/ k \in Run(w, 12, <<8, 4, 3>>)
        \/ k \in Run(w, 6, <<7, 6, 2, 1, 5>>)
  BY DEF BranchLayout, Placed, Run
<1>2. \A k :
        /\ k \in Run(w, 12, <<8, 4, 3>>) <=>
             \/ 12 \in w /\ k = 8
             \/ 11 \in w /\ k = 4
             \/ 10 \in w /\ k = 3
        /\ k \in Run(w, 6, <<7, 6, 2, 1, 5>>) <=>
             \/ 6 \in w /\ k = 7
             \/ 5 \in w /\ k = 6
             \/ 4 \in w /\ k = 2
             \/ 3 \in w /\ k = 1
             \/ 2 \in w /\ k = 5
  BY Run3, Run5
<1>3. PICK v : v =
        Gather(w, {<<1, 12, 8>>, <<2, 10, 3>>,
                   <<2, 5, 6>>, <<2, 3, 1>>, <<1, 2, 5>>})
  OBVIOUS
<1>4. \A k : k \in v <=>
        \/ k \in BitShift(w, 1, 12, 8)
        \/ k \in BitShift(w, 2, 10, 3)
        \/ k \in BitShift(w, 2, 5, 6)
        \/ k \in BitShift(w, 2, 3, 1)
        \/ k \in BitShift(w, 1, 2, 5)
  BY <1>3 DEF Gather
<1>5. \A k : k \in BitShift(w, 1, 12, 8) <=> 12 \in w /\ k = 8
  BY MovedBits
<1>6. \A k : k \in BitShift(w, 2, 10, 3) <=>
        \/ 11 \in w /\ k = 4
        \/ 10 \in w /\ k = 3
  BY MovedBits
<1>7. \A k : k \in BitShift(w, 2, 5, 6) <=>
        \/ 6 \in w /\ k = 7
        \/ 5 \in w /\ k = 6
  BY MovedBits
<1>8. \A k : k \in BitShift(w, 2, 3, 1) <=>
        \/ 4 \in w /\ k = 2
        \/ 3 \in w /\ k = 1
  BY MovedBits
<1>9. \A k : k \in BitShift(w, 1, 2, 5) <=> 2 \in w /\ k = 5
  BY MovedBits
<1>10. v = Placed(w, BranchLayout)
  BY <1>1, <1>2, <1>4, <1>5, <1>6, <1>7, <1>8, <1>9
<1>11. v \in SUBSET (0 .. 8)
  BY <1>4, <1>5, <1>6, <1>7, <1>8, <1>9
<1>12. SignExtend(v, 9) = Extend(v, 9)
  BY <1>11, Extension
<1>13. QED
  BY <1>3, <1>10, <1>12 DEF BranchImm


-----------------------------------------------------------------------------
(* The immediates of 32 bit instructions.                                  *)

LEMMA GetStypeImm12Bits ==
  ASSUME NEW w \in SUBSET Int
  PROVE  /\ GetStypeImm12(w) =
              Extend(Placed(w, {<<31, Downto(11, 5)>>, <<11, Downto(4, 0)>>}), 12)
         /\ GetStypeImm12(w) \in SUBSET Int
         /\ \A k \in 0 .. 11 : k \in GetStypeImm12(w) <=>
              \/ k \in 5 .. 11 /\ k + 20 \in w
              \/ k \in 0 .. 4 /\ k + 7 \in w
<1>1. PICK u : u = Placed(w, {<<31, Downto(11, 5)>>, <<11, Downto(4, 0)>>})
  OBVIOUS
<1>2. \A k : k \in u <=>
        \/ k \in Run(w, 31, Downto(11, 5))
        \/ k \in Run(w, 11, Downto(4, 0))
  BY <1>1 DEF Placed, Run
<1>3. \A k : k \in Run(w, 31, Downto(11, 5)) <=> k \in 5 .. 11 /\ k + 20 \in w
  BY RunDown
<1>4. \A k : k \in Run(w, 11, Downto(4, 0)) <=> k \in 0 .. 4 /\ k + 7 \in w
  BY RunDown
<1>5. PICK v :
        v = Gather(w, {<<7, 25, 5>>, <<5, 7, 0>>})
  OBVIOUS
<1>6. \A k : k \in v <=>
        \/ k \in BitShift(w, 7, 25, 5)
        \/ k \in BitShift(w, 5, 7, 0)
  BY <1>5 DEF Gather
<1>7. \A k : k \in BitShift(w, 7, 25, 5) <=> k \in 5 .. 11 /\ k + 20 \in w
  BY MovedBits
<1>8. \A k : k \in BitShift(w, 5, 7, 0) <=> k \in 0 .. 4 /\ k + 7 \in w
  BY MovedBits
<1>9. v = u
  BY <1>2, <1>3, <1>4, <1>6, <1>7, <1>8
<1>10. v \in SUBSET (0 .. 11)
  BY <1>6, <1>7, <1>8
<1>11. SignExtend(v, 12) = Extend(v, 12)
  BY <1>10, Extension
<1>12. /\ SignExtend(v, 12) \in SUBSET Int
      /\ \A k \in 0 .. 11 : k \in SignExtend(v, 12) <=> k \in v
  BY <1>10, SignExtension
<1>13. GetStypeImm12(w) = SignExtend(v, 12)
  BY <1>5 DEF GetStypeImm12
<1>14. \A k \in 0 .. 11 : k \in SignExtend(v, 12) <=>
              \/ k \in 5 .. 11 /\ k + 20 \in w
              \/ k \in 0 .. 4 /\ k + 7 \in w
  BY <1>12, <1>6, <1>7, <1>8
<1>15. QED
  BY <1>1, <1>9, <1>11, <1>12, <1>13, <1>14

LEMMA GetImm13Bits ==
  ASSUME NEW w \in SUBSET Int
  PROVE  /\ GetImm13(w) =
              Extend(Placed(w, {<<31, <<12>>>>, <<30, Downto(10, 5)>>, <<11, Downto(4, 1)>>,
                                <<7, <<11>>>>}), 13)
         /\ GetImm13(w) \in SUBSET Int
         /\ \A k \in 0 .. 12 : k \in GetImm13(w) <=>
              \/ 31 \in w /\ k = 12
              \/ k \in 5 .. 10 /\ k + 20 \in w
              \/ k \in 1 .. 4 /\ k + 7 \in w
              \/ 7 \in w /\ k = 11
<1>1. PICK u : u = Placed(w, {<<31, <<12>>>>, <<30, Downto(10, 5)>>, <<11, Downto(4, 1)>>,
                              <<7, <<11>>>>})
  OBVIOUS
<1>2. \A k : k \in u <=>
        \/ k \in Run(w, 31, <<12>>)
        \/ k \in Run(w, 30, Downto(10, 5))
        \/ k \in Run(w, 11, Downto(4, 1))
        \/ k \in Run(w, 7, <<11>>)
  BY <1>1 DEF Placed, Run
<1>3. \A k : k \in Run(w, 31, <<12>>) <=> 31 \in w /\ k = 12
  BY Run1
<1>4. \A k : k \in Run(w, 30, Downto(10, 5)) <=> k \in 5 .. 10 /\ k + 20 \in w
  BY RunDown
<1>5. \A k : k \in Run(w, 11, Downto(4, 1)) <=> k \in 1 .. 4 /\ k + 7 \in w
  BY RunDown
<1>6. \A k : k \in Run(w, 7, <<11>>) <=> 7 \in w /\ k = 11
  BY Run1
<1>7. PICK v :
        v = Gather(w, {<<1, 31, 12>>, <<6, 25, 5>>, <<4, 8, 1>>, <<1, 7, 11>>})
  OBVIOUS
<1>8. \A k : k \in v <=>
        \/ k \in BitShift(w, 1, 31, 12)
        \/ k \in BitShift(w, 6, 25, 5)
        \/ k \in BitShift(w, 4, 8, 1)
        \/ k \in BitShift(w, 1, 7, 11)
  BY <1>7 DEF Gather
<1>9. \A k : k \in BitShift(w, 1, 31, 12) <=> 31 \in w /\ k = 12
  BY MovedBits
<1>10. \A k : k \in BitShift(w, 6, 25, 5) <=> k \in 5 .. 10 /\ k + 20 \in w
  BY MovedBits
<1>11. \A k : k \in BitShift(w, 4, 8, 1) <=> k \in 1 .. 4 /\ k + 7 \in w
  BY MovedBits
<1>12. \A k : k \in BitShift(w, 1, 7, 11) <=> 7 \in w /\ k = 11
  BY MovedBits
<1>13. v = u
  BY <1>2, <1>3, <1>4, <1>5, <1>6, <1>8, <1>9, <1>10, <1>11, <1>12
<1>14. v \in SUBSET (0 .. 12)
  BY <1>8, <1>9, <1>10, <1>11, <1>12
<1>15. SignExtend(v, 13) = Extend(v, 13)
  BY <1>14, Extension
<1>16. /\ SignExtend(v, 13) \in SUBSET Int
      /\ \A k \in 0 .. 12 : k \in SignExtend(v, 13) <=> k \in v
  BY <1>14, SignExtension
<1>17. GetImm13(w) = SignExtend(v, 13)
  BY <1>7 DEF GetImm13
<1>18. \A k \in 0 .. 12 : k \in SignExtend(v, 13) <=>
              \/ 31 \in w /\ k = 12
              \/ k \in 5 .. 10 /\ k + 20 \in w
              \/ k \in 1 .. 4 /\ k + 7 \in w
              \/ 7 \in w /\ k = 11
  BY <1>16, <1>8, <1>9, <1>10, <1>11, <1>12
<1>19. QED
  BY <1>1, <1>13, <1>15, <1>16, <1>17, <1>18

LEMMA GetImm21Bits ==
  ASSUME NEW w \in SUBSET Int
  PROVE  /\ GetImm21(w) =
              Extend(Placed(w, {<<31, <<20>>>>, <<30, Downto(10, 1)>>, <<20, <<11>>>>,
                                <<19, Downto(19, 12)>>}), 21)
         /\ GetImm21(w) \in SUBSET Int
         /\ \A k \in 0 .. 20 : k \in GetImm21(w) <=>
              \/ 31 \in w /\ k = 20
              \/ k \in 12 .. 19 /\ k + 0 \in w
              \/ 20 \in w /\ k = 11
              \/ k \in 1 .. 10 /\ k + 20 \in w
<1>1. PICK u : u = Placed(w, {<<31, <<20>>>>, <<30, Downto(10, 1)>>, <<20, <<11>>>>,
                              <<19, Downto(19, 12)>>})
  OBVIOUS
<1>2. \A k : k \in u <=>
        \/ k \in Run(w, 31, <<20>>)
        \/ k \in Run(w, 30, Downto(10, 1))
        \/ k \in Run(w, 20, <<11>>)
        \/ k \in Run(w, 19, Downto(19, 12))
  BY <1>1 DEF Placed, Run
<1>3. \A k : k \in Run(w, 31, <<20>>) <=> 31 \in w /\ k = 20
  BY Run1
<1>4. \A k : k \in Run(w, 30, Downto(10, 1)) <=> k \in 1 .. 10 /\ k + 20 \in w
  BY RunDown
<1>5. \A k : k \in Run(w, 20, <<11>>) <=> 20 \in w /\ k = 11
  BY Run1
<1>6. \A k : k \in Run(w, 19, Downto(19, 12)) <=> k \in 12 .. 19 /\ k + 0 \in w
  BY RunDown
<1>7. PICK v :
        v = Gather(w, {<<1, 31, 20>>, <<8, 12, 12>>, <<1, 20, 11>>, <<10, 21, 1>>})
  OBVIOUS
<1>8. \A k : k \in v <=>
        \/ k \in BitShift(w, 1, 31, 20)
        \/ k \in BitShift(w, 8, 12, 12)
        \/ k \in BitShift(w, 1, 20, 11)
        \/ k \in BitShift(w, 10, 21, 1)
  BY <1>7 DEF Gather
<1>9. \A k : k \in BitShift(w, 1, 31, 20) <=> 31 \in w /\ k = 20
  BY MovedBits
<1>10. \A k : k \in BitShift(w, 8, 12, 12) <=> k \in 12 .. 19 /\ k + 0 \in w
  BY MovedBits
<1>11. \A k : k \in BitShift(w, 1, 20, 11) <=> 20 \in w /\ k = 11
  BY MovedBits
<1>12. \A k : k \in BitShift(w, 10, 21, 1) <=> k \in 1 .. 10 /\ k + 20 \in w
  BY MovedBits
<1>13. v = u
  BY <1>2, <1>3, <1>4, <1>5, <1>6, <1>8, <1>9, <1>10, <1>11, <1>12
<1>14. v \in SUBSET (0 .. 20)
  BY <1>8, <1>9, <1>10, <1>11, <1>12
<1>15. SignExtend(v, 21) = Extend(v, 21)
  BY <1>14, Extension
<1>16. /\ SignExtend(v, 21) \in SUBSET Int
      /\ \A k \in 0 .. 20 : k \in SignExtend(v, 21) <=> k \in v
  BY <1>14, SignExtension
<1>17. GetImm21(w) = SignExtend(v, 21)
  BY <1>7 DEF GetImm21
<1>18. \A k \in 0 .. 20 : k \in SignExtend(v, 21) <=>
              \/ 31 \in w /\ k = 20
              \/ k \in 12 .. 19 /\ k + 0 \in w
              \/ 20 \in w /\ k = 11
              \/ k \in 1 .. 10 /\ k + 20 \in w
  BY <1>16, <1>8, <1>9, <1>10, <1>11, <1>12
<1>19. QED
  BY <1>1, <1>13, <1>15, <1>16, <1>17, <1>18

LEMMA GetImm12Bits ==
  ASSUME NEW w \in SUBSET Int
  PROVE  /\ GetImm12(w) = Extend(Placed(w, {<<31, Downto(11, 0)>>}), 12)
         /\ GetImm12(w) \in SUBSET Int
         /\ \A k \in 0 .. 11 : k \in GetImm12(w) <=> k + 20 \in w
<1>1. PICK u : u = Placed(w, {<<31, Downto(11, 0)>>})
  OBVIOUS
<1>2. \A k : k \in u <=> k \in Run(w, 31, Downto(11, 0))
  BY <1>1 DEF Placed, Run
<1>3. \A k : k \in Run(w, 31, Downto(11, 0)) <=> k \in 0 .. 11 /\ k + 20 \in w
  BY RunDown
<1>4. PICK v : v = bitcrop(w, 12, 20)
  OBVIOUS
<1>5. \A k : k \in v <=> k \in 0 .. 11 /\ k + 20 \in w
  BY <1>4, Cropped
<1>6. v = u
  BY <1>2, <1>3, <1>5
<1>7. v \in SUBSET (0 .. 11)
  BY <1>5
<1>8. SignExtend(v, 12) = Extend(v, 12)
  BY <1>7, Extension
<1>9. /\ SignExtend(v, 12) \in SUBSET Int
      /\ \A k \in 0 .. 11 : k \in SignExtend(v, 12) <=> k \in v
  BY <1>7, SignExtension
<1>10. GetImm12(w) = SignExtend(v, 12)
  BY <1>4 DEF GetImm12
<1>11. QED
  BY <1>1, <1>5, <1>6, <1>8, <1>9, <1>10

\* The immediate of LUI and AUIPC, whose sign is shifted out.
LEMMA UpperBits ==
  ASSUME NEW w \in SUBSET (0 .. 31)
  PROVE  ShiftUp(GetImm20(w), 12) = Extend(Placed(w, {<<31, Downto(31, 12)>>}), 32)
<1>1. PICK u : u = Placed(w, {<<31, Downto(31, 12)>>})
  OBVIOUS
<1>2. \A k : k \in u <=> k \in Run(w, 31, Downto(31, 12))
  BY <1>1 DEF Placed, Run
<1>3. \A k : k \in Run(w, 31, Downto(31, 12)) <=> k \in 12 .. 31 /\ k \in w
  BY RunDown
<1>4. PICK v : v = bitcrop(w, 20, 12)
  OBVIOUS
<1>5. w \in SUBSET Int
  OBVIOUS
<1>6. \A k : k \in v <=> k \in 0 .. 19 /\ k + 12 \in w
  BY <1>4, <1>5, Cropped
<1>7. \A k \in 0 .. 19 : k \in SignExtend(v, 20) <=> k \in v
  BY DEF SignExtend, sign_mask
<1>8. SignExtend(v, 20) \in SUBSET Int
  BY <1>6 DEF SignExtend, sign_mask
<1>9. PICK z \in SUBSET Int : z = SignExtend(v, 20)
  BY <1>8
<1>10. \A k : k \in ShiftUp(z, 12) <=> k \in 0 .. 31 /\ k - 12 \in z
  BY ShiftedUp DEF Bit
<1>11. \A k \in z : k >= 0
  BY <1>6, <1>9 DEF SignExtend, sign_mask
<1>12. ASSUME NEW k PROVE k \in ShiftUp(z, 12) <=> k \in u
  <2>1. CASE k \in 12 .. 31
    <3>1. k - 12 \in 0 .. 19 /\ (k - 12) + 12 = k
      BY <2>1
    <3>2. QED
      BY <1>2, <1>3, <1>6, <1>7, <1>9, <1>10, <2>1, <3>1
  <2>2. CASE k \notin 12 .. 31
    BY <1>2, <1>3, <1>10, <1>11, <2>2
  <2>3. QED
    BY <2>1, <2>2
<1>13. ShiftUp(z, 12) = u
  BY <1>12
<1>14. Extend(u, 32) = u
  BY DEF Extend
<1>15. QED
  BY <1>1, <1>4, <1>9, <1>13, <1>14 DEF GetImm20


\* GetImm of every format.
LEMMA ImmediateDefined ==
  ASSUME NEW w \in SUBSET (0 .. 31)
  PROVE  LET opcode == GetOpcode(w)
             imm == Extend(Placed(w, FullLayout(opcode)), FullWidth(opcode))
         IN  GetImm(w) = IF IsShift(w) THEN imm \cap (0 .. 5) ELSE imm
<1> DEFINE opcode == GetOpcode(w)
           imm == Extend(Placed(w, FullLayout(opcode)), FullWidth(opcode))
<1>1. w \in SUBSET Int
  OBVIOUS
<1>2. CASE opcode = 35
  <2>1. /\ FullLayout(opcode) = {<<31, Downto(11, 5)>>, <<11, Downto(4, 0)>>}
        /\ FullWidth(opcode) = 12 /\ ~IsShift(w)
    BY <1>2 DEF FullLayout, FullWidth, OPCODE, IsShift
  <2>2. GetImm(w) = GetStypeImm12(w)
    BY <1>2, <2>1 DEF GetImm, OPCODE
  <2>3. QED
    BY <1>1, <2>1, <2>2, GetStypeImm12Bits
<1>3. CASE opcode = 99
  <2>1. /\ FullLayout(opcode)
             = {<<31, <<12>>>>, <<30, Downto(10, 5)>>, <<11, Downto(4, 1)>>, <<7, <<11>>>>}
        /\ FullWidth(opcode) = 13 /\ ~IsShift(w)
    BY <1>3 DEF FullLayout, FullWidth, OPCODE, IsShift
  <2>2. GetImm(w) = GetImm13(w)
    BY <1>3, <2>1 DEF GetImm, OPCODE
  <2>3. QED
    BY <1>1, <2>1, <2>2, GetImm13Bits
<1>4. CASE opcode \in {55, 23}
  <2>1. /\ FullLayout(opcode) = {<<31, Downto(31, 12)>>}
        /\ FullWidth(opcode) = 32 /\ ~IsShift(w)
    BY <1>4 DEF FullLayout, FullWidth, OPCODE, IsShift
  <2>2. GetImm(w) = ShiftUp(GetImm20(w), 12)
    BY <1>4, <2>1 DEF GetImm, OPCODE
  <2>3. QED
    BY <2>1, <2>2, UpperBits
<1>5. CASE opcode = 111
  <2>1. /\ FullLayout(opcode)
             = {<<31, <<20>>>>, <<30, Downto(10, 1)>>, <<20, <<11>>>>, <<19, Downto(19, 12)>>}
        /\ FullWidth(opcode) = 21 /\ ~IsShift(w)
    BY <1>5 DEF FullLayout, FullWidth, OPCODE, IsShift
  <2>2. GetImm(w) = GetImm21(w)
    BY <1>5, <2>1 DEF GetImm, OPCODE
  <2>3. QED
    BY <1>1, <2>1, <2>2, GetImm21Bits
<1>6. CASE opcode \notin {35, 99, 55, 23, 111}
  <2>1. FullLayout(opcode) = {<<31, Downto(11, 0)>>} /\ FullWidth(opcode) = 12
    BY <1>6 DEF FullLayout, FullWidth, OPCODE
  <2>2. GetImm(w) = IF IsShift(w) THEN GetImm12(w) \cap (0 .. 5) ELSE GetImm12(w)
    BY <1>6 DEF GetImm, OPCODE
  <2>3. QED
    BY <1>1, <2>1, <2>2, GetImm12Bits
<1>7. QED
  BY <1>2, <1>3, <1>4, <1>5, <1>6

-----------------------------------------------------------------------------
(* The encoders.                                                           *)

\* A field that keeps its place.
LEMMA KeptBits ==
  ASSUME NEW w \in SUBSET (0 .. 31), NEW width \in Nat, NEW n \in Nat
  PROVE  BitShift(w, width, n, n) = w \cap (n .. n + width - 1)
<1>1. w \in SUBSET Int
  OBVIOUS
<1>2. \A k : k \in BitShift(w, width, n, n) <=>
        /\ k \in 0 .. 31 /\ k - n \in 0 .. width - 1 /\ k - n + n \in w
  BY <1>1, MovedBits
<1>3. QED
  BY <1>2

LEMMA KeptFields ==
  ASSUME NEW w \in SUBSET (0 .. 31)
  PROVE  /\ RegisterFields(w, {7, 15, 20}) = w \cap ((7 .. 11) \cup (15 .. 24))
         /\ RegisterFields(w, {7, 15}) = w \cap ((7 .. 11) \cup (15 .. 19))
         /\ RegisterFields(w, {15, 20}) = w \cap (15 .. 24)
         /\ RegisterFields(w, {7}) = w \cap (7 .. 11)
         /\ OpcodeFields(w) = w \cap ((0 .. 6) \cup (12 .. 14))
         /\ BitShift(w, 7, 0, 0) = w \cap (0 .. 6)
         /\ BitShift(w, 7, 25, 25) = w \cap (25 .. 31)
<1>1. /\ BitShift(w, 5, 7, 7) = w \cap (7 .. 11)
      /\ BitShift(w, 5, 15, 15) = w \cap (15 .. 19)
      /\ BitShift(w, 5, 20, 20) = w \cap (20 .. 24)
      /\ BitShift(w, 7, 0, 0) = w \cap (0 .. 6)
      /\ BitShift(w, 3, 12, 12) = w \cap (12 .. 14)
      /\ BitShift(w, 7, 25, 25) = w \cap (25 .. 31)
  BY KeptBits
<1>2. /\ RegisterFields(w, {7, 15, 20})
           = BitShift(w, 5, 7, 7) \cup BitShift(w, 5, 15, 15) \cup BitShift(w, 5, 20, 20)
      /\ RegisterFields(w, {7, 15}) = BitShift(w, 5, 7, 7) \cup BitShift(w, 5, 15, 15)
      /\ RegisterFields(w, {15, 20}) = BitShift(w, 5, 15, 15) \cup BitShift(w, 5, 20, 20)
      /\ RegisterFields(w, {7}) = BitShift(w, 5, 7, 7)
  BY DEF RegisterFields
<1>3. OpcodeFields(w) = (w \cap (0 .. 6)) \cup (w \cap (12 .. 14))
  BY <1>1 DEF OpcodeFields
<1>4. (15 .. 24) = (15 .. 19) \cup (20 .. 24)
  OBVIOUS
<1>5. QED
  BY <1>1, <1>2, <1>3, <1>4

LEMMA RTypeInverts ==
  ASSUME NEW w \in SUBSET (0 .. 31)
  PROVE  RType(w) = w
<1>1. RType(w) = (w \cap (25 .. 31)) \cup (w \cap ((7 .. 11) \cup (15 .. 24)))
                   \cup (w \cap ((0 .. 6) \cup (12 .. 14)))
  BY KeptFields DEF RType
<1>2. \A k \in w : \/ k \in 25 .. 31
                  \/ k \in (7 .. 11) \cup (15 .. 24)
                  \/ k \in (0 .. 6) \cup (12 .. 14)
  OBVIOUS
<1>3. QED
  BY <1>1, <1>2, Zenon

LEMMA STypeInverts ==
  ASSUME NEW w \in SUBSET (0 .. 31)
  PROVE  SType(w) = w
<1>1. PICK z \in SUBSET Int : z = GetStypeImm12(w)
  BY GetStypeImm12Bits
<1>2. \A k \in 0 .. 11 : k \in z <=>
        \/ k \in 5 .. 11 /\ k + 20 \in w
        \/ k \in 0 .. 4 /\ k + 7 \in w
  BY <1>1, GetStypeImm12Bits
<1>3. PICK g : g = Gather(z, {<<7, 5, 25>>, <<5, 0, 7>>})
  OBVIOUS
<1>4. \A k : k \in g <=> k \in BitShift(z, 7, 5, 25) \/ k \in BitShift(z, 5, 0, 7)
  BY <1>3 DEF Gather
<1>5. \A k : k \in BitShift(z, 7, 5, 25) <=> k \in 25 .. 31 /\ k - 20 \in z
  BY MovedBits
<1>6. \A k : k \in BitShift(z, 5, 0, 7) <=> k \in 7 .. 11 /\ k - 7 \in z
  BY MovedBits
<1>7. \A k \in 25 .. 31 : k - 20 \in z <=> k \in w
  BY <1>2
<1>8. \A k \in 7 .. 11 : k - 7 \in z <=> k \in w
  BY <1>2
<1>9. SType(w) = g \cup (w \cap (15 .. 24)) \cup (w \cap ((0 .. 6) \cup (12 .. 14)))
  BY <1>1, <1>3, KeptFields DEF SType
<1>10. \A k : k \in g <=> k \in w /\ k \in (7 .. 11) \cup (25 .. 31)
  BY <1>4, <1>5, <1>6, <1>7, <1>8
<1>11. \A k \in w : \/ k \in (7 .. 11) \cup (25 .. 31)
                   \/ k \in 15 .. 24
                   \/ k \in (0 .. 6) \cup (12 .. 14)
  OBVIOUS
<1>12. QED
  BY <1>9, <1>10, <1>11, Zenon

LEMMA BTypeInverts ==
  ASSUME NEW w \in SUBSET (0 .. 31)
  PROVE  BType(w) = w
<1>1. PICK z \in SUBSET Int : z = GetImm13(w)
  BY GetImm13Bits
<1>2. \A k \in 0 .. 12 : k \in z <=>
        \/ 31 \in w /\ k = 12
        \/ k \in 5 .. 10 /\ k + 20 \in w
        \/ k \in 1 .. 4 /\ k + 7 \in w
        \/ 7 \in w /\ k = 11
  BY <1>1, GetImm13Bits
<1>3. PICK g : g = Gather(z, {<<1, 12, 31>>, <<6, 5, 25>>, <<4, 1, 8>>, <<1, 11, 7>>})
  OBVIOUS
<1>4. \A k : k \in g <=>
        \/ k \in BitShift(z, 1, 12, 31)
        \/ k \in BitShift(z, 6, 5, 25)
        \/ k \in BitShift(z, 4, 1, 8)
        \/ k \in BitShift(z, 1, 11, 7)
  BY <1>3 DEF Gather
<1>5. \A k : k \in BitShift(z, 1, 12, 31) <=> 12 \in z /\ k = 31
  BY MovedBits
<1>6. \A k : k \in BitShift(z, 6, 5, 25) <=> k \in 25 .. 30 /\ k - 20 \in z
  BY MovedBits
<1>7. \A k : k \in BitShift(z, 4, 1, 8) <=> k \in 8 .. 11 /\ k - 7 \in z
  BY MovedBits
<1>8. \A k : k \in BitShift(z, 1, 11, 7) <=> 11 \in z /\ k = 7
  BY MovedBits
<1>9. (12 \in z <=> 31 \in w) /\ (11 \in z <=> 7 \in w)
  BY <1>2
<1>10. \A k \in 25 .. 30 : k - 20 \in z <=> k \in w
  BY <1>2
<1>11. \A k \in 8 .. 11 : k - 7 \in z <=> k \in w
  BY <1>2
<1>12. BType(w) = g \cup (w \cap (15 .. 24)) \cup (w \cap ((0 .. 6) \cup (12 .. 14)))
  BY <1>1, <1>3, KeptFields DEF BType
<1>13. \A k : k \in g <=> k \in w /\ k \in (7 .. 11) \cup (25 .. 31)
  BY <1>4, <1>5, <1>6, <1>7, <1>8, <1>9, <1>10, <1>11
<1>14. \A k \in w : \/ k \in (7 .. 11) \cup (25 .. 31)
                   \/ k \in 15 .. 24
                   \/ k \in (0 .. 6) \cup (12 .. 14)
  OBVIOUS
<1>15. QED
  BY <1>12, <1>13, <1>14, Zenon

LEMMA JTypeInverts ==
  ASSUME NEW w \in SUBSET (0 .. 31)
  PROVE  JType(w) = w
<1>1. PICK z \in SUBSET Int : z = GetImm21(w)
  BY GetImm21Bits
<1>2. \A k \in 0 .. 20 : k \in z <=>
        \/ 31 \in w /\ k = 20
        \/ k \in 12 .. 19 /\ k + 0 \in w
        \/ 20 \in w /\ k = 11
        \/ k \in 1 .. 10 /\ k + 20 \in w
  BY <1>1, GetImm21Bits
<1>3. PICK g : g = Gather(z, {<<1, 20, 31>>, <<10, 1, 21>>, <<1, 11, 20>>, <<8, 12, 12>>})
  OBVIOUS
<1>4. \A k : k \in g <=>
        \/ k \in BitShift(z, 1, 20, 31)
        \/ k \in BitShift(z, 10, 1, 21)
        \/ k \in BitShift(z, 1, 11, 20)
        \/ k \in BitShift(z, 8, 12, 12)
  BY <1>3 DEF Gather
<1>5. \A k : k \in BitShift(z, 1, 20, 31) <=> 20 \in z /\ k = 31
  BY MovedBits
<1>6. \A k : k \in BitShift(z, 10, 1, 21) <=> k \in 21 .. 30 /\ k - 20 \in z
  BY MovedBits
<1>7. \A k : k \in BitShift(z, 1, 11, 20) <=> 11 \in z /\ k = 20
  BY MovedBits
<1>8. \A k : k \in BitShift(z, 8, 12, 12) <=> k \in 12 .. 19 /\ k \in z
  BY MovedBits
<1>9. (20 \in z <=> 31 \in w) /\ (11 \in z <=> 20 \in w)
  BY <1>2
<1>10. \A k \in 21 .. 30 : k - 20 \in z <=> k \in w
  BY <1>2
<1>11. \A k \in 12 .. 19 : k \in z <=> k \in w
  BY <1>2
<1>12. JType(w) = g \cup (w \cap (7 .. 11)) \cup (w \cap (0 .. 6))
  BY <1>1, <1>3, KeptFields DEF JType
<1>13. \A k : k \in g <=> k \in w /\ k \in 12 .. 31
  BY <1>4, <1>5, <1>6, <1>7, <1>8, <1>9, <1>10, <1>11
<1>14. \A k \in w : k \in 12 .. 31 \/ k \in 7 .. 11 \/ k \in 0 .. 6
  OBVIOUS
<1>15. QED
  BY <1>12, <1>13, <1>14, Zenon

LEMMA UTypeInverts ==
  ASSUME NEW w \in SUBSET (0 .. 31)
  PROVE  UType(w) = w
<1>1. PICK v : v = bitcrop(w, 20, 12)
  OBVIOUS
<1>2. w \in SUBSET Int
  OBVIOUS
<1>3. \A k : k \in v <=> k \in 0 .. 19 /\ k + 12 \in w
  BY <1>1, <1>2, Cropped
<1>4. \A k \in 0 .. 19 : k \in SignExtend(v, 20) <=> k \in v
  BY DEF SignExtend, sign_mask
<1>5. GetImm20(w) \cap (0 .. 19) = v
  BY <1>1, <1>3, <1>4 DEF GetImm20
<1>6. v \in SUBSET Int
  BY <1>3
<1>7. \A k : k \in ShiftUp(v, 12) <=> k \in 0 .. 31 /\ k - 12 \in v
  BY <1>6, ShiftedUp DEF Bit
<1>8. \A k : k \in ShiftUp(v, 12) <=> k \in 12 .. 31 /\ k \in w
  BY <1>3, <1>7
<1>9. UType(w) = ShiftUp(v, 12) \cup (w \cap (7 .. 11)) \cup (w \cap (0 .. 6))
  BY <1>5, KeptFields DEF UType
<1>10. \A k \in w : k \in 12 .. 31 \/ k \in 7 .. 11 \/ k \in 0 .. 6
  OBVIOUS
<1>11. QED
  BY <1>8, <1>9, <1>10, Zenon

LEMMA ITypeInverts ==
  ASSUME NEW w \in SUBSET (0 .. 31)
  PROVE  IType(w) = IF IsShift(w) THEN w \ (26 .. 31) ELSE w
<1>1. PICK z \in SUBSET Int : z = GetImm12(w)
  BY GetImm12Bits
<1>2. \A k \in 0 .. 11 : k \in z <=> k + 20 \in w
  BY <1>1, GetImm12Bits
<1>3. \A k \in z : k >= 0
  BY <1>1, Cropped DEF GetImm12, SignExtend, sign_mask
<1>4. PICK u \in SUBSET Int : u = IF IsShift(w) THEN z \cap (0 .. 5) ELSE z
  OBVIOUS
<1>5. \A k : k \in ShiftUp(u, 20) <=> k \in 0 .. 31 /\ k - 20 \in u
  BY ShiftedUp DEF Bit
<1>6. IType(w) = ShiftUp(u, 20) \cup (w \cap ((7 .. 11) \cup (15 .. 19)))
                   \cup (w \cap ((0 .. 6) \cup (12 .. 14)))
  BY <1>1, <1>4, KeptFields DEF IType
<1>7. \A k \in 20 .. 31 : k - 20 \in z <=> k \in w
  BY <1>2
<1>8. CASE IsShift(w)
  <2>1. \A k : k \in ShiftUp(u, 20) <=> k \in 20 .. 25 /\ k \in w
    BY <1>3, <1>4, <1>5, <1>7, <1>8
  <2>2. \A k \in w : \/ k \in 20 .. 25
                    \/ k \in 26 .. 31
                    \/ k \in (7 .. 11) \cup (15 .. 19)
                    \/ k \in (0 .. 6) \cup (12 .. 14)
    OBVIOUS
  <2>3. \A k \in 26 .. 31 : /\ k \notin 20 .. 25
                          /\ k \notin (7 .. 11) \cup (15 .. 19)
                          /\ k \notin (0 .. 6) \cup (12 .. 14)
    OBVIOUS
  <2>4. IType(w) = w \ (26 .. 31)
    BY <1>6, <2>1, <2>2, <2>3, Zenon
  <2>5. QED
    BY <1>8, <2>4
<1>9. CASE ~IsShift(w)
  <2>1. \A k : k \in ShiftUp(u, 20) <=> k \in 20 .. 31 /\ k \in w
    BY <1>3, <1>4, <1>5, <1>7, <1>9
  <2>2. \A k \in w : \/ k \in 20 .. 31
                    \/ k \in (7 .. 11) \cup (15 .. 19)
                    \/ k \in (0 .. 6) \cup (12 .. 14)
    OBVIOUS
  <2>3. IType(w) = w
    BY <1>6, <2>1, <2>2, Zenon
  <2>4. QED
    BY <1>9, <2>3
<1>10. QED
  BY <1>8, <1>9

-----------------------------------------------------------------------------
(* The 16 bit instructions.                                                *)

\* The number of a field by its bits.
LEMMA FieldValue ==
  ASSUME NEW w \in SUBSET Int, NEW n \in Int
  PROVE  /\ Number(bitcrop(w, 2, n)) = (IF n \in w THEN 1 ELSE 0)
                                         + (IF n + 1 \in w THEN 2 ELSE 0)
         /\ Number(bitcrop(w, 3, n)) = (IF n \in w THEN 1 ELSE 0)
                                         + (IF n + 1 \in w THEN 2 ELSE 0)
                                         + (IF n + 2 \in w THEN 4 ELSE 0)
         /\ Number(bitcrop(w, 5, n)) = (IF n \in w THEN 1 ELSE 0)
                                         + (IF n + 1 \in w THEN 2 ELSE 0)
                                         + (IF n + 2 \in w THEN 4 ELSE 0)
                                         + (IF n + 3 \in w THEN 8 ELSE 0)
                                         + (IF n + 4 \in w THEN 16 ELSE 0)
<1>1. /\ 0 \in bitcrop(w, 2, n) <=> n \in w
      /\ 1 \in bitcrop(w, 2, n) <=> n + 1 \in w
      /\ \A i \in 2 .. 6 : i \notin bitcrop(w, 2, n)
  BY Cropped
<1>2. /\ 0 \in bitcrop(w, 3, n) <=> n \in w
      /\ 1 \in bitcrop(w, 3, n) <=> n + 1 \in w
      /\ 2 \in bitcrop(w, 3, n) <=> n + 2 \in w
      /\ \A i \in 3 .. 6 : i \notin bitcrop(w, 3, n)
  BY Cropped
<1>3. /\ 0 \in bitcrop(w, 5, n) <=> n \in w
      /\ 1 \in bitcrop(w, 5, n) <=> n + 1 \in w
      /\ 2 \in bitcrop(w, 5, n) <=> n + 2 \in w
      /\ 3 \in bitcrop(w, 5, n) <=> n + 3 \in w
      /\ 4 \in bitcrop(w, 5, n) <=> n + 4 \in w
      /\ \A i \in 5 .. 6 : i \notin bitcrop(w, 5, n)
  BY Cropped
<1>4. QED
  BY <1>1, <1>2, <1>3 DEF Number

\* A field, moved to the places of a number.
LEMMA FieldPlaces ==
  ASSUME NEW w \in SUBSET Int, NEW width \in Nat, NEW n \in Int
  PROVE  bitcrop(w, width, n) = {i - n : i \in w \cap (n .. n + width - 1)}
<1>1. \A k : k \in bitcrop(w, width, n) <=> k \in 0 .. width - 1 /\ k + n \in w
  BY Cropped
<1>2. \A k \in 0 .. width - 1 : k = (k + n) - n /\ k + n \in n .. n + width - 1
  OBVIOUS
<1>3. \A i \in n .. n + width - 1 : i - n \in 0 .. width - 1 /\ (i - n) + n = i
  OBVIOUS
<1>4. QED
  BY <1>1, <1>2, <1>3, Zenon

LEMMA RegisterPlaces ==
  ASSUME NEW w \in SUBSET Int
  PROVE  /\ Placement(w, "x0") = 0 /\ Placement(w, "ra") = 1 /\ Placement(w, "sp") = 2
         /\ Placement(w, "r") = Wide(w, 7) /\ Placement(w, "s") = Wide(w, 2)
         /\ Placement(w, "p") = Short(w, 7) /\ Placement(w, "q") = Short(w, 2)
<1>1. /\ bitcrop(w, 5, 7) = {i - 7 : i \in w \cap (7 .. 11)}
      /\ bitcrop(w, 5, 2) = {i - 2 : i \in w \cap (2 .. 6)}
      /\ bitcrop(w, 3, 7) = {i - 7 : i \in w \cap (7 .. 9)}
      /\ bitcrop(w, 3, 2) = {i - 2 : i \in w \cap (2 .. 4)}
  BY FieldPlaces
<1>2. \A v : Number(v) \in Int
  BY DEF Number
<1>3. /\ Placement(w, "x0") = 0 /\ Placement(w, "ra") = 1 /\ Placement(w, "sp") = 2
      /\ Placement(w, "r") = Number({i - 7 : i \in w \cap (7 .. 11)})
      /\ Placement(w, "s") = Number({i - 2 : i \in w \cap (2 .. 6)})
      /\ Placement(w, "p") = 8 + Number({i - 7 : i \in w \cap (7 .. 9)})
      /\ Placement(w, "q") = 8 + Number({i - 2 : i \in w \cap (2 .. 4)})
  BY DEF Placement, RdBits, Rs2Bits
<1>4. /\ Placement(w, "p") = 8 + Number(bitcrop(w, 3, 7))
      /\ Placement(w, "q") = 8 + Number(bitcrop(w, 3, 2))
      /\ Placement(w, "r") = Wide(w, 7) /\ Placement(w, "s") = Wide(w, 2)
  BY <1>1, <1>3, Zenon DEF Wide
<1>5. Placement(w, "p") = Short(w, 7) /\ Placement(w, "q") = Short(w, 2)
  BY <1>2, <1>4 DEF Short
<1>6. QED
  BY <1>3, <1>4, <1>5

\* The conditions of a format and the fields that GetCode16 looks at.
LEMMA FieldConditions ==
  ASSUME NEW w \in SUBSET Int
  PROVE  /\ Wide(w, 7) = 0 <=> w \cap RdBits = {}
         /\ Wide(w, 7) = 2 <=> w \cap RdBits = {8}
         /\ Wide(w, 2) = 0 <=> w \cap Rs2Bits = {}
         /\ bitcrop(w, 8, 5) = {} <=> w \cap (5 .. 12) = {}
<1>1. /\ Wide(w, 7) = (IF 7 \in w THEN 1 ELSE 0) + (IF 8 \in w THEN 2 ELSE 0)
                        + (IF 9 \in w THEN 4 ELSE 0) + (IF 10 \in w THEN 8 ELSE 0)
                        + (IF 11 \in w THEN 16 ELSE 0)
      /\ Wide(w, 2) = (IF 2 \in w THEN 1 ELSE 0) + (IF 3 \in w THEN 2 ELSE 0)
                        + (IF 4 \in w THEN 4 ELSE 0) + (IF 5 \in w THEN 8 ELSE 0)
                        + (IF 6 \in w THEN 16 ELSE 0)
  BY FieldValue DEF Wide
<1>2. /\ Wide(w, 7) = 0 <=> \A i \in 7 .. 11 : i \notin w
      /\ Wide(w, 7) = 2 <=> 8 \in w /\ \A i \in {7, 9, 10, 11} : i \notin w
      /\ Wide(w, 2) = 0 <=> \A i \in 2 .. 6 : i \notin w
  BY <1>1
<1>3. bitcrop(w, 8, 5) = {i - 5 : i \in w \cap (5 .. 12)}
  BY FieldPlaces
<1>4. bitcrop(w, 8, 5) = {} <=> w \cap (5 .. 12) = {}
  BY <1>3, Zenon
<1>5. (7 .. 11) = {7, 8, 9, 10, 11}
  OBVIOUS
<1>6. w \cap RdBits = {8} <=> 8 \in w /\ \A i \in {7, 9, 10, 11} : i \notin w
  BY <1>5 DEF RdBits
<1>7. QED
  BY <1>2, <1>4, <1>6 DEF RdBits, Rs2Bits

\* GetCode16, opcode by opcode.
LEMMA Code16 ==
  ASSUME NEW w, NEW m
  PROVE  /\ Opcode16(w) = \b00000 /\ bitcrop(w, 8, 5) = {} => GetCode16(w, m) = Undecoded
         /\ Opcode16(w) = \b00000 /\ bitcrop(w, 8, 5) # {} =>
              GetCode16(w, m) = Code("ADDI", Short(w, 2), 2, 0, Addi4spnImm(w))
         /\ Opcode16(w) = \b00101 /\ m = 1 =>
              GetCode16(w, m) = Code("JAL", 1, 0, 0, JumpImm(w))
         /\ Opcode16(w) = \b00101 /\ m # 1 =>
              GetCode16(w, m) =
                Code("ADDIW", Wide(w, 7), Wide(w, 7), 0, SignExtend(Imm6(w), 6))
         /\ Opcode16(w) = \b00001 =>
              GetCode16(w, m) =
                Code("ADDI", Wide(w, 7), Wide(w, 7), 0, SignExtend(Imm6(w), 6))
         /\ Opcode16(w) = \b00010 =>
              GetCode16(w, m) = Code("SLLI", Wide(w, 7), Wide(w, 7), 0, Imm6(w))
         /\ Opcode16(w) = \b01000 =>
              GetCode16(w, m) = Code("LW", Short(w, 2), Short(w, 7), 0, WordImm(w))
         /\ Opcode16(w) = \b01001 =>
              GetCode16(w, m) = Code("ADDI", Wide(w, 7), 0, 0, SignExtend(Imm6(w), 6))
         /\ Opcode16(w) = \b01010 =>
              GetCode16(w, m) = Code("LW", Wide(w, 7), 2, 0, LoadWordSpImm(w))
         /\ Opcode16(w) = \b01100 =>
              GetCode16(w, m) = Code("LD", Short(w, 2), Short(w, 7), 0, DoubleImm(w))
         /\ Opcode16(w) = \b01110 =>
              GetCode16(w, m) = Code("LD", Wide(w, 7), 2, 0, LoadDoubleSpImm(w))
         /\ Opcode16(w) = \b01101 => GetCode16(w, m) = UpperImmediate(w)
         /\ Opcode16(w) = \b10010 => GetCode16(w, m) = JumpMoveAdd(w)
         /\ Opcode16(w) = \b10001 => GetCode16(w, m) = ShortArithmetic(w)
         /\ Opcode16(w) = \b10101 => GetCode16(w, m) = Code("JAL", 0, 0, 0, JumpImm(w))
         /\ Opcode16(w) = \b11000 =>
              GetCode16(w, m) = Code("SW", 0, Short(w, 7), Short(w, 2), WordImm(w))
         /\ Opcode16(w) = \b11100 =>
              GetCode16(w, m) = Code("SD", 0, Short(w, 7), Short(w, 2), DoubleImm(w))
         /\ Opcode16(w) = \b11001 =>
              GetCode16(w, m) = Code("BEQ", 0, Short(w, 7), 0, BranchImm(w))
         /\ Opcode16(w) = \b11101 =>
              GetCode16(w, m) = Code("BNE", 0, Short(w, 7), 0, BranchImm(w))
         /\ Opcode16(w) = \b11010 =>
              GetCode16(w, m) = Code("SW", 0, 2, Wide(w, 2), StoreWordSpImm(w))
         /\ Opcode16(w) = \b11110 =>
              GetCode16(w, m) = Code("SD", 0, 2, Wide(w, 2), StoreDoubleSpImm(w))
BY DEF GetCode16, GetCode16High

\* The rows of the instructions that share opcodes 10001 and 10010, by the
\* bits of the word.
LEMMA ShortArithmeticCode ==
  ASSUME NEW w \in SUBSET Int
  PROVE  LET rd == Short(w, 7)
             register(name) == Code(name, rd, rd, Short(w, 2), {})
         IN  /\ 11 \notin w /\ 10 \notin w =>
                  ShortArithmetic(w) = Code("SRLI", rd, rd, 0, Imm6(w))
             /\ 11 \notin w /\ 10 \in w =>
                  ShortArithmetic(w) = Code("SRAI", rd, rd, 0, Imm6(w))
             /\ 11 \in w /\ 10 \notin w =>
                  ShortArithmetic(w) = Code("ANDI", rd, rd, 0, SignExtend(Imm6(w), 6))
             /\ 11 \in w /\ 10 \in w /\ 12 \notin w /\ 5 \notin w /\ 6 \notin w =>
                  ShortArithmetic(w) = register("SUB")
             /\ 11 \in w /\ 10 \in w /\ 12 \notin w /\ 5 \in w /\ 6 \notin w =>
                  ShortArithmetic(w) = register("XOR")
             /\ 11 \in w /\ 10 \in w /\ 12 \notin w /\ 5 \notin w /\ 6 \in w =>
                  ShortArithmetic(w) = register("OR")
             /\ 11 \in w /\ 10 \in w /\ 12 \notin w /\ 5 \in w /\ 6 \in w =>
                  ShortArithmetic(w) = register("AND")
             /\ 11 \in w /\ 10 \in w /\ 12 \in w /\ 5 \notin w /\ 6 \notin w =>
                  ShortArithmetic(w) = register("SUBW")
             /\ 11 \in w /\ 10 \in w /\ 12 \in w /\ 5 \in w /\ 6 \notin w =>
                  ShortArithmetic(w) = register("ADDW")
             /\ 11 \in w /\ 10 \in w /\ 12 \in w /\ 6 \in w =>
                  ShortArithmetic(w) = Undecoded
<1>1. Number(bitcrop(w, 3, 10)) = (IF 10 \in w THEN 1 ELSE 0) + (IF 11 \in w THEN 2 ELSE 0)
                                    + (IF 12 \in w THEN 4 ELSE 0)
  BY FieldValue
<1>2. Number(bitcrop(w, 2, 5)) = (IF 5 \in w THEN 1 ELSE 0) + (IF 6 \in w THEN 2 ELSE 0)
  BY FieldValue
<1>3. QED
  BY <1>1, <1>2 DEF ShortArithmetic

LEMMA JumpMoveAddCode ==
  ASSUME NEW w \in SUBSET Int
  PROVE  /\ 12 \in w /\ w \cap Rs2Bits = {} /\ w \cap RdBits = {} =>
              JumpMoveAdd(w) = Code("SYSTEM", 0, 0, 0, {0})
         /\ 12 \in w /\ w \cap Rs2Bits = {} /\ w \cap RdBits # {} =>
              JumpMoveAdd(w) = Code("JALR", 1, Wide(w, 7), 0, {})
         /\ 12 \in w /\ w \cap Rs2Bits # {} /\ w \cap RdBits = {} =>
              JumpMoveAdd(w) = Undecoded
         /\ 12 \in w /\ w \cap Rs2Bits # {} /\ w \cap RdBits # {} =>
              JumpMoveAdd(w) = Code("ADD", Wide(w, 7), Wide(w, 7), Wide(w, 2), {})
         /\ 12 \notin w /\ w \cap Rs2Bits = {} =>
              JumpMoveAdd(w) = Code("JALR", 0, Wide(w, 7), 0, {})
         /\ 12 \notin w /\ w \cap Rs2Bits # {} =>
              JumpMoveAdd(w) = Code("ADD", Wide(w, 7), 0, Wide(w, 2), {})
<1>1. PICK s, r : s = Wide(w, 2) /\ r = Wide(w, 7)
  OBVIOUS
<1>2. (s = 0 <=> w \cap Rs2Bits = {}) /\ (r = 0 <=> w \cap RdBits = {})
  BY <1>1, FieldConditions
<1>3. JumpMoveAdd(w) =
        IF 12 \in w
        THEN CASE s = 0 /\ r = 0 -> Code("SYSTEM", 0, 0, 0, {0})
               [] s = 0 /\ r # 0 -> Code("JALR", 1, r, 0, {})
               [] s # 0 /\ r = 0 -> Undecoded
               [] OTHER -> Code("ADD", r, r, s, {})
        ELSE IF s = 0 THEN Code("JALR", 0, r, 0, {})
             ELSE Code("ADD", r, 0, s, {})
  BY <1>1 DEF JumpMoveAdd
<1>4. QED
  BY <1>1, <1>2, <1>3

LEMMA UpperImmediateCode ==
  ASSUME NEW w \in SUBSET Int, w \cap (Rs2Bits \cup {12}) # {}
  PROVE  /\ w \cap RdBits = {8} =>
              UpperImmediate(w) = Code("ADDI", Wide(w, 7), Wide(w, 7), 0, Addi16spImm(w))
         /\ w \cap RdBits # {8} =>
              UpperImmediate(w) = Code("LUI", Wide(w, 7), 0, 0, LuiImm(w))
<1>1. Addi16spImm(w) # {} /\ LuiImm(w) # {}
  BY Addi16spImmBits, LuiImmBits
<1>2. Wide(w, 7) = 2 <=> w \cap RdBits = {8}
  BY FieldConditions
<1>3. QED
  BY <1>1, <1>2 DEF UpperImmediate

\* The immediates of the manual's formats are those of GetCode16.
LEMMA Immediates16 ==
  ASSUME NEW w \in SUBSET Int
  PROVE  /\ Extend(Placed(w, {}), 0) = {}
         /\ 12 \in w => Extend(Placed(w, {<<12, <<0>>>>}), 0) = {0}
         /\ Extend(Placed(w, Imm6Layout), 0) = Imm6(w)
         /\ Extend(Placed(w, Imm6Layout), 6) = SignExtend(Imm6(w), 6)
         /\ Extend(Placed(w, {<<12, <<5, 4, 9, 8, 7, 6, 2, 3>>>>}), 0) = Addi4spnImm(w)
         /\ Extend(Placed(w, WordLayout), 0) = WordImm(w)
         /\ Extend(Placed(w, DoubleLayout), 0) = DoubleImm(w)
         /\ Extend(Placed(w, {<<12, <<5>>>>, <<6, <<4, 3, 2, 7, 6>>>>}), 0) = LoadWordSpImm(w)
         /\ Extend(Placed(w, {<<12, <<5>>>>, <<6, <<4, 3, 8, 7, 6>>>>}), 0) = LoadDoubleSpImm(w)
         /\ Extend(Placed(w, {<<12, <<5, 4, 3, 2, 7, 6>>>>}), 0) = StoreWordSpImm(w)
         /\ Extend(Placed(w, {<<12, <<5, 4, 3, 8, 7, 6>>>>}), 0) = StoreDoubleSpImm(w)
<1>1. \A v : Extend(v, 0) = v
  BY DEF Extend
<1>2. Placed(w, {}) = {}
  BY DEF Placed
<1>3. ASSUME 12 \in w PROVE Placed(w, {<<12, <<0>>>>}) = {0}
  <2>1. \A k : k \in Placed(w, {<<12, <<0>>>>}) <=> k \in Run(w, 12, <<0>>)
    BY DEF Placed, Run
  <2>2. \A k : k \in Run(w, 12, <<0>>) <=> 12 \in w /\ k = 0
    BY Run1
  <2>3. QED
    BY <1>3, <2>1, <2>2
<1>4. Imm6(w) \in SUBSET (0 .. 5)
  <2>1. \A k : k \in BitShift(w, 1, 12, 5) => k = 5
    BY MovedBits
  <2>2. \A k : k \in BitShift(w, 5, 2, 0) => k \in 0 .. 4
    BY MovedBits
  <2>3. \A k : k \in Imm6(w) => k \in BitShift(w, 1, 12, 5) \/ k \in BitShift(w, 5, 2, 0)
    BY DEF Imm6, Gather
  <2>4. QED
    BY <2>1, <2>2, <2>3
<1>5. SignExtend(Imm6(w), 6) = Extend(Imm6(w), 6)
  BY <1>4, Extension
<1>6. /\ Imm6(w) = Placed(w, Imm6Layout)
      /\ WordImm(w) = Placed(w, WordLayout)
      /\ DoubleImm(w) = Placed(w, DoubleLayout)
  BY Imm6Bits, WordImmBits, DoubleImmBits
<1>7. QED
  BY <1>1, <1>2, <1>3, <1>5, <1>6, Addi4spnImmBits, LoadWordSpImmBits, LoadDoubleSpImmBits,
     StoreWordSpImmBits, StoreDoubleSpImmBits, Zenon

\* GetCode16 expands a word as every format of the manual that it fits does.
LEMMA CompressedDefined ==
  ASSUME NEW w \in SUBSET Int, NEW m \in {1, 2}, NEW f \in CForms, Fits(w, m, f)
  PROVE  GetCode16(w, m) = Expansion(w, f)
<1>1. CASE f =
        CForm("C.ADDI4SPN", \b00000, {1, 2}, {}, {}, 5 .. 12, {},
              <<"ADDI", "q", "sp", "x0">>, {<<12, <<5, 4, 9, 8, 7, 6, 2, 3>>>>}, 0, <<"rd">>)
  <2>1. Opcode16(w) = \b00000 /\ w \cap (5 .. 12) # {}
    BY <1>1 DEF Fits, CForm
  <2>2. Expansion(w, f) =
          Code("ADDI", Short(w, 2), 2, 0, Addi4spnImm(w))
    BY <1>1, RegisterPlaces, Immediates16 DEF Expansion, CForm, Code
  <2>3. QED
    BY <2>1, <2>2, Code16, FieldConditions
<1>2. CASE f =
        CForm("C.LW", \b01000, {1, 2}, {}, {}, {}, {},
              <<"LW", "q", "p", "x0">>, WordLayout, 0, <<"rd", "rs1">>)
  <2>1. Opcode16(w) = \b01000
    BY <1>2 DEF Fits, CForm
  <2>2. Expansion(w, f) =
          Code("LW", Short(w, 2), Short(w, 7), 0, WordImm(w))
    BY <1>2, RegisterPlaces, Immediates16 DEF Expansion, CForm, Code
  <2>3. QED
    BY <2>1, <2>2, Code16
<1>3. CASE f =
        CForm("C.LD", \b01100, {2}, {}, {}, {}, {},
              <<"LD", "q", "p", "x0">>, DoubleLayout, 0, <<"rd", "rs1">>)
  <2>1. Opcode16(w) = \b01100 /\ m = 2
    BY <1>3 DEF Fits, CForm
  <2>2. Expansion(w, f) =
          Code("LD", Short(w, 2), Short(w, 7), 0, DoubleImm(w))
    BY <1>3, RegisterPlaces, Immediates16 DEF Expansion, CForm, Code
  <2>3. QED
    BY <2>1, <2>2, Code16
<1>4. CASE f =
        CForm("C.SW", \b11000, {1, 2}, {}, {}, {}, {},
              <<"SW", "x0", "p", "q">>, WordLayout, 0, <<"rs2", "rs1">>)
  <2>1. Opcode16(w) = \b11000
    BY <1>4 DEF Fits, CForm
  <2>2. Expansion(w, f) =
          Code("SW", 0, Short(w, 7), Short(w, 2), WordImm(w))
    BY <1>4, RegisterPlaces, Immediates16 DEF Expansion, CForm, Code
  <2>3. QED
    BY <2>1, <2>2, Code16
<1>5. CASE f =
        CForm("C.SD", \b11100, {2}, {}, {}, {}, {},
              <<"SD", "x0", "p", "q">>, DoubleLayout, 0, <<"rs2", "rs1">>)
  <2>1. Opcode16(w) = \b11100 /\ m = 2
    BY <1>5 DEF Fits, CForm
  <2>2. Expansion(w, f) =
          Code("SD", 0, Short(w, 7), Short(w, 2), DoubleImm(w))
    BY <1>5, RegisterPlaces, Immediates16 DEF Expansion, CForm, Code
  <2>3. QED
    BY <2>1, <2>2, Code16
<1>6. CASE f =
        CForm("C.ADDI", \b00001, {1, 2}, {}, {}, {}, {},
              <<"ADDI", "r", "r", "x0">>, Imm6Layout, 6, <<"rd">>)
  <2>1. Opcode16(w) = \b00001
    BY <1>6 DEF Fits, CForm
  <2>2. Expansion(w, f) =
          Code("ADDI", Wide(w, 7), Wide(w, 7), 0, SignExtend(Imm6(w), 6))
    BY <1>6, RegisterPlaces, Immediates16 DEF Expansion, CForm, Code
  <2>3. QED
    BY <2>1, <2>2, Code16
<1>7. CASE f =
        CForm("C.JAL", \b00101, {1}, {}, {}, {}, {},
              <<"JAL", "ra", "x0", "x0">>, JumpLayout, 12, <<>>)
  <2>1. Opcode16(w) = \b00101 /\ m = 1
    BY <1>7 DEF Fits, CForm
  <2>2. Expansion(w, f) =
          Code("JAL", 1, 0, 0, JumpImm(w))
    BY <1>7, RegisterPlaces, JumpImmBits DEF Expansion, CForm, Code
  <2>3. QED
    BY <2>1, <2>2, Code16
<1>8. CASE f =
        CForm("C.ADDIW", \b00101, {2}, {}, {}, {}, {{}},
              <<"ADDIW", "r", "r", "x0">>, Imm6Layout, 6, <<"rd">>)
  <2>1. Opcode16(w) = \b00101 /\ m = 2 /\ w \cap RdBits # {}
    BY <1>8 DEF Fits, CForm
  <2>2. Expansion(w, f) =
          Code("ADDIW", Wide(w, 7), Wide(w, 7), 0, SignExtend(Imm6(w), 6))
    BY <1>8, RegisterPlaces, Immediates16 DEF Expansion, CForm, Code
  <2>3. QED
    BY <2>1, <2>2, Code16
<1>9. CASE f =
        CForm("C.LI", \b01001, {1, 2}, {}, {}, {}, {},
              <<"ADDI", "r", "x0", "x0">>, Imm6Layout, 6, <<"rd">>)
  <2>1. Opcode16(w) = \b01001
    BY <1>9 DEF Fits, CForm
  <2>2. Expansion(w, f) =
          Code("ADDI", Wide(w, 7), 0, 0, SignExtend(Imm6(w), 6))
    BY <1>9, RegisterPlaces, Immediates16 DEF Expansion, CForm, Code
  <2>3. QED
    BY <2>1, <2>2, Code16
<1>10. CASE f =
        CForm("C.ADDI16SP", \b01101, {1, 2}, {8}, {7, 9, 10, 11}, Rs2Bits \cup {12}, {},
              <<"ADDI", "r", "r", "x0">>, {<<12, <<9>>>>, <<6, <<4, 6, 8, 7, 5>>>>}, 10, <<>>)
  <2>1. Opcode16(w) = \b01101 /\ w \cap (Rs2Bits \cup {12}) # {} /\ w \cap RdBits = {8}
    BY <1>10 DEF Fits, CForm, RdBits, Rs2Bits
  <2>2. Expansion(w, f) =
          Code("ADDI", Wide(w, 7), Wide(w, 7), 0, Addi16spImm(w))
    BY <1>10, RegisterPlaces, Addi16spImmBits DEF Expansion, CForm, Code
  <2>3. QED
    BY <2>1, <2>2, Code16, UpperImmediateCode
<1>11. CASE f =
        CForm("C.LUI", \b01101, {1, 2}, {}, {}, Rs2Bits \cup {12}, {{8}},
              <<"LUI", "r", "x0", "x0">>, {<<12, <<17>>>>, <<6, Downto(16, 12)>>}, 18, <<"rd">>)
  <2>1. Opcode16(w) = \b01101 /\ w \cap (Rs2Bits \cup {12}) # {} /\ w \cap RdBits # {8}
    BY <1>11 DEF Fits, CForm
  <2>2. Expansion(w, f) =
          Code("LUI", Wide(w, 7), 0, 0, LuiImm(w))
    BY <1>11, RegisterPlaces, LuiImmBits DEF Expansion, CForm, Code
  <2>3. QED
    BY <2>1, <2>2, Code16, UpperImmediateCode
<1>12. CASE f =
        CForm("C.SRLI", \b10001, {1, 2}, {}, {10, 11}, {}, {},
              <<"SRLI", "p", "p", "x0">>, Imm6Layout, 0, <<"rd">>)
  <2>1. Opcode16(w) = \b10001 /\ 10 \notin w /\ 11 \notin w
    BY <1>12 DEF Fits, CForm
  <2>2. Expansion(w, f) =
          Code("SRLI", Short(w, 7), Short(w, 7), 0, Imm6(w))
    BY <1>12, RegisterPlaces, Immediates16 DEF Expansion, CForm, Code
  <2>3. QED
    BY <2>1, <2>2, Code16, ShortArithmeticCode
<1>13. CASE f =
        CForm("C.SRAI", \b10001, {1, 2}, {10}, {11}, {}, {},
              <<"SRAI", "p", "p", "x0">>, Imm6Layout, 0, <<"rd">>)
  <2>1. Opcode16(w) = \b10001 /\ 10 \in w /\ 11 \notin w
    BY <1>13 DEF Fits, CForm
  <2>2. Expansion(w, f) =
          Code("SRAI", Short(w, 7), Short(w, 7), 0, Imm6(w))
    BY <1>13, RegisterPlaces, Immediates16 DEF Expansion, CForm, Code
  <2>3. QED
    BY <2>1, <2>2, Code16, ShortArithmeticCode
<1>14. CASE f =
        CForm("C.ANDI", \b10001, {1, 2}, {11}, {10}, {}, {},
              <<"ANDI", "p", "p", "x0">>, Imm6Layout, 6, <<"rd">>)
  <2>1. Opcode16(w) = \b10001 /\ 11 \in w /\ 10 \notin w
    BY <1>14 DEF Fits, CForm
  <2>2. Expansion(w, f) =
          Code("ANDI", Short(w, 7), Short(w, 7), 0, SignExtend(Imm6(w), 6))
    BY <1>14, RegisterPlaces, Immediates16 DEF Expansion, CForm, Code
  <2>3. QED
    BY <2>1, <2>2, Code16, ShortArithmeticCode
<1>15. CASE f = ShortForm("C.SUB", "SUB", {10, 11}, {5, 6, 12})
  <2>1. /\ Opcode16(w) = \b10001 /\ 10 \in w /\ 11 \in w /\ 5 \notin w /\ 6 \notin w
        /\ 12 \notin w
    BY <1>15 DEF Fits, CForm, ShortForm
  <2>2. Expansion(w, f) =
          Code("SUB", Short(w, 7), Short(w, 7), Short(w, 2), {})
    BY <1>15, RegisterPlaces, Immediates16 DEF Expansion, CForm, ShortForm, Code
  <2>3. QED
    BY <2>1, <2>2, Code16, ShortArithmeticCode
<1>16. CASE f = ShortForm("C.XOR", "XOR", {10, 11, 5}, {6, 12})
  <2>1. /\ Opcode16(w) = \b10001 /\ 10 \in w /\ 11 \in w /\ 5 \in w /\ 6 \notin w
        /\ 12 \notin w
    BY <1>16 DEF Fits, CForm, ShortForm
  <2>2. Expansion(w, f) =
          Code("XOR", Short(w, 7), Short(w, 7), Short(w, 2), {})
    BY <1>16, RegisterPlaces, Immediates16 DEF Expansion, CForm, ShortForm, Code
  <2>3. QED
    BY <2>1, <2>2, Code16, ShortArithmeticCode
<1>17. CASE f = ShortForm("C.OR", "OR", {10, 11, 6}, {5, 12})
  <2>1. /\ Opcode16(w) = \b10001 /\ 10 \in w /\ 11 \in w /\ 6 \in w /\ 5 \notin w
        /\ 12 \notin w
    BY <1>17 DEF Fits, CForm, ShortForm
  <2>2. Expansion(w, f) =
          Code("OR", Short(w, 7), Short(w, 7), Short(w, 2), {})
    BY <1>17, RegisterPlaces, Immediates16 DEF Expansion, CForm, ShortForm, Code
  <2>3. QED
    BY <2>1, <2>2, Code16, ShortArithmeticCode
<1>18. CASE f = ShortForm("C.AND", "AND", {10, 11, 5, 6}, {12})
  <2>1. /\ Opcode16(w) = \b10001 /\ 10 \in w /\ 11 \in w /\ 5 \in w /\ 6 \in w
        /\ 12 \notin w
    BY <1>18 DEF Fits, CForm, ShortForm
  <2>2. Expansion(w, f) =
          Code("AND", Short(w, 7), Short(w, 7), Short(w, 2), {})
    BY <1>18, RegisterPlaces, Immediates16 DEF Expansion, CForm, ShortForm, Code
  <2>3. QED
    BY <2>1, <2>2, Code16, ShortArithmeticCode
<1>19. CASE f = ShortForm("C.SUBW", "SUBW", {10, 11, 12}, {5, 6})
  <2>1. /\ Opcode16(w) = \b10001 /\ 10 \in w /\ 11 \in w /\ 12 \in w /\ 5 \notin w
        /\ 6 \notin w
    BY <1>19 DEF Fits, CForm, ShortForm
  <2>2. Expansion(w, f) =
          Code("SUBW", Short(w, 7), Short(w, 7), Short(w, 2), {})
    BY <1>19, RegisterPlaces, Immediates16 DEF Expansion, CForm, ShortForm, Code
  <2>3. QED
    BY <2>1, <2>2, Code16, ShortArithmeticCode
<1>20. CASE f = ShortForm("C.ADDW", "ADDW", {10, 11, 12, 5}, {6})
  <2>1. /\ Opcode16(w) = \b10001 /\ 10 \in w /\ 11 \in w /\ 12 \in w /\ 5 \in w
        /\ 6 \notin w
    BY <1>20 DEF Fits, CForm, ShortForm
  <2>2. Expansion(w, f) =
          Code("ADDW", Short(w, 7), Short(w, 7), Short(w, 2), {})
    BY <1>20, RegisterPlaces, Immediates16 DEF Expansion, CForm, ShortForm, Code
  <2>3. QED
    BY <2>1, <2>2, Code16, ShortArithmeticCode
<1>21. CASE f =
        CForm("C.J", \b10101, {1, 2}, {}, {}, {}, {},
              <<"JAL", "x0", "x0", "x0">>, JumpLayout, 12, <<>>)
  <2>1. Opcode16(w) = \b10101
    BY <1>21 DEF Fits, CForm
  <2>2. Expansion(w, f) =
          Code("JAL", 0, 0, 0, JumpImm(w))
    BY <1>21, RegisterPlaces, JumpImmBits DEF Expansion, CForm, Code
  <2>3. QED
    BY <2>1, <2>2, Code16
<1>22. CASE f =
        CForm("C.BEQZ", \b11001, {1, 2}, {}, {}, {}, {},
              <<"BEQ", "x0", "p", "x0">>, BranchLayout, 9, <<"rs1">>)
  <2>1. Opcode16(w) = \b11001
    BY <1>22 DEF Fits, CForm
  <2>2. Expansion(w, f) =
          Code("BEQ", 0, Short(w, 7), 0, BranchImm(w))
    BY <1>22, RegisterPlaces, BranchImmBits DEF Expansion, CForm, Code
  <2>3. QED
    BY <2>1, <2>2, Code16
<1>23. CASE f =
        CForm("C.BNEZ", \b11101, {1, 2}, {}, {}, {}, {},
              <<"BNE", "x0", "p", "x0">>, BranchLayout, 9, <<"rs1">>)
  <2>1. Opcode16(w) = \b11101
    BY <1>23 DEF Fits, CForm
  <2>2. Expansion(w, f) =
          Code("BNE", 0, Short(w, 7), 0, BranchImm(w))
    BY <1>23, RegisterPlaces, BranchImmBits DEF Expansion, CForm, Code
  <2>3. QED
    BY <2>1, <2>2, Code16
<1>24. CASE f =
        CForm("C.SLLI", \b00010, {1, 2}, {}, {}, {}, {},
              <<"SLLI", "r", "r", "x0">>, Imm6Layout, 0, <<"rd">>)
  <2>1. Opcode16(w) = \b00010
    BY <1>24 DEF Fits, CForm
  <2>2. Expansion(w, f) =
          Code("SLLI", Wide(w, 7), Wide(w, 7), 0, Imm6(w))
    BY <1>24, RegisterPlaces, Immediates16 DEF Expansion, CForm, Code
  <2>3. QED
    BY <2>1, <2>2, Code16
<1>25. CASE f =
        CForm("C.LWSP", \b01010, {1, 2}, {}, {}, {}, {{}},
              <<"LW", "r", "sp", "x0">>, {<<12, <<5>>>>, <<6, <<4, 3, 2, 7, 6>>>>}, 0, <<"rd">>)
  <2>1. Opcode16(w) = \b01010 /\ w \cap RdBits # {}
    BY <1>25 DEF Fits, CForm
  <2>2. Expansion(w, f) =
          Code("LW", Wide(w, 7), 2, 0, LoadWordSpImm(w))
    BY <1>25, RegisterPlaces, Immediates16 DEF Expansion, CForm, Code
  <2>3. QED
    BY <2>1, <2>2, Code16
<1>26. CASE f =
        CForm("C.LDSP", \b01110, {2}, {}, {}, {}, {{}},
              <<"LD", "r", "sp", "x0">>, {<<12, <<5>>>>, <<6, <<4, 3, 8, 7, 6>>>>}, 0, <<"rd">>)
  <2>1. Opcode16(w) = \b01110 /\ m = 2 /\ w \cap RdBits # {}
    BY <1>26 DEF Fits, CForm
  <2>2. Expansion(w, f) =
          Code("LD", Wide(w, 7), 2, 0, LoadDoubleSpImm(w))
    BY <1>26, RegisterPlaces, Immediates16 DEF Expansion, CForm, Code
  <2>3. QED
    BY <2>1, <2>2, Code16
<1>27. CASE f =
        CForm("C.JR", \b10010, {1, 2}, {}, Rs2Bits \cup {12}, {}, {{}},
              <<"JALR", "x0", "r", "x0">>, {}, 0, <<"rs1">>)
  <2>1. /\ Opcode16(w) = \b10010 /\ w \cap RdBits # {} /\ 12 \notin w
        /\ w \cap Rs2Bits = {}
    BY <1>27 DEF Fits, CForm, RdBits, Rs2Bits
  <2>2. Expansion(w, f) =
          Code("JALR", 0, Wide(w, 7), 0, {})
    BY <1>27, RegisterPlaces, Immediates16 DEF Expansion, CForm, Code
  <2>3. QED
    BY <2>1, <2>2, Code16, JumpMoveAddCode
<1>28. CASE f =
        CForm("C.MV", \b10010, {1, 2}, {}, {12}, Rs2Bits, {},
              <<"ADD", "r", "x0", "s">>, {}, 0, <<"rd", "rs2">>)
  <2>1. Opcode16(w) = \b10010 /\ w \cap Rs2Bits # {} /\ 12 \notin w
    BY <1>28 DEF Fits, CForm, RdBits, Rs2Bits
  <2>2. Expansion(w, f) =
          Code("ADD", Wide(w, 7), 0, Wide(w, 2), {})
    BY <1>28, RegisterPlaces, Immediates16 DEF Expansion, CForm, Code
  <2>3. QED
    BY <2>1, <2>2, Code16, JumpMoveAddCode
<1>29. CASE f =
        CForm("C.EBREAK", \b10010, {1, 2}, {12}, RdBits \cup Rs2Bits, {}, {},
              <<"SYSTEM", "x0", "x0", "x0">>, {<<12, <<0>>>>}, 0, <<>>)
  <2>1. Opcode16(w) = \b10010 /\ 12 \in w /\ w \cap Rs2Bits = {} /\ w \cap RdBits = {}
    BY <1>29 DEF Fits, CForm, RdBits, Rs2Bits
  <2>2. Expansion(w, f) =
          Code("SYSTEM", 0, 0, 0, {0})
    BY <1>29, <2>1, RegisterPlaces, Immediates16 DEF Expansion, CForm, Code
  <2>3. QED
    BY <2>1, <2>2, Code16, JumpMoveAddCode
<1>30. CASE f =
        CForm("C.JALR", \b10010, {1, 2}, {12}, Rs2Bits, {}, {{}},
              <<"JALR", "ra", "r", "x0">>, {}, 0, <<"rs1">>)
  <2>1. Opcode16(w) = \b10010 /\ w \cap RdBits # {} /\ 12 \in w /\ w \cap Rs2Bits = {}
    BY <1>30 DEF Fits, CForm, RdBits, Rs2Bits
  <2>2. Expansion(w, f) =
          Code("JALR", 1, Wide(w, 7), 0, {})
    BY <1>30, RegisterPlaces, Immediates16 DEF Expansion, CForm, Code
  <2>3. QED
    BY <2>1, <2>2, Code16, JumpMoveAddCode
<1>31. CASE f =
        CForm("C.ADD", \b10010, {1, 2}, {12}, {}, Rs2Bits, {{}},
              <<"ADD", "r", "r", "s">>, {}, 0, <<"rd", "rs2">>)
  <2>1. Opcode16(w) = \b10010 /\ w \cap Rs2Bits # {} /\ w \cap RdBits # {} /\ 12 \in w
    BY <1>31 DEF Fits, CForm, RdBits, Rs2Bits
  <2>2. Expansion(w, f) =
          Code("ADD", Wide(w, 7), Wide(w, 7), Wide(w, 2), {})
    BY <1>31, RegisterPlaces, Immediates16 DEF Expansion, CForm, Code
  <2>3. QED
    BY <2>1, <2>2, Code16, JumpMoveAddCode
<1>32. CASE f =
        CForm("C.SWSP", \b11010, {1, 2}, {}, {}, {}, {},
              <<"SW", "x0", "sp", "s">>, {<<12, <<5, 4, 3, 2, 7, 6>>>>}, 0, <<"rs2">>)
  <2>1. Opcode16(w) = \b11010
    BY <1>32 DEF Fits, CForm
  <2>2. Expansion(w, f) =
          Code("SW", 0, 2, Wide(w, 2), StoreWordSpImm(w))
    BY <1>32, RegisterPlaces, Immediates16 DEF Expansion, CForm, Code
  <2>3. QED
    BY <2>1, <2>2, Code16
<1>33. CASE f =
        CForm("C.SDSP", \b11110, {2}, {}, {}, {}, {},
              <<"SD", "x0", "sp", "s">>, {<<12, <<5, 4, 3, 8, 7, 6>>>>}, 0, <<"rs2">>)
  <2>1. Opcode16(w) = \b11110 /\ m = 2
    BY <1>33 DEF Fits, CForm
  <2>2. Expansion(w, f) =
          Code("SD", 0, 2, Wide(w, 2), StoreDoubleSpImm(w))
    BY <1>33, RegisterPlaces, Immediates16 DEF Expansion, CForm, Code
  <2>3. QED
    BY <2>1, <2>2, Code16
<1>34. QED
  BY <1>1, <1>2, <1>3, <1>4, <1>5, <1>6, <1>7, <1>8, <1>9, <1>10, <1>11, <1>12, <1>13, <1>14,
     <1>15, <1>16, <1>17, <1>18, <1>19, <1>20, <1>21, <1>22, <1>23, <1>24, <1>25, <1>26,
     <1>27, <1>28, <1>29, <1>30, <1>31, <1>32, <1>33 DEF CForms

\* Erased memory is no instruction.
LEMMA ZeroWord ==
  ASSUME NEW m
  PROVE  GetCode16({}, m).instruction = "ERROR"
<1>1. bitcrop({}, 3, 13) = {} /\ bitcrop({}, 2, 0) = {} /\ bitcrop({}, 8, 5) = {}
  BY DEF bitcrop
<1>2. Opcode16({}) = 0
  BY <1>1 DEF Opcode16, Number
<1>3. GetCode16({}, m) = Undecoded
  BY <1>1, <1>2, Code16
<1>4. QED
  BY <1>3 DEF Undecoded, Code

-----------------------------------------------------------------------------
(* The theorem on decoding.                                                *)

\* What decoding needs to know of a state: the word is one that was fetched.
WordInv == ir \in SUBSET Bit /\ mxl \in {1, 2}

LEMMA WordInvariant == HartSpec => []WordInv
<1>1. HartInit => WordInv
  BY DEF HartInit, WordInv
<1>2. WordInv /\ [HartNext]_hartVars => WordInv'
  <2>1. ASSUME WordInv, Fetch PROVE WordInv'
    <3>1. ir' \in SUBSET Bit
      BY <2>1, WordAssumption DEF Fetch, Bit
    <3>2. QED
      BY <2>1, <3>1 DEF Fetch, WordInv
  <2>2. ASSUME WordInv, Retire PROVE WordInv'
    BY <2>2 DEF Retire, WordInv
  <2>3. ASSUME WordInv, UNCHANGED decodeVars PROVE WordInv'
    BY <2>3 DEF WordInv, decodeVars
  <2>4. ASSUME WordInv, UNCHANGED hartVars PROVE WordInv'
    BY <2>4 DEF WordInv, hartVars
  <2>5. QED
    BY <2>1, <2>2, <2>3, <2>4 DEF HartNext
<1>3. QED
  BY <1>1, <1>2, PTL DEF HartSpec

LEMMA EncodersDefined ==
  ASSUME WordInv
  PROVE  EncodersInvert
<1>1. ir \in SUBSET (0 .. 31)
  BY DEF WordInv, Bit
<1>2. /\ RType(ir) = ir /\ SType(ir) = ir /\ BType(ir) = ir /\ JType(ir) = ir
      /\ UType(ir) = ir
      /\ IType(ir) = IF IsShift(ir) THEN ir \ (26 .. 31) ELSE ir
  BY <1>1, RTypeInverts, STypeInverts, BTypeInverts, JTypeInverts, UTypeInverts, ITypeInverts
<1>3. QED
  BY <1>2, Zenon DEF EncodersInvert

\* DecodedAsDefined: whatever word GetCode16 or GetImm is given, 16 or 32 bits
\* long and on either hart, it takes it apart as the manual lays it out, and
\* the assembler's encoders give every word back but for the upper bits of a
\* shift's immediate.
THEOREM DecodedAsDefinedHolds == HartSpec => []DecodedAsDefined
<1>1. WordInv => DecodedAsDefined
  <2>1. SUFFICES ASSUME WordInv PROVE DecodedAsDefined
    OBVIOUS
  <2>2. ir \in SUBSET (0 .. 31) /\ ir \in SUBSET Int /\ mxl \in {1, 2}
    BY <2>1 DEF WordInv, Bit
  <2>3. CompressedAsDefined
    BY <2>2, ZeroWord, CompressedDefined DEF CompressedAsDefined
  <2>4. ImmediatesAsDefined
    BY <2>2, ImmediateDefined DEF ImmediatesAsDefined
  <2>5. EncodersInvert
    BY <2>1, EncodersDefined
  <2>6. QED
    BY <2>3, <2>4, <2>5 DEF DecodedAsDefined
<1>2. QED
  BY <1>1, WordInvariant, PTL

-----------------------------------------------------------------------------
(* The log.  The line of a 16 bit instruction.                             *)

\* The registers of code that a line shows.
Operands(code, fields) == [i \in DOMAIN fields |-> code[fields[i]]]

LEMMA OperandFields ==
  ASSUME NEW instruction, NEW rd, NEW rs1, NEW rs2, NEW imm, NEW code,
         code = Code(instruction, rd, rs1, rs2, imm)
  PROVE  /\ code.instruction = instruction /\ code.rd = rd /\ code.rs1 = rs1
         /\ code.rs2 = rs2 /\ code.imm = imm
         /\ Operands(code, <<>>) = <<>>
         /\ Operands(code, <<"rd">>) = <<rd>>
         /\ Operands(code, <<"rs1">>) = <<rs1>>
         /\ Operands(code, <<"rs2">>) = <<rs2>>
         /\ Operands(code, <<"rd", "rs1">>) = <<rd, rs1>>
         /\ Operands(code, <<"rd", "rs2">>) = <<rd, rs2>>
         /\ Operands(code, <<"rs1", "rs2">>) = <<rs1, rs2>>
         /\ Operands(code, <<"rs2", "rs1">>) = <<rs2, rs1>>
         /\ Operands(code, <<"rd", "rs1", "rs2">>) = <<rd, rs1, rs2>>
         /\ Operands(code, <<"rd", "rs2", "rs1">>) = <<rd, rs2, rs1>>
<1>0. /\ code.instruction = instruction /\ code.rd = rd /\ code.rs1 = rs1
      /\ code.rs2 = rs2 /\ code.imm = imm
  BY DEF Code
<1>1. Operands(code, <<>>) = <<>>
  BY DEF Operands, Code
<1>2. Operands(code, <<"rd">>) = <<rd>>
  BY DEF Operands, Code
<1>3. Operands(code, <<"rs1">>) = <<rs1>>
  BY DEF Operands, Code
<1>4. Operands(code, <<"rs2">>) = <<rs2>>
  BY DEF Operands, Code
<1>5. Operands(code, <<"rd", "rs1">>) = <<rd, rs1>>
  BY DEF Operands, Code
<1>6. Operands(code, <<"rd", "rs2">>) = <<rd, rs2>>
  BY DEF Operands, Code
<1>7. Operands(code, <<"rs1", "rs2">>) = <<rs1, rs2>>
  BY DEF Operands, Code
<1>8. Operands(code, <<"rs2", "rs1">>) = <<rs2, rs1>>
  BY DEF Operands, Code
<1>9. Operands(code, <<"rd", "rs1", "rs2">>) = <<rd, rs1, rs2>>
  BY DEF Operands, Code
<1>10. Operands(code, <<"rd", "rs2", "rs1">>) = <<rd, rs2, rs1>>
  BY DEF Operands, Code
<1>11. QED
  BY <1>0, <1>1, <1>2, <1>3, <1>4, <1>5, <1>6, <1>7, <1>8, <1>9, <1>10

\* A format of the manual with this name, for this instruction, whose
\* assembly has these operands.
Has(name, instruction, shows) ==
  \E f \in CForms : f.name = name /\ f.code[1] = instruction /\ f.shows = shows

LEMMA FormNames ==
  /\ Has("C.ADDI4SPN", "ADDI", <<"rd">>)
  /\ Has("C.LW", "LW", <<"rd", "rs1">>)
  /\ Has("C.LD", "LD", <<"rd", "rs1">>)
  /\ Has("C.SW", "SW", <<"rs2", "rs1">>)
  /\ Has("C.SD", "SD", <<"rs2", "rs1">>)
  /\ Has("C.ADDI", "ADDI", <<"rd">>)
  /\ Has("C.JAL", "JAL", <<>>)
  /\ Has("C.ADDIW", "ADDIW", <<"rd">>)
  /\ Has("C.LI", "ADDI", <<"rd">>)
  /\ Has("C.ADDI16SP", "ADDI", <<>>)
  /\ Has("C.LUI", "LUI", <<"rd">>)
  /\ Has("C.SRLI", "SRLI", <<"rd">>)
  /\ Has("C.SRAI", "SRAI", <<"rd">>)
  /\ Has("C.ANDI", "ANDI", <<"rd">>)
  /\ Has("C.SUB", "SUB", <<"rd", "rs2">>)
  /\ Has("C.XOR", "XOR", <<"rd", "rs2">>)
  /\ Has("C.OR", "OR", <<"rd", "rs2">>)
  /\ Has("C.AND", "AND", <<"rd", "rs2">>)
  /\ Has("C.SUBW", "SUBW", <<"rd", "rs2">>)
  /\ Has("C.ADDW", "ADDW", <<"rd", "rs2">>)
  /\ Has("C.J", "JAL", <<>>)
  /\ Has("C.BEQZ", "BEQ", <<"rs1">>)
  /\ Has("C.BNEZ", "BNE", <<"rs1">>)
  /\ Has("C.SLLI", "SLLI", <<"rd">>)
  /\ Has("C.LWSP", "LW", <<"rd">>)
  /\ Has("C.LDSP", "LD", <<"rd">>)
  /\ Has("C.JR", "JALR", <<"rs1">>)
  /\ Has("C.MV", "ADD", <<"rd", "rs2">>)
  /\ Has("C.EBREAK", "SYSTEM", <<>>)
  /\ Has("C.JALR", "JALR", <<"rs1">>)
  /\ Has("C.ADD", "ADD", <<"rd", "rs2">>)
  /\ Has("C.SWSP", "SW", <<"rs2">>)
  /\ Has("C.SDSP", "SD", <<"rs2">>)
<1>1. Has("C.ADDI4SPN", "ADDI", <<"rd">>)
  BY DEF Has, CForms, CForm
<1>2. Has("C.LW", "LW", <<"rd", "rs1">>)
  BY DEF Has, CForms, CForm
<1>3. Has("C.LD", "LD", <<"rd", "rs1">>)
  BY DEF Has, CForms, CForm
<1>4. Has("C.SW", "SW", <<"rs2", "rs1">>)
  BY DEF Has, CForms, CForm
<1>5. Has("C.SD", "SD", <<"rs2", "rs1">>)
  BY DEF Has, CForms, CForm
<1>6. Has("C.ADDI", "ADDI", <<"rd">>)
  BY DEF Has, CForms, CForm
<1>7. Has("C.JAL", "JAL", <<>>)
  BY DEF Has, CForms, CForm
<1>8. Has("C.ADDIW", "ADDIW", <<"rd">>)
  BY DEF Has, CForms, CForm
<1>9. Has("C.LI", "ADDI", <<"rd">>)
  BY DEF Has, CForms, CForm
<1>10. Has("C.ADDI16SP", "ADDI", <<>>)
  BY DEF Has, CForms, CForm
<1>11. Has("C.LUI", "LUI", <<"rd">>)
  BY DEF Has, CForms, CForm
<1>12. Has("C.SRLI", "SRLI", <<"rd">>)
  BY DEF Has, CForms, CForm
<1>13. Has("C.SRAI", "SRAI", <<"rd">>)
  BY DEF Has, CForms, CForm
<1>14. Has("C.ANDI", "ANDI", <<"rd">>)
  BY DEF Has, CForms, CForm
<1>15. Has("C.SUB", "SUB", <<"rd", "rs2">>)
  BY DEF Has, CForms, CForm, ShortForm
<1>16. Has("C.XOR", "XOR", <<"rd", "rs2">>)
  BY DEF Has, CForms, CForm, ShortForm
<1>17. Has("C.OR", "OR", <<"rd", "rs2">>)
  BY DEF Has, CForms, CForm, ShortForm
<1>18. Has("C.AND", "AND", <<"rd", "rs2">>)
  BY DEF Has, CForms, CForm, ShortForm
<1>19. Has("C.SUBW", "SUBW", <<"rd", "rs2">>)
  BY DEF Has, CForms, CForm, ShortForm
<1>20. Has("C.ADDW", "ADDW", <<"rd", "rs2">>)
  BY DEF Has, CForms, CForm, ShortForm
<1>21. Has("C.J", "JAL", <<>>)
  BY DEF Has, CForms, CForm
<1>22. Has("C.BEQZ", "BEQ", <<"rs1">>)
  BY DEF Has, CForms, CForm
<1>23. Has("C.BNEZ", "BNE", <<"rs1">>)
  BY DEF Has, CForms, CForm
<1>24. Has("C.SLLI", "SLLI", <<"rd">>)
  BY DEF Has, CForms, CForm
<1>25. Has("C.LWSP", "LW", <<"rd">>)
  BY DEF Has, CForms, CForm
<1>26. Has("C.LDSP", "LD", <<"rd">>)
  BY DEF Has, CForms, CForm
<1>27. Has("C.JR", "JALR", <<"rs1">>)
  BY DEF Has, CForms, CForm
<1>28. Has("C.MV", "ADD", <<"rd", "rs2">>)
  BY DEF Has, CForms, CForm
<1>29. Has("C.EBREAK", "SYSTEM", <<>>)
  BY DEF Has, CForms, CForm
<1>30. Has("C.JALR", "JALR", <<"rs1">>)
  BY DEF Has, CForms, CForm
<1>31. Has("C.ADD", "ADD", <<"rd", "rs2">>)
  BY DEF Has, CForms, CForm
<1>32. Has("C.SWSP", "SW", <<"rs2">>)
  BY DEF Has, CForms, CForm
<1>33. Has("C.SDSP", "SD", <<"rs2">>)
  BY DEF Has, CForms, CForm
<1>34. QED
  BY <1>1, <1>2, <1>3, <1>4, <1>5, <1>6, <1>7, <1>8, <1>9, <1>10, <1>11, <1>12, <1>13,
     <1>14, <1>15, <1>16, <1>17, <1>18, <1>19, <1>20, <1>21, <1>22, <1>23, <1>24, <1>25,
     <1>26, <1>27, <1>28, <1>29, <1>30, <1>31, <1>32, <1>33

LEMMA ShortArithmeticLines ==
  ASSUME NEW w \in SUBSET Int, NEW c
  PROVE  LET registers(name) == Line(name, <<c.rd, c.rs2>>, {})
         IN  /\ 11 \notin w /\ 10 \notin w =>
                  ShortArithmeticLine(w, c) = Line("C.SRLI", <<c.rd>>, c.imm)
             /\ 11 \notin w /\ 10 \in w =>
                  ShortArithmeticLine(w, c) = Line("C.SRAI", <<c.rd>>, c.imm)
             /\ 11 \in w /\ 10 \notin w =>
                  ShortArithmeticLine(w, c) = Line("C.ANDI", <<c.rd>>, SignExtend(c.imm, 6))
             /\ 11 \in w /\ 10 \in w /\ 12 \notin w /\ 5 \notin w /\ 6 \notin w =>
                  ShortArithmeticLine(w, c) = registers("C.SUB")
             /\ 11 \in w /\ 10 \in w /\ 12 \notin w /\ 5 \in w /\ 6 \notin w =>
                  ShortArithmeticLine(w, c) = registers("C.XOR")
             /\ 11 \in w /\ 10 \in w /\ 12 \notin w /\ 5 \notin w /\ 6 \in w =>
                  ShortArithmeticLine(w, c) = registers("C.OR")
             /\ 11 \in w /\ 10 \in w /\ 12 \notin w /\ 5 \in w /\ 6 \in w =>
                  ShortArithmeticLine(w, c) = registers("C.AND")
             /\ 11 \in w /\ 10 \in w /\ 12 \in w /\ 5 \notin w /\ 6 \notin w =>
                  ShortArithmeticLine(w, c) = registers("C.SUBW")
             /\ 11 \in w /\ 10 \in w /\ 12 \in w /\ 5 \in w /\ 6 \notin w =>
                  ShortArithmeticLine(w, c) = registers("C.ADDW")
<1>1. Number(bitcrop(w, 3, 10)) = (IF 10 \in w THEN 1 ELSE 0) + (IF 11 \in w THEN 2 ELSE 0)
                                    + (IF 12 \in w THEN 4 ELSE 0)
  BY FieldValue
<1>2. Number(bitcrop(w, 2, 5)) = (IF 5 \in w THEN 1 ELSE 0) + (IF 6 \in w THEN 2 ELSE 0)
  BY FieldValue
<1>3. QED
  BY <1>1, <1>2, SMTT(20) DEF ShortArithmeticLine

LEMMA JumpMoveAddLines ==
  ASSUME NEW w \in SUBSET Int, NEW c
  PROVE  /\ 12 \in w /\ w \cap Rs2Bits = {} /\ w \cap RdBits = {} =>
              JumpMoveAddLine(w, c) = Line("C.EBREAK", <<>>, {})
         /\ 12 \in w /\ w \cap Rs2Bits = {} /\ w \cap RdBits # {} =>
              JumpMoveAddLine(w, c) = Line("C.JALR", <<c.rs1>>, {})
         /\ 12 \in w /\ w \cap Rs2Bits # {} /\ w \cap RdBits # {} =>
              JumpMoveAddLine(w, c) = Line("C.ADD", <<c.rd, c.rs2>>, {})
         /\ 12 \notin w /\ w \cap Rs2Bits = {} =>
              JumpMoveAddLine(w, c) = Line("C.JR", <<c.rs1>>, {})
         /\ 12 \notin w /\ w \cap Rs2Bits # {} =>
              JumpMoveAddLine(w, c) = Line("C.MV", <<c.rd, c.rs2>>, {})
<1>1. PICK s, r : s = Wide(w, 2) /\ r = Wide(w, 7)
  OBVIOUS
<1>2. (s = 0 <=> w \cap Rs2Bits = {}) /\ (r = 0 <=> w \cap RdBits = {})
  BY <1>1, FieldConditions
<1>3. JumpMoveAddLine(w, c) =
        IF 12 \in w
        THEN CASE s = 0 /\ r = 0 -> Line("C.EBREAK", <<>>, {})
               [] s = 0 /\ r # 0 -> Line("C.JALR", <<c.rs1>>, {})
               [] s # 0 /\ r # 0 -> Line("C.ADD", <<c.rd, c.rs2>>, {})
               [] OTHER -> Line(UNDEF, <<>>, {})
        ELSE IF s = 0 THEN Line("C.JR", <<c.rs1>>, {})
             ELSE Line("C.MV", <<c.rd, c.rs2>>, {})
  BY <1>1 DEF JumpMoveAddLine
<1>4. QED
  BY <1>1, <1>2, <1>3

\* An immediate that GetCode16 has extended is not changed by the log.
LEMMA ExtendedTwice ==
  ASSUME NEW v \in SUBSET Int, NEW width \in 1 .. 32
  PROVE  SignExtend(SignExtend(v, width), width) = SignExtend(v, width)
BY DEF SignExtend, sign_mask

LEMMA ExtendedImmediates ==
  ASSUME NEW w \in SUBSET Int
  PROVE  /\ SignExtend(JumpImm(w), 12) = JumpImm(w)
         /\ SignExtend(BranchImm(w), 9) = BranchImm(w)
         /\ SignExtend(SignExtend(Imm6(w), 6), 6) = SignExtend(Imm6(w), 6)
<1>1. \A pieces : Gather(w, pieces) \in SUBSET Int
  BY DEF Gather, BitShift, ShiftUp, Bit
<1>2. QED
  BY <1>1, ExtendedTwice DEF JumpImm, BranchImm, Imm6

\* A word with its two lowest bits set is no 16 bit instruction, and every
\* opcode of a 32 bit instruction has them set.
LEMMA OpcodeLow ==
  ASSUME NEW w \in SUBSET Int, Compressed(w)
  PROVE  GetOpcode(w) \notin {51, 59, 19, 27, 99, 3, 111, 35, 103, 55, 23, 115, 15, 47}
<1>1. bitcrop(w, 7, 0) \in SUBSET Int /\ ~ {0, 1} \subseteq bitcrop(w, 7, 0)
  BY Cropped DEF Compressed, bitcrop
<1>2. PICK n \in 0 .. 31, a \in {0, 1, 2} : GetOpcode(w) = a + 4 * n
  <2> DEFINE v == bitcrop(w, 7, 0)
             a == (IF 0 \in v THEN 1 ELSE 0) + (IF 1 \in v THEN 2 ELSE 0)
             n == (IF 2 \in v THEN 1 ELSE 0) + (IF 3 \in v THEN 2 ELSE 0)
                    + (IF 4 \in v THEN 4 ELSE 0) + (IF 5 \in v THEN 8 ELSE 0)
                    + (IF 6 \in v THEN 16 ELSE 0)
  <2>1. n \in 0 .. 31
    OBVIOUS
  <2>2. a \in {0, 1, 2}
    BY <1>1
  <2>3. GetOpcode(w) = a + 4 * n
    BY DEF GetOpcode, Number
  <2>4. QED
    BY <2>1, <2>2, <2>3
<1>3. QED
  BY <1>2

\* The line of a 16 bit instruction is that of the log.
LEMMA LogLine16 ==
  ASSUME NEW w \in SUBSET Int, NEW m, Compressed(w)
  PROVE  Disassemble(w, m) = Line16(w, m, GetCode16(w, m))
<1>1. {Line16(w, m, c) : c \in {GetCode16(w, m)}} = {Line16(w, m, GetCode16(w, m))}
  OBVIOUS
<1>2. Disassemble16(w, m) = Line16(w, m, GetCode16(w, m))
  BY <1>1 DEF Disassemble16
<1>3. QED
  BY <1>2, OpcodeLow DEF Disassemble, OPCODE

\* The log shows code as line: read back as assembly, the line is a format
\* for the instruction of code with the operands of code.
ShownAs(code, line) ==
  \E f \in CForms :
    /\ f.name = line.name
    /\ f.code[1] = code.instruction
    /\ line.regs = Operands(code, f.shows)
    /\ code.instruction # "SYSTEM" => line.imm = code.imm

\* The log shows every 16 bit instruction that is executed, but for C.SW.
LEMMA HalfLogged ==
  ASSUME NEW w \in SUBSET Int, NEW m \in {1, 2}, Compressed(w), Opcode16(w) # \b11000,
         NEW c, c = GetCode16(w, m), c.instruction # "ERROR",
         NEW line, line = Disassemble(w, m)
  PROVE  ShownAs(c, line)
<1> DEFINE r == Wide(w, 7)
           s == Wide(w, 2)
           p == Short(w, 7)
           q == Short(w, 2)
           imm6 == SignExtend(Imm6(w), 6)
<1>1. line = Line16(w, m, c)
  BY LogLine16
<1>2. CASE Opcode16(w) = \b00000
  <2>1. bitcrop(w, 8, 5) # {}
    BY <1>2, Code16 DEF Undecoded, Code
  <2>2. c = Code("ADDI", q, 2, 0, Addi4spnImm(w))
    BY <1>2, <2>1, Code16
  <2>3. line = Line("C.ADDI4SPN", <<q>>, Addi4spnImm(w))
    BY <1>1, <1>2, <2>2 DEF Code, Line16
  <2>4. Has("C.ADDI4SPN", "ADDI", <<"rd">>)
    BY FormNames, Zenon
  <2>5. QED
    BY <2>2, <2>3, <2>4, OperandFields DEF Line, Has, ShownAs
<1>3. CASE Opcode16(w) = \b00001
  <2>1. c = Code("ADDI", r, r, 0, imm6)
    BY <1>3, Code16
  <2>2. line = Line("C.ADDI", <<c.rd>>, c.imm)
    BY <1>1, <1>3 DEF Line16
  <2>3. line = Line("C.ADDI", <<r>>, imm6)
    BY <2>1, <2>2 DEF Code
  <2>4. Has("C.ADDI", "ADDI", <<"rd">>)
    BY FormNames, Zenon
  <2>5. c.instruction = "ADDI" /\ c.imm = imm6 /\ Operands(c, <<"rd">>) = <<r>>
    BY <2>1, OperandFields
  <2>6. QED
    BY <2>3, <2>4, <2>5 DEF Line, Has, ShownAs
<1>4. CASE Opcode16(w) = \b00010
  <2>1. c = Code("SLLI", r, r, 0, Imm6(w))
    BY <1>4, Code16
  <2>2. line = Line("C.SLLI", <<c.rd>>, c.imm)
    BY <1>1, <1>4 DEF Line16
  <2>3. line = Line("C.SLLI", <<r>>, Imm6(w))
    BY <2>1, <2>2 DEF Code
  <2>4. Has("C.SLLI", "SLLI", <<"rd">>)
    BY FormNames, Zenon
  <2>5. c.instruction = "SLLI" /\ c.imm = Imm6(w) /\ Operands(c, <<"rd">>) = <<r>>
    BY <2>1, OperandFields
  <2>6. QED
    BY <2>3, <2>4, <2>5 DEF Line, Has, ShownAs
<1>5. CASE Opcode16(w) = \b00101 /\ m = 1
  <2>1. c = Code("JAL", 1, 0, 0, JumpImm(w))
    BY <1>5, Code16
  <2>2. line = Line("C.JAL", <<>>, SignExtend(c.imm, 12))
    BY <1>1, <1>5 DEF Line16
  <2>3. line = Line("C.JAL", <<>>, JumpImm(w))
    BY <2>1, <2>2, ExtendedImmediates DEF Code
  <2>4. Has("C.JAL", "JAL", <<>>)
    BY FormNames, Zenon
  <2>5. c.instruction = "JAL" /\ c.imm = JumpImm(w) /\ Operands(c, <<>>) = <<>>
    BY <2>1, OperandFields
  <2>6. QED
    BY <2>3, <2>4, <2>5 DEF Line, Has, ShownAs
<1>6. CASE Opcode16(w) = \b00101 /\ m # 1
  <2>1. c = Code("ADDIW", r, r, 0, imm6)
    BY <1>6, Code16
  <2>2. line = Line("C.ADDIW", <<c.rd>>, c.imm)
    BY <1>1, <1>6 DEF Line16
  <2>3. line = Line("C.ADDIW", <<r>>, imm6)
    BY <2>1, <2>2 DEF Code
  <2>4. Has("C.ADDIW", "ADDIW", <<"rd">>)
    BY FormNames, Zenon
  <2>5. c.instruction = "ADDIW" /\ c.imm = imm6 /\ Operands(c, <<"rd">>) = <<r>>
    BY <2>1, OperandFields
  <2>6. QED
    BY <2>3, <2>4, <2>5 DEF Line, Has, ShownAs
<1>7. CASE Opcode16(w) = \b01000
  <2>1. c = Code("LW", q, p, 0, WordImm(w))
    BY <1>7, Code16
  <2>2. line = Line("C.LW", <<c.rd, c.rs1>>, c.imm)
    BY <1>1, <1>7 DEF Line16
  <2>3. line = Line("C.LW", <<q, p>>, WordImm(w))
    BY <2>1, <2>2 DEF Code
  <2>4. Has("C.LW", "LW", <<"rd", "rs1">>)
    BY FormNames, Zenon
  <2>5. c.instruction = "LW" /\ c.imm = WordImm(w) /\ Operands(c, <<"rd", "rs1">>) = <<q, p>>
    BY <2>1, OperandFields
  <2>6. QED
    BY <2>3, <2>4, <2>5 DEF Line, Has, ShownAs
<1>8. CASE Opcode16(w) = \b01001
  <2>1. c = Code("ADDI", r, 0, 0, imm6)
    BY <1>8, Code16
  <2>2. line = Line("C.LI", <<c.rd>>, c.imm)
    BY <1>1, <1>8 DEF Line16
  <2>3. line = Line("C.LI", <<r>>, imm6)
    BY <2>1, <2>2 DEF Code
  <2>4. Has("C.LI", "ADDI", <<"rd">>)
    BY FormNames, Zenon
  <2>5. c.instruction = "ADDI" /\ c.imm = imm6 /\ Operands(c, <<"rd">>) = <<r>>
    BY <2>1, OperandFields
  <2>6. QED
    BY <2>3, <2>4, <2>5 DEF Line, Has, ShownAs
<1>9. CASE Opcode16(w) = \b01010
  <2>1. c = Code("LW", r, 2, 0, LoadWordSpImm(w))
    BY <1>9, Code16
  <2>2. line = Line("C.LWSP", <<c.rd>>, c.imm)
    BY <1>1, <1>9 DEF Line16
  <2>3. line = Line("C.LWSP", <<r>>, LoadWordSpImm(w))
    BY <2>1, <2>2 DEF Code
  <2>4. Has("C.LWSP", "LW", <<"rd">>)
    BY FormNames, Zenon
  <2>5. c.instruction = "LW" /\ c.imm = LoadWordSpImm(w) /\ Operands(c, <<"rd">>) = <<r>>
    BY <2>1, OperandFields
  <2>6. QED
    BY <2>3, <2>4, <2>5 DEF Line, Has, ShownAs
<1>10. CASE Opcode16(w) = \b01100
  <2>1. c = Code("LD", q, p, 0, DoubleImm(w))
    BY <1>10, Code16
  <2>2. line = Line("C.LD", <<c.rd, c.rs1>>, c.imm)
    BY <1>1, <1>10 DEF Line16
  <2>3. line = Line("C.LD", <<q, p>>, DoubleImm(w))
    BY <2>1, <2>2 DEF Code
  <2>4. Has("C.LD", "LD", <<"rd", "rs1">>)
    BY FormNames, Zenon
  <2>5. c.instruction = "LD" /\ c.imm = DoubleImm(w) /\ Operands(c, <<"rd", "rs1">>) = <<q, p>>
    BY <2>1, OperandFields
  <2>6. QED
    BY <2>3, <2>4, <2>5 DEF Line, Has, ShownAs
<1>11. CASE Opcode16(w) = \b01110
  <2>1. c = Code("LD", r, 2, 0, LoadDoubleSpImm(w))
    BY <1>11, Code16
  <2>2. line = Line("C.LDSP", <<c.rd>>, c.imm)
    BY <1>1, <1>11 DEF Line16
  <2>3. line = Line("C.LDSP", <<r>>, LoadDoubleSpImm(w))
    BY <2>1, <2>2 DEF Code
  <2>4. Has("C.LDSP", "LD", <<"rd">>)
    BY FormNames, Zenon
  <2>5. c.instruction = "LD" /\ c.imm = LoadDoubleSpImm(w) /\ Operands(c, <<"rd">>) = <<r>>
    BY <2>1, OperandFields
  <2>6. QED
    BY <2>3, <2>4, <2>5 DEF Line, Has, ShownAs
<1>12. CASE Opcode16(w) = \b01101
  <2>2. CASE r = 2
    <3>1. c = Code("ADDI", 2, 2, 0, Addi16spImm(w))
      BY <1>12, <2>2, Code16 DEF UpperImmediate, Undecoded, Code
    <3>2. line = Line("C.ADDI16SP", <<>>, c.imm)
      BY <1>1, <1>12, <2>2 DEF Line16
    <3>3. line = Line("C.ADDI16SP", <<>>, Addi16spImm(w))
      BY <3>1, <3>2 DEF Code
    <3>4. Has("C.ADDI16SP", "ADDI", <<>>)
      BY FormNames, Zenon
    <3>5. c.instruction = "ADDI" /\ c.imm = Addi16spImm(w) /\ Operands(c, <<>>) = <<>>
      BY <3>1, OperandFields
    <3>6. QED
      BY <3>3, <3>4, <3>5 DEF Line, Has, ShownAs
  <2>3. CASE r # 2
    <3>1. c = Code("LUI", r, 0, 0, LuiImm(w))
      BY <1>12, <2>3, Code16 DEF UpperImmediate, Undecoded, Code
    <3>2. line = Line("C.LUI", <<c.rd>>, c.imm)
      BY <1>1, <1>12, <2>3 DEF Line16
    <3>3. line = Line("C.LUI", <<r>>, LuiImm(w))
      BY <3>1, <3>2 DEF Code
    <3>4. Has("C.LUI", "LUI", <<"rd">>)
      BY FormNames, Zenon
    <3>5. c.instruction = "LUI" /\ c.imm = LuiImm(w) /\ Operands(c, <<"rd">>) = <<r>>
      BY <3>1, OperandFields
    <3>6. QED
      BY <3>3, <3>4, <3>5 DEF Line, Has, ShownAs
  <2>4. QED
    BY <2>2, <2>3
<1>13. CASE Opcode16(w) = \b10101
  <2>1. c = Code("JAL", 0, 0, 0, JumpImm(w))
    BY <1>13, Code16
  <2>2. line = Line("C.J", <<>>, SignExtend(c.imm, 12))
    BY <1>1, <1>13 DEF Line16
  <2>3. line = Line("C.J", <<>>, JumpImm(w))
    BY <2>1, <2>2, ExtendedImmediates DEF Code
  <2>4. Has("C.J", "JAL", <<>>)
    BY FormNames, Zenon
  <2>5. c.instruction = "JAL" /\ c.imm = JumpImm(w) /\ Operands(c, <<>>) = <<>>
    BY <2>1, OperandFields
  <2>6. QED
    BY <2>3, <2>4, <2>5 DEF Line, Has, ShownAs
<1>14. CASE Opcode16(w) = \b11001
  <2>1. c = Code("BEQ", 0, p, 0, BranchImm(w))
    BY <1>14, Code16
  <2>2. line = Line("C.BEQZ", <<c.rs1>>, SignExtend(c.imm, 9))
    BY <1>1, <1>14 DEF Line16
  <2>3. line = Line("C.BEQZ", <<p>>, BranchImm(w))
    BY <2>1, <2>2, ExtendedImmediates DEF Code
  <2>4. Has("C.BEQZ", "BEQ", <<"rs1">>)
    BY FormNames, Zenon
  <2>5. c.instruction = "BEQ" /\ c.imm = BranchImm(w) /\ Operands(c, <<"rs1">>) = <<p>>
    BY <2>1, OperandFields
  <2>6. QED
    BY <2>3, <2>4, <2>5 DEF Line, Has, ShownAs
<1>15. CASE Opcode16(w) = \b11101
  <2>1. c = Code("BNE", 0, p, 0, BranchImm(w))
    BY <1>15, Code16
  <2>2. line = Line("C.BNEZ", <<c.rs1>>, SignExtend(c.imm, 9))
    BY <1>1, <1>15 DEF Line16
  <2>3. line = Line("C.BNEZ", <<p>>, BranchImm(w))
    BY <2>1, <2>2, ExtendedImmediates DEF Code
  <2>4. Has("C.BNEZ", "BNE", <<"rs1">>)
    BY FormNames, Zenon
  <2>5. c.instruction = "BNE" /\ c.imm = BranchImm(w) /\ Operands(c, <<"rs1">>) = <<p>>
    BY <2>1, OperandFields
  <2>6. QED
    BY <2>3, <2>4, <2>5 DEF Line, Has, ShownAs
<1>16. CASE Opcode16(w) = \b11010
  <2>1. c = Code("SW", 0, 2, s, StoreWordSpImm(w))
    BY <1>16, Code16
  <2>2. line = Line("C.SWSP", <<c.rs2>>, c.imm)
    BY <1>1, <1>16 DEF Line16
  <2>3. line = Line("C.SWSP", <<s>>, StoreWordSpImm(w))
    BY <2>1, <2>2 DEF Code
  <2>4. Has("C.SWSP", "SW", <<"rs2">>)
    BY FormNames, Zenon
  <2>5. c.instruction = "SW" /\ c.imm = StoreWordSpImm(w) /\ Operands(c, <<"rs2">>) = <<s>>
    BY <2>1, OperandFields
  <2>6. QED
    BY <2>3, <2>4, <2>5 DEF Line, Has, ShownAs
<1>17. CASE Opcode16(w) = \b11100
  <2>1. c = Code("SD", 0, p, q, DoubleImm(w))
    BY <1>17, Code16
  <2>2. line = Line("C.SD", <<c.rs2, c.rs1>>, c.imm)
    BY <1>1, <1>17 DEF Line16
  <2>3. line = Line("C.SD", <<q, p>>, DoubleImm(w))
    BY <2>1, <2>2 DEF Code
  <2>4. Has("C.SD", "SD", <<"rs2", "rs1">>)
    BY FormNames, Zenon
  <2>5. c.instruction = "SD" /\ c.imm = DoubleImm(w) /\ Operands(c, <<"rs2", "rs1">>) = <<q, p>>
    BY <2>1, OperandFields
  <2>6. QED
    BY <2>3, <2>4, <2>5 DEF Line, Has, ShownAs
<1>18. CASE Opcode16(w) = \b11110
  <2>1. c = Code("SD", 0, 2, s, StoreDoubleSpImm(w))
    BY <1>18, Code16
  <2>2. line = Line("C.SDSP", <<c.rs2>>, c.imm)
    BY <1>1, <1>18 DEF Line16
  <2>3. line = Line("C.SDSP", <<s>>, StoreDoubleSpImm(w))
    BY <2>1, <2>2 DEF Code
  <2>4. Has("C.SDSP", "SD", <<"rs2">>)
    BY FormNames, Zenon
  <2>5. c.instruction = "SD" /\ c.imm = StoreDoubleSpImm(w) /\ Operands(c, <<"rs2">>) = <<s>>
    BY <2>1, OperandFields
  <2>6. QED
    BY <2>3, <2>4, <2>5 DEF Line, Has, ShownAs
<1>19. CASE Opcode16(w) = \b10010
  <2>2. CASE 12 \in w /\ w \cap Rs2Bits = {} /\ w \cap RdBits = {}
    <3>1. c = Code("SYSTEM", 0, 0, 0, {0})
      BY <1>19, <2>2, Code16, JumpMoveAddCode
    <3>2. line = JumpMoveAddLine(w, c)
      BY <1>1, <1>19 DEF Line16
    <3>3. line = Line("C.EBREAK", <<>>, {})
      BY <2>2, <3>2, JumpMoveAddLines
    <3>4. Has("C.EBREAK", "SYSTEM", <<>>)
      BY FormNames, Zenon
    <3>5. c.instruction = "SYSTEM" /\ c.imm = {0} /\ Operands(c, <<>>) = <<>>
      BY <3>1, OperandFields
    <3>6. QED
      BY <3>3, <3>4, <3>5 DEF Line, Has, ShownAs
  <2>3. CASE 12 \in w /\ w \cap Rs2Bits = {} /\ w \cap RdBits # {}
    <3>1. c = Code("JALR", 1, r, 0, {})
      BY <1>19, <2>3, Code16, JumpMoveAddCode
    <3>2. line = JumpMoveAddLine(w, c)
      BY <1>1, <1>19 DEF Line16
    <3>3. line = Line("C.JALR", <<c.rs1>>, {})
      BY <2>3, <3>2, JumpMoveAddLines
    <3>4. line = Line("C.JALR", <<r>>, {})
      BY <3>1, <3>3 DEF Code
    <3>5. Has("C.JALR", "JALR", <<"rs1">>)
      BY FormNames, Zenon
    <3>6. c.instruction = "JALR" /\ c.imm = {} /\ Operands(c, <<"rs1">>) = <<r>>
      BY <3>1, OperandFields
    <3>7. QED
      BY <3>4, <3>5, <3>6 DEF Line, Has, ShownAs
  <2>4. CASE 12 \in w /\ w \cap Rs2Bits # {} /\ w \cap RdBits # {}
    <3>1. c = Code("ADD", r, r, s, {})
      BY <1>19, <2>4, Code16, JumpMoveAddCode
    <3>2. line = JumpMoveAddLine(w, c)
      BY <1>1, <1>19 DEF Line16
    <3>3. line = Line("C.ADD", <<c.rd, c.rs2>>, {})
      BY <2>4, <3>2, JumpMoveAddLines
    <3>4. line = Line("C.ADD", <<r, s>>, {})
      BY <3>1, <3>3 DEF Code
    <3>5. Has("C.ADD", "ADD", <<"rd", "rs2">>)
      BY FormNames, Zenon
    <3>6. c.instruction = "ADD" /\ c.imm = {} /\ Operands(c, <<"rd", "rs2">>) = <<r, s>>
      BY <3>1, OperandFields
    <3>7. QED
      BY <3>4, <3>5, <3>6 DEF Line, Has, ShownAs
  <2>5. CASE 12 \notin w /\ w \cap Rs2Bits = {}
    <3>1. c = Code("JALR", 0, r, 0, {})
      BY <1>19, <2>5, Code16, JumpMoveAddCode
    <3>2. line = JumpMoveAddLine(w, c)
      BY <1>1, <1>19 DEF Line16
    <3>3. line = Line("C.JR", <<c.rs1>>, {})
      BY <2>5, <3>2, JumpMoveAddLines
    <3>4. line = Line("C.JR", <<r>>, {})
      BY <3>1, <3>3 DEF Code
    <3>5. Has("C.JR", "JALR", <<"rs1">>)
      BY FormNames, Zenon
    <3>6. c.instruction = "JALR" /\ c.imm = {} /\ Operands(c, <<"rs1">>) = <<r>>
      BY <3>1, OperandFields
    <3>7. QED
      BY <3>4, <3>5, <3>6 DEF Line, Has, ShownAs
  <2>6. CASE 12 \notin w /\ w \cap Rs2Bits # {}
    <3>1. c = Code("ADD", r, 0, s, {})
      BY <1>19, <2>6, Code16, JumpMoveAddCode
    <3>2. line = JumpMoveAddLine(w, c)
      BY <1>1, <1>19 DEF Line16
    <3>3. line = Line("C.MV", <<c.rd, c.rs2>>, {})
      BY <2>6, <3>2, JumpMoveAddLines
    <3>4. line = Line("C.MV", <<r, s>>, {})
      BY <3>1, <3>3 DEF Code
    <3>5. Has("C.MV", "ADD", <<"rd", "rs2">>)
      BY FormNames, Zenon
    <3>6. c.instruction = "ADD" /\ c.imm = {} /\ Operands(c, <<"rd", "rs2">>) = <<r, s>>
      BY <3>1, OperandFields
    <3>7. QED
      BY <3>4, <3>5, <3>6 DEF Line, Has, ShownAs
  <2>7. QED
    BY <2>2, <2>3, <2>4, <2>5, <2>6, <1>19, Code16, JumpMoveAddCode DEF Undecoded, Code
<1>20. CASE Opcode16(w) = \b10001
  <2>2. CASE 11 \notin w /\ 10 \notin w
    <3>1. c = Code("SRLI", p, p, 0, Imm6(w))
      BY <1>20, <2>2, Code16, ShortArithmeticCode
    <3>2. line = ShortArithmeticLine(w, c)
      BY <1>1, <1>20 DEF Line16
    <3>3. line = Line("C.SRLI", <<c.rd>>, c.imm)
      BY <2>2, <3>2, ShortArithmeticLines
    <3>4. line = Line("C.SRLI", <<p>>, Imm6(w))
      BY <3>1, <3>3 DEF Code
    <3>5. Has("C.SRLI", "SRLI", <<"rd">>)
      BY FormNames, Zenon
    <3>6. c.instruction = "SRLI" /\ c.imm = Imm6(w) /\ Operands(c, <<"rd">>) = <<p>>
      BY <3>1, OperandFields
    <3>7. QED
      BY <3>4, <3>5, <3>6 DEF Line, Has, ShownAs
  <2>3. CASE 11 \notin w /\ 10 \in w
    <3>1. c = Code("SRAI", p, p, 0, Imm6(w))
      BY <1>20, <2>3, Code16, ShortArithmeticCode
    <3>2. line = ShortArithmeticLine(w, c)
      BY <1>1, <1>20 DEF Line16
    <3>3. line = Line("C.SRAI", <<c.rd>>, c.imm)
      BY <2>3, <3>2, ShortArithmeticLines
    <3>4. line = Line("C.SRAI", <<p>>, Imm6(w))
      BY <3>1, <3>3 DEF Code
    <3>5. Has("C.SRAI", "SRAI", <<"rd">>)
      BY FormNames, Zenon
    <3>6. c.instruction = "SRAI" /\ c.imm = Imm6(w) /\ Operands(c, <<"rd">>) = <<p>>
      BY <3>1, OperandFields
    <3>7. QED
      BY <3>4, <3>5, <3>6 DEF Line, Has, ShownAs
  <2>4. CASE 11 \in w /\ 10 \notin w
    <3>1. c = Code("ANDI", p, p, 0, imm6)
      BY <1>20, <2>4, Code16, ShortArithmeticCode
    <3>2. line = ShortArithmeticLine(w, c)
      BY <1>1, <1>20 DEF Line16
    <3>3. line = Line("C.ANDI", <<c.rd>>, SignExtend(c.imm, 6))
      BY <2>4, <3>2, ShortArithmeticLines
    <3>4. line = Line("C.ANDI", <<p>>, imm6)
      BY <3>1, <3>3, ExtendedImmediates DEF Code
    <3>5. Has("C.ANDI", "ANDI", <<"rd">>)
      BY FormNames, Zenon
    <3>6. c.instruction = "ANDI" /\ c.imm = imm6 /\ Operands(c, <<"rd">>) = <<p>>
      BY <3>1, OperandFields
    <3>7. QED
      BY <3>4, <3>5, <3>6 DEF Line, Has, ShownAs
  <2>5. CASE 11 \in w /\ 10 \in w /\ 12 \notin w /\ 5 \notin w /\ 6 \notin w
    <3>1. c = Code("SUB", p, p, q, {})
      BY <1>20, <2>5, Code16, ShortArithmeticCode
    <3>2. line = ShortArithmeticLine(w, c)
      BY <1>1, <1>20 DEF Line16
    <3>3. line = Line("C.SUB", <<c.rd, c.rs2>>, {})
      BY <2>5, <3>2, ShortArithmeticLines
    <3>4. line = Line("C.SUB", <<p, q>>, {})
      BY <3>1, <3>3 DEF Code
    <3>5. Has("C.SUB", "SUB", <<"rd", "rs2">>)
      BY FormNames, Zenon
    <3>6. c.instruction = "SUB" /\ c.imm = {} /\ Operands(c, <<"rd", "rs2">>) = <<p, q>>
      BY <3>1, OperandFields
    <3>7. QED
      BY <3>4, <3>5, <3>6 DEF Line, Has, ShownAs
  <2>6. CASE 11 \in w /\ 10 \in w /\ 12 \notin w /\ 5 \in w /\ 6 \notin w
    <3>1. c = Code("XOR", p, p, q, {})
      BY <1>20, <2>6, Code16, ShortArithmeticCode
    <3>2. line = ShortArithmeticLine(w, c)
      BY <1>1, <1>20 DEF Line16
    <3>3. line = Line("C.XOR", <<c.rd, c.rs2>>, {})
      BY <2>6, <3>2, ShortArithmeticLines
    <3>4. line = Line("C.XOR", <<p, q>>, {})
      BY <3>1, <3>3 DEF Code
    <3>5. Has("C.XOR", "XOR", <<"rd", "rs2">>)
      BY FormNames, Zenon
    <3>6. c.instruction = "XOR" /\ c.imm = {} /\ Operands(c, <<"rd", "rs2">>) = <<p, q>>
      BY <3>1, OperandFields
    <3>7. QED
      BY <3>4, <3>5, <3>6 DEF Line, Has, ShownAs
  <2>7. CASE 11 \in w /\ 10 \in w /\ 12 \notin w /\ 5 \notin w /\ 6 \in w
    <3>1. c = Code("OR", p, p, q, {})
      BY <1>20, <2>7, Code16, ShortArithmeticCode
    <3>2. line = ShortArithmeticLine(w, c)
      BY <1>1, <1>20 DEF Line16
    <3>3. line = Line("C.OR", <<c.rd, c.rs2>>, {})
      BY <2>7, <3>2, ShortArithmeticLines
    <3>4. line = Line("C.OR", <<p, q>>, {})
      BY <3>1, <3>3 DEF Code
    <3>5. Has("C.OR", "OR", <<"rd", "rs2">>)
      BY FormNames, Zenon
    <3>6. c.instruction = "OR" /\ c.imm = {} /\ Operands(c, <<"rd", "rs2">>) = <<p, q>>
      BY <3>1, OperandFields
    <3>7. QED
      BY <3>4, <3>5, <3>6 DEF Line, Has, ShownAs
  <2>8. CASE 11 \in w /\ 10 \in w /\ 12 \notin w /\ 5 \in w /\ 6 \in w
    <3>1. c = Code("AND", p, p, q, {})
      BY <1>20, <2>8, Code16, ShortArithmeticCode
    <3>2. line = ShortArithmeticLine(w, c)
      BY <1>1, <1>20 DEF Line16
    <3>3. line = Line("C.AND", <<c.rd, c.rs2>>, {})
      BY <2>8, <3>2, ShortArithmeticLines
    <3>4. line = Line("C.AND", <<p, q>>, {})
      BY <3>1, <3>3 DEF Code
    <3>5. Has("C.AND", "AND", <<"rd", "rs2">>)
      BY FormNames, Zenon
    <3>6. c.instruction = "AND" /\ c.imm = {} /\ Operands(c, <<"rd", "rs2">>) = <<p, q>>
      BY <3>1, OperandFields
    <3>7. QED
      BY <3>4, <3>5, <3>6 DEF Line, Has, ShownAs
  <2>9. CASE 11 \in w /\ 10 \in w /\ 12 \in w /\ 5 \notin w /\ 6 \notin w
    <3>1. c = Code("SUBW", p, p, q, {})
      BY <1>20, <2>9, Code16, ShortArithmeticCode
    <3>2. line = ShortArithmeticLine(w, c)
      BY <1>1, <1>20 DEF Line16
    <3>3. line = Line("C.SUBW", <<c.rd, c.rs2>>, {})
      BY <2>9, <3>2, ShortArithmeticLines
    <3>4. line = Line("C.SUBW", <<p, q>>, {})
      BY <3>1, <3>3 DEF Code
    <3>5. Has("C.SUBW", "SUBW", <<"rd", "rs2">>)
      BY FormNames, Zenon
    <3>6. c.instruction = "SUBW" /\ c.imm = {} /\ Operands(c, <<"rd", "rs2">>) = <<p, q>>
      BY <3>1, OperandFields
    <3>7. QED
      BY <3>4, <3>5, <3>6 DEF Line, Has, ShownAs
  <2>10. CASE 11 \in w /\ 10 \in w /\ 12 \in w /\ 5 \in w /\ 6 \notin w
    <3>1. c = Code("ADDW", p, p, q, {})
      BY <1>20, <2>10, Code16, ShortArithmeticCode
    <3>2. line = ShortArithmeticLine(w, c)
      BY <1>1, <1>20 DEF Line16
    <3>3. line = Line("C.ADDW", <<c.rd, c.rs2>>, {})
      BY <2>10, <3>2, ShortArithmeticLines
    <3>4. line = Line("C.ADDW", <<p, q>>, {})
      BY <3>1, <3>3 DEF Code
    <3>5. Has("C.ADDW", "ADDW", <<"rd", "rs2">>)
      BY FormNames, Zenon
    <3>6. c.instruction = "ADDW" /\ c.imm = {} /\ Operands(c, <<"rd", "rs2">>) = <<p, q>>
      BY <3>1, OperandFields
    <3>7. QED
      BY <3>4, <3>5, <3>6 DEF Line, Has, ShownAs
  <2>11. QED
    BY <2>2, <2>3, <2>4, <2>5, <2>6, <2>7, <2>8, <2>9, <2>10, <1>20, Code16,
       ShortArithmeticCode DEF Undecoded, Code
<1>21. ASSUME Opcode16(w) \notin {\b00000, \b00001, \b00010, \b00101, \b01000, \b01001, \b01010,
                             \b01100, \b01101, \b01110, \b10001, \b10010, \b10101, \b11001,
                             \b11010, \b11100, \b11101, \b11110}
       PROVE  FALSE
  <2>1. c = Undecoded
    BY <1>21 DEF GetCode16, GetCode16High
  <2>2. QED
    BY <2>1 DEF Undecoded, Code
<1>22. QED
  BY <1>2, <1>3, <1>4, <1>5, <1>6, <1>7, <1>8, <1>9, <1>10, <1>11, <1>12, <1>13, <1>14,
     <1>15, <1>16, <1>17, <1>18, <1>19, <1>20, <1>21

-----------------------------------------------------------------------------
(* The line of a 32 bit instruction.                                       *)

LEMMA Fields32 ==
  ASSUME NEW w
  PROVE  Funct3(w) \in 0 .. 7 /\ Funct7(w) \in 0 .. 127
<1>1. \A i \in 3 .. 6 : i \notin bitcrop(w, 3, 12)
  BY DEF bitcrop, mask
<1>2. Funct3(w) \in 0 .. 7
  BY <1>1 DEF Funct3, Number
<1>3. Funct7(w) \in 0 .. 127
  BY DEF Funct7, Number
<1>4. QED
  BY <1>2, <1>3

\* The tables of the log and those of GetCode32 have the same names, wherever
\* GetCode32 has one.
LEMMA ArithLogNames ==
  ASSUME NEW f3 \in 0 .. 7, NEW f7, ArithLog(f3, f7) # "ERROR"
  PROVE  Row(ArithLogRow(f7), f3) = ArithLog(f3, f7) /\ ArithLog(f3, f7) # "SYSTEM"
<1>1. f7 \in {0, 32, 1}
  BY DEF ArithLog, FUNC
<1>2. CASE f7 = 0
  BY <1>2 DEF ArithLog, ArithLogRow, Row, FUNC
<1>3. CASE f7 = 32
  BY <1>3 DEF ArithLog, ArithLogRow, Row, FUNC
<1>4. CASE f7 = 1
  BY <1>4 DEF ArithLog, ArithLogRow, Row, FUNC
<1>5. QED
  BY <1>1, <1>2, <1>3, <1>4

LEMMA ArithLog64Names ==
  ASSUME NEW f3 \in 0 .. 7, NEW f7, ArithLog64(f3, f7) # "ERROR"
  PROVE  Row(ArithLog64Row(f7), f3) = ArithLog64(f3, f7) /\ ArithLog64(f3, f7) # "SYSTEM"
<1>1. f7 \in {0, 32, 1}
  BY DEF ArithLog64, FUNC
<1>2. CASE f7 = 0
  BY <1>2 DEF ArithLog64, ArithLog64Row, Row, FUNC
<1>3. CASE f7 = 32
  BY <1>3 DEF ArithLog64, ArithLog64Row, Row, FUNC
<1>4. CASE f7 = 1
  BY <1>4 DEF ArithLog64, ArithLog64Row, Row, FUNC
<1>5. QED
  BY <1>1, <1>2, <1>3, <1>4

LEMMA ShiftNames ==
  ASSUME NEW f7 \in 0 .. 127, NEW logical, NEW arithmetic,
         ShiftRightName(f7, logical, arithmetic) # "ERROR"
  PROVE  /\ ShiftMnemonic(f7, logical, arithmetic) = ShiftRightName(f7, logical, arithmetic)
         /\ ShiftRightName(f7, logical, arithmetic) \in {logical, arithmetic}
<1>1. f7 \in {0, 1, 32, 33}
  BY DEF ShiftRightName
<1>2. f7 \in {0, 1} => f7 \div 2 = 0
  OBVIOUS
<1>3. f7 \in {32, 33} => f7 \div 2 = 16
  OBVIOUS
<1>4. QED
  BY <1>1, <1>2, <1>3 DEF ShiftRightName, ShiftMnemonic

LEMMA ArithLogINames ==
  ASSUME NEW f3 \in 0 .. 7, NEW f7 \in 0 .. 127, ArithLogI(f3, f7) # "ERROR"
  PROVE  Row(ArithLogIRow(f7), f3) = ArithLogI(f3, f7) /\ ArithLogI(f3, f7) # "SYSTEM"
<1>1. CASE f3 = 5
  BY <1>1, ShiftNames DEF ArithLogI, ArithLogIRow, Row
<1>2. CASE f3 # 5
  BY <1>2 DEF ArithLogI, ArithLogIRow, Row
<1>3. QED
  BY <1>1, <1>2

LEMMA ArithLogI64Names ==
  ASSUME NEW f3 \in 0 .. 7, NEW f7 \in 0 .. 127, ArithLogI64(f3, f7) # "ERROR"
  PROVE  Row(ArithLogI64Row(f7), f3) = ArithLogI64(f3, f7) /\ ArithLogI64(f3, f7) # "SYSTEM"
<1>1. CASE f3 = 5
  BY <1>1, ShiftNames DEF ArithLogI64, ArithLogI64Row, Row
<1>2. CASE f3 # 5
  BY <1>2 DEF ArithLogI64, ArithLogI64Row, Row
<1>3. QED
  BY <1>1, <1>2

LEMMA RowNames ==
  ASSUME NEW f3 \in 0 .. 7
  PROVE  /\ BranchName(f3) # "ERROR" =>
              Row(BranchRow, f3) = BranchName(f3) /\ BranchName(f3) # "SYSTEM"
         /\ LoadName(f3) # "ERROR" =>
              Row(LoadRow, f3) = LoadName(f3) /\ LoadName(f3) # "SYSTEM"
         /\ StoreName(f3) # "ERROR" =>
              Row(StoreRow, f3) = StoreName(f3) /\ StoreName(f3) # "SYSTEM"
         /\ SystemName(f3) = "SYSTEM" <=> f3 = 0
         /\ SystemName(f3) # "ERROR" /\ f3 # 0 => Row(CsrRow, f3) = SystemName(f3)
         /\ FenceName(f3) # "ERROR" =>
              Row(FenceRow, f3) = FenceName(f3) /\ FenceName(f3) # "SYSTEM"
<1>1. f3 \in {0, 1, 2, 3, 4, 5, 6, 7}
  OBVIOUS
<1>2. BranchName(f3) # "ERROR" =>
        Row(BranchRow, f3) = BranchName(f3) /\ BranchName(f3) # "SYSTEM"
  BY <1>1 DEF BranchRow, BranchName, Row
<1>3. LoadName(f3) # "ERROR" => Row(LoadRow, f3) = LoadName(f3) /\ LoadName(f3) # "SYSTEM"
  BY <1>1 DEF LoadRow, LoadName, Row
<1>4. StoreName(f3) # "ERROR" =>
        Row(StoreRow, f3) = StoreName(f3) /\ StoreName(f3) # "SYSTEM"
  BY <1>1 DEF StoreRow, StoreName, Row
<1>5. /\ SystemName(f3) = "SYSTEM" <=> f3 = 0
      /\ SystemName(f3) # "ERROR" /\ f3 # 0 => Row(CsrRow, f3) = SystemName(f3)
  BY <1>1 DEF CsrRow, SystemName, Row
<1>6. FenceName(f3) # "ERROR" =>
        Row(FenceRow, f3) = FenceName(f3) /\ FenceName(f3) # "SYSTEM"
  BY <1>1 DEF FenceRow, FenceName, Row
<1>7. QED
  BY <1>2, <1>3, <1>4, <1>5, <1>6

LEMMA AmoNames ==
  ASSUME NEW f3, NEW f5, AmoName(f3, f5) \notin {"ERROR", "AMOMINUW"}
  PROVE  AmoMnemonic(f3, f5) = AmoName(f3, f5) /\ AmoName(f3, f5) # "SYSTEM"
BY DEF AmoMnemonic, AmoName

\* The log shows code, the 32 bit instruction of w, as line.
FullShown(w, code, line) ==
  IF code.instruction = "SYSTEM"
  THEN SystemOperation(code.rd, code.imm) # "ERROR" =>
         line.name = SystemOperation(code.rd, code.imm)
  ELSE /\ line.name = code.instruction
       /\ GetOpcode(w) # OPCODE.FENCE =>
            line.regs = Operands(code, FullShows(GetOpcode(w)))
       /\ CASE IsShift(w) -> line.imm \cap (0 .. 5) = code.imm
            [] GetOpcode(w) = OPCODE.SYSTEM -> line.imm = GetCsr(w)
            [] GetOpcode(w) \in {OPCODE.ARITHLOG, OPCODE.ARITHLOG_64, OPCODE.AMO,
                                 OPCODE.FENCE} -> TRUE
            [] OTHER -> line.imm = code.imm

\* SystemLine reads the immediate as SystemInstruction does.
LEMMA SystemNames ==
  ASSUME NEW w, SystemOperation(GetRd(w), GetImm12(w)) # "ERROR"
  PROVE  SystemLine(w) = SystemOperation(GetRd(w), GetImm12(w))
BY DEF SystemLine, SystemOperation

\* The log shows every 32 bit instruction that is executed, but for AMOMINU.W.
LEMMA FullLogged ==
  ASSUME NEW w, NEW m, ~Compressed(w), NEW code, NEW line,
         code = Code(GetCode32(w), GetRd(w), GetRs1(w), GetRs2(w), GetImm(w)),
         line = Disassemble(w, m), code.instruction \notin {"ERROR", "AMOMINUW"}
  PROVE  FullShown(w, code, line)
<1> DEFINE f3 == Funct3(w)
           f7 == Funct7(w)
<1>1. f3 \in 0 .. 7 /\ f7 \in 0 .. 127
  BY Fields32
<1>2. code.instruction = GetCode32(w) /\ code.rd = GetRd(w) /\ code.imm = GetImm(w)
  BY OperandFields
<1>3. CASE GetOpcode(w) = OPCODE.ARITHLOG
  <2>1. code.instruction = ArithLog(f3, f7)
    BY <1>2, <1>3 DEF GetCode32, OPCODE
  <2>2. line = Line(Row(ArithLogRow(f7), f3), <<GetRd(w), GetRs1(w), GetRs2(w)>>, {})
    BY <1>3 DEF Disassemble, OPCODE
  <2>3. line.name = code.instruction /\ code.instruction # "SYSTEM"
    BY <1>1, <2>1, <2>2, ArithLogNames DEF Line
  <2>4. line.regs = Operands(code, FullShows(GetOpcode(w)))
    <3>1. FullShows(GetOpcode(w)) = <<"rd", "rs1", "rs2">>
      BY <1>3 DEF FullShows, OPCODE
    <3>2. Operands(code, <<"rd", "rs1", "rs2">>) = <<GetRd(w), GetRs1(w), GetRs2(w)>>
      BY OperandFields
    <3>3. QED
      BY <2>2, <3>1, <3>2 DEF Line
  <2>5. QED
    BY <1>3, <2>3, <2>4 DEF FullShown, IsShift, OPCODE
<1>4. CASE GetOpcode(w) = OPCODE.ARITHLOG_64
  <2>1. code.instruction = ArithLog64(f3, f7)
    BY <1>2, <1>4 DEF GetCode32, OPCODE
  <2>2. line = Line(Row(ArithLog64Row(f7), f3), <<GetRd(w), GetRs1(w), GetRs2(w)>>, {})
    BY <1>4 DEF Disassemble, OPCODE
  <2>3. line.name = code.instruction /\ code.instruction # "SYSTEM"
    BY <1>1, <2>1, <2>2, ArithLog64Names DEF Line
  <2>4. line.regs = Operands(code, FullShows(GetOpcode(w)))
    <3>1. FullShows(GetOpcode(w)) = <<"rd", "rs1", "rs2">>
      BY <1>4 DEF FullShows, OPCODE
    <3>2. Operands(code, <<"rd", "rs1", "rs2">>) = <<GetRd(w), GetRs1(w), GetRs2(w)>>
      BY OperandFields
    <3>3. QED
      BY <2>2, <3>1, <3>2 DEF Line
  <2>5. QED
    BY <1>4, <2>3, <2>4 DEF FullShown, IsShift, OPCODE
<1>5. CASE GetOpcode(w) = OPCODE.ARITHLOG_I
  <2>1. code.instruction = ArithLogI(f3, f7)
    BY <1>2, <1>5 DEF GetCode32, OPCODE
  <2>2. line = Line(Row(ArithLogIRow(f7), f3), <<GetRd(w), GetRs1(w)>>, GetImm12(w))
    BY <1>5 DEF Disassemble, OPCODE
  <2>3. line.name = code.instruction /\ code.instruction # "SYSTEM"
    BY <1>1, <2>1, <2>2, ArithLogINames DEF Line
  <2>4. line.regs = Operands(code, FullShows(GetOpcode(w)))
    <3>1. FullShows(GetOpcode(w)) = <<"rd", "rs1">>
      BY <1>5 DEF FullShows, OPCODE
    <3>2. Operands(code, <<"rd", "rs1">>) = <<GetRd(w), GetRs1(w)>>
      BY OperandFields
    <3>3. QED
      BY <2>2, <3>1, <3>2 DEF Line
  <2>5. line.imm = GetImm12(w)
    BY <2>2 DEF Line
  <2>6. code.imm = IF IsShift(w) THEN GetImm12(w) \cap (0 .. 5) ELSE GetImm12(w)
    BY <1>2, <1>5 DEF GetImm, IsShift, OPCODE
  <2>7. QED
    BY <1>5, <2>3, <2>4, <2>5, <2>6 DEF FullShown, OPCODE
<1>6. CASE GetOpcode(w) = OPCODE.ARITHLOG_I64
  <2>1. code.instruction = ArithLogI64(f3, f7)
    BY <1>2, <1>6 DEF GetCode32, OPCODE
  <2>2. line = Line(Row(ArithLogI64Row(f7), f3), <<GetRd(w), GetRs1(w)>>, GetImm12(w))
    BY <1>6 DEF Disassemble, OPCODE
  <2>3. line.name = code.instruction /\ code.instruction # "SYSTEM"
    BY <1>1, <2>1, <2>2, ArithLogI64Names DEF Line
  <2>4. line.regs = Operands(code, FullShows(GetOpcode(w)))
    <3>1. FullShows(GetOpcode(w)) = <<"rd", "rs1">>
      BY <1>6 DEF FullShows, OPCODE
    <3>2. Operands(code, <<"rd", "rs1">>) = <<GetRd(w), GetRs1(w)>>
      BY OperandFields
    <3>3. QED
      BY <2>2, <3>1, <3>2 DEF Line
  <2>5. line.imm = GetImm12(w)
    BY <2>2 DEF Line
  <2>6. code.imm = IF IsShift(w) THEN GetImm12(w) \cap (0 .. 5) ELSE GetImm12(w)
    BY <1>2, <1>6 DEF GetImm, IsShift, OPCODE
  <2>7. QED
    BY <1>6, <2>3, <2>4, <2>5, <2>6 DEF FullShown, OPCODE
<1>7. CASE GetOpcode(w) = OPCODE.B
  <2>1. code.instruction = BranchName(f3)
    BY <1>2, <1>7 DEF GetCode32, OPCODE
  <2>2. line = Line(Row(BranchRow, f3), <<GetRs1(w), GetRs2(w)>>, GetImm13(w))
    BY <1>7 DEF Disassemble, OPCODE
  <2>3. line.name = code.instruction /\ code.instruction # "SYSTEM"
    BY <1>1, <2>1, <2>2, RowNames DEF Line
  <2>4. line.regs = Operands(code, FullShows(GetOpcode(w)))
    <3>1. FullShows(GetOpcode(w)) = <<"rs1", "rs2">>
      BY <1>7 DEF FullShows, OPCODE
    <3>2. Operands(code, <<"rs1", "rs2">>) = <<GetRs1(w), GetRs2(w)>>
      BY OperandFields
    <3>3. QED
      BY <2>2, <3>1, <3>2 DEF Line
  <2>5. line.imm = code.imm
    BY <1>2, <1>7, <2>2 DEF Line, GetImm, IsShift, OPCODE
  <2>6. QED
    BY <1>7, <2>3, <2>4, <2>5 DEF FullShown, IsShift, OPCODE
<1>8. CASE GetOpcode(w) = OPCODE.J
  <2>1. code.instruction = "JAL"
    BY <1>2, <1>8 DEF GetCode32, OPCODE
  <2>2. line = Line("JAL", <<GetRd(w)>>, GetImm21(w))
    BY <1>8 DEF Disassemble, OPCODE
  <2>3. line.name = code.instruction /\ code.instruction # "SYSTEM"
    BY <1>1, <2>1, <2>2 DEF Line
  <2>4. line.regs = Operands(code, FullShows(GetOpcode(w)))
    <3>1. FullShows(GetOpcode(w)) = <<"rd">>
      BY <1>8 DEF FullShows, OPCODE
    <3>2. Operands(code, <<"rd">>) = <<GetRd(w)>>
      BY OperandFields
    <3>3. QED
      BY <2>2, <3>1, <3>2 DEF Line
  <2>5. line.imm = code.imm
    BY <1>2, <1>8, <2>2 DEF Line, GetImm, IsShift, OPCODE
  <2>6. QED
    BY <1>8, <2>3, <2>4, <2>5 DEF FullShown, IsShift, OPCODE
<1>9. CASE GetOpcode(w) = OPCODE.JALR
  <2>1. f3 = 0 /\ code.instruction = "JALR"
    BY <1>2, <1>9 DEF GetCode32, OPCODE
  <2>2. line = Line("JALR", <<GetRd(w), GetRs1(w)>>, GetImm12(w))
    BY <1>9, <2>1 DEF Disassemble, OPCODE
  <2>3. line.name = code.instruction /\ code.instruction # "SYSTEM"
    BY <2>1, <2>2 DEF Line
  <2>4. line.regs = Operands(code, FullShows(GetOpcode(w)))
    <3>1. FullShows(GetOpcode(w)) = <<"rd", "rs1">>
      BY <1>9 DEF FullShows, OPCODE
    <3>2. Operands(code, <<"rd", "rs1">>) = <<GetRd(w), GetRs1(w)>>
      BY OperandFields
    <3>3. QED
      BY <2>2, <3>1, <3>2 DEF Line
  <2>5. line.imm = code.imm
    BY <1>2, <1>9, <2>2 DEF Line, GetImm, IsShift, OPCODE
  <2>6. QED
    BY <1>9, <2>3, <2>4, <2>5 DEF FullShown, IsShift, OPCODE
<1>10. CASE GetOpcode(w) = OPCODE.LD
  <2>1. code.instruction = LoadName(f3)
    BY <1>2, <1>10 DEF GetCode32, OPCODE
  <2>2. line = Line(Row(LoadRow, f3), <<GetRd(w), GetRs1(w)>>, GetImm12(w))
    BY <1>10 DEF Disassemble, OPCODE
  <2>3. line.name = code.instruction /\ code.instruction # "SYSTEM"
    BY <1>1, <2>1, <2>2, RowNames DEF Line
  <2>4. line.regs = Operands(code, FullShows(GetOpcode(w)))
    <3>1. FullShows(GetOpcode(w)) = <<"rd", "rs1">>
      BY <1>10 DEF FullShows, OPCODE
    <3>2. Operands(code, <<"rd", "rs1">>) = <<GetRd(w), GetRs1(w)>>
      BY OperandFields
    <3>3. QED
      BY <2>2, <3>1, <3>2 DEF Line
  <2>5. line.imm = code.imm
    BY <1>2, <1>10, <2>2 DEF Line, GetImm, IsShift, OPCODE
  <2>6. QED
    BY <1>10, <2>3, <2>4, <2>5 DEF FullShown, IsShift, OPCODE
<1>11. CASE GetOpcode(w) = OPCODE.S
  <2>1. code.instruction = StoreName(f3)
    BY <1>2, <1>11 DEF GetCode32, OPCODE
  <2>2. line = Line(Row(StoreRow, f3), <<GetRs2(w), GetRs1(w)>>, GetStypeImm12(w))
    BY <1>11 DEF Disassemble, OPCODE
  <2>3. line.name = code.instruction /\ code.instruction # "SYSTEM"
    BY <1>1, <2>1, <2>2, RowNames DEF Line
  <2>4. line.regs = Operands(code, FullShows(GetOpcode(w)))
    <3>1. FullShows(GetOpcode(w)) = <<"rs2", "rs1">>
      BY <1>11 DEF FullShows, OPCODE
    <3>2. Operands(code, <<"rs2", "rs1">>) = <<GetRs2(w), GetRs1(w)>>
      BY OperandFields
    <3>3. QED
      BY <2>2, <3>1, <3>2 DEF Line
  <2>5. line.imm = code.imm
    BY <1>2, <1>11, <2>2 DEF Line, GetImm, IsShift, OPCODE
  <2>6. QED
    BY <1>11, <2>3, <2>4, <2>5 DEF FullShown, IsShift, OPCODE
<1>12. CASE GetOpcode(w) = OPCODE.LUI
  <2>1. code.instruction = "LUI"
    BY <1>2, <1>12 DEF GetCode32, OPCODE
  <2>2. line = Line("LUI", <<GetRd(w)>>, ShiftUp(GetImm20(w), 12))
    BY <1>12 DEF Disassemble, OPCODE
  <2>3. line.name = code.instruction /\ code.instruction # "SYSTEM"
    BY <1>1, <2>1, <2>2 DEF Line
  <2>4. line.regs = Operands(code, FullShows(GetOpcode(w)))
    <3>1. FullShows(GetOpcode(w)) = <<"rd">>
      BY <1>12 DEF FullShows, OPCODE
    <3>2. Operands(code, <<"rd">>) = <<GetRd(w)>>
      BY OperandFields
    <3>3. QED
      BY <2>2, <3>1, <3>2 DEF Line
  <2>5. line.imm = code.imm
    BY <1>2, <1>12, <2>2 DEF Line, GetImm, IsShift, OPCODE
  <2>6. QED
    BY <1>12, <2>3, <2>4, <2>5 DEF FullShown, IsShift, OPCODE
<1>13. CASE GetOpcode(w) = OPCODE.AUIPC
  <2>1. code.instruction = "AUIPC"
    BY <1>2, <1>13 DEF GetCode32, OPCODE
  <2>2. line = Line("AUIPC", <<GetRd(w)>>, ShiftUp(GetImm20(w), 12))
    BY <1>13 DEF Disassemble, OPCODE
  <2>3. line.name = code.instruction /\ code.instruction # "SYSTEM"
    BY <1>1, <2>1, <2>2 DEF Line
  <2>4. line.regs = Operands(code, FullShows(GetOpcode(w)))
    <3>1. FullShows(GetOpcode(w)) = <<"rd">>
      BY <1>13 DEF FullShows, OPCODE
    <3>2. Operands(code, <<"rd">>) = <<GetRd(w)>>
      BY OperandFields
    <3>3. QED
      BY <2>2, <3>1, <3>2 DEF Line
  <2>5. line.imm = code.imm
    BY <1>2, <1>13, <2>2 DEF Line, GetImm, IsShift, OPCODE
  <2>6. QED
    BY <1>13, <2>3, <2>4, <2>5 DEF FullShown, IsShift, OPCODE
<1>14. CASE GetOpcode(w) = OPCODE.SYSTEM
  <2>1. code.instruction = SystemName(f3)
    BY <1>2, <1>14 DEF GetCode32, OPCODE
  <2>2. CASE f3 = 0
    <3>1. code.instruction = "SYSTEM" /\ line = Line(SystemLine(w), <<>>, {})
      BY <1>1, <1>14, <2>1, <2>2, RowNames DEF Disassemble, OPCODE
    <3>2. code.imm = GetImm12(w)
      BY <1>2, <1>14 DEF GetImm, IsShift, OPCODE
    <3>3. line.name = SystemLine(w)
      BY <3>1 DEF Line
    <3>4. QED
      BY <1>2, <3>1, <3>2, <3>3, SystemNames DEF FullShown
  <2>3. CASE f3 # 0
    <3>1. line = Line(Row(CsrRow, f3), <<GetRd(w), GetRs1(w)>>, GetCsr(w))
      BY <1>14, <2>3 DEF Disassemble, OPCODE
    <3>2. line.name = code.instruction /\ code.instruction # "SYSTEM" /\ line.imm = GetCsr(w)
      BY <1>1, <2>1, <2>3, <3>1, RowNames DEF Line
    <3>3. FullShows(GetOpcode(w)) = <<"rd", "rs1">>
      BY <1>14 DEF FullShows, OPCODE
    <3>4. Operands(code, <<"rd", "rs1">>) = <<GetRd(w), GetRs1(w)>>
      BY OperandFields
    <3>5. line.regs = Operands(code, FullShows(GetOpcode(w)))
      BY <3>1, <3>3, <3>4 DEF Line
    <3>6. QED
      BY <1>14, <3>2, <3>5 DEF FullShown, IsShift, OPCODE
  <2>4. QED
    BY <2>2, <2>3
<1>15. CASE GetOpcode(w) = OPCODE.FENCE
  <2>1. code.instruction = FenceName(f3)
    BY <1>2, <1>15 DEF GetCode32, OPCODE
  <2>2. line = Line(Row(FenceRow, f3), <<>>, {})
    BY <1>15 DEF Disassemble, OPCODE
  <2>3. line.name = code.instruction /\ code.instruction # "SYSTEM"
    BY <1>1, <2>1, <2>2, RowNames DEF Line
  <2>4. QED
    BY <1>15, <2>3 DEF FullShown, IsShift, OPCODE
<1>16. CASE GetOpcode(w) = OPCODE.AMO
  <2>1. code.instruction = AmoName(f3, f7 \div 4)
    BY <1>2, <1>16 DEF GetCode32, OPCODE
  <2>2. line = Line(AmoMnemonic(f3, f7 \div 4), <<GetRd(w), GetRs2(w), GetRs1(w)>>, {})
    BY <1>16 DEF Disassemble, OPCODE
  <2>3. line.name = code.instruction /\ code.instruction # "SYSTEM"
    BY <1>1, <2>1, <2>2, AmoNames DEF Line
  <2>4. line.regs = Operands(code, FullShows(GetOpcode(w)))
    <3>1. FullShows(GetOpcode(w)) = <<"rd", "rs2", "rs1">>
      BY <1>16 DEF FullShows, OPCODE
    <3>2. Operands(code, <<"rd", "rs2", "rs1">>) = <<GetRd(w), GetRs2(w), GetRs1(w)>>
      BY OperandFields
    <3>3. QED
      BY <2>2, <3>1, <3>2 DEF Line
  <2>5. QED
    BY <1>16, <2>3, <2>4 DEF FullShown, IsShift, OPCODE
<1>17. QED
  <2>1. \/ GetOpcode(w) \in {OPCODE.ARITHLOG, OPCODE.ARITHLOG_64, OPCODE.ARITHLOG_I,
                            OPCODE.ARITHLOG_I64, OPCODE.B, OPCODE.J, OPCODE.JALR, OPCODE.LD,
                            OPCODE.S, OPCODE.LUI, OPCODE.AUIPC, OPCODE.SYSTEM, OPCODE.FENCE,
                            OPCODE.AMO}
        \/ code.instruction = "ERROR"
    BY <1>2 DEF GetCode32
  <2>2. QED
    BY <2>1, <1>3, <1>4, <1>5, <1>6, <1>7, <1>8, <1>9, <1>10,
       <1>11, <1>12, <1>13, <1>14, <1>15, <1>16

-----------------------------------------------------------------------------
(* The theorem on the log.                                                 *)

\* DisassembledAsExecuted: whatever word is executed, 16 or 32 bits long and
\* on either hart, the line that Disassemble writes for it names the
\* instruction and the operands that GetCode16 or GetCode32 decoded, but for
\* C.SW, AMOMINU.W and the bits of a shift's immediate that are no amount; of
\* the immediate that CSRRWI, CSRRSI and CSRRCI show as a register only the
\* number is compared.
THEOREM DisassembledAsExecutedHolds == HartSpec => []DisassembledAsExecuted
<1>1. WordInv => DisassembledAsExecuted
  <2>1. SUFFICES ASSUME WordInv,
                        NEW line, line = Disassemble(ir, mxl),
                        NEW code, code = Decoded(ir, mxl)
                 PROVE  /\ IsHalf /\ code.instruction # "ERROR" /\ Opcode16(ir) # \b11000 =>
                             ShownAs(code, line)
                        /\ IsFull /\ code.instruction \notin {"ERROR", "AMOMINUW"} =>
                             FullShown(ir, code, line)
    BY Zenon DEF DisassembledAsExecuted, ShownAs, FullShown, Operands
  <2>2. ir \in SUBSET Int /\ mxl \in {1, 2}
    BY <2>1 DEF WordInv, Bit
  <2>3. ASSUME IsHalf, code.instruction # "ERROR", Opcode16(ir) # \b11000
        PROVE  ShownAs(code, line)
    <3>1. Compressed(ir) /\ code = GetCode16(ir, mxl)
      BY <2>1, <2>3 DEF IsHalf, Decoded
    <3>2. QED
      BY <2>1, <2>2, <2>3, <3>1, HalfLogged
  <2>4. ASSUME IsFull, code.instruction \notin {"ERROR", "AMOMINUW"}
        PROVE  FullShown(ir, code, line)
    <3>1. ~Compressed(ir)
      BY <2>4 DEF IsFull
    <3>2. code = Code(GetCode32(ir), GetRd(ir), GetRs1(ir), GetRs2(ir), GetImm(ir))
      BY <2>1, <3>1 DEF Decoded
    <3>3. QED
      BY <2>1, <2>4, <3>1, <3>2, FullLogged
  <2>5. QED
    BY <2>3, <2>4
<1>2. QED
  BY <1>1, WordInvariant, PTL
=============================================================================
