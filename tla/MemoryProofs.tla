---------------------------- MODULE MemoryProofs ----------------------------
(***************************************************************************)
(* What the accesses of MemoryWrapper do to the bytes of the memory, for   *)
(* every size of a byte, of an entry and of the table of entries.          *)
(***************************************************************************)
EXTENDS Memory, WellFoundedInduction, TLAPS

-----------------------------------------------------------------------------
(* Induction on the length of a loop, for a set of lengths.                *)

\* A set of natural numbers has a least element.
LEMMA Least ==
  ASSUME NEW T \in SUBSET Nat, T # {}
  PROVE  \E x \in T : \A y \in T : x <= y
<1>1. PICK R : R = {ss \in Nat \X Nat : ss[1] < ss[2]}
  OBVIOUS
<1>2. IsWellFoundedOn(R, Nat)
  BY <1>1, NatLessThanWellFounded DEF OpToRel
<1>3. PICK x \in T : \A y \in T : ~ (<<y, x>> \in R)
  BY <1>2, WFMin
<1>4. \A y \in T : <<y, x>> \in R <=> y < x
  BY <1>1
<1>5. ASSUME NEW y \in T PROVE x <= y
  <2>1. ~(y < x)
    BY <1>3, <1>4
  <2>2. x \in Nat /\ y \in Nat
    OBVIOUS
  <2>3. QED
    BY <2>1, <2>2
<1>6. QED
  BY <1>5

\* A set that holds 0 and the successor of each of its members is Nat.
LEMMA Induction ==
  ASSUME NEW S \in SUBSET Nat, 0 \in S, \A n \in S : n + 1 \in S
  PROVE  S = Nat
<1>1. SUFFICES ASSUME Nat \ S # {} PROVE FALSE
  OBVIOUS
<1>2. PICK x \in Nat \ S : \A y \in Nat \ S : x <= y
  BY <1>1, Least
<1>3. x - 1 \in S /\ x = (x - 1) + 1
  BY <1>2
<1>4. QED
  BY <1>2, <1>3

-----------------------------------------------------------------------------
(* Weights and digits.                                                     *)

\* The recursion of Weight has a solution.
LEMMA WeightDef ==
  Weight = [k \in 0 .. 8 |-> IF k = 0 THEN 1 ELSE ByteSize * Weight[k - 1]]
<1> DEFINE W1 == ByteSize * 1
           W2 == ByteSize * W1
           W3 == ByteSize * W2
           W4 == ByteSize * W3
           W5 == ByteSize * W4
           W6 == ByteSize * W5
           W7 == ByteSize * W6
           W8 == ByteSize * W7
           f == [k \in 0 .. 8 |->
                   IF k = 0 THEN 1 ELSE IF k = 1 THEN W1 ELSE IF k = 2 THEN W2
                   ELSE IF k = 3 THEN W3 ELSE IF k = 4 THEN W4
                   ELSE IF k = 5 THEN W5 ELSE IF k = 6 THEN W6
                   ELSE IF k = 7 THEN W7 ELSE W8]
<1>1. f[0] = 1 /\ f[1] = ByteSize * f[0] /\ f[2] = ByteSize * f[1]
      /\ f[3] = ByteSize * f[2] /\ f[4] = ByteSize * f[3]
      /\ f[5] = ByteSize * f[4] /\ f[6] = ByteSize * f[5]
      /\ f[7] = ByteSize * f[6] /\ f[8] = ByteSize * f[7]
  <2> HIDE DEF W1, W2, W3, W4, W5, W6, W7, W8
  <2>1. /\ f[0] = 1 /\ f[1] = W1 /\ f[2] = W2 /\ f[3] = W3 /\ f[4] = W4
        /\ f[5] = W5 /\ f[6] = W6 /\ f[7] = W7 /\ f[8] = W8
    OBVIOUS
  <2> HIDE DEF f
  <2>2. QED
    BY <2>1 DEF W1, W2, W3, W4, W5, W6, W7, W8
<1>2. DOMAIN f = 0 .. 8 /\ f = [k \in 0 .. 8 |-> f[k]]
  OBVIOUS
<1> HIDE DEF f
<1>3. \A k \in 0 .. 8 : f[k] = IF k = 0 THEN 1 ELSE ByteSize * f[k - 1]
  BY <1>1
<1>4. f = [k \in 0 .. 8 |-> IF k = 0 THEN 1 ELSE ByteSize * f[k - 1]]
  BY <1>2, <1>3
<1>5. QED
  BY <1>4 DEF Weight

\* Its values.
LEMMA Weights ==
  /\ Weight[0] = 1
  /\ Weight[1] = ByteSize
  /\ Weight[2] = ByteSize * Weight[1]
  /\ Weight[3] = ByteSize * Weight[2]
  /\ Weight[4] = ByteSize * Weight[3]
  /\ Weight[5] = ByteSize * Weight[4]
  /\ Weight[6] = ByteSize * Weight[5]
  /\ Weight[7] = ByteSize * Weight[6]
  /\ Weight[8] = ByteSize * Weight[7]
  /\ \A k \in 0 .. 8 : Weight[k] \in Nat \ {0}
<1>1. /\ Weight[0] = 1
      /\ \A k \in 1 .. 8 : Weight[k] = ByteSize * Weight[k - 1]
  BY WeightDef
<1>2. ByteSize \in Nat \ {0, 1}
  BY MemoryAssumption
<1>3. /\ Weight[1] = ByteSize
      /\ Weight[2] = ByteSize * Weight[1]
      /\ Weight[3] = ByteSize * Weight[2]
      /\ Weight[4] = ByteSize * Weight[3]
      /\ Weight[5] = ByteSize * Weight[4]
      /\ Weight[6] = ByteSize * Weight[5]
      /\ Weight[7] = ByteSize * Weight[6]
      /\ Weight[8] = ByteSize * Weight[7]
  BY <1>1, <1>2
<1>4. \A w \in Nat \ {0} : ByteSize * w \in Nat \ {0}
  BY <1>2
<1>5. /\ Weight[0] \in Nat \ {0} /\ Weight[1] \in Nat \ {0}
      /\ Weight[2] \in Nat \ {0} /\ Weight[3] \in Nat \ {0}
      /\ Weight[4] \in Nat \ {0} /\ Weight[5] \in Nat \ {0}
      /\ Weight[6] \in Nat \ {0} /\ Weight[7] \in Nat \ {0}
      /\ Weight[8] \in Nat \ {0}
  BY <1>1, <1>2, <1>3, <1>4
<1>6. \A k \in 0 .. 8 : Weight[k] \in Nat \ {0}
  BY <1>5
<1>7. QED
  BY <1>1, <1>3, <1>6

\* Division by one more byte is division by a byte and then by the rest.
LEMMA DivideTwice ==
  ASSUME NEW b \in Nat \ {0}, NEW p \in Nat \ {0}, NEW w \in Nat
  PROVE  w \div (b * p) = (w \div b) \div p
<1>1. PICK q \in Nat, r \in 0 .. b - 1 : w = q * b + r /\ q = w \div b
  <2>1. w \div b \in Nat /\ w % b \in 0 .. b - 1 /\ w = (w \div b) * b + (w % b)
    OBVIOUS
  <2>2. QED
    BY <2>1
<1>2. PICK u \in Nat, s \in 0 .. p - 1 : q = u * p + s /\ u = q \div p
  <2>1. q \div p \in Nat /\ q % p \in 0 .. p - 1 /\ q = (q \div p) * p + (q % p)
    OBVIOUS
  <2>2. QED
    BY <2>1
<1>3. s * b + r \in 0 .. b * p - 1
  <2>1. s * b <= (p - 1) * b
    OBVIOUS
  <2>2. s * b + r <= (p - 1) * b + (b - 1)
    BY <2>1
  <2>3. (p - 1) * b + (b - 1) = b * p - 1
    OBVIOUS
  <2>4. s * b + r \in Nat
    OBVIOUS
  <2>5. QED
    BY <2>2, <2>3, <2>4
<1>4. PICK t \in Nat, c \in Nat \ {0} : t = s * b + r /\ c = b * p
  BY <1>3
<1>5. w = u * c + t /\ t \in 0 .. c - 1
  <2>1. w = (u * p + s) * b + r
    BY <1>1, <1>2
  <2>2. (u * p + s) * b + r = u * (b * p) + (s * b + r)
    OBVIOUS
  <2>3. QED
    BY <2>1, <2>2, <1>3, <1>4
<1>6. w \div c = u
  BY <1>5
<1>7. QED
  BY <1>1, <1>2, <1>4, <1>6

\* The lowest byte and the rest of a value.
LEMMA LowestByte ==
  ASSUME NEW d \in Byte, NEW h \in Nat
  PROVE  /\ d + ByteSize * h \in Nat
         /\ (d + ByteSize * h) % ByteSize = d
         /\ (d + ByteSize * h) \div ByteSize = h
<1>1. ByteSize \in Nat \ {0, 1} /\ d \in 0 .. ByteSize - 1
  BY MemoryAssumption DEF Byte
<1>2. QED
  BY <1>1

\* The bytes of a value, one after the other.
LEMMA ByteStep ==
  ASSUME NEW w \in Nat
  PROVE  /\ ByteOf(w, 0) = w % ByteSize
         /\ w \div ByteSize \in Nat
         /\ w = (w % ByteSize) + ByteSize * (w \div ByteSize)
         /\ \A k \in 0 .. 7 : ByteOf(w, k + 1) = ByteOf(w \div ByteSize, k)
         /\ \A k \in 0 .. 8 : ByteOf(w, k) \in Byte
<1>1. ByteSize \in Nat \ {0, 1}
  BY MemoryAssumption
<1>2. ByteOf(w, 0) = w % ByteSize
  BY Weights DEF ByteOf
<1>3. ASSUME NEW k \in 0 .. 7
      PROVE  ByteOf(w, k + 1) = ByteOf(w \div ByteSize, k)
  <2>1. Weight[k] \in Nat \ {0} /\ Weight[k + 1] = ByteSize * Weight[k]
    BY WeightDef, Weights
  <2>2. w \div Weight[k + 1] = (w \div ByteSize) \div Weight[k]
    BY <1>1, <2>1, DivideTwice
  <2>3. QED
    BY <2>2 DEF ByteOf
<1>4. ASSUME NEW k \in 0 .. 8
      PROVE  ByteOf(w, k) \in Byte
  <2>1. PICK q \in Nat : q = w \div Weight[k]
    BY Weights
  <2>2. q % ByteSize \in 0 .. ByteSize - 1
    BY <1>1
  <2>3. QED
    BY <2>1, <2>2 DEF ByteOf, Byte
<1>5. w \div ByteSize \in Nat
      /\ w = (w % ByteSize) + ByteSize * (w \div ByteSize)
  BY <1>1
<1>6. QED
  BY <1>2, <1>3, <1>4, <1>5

\* A value whose four lowest bytes are given, lowest first.
Compose(d0, d1, d2, d3, h) ==
  d0 + ByteSize * (d1 + ByteSize * (d2 + ByteSize * (d3 + ByteSize * h)))

\* The other bytes of a value are those of h.
UpperBytes(w, h) == \A k \in 0 .. 4 : ByteOf(w, k + 4) = ByteOf(h, k)

\* The bytes of such a value.
LEMMA Composed ==
  ASSUME NEW d0 \in Byte, NEW d1 \in Byte, NEW d2 \in Byte, NEW d3 \in Byte,
         NEW h \in Nat, NEW w, w = Compose(d0, d1, d2, d3, h)
  PROVE  /\ w \in Nat
         /\ ByteOf(w, 0) = d0 /\ ByteOf(w, 1) = d1
         /\ ByteOf(w, 2) = d2 /\ ByteOf(w, 3) = d3
         /\ UpperBytes(w, h)
<1>1. PICK w3 \in Nat : w3 = d3 + ByteSize * h
  BY LowestByte
<1>2. PICK w2 \in Nat : w2 = d2 + ByteSize * w3
  BY LowestByte
<1>3. PICK w1 \in Nat : w1 = d1 + ByteSize * w2
  BY LowestByte
<1>4. w \in Nat /\ w = d0 + ByteSize * w1
  BY <1>1, <1>2, <1>3, LowestByte DEF Compose
<1>5. ByteOf(w, 0) = d0 /\ w \div ByteSize = w1
  BY <1>4, LowestByte, ByteStep
<1>6. ByteOf(w1, 0) = d1 /\ w1 \div ByteSize = w2
  BY <1>3, LowestByte, ByteStep
<1>7. ByteOf(w2, 0) = d2 /\ w2 \div ByteSize = w3
  BY <1>2, LowestByte, ByteStep
<1>8. ByteOf(w3, 0) = d3 /\ w3 \div ByteSize = h
  BY <1>1, LowestByte, ByteStep
<1>9. /\ \A k \in 0 .. 7 : ByteOf(w, k + 1) = ByteOf(w1, k)
      /\ \A k \in 0 .. 7 : ByteOf(w1, k + 1) = ByteOf(w2, k)
      /\ \A k \in 0 .. 7 : ByteOf(w2, k + 1) = ByteOf(w3, k)
      /\ \A k \in 0 .. 7 : ByteOf(w3, k + 1) = ByteOf(h, k)
  BY <1>4, <1>5, <1>6, <1>7, <1>8, ByteStep
<1>10. ByteOf(w, 1) = d1 /\ ByteOf(w, 2) = d2 /\ ByteOf(w, 3) = d3
  <2>1. ByteOf(w, 0 + 1) = ByteOf(w1, 0) /\ ByteOf(w, 1 + 1) = ByteOf(w1, 1)
        /\ ByteOf(w, 2 + 1) = ByteOf(w1, 2)
    BY <1>9
  <2>2. ByteOf(w1, 0 + 1) = ByteOf(w2, 0) /\ ByteOf(w1, 1 + 1) = ByteOf(w2, 1)
        /\ ByteOf(w2, 0 + 1) = ByteOf(w3, 0)
    BY <1>9
  <2>3. QED
    BY <2>1, <2>2, <1>6, <1>7, <1>8
<1>11. ASSUME NEW k \in 0 .. 4
       PROVE  ByteOf(w, k + 4) = ByteOf(h, k)
  <2>1. ByteOf(w, (k + 3) + 1) = ByteOf(w1, k + 3)
        /\ ByteOf(w1, (k + 2) + 1) = ByteOf(w2, k + 2)
        /\ ByteOf(w2, (k + 1) + 1) = ByteOf(w3, k + 1)
        /\ ByteOf(w3, k + 1) = ByteOf(h, k)
    BY <1>9
  <2>2. (k + 3) + 1 = k + 4 /\ (k + 2) + 1 = k + 3 /\ (k + 1) + 1 = k + 2
    OBVIOUS
  <2>3. QED
    BY <2>1, <2>2
<1>12. QED
  BY <1>4, <1>5, <1>10, <1>11 DEF UpperBytes

\* Every value is composed of its bytes, and a word of four of them.
LEMMA Decomposed ==
  ASSUME NEW w \in Nat
  PROVE  \E h \in Nat :
           /\ w = Compose(ByteOf(w, 0), ByteOf(w, 1), ByteOf(w, 2), ByteOf(w, 3), h)
           /\ h = w \div Weight[4]
<1> DEFINE w1 == w \div ByteSize
           w2 == w1 \div ByteSize
           w3 == w2 \div ByteSize
           h == w3 \div ByteSize
<1>1. /\ ByteOf(w, 0) = w % ByteSize
      /\ w1 \in Nat
      /\ w = (w % ByteSize) + ByteSize * w1
      /\ \A k \in 0 .. 7 : ByteOf(w, k + 1) = ByteOf(w1, k)
  BY ByteStep
<1> HIDE DEF w1
<1>2. /\ ByteOf(w1, 0) = w1 % ByteSize
      /\ w2 \in Nat
      /\ w1 = (w1 % ByteSize) + ByteSize * w2
      /\ \A k \in 0 .. 7 : ByteOf(w1, k + 1) = ByteOf(w2, k)
  BY <1>1, ByteStep
<1> HIDE DEF w2
<1>3. /\ ByteOf(w2, 0) = w2 % ByteSize
      /\ w3 \in Nat
      /\ w2 = (w2 % ByteSize) + ByteSize * w3
      /\ \A k \in 0 .. 7 : ByteOf(w2, k + 1) = ByteOf(w3, k)
  BY <1>2, ByteStep
<1> HIDE DEF w3
<1>4. /\ ByteOf(w3, 0) = w3 % ByteSize
      /\ h \in Nat
      /\ w3 = (w3 % ByteSize) + ByteSize * h
  BY <1>3, ByteStep
<1> HIDE DEF h
<1>5. ByteOf(w, 1) = ByteOf(w1, 0)
  <2>1. ByteOf(w, 0 + 1) = ByteOf(w1, 0)
    BY <1>1
  <2>2. QED
    BY <2>1
<1>6. ByteOf(w, 2) = ByteOf(w2, 0)
  <2>1. ByteOf(w, 1 + 1) = ByteOf(w1, 1) /\ ByteOf(w1, 0 + 1) = ByteOf(w2, 0)
    BY <1>1, <1>2
  <2>2. QED
    BY <2>1
<1>7. ByteOf(w, 3) = ByteOf(w3, 0)
  <2>1. ByteOf(w, 2 + 1) = ByteOf(w1, 2) /\ ByteOf(w1, 1 + 1) = ByteOf(w2, 1)
        /\ ByteOf(w2, 0 + 1) = ByteOf(w3, 0)
    BY <1>1, <1>2, <1>3
  <2>2. QED
    BY <2>1
<1>8. w = Compose(ByteOf(w, 0), ByteOf(w, 1), ByteOf(w, 2), ByteOf(w, 3), h)
  BY <1>1, <1>2, <1>3, <1>4, <1>5, <1>6, <1>7 DEF Compose
<1>9. h = w \div Weight[4]
  <2>1. ByteSize \in Nat \ {0}
    BY MemoryAssumption
  <2>2. w \div Weight[4] = w1 \div Weight[3]
    BY <2>1, Weights, DivideTwice DEF w1
  <2>3. w1 \div Weight[3] = w2 \div Weight[2]
    BY <1>1, <2>1, Weights, DivideTwice DEF w2
  <2>4. w2 \div Weight[2] = w3 \div Weight[1]
    BY <1>2, <2>1, Weights, DivideTwice DEF w3
  <2>5. QED
    BY <2>2, <2>3, <2>4, Weights DEF h
<1>10. QED
  BY <1>4, <1>8, <1>9

-----------------------------------------------------------------------------
(* Where a byte is kept.                                                   *)

\* The sizes.
LEMMA Sizes ==
  /\ EntryWords \in Nat \ {0, 1} /\ Entries \in Nat \ {0}
  /\ EntrySize \in Nat \ {0} /\ EntrySize = 4 * EntryWords
  /\ MemorySize \in Nat \ {0} /\ MemorySize = Entries * EntrySize
  /\ MemorySize % 8 = 0
<1>1. EntryWords \in Nat \ {0, 1} /\ Entries \in Nat \ {0}
  BY MemoryAssumption
<1>2. EntrySize \in Nat \ {0} /\ EntrySize = 4 * EntryWords
  BY <1>1 DEF EntrySize
<1>3. MemorySize \in Nat \ {0} /\ MemorySize = Entries * EntrySize
  BY <1>1, <1>2 DEF MemorySize
<1>4. PICK h \in Nat : EntryWords = 2 * h
  <2>1. EntryWords = 2 * (EntryWords \div 2)
    BY <1>1, MemoryAssumption
  <2>2. EntryWords \div 2 \in Nat
    BY <1>1
  <2>3. QED
    BY <2>1, <2>2
<1>5. PICK g \in Nat : g = Entries * h
  BY <1>1, <1>4
<1>6. MemorySize = 8 * g
  BY <1>1, <1>2, <1>3, <1>4, <1>5
<1>7. MemorySize % 8 = 0
  BY <1>6
<1>8. QED
  BY <1>1, <1>2, <1>3, <1>7

\* An address, cut to the memory, names an entry, a word of it and a byte of
\* that.
LEMMA Position ==
  ASSUME NEW i \in Nat
  PROVE  /\ Entry(i) \in 0 .. Entries - 1
         /\ WordOffset(i) \in 0 .. EntryWords - 1
         /\ i % 4 \in 0 .. 3
         /\ i % MemorySize = Entry(i) * EntrySize + (WordOffset(i) * 4 + (i % 4))
<1>1. PICK n \in Nat \ {0}, w \in Nat \ {0}, e \in Nat \ {0}, s \in Nat \ {0} :
        n = Entries /\ w = EntryWords /\ e = EntrySize /\ s = MemorySize
  BY Sizes
<1>2. e = 4 * w /\ s = n * e
  BY <1>1, Sizes
<1>3. PICK q \in Nat, r \in Nat : q = i \div e /\ r = i % e
  OBVIOUS
<1>4. i = q * e + r /\ r < e
  BY <1>3
<1>5. PICK u \in Nat, t \in Nat : u = q \div n /\ t = q % n
  OBVIOUS
<1>6. q = u * n + t /\ t < n
  BY <1>5
<1>7. Entry(i) = t
  BY <1>1, <1>3, <1>5 DEF Entry
<1>8. PICK o \in Nat, b \in Nat : o = r \div 4 /\ b = r % 4
  OBVIOUS
<1>9. r = 4 * o + b /\ b < 4
  BY <1>8
<1>10. o < w
  BY <1>2, <1>4, <1>9
<1>11. WordOffset(i) = o
  BY <1>1, <1>3, <1>8 DEF WordOffset
<1>12. i % 4 = b
  <2>1. i = 4 * (q * w + o) + b
    <3>1. q * e = 4 * (q * w)
      BY <1>2
    <3>2. QED
      BY <3>1, <1>4, <1>9
  <2>2. PICK v \in Nat : v = q * w + o
    OBVIOUS
  <2>3. i = 4 * v + b
    BY <2>1, <2>2
  <2>4. QED
    BY <2>3, <1>9
<1>13. i % s = t * e + r
  <2>1. i = u * s + (t * e + r)
    <3>1. (u * n + t) * e = u * (n * e) + t * e
      OBVIOUS
    <3>2. QED
      BY <3>1, <1>2, <1>4, <1>6
  <2>2. PICK z \in Nat : z = t * e + r
    OBVIOUS
  <2>3. z < s
    <3>1. t * e <= (n - 1) * e
      BY <1>6
    <3>2. (n - 1) * e = n * e - e
      OBVIOUS
    <3>3. QED
      BY <3>1, <3>2, <2>2, <1>2, <1>4
  <2>4. i = u * s + z
    BY <2>1, <2>2
  <2>5. i % s = z
    BY <2>3, <2>4
  <2>6. QED
    BY <2>2, <2>5
<1>14. QED
  BY <1>1, <1>6, <1>7, <1>9, <1>10, <1>11, <1>12, <1>13

\* Two addresses name the same byte if and only if they agree modulo the size
\* of the memory.
LEMMA SameByte ==
  ASSUME NEW i \in Nat, NEW a \in Nat
  PROVE  i % MemorySize = a % MemorySize
           <=> /\ Entry(i) = Entry(a)
               /\ WordOffset(i) = WordOffset(a)
               /\ i % 4 = a % 4
<1>1. PICK w \in Nat \ {0}, e \in Nat \ {0} :
        w = EntryWords /\ e = EntrySize /\ e = 4 * w
  BY Sizes
<1>2. PICK x \in Nat, o \in 0 .. w - 1, b \in 0 .. 3 :
        /\ x = Entry(i) /\ o = WordOffset(i) /\ b = i % 4
        /\ i % MemorySize = x * e + (o * 4 + b)
  <2>1. /\ Entry(i) \in Nat /\ WordOffset(i) \in 0 .. w - 1 /\ i % 4 \in 0 .. 3
        /\ i % MemorySize = Entry(i) * e + (WordOffset(i) * 4 + (i % 4))
    BY <1>1, Position, Sizes
  <2>2. QED
    BY <2>1, Zenon
<1>3. PICK y \in Nat, p \in 0 .. w - 1, c \in 0 .. 3 :
        /\ y = Entry(a) /\ p = WordOffset(a) /\ c = a % 4
        /\ a % MemorySize = y * e + (p * 4 + c)
  <2>1. /\ Entry(a) \in Nat /\ WordOffset(a) \in 0 .. w - 1 /\ a % 4 \in 0 .. 3
        /\ a % MemorySize = Entry(a) * e + (WordOffset(a) * 4 + (a % 4))
    BY <1>1, Position, Sizes
  <2>2. QED
    BY <2>1, Zenon
<1>4. ASSUME x * e + (o * 4 + b) = y * e + (p * 4 + c)
      PROVE  x = y /\ o = p /\ b = c
  <2>1. PICK r \in 0 .. e - 1, s \in 0 .. e - 1 : r = o * 4 + b /\ s = p * 4 + c
    BY <1>1
  <2>2. x * e + r = y * e + s
    BY <1>4, <2>1
  <2>3. x = y
    <3>1. (x * e + r) \div e = x /\ (y * e + s) \div e = y
      OBVIOUS
    <3>2. QED
      BY <3>1, <2>2
  <2>4. r = s
    BY <2>2, <2>3
  <2>5. QED
    BY <2>1, <2>3, <2>4
<1>5. QED
  BY <1>2, <1>3, <1>4

\* The word of an address.
LEMMA WordOfAddress ==
  ASSUME NEW i \in Nat
  PROVE  /\ WordAddress(i) \in Nat
         /\ Entry(WordAddress(i)) = Entry(i)
         /\ WordOffset(WordAddress(i)) = WordOffset(i)
<1>1. PICK w \in Nat \ {0}, e \in Nat \ {0} :
        w = EntryWords /\ e = EntrySize /\ e = 4 * w
  BY Sizes
<1>2. PICK q \in Nat, r \in Nat : q = i \div e /\ r = i % e
  OBVIOUS
<1>3. i = q * e + r /\ r < e
  BY <1>2
<1>4. PICK o \in Nat, b \in Nat : o = r \div 4 /\ b = r % 4
  OBVIOUS
<1>5. r = 4 * o + b /\ b < 4
  BY <1>4
<1>6. PICK v \in Nat : v = q * w + o
  OBVIOUS
<1>7. i = 4 * v + b
  <2>1. q * e = 4 * (q * w)
    BY <1>1
  <2>2. QED
    BY <2>1, <1>3, <1>5, <1>6
<1>8. i % 4 = b
  BY <1>5, <1>7
<1>9. WordAddress(i) = q * e + 4 * o
  BY <1>3, <1>5, <1>8 DEF WordAddress
<1>10. PICK d \in Nat : d = WordAddress(i)
  BY <1>9
<1>11. 4 * o \in 0 .. e - 1
  BY <1>3, <1>5
<1>12. d \div e = q /\ d % e = 4 * o
  BY <1>9, <1>10, <1>11
<1>13. (4 * o) \div 4 = o
  OBVIOUS
<1>14. QED
  BY <1>1, <1>2, <1>4, <1>10, <1>12, <1>13 DEF Entry, WordOffset

-----------------------------------------------------------------------------
(* Single accesses.                                                        *)

\* A state of mapping_ and assigned_ that the wrapper can be in.
WellFormed(m) ==
  /\ DOMAIN m.mapping = 0 .. Entries - 1
  /\ m.assigned \in [0 .. Entries - 1 -> BOOLEAN]
  /\ \A e \in 0 .. Entries - 1 :
       m.assigned[e] => m.mapping[e] \in [1 .. EntryWords -> Word]

\* The constructor's is one, and all its bytes are zero.
LEMMA Constructed ==
  /\ WellFormed(MemoryWrapper)
  /\ \A a \in Nat : ReadByte(MemoryWrapper, a) = 0
<1>1. WellFormed(MemoryWrapper)
  BY DEF WellFormed, MemoryWrapper
<1>2. ASSUME NEW a \in Nat
      PROVE  ReadByte(MemoryWrapper, a) = 0
  <2>1. Entry(WordAddress(a)) \in 0 .. Entries - 1 /\ a % 4 \in 0 .. 3
    BY WordOfAddress, Position
  <2>2. Read32(MemoryWrapper, WordAddress(a)) = 0
    BY <2>1 DEF Read32, MemoryWrapper
  <2>3. \A k \in 0 .. 3 : ByteOf(0, k) = 0
    <3>1. ByteSize \in Nat \ {0}
      BY MemoryAssumption
    <3>2. \A w \in Nat \ {0} : 0 \div w = 0 /\ 0 % w = 0
      OBVIOUS
    <3>3. QED
      BY <3>1, <3>2, Weights DEF ByteOf
  <2>4. QED
    BY <2>1, <2>2, <2>3 DEF ReadByte
<1>3. QED
  BY <1>1, <1>2

\* Read32 returns a word, the same for all addresses of the word.
LEMMA WordRead ==
  ASSUME NEW m, WellFormed(m), NEW i \in Nat
  PROVE  /\ Read32(m, i) \in Word
         /\ Read32(m, i) \in Nat
         /\ Read32(m, WordAddress(i)) = Read32(m, i)
<1>1. Entry(i) \in 0 .. Entries - 1 /\ WordOffset(i) + 1 \in 1 .. EntryWords
  BY Position, Sizes
<1>2. 0 \in Word /\ Word \subseteq Nat
  BY Weights DEF Word
<1>3. Read32(m, i) \in Word
  BY <1>1, <1>2 DEF Read32, WellFormed
<1>4. Read32(m, WordAddress(i)) = Read32(m, i)
  BY WordOfAddress DEF Read32
<1>5. QED
  BY <1>2, <1>3, <1>4

\* Write32 changes one word, in an entry that it makes if there is none.
LEMMA WordWritten ==
  ASSUME NEW m, WellFormed(m), NEW i \in Nat, NEW value \in Nat
  PROVE  /\ WellFormed(Write32(m, i, value))
         /\ \A a \in Nat :
              Read32(Write32(m, i, value), a) =
                IF Entry(a) = Entry(i) /\ WordOffset(a) = WordOffset(i)
                THEN value % Weight[4] ELSE Read32(m, a)
<1> DEFINE entry == Entry(i)
           vector == IF m.assigned[entry] THEN m.mapping[entry]
                     ELSE [k \in 1 .. EntryWords |-> 0]
           new == [vector EXCEPT ![WordOffset(i) + 1] = value % Weight[4]]
           n == Write32(m, i, value)
<1>1. entry \in 0 .. Entries - 1 /\ WordOffset(i) + 1 \in 1 .. EntryWords
  BY Position, Sizes
<1>2. 0 \in Word /\ value % Weight[4] \in Word
  BY Weights DEF Word
<1>3. vector \in [1 .. EntryWords -> Word]
  BY <1>1, <1>2 DEF WellFormed
<1>4. /\ n.mapping = [m.mapping EXCEPT ![entry] = new]
      /\ n.assigned = [m.assigned EXCEPT ![entry] = TRUE]
  BY DEF Write32
<1>5. /\ new \in [1 .. EntryWords -> Word]
      /\ \A k \in 1 .. EntryWords :
           new[k] = IF k = WordOffset(i) + 1 THEN value % Weight[4] ELSE vector[k]
  <2> HIDE DEF vector
  <2>1. QED
    BY <1>1, <1>2, <1>3
<1> HIDE DEF n, new
<1>6. WellFormed(n)
  BY <1>1, <1>4, <1>5 DEF WellFormed
<1>7. ASSUME NEW a \in Nat
      PROVE  Read32(n, a) =
               IF Entry(a) = Entry(i) /\ WordOffset(a) = WordOffset(i)
               THEN value % Weight[4] ELSE Read32(m, a)
  <2>1. Entry(a) \in 0 .. Entries - 1 /\ WordOffset(a) + 1 \in 1 .. EntryWords
        /\ WordOffset(a) \in Nat /\ WordOffset(i) \in Nat
    BY Position, Sizes
  <2>2. CASE Entry(a) = entry
    <3>1. n.assigned[Entry(a)] /\ n.mapping[Entry(a)] = new
      BY <1>1, <1>4, <2>2 DEF WellFormed
    <3>2. Read32(n, a) = new[WordOffset(a) + 1]
      BY <3>1 DEF Read32
    <3>3. Read32(m, a) = vector[WordOffset(a) + 1]
      BY <2>1, <2>2 DEF Read32
    <3> HIDE DEF vector
    <3>4. new[WordOffset(a) + 1] = IF WordOffset(a) + 1 = WordOffset(i) + 1
                                   THEN value % Weight[4]
                                   ELSE vector[WordOffset(a) + 1]
      BY <1>5, <2>1
    <3>5. QED
      BY <2>1, <2>2, <3>2, <3>3, <3>4
  <2>3. CASE Entry(a) # entry
    <3>1. /\ n.assigned[Entry(a)] = m.assigned[Entry(a)]
          /\ n.mapping[Entry(a)] = m.mapping[Entry(a)]
      BY <1>4, <2>1, <2>3 DEF WellFormed
    <3>2. QED
      BY <2>3, <3>1 DEF Read32
  <2>4. QED
    BY <2>2, <2>3
<1>8. QED
  BY <1>6, <1>7 DEF n

\* The byte at an address, as a byte of its word.
LEMMA ByteRead ==
  ASSUME NEW m, WellFormed(m), NEW a \in Nat
  PROVE  /\ ReadByte(m, a) = ByteOf(Read32(m, a), a % 4)
         /\ ReadByte(m, a) \in Byte
<1>1. ReadByte(m, a) = ByteOf(Read32(m, a), a % 4)
  BY WordRead DEF ReadByte
<1>2. Read32(m, a) \in Nat /\ a % 4 \in 0 .. 8
  BY WordRead
<1>3. QED
  BY <1>1, <1>2, ByteStep

\* Addresses that agree modulo the size of the memory are read alike.
LEMMA ByteReadModulo ==
  ASSUME NEW m, WellFormed(m), NEW a \in Nat, NEW b \in Nat,
         a % MemorySize = b % MemorySize
  PROVE  ReadByte(m, a) = ReadByte(m, b)
<1>1. Entry(a) = Entry(b) /\ WordOffset(a) = WordOffset(b) /\ a % 4 = b % 4
  BY SameByte
<1>2. Read32(m, a) = Read32(m, b)
  BY <1>1 DEF Read32
<1>3. QED
  BY <1>1, <1>2, ByteRead

\* A word and its bytes.
MadeOf(w, d0, d1, d2, d3) ==
  /\ w \in Word
  /\ ByteOf(w, 0) = d0 /\ ByteOf(w, 1) = d1
  /\ ByteOf(w, 2) = d2 /\ ByteOf(w, 3) = d3

\* Four bytes make a word.
LEMMA FourBytes ==
  ASSUME NEW d0 \in Byte, NEW d1 \in Byte, NEW d2 \in Byte, NEW d3 \in Byte
  PROVE  MadeOf(Compose(d0, d1, d2, d3, 0), d0, d1, d2, d3)
<1>1. ByteSize \in Nat \ {0, 1}
  BY MemoryAssumption
<1>2. ASSUME NEW d \in Byte, NEW p \in Nat \ {0}, NEW h \in 0 .. p - 1
      PROVE  d + ByteSize * h \in 0 .. (ByteSize * p) - 1
  <2>1. d \in 0 .. ByteSize - 1
    BY DEF Byte
  <2>2. ByteSize * h <= ByteSize * (p - 1) /\ ByteSize * h \in Nat
    BY <1>1
  <2>3. ByteSize * (p - 1) = ByteSize * p - ByteSize /\ ByteSize * p \in Nat
    BY <1>1
  <2>4. QED
    BY <1>1, <2>1, <2>2, <2>3
<1>3. PICK w3 \in Nat : w3 = d3 + ByteSize * 0
  BY LowestByte
<1>4. w3 \in 0 .. Weight[1] - 1
  BY <1>1, <1>3, Weights DEF Byte
<1>5. PICK w2 \in Nat : w2 = d2 + ByteSize * w3
  BY LowestByte
<1>6. w2 \in 0 .. Weight[2] - 1
  BY <1>2, <1>4, <1>5, Weights
<1>7. PICK w1 \in Nat : w1 = d1 + ByteSize * w2
  BY LowestByte
<1>8. w1 \in 0 .. Weight[3] - 1
  BY <1>2, <1>6, <1>7, Weights
<1>9. d0 + ByteSize * w1 \in 0 .. Weight[4] - 1
  BY <1>2, <1>8, Weights
<1>10. PICK w : w = Compose(d0, d1, d2, d3, 0)
  OBVIOUS
<1>11. w \in Word
  BY <1>3, <1>5, <1>7, <1>9, <1>10 DEF Compose, Word
<1>12. /\ ByteOf(w, 0) = d0 /\ ByteOf(w, 1) = d1
       /\ ByteOf(w, 2) = d2 /\ ByteOf(w, 3) = d3
  BY <1>10, Composed
<1>13. QED
  BY <1>10, <1>11, <1>12 DEF MadeOf

\* A word is made of its four bytes.
LEMMA WordOfBytes ==
  ASSUME NEW w \in Word
  PROVE  /\ w \in Nat
         /\ w = Compose(ByteOf(w, 0), ByteOf(w, 1), ByteOf(w, 2), ByteOf(w, 3), 0)
         /\ w % Weight[4] = w
<1>1. w \in Nat /\ w < Weight[4] /\ Weight[4] \in Nat \ {0}
  BY Weights DEF Word
<1>2. w \div Weight[4] = 0 /\ w % Weight[4] = w
  BY <1>1
<1>3. QED
  BY <1>1, <1>2, Decomposed

\* WriteByte's word: one byte replaced, the others kept.
LEMMA ByteReplaced ==
  ASSUME NEW w \in Word, NEW k \in 0 .. 3, NEW x \in Byte,
         NEW new, new = w - ByteOf(w, k) * Weight[k] + x * Weight[k]
  PROVE  /\ new \in Word
         /\ \A j \in 0 .. 3 : ByteOf(new, j) = IF j = k THEN x ELSE ByteOf(w, j)
<1>1. PICK d0 \in Byte, d1 \in Byte, d2 \in Byte, d3 \in Byte :
        /\ d0 = ByteOf(w, 0) /\ d1 = ByteOf(w, 1)
        /\ d2 = ByteOf(w, 2) /\ d3 = ByteOf(w, 3)
  <2>1. /\ ByteOf(w, 0) \in Byte /\ ByteOf(w, 1) \in Byte
        /\ ByteOf(w, 2) \in Byte /\ ByteOf(w, 3) \in Byte
    BY WordOfBytes, ByteStep
  <2>2. QED
    BY <2>1, Zenon
<1>2. w = Compose(d0, d1, d2, d3, 0)
  BY <1>1, WordOfBytes
<1>3. /\ ByteSize \in Nat /\ d0 \in Nat /\ d1 \in Nat /\ d2 \in Nat /\ d3 \in Nat
      /\ x \in Nat
  BY MemoryAssumption DEF Byte
<1>4. CASE k = 0
  <2>1. new = Compose(x, d1, d2, d3, 0)
    BY <1>1, <1>2, <1>3, <1>4, Weights DEF Compose
  <2>2. MadeOf(Compose(x, d1, d2, d3, 0), x, d1, d2, d3)
    BY FourBytes, Zenon
  <2>3. QED
    BY <1>1, <1>4, <2>1, <2>2 DEF MadeOf
<1>5. CASE k = 1
  <2>1. new = Compose(d0, x, d2, d3, 0)
    BY <1>1, <1>2, <1>3, <1>5, Weights DEF Compose
  <2>2. MadeOf(Compose(d0, x, d2, d3, 0), d0, x, d2, d3)
    BY FourBytes, Zenon
  <2>3. QED
    BY <1>1, <1>5, <2>1, <2>2 DEF MadeOf
<1>6. CASE k = 2
  <2>1. new = Compose(d0, d1, x, d3, 0)
    BY <1>1, <1>2, <1>3, <1>6, Weights DEF Compose
  <2>2. MadeOf(Compose(d0, d1, x, d3, 0), d0, d1, x, d3)
    BY FourBytes, Zenon
  <2>3. QED
    BY <1>1, <1>6, <2>1, <2>2 DEF MadeOf
<1>7. CASE k = 3
  <2>1. new = Compose(d0, d1, d2, x, 0)
    BY <1>1, <1>2, <1>3, <1>7, Weights DEF Compose
  <2>2. MadeOf(Compose(d0, d1, d2, x, 0), d0, d1, d2, x)
    BY FourBytes, Zenon
  <2>3. QED
    BY <1>1, <1>7, <2>1, <2>2 DEF MadeOf
<1>8. QED
  BY <1>4, <1>5, <1>6, <1>7

\* A value stored in a word keeps its four lowest bytes.
LEMMA WordKeepsBytes ==
  ASSUME NEW v \in Nat
  PROVE  /\ v % Weight[4] \in Word
         /\ \A k \in 0 .. 3 : ByteOf(v % Weight[4], k) = ByteOf(v, k)
<1>1. PICK h \in Nat :
        /\ v = Compose(ByteOf(v, 0), ByteOf(v, 1), ByteOf(v, 2), ByteOf(v, 3), h)
        /\ h = v \div Weight[4]
  BY Decomposed
<1>2. PICK d0 \in Byte, d1 \in Byte, d2 \in Byte, d3 \in Byte :
        /\ d0 = ByteOf(v, 0) /\ d1 = ByteOf(v, 1)
        /\ d2 = ByteOf(v, 2) /\ d3 = ByteOf(v, 3)
  <2>1. /\ ByteOf(v, 0) \in Byte /\ ByteOf(v, 1) \in Byte
        /\ ByteOf(v, 2) \in Byte /\ ByteOf(v, 3) \in Byte
    BY ByteStep
  <2>2. QED
    BY <2>1, Zenon
<1>3. /\ ByteSize \in Nat /\ d0 \in Nat /\ d1 \in Nat /\ d2 \in Nat /\ d3 \in Nat
  BY MemoryAssumption DEF Byte
<1>4. PICK low \in Word : low = Compose(d0, d1, d2, d3, 0)
  BY FourBytes DEF MadeOf
<1>5. v = low + Weight[4] * h
  <2>1. v = Compose(d0, d1, d2, d3, h)
    BY <1>1, <1>2
  <2>2. Weight[4] = ByteSize * (ByteSize * (ByteSize * ByteSize))
    BY Weights, MemoryAssumption
  <2>3. QED
    BY <2>1, <2>2, <1>3, <1>4 DEF Compose
<1>6. v % Weight[4] = low
  <2>1. Weight[4] \in Nat \ {0} /\ low \in 0 .. Weight[4] - 1
    BY Weights DEF Word
  <2>2. PICK p \in Nat \ {0} : p = Weight[4]
    BY <2>1
  <2>3. v = low + p * h /\ low \in 0 .. p - 1
    BY <1>5, <2>1, <2>2
  <2>4. (low + p * h) % p = low
    BY <2>3
  <2>5. QED
    BY <2>2, <2>3, <2>4
<1>7. \A k \in 0 .. 3 : ByteOf(low, k) = ByteOf(v, k)
  <2>1. /\ ByteOf(low, 0) = d0 /\ ByteOf(low, 1) = d1
        /\ ByteOf(low, 2) = d2 /\ ByteOf(low, 3) = d3
    BY <1>4, Composed
  <2>2. QED
    BY <1>2, <2>1
<1>8. QED
  BY <1>6, <1>7

\* WriteByte changes one byte.
LEMMA ByteWritten ==
  ASSUME NEW m, WellFormed(m), NEW i \in Nat, NEW x \in Byte
  PROVE  /\ WellFormed(WriteByte(m, i, x))
         /\ \A a \in Nat :
              ReadByte(WriteByte(m, i, x), a) =
                IF a % MemorySize = i % MemorySize THEN x ELSE ReadByte(m, a)
<1>1. PICK k \in 0 .. 3, w \in Word : k = i % 4 /\ w = Read32(m, i)
  BY WordRead
<1>2. PICK new : new = w - ByteOf(w, k) * Weight[k] + x * Weight[k]
  OBVIOUS
<1>3. /\ new \in Word
      /\ \A j \in 0 .. 3 : ByteOf(new, j) = IF j = k THEN x ELSE ByteOf(w, j)
  BY <1>2, ByteReplaced
<1>4. new \in Nat /\ new % Weight[4] = new
  BY <1>3, WordOfBytes
<1>5. PICK n : n = Write32(m, WordAddress(i), new)
  OBVIOUS
<1>6. WriteByte(m, i, x) = n
  <2>1. Read32(m, WordAddress(i)) = w
    BY <1>1, WordRead
  <2>2. QED
    BY <1>1, <1>2, <1>5, <2>1 DEF WriteByte
<1>7. /\ WellFormed(n)
      /\ \A a \in Nat :
           Read32(n, a) = IF Entry(a) = Entry(i) /\ WordOffset(a) = WordOffset(i)
                          THEN new ELSE Read32(m, a)
  <2>1. PICK d \in Nat : d = WordAddress(i)
    BY WordOfAddress
  <2>2. Entry(d) = Entry(i) /\ WordOffset(d) = WordOffset(i) /\ n = Write32(m, d, new)
    BY <1>5, <2>1, WordOfAddress
  <2>3. /\ WellFormed(n)
        /\ \A a \in Nat :
             Read32(n, a) = IF Entry(a) = Entry(d) /\ WordOffset(a) = WordOffset(d)
                            THEN new % Weight[4] ELSE Read32(m, a)
    BY <1>4, <2>2, WordWritten
  <2>4. QED
    BY <1>4, <2>2, <2>3
<1>8. ASSUME NEW a \in Nat
      PROVE  ReadByte(n, a) =
               IF a % MemorySize = i % MemorySize THEN x ELSE ReadByte(m, a)
  <2>1. /\ ReadByte(n, a) = ByteOf(Read32(n, a), a % 4)
        /\ ReadByte(m, a) = ByteOf(Read32(m, a), a % 4)
    BY <1>7, ByteRead
  <2>2. a % 4 \in 0 .. 3
    OBVIOUS
  <2>3. CASE Entry(a) = Entry(i) /\ WordOffset(a) = WordOffset(i)
    <3>1. Read32(n, a) = new /\ Read32(m, a) = w
      BY <1>1, <1>7, <2>3 DEF Read32
    <3>2. a % MemorySize = i % MemorySize <=> a % 4 = k
      BY <1>1, <2>3, SameByte
    <3>3. QED
      BY <1>3, <2>1, <2>2, <3>1, <3>2
  <2>4. CASE ~(Entry(a) = Entry(i) /\ WordOffset(a) = WordOffset(i))
    <3>1. Read32(n, a) = Read32(m, a)
      BY <1>7, <2>4
    <3>2. a % MemorySize # i % MemorySize
      BY <2>4, SameByte
    <3>3. QED
      BY <2>1, <3>1, <3>2
  <2>5. QED
    BY <2>3, <2>4
<1>9. QED
  BY <1>6, <1>7, <1>8

-----------------------------------------------------------------------------
(* Accesses of several bytes.                                              *)

\* From m to n exactly len bytes change: those of data, from address i on.  Of
\* several for one place the last one counts.
Puts(m, n, i, data, len) ==
  /\ WellFormed(n)
  /\ \A a \in Nat :
       /\ (\A k \in 1 .. len : (i + k - 1) % MemorySize # a % MemorySize)
            => ReadByte(n, a) = ReadByte(m, a)
       /\ \A k \in 1 .. len :
            /\ (i + k - 1) % MemorySize = a % MemorySize
            /\ \A j \in k + 1 .. len : (i + j - 1) % MemorySize # a % MemorySize
            => ReadByte(n, a) = data[k]

\* One write after another.
LEMMA PutsAfter ==
  ASSUME NEW m, NEW n, NEW o, NEW i \in Nat, NEW data, NEW more,
         NEW p \in Nat, NEW q \in Nat,
         Puts(m, n, i, data, p), Puts(n, o, i + p, more, q),
         \A k \in 1 .. q : data[p + k] = more[k]
  PROVE  Puts(m, o, i, data, p + q)
<1> DEFINE At(k, a) == (i + k - 1) % MemorySize = a % MemorySize
<1>1. ASSUME NEW a \in Nat, NEW k \in 1 .. q
      PROVE  (i + p + k - 1) % MemorySize = a % MemorySize <=> At(p + k, a)
  <2>1. i + p + k - 1 = i + (p + k) - 1
    OBVIOUS
  <2>2. QED
    BY <2>1
<1>2. ASSUME NEW a \in Nat, \A k \in 1 .. p + q : ~At(k, a)
      PROVE  ReadByte(o, a) = ReadByte(m, a)
  <2>1. \A k \in 1 .. p : ~At(k, a)
    <3>1. 1 .. p \subseteq 1 .. p + q
      OBVIOUS
    <3> HIDE DEF At
    <3>2. QED
      BY <1>2, <3>1
  <2>2. \A k \in 1 .. q : (i + p + k - 1) % MemorySize # a % MemorySize
    <3>1. \A k \in 1 .. q : p + k \in 1 .. p + q
      OBVIOUS
    <3> HIDE DEF At
    <3>2. QED
      BY <1>1, <1>2, <3>1
  <2>3. QED
    BY <2>1, <2>2 DEF Puts
<1>3. ASSUME NEW a \in Nat, NEW k \in 1 .. p + q, At(k, a),
             \A j \in k + 1 .. p + q : ~At(j, a)
      PROVE  ReadByte(o, a) = data[k]
  <2>1. CASE k > p
    <3>1. PICK l \in 1 .. q : k = p + l
      <4>1. k - p \in 1 .. q /\ k = p + (k - p)
        BY <2>1
      <4>2. QED
        BY <4>1
    <3>2. (i + p + l - 1) % MemorySize = a % MemorySize
      BY <1>1, <1>3, <3>1
    <3>3. ASSUME NEW j \in l + 1 .. q
          PROVE  (i + p + j - 1) % MemorySize # a % MemorySize
      <4>1. p + j \in k + 1 .. p + q /\ j \in 1 .. q
        BY <3>1
      <4> HIDE DEF At
      <4>2. QED
        BY <1>1, <1>3, <4>1
    <3>4. ReadByte(o, a) = more[l]
      BY <3>2, <3>3 DEF Puts
    <3>5. QED
      BY <3>1, <3>4
  <2>2. CASE k <= p
    <3>1. k \in 1 .. p /\ \A j \in k + 1 .. p : ~At(j, a)
      <4>1. k \in 1 .. p /\ k + 1 .. p \subseteq k + 1 .. p + q
        BY <2>2
      <4> HIDE DEF At
      <4>2. QED
        BY <1>3, <4>1
    <3>2. ReadByte(n, a) = data[k]
      BY <1>3, <3>1 DEF Puts
    <3>3. ASSUME NEW j \in 1 .. q
          PROVE  (i + p + j - 1) % MemorySize # a % MemorySize
      <4>1. p + j \in k + 1 .. p + q
        BY <2>2
      <4> HIDE DEF At
      <4>2. QED
        BY <1>1, <1>3, <4>1
    <3>4. ReadByte(o, a) = ReadByte(n, a)
      BY <3>3 DEF Puts
    <3>5. QED
      BY <3>2, <3>4
  <2>3. QED
    BY <2>1, <2>2
<1>4. WellFormed(o)
  BY DEF Puts
<1>5. QED
  BY <1>2, <1>3, <1>4 DEF Puts

\* A write of no bytes, and of one.
LEMMA PutsFew ==
  ASSUME NEW m, WellFormed(m), NEW i \in Nat, NEW data
  PROVE  /\ Puts(m, m, i, data, 0)
         /\ data[1] \in Byte => Puts(m, WriteByte(m, i, data[1]), i, data, 1)
<1>1. Puts(m, m, i, data, 0)
  BY DEF Puts
<1>2. ASSUME data[1] \in Byte
      PROVE  Puts(m, WriteByte(m, i, data[1]), i, data, 1)
  <2>1. PICK n : n = WriteByte(m, i, data[1])
    OBVIOUS
  <2>2. /\ WellFormed(n)
        /\ \A a \in Nat :
             ReadByte(n, a) = IF a % MemorySize = i % MemorySize THEN data[1]
                              ELSE ReadByte(m, a)
    BY <1>2, <2>1, ByteWritten
  <2>3. i + 1 - 1 = i /\ \A k \in 1 .. 1 : k = 1
    OBVIOUS
  <2>4. Puts(m, n, i, data, 1)
    BY <2>2, <2>3 DEF Puts
  <2>5. QED
    BY <2>1, <2>4
<1>3. QED
  BY <1>1, <1>2

\* The memory f[k] after k rounds of the loop of WriteBytes.
Rounds(f, m, i, data, n) ==
  f = [k \in 0 .. n |->
         IF k = 0 THEN m ELSE WriteByte(f[k - 1], i + k - 1, data[k])]

\* The loop has a result after each round.
LEMMA RoundsDefined ==
  ASSUME NEW m, NEW i, NEW data, NEW n \in Nat
  PROVE  \E f : Rounds(f, m, i, data, n)
<1> DEFINE Solves(f, l) ==
             f = [k \in 0 .. l |-> IF k = 0 THEN m
                                   ELSE WriteByte(f[k - 1], i + k - 1, data[k])]
           S == {l \in Nat : \E f : Solves(f, l)}
<1>1. 0 \in S
  <2>1. PICK f : f = [k \in 0 .. 0 |-> m]
    OBVIOUS
  <2>2. \A k \in 0 .. 0 : k = 0
    OBVIOUS
  <2>3. Solves(f, 0)
    BY <2>1, <2>2
  <2>4. QED
    BY <2>3
<1>2. ASSUME NEW l \in S
      PROVE  l + 1 \in S
  <2>1. PICK f : Solves(f, l)
    OBVIOUS
  <2>2. PICK x : x = WriteByte(f[l], i + (l + 1) - 1, data[l + 1])
    OBVIOUS
  <2>3. PICK g : g = [k \in 0 .. l + 1 |-> IF k = l + 1 THEN x ELSE f[k]]
    OBVIOUS
  <2>4. l \in Nat /\ l + 1 \in Nat
    OBVIOUS
  <2>5. ASSUME NEW k \in 0 .. l + 1
        PROVE  g[k] = IF k = 0 THEN m ELSE WriteByte(g[k - 1], i + k - 1, data[k])
    <3>1. CASE k = l + 1
      <4>1. g[k] = x /\ k - 1 = l /\ l \in 0 .. l + 1 /\ l # l + 1 /\ k # 0
        BY <2>3, <2>4, <3>1
      <4>2. g[k - 1] = f[l]
        BY <2>3, <4>1
      <4>3. QED
        BY <2>2, <3>1, <4>1, <4>2
    <3>2. CASE k # l + 1 /\ k # 0
      <4>1. k \in 0 .. l /\ k - 1 \in 0 .. l + 1 /\ k - 1 # l + 1
        BY <2>4, <3>2
      <4>2. g[k] = f[k] /\ g[k - 1] = f[k - 1]
        BY <2>3, <3>2, <4>1
      <4>3. f[k] = WriteByte(f[k - 1], i + k - 1, data[k])
        BY <2>1, <3>2, <4>1
      <4>4. QED
        BY <3>2, <4>2, <4>3
    <3>3. CASE k = 0
      <4>1. k \in 0 .. l /\ k # l + 1
        BY <2>4, <3>3
      <4>2. g[k] = f[k] /\ f[k] = m
        BY <2>1, <2>3, <3>3, <4>1
      <4>3. QED
        BY <3>3, <4>2
    <3>4. QED
      BY <3>1, <3>2, <3>3
  <2>6. Solves(g, l + 1)
    <3>1. g = [k \in 0 .. l + 1 |-> g[k]]
      BY <2>3
    <3>2. QED
      BY <2>5, <3>1
  <2>7. QED
    BY <2>4, <2>6
<1>3. S = Nat
  <2> HIDE DEF Solves
  <2>1. S \in SUBSET Nat
    OBVIOUS
  <2> HIDE DEF S
  <2>2. QED
    BY <1>1, <1>2, <2>1, Induction
<1>4. QED
  BY <1>3 DEF Rounds

\* WriteBytes puts its bytes where they belong, whatever their number.
LEMMA BytesWritten ==
  ASSUME NEW m, WellFormed(m), NEW i \in Nat, NEW data, Len(data) \in Nat,
         \A k \in 1 .. Len(data) : data[k] \in Byte
  PROVE  Puts(m, WriteBytes(m, i, data), i, data, Len(data))
<1> DEFINE n == Len(data)
           after == CHOOSE f : f = [k \in 0 .. n |-> IF k = 0 THEN m
                                 ELSE WriteByte(f[k - 1], i + k - 1, data[k])]
           S == {l \in Nat : l <= n => Puts(m, after[l], i, data, l)}
<1>1. WriteBytes(m, i, data) = after[n]
  BY DEF WriteBytes
<1>2. after = [k \in 0 .. n |-> IF k = 0 THEN m
                 ELSE WriteByte(after[k - 1], i + k - 1, data[k])]
  <2>1. \E f : Rounds(f, m, i, data, n)
    BY RoundsDefined
  <2>2. QED
    BY <2>1, Zenon DEF Rounds
<1> HIDE DEF after
<1>3. 0 \in S
  BY <1>2, PutsFew
<1>4. ASSUME NEW l \in S
      PROVE  l + 1 \in S
  <2>1. SUFFICES ASSUME l + 1 <= n
                 PROVE  Puts(m, after[l + 1], i, data, l + 1)
    OBVIOUS
  <2>2. l \in Nat /\ l <= n /\ l + 1 \in 0 .. n /\ l + 1 # 0 /\ l + 1 - 1 = l
        /\ i + (l + 1) - 1 = i + l /\ i + l \in Nat /\ l + 1 \in 1 .. n
    BY <2>1
  <2>3. Puts(m, after[l], i, data, l)
    BY <2>2
  <2>4. after[l + 1] = WriteByte(after[l], i + l, data[l + 1])
    BY <1>2, <2>2
  <2>5. PICK more : more = <<data[l + 1]>>
    OBVIOUS
  <2>6. more[1] = data[l + 1] /\ data[l + 1] \in Byte
    BY <2>2, <2>5
  <2>7. WellFormed(after[l])
    BY <2>3 DEF Puts
  <2>8. Puts(after[l], after[l + 1], i + l, more, 1)
    BY <2>2, <2>4, <2>6, <2>7, PutsFew
  <2>9. \A k \in 1 .. 1 : data[l + k] = more[k]
    BY <2>6
  <2>10. QED
    BY <2>2, <2>3, <2>8, <2>9, PutsAfter
<1>5. S = Nat
  <2>1. S \in SUBSET Nat
    OBVIOUS
  <2> HIDE DEF S
  <2>2. QED
    BY <1>3, <1>4, <2>1, Induction
<1>6. QED
  BY <1>1, <1>5

\* Write32 at a multiple of 4 puts the four bytes of its value.
LEMMA WordPut ==
  ASSUME NEW m, WellFormed(m), NEW i \in Nat, i % 4 = 0, NEW value \in Nat,
         NEW data, \A k \in 1 .. 4 : data[k] = ByteOf(value, k - 1)
  PROVE  Puts(m, Write32(m, i, value), i, data, 4)
<1>1. PICK n : n = Write32(m, i, value)
  OBVIOUS
<1>2. PICK w \in Word : w = value % Weight[4]
  BY WordKeepsBytes
<1>3. \A k \in 0 .. 3 : ByteOf(w, k) = ByteOf(value, k)
  BY <1>2, WordKeepsBytes
<1>4. /\ WellFormed(n)
      /\ \A a \in Nat :
           Read32(n, a) = IF Entry(a) = Entry(i) /\ WordOffset(a) = WordOffset(i)
                          THEN w ELSE Read32(m, a)
  <2>1. /\ WellFormed(n)
        /\ \A a \in Nat :
             Read32(n, a) = IF Entry(a) = Entry(i) /\ WordOffset(a) = WordOffset(i)
                            THEN value % Weight[4] ELSE Read32(m, a)
    BY <1>1, WordWritten
  <2>2. QED
    BY <1>2, <2>1
<1>5. ASSUME NEW k \in 1 .. 4, NEW b, b = i + k - 1
      PROVE  /\ b \in Nat /\ b % 4 = k - 1
             /\ Entry(b) = Entry(i) /\ WordOffset(b) = WordOffset(i)
  <2>1. b \in Nat /\ b % 4 = k - 1
    BY <1>5
  <2>2. WordAddress(b) = i
    BY <1>5, <2>1 DEF WordAddress
  <2>3. QED
    BY <2>1, <2>2, WordOfAddress
<1>6. ASSUME NEW k \in 1 .. 4, NEW a \in Nat
      PROVE  (i + k - 1) % MemorySize = a % MemorySize
               <=> /\ Entry(a) = Entry(i) /\ WordOffset(a) = WordOffset(i)
                   /\ a % 4 = k - 1
  <2>1. PICK b : b = i + k - 1
    OBVIOUS
  <2>2. QED
    BY <1>5, <2>1, SameByte
<1>7. ASSUME NEW a \in Nat, NEW k \in 1 .. 4,
             (i + k - 1) % MemorySize = a % MemorySize
      PROVE  ReadByte(n, a) = data[k]
  <2>1. /\ Entry(a) = Entry(i) /\ WordOffset(a) = WordOffset(i)
        /\ a % 4 = k - 1 /\ k - 1 \in 0 .. 3
    BY <1>6, <1>7
  <2>2. ReadByte(n, a) = ByteOf(w, k - 1)
    BY <1>4, <2>1, ByteRead
  <2>3. QED
    BY <1>3, <2>1, <2>2
<1>8. ASSUME NEW a \in Nat,
             \A k \in 1 .. 4 : (i + k - 1) % MemorySize # a % MemorySize
      PROVE  ReadByte(n, a) = ReadByte(m, a)
  <2>1. PICK k \in 1 .. 4 : a % 4 = k - 1
    <3>1. (a % 4) + 1 \in 1 .. 4 /\ a % 4 = ((a % 4) + 1) - 1
      OBVIOUS
    <3>2. QED
      BY <3>1, Zenon
  <2>2. ~(Entry(a) = Entry(i) /\ WordOffset(a) = WordOffset(i))
    BY <1>6, <1>8, <2>1
  <2>3. Read32(n, a) = Read32(m, a)
    BY <1>4, <2>2
  <2>4. QED
    BY <1>4, <2>3, ByteRead
<1>9. Puts(m, n, i, data, 4)
  BY <1>4, <1>7, <1>8 DEF Puts
<1>10. QED
  BY <1>1, <1>9

\* The upper half of a double word.
LEMMA UpperHalf ==
  ASSUME NEW v \in Nat
  PROVE  /\ v \div Weight[4] \in Nat
         /\ \A k \in 0 .. 4 : ByteOf(v \div Weight[4], k) = ByteOf(v, k + 4)
<1>1. PICK h \in Nat :
        /\ v = Compose(ByteOf(v, 0), ByteOf(v, 1), ByteOf(v, 2), ByteOf(v, 3), h)
        /\ h = v \div Weight[4]
  BY Decomposed
<1>2. PICK d0 \in Byte, d1 \in Byte, d2 \in Byte, d3 \in Byte :
        /\ d0 = ByteOf(v, 0) /\ d1 = ByteOf(v, 1)
        /\ d2 = ByteOf(v, 2) /\ d3 = ByteOf(v, 3)
  <2>1. /\ ByteOf(v, 0) \in Byte /\ ByteOf(v, 1) \in Byte
        /\ ByteOf(v, 2) \in Byte /\ ByteOf(v, 3) \in Byte
    BY ByteStep
  <2>2. QED
    BY <2>1, Zenon
<1>3. \A k \in 0 .. 4 : ByteOf(v, k + 4) = ByteOf(h, k)
  <2>1. v = Compose(d0, d1, d2, d3, h)
    BY <1>1, <1>2
  <2>2. UpperBytes(v, h)
    BY <2>1, Composed
  <2>3. QED
    BY <2>2 DEF UpperBytes
<1>4. QED
  BY <1>1, <1>3

\* Write64 at a multiple of 8 puts the eight bytes of its value.
LEMMA DoublePut ==
  ASSUME NEW m, WellFormed(m), NEW i \in Nat, i % 8 = 0, NEW value \in Nat
  PROVE  Puts(m, Write64(m, i, value), i, BytesOf(value, 8), 8)
<1> DEFINE data == BytesOf(value, 8)
<1>1. /\ \A k \in 1 .. 4 : data[k] = ByteOf(value, k - 1)
      /\ \A k \in 1 .. 4 : data[4 + k] = ByteOf(value, 4 + k - 1)
  BY DEF BytesOf
<1> HIDE DEF data
<1>2. PICK upper \in Nat : upper = value \div Weight[4]
  BY UpperHalf
<1>3. PICK more : more = [k \in 1 .. 4 |-> ByteOf(upper, k - 1)]
  OBVIOUS
<1>4. \A k \in 1 .. 4 : data[4 + k] = more[k]
  <2>1. ASSUME NEW k \in 1 .. 4
        PROVE  data[4 + k] = more[k]
    <3>1. k - 1 \in 0 .. 4 /\ (k - 1) + 4 = 4 + k - 1
      OBVIOUS
    <3>2. ByteOf(upper, k - 1) = ByteOf(value, (k - 1) + 4)
      BY <1>2, <3>1, UpperHalf
    <3>3. QED
      BY <1>1, <1>3, <3>1, <3>2
  <2>2. QED
    BY <2>1
<1>5. i % 4 = 0 /\ i + 4 \in Nat /\ (i + 4) % 4 = 0
  OBVIOUS
<1>6. PICK n : n = Write32(m, i, value)
  OBVIOUS
<1>7. Puts(m, n, i, data, 4) /\ WellFormed(n)
  BY <1>1, <1>5, <1>6, WordPut DEF Puts
<1>8. Puts(n, Write32(n, i + 4, upper), i + 4, more, 4)
  BY <1>3, <1>5, <1>7, WordPut
<1>9. Write64(m, i, value) = Write32(n, i + 4, upper)
  BY <1>2, <1>6 DEF Write64
<1>10. 4 \in Nat /\ 4 + 4 = 8
  OBVIOUS
<1>11. Puts(m, Write64(m, i, value), i, data, 4 + 4)
  BY <1>4, <1>7, <1>8, <1>9, <1>10, PutsAfter
<1>12. QED
  BY <1>10, <1>11 DEF data

-----------------------------------------------------------------------------
(* The value of some bytes.                                                *)

\* One more byte of a value.
LEMMA ByteMore ==
  ASSUME NEW b \in Nat \ {0}, NEW w \in Nat \ {0}, NEW v \in Nat
  PROVE  /\ (v % w) + ((v \div w) % b) * w \in Nat
         /\ v % (b * w) = (v % w) + ((v \div w) % b) * w
<1>1. PICK q \in Nat, r \in 0 .. w - 1 : v = q * w + r /\ q = v \div w /\ r = v % w
  OBVIOUS
<1>2. PICK p \in Nat, s \in 0 .. b - 1 : q = p * b + s /\ s = q % b
  <2>1. /\ q \div b \in Nat /\ q % b \in 0 .. b - 1
        /\ q = b * (q \div b) + (q % b)
    OBVIOUS
  <2>2. b * (q \div b) = (q \div b) * b
    BY <2>1
  <2>3. QED
    BY <2>1, <2>2
<1>3. PICK x \in Nat : x = s * w
  OBVIOUS
<1>4. PICK y \in Nat \ {0} : y = b * w
  OBVIOUS
<1>5. x + r < y
  <2>1. s + 1 <= b
    BY <1>2
  <2>2. (s + 1) * w <= b * w
    BY <2>1
  <2>3. (s + 1) * w = s * w + w
    BY <1>2
  <2>4. QED
    BY <1>1, <1>3, <1>4, <2>2, <2>3
<1>6. v = p * y + (x + r)
  <2>1. q * w = p * (b * w) + s * w
    BY <1>2
  <2>2. QED
    BY <1>1, <1>3, <1>4, <2>1
<1>7. v % y = x + r
  <2>1. PICK t \in 0 .. y - 1 : t = x + r
    BY <1>1, <1>5
  <2>2. v = p * y + t
    BY <1>6, <2>1
  <2>3. v % y = t
    BY <2>2
  <2>4. QED
    BY <2>1, <2>3
<1>8. (v % w) + ((v \div w) % b) * w = r + x
  BY <1>1, <1>2, <1>3
<1>9. r + x \in Nat /\ r + x = x + r
  BY <1>1
<1>10. QED
  BY <1>4, <1>7, <1>8, <1>9

\* What one more byte counts.
LEMMA WeightStep ==
  ASSUME NEW k \in 0 .. 7
  PROVE  Weight[k + 1] = ByteSize * Weight[k]
<1>1. k = 0 \/ k = 1 \/ k = 2 \/ k = 3 \/ k = 4 \/ k = 5 \/ k = 6 \/ k = 7
  OBVIOUS
<1>2. QED
  BY <1>1, Weights

\* The sums f[k] of the first k bytes.
Sums(f, data, n) ==
  f = [k \in 0 .. n |-> IF k = 0 THEN 0 ELSE f[k - 1] + data[k] * Weight[k - 1]]

LEMMA SumsDefined ==
  ASSUME NEW data, NEW n \in Nat
  PROVE  \E f : Sums(f, data, n)
<1> DEFINE Solves(f, l) ==
             f = [k \in 0 .. l |-> IF k = 0 THEN 0
                                   ELSE f[k - 1] + data[k] * Weight[k - 1]]
           S == {l \in Nat : \E f : Solves(f, l)}
<1>1. 0 \in S
  <2>1. PICK f : f = [k \in 0 .. 0 |-> 0]
    OBVIOUS
  <2>2. \A k \in 0 .. 0 : k = 0
    OBVIOUS
  <2>3. Solves(f, 0)
    BY <2>1, <2>2
  <2>4. QED
    BY <2>3
<1>2. ASSUME NEW l \in S
      PROVE  l + 1 \in S
  <2>1. PICK f : Solves(f, l)
    OBVIOUS
  <2>2. PICK x : x = f[l] + data[l + 1] * Weight[l]
    OBVIOUS
  <2>3. PICK g : g = [k \in 0 .. l + 1 |-> IF k = l + 1 THEN x ELSE f[k]]
    OBVIOUS
  <2>4. l \in Nat /\ l + 1 \in Nat
    OBVIOUS
  <2>5. ASSUME NEW k \in 0 .. l + 1
        PROVE  g[k] = IF k = 0 THEN 0 ELSE g[k - 1] + data[k] * Weight[k - 1]
    <3>1. CASE k = l + 1
      <4>1. g[k] = x /\ k - 1 = l /\ l \in 0 .. l + 1 /\ l # l + 1 /\ k # 0
        BY <2>3, <2>4, <3>1
      <4>2. g[k - 1] = f[l]
        BY <2>3, <4>1
      <4>3. QED
        BY <2>2, <3>1, <4>1, <4>2
    <3>2. CASE k # l + 1 /\ k # 0
      <4>1. k \in 0 .. l /\ k - 1 \in 0 .. l + 1 /\ k - 1 # l + 1
        BY <2>4, <3>2
      <4>2. g[k] = f[k] /\ g[k - 1] = f[k - 1]
        BY <2>3, <3>2, <4>1
      <4>3. f[k] = f[k - 1] + data[k] * Weight[k - 1]
        BY <2>1, <3>2, <4>1
      <4>4. QED
        BY <3>2, <4>2, <4>3
    <3>3. CASE k = 0
      <4>1. k \in 0 .. l /\ k # l + 1
        BY <2>4, <3>3
      <4>2. g[k] = f[k] /\ f[k] = 0
        BY <2>1, <2>3, <3>3, <4>1
      <4>3. QED
        BY <3>3, <4>2
    <3>4. QED
      BY <3>1, <3>2, <3>3
  <2>6. Solves(g, l + 1)
    <3>1. g = [k \in 0 .. l + 1 |-> g[k]]
      BY <2>3
    <3>2. QED
      BY <2>5, <3>1
  <2>7. QED
    BY <2>4, <2>6
<1>3. S = Nat
  <2> HIDE DEF Solves
  <2>1. S \in SUBSET Nat
    OBVIOUS
  <2> HIDE DEF S
  <2>2. QED
    BY <1>1, <1>2, <2>1, Induction
<1>4. QED
  BY <1>3 DEF Sums

\* The value of the lowest bytes of a number, however many they are.
LEMMA DataValue ==
  ASSUME NEW data, NEW v \in Nat, NEW n \in 0 .. 8, Len(data) = n,
         \A k \in 1 .. n : data[k] = ByteOf(v, k - 1)
  PROVE  ValueOf(data) = v % Weight[n]
<1> DEFINE sum == CHOOSE f : f = [k \in 0 .. n |-> IF k = 0 THEN 0
                                    ELSE f[k - 1] + data[k] * Weight[k - 1]]
           S == {l \in Nat : l <= n => sum[l] = v % Weight[l]}
<1>1. ValueOf(data) = sum[n]
  BY DEF ValueOf
<1>2. sum = [k \in 0 .. n |-> IF k = 0 THEN 0 ELSE sum[k - 1] + data[k] * Weight[k - 1]]
  <2>1. \E f : Sums(f, data, n)
    <3>1. n \in Nat
      OBVIOUS
    <3>2. QED
      BY <3>1, SumsDefined
  <2>2. QED
    BY <2>1, Zenon DEF Sums
<1> HIDE DEF sum
<1>3. 0 \in S
  <2>1. sum[0] = 0 /\ Weight[0] = 1
    BY <1>2, Weights
  <2>2. v % 1 = 0
    OBVIOUS
  <2>3. QED
    BY <2>1, <2>2
<1>4. ASSUME NEW l \in S
      PROVE  l + 1 \in S
  <2>1. SUFFICES ASSUME l + 1 <= n
                 PROVE  sum[l + 1] = v % Weight[l + 1]
    OBVIOUS
  <2>2. l \in 0 .. 7 /\ l <= n /\ l + 1 \in 0 .. n /\ l + 1 # 0 /\ l + 1 - 1 = l
        /\ l + 1 \in 1 .. n
    BY <2>1
  <2>3. sum[l] = v % Weight[l]
    BY <2>2
  <2>4. sum[l + 1] = sum[l] + ByteOf(v, l) * Weight[l]
    BY <1>2, <2>2
  <2>5. PICK b \in Nat \ {0}, w \in Nat \ {0} : b = ByteSize /\ w = Weight[l]
    <3>1. l \in 0 .. 8
      BY <2>2
    <3>2. Weight[l] \in Nat \ {0}
      BY <3>1, Weights
    <3>3. QED
      BY <3>2, MemoryAssumption
  <2>6. Weight[l + 1] = b * w
    <3>1. Weight[l + 1] = ByteSize * Weight[l]
      BY <2>2, WeightStep
    <3>2. QED
      BY <2>5, <3>1
  <2>7. v % (b * w) = (v % w) + ((v \div w) % b) * w
    BY ByteMore
  <2>8. QED
    BY <2>3, <2>4, <2>5, <2>6, <2>7 DEF ByteOf
<1>5. S = Nat
  <2>1. S \in SUBSET Nat
    OBVIOUS
  <2> HIDE DEF S
  <2>2. QED
    BY <1>3, <1>4, <2>1, Induction
<1>6. QED
  BY <1>1, <1>5

-----------------------------------------------------------------------------
(* Reads of several bytes.                                                 *)

\* A word read at a multiple of 4 has the bytes there.
LEMMA WordBytes ==
  ASSUME NEW m, WellFormed(m), NEW i \in Nat, i % 4 = 0, NEW k \in 0 .. 3
  PROVE  ReadByte(m, i + k) = ByteOf(Read32(m, i), k)
<1>1. (i + k) % 4 = k
  OBVIOUS
<1>2. WordAddress(i + k) = i
  BY <1>1 DEF WordAddress
<1>3. QED
  BY <1>1, <1>2 DEF ReadByte

\* A double word has the values of two words.
LEMMA TwoWords == Weight[8] = Weight[4] * Weight[4]
<1>1. PICK w \in Nat \ {0}, b \in Nat : w = Weight[4] /\ b = ByteSize
  BY MemoryAssumption, Weights
<1>2. Weight[8] = b * (b * (b * (b * w)))
  BY <1>1, Weights
<1>3. w = b * (b * (b * (b * 1)))
  BY <1>1, Weights
<1>4. PICK c \in Nat : c = b * (b * (b * b))
  OBVIOUS
<1>5. w = c
  BY <1>3, <1>4
<1>6. b * (b * (b * (b * w))) = (b * (b * (b * b))) * w
  OBVIOUS
<1>7. QED
  BY <1>1, <1>2, <1>4, <1>5, <1>6

\* So has a double word read at a multiple of 8.
LEMMA DoubleBytes ==
  ASSUME NEW m, WellFormed(m), NEW i \in Nat, i % 8 = 0
  PROVE  /\ Read64(m, i) \in Nat
         /\ Read64(m, i) % Weight[8] = Read64(m, i)
         /\ \A k \in 0 .. 7 : ReadByte(m, i + k) = ByteOf(Read64(m, i), k)
<1>1. PICK w \in Nat \ {0} : w = Weight[4]
  BY Weights
<1>2. PICK low \in 0 .. w - 1, high \in 0 .. w - 1 :
        low = Read32(m, i) /\ high = Read32(m, i + 4)
  <2>1. Read32(m, i) \in Word /\ Read32(m, i + 4) \in Word
    BY WordRead
  <2>2. QED
    BY <1>1, <2>1 DEF Word
<1>3. PICK v \in Nat : v = Read64(m, i) /\ v = low + high * w
  BY <1>1, <1>2 DEF Read64
<1>4. v % w = low /\ v \div w = high
  BY <1>2, <1>3
<1>5. Weight[8] = w * w
  BY <1>1, TwoWords
<1>6. v < w * w
  <2>1. (high + 1) * w <= w * w
    BY <1>2
  <2>2. (high + 1) * w = high * w + w
    BY <1>2
  <2>3. QED
    BY <1>2, <1>3, <2>1, <2>2
<1>7. v % Weight[8] = v
  <2>1. PICK x \in Nat \ {0} : x = w * w
    OBVIOUS
  <2>2. QED
    BY <1>5, <1>6, <2>1
<1>8. ASSUME NEW k \in 0 .. 7
      PROVE  ReadByte(m, i + k) = ByteOf(v, k)
  <2>1. CASE k \in 0 .. 3
    <3>1. i % 4 = 0
      OBVIOUS
    <3>2. ReadByte(m, i + k) = ByteOf(low, k)
      BY <1>2, <2>1, <3>1, WordBytes
    <3>3. ByteOf(v % Weight[4], k) = ByteOf(v, k)
      BY <2>1, WordKeepsBytes
    <3>4. QED
      BY <1>1, <1>4, <3>2, <3>3
  <2>2. CASE k \notin 0 .. 3
    <3>1. PICK j \in 0 .. 3 : k = j + 4
      <4>1. k - 4 \in 0 .. 3 /\ k = (k - 4) + 4
        BY <2>2
      <4>2. QED
        BY <4>1
    <3>2. i + 4 \in Nat /\ (i + 4) % 4 = 0 /\ (i + 4) + j = i + k
      BY <3>1
    <3>3. ReadByte(m, (i + 4) + j) = ByteOf(high, j)
      BY <1>2, <3>2, WordBytes
    <3>4. j \in 0 .. 4
      OBVIOUS
    <3>5. ByteOf(v \div Weight[4], j) = ByteOf(v, j + 4)
      BY <3>4, UpperHalf
    <3>6. QED
      BY <1>1, <1>4, <3>1, <3>2, <3>3, <3>5
  <2>3. QED
    BY <2>1, <2>2
<1>9. QED
  BY <1>3, <1>7, <1>8

\* What it reads is the value of those bytes.
LEMMA DoubleValue ==
  ASSUME NEW m, WellFormed(m), NEW i \in Nat, i % 8 = 0
  PROVE  ValueOf(ReadBytes(m, i, 8)) = Read64(m, i)
<1>1. PICK v \in Nat : v = Read64(m, i) /\ v % Weight[8] = v
  BY DoubleBytes
<1>2. PICK data : data = ReadBytes(m, i, 8)
  OBVIOUS
<1>3. ASSUME NEW k \in 1 .. 8
      PROVE  data[k] = ByteOf(v, k - 1)
  <2>1. PICK j \in 0 .. 7 : j = k - 1
    OBVIOUS
  <2>2. data[k] = ReadByte(m, i + j)
    <3>1. data[k] = ReadByte(m, i + k - 1) /\ i + k - 1 = i + j
      BY <1>2, <2>1 DEF ReadBytes
    <3>2. QED
      BY <3>1
  <2>3. QED
    BY <1>1, <2>1, <2>2, DoubleBytes
<1>4. Len(data) = 8
  BY <1>2 DEF ReadBytes
<1>5. ValueOf(data) = v % Weight[8]
  BY <1>3, <1>4, DataValue
<1>6. QED
  BY <1>1, <1>2, <1>5

\* It changes only if one of them does.
LEMMA DoubleKept ==
  ASSUME NEW m, WellFormed(m), NEW n, WellFormed(n), NEW i \in Nat, i % 8 = 0,
         \A k \in 0 .. 7 : ReadByte(n, i + k) = ReadByte(m, i + k)
  PROVE  Read64(n, i) = Read64(m, i)
<1>1. ASSUME NEW k \in 1 .. 8
      PROVE  ReadByte(n, i + k - 1) = ReadByte(m, i + k - 1)
  <2>1. k - 1 \in 0 .. 7 /\ i + (k - 1) = i + k - 1
    OBVIOUS
  <2>2. QED
    BY <2>1
<1>2. ReadBytes(n, i, 8) = ReadBytes(m, i, 8)
  BY <1>1 DEF ReadBytes
<1>3. QED
  BY <1>2, DoubleValue

-----------------------------------------------------------------------------
(* Halves of a word.                                                       *)

\* A multiple does not change the rest.
LEMMA Multiple ==
  ASSUME NEW b \in Nat \ {0}, NEW y \in Nat, NEW x \in Nat
  PROVE  (y * b + x) % b = x % b
<1>1. PICK q \in Nat, r \in 0 .. b - 1 : x = q * b + r /\ r = x % b
  <2>1. x \div b \in Nat /\ x % b \in 0 .. b - 1 /\ x = (x \div b) * b + (x % b)
    OBVIOUS
  <2>2. QED
    BY <2>1
<1>2. PICK z \in Nat : z = y + q
  OBVIOUS
<1>3. y * b + x = z * b + r
  BY <1>1, <1>2
<1>4. (z * b + r) % b = r
  OBVIOUS
<1>5. QED
  BY <1>1, <1>3, <1>4

\* The bytes of the lower and of the upper half.
LEMMA HalfBytes ==
  ASSUME NEW v \in Nat, NEW k \in 0 .. 1
  PROVE  /\ ByteOf(v % Weight[2], k) = ByteOf(v, k)
         /\ ByteOf(v \div Weight[2], k) = ByteOf(v, k + 2)
         /\ v % Weight[2] \in Nat /\ v \div Weight[2] \in Nat
<1>1. PICK b \in Nat \ {0} : b = ByteSize
  BY MemoryAssumption
<1>2. PICK w \in Nat \ {0} : w = Weight[2]
  BY Weights
<1>3. Weight[0] = 1 /\ Weight[1] = b /\ w = b * b
  BY <1>1, <1>2, Weights
<1>4. PICK x \in 0 .. w - 1, h \in Nat : x = v % w /\ h = v \div w /\ v = h * w + x
  <2>1. v % w \in 0 .. w - 1 /\ v \div w \in Nat /\ v = (v \div w) * w + (v % w)
    OBVIOUS
  <2>2. QED
    BY <2>1
<1>5. ByteOf(x, k) = ByteOf(v, k)
  <2>1. CASE k = 0
    <3>1. ByteOf(v, 0) = v % b /\ ByteOf(x, 0) = x % b
      BY <1>1, <1>3, ByteStep
    <3>2. PICK y \in Nat : y = h * b
      OBVIOUS
    <3>3. v = y * b + x
      BY <1>3, <1>4, <3>2
    <3>4. (y * b + x) % b = x % b
      <4>1. x \in Nat
        OBVIOUS
      <4>2. QED
        BY <4>1, Multiple
    <3>5. QED
      BY <2>1, <3>1, <3>3, <3>4
  <2>2. CASE k = 1
    <3>1. ByteOf(v, 1) = (v \div b) % b /\ ByteOf(x, 1) = (x \div b) % b
      BY <1>1, <1>3 DEF ByteOf
    <3>2. PICK y \in Nat : y = h * b
      OBVIOUS
    <3>3. v = y * b + x
      BY <1>3, <1>4, <3>2
    <3>4. (y * b + x) \div b = y + (x \div b)
      OBVIOUS
    <3>5. PICK q \in Nat : q = x \div b
      OBVIOUS
    <3>6. (h * b + q) % b = q % b
      BY Multiple
    <3>7. QED
      BY <2>2, <3>1, <3>2, <3>3, <3>4, <3>5, <3>6
  <2>3. QED
    BY <2>1, <2>2
<1>6. ByteOf(h, k) = ByteOf(v, k + 2)
  <2>1. PICK p \in Nat \ {0} : p = Weight[k]
    <3>1. k \in 0 .. 8
      OBVIOUS
    <3>2. QED
      BY <3>1, Weights
  <2>2. Weight[k + 2] = w * p
    <3>1. Weight[k + 1] = b * p /\ Weight[(k + 1) + 1] = b * Weight[k + 1]
      <4>1. k \in 0 .. 7 /\ k + 1 \in 0 .. 7
        OBVIOUS
      <4>2. QED
        BY <1>1, <2>1, <4>1, WeightStep
    <3>2. (k + 1) + 1 = k + 2
      OBVIOUS
    <3>3. b * (b * p) = (b * b) * p
      OBVIOUS
    <3>4. QED
      BY <1>3, <3>1, <3>2, <3>3
  <2>3. v \div (w * p) = (v \div w) \div p
    BY DivideTwice
  <2>4. QED
    BY <1>4, <2>1, <2>2, <2>3 DEF ByteOf
<1>7. QED
  BY <1>2, <1>4, <1>5, <1>6

\* A half is at an even address; its two bytes belong to one word.
LEMMA HalfPlaces ==
  ASSUME NEW i \in Nat, i % 2 = 0, NEW k \in 0 .. 1
  PROVE  /\ i % 4 \in {0, 2}
         /\ (i + k) % 4 = (i % 4) + k
         /\ WordAddress(i + k) = WordAddress(i)
<1>1. i % 4 \in {0, 2} /\ (i + k) % 4 = (i % 4) + k
  OBVIOUS
<1>2. QED
  BY <1>1 DEF WordAddress

\* Read16 is the value of its two bytes.
LEMMA HalfRead ==
  ASSUME NEW m, WellFormed(m), NEW i \in Nat, i % 2 = 0
  PROVE  Read16(m, i) = ValueOf(ReadBytes(m, i, 2))
<1>1. PICK w \in Nat : w = Read32(m, WordAddress(i))
  BY WordRead
<1>2. PICK j \in {0, 2} : j = i % 4
  BY HalfPlaces
<1>3. PICK h \in Nat : h = w \div Weight[j]
  <2>1. Weight[j] \in Nat \ {0}
    BY Weights
  <2>2. QED
    BY <2>1
<1>4. ASSUME NEW k \in 0 .. 1
      PROVE  ByteOf(h, k) = ReadByte(m, i + k)
  <2>1. ReadByte(m, i + k) = ByteOf(w, j + k)
    BY <1>1, <1>2, HalfPlaces DEF ReadByte
  <2>2. CASE j = 0
    <3>1. h = w
      BY <1>3, <2>2, Weights
    <3>2. j + k = k
      BY <2>2
    <3>3. QED
      BY <2>1, <3>1, <3>2
  <2>3. CASE j = 2
    <3>1. j + k = k + 2
      BY <2>3
    <3>2. QED
      BY <1>3, <2>1, <2>3, <3>1, HalfBytes
  <2>4. QED
    BY <2>2, <2>3
<1>5. PICK data : data = ReadBytes(m, i, 2)
  OBVIOUS
<1>6. ASSUME NEW k \in 1 .. 2
      PROVE  data[k] = ByteOf(h, k - 1)
  <2>1. PICK l \in 0 .. 1 : l = k - 1
    OBVIOUS
  <2>2. data[k] = ReadByte(m, i + k - 1) /\ i + k - 1 = i + l
    BY <1>5, <2>1 DEF ReadBytes
  <2>3. QED
    BY <1>4, <2>1, <2>2
<1>7. Len(data) = 2
  BY <1>5 DEF ReadBytes
<1>8. ValueOf(data) = h % Weight[2]
  BY <1>6, <1>7, DataValue
<1>9. QED
  BY <1>1, <1>2, <1>3, <1>5, <1>8 DEF Read16

\* Write16 puts the two bytes of its value, and leaves the others alone.
LEMMA HalfWritten ==
  ASSUME NEW m, WellFormed(m), NEW i \in Nat, i % 2 = 0, NEW x \in 0 .. Weight[2] - 1
  PROVE  /\ WellFormed(Write16(m, i, x))
         /\ \A k \in 0 .. 1 : ReadByte(Write16(m, i, x), i + k) = ByteOf(x, k)
         /\ \A a \in Nat : /\ a % MemorySize # i % MemorySize
                           /\ a % MemorySize # (i + 1) % MemorySize
                           => ReadByte(Write16(m, i, x), a) = ReadByte(m, a)
<1>1. PICK v \in Nat \ {0} : v = Weight[2] /\ Weight[4] = v * v
  <2>1. PICK b \in Nat \ {0} : b = ByteSize
    BY MemoryAssumption
  <2>2. Weight[2] = b * b /\ Weight[4] = b * (b * Weight[2])
    BY <2>1, Weights
  <2>3. PICK c \in Nat \ {0} : c = b * b
    OBVIOUS
  <2>4. b * (b * c) = (b * b) * c
    OBVIOUS
  <2>5. QED
    BY <2>2, <2>3, <2>4
<1>2. PICK w \in Nat : w = Read32(m, WordAddress(i)) /\ w < v * v
  <2>1. WordAddress(i) \in Nat
    BY WordOfAddress
  <2>2. Read32(m, WordAddress(i)) \in Word
    BY <2>1, WordRead
  <2>3. QED
    BY <1>1, <2>2 DEF Word
<1>3. PICK low \in 0 .. v - 1, high \in 0 .. v - 1 :
        low = w % v /\ high = w \div v /\ w = high * v + low
  <2>1. w % v \in 0 .. v - 1 /\ w \div v \in Nat /\ w = (w \div v) * v + (w % v)
    OBVIOUS
  <2>2. PICK h \in Nat : h = w \div v
    BY <2>1
  <2>3. h < v
    <3>1. SUFFICES ASSUME h >= v PROVE FALSE
      BY <2>2
    <3>2. h * v >= v * v
      BY <3>1
    <3>3. QED
      BY <1>2, <2>1, <2>2, <3>2
  <2>4. QED
    BY <2>1, <2>2, <2>3
<1>4. PICK j \in {0, 2} : j = i % 4
  BY HalfPlaces
<1>5. PICK l \in 0 .. v - 1, h \in 0 .. v - 1 :
        l = (IF j = 2 THEN low ELSE x) /\ h = (IF j = 2 THEN x ELSE high)
  BY <1>1
<1>6. PICK new \in Nat : new = h * v + l
  BY <1>5
<1>7. new < Weight[4]
  <2>1. (h + 1) * v <= v * v
    BY <1>5
  <2>2. (h + 1) * v = h * v + v
    BY <1>5
  <2>3. QED
    BY <1>1, <1>5, <1>6, <2>1, <2>2
<1>8. new % v = l /\ new \div v = h
  BY <1>5, <1>6
<1>9. Write16(m, i, x) = Write32(m, WordAddress(i), new)
  <2>1. CASE j = 2
    <3>1. low + x * v = new
      BY <1>5, <1>6, <2>1
    <3>2. QED
      BY <1>1, <1>2, <1>3, <1>4, <2>1, <3>1 DEF Write16
  <2>2. CASE j = 0
    <3>1. w - low + x = new
      <4>1. l = x /\ h = high
        BY <1>5, <2>2
      <4>2. PICK y \in Nat : y = high * v
        OBVIOUS
      <4>3. w = y + low /\ new = y + x
        BY <1>3, <1>6, <4>1, <4>2
      <4>4. x \in Nat /\ low \in Nat
        BY <1>1
      <4>5. QED
        BY <4>2, <4>3, <4>4
    <3>2. QED
      BY <1>1, <1>2, <1>3, <1>4, <2>2, <3>1 DEF Write16
  <2>3. QED
    BY <2>1, <2>2
<1>10. PICK n : n = Write32(m, WordAddress(i), new)
  OBVIOUS
<1>11. /\ WellFormed(n)
       /\ \A a \in Nat :
            Read32(n, a) = IF Entry(a) = Entry(i) /\ WordOffset(a) = WordOffset(i)
                           THEN new ELSE Read32(m, a)
  <2>1. WordAddress(i) \in Nat /\ Entry(WordAddress(i)) = Entry(i)
        /\ WordOffset(WordAddress(i)) = WordOffset(i)
    BY WordOfAddress
  <2>2. new % Weight[4] = new
    BY <1>1, <1>7
  <2>3. /\ WellFormed(n)
        /\ \A a \in Nat :
             Read32(n, a) = IF /\ Entry(a) = Entry(WordAddress(i))
                               /\ WordOffset(a) = WordOffset(WordAddress(i))
                            THEN new % Weight[4] ELSE Read32(m, a)
    <3>1. PICK e \in Nat : e = WordAddress(i)
      BY <2>1
    <3>2. /\ WellFormed(Write32(m, e, new))
          /\ \A a \in Nat :
               Read32(Write32(m, e, new), a) =
                 IF Entry(a) = Entry(e) /\ WordOffset(a) = WordOffset(e)
                 THEN new % Weight[4] ELSE Read32(m, a)
      BY WordWritten
    <3>3. QED
      BY <1>10, <3>1, <3>2
  <2>4. QED
    BY <2>1, <2>2, <2>3
<1>12. ASSUME NEW k \in 0 .. 1
       PROVE  ByteOf(new, k) = ByteOf(l, k) /\ ByteOf(new, k + 2) = ByteOf(h, k)
  BY <1>1, <1>8, HalfBytes
<1>13. ASSUME NEW k \in 0 .. 1
       PROVE  ByteOf(w, k) = ByteOf(low, k) /\ ByteOf(w, k + 2) = ByteOf(high, k)
  BY <1>1, <1>3, HalfBytes
<1>14. ASSUME NEW k \in 0 .. 1
       PROVE  ReadByte(n, i + k) = ByteOf(x, k)
  <2>1. ReadByte(n, i + k) = ByteOf(Read32(n, WordAddress(i)), j + k)
    BY <1>4, HalfPlaces DEF ReadByte
  <2>2. Read32(n, WordAddress(i)) = new
    BY <1>11, WordOfAddress
  <2>3. CASE j = 2
    <3>1. j + k = k + 2
      BY <2>3
    <3>2. QED
      BY <1>5, <1>12, <2>1, <2>2, <2>3, <3>1
  <2>4. CASE j = 0
    <3>1. j + k = k
      BY <2>4
    <3>2. QED
      BY <1>5, <1>12, <2>1, <2>2, <2>4, <3>1
  <2>5. QED
    BY <2>3, <2>4
<1>15. ASSUME NEW a \in Nat, a % MemorySize # i % MemorySize,
              a % MemorySize # (i + 1) % MemorySize
       PROVE  ReadByte(n, a) = ReadByte(m, a)
  <2>1. ReadByte(n, a) = ByteOf(Read32(n, a), a % 4) /\ ReadByte(m, a) = ByteOf(Read32(m, a), a % 4)
    BY <1>11, ByteRead
  <2>2. CASE Entry(a) = Entry(i) /\ WordOffset(a) = WordOffset(i)
    <3>1. Read32(n, a) = new
      BY <1>11, <2>2
    <3>2. Read32(m, a) = w
      <4>1. Read32(m, a) = Read32(m, i)
        BY <2>2 DEF Read32
      <4>2. QED
        BY <1>2, <4>1, WordRead
    <3>3. a % 4 # i % 4
      BY <1>15, <2>2, SameByte
    <3>4. a % 4 # (i + 1) % 4
      <4>1. i + 1 \in Nat /\ WordAddress(i + 1) = WordAddress(i)
        BY HalfPlaces
      <4>2. Entry(i + 1) = Entry(i) /\ WordOffset(i + 1) = WordOffset(i)
        BY <4>1, WordOfAddress
      <4>3. QED
        BY <1>15, <2>2, <4>1, <4>2, SameByte
    <3>5. (i + 1) % 4 = j + 1
      BY <1>4, HalfPlaces
    <3>6. PICK p \in 0 .. 3 : p = a % 4
      OBVIOUS
    <3>7. p # j /\ p # j + 1
      BY <1>4, <3>3, <3>4, <3>5, <3>6
    <3>8. CASE j = 2
      <4>1. p \in 0 .. 1
        BY <3>7, <3>8
      <4>2. QED
        BY <1>5, <1>12, <1>13, <2>1, <3>1, <3>2, <3>6, <3>8, <4>1
    <3>9. CASE j = 0
      <4>1. PICK k \in 0 .. 1 : p = k + 2
        <5>1. p - 2 \in 0 .. 1 /\ p = (p - 2) + 2
          BY <3>7, <3>9
        <5>2. QED
          BY <5>1
      <4>2. QED
        BY <1>5, <1>12, <1>13, <2>1, <3>1, <3>2, <3>6, <3>9, <4>1
    <3>10. QED
      BY <3>8, <3>9
  <2>3. CASE ~(Entry(a) = Entry(i) /\ WordOffset(a) = WordOffset(i))
    BY <1>11, <2>1, <2>3
  <2>4. QED
    BY <2>2, <2>3
<1>16. QED
  BY <1>9, <1>10, <1>11, <1>14, <1>15

=============================================================================
