------------------------- MODULE MemoryAccessProofs -------------------------
(***************************************************************************)
(* Proofs for every page size, unit, width, address and page table: what   *)
(* loads and stores do, although they translate at most twice.             *)
(***************************************************************************)
EXTENDS MemoryAccess, TLAPS

-----------------------------------------------------------------------------
(* Quotients and remainders.                                               *)

LEMMA DivMod ==
  ASSUME NEW x \in Int, NEW n \in Nat \ {0}
  PROVE  /\ x \div n \in Int
         /\ x % n \in 0 .. n - 1
         /\ x = (x \div n) * n + (x % n)
OBVIOUS

LEMMA DivModUnique ==
  ASSUME NEW n \in Nat \ {0}, NEW x \in Int, NEW q \in Int,
         NEW r \in 0 .. n - 1, x = q * n + r
  PROVE  x \div n = q /\ x % n = r
OBVIOUS

LEMMA LessByOne ==
  ASSUME NEW a \in Int, NEW b \in Int, NEW n \in Nat, a < b
  PROVE  a * n + n <= b * n
OBVIOUS

\* A number that divides n divides what n divides.
LEMMA ModOfMod ==
  ASSUME NEW u \in Nat \ {0}, NEW n \in Nat \ {0}, n % u = 0, NEW x \in Int
  PROVE  (x % n) % u = x % u
<1>1. PICK q, r, a : q = x \div n /\ r = x % n /\ a = n \div u
  OBVIOUS
<1>2. q \in Int /\ r \in Int /\ x = q * n + r
  BY <1>1, DivMod
<1>3. PICK s, t : s = r \div u /\ t = r % u
  OBVIOUS
<1>4. a \in Int /\ n = a * u
  BY <1>1
<1>5. s \in Int /\ t \in 0 .. u - 1 /\ r = s * u + t
  BY <1>2, <1>3
<1>6. PICK k : k = q * a + s
  OBVIOUS
<1>7. k \in Int /\ x = k * u + t
  BY <1>2, <1>4, <1>5, <1>6
<1>8. x % u = t
  BY <1>5, <1>7, DivModUnique
<1>9. QED
  BY <1>1, <1>3, <1>8

\* What does not leave its unit does not leave its page.
LEMMA WithinMultiple ==
  ASSUME NEW u \in Nat \ {0}, NEW n \in Nat \ {0}, n % u = 0,
         NEW x \in Int, NEW i \in Nat, (x % u) + i < u
  PROVE  (x + i) \div n = x \div n /\ (x + i) % n = (x % n) + i
<1>1. PICK q, r : q = x \div n /\ r = x % n
  OBVIOUS
<1>2. q \in Int /\ r \in 0 .. n - 1 /\ x = q * n + r
  BY <1>1, DivMod
<1>4. PICK a, s, t : a = n \div u /\ s = r \div u /\ t = r % u
  OBVIOUS
<1>5. a \in Int /\ n = a * u
  BY <1>4
<1>6. s \in Int /\ t \in 0 .. u - 1 /\ r = s * u + t
  BY <1>2, <1>4
<1>7. s < a
  <2> SUFFICES ASSUME a <= s PROVE FALSE
    BY <1>5, <1>6
  <2>1. a * u <= s * u
    BY <1>5, <1>6
  <2>2. QED
    BY <1>2, <1>5, <1>6, <2>1
<1>8. s * u + u <= a * u
  BY <1>5, <1>6, <1>7, LessByOne
<1>9. t + i < u
  <2>1. PICK k : k = q * a + s
    OBVIOUS
  <2>2. k \in Int /\ x = k * u + t
    BY <1>2, <1>5, <1>6, <2>1
  <2>3. x % u = t
    BY <1>6, <2>2, DivModUnique
  <2>4. QED
    BY <2>3
<1>10. PICK su, y : su = s * u /\ y = x + i
  OBVIOUS
<1>11. su \in Int /\ su + u <= n /\ r = su + t
  BY <1>5, <1>6, <1>8, <1>10
<1>12. r + i \in 0 .. n - 1
  BY <1>2, <1>6, <1>9, <1>11
<1>13. y \in Int /\ y = q * n + (r + i)
  BY <1>2, <1>10
<1>14. y \div n = q /\ y % n = r + i
  BY <1>2, <1>12, <1>13, DivModUnique
<1>15. QED
  BY <1>1, <1>10, <1>14

-----------------------------------------------------------------------------
(* Sizes and translations.                                                 *)

\* The page tables map pages to pages: all that the arguments below need.
TablesOK ==
  /\ paged \in BOOLEAN
  /\ map \in [VirtualPage -> (0 .. Pages - 1) \cup {NotMapped}]

LEMMA Sizes ==
  /\ Unit \in Nat \ {0}
  /\ PageSize \in Nat \ {0}
  /\ PageSize % Unit = 0
  /\ Pages \in Nat \ {0}
  /\ \A w \in Widths : w \in Nat \ {0} /\ w <= Unit /\ Unit % w = 0
  /\ \A va \in Starts : va \in Nat /\ va < Size
BY SizeAssumption DEF Size

LEMMA SizeFacts ==
  /\ Size \in Nat \ {0}
  /\ PageSize <= Size
  /\ Unit <= PageSize
  /\ Size % Unit = 0
<1>1. Size \in Nat \ {0} /\ PageSize <= Size
  BY Sizes DEF Size
<1>2. PICK a : a = PageSize \div Unit
  OBVIOUS
<1>3. a \in Int /\ PageSize = a * Unit
  BY <1>2, Sizes
<1>4. a >= 1
  BY <1>3, Sizes
<1>5. Unit <= PageSize
  BY <1>3, <1>4, Sizes
<1>6. PICK b : b = Pages * a
  OBVIOUS
<1>7. b \in Int /\ Size = b * Unit + 0
  BY <1>3, <1>6, Sizes DEF Size
<1>8. 0 \in 0 .. Unit - 1
  BY Sizes
<1>9. Size % Unit = 0
  BY <1>1, <1>7, <1>8, Sizes, DivModUnique
<1>10. QED
  BY <1>1, <1>5, <1>9

\* The addresses of an access lie in the virtual pages.
LEMMA PageRange ==
  ASSUME NEW va \in Nat, va < Size + PageSize
  PROVE  PageOf(va) \in VirtualPage /\ va % PageSize \in 0 .. PageSize - 1
<1>1. PICK q, r : q = va \div PageSize /\ r = va % PageSize
  OBVIOUS
<1>2. q \in Nat /\ r \in 0 .. PageSize - 1 /\ va = q * PageSize + r
  BY <1>1, Sizes
<1>3. q * PageSize < Pages * PageSize + PageSize
  BY <1>2, Sizes DEF Size
<1>4. q <= Pages
  <2> SUFFICES ASSUME Pages < q PROVE FALSE
    BY <1>2, Sizes
  <2>1. Pages * PageSize + PageSize <= q * PageSize
    BY <1>2, Sizes, LessByOne
  <2>2. QED
    BY <1>2, <1>3, <2>1, Sizes
<1>5. QED
  BY <1>1, <1>2, <1>4, Sizes DEF PageOf, VirtualPage

\* Where a mapped byte lies.
LEMMA MappedPlace ==
  ASSUME TablesOK, NEW va \in Nat, va < Size + PageSize, paged, ~Faults(va)
  PROVE  /\ map[PageOf(va)] \in 0 .. Pages - 1
         /\ Translate(va) = map[PageOf(va)] * PageSize + (va % PageSize)
         /\ Translate(va) \in Physical
         /\ Translate(va) \div PageSize = map[PageOf(va)]
<1>1. map[PageOf(va)] \in 0 .. Pages - 1
  BY PageRange DEF Faults, TablesOK
<1>2. PICK m, r : m = map[PageOf(va)] /\ r = va % PageSize
  OBVIOUS
<1>3. m \in Nat /\ m < Pages /\ r \in 0 .. PageSize - 1
  BY <1>1, <1>2, PageRange, Sizes
<1>4. Translate(va) = m * PageSize + r
  BY <1>2 DEF Translate
<1>5. m * PageSize + PageSize <= Pages * PageSize
  BY <1>3, LessByOne, Sizes
<1>6. PICK mp, t : mp = m * PageSize /\ t = Translate(va)
  OBVIOUS
<1>7. mp \in Nat /\ mp + PageSize <= Size
  BY <1>3, <1>5, <1>6, Sizes DEF Size
<1>8. t \in 0 .. Size - 1
  BY <1>3, <1>4, <1>6, <1>7, SizeFacts, Sizes
<1>9. t \in Int /\ t = m * PageSize + r
  BY <1>4, <1>6, <1>8
<1>10. t \div PageSize = m
  BY <1>3, <1>9, Sizes, DivModUnique
<1>11. QED
  BY <1>1, <1>2, <1>4, <1>6, <1>8, <1>10 DEF Physical

\* Every translation is an address.
LEMMA TranslateNat ==
  ASSUME TablesOK, NEW va \in Nat, va < Size + PageSize
  PROVE  Translate(va) \in Nat
<1>1. CASE paged /\ ~Faults(va)
  <2>1. Translate(va) \in Physical
    BY <1>1, MappedPlace
  <2>2. QED
    BY <2>1, SizeFacts DEF Physical
<1>2. CASE ~(paged /\ ~Faults(va))
  BY <1>2 DEF Translate
<1>3. QED
  BY <1>1, <1>2

\* What does not leave its unit does not leave its page.
LEMMA WithinPage ==
  ASSUME NEW x \in Int, NEW i \in Nat, NEW y, y = x + i, (x % Unit) + i < Unit
  PROVE  y \div PageSize = x \div PageSize /\ y % PageSize = (x % PageSize) + i
<1>1. PICK u, n : u = Unit /\ n = PageSize
  OBVIOUS
<1>2. u \in Nat \ {0} /\ n \in Nat \ {0} /\ n % u = 0 /\ (x % u) + i < u
  BY <1>1, Sizes
<1>3. (x + i) \div n = x \div n /\ (x + i) % n = (x % n) + i
  BY <1>2, WithinMultiple
<1>4. QED
  BY <1>1, <1>3

\* The bytes of an access that stays in its unit are translated together.
LEMMA OneUnit ==
  ASSUME TablesOK, NEW va \in Nat, NEW i \in Nat, NEW y, y = va + i,
         y < Size + PageSize, (va % Unit) + i < Unit
  PROVE  /\ PageOf(y) = PageOf(va)
         /\ Faults(y) <=> Faults(va)
         /\ Translate(y) = Translate(va) + i
<1>1. /\ y \div PageSize = va \div PageSize
      /\ y % PageSize = (va % PageSize) + i
  BY WithinPage
<1>2. PageOf(y) = PageOf(va) /\ (Faults(y) <=> Faults(va))
  BY <1>1 DEF PageOf, Faults
<1>3. CASE paged /\ ~Faults(va)
  <2>1. PICK m, r : m = map[PageOf(va)] * PageSize /\ r = va % PageSize
    OBVIOUS
  <2>2. m \in Int /\ r \in Int
    <3>1. va < Size + PageSize
      BY Sizes, SizeFacts
    <3>2. map[PageOf(va)] \in 0 .. Pages - 1
      BY <1>3, <3>1, MappedPlace
    <3>3. QED
      BY <2>1, <3>2, Sizes
  <2>3. Translate(va) = m + r /\ Translate(y) = m + (r + i)
    BY <1>1, <1>2, <1>3, <2>1 DEF Translate
  <2>4. QED
    BY <1>2, <2>2, <2>3
<1>4. CASE ~(paged /\ ~Faults(va))
  BY <1>2, <1>4 DEF Translate
<1>5. QED
  BY <1>2, <1>3, <1>4

\* A translation keeps the place in the unit.
LEMMA TranslateResidue ==
  ASSUME TablesOK, NEW va \in Nat, va < Size + PageSize
  PROVE  Translate(va) % Unit = va % Unit
<1>1. CASE paged /\ ~Faults(va)
  <2>1. PICK m, r, t : m = map[PageOf(va)] /\ r = va % PageSize /\ t = Translate(va)
    OBVIOUS
  <2>2. m \in Int /\ r \in 0 .. PageSize - 1 /\ t \in Int /\ t = m * PageSize + r
    BY <1>1, <2>1, MappedPlace, PageRange, SizeFacts, Sizes DEF Physical
  <2>3. t % PageSize = r
    BY <2>2, Sizes, DivModUnique
  <2>4. r % Unit = t % Unit
    <3>1. (t % PageSize) % Unit = t % Unit
      BY <2>2, Sizes, ModOfMod
    <3>2. QED
      BY <2>3, <3>1
  <2>5. r % Unit = va % Unit
    BY <2>1, Sizes, ModOfMod
  <2>6. QED
    BY <2>1, <2>4, <2>5
<1>2. CASE ~(paged /\ ~Faults(va))
  BY <1>2 DEF Translate
<1>3. QED
  BY <1>1, <1>2

\* Wrapping at the end of memory keeps the place in the unit.
LEMMA WrapResidue ==
  ASSUME NEW a \in Nat
  PROVE  (a % Size) % Unit = a % Unit
<1>1. PICK u, n : u = Unit /\ n = Size
  OBVIOUS
<1>2. u \in Nat \ {0} /\ n \in Nat \ {0} /\ n % u = 0 /\ a \in Int
  BY <1>1, SizeFacts, Sizes
<1>3. (a % n) % u = a % u
  BY <1>2, ModOfMod
<1>4. QED
  BY <1>1, <1>3

-----------------------------------------------------------------------------
(* The halves of an access.                                                *)

\* GetAccessWidth ends the first half at the end of the unit.
LEMMA SplitAt ==
  ASSUME NEW a \in Nat, NEW w \in Widths, NEW low, low = GetAccessWidth(w, a)
  PROVE  /\ low \in 1 .. w
         /\ (a % Unit) + w <= Unit => low = w
         /\ (a % Unit) + w > Unit => /\ low = Unit - (a % Unit)
                                     /\ low < w
                                     /\ (a + low) % Unit = 0
<1>1. PICK u, t, r, b, q : /\ u = Unit /\ t = a % Unit /\ r = a % w
                           /\ b = Unit \div w /\ q = a \div Unit
  OBVIOUS
<1>2. w \in Nat \ {0} /\ u \in Nat \ {0} /\ w <= u
  BY <1>1, Sizes
<1>3. t \in 0 .. u - 1 /\ q \in Int /\ a = q * u + t
  BY <1>1, <1>2
<1>4. b \in Int /\ u = b * w /\ r \in 0 .. w - 1
  <2>1. Unit % w = 0
    BY Sizes
  <2>2. QED
    BY <1>1, <1>2, <2>1
<1>5. low = IF t + w - 1 >= u THEN w - r ELSE w
  BY <1>1 DEF GetAccessWidth
<1>6. CASE t + w <= u
  BY <1>1, <1>2, <1>3, <1>5, <1>6
<1>7. CASE t + w > u
  <2>1. PICK d : d = t - (b - 1) * w
    OBVIOUS
  <2>2. d \in Int /\ t = (b - 1) * w + d /\ 0 < d /\ d < w
    BY <1>2, <1>3, <1>4, <1>7, <2>1
  <2>3. PICK k : k = q * b + (b - 1)
    OBVIOUS
  <2>4. k \in Int /\ a = k * w + d
    BY <1>2, <1>3, <1>4, <2>2, <2>3
  <2>5. a % w = d
    <3>1. d \in 0 .. w - 1 /\ a \in Int
      BY <1>2, <2>2
    <3>2. QED
      BY <1>2, <2>4, <3>1, DivModUnique
  <2>6. low = w - d
    BY <1>1, <1>2, <1>3, <1>5, <1>7, <2>5
  <2>7. u = t + (w - d)
    BY <1>2, <1>3, <1>4, <2>2
  <2>8. low = u - t /\ low < w /\ low \in 1 .. w
    BY <1>2, <1>3, <2>2, <2>6, <2>7
  <2>9. PICK y, k1 : y = a + low /\ k1 = q + 1
    OBVIOUS
  <2>10. y \in Int /\ k1 \in Int /\ y = k1 * u + 0 /\ 0 \in 0 .. u - 1
    BY <1>2, <1>3, <2>8, <2>9
  <2>11. y % u = 0
    BY <1>2, <2>10, DivModUnique
  <2>12. QED
    BY <1>1, <1>2, <1>3, <1>7, <2>8, <2>9, <2>11
<1>8. QED
  BY <1>2, <1>3, <1>6, <1>7

\* What a write of value at address a leaves.
Written(new, mem, a, value, w) ==
  /\ \A i \in 0 .. w - 1 : new[(a + i) % Size] = value[i]
  /\ \A p \in Physical : (\A i \in 0 .. w - 1 : p # (a + i) % Size) => new[p] = mem[p]

\* A write puts each byte in its place and leaves the others alone.
LEMMA OneWrite ==
  ASSUME NEW mem, NEW value, NEW a \in Nat, NEW w \in Nat, w <= Size
  PROVE  Written(StoreWd(mem, a, value, w), mem, a, value, w)
<1>1. ASSUME NEW i \in 0 .. w - 1
      PROVE  StoreWd(mem, a, value, w)[(a + i) % Size] = value[i]
  <2>1. PICK y, n, p, q : y = a + i /\ n = Size /\ p = y % n /\ q = y \div n
    OBVIOUS
  <2>2. n \in Nat \ {0} /\ p \in 0 .. n - 1 /\ q \in Int /\ y = q * n + p
    BY <2>1, SizeFacts
  <2>3. PICK x, k : x = p - a /\ k = 0 - q
    OBVIOUS
  <2>4. x \in Int /\ k \in Int /\ x = k * n + i /\ i \in 0 .. n - 1
    BY <2>1, <2>2, <2>3
  <2>5. x % n = i
    BY <2>2, <2>4, DivModUnique
  <2>6. p \in Physical /\ (p - a) % Size = i /\ i < w
    BY <2>1, <2>2, <2>3, <2>5 DEF Physical
  <2>7. StoreWd(mem, a, value, w)[p] = value[i]
    BY <2>6 DEF StoreWd
  <2>8. QED
    BY <2>1, <2>7
<1>2. ASSUME NEW p \in Physical, \A i \in 0 .. w - 1 : p # (a + i) % Size
      PROVE  StoreWd(mem, a, value, w)[p] = mem[p]
  <2>1. PICK n, x, i, q : n = Size /\ x = p - a /\ i = x % n /\ q = x \div n
    OBVIOUS
  <2>2. n \in Nat \ {0} /\ p \in 0 .. n - 1 /\ x \in Int
    BY <2>1, SizeFacts DEF Physical
  <2>3. i \in 0 .. n - 1 /\ q \in Int /\ x = q * n + i
    BY <2>1, <2>2
  <2>4. ASSUME i < w PROVE FALSE
    <3>1. PICK y, k : y = a + i /\ k = 0 - q
      OBVIOUS
    <3>2. y \in Int /\ k \in Int /\ y = k * n + p
      BY <2>1, <2>2, <2>3, <3>1
    <3>3. y % n = p
      BY <2>2, <3>2, DivModUnique
    <3>4. i \in 0 .. w - 1 /\ p = (a + i) % Size
      BY <2>1, <2>2, <2>3, <2>4, <3>1, <3>3
    <3>5. QED
      BY <1>2, <3>4
  <2>5. ~((p - a) % Size < w)
    BY <2>1, <2>4
  <2>6. QED
    BY <2>5 DEF StoreWd
<1>3. QED
  BY <1>1, <1>2, Zenon DEF Written

-----------------------------------------------------------------------------
(* An access, byte by byte.                                                *)

\* Each half of an access is translated as a whole.
LEMMA Halves ==
  ASSUME TablesOK, NEW va \in Starts, NEW width \in Widths,
         NEW low, low = GetAccessWidth(width, va), NEW second, second = va + low
  PROVE  /\ \A i \in 0 .. low - 1 :
              /\ PageOf(va + i) = PageOf(va)
              /\ Faults(va + i) <=> Faults(va)
              /\ Translate(va + i) = Translate(va) + i
         /\ \A i \in low .. width - 1 :
              /\ PageOf(va + i) = PageOf(second)
              /\ Faults(va + i) <=> Faults(second)
              /\ Translate(va + i) = Translate(second) + (i - low)
<1>1. /\ va \in Nat /\ va < Size /\ width \in Nat /\ width <= Unit
      /\ Unit \in Nat /\ Size \in Nat /\ PageSize \in Nat /\ Unit <= PageSize
  BY Sizes, SizeFacts
<1>2. PICK t : t = va % Unit
  OBVIOUS
<1>3. t \in Nat /\ t < Unit
  BY <1>1, <1>2, Sizes
<1>4. /\ low \in 1 .. width
      /\ t + width <= Unit => low = width
      /\ t + width > Unit => low = Unit - t /\ low < width /\ second % Unit = 0
  BY <1>1, <1>2, SplitAt
<1>5. ASSUME NEW i \in 0 .. low - 1
      PROVE  /\ PageOf(va + i) = PageOf(va)
             /\ Faults(va + i) <=> Faults(va)
             /\ Translate(va + i) = Translate(va) + i
  <2>1. PICK y : y = va + i
    OBVIOUS
  <2>2. i \in Nat /\ y < Size + PageSize /\ (va % Unit) + i < Unit
    BY <1>1, <1>2, <1>3, <1>4, <2>1
  <2>3. PageOf(y) = PageOf(va) /\ (Faults(y) <=> Faults(va)) /\ Translate(y) = Translate(va) + i
    BY <1>1, <2>1, <2>2, OneUnit
  <2>4. QED
    BY <2>1, <2>3
<1>6. ASSUME NEW i \in low .. width - 1
      PROVE  /\ PageOf(va + i) = PageOf(second)
             /\ Faults(va + i) <=> Faults(second)
             /\ Translate(va + i) = Translate(second) + (i - low)
  <2>1. PICK y, j : y = va + i /\ j = i - low
    OBVIOUS
  <2>2. /\ j \in Nat /\ second \in Nat /\ y = second + j
        /\ y < Size + PageSize /\ (second % Unit) + j < Unit
    BY <1>1, <1>3, <1>4, <2>1
  <2>3. /\ PageOf(y) = PageOf(second)
        /\ Faults(y) <=> Faults(second)
        /\ Translate(y) = Translate(second) + j
    BY <2>2, OneUnit
  <2>4. QED
    BY <2>1, <2>3
<1>7. QED
  BY <1>5, <1>6

\* The place of a byte in the unit does not depend on the tables.
LEMMA PlaceResidue ==
  ASSUME TablesOK, NEW y \in Nat, y < Size + PageSize
  PROVE  (Translate(y) % Size) % Unit = y % Unit
<1>1. PICK t : t = Translate(y)
  OBVIOUS
<1>2. t \in Nat /\ t % Unit = y % Unit
  BY <1>1, TranslateNat, TranslateResidue
<1>3. (t % Size) % Unit = t % Unit
  BY <1>2, WrapResidue
<1>4. QED
  BY <1>1, <1>2, <1>3

\* Wherever the tables put them, the halves of an access do not overlap.
LEMMA Apart ==
  ASSUME TablesOK, NEW va \in Starts, NEW width \in Widths,
         NEW low, low = GetAccessWidth(width, va),
         NEW i \in 0 .. low - 1, NEW j \in low .. width - 1
  PROVE  Place(va, i) # Place(va, j)
<1>1. /\ va \in Nat /\ va < Size /\ width \in Nat /\ width <= Unit
      /\ Unit \in Nat \ {0} /\ Size \in Nat /\ PageSize \in Nat /\ Unit <= PageSize
  BY Sizes, SizeFacts
<1>2. PICK t, u, q : t = va % Unit /\ u = Unit /\ q = va \div Unit
  OBVIOUS
<1>3. t \in Nat /\ t < u /\ q \in Int /\ va = q * u + t
  BY <1>1, <1>2
<1>4. /\ low \in 1 .. width
      /\ t + width <= u => low = width
      /\ t + width > u => low = u - t /\ low < width
  BY <1>1, <1>2, SplitAt
<1>5. low = u - t /\ t + width > u
  BY <1>1, <1>2, <1>3, <1>4
<1>6. PICK x, y, r, s, k : /\ x = va + i /\ y = va + j /\ r = t + i
                           /\ s = j - low /\ k = q + 1
  OBVIOUS
<1>7. /\ x \in Nat /\ y \in Nat /\ x < Size + PageSize /\ y < Size + PageSize
      /\ k \in Int /\ x \in Int /\ y \in Int
  BY <1>1, <1>2, <1>3, <1>4, <1>6
<1>8. r \in 0 .. u - 1 /\ s \in 0 .. u - 1 /\ s < r
  BY <1>1, <1>2, <1>3, <1>4, <1>5, <1>6
<1>9. x = q * u + r /\ y = k * u + s
  <2>1. PICK m : m = q * u
    OBVIOUS
  <2>2. m \in Int /\ k * u = m + u
    BY <1>1, <1>2, <1>3, <1>6, <2>1
  <2>3. x = m + r /\ y = (m + u) + s
    BY <1>1, <1>2, <1>3, <1>4, <1>5, <1>6, <2>1, <2>2
  <2>4. QED
    BY <2>1, <2>2, <2>3
<1>10. x % u = r
  BY <1>1, <1>2, <1>3, <1>7, <1>8, <1>9, DivModUnique
<1>11. y % u = s
  BY <1>1, <1>2, <1>7, <1>8, <1>9, DivModUnique
<1>12. (Translate(x) % Size) % Unit = r /\ (Translate(y) % Size) % Unit = s
  BY <1>2, <1>7, <1>10, <1>11, PlaceResidue
<1>13. r # s
  BY <1>8
<1>14. QED
  BY <1>6, <1>12, <1>13 DEF Place

\* Which bytes of an access are missing, and which come before them.
LEMMA MissingCases ==
  ASSUME TablesOK, NEW va \in Starts, NEW width \in Widths,
         NEW low, low = GetAccessWidth(width, va), NEW second, second = va + low
  PROVE  /\ low \in 1 .. width
         /\ Faults(va) => 0 \in Missing(va, width) /\ Before(va, width) = {}
         /\ ~Faults(va) /\ ~(low < width /\ Faults(second)) =>
              Missing(va, width) = {} /\ Before(va, width) = 0 .. width - 1
         /\ ~Faults(va) /\ low < width /\ Faults(second) =>
              /\ Missing(va, width) = low .. width - 1
              /\ Before(va, width) = 0 .. low - 1
<1>1. va \in Nat /\ width \in Nat \ {0} /\ low \in 1 .. width
  BY Sizes, SplitAt
<1>2. /\ \A i \in 0 .. low - 1 : Faults(va + i) <=> Faults(va)
      /\ \A i \in low .. width - 1 : Faults(va + i) <=> Faults(second)
  BY Halves
<1>3. ASSUME Faults(va)
      PROVE  0 \in Missing(va, width) /\ Before(va, width) = {}
  <2>1. 0 \in Missing(va, width)
    BY <1>1, <1>2, <1>3 DEF Missing
  <2>2. \A i \in 0 .. width - 1 : ~(i < 0)
    BY <1>1
  <2>3. QED
    BY <2>1, <2>2 DEF Before
<1>4. ASSUME ~Faults(va), ~(low < width /\ Faults(second))
      PROVE  Missing(va, width) = {} /\ Before(va, width) = 0 .. width - 1
  <2>1. \A i \in 0 .. width - 1 : ~Faults(va + i)
    BY <1>1, <1>2, <1>4
  <2>2. Missing(va, width) = {}
    BY <2>1 DEF Missing
  <2>3. QED
    BY <2>2 DEF Before
<1>5. ASSUME ~Faults(va), low < width, Faults(second)
      PROVE  /\ Missing(va, width) = low .. width - 1
             /\ Before(va, width) = 0 .. low - 1
  <2>1. Missing(va, width) = low .. width - 1
    BY <1>1, <1>2, <1>5 DEF Missing
  <2>2. PICK missing : missing = Missing(va, width)
    OBVIOUS
  <2>3. low \in missing /\ \A j \in missing : j \in Int /\ low <= j
    BY <1>1, <1>5, <2>1, <2>2
  <2>4. Before(va, width) = {i \in 0 .. width - 1 : \A j \in missing : i < j}
    BY <2>2 DEF Before
  <2>5. Before(va, width) = 0 .. low - 1
    BY <1>1, <1>5, <2>3, <2>4
  <2>6. QED
    BY <2>1, <2>5
<1>6. QED
  BY <1>1, <1>3, <1>4, <1>5

\* Memory after the first and after both writes of a store.
BothWritten(va, width, value, low, half, full) ==
  /\ \A i \in 0 .. low - 1 : half[Place(va, i)] = value[i]
  /\ \A p \in Physical :
       (\A i \in 0 .. low - 1 : p # Place(va, i)) => half[p] = bytes[p]
  /\ low < width =>
       /\ \A i \in 0 .. width - 1 : full[Place(va, i)] = value[i]
       /\ \A p \in Physical :
            (\A i \in 0 .. width - 1 : p # Place(va, i)) => full[p] = bytes[p]

\* What the two writes of a store leave in memory.
LEMMA TwoWrites ==
  ASSUME TablesOK, NEW va \in Starts, NEW width \in Widths, NEW value,
         NEW low, low = GetAccessWidth(width, va), NEW second, second = va + low,
         NEW half, half = StoreWd(bytes, Translate(va), value, low),
         NEW upper, \A k \in 0 .. width - low - 1 : upper[k] = value[k + low],
         NEW full, full = StoreWd(half, Translate(second), upper, width - low)
  PROVE  BothWritten(va, width, value, low, half, full)
<1>1. /\ va \in Nat /\ va < Size /\ width \in Nat \ {0} /\ low \in 1 .. width
      /\ width <= Size /\ Size \in Nat \ {0} /\ PageSize \in Nat /\ width <= PageSize
  <2>1. va \in Nat /\ va < Size /\ width \in Nat \ {0} /\ width <= Unit
    BY Sizes
  <2>2. low \in 1 .. width
    BY <2>1, SplitAt
  <2>3. QED
    BY <2>1, <2>2, Sizes, SizeFacts
<1>2. PICK first, next, w : /\ first = Translate(va) /\ next = Translate(second)
                            /\ w = width - low
  OBVIOUS
<1>3. /\ first \in Nat /\ next \in Nat /\ second \in Nat
      /\ low \in Nat /\ low <= Size /\ w \in Nat /\ w <= Size
  <2>1. second \in Nat /\ second < Size + PageSize /\ va < Size + PageSize
    BY <1>1
  <2>2. first \in Nat /\ next \in Nat
    BY <1>1, <1>2, <2>1, TranslateNat
  <2>3. QED
    BY <1>1, <1>2, <2>1, <2>2
<1>4. \A i \in 0 .. low - 1 : Place(va, i) = (first + i) % Size
  BY <1>2, Halves DEF Place
<1>5. \A i \in low .. width - 1 : Place(va, i) = (next + (i - low)) % Size
  BY <1>2, Halves DEF Place
<1>6. half = StoreWd(bytes, first, value, low) /\ full = StoreWd(half, next, upper, w)
  BY <1>2
<1>7. /\ \A i \in 0 .. low - 1 : half[(first + i) % Size] = value[i]
      /\ \A p \in Physical : (\A i \in 0 .. low - 1 : p # (first + i) % Size)
                               => half[p] = bytes[p]
  <2>1. Written(StoreWd(bytes, first, value, low), bytes, first, value, low)
    BY <1>3, OneWrite
  <2>2. QED
    BY <1>6, <2>1, Zenon DEF Written
<1>8. /\ \A i \in 0 .. w - 1 : full[(next + i) % Size] = upper[i]
      /\ \A p \in Physical : (\A i \in 0 .. w - 1 : p # (next + i) % Size)
                               => full[p] = half[p]
  <2>1. Written(StoreWd(half, next, upper, w), half, next, upper, w)
    BY <1>3, OneWrite
  <2>2. QED
    BY <1>6, <2>1, Zenon DEF Written
<1>9. /\ \A i \in 0 .. low - 1 : half[Place(va, i)] = value[i]
      /\ \A p \in Physical :
           (\A i \in 0 .. low - 1 : p # Place(va, i)) => half[p] = bytes[p]
  BY <1>4, <1>7, Zenon
<1>10. ASSUME NEW i \in low .. width - 1
       PROVE  full[Place(va, i)] = value[i]
  <2>1. PICK k : k = i - low
    OBVIOUS
  <2>2. k \in 0 .. w - 1 /\ k \in 0 .. width - low - 1 /\ i = k + low
    BY <1>1, <1>2, <2>1
  <2>3. upper[k] = value[i]
    BY <2>2
  <2>4. full[(next + k) % Size] = upper[k]
    BY <1>8, <2>2
  <2>5. QED
    BY <1>5, <2>1, <2>3, <2>4
<1>11. ASSUME NEW p \in Physical, \A i \in low .. width - 1 : p # Place(va, i)
       PROVE  full[p] = half[p]
  <2>1. ASSUME NEW k \in 0 .. w - 1 PROVE p # (next + k) % Size
    <3>1. PICK i : i = k + low
      OBVIOUS
    <3>2. i \in low .. width - 1 /\ k = i - low
      BY <1>1, <1>2, <3>1
    <3>3. QED
      BY <1>5, <1>11, <3>2
  <2>2. QED
    BY <1>8, <2>1
<1>12. ASSUME NEW i \in 0 .. low - 1
       PROVE  full[Place(va, i)] = value[i]
  <2>1. \A j \in low .. width - 1 : Place(va, i) # Place(va, j)
    BY Apart
  <2>2. Place(va, i) \in Physical
    BY <1>1, <1>3, <1>4 DEF Physical
  <2>3. full[Place(va, i)] = half[Place(va, i)]
    BY <1>11, <2>1, <2>2
  <2>4. QED
    BY <1>9, <2>3
<1>13. 0 .. width - 1 = (0 .. low - 1) \cup (low .. width - 1)
  BY <1>1
<1>14. QED
  BY <1>9, <1>10, <1>11, <1>12, <1>13 DEF BothWritten

-----------------------------------------------------------------------------
(* Stores.                                                                 *)

\* The cases of StoreInstruction, its local names given.
LEMMA StoreCases ==
  ASSUME NEW va, NEW width, NEW value, StoreInstruction(va, width, value)
  PROVE  \E low, second, half, upper, full :
           /\ low = GetAccessWidth(width, va) /\ second = va + low
           /\ half = StoreWd(bytes, Translate(va), value, low)
           /\ upper = [i \in 0 .. width - low - 1 |-> value[i + low]]
           /\ full = StoreWd(half, Translate(second), upper, width - low)
           /\ Faults(va) => Trap(STORE_PAGE_FAULT, va) /\ bytes' = bytes
           /\ ~Faults(va) /\ low < width /\ Faults(second) =>
                Trap(STORE_PAGE_FAULT, second) /\ bytes' = half
           /\ ~Faults(va) /\ ~(low < width /\ Faults(second)) =>
                /\ trap' = NoTrap
                /\ bytes' = IF low < width THEN full ELSE half
           /\ dirty' = dirty \cup Marked(va)
                  \cup (IF low < width /\ ~Faults(va) THEN Marked(second) ELSE {})
BY Zenon DEF StoreInstruction, Complete

\* A store is a store through the page tables, byte by byte.
LEMMA StoreStep ==
  ASSUME TablesOK, NEW va \in Starts, NEW width \in Widths,
         StoreInstruction(va, width, Stored(width))
  PROVE  StoredThroughTables(va, width) /\ ReportsFirst(STORE_PAGE_FAULT, va, width)
<1>1. PICK low, second, half, upper, full :
        /\ low = GetAccessWidth(width, va) /\ second = va + low
        /\ half = StoreWd(bytes, Translate(va), Stored(width), low)
        /\ upper = [i \in 0 .. width - low - 1 |-> Stored(width)[i + low]]
        /\ full = StoreWd(half, Translate(second), upper, width - low)
        /\ Faults(va) => Trap(STORE_PAGE_FAULT, va) /\ bytes' = bytes
        /\ ~Faults(va) /\ low < width /\ Faults(second) =>
             Trap(STORE_PAGE_FAULT, second) /\ bytes' = half
        /\ ~Faults(va) /\ ~(low < width /\ Faults(second)) =>
             /\ trap' = NoTrap
             /\ bytes' = IF low < width THEN full ELSE half
        /\ dirty' = dirty \cup Marked(va)
               \cup (IF low < width /\ ~Faults(va) THEN Marked(second) ELSE {})
  BY StoreCases
<1>2. \A k \in 0 .. width - low - 1 : upper[k] = Stored(width)[k + low]
  BY <1>1
<1>3. /\ \A i \in 0 .. low - 1 : half[Place(va, i)] = Stored(width)[i]
      /\ \A p \in Physical :
           (\A i \in 0 .. low - 1 : p # Place(va, i)) => half[p] = bytes[p]
      /\ low < width =>
           /\ \A i \in 0 .. width - 1 : full[Place(va, i)] = Stored(width)[i]
           /\ \A p \in Physical :
                (\A i \in 0 .. width - 1 : p # Place(va, i)) => full[p] = bytes[p]
  <2>1. BothWritten(va, width, Stored(width), low, half, full)
    BY <1>1, <1>2, TwoWrites
  <2>2. QED
    BY <2>1, Zenon DEF BothWritten
<1>4. /\ low \in 1 .. width
      /\ Faults(va) => 0 \in Missing(va, width) /\ Before(va, width) = {}
      /\ ~Faults(va) /\ ~(low < width /\ Faults(second)) =>
           Missing(va, width) = {} /\ Before(va, width) = 0 .. width - 1
      /\ ~Faults(va) /\ low < width /\ Faults(second) =>
           /\ Missing(va, width) = low .. width - 1
           /\ Before(va, width) = 0 .. low - 1
  BY <1>1, MissingCases
<1>5. /\ va \in Nat /\ width \in Nat \ {0}
      /\ \A i \in 0 .. width - 1 : Stored(width)[i] = Size + i
  BY Sizes DEF Stored
<1>6. \A i \in 0 .. low - 1 : PageOf(va + i) = PageOf(va)
  BY <1>1, Halves
<1>7. \A i \in low .. width - 1 : PageOf(va + i) = PageOf(second)
  BY <1>1, Halves
<1>8. CASE Faults(va)
  <2>1. bytes' = bytes /\ Before(va, width) = {}
    BY <1>1, <1>4, <1>8
  <2>2. StoredThroughTables(va, width)
    BY <2>1 DEF StoredThroughTables
  <2>3. trap' = [cause |-> STORE_PAGE_FAULT, address |-> va]
    BY <1>1, <1>8 DEF Trap
  <2>4. va - va = 0 /\ \A j \in Missing(va, width) : 0 <= j
    BY <1>5 DEF Missing
  <2>5. QED
    BY <1>4, <1>8, <2>2, <2>3, <2>4 DEF ReportsFirst
<1>9. CASE ~Faults(va) /\ low < width /\ Faults(second)
  <2>1. /\ Missing(va, width) = low .. width - 1
        /\ Before(va, width) = 0 .. low - 1
    BY <1>4, <1>9
  <2>2. bytes' = half /\ trap' = [cause |-> STORE_PAGE_FAULT, address |-> second]
    BY <1>1, <1>9 DEF Trap
  <2>3. \A i \in 0 .. low - 1 : bytes'[Place(va, i)] = Size + i
    BY <1>3, <1>4, <1>5, <2>2
  <2>4. \A p \in Physical \ {Place(va, i) : i \in 0 .. low - 1} : bytes'[p] = bytes[p]
    BY <1>3, <2>2
  <2>5. paged => \A i \in 0 .. low - 1 : PageOf(va + i) \in dirty'
    BY <1>1, <1>6, <1>9 DEF Marked
  <2>6. StoredThroughTables(va, width)
    BY <2>1, <2>3, <2>4, <2>5 DEF StoredThroughTables
  <2>7. /\ second - va = low /\ low \in low .. width - 1
        /\ \A j \in low .. width - 1 : low <= j
    BY <1>1, <1>4, <1>5, <1>9
  <2>8. low .. width - 1 # {}
    BY <2>7
  <2>9. QED
    BY <2>1, <2>2, <2>6, <2>7, <2>8 DEF ReportsFirst
<1>10. CASE ~Faults(va) /\ ~(low < width /\ Faults(second))
  <2>1. Missing(va, width) = {} /\ Before(va, width) = 0 .. width - 1
    BY <1>4, <1>10
  <2>2. trap' = NoTrap /\ bytes' = IF low < width THEN full ELSE half
    BY <1>1, <1>10
  <2>3. ~(low < width) => low = width
    BY <1>4, <1>5
  <2>4. \A i \in 0 .. width - 1 : bytes'[Place(va, i)] = Size + i
    BY <1>3, <1>5, <2>2, <2>3
  <2>5. \A p \in Physical \ {Place(va, i) : i \in 0 .. width - 1} : bytes'[p] = bytes[p]
    BY <1>3, <2>2, <2>3
  <2>6. ASSUME paged, NEW i \in 0 .. width - 1 PROVE PageOf(va + i) \in dirty'
    <3>1. CASE i \in 0 .. low - 1
      BY <1>1, <1>6, <1>10, <2>6, <3>1 DEF Marked
    <3>2. CASE low < width /\ i \in low .. width - 1
      BY <1>1, <1>7, <1>10, <2>6, <3>2 DEF Marked
    <3>3. QED
      BY <1>4, <1>5, <2>3, <3>1, <3>2
  <2>7. StoredThroughTables(va, width)
    BY <2>1, <2>4, <2>5, <2>6 DEF StoredThroughTables
  <2>8. QED
    BY <2>1, <2>2, <2>7 DEF ReportsFirst
<1>11. QED
  BY <1>8, <1>9, <1>10

-----------------------------------------------------------------------------
(* Loads.                                                                  *)

\* The cases of LoadInstruction, its local names given.
LEMMA LoadCases ==
  ASSUME NEW va, NEW width, LoadInstruction(va, width)
  PROVE  \E first, low, second :
           /\ first = Translate(va) /\ low = GetAccessWidth(width, first)
           /\ second = first + low
           /\ Faults(va) => Trap(LOAD_PAGE_FAULT, va) /\ reg' = reg
           /\ ~Faults(va) /\ low < width /\ Faults(second) =>
                Trap(LOAD_PAGE_FAULT, second) /\ reg' = reg
           /\ ~Faults(va) /\ ~(low < width /\ Faults(second)) =>
                /\ trap' = NoTrap
                /\ reg' = [i \in 0 .. width - 1 |->
                             IF i < low THEN LoadWd(first, low)[i]
                             ELSE LoadWd(Translate(second), width - low)[i - low]]
           /\ bytes' = bytes /\ dirty' = dirty
BY Zenon DEF LoadInstruction, Complete

\* A load that stays in its unit, or starts in a page mapped to itself, is a
\* load through the page tables, byte by byte.
LEMMA LoadStep ==
  ASSUME TablesOK, NEW va \in Starts, NEW width \in Widths, LoadInstruction(va, width)
  PROVE  /\ bytes' = bytes /\ dirty' = dirty
         /\ (va % Unit) + width <= Unit \/ Translate(va) = va
              => LoadedThroughTables(va, width)
<1>1. PICK first, low, second :
        /\ first = Translate(va) /\ low = GetAccessWidth(width, first)
        /\ second = first + low
        /\ Faults(va) => Trap(LOAD_PAGE_FAULT, va) /\ reg' = reg
        /\ ~Faults(va) /\ low < width /\ Faults(second) =>
             Trap(LOAD_PAGE_FAULT, second) /\ reg' = reg
        /\ ~Faults(va) /\ ~(low < width /\ Faults(second)) =>
             /\ trap' = NoTrap
             /\ reg' = [i \in 0 .. width - 1 |->
                          IF i < low THEN LoadWd(first, low)[i]
                          ELSE LoadWd(Translate(second), width - low)[i - low]]
        /\ bytes' = bytes /\ dirty' = dirty
  BY LoadCases
<1>2. SUFFICES ASSUME (va % Unit) + width <= Unit \/ Translate(va) = va
               PROVE  LoadedThroughTables(va, width)
  BY <1>1
<1>3. /\ va \in Nat /\ va < Size + PageSize /\ width \in Nat \ {0}
      /\ first \in Nat /\ first % Unit = va % Unit /\ va % Unit \in Nat /\ Unit \in Nat
  <2>1. va \in Nat /\ va < Size + PageSize /\ width \in Nat \ {0}
    BY Sizes, SizeFacts
  <2>2. QED
    BY <1>1, <2>1, Sizes, TranslateNat, TranslateResidue
<1>4. PICK t : t = va % Unit
  OBVIOUS
<1>5. /\ low \in 1 .. width
      /\ t + width <= Unit => low = width
      /\ t + width > Unit => low = Unit - t
  BY <1>1, <1>3, <1>4, SplitAt
<1>6. PICK lowv, next : lowv = GetAccessWidth(width, va) /\ next = va + lowv
  OBVIOUS
<1>7. /\ lowv \in 1 .. width
      /\ t + width <= Unit => lowv = width
      /\ t + width > Unit => lowv = Unit - t
  BY <1>3, <1>4, <1>6, SplitAt
<1>8. lowv = low
  BY <1>3, <1>4, <1>5, <1>7
<1>9. low < width => second = next
  BY <1>1, <1>2, <1>3, <1>4, <1>5, <1>6, <1>8
<1>10. /\ Faults(va) => 0 \in Missing(va, width)
       /\ ~Faults(va) /\ ~(low < width /\ Faults(next)) => Missing(va, width) = {}
       /\ ~Faults(va) /\ low < width /\ Faults(next) =>
            Missing(va, width) = low .. width - 1
  BY <1>6, <1>8, MissingCases
<1>11. /\ \A i \in 0 .. low - 1 : Translate(va + i) = first + i
       /\ \A i \in low .. width - 1 : Translate(va + i) = Translate(next) + (i - low)
  <2>1. low = GetAccessWidth(width, va) /\ next = va + low
    BY <1>6, <1>8
  <2>2. /\ \A i \in 0 .. low - 1 : Translate(va + i) = Translate(va) + i
        /\ \A i \in low .. width - 1 : Translate(va + i) = Translate(next) + (i - low)
    BY <2>1, Halves
  <2>3. QED
    BY <1>1, <2>2
<1>12. CASE Faults(va)
  <2>1. reg' = reg /\ trap' = [cause |-> LOAD_PAGE_FAULT, address |-> va]
    BY <1>1, <1>12 DEF Trap
  <2>2. va - va = 0 /\ \A j \in Missing(va, width) : 0 <= j
    BY <1>3 DEF Missing
  <2>3. 0 \in Missing(va, width) /\ Missing(va, width) # {}
    BY <1>10, <1>12
  <2>4. QED
    BY <2>1, <2>2, <2>3 DEF LoadedThroughTables, ReportsFirst
<1>13. CASE ~Faults(va) /\ low < width /\ Faults(second)
  <2>1. reg' = reg /\ trap' = [cause |-> LOAD_PAGE_FAULT, address |-> second]
    BY <1>1, <1>13 DEF Trap
  <2>2. Missing(va, width) = low .. width - 1
    BY <1>9, <1>10, <1>13
  <2>3. /\ second - va = low /\ low \in low .. width - 1
        /\ \A j \in low .. width - 1 : low <= j
    BY <1>3, <1>5, <1>6, <1>8, <1>9, <1>13
  <2>4. low .. width - 1 # {}
    BY <2>3
  <2>5. QED
    BY <2>1, <2>2, <2>3, <2>4 DEF LoadedThroughTables, ReportsFirst
<1>14. CASE ~Faults(va) /\ ~(low < width /\ Faults(second))
  <2>1. Missing(va, width) = {}
    BY <1>9, <1>10, <1>14
  <2>2. /\ trap' = NoTrap
        /\ reg' = [i \in 0 .. width - 1 |->
                     IF i < low THEN LoadWd(first, low)[i]
                     ELSE LoadWd(Translate(second), width - low)[i - low]]
    BY <1>1, <1>14
  <2>3. ASSUME NEW i \in 0 .. width - 1
        PROVE  (IF i < low THEN LoadWd(first, low)[i]
                ELSE LoadWd(Translate(second), width - low)[i - low])
               = bytes[Place(va, i)]
    <3>1. CASE i < low
      <4>1. i \in 0 .. low - 1
        BY <1>5, <3>1
      <4>2. LoadWd(first, low)[i] = bytes[(first + i) % Size]
        BY <4>1 DEF LoadWd
      <4>3. Place(va, i) = (first + i) % Size
        BY <1>11, <4>1 DEF Place
      <4>4. QED
        BY <3>1, <4>2, <4>3
    <3>2. CASE ~(i < low)
      <4>1. PICK k, w : k = i - low /\ w = width - low
        OBVIOUS
      <4>2. low < width /\ i \in low .. width - 1 /\ k \in 0 .. w - 1
        BY <1>3, <1>5, <3>2, <4>1
      <4>3. LoadWd(Translate(second), w)[k] = bytes[(Translate(second) + k) % Size]
        BY <4>2 DEF LoadWd
      <4>4. Place(va, i) = (Translate(second) + k) % Size
        BY <1>9, <1>11, <4>1, <4>2 DEF Place
      <4>5. QED
        BY <3>2, <4>1, <4>3, <4>4
    <3>3. QED
      BY <3>1, <3>2
  <2>4. reg' = [i \in 0 .. width - 1 |-> bytes[Place(va, i)]]
    BY <2>2, <2>3
  <2>5. QED
    BY <2>1, <2>2, <2>4 DEF LoadedThroughTables, ReportsFirst
<1>15. QED
  BY <1>12, <1>13, <1>14

-----------------------------------------------------------------------------
(* What changes memory.                                                    *)

\* A byte that is mapped lies in the page its entry names.
LEMMA PlaceInPage ==
  ASSUME TablesOK, NEW va \in Starts, NEW width \in Widths, NEW i \in 0 .. width - 1,
         paged, ~Faults(va + i)
  PROVE  Place(va, i) \div PageSize = map[PageOf(va + i)]
<1>1. PICK y, p : y = va + i /\ p = Translate(y)
  OBVIOUS
<1>2. y \in Nat /\ y < Size + PageSize /\ ~Faults(y)
  BY <1>1, Sizes, SizeFacts
<1>3. p \in 0 .. Size - 1 /\ p \div PageSize = map[PageOf(y)]
  BY <1>1, <1>2, MappedPlace DEF Physical
<1>4. p % Size = p
  BY <1>3, SizeFacts
<1>5. QED
  BY <1>1, <1>3, <1>4 DEF Place

\* An aligned access does not leave its unit.
LEMMA AlignedInUnit ==
  ASSUME NEW va \in Starts, NEW width \in Widths, va % width = 0
  PROVE  GetAccessWidth(width, va) = width
<1>1. PICK low, t, m : low = GetAccessWidth(width, va) /\ t = va % Unit /\ m = va % width
  OBVIOUS
<1>2. /\ va \in Nat /\ width \in Nat \ {0} /\ Unit \in Nat \ {0} /\ t \in Nat
  BY <1>1, Sizes
<1>3. t + width <= Unit => low = width
  BY <1>1, <1>2, SplitAt
<1>4. t + width > Unit => low < width
  BY <1>1, <1>2, SplitAt
<1>5. low = IF t + width - 1 >= Unit THEN width - m ELSE width
  BY <1>1 DEF GetAccessWidth
<1>6. low = width
  BY <1>1, <1>2, <1>5
<1>7. QED
  BY <1>1, <1>6

\* What the other instructions change is a page marked dirty.
Accounted ==
  paged /\ ~page_fault' =>
    \A p \in Physical : bytes'[p] # bytes[p] =>
      \E vp \in dirty' : map[vp] = p \div PageSize

LEMMA StoreAccounted ==
  ASSUME TablesOK, NEW va \in Starts, NEW width \in Widths,
         StoreInstruction(va, width, Stored(width))
  PROVE  Accounted
<1> SUFFICES ASSUME paged, NEW p \in Physical, bytes'[p] # bytes[p]
             PROVE  \E vp \in dirty' : map[vp] = p \div PageSize
  BY DEF Accounted
<1>1. StoredThroughTables(va, width)
  BY StoreStep
<1>2. PICK i \in Before(va, width) : p = Place(va, i)
  BY <1>1 DEF StoredThroughTables
<1>3. PageOf(va + i) \in dirty'
  BY <1>1 DEF StoredThroughTables
<1>4. i \in 0 .. width - 1 /\ ~Faults(va + i)
  BY Sizes DEF Before, Missing
<1>5. map[PageOf(va + i)] = p \div PageSize
  BY <1>2, <1>4, PlaceInPage
<1>6. QED
  BY <1>3, <1>5

LEMMA AmoAccounted ==
  ASSUME TablesOK, NEW va \in Starts, NEW width \in AmoWidths, va % width = 0,
         AmoInstruction(va, width, Stored(width))
  PROVE  Accounted
<1> SUFFICES ASSUME paged, ~page_fault', NEW p \in Physical, bytes'[p] # bytes[p]
             PROVE  \E vp \in dirty' : map[vp] = p \div PageSize
  BY DEF Accounted
<1>1. PICK first, second : first = Translate(va) /\ second = va + width
  OBVIOUS
<1>2. /\ bytes' = StoreWd(bytes, first, Stored(width), width)
      /\ dirty' = dirty \cup Marked(va) /\ ~Faults(va)
  BY <1>1 DEF AmoInstruction
<1>3. width \in Widths /\ width = GetAccessWidth(width, va)
  <2>1. width \in Widths
    BY SizeAssumption
  <2>2. QED
    BY <2>1, AlignedInUnit
<1>4. /\ va \in Nat /\ va < Size + PageSize
      /\ width \in Nat /\ width <= Size /\ first \in Nat
  <2>1. va \in Nat /\ va < Size + PageSize /\ width \in Nat /\ width <= Size
    BY <1>3, Sizes, SizeFacts
  <2>2. QED
    BY <1>1, <2>1, TranslateNat
<1>5. Written(StoreWd(bytes, first, Stored(width), width), bytes, first, Stored(width), width)
  BY <1>4, OneWrite
<1>6. \A q \in Physical : (\A i \in 0 .. width - 1 : q # (first + i) % Size)
                            => bytes'[q] = bytes[q]
  BY <1>2, <1>5, Zenon DEF Written
<1>7. PICK i \in 0 .. width - 1 : p = (first + i) % Size
  BY <1>6
<1>8. /\ PageOf(va + i) = PageOf(va)
      /\ ~Faults(va + i)
      /\ Translate(va + i) = first + i
  BY <1>1, <1>2, <1>3, Halves
<1>9. p = Place(va, i)
  BY <1>7, <1>8 DEF Place
<1>10. map[PageOf(va + i)] = p \div PageSize
  BY <1>3, <1>8, <1>9, PlaceInPage
<1>11. PageOf(va + i) \in dirty'
  BY <1>2, <1>8 DEF Marked
<1>12. QED
  BY <1>10, <1>11

-----------------------------------------------------------------------------
(* The theorems.                                                           *)

\* The instructions keep the page tables, and what the guest writes to them
\* are page tables.
LEMMA TablesStay == Spec => []TablesOK
<1>1. Init => TablesOK
  BY Sizes DEF Init, TablesOK, VirtualPage
<1>2. TablesOK /\ [Next]_vars => TablesOK'
  <2> SUFFICES ASSUME TablesOK, [Next]_vars PROVE TablesOK'
    OBVIOUS
  <2>1. CASE UNCHANGED <<paged, map>>
    BY <2>1 DEF TablesOK
  <2>2. ASSUME NEW vp \in VirtualPage, NEW target \in (0 .. Pages - 1) \cup {NotMapped},
               ChangeMap(vp, target)
        PROVE  TablesOK'
    BY <2>2 DEF TablesOK, ChangeMap
  <2>3. CASE SwitchTranslation
    BY <2>3 DEF TablesOK, SwitchTranslation
  <2>4. QED
    BY <2>1, <2>2, <2>3
    DEF Next, vars, LoadInstruction, StoreInstruction, AmoInstruction, Accessing,
        FetchStaleFault
<1>3. QED
  BY <1>1, <1>2, PTL DEF Spec

\* Every store of StoreInstruction, at any address, of any width and with any
\* page tables, is a store byte by byte through the tables: complete, or
\* restartable with its first unmapped byte reported.
THEOREM StoreThroughTablesHolds == Spec => StoreThroughTables
<1>1. TablesOK /\ [Next]_vars =>
        [\A va \in Starts, width \in Widths :
           StoreInstruction(va, width, Stored(width)) =>
             /\ StoredThroughTables(va, width)
             /\ ReportsFirst(STORE_PAGE_FAULT, va, width)]_vars
  BY StoreStep
<1>2. QED
  BY <1>1, TablesStay, PTL DEF Spec, StoreThroughTables

\* Every load of LoadInstruction that stays in its unit, or that starts in a
\* page mapped to itself, reads byte by byte through the tables.
THEOREM LoadWithinUnitHolds == Spec => LoadWithinUnit
<1>1. TablesOK /\ [Next]_vars =>
        [\A va \in Starts, width \in Widths :
           LoadInstruction(va, width) =>
             /\ bytes' = bytes /\ dirty' = dirty
             /\ (va % Unit) + width <= Unit \/ Translate(va) = va
                  => LoadedThroughTables(va, width)]_vars
  BY LoadStep
<1>2. QED
  BY <1>1, TablesStay, PTL DEF Spec, LoadWithinUnit

\* Memory that changes under translation changes through an entry that is
\* then dirty, or by an AMO whose fault FetchStaleFault still reports.
THEOREM ChangesAreDirtyHolds == Spec => ChangesAreDirty
<1>1. TablesOK /\ [Next]_vars => [Accounted]_vars
  <2> SUFFICES ASSUME TablesOK, Next PROVE Accounted
    OBVIOUS
  <2>1. CASE bytes' = bytes
    BY <2>1 DEF Accounted
  <2>2. ASSUME NEW va \in Starts, NEW width \in Widths,
               \/ LoadInstruction(va, width)
               \/ StoreInstruction(va, width, Stored(width))
        PROVE  Accounted
    BY <2>1, <2>2, LoadStep, StoreAccounted
  <2>3. ASSUME NEW va \in Starts, NEW width \in AmoWidths, va % width = 0,
               AmoInstruction(va, width, Stored(width))
        PROVE  Accounted
    BY <2>3, AmoAccounted
  <2>4. QED
    BY <2>1, <2>2, <2>3 DEF Next, FetchStaleFault, ChangeMap, SwitchTranslation
<1>2. QED
  BY <1>1, TablesStay, PTL DEF Spec, ChangesAreDirty, Accounted
=============================================================================
