-------------------------- MODULE FlashCallsProofs --------------------------
(***************************************************************************)
(* For every layout, page size and width that satisfies the assumptions of *)
(* FlashIf: a call changes one of the two writable areas at most, and an   *)
(* erase that succeeds is whole.  First the lemmas that the proofs about   *)
(* the payload path share: whole numbers and units, induction, and what    *)
(* the check, an erase and a write do to the flash.                        *)
(***************************************************************************)
EXTENDS FlashCalls, WellFoundedInduction, SequenceTheorems, TLAPS

(* Induction over the natural numbers, for a set instead of a predicate.   *)
LEMMA SetInduction ==
  ASSUME NEW S, 0 \in S, \A n \in Nat : n \in S => n + 1 \in S
  PROVE  \A n \in Nat : n \in S
  <1> DEFINE R == OpToRel(<, Nat)
  <1> DEFINE T == Nat \ S
  <1>1. IsWellFoundedOn(R, Nat) BY NatLessThanWellFounded
  <1>2. \A x, y \in Nat : x < y => <<x, y>> \in R BY DEF OpToRel
  <1> HIDE DEF R
  <1>3. SUFFICES ASSUME T # {} PROVE FALSE
  OBVIOUS
  <1>4. PICK x \in T : \A y \in T : ~(<<y, x>> \in R)
    <2> HIDE DEF T
    <2>1. T \subseteq Nat BY DEF T
    <2>2. QED BY <1>1, <1>3, <2>1, WFMin
  <1>5. x # 0 /\ x \in Nat OBVIOUS
  <1>6. x - 1 \in Nat /\ x - 1 < x /\ x = (x - 1) + 1 BY <1>5
  <1>7. x - 1 \notin T BY <1>2, <1>4, <1>5, <1>6
  <1>8. QED BY <1>4, <1>6, <1>7

(* A sum of two numbers of the machine wraps around at most once.          *)
LEMMA WrapsOnce ==
    ASSUME NEW x \in Nat, NEW m \in Nat \ {0}, x < 2 * m
    PROVE  (x < m => x % m = x) /\ (x >= m => x % m = x - m)
  BY SMT

(* Quotient and remainder.                                                 *)
LEMMA DivMod ==
    ASSUME NEW x \in Nat, NEW u \in Nat \ {0}
    PROVE  x \div u \in Nat /\ x % u \in 0..u - 1 /\ x = (x \div u) * u + (x % u)
  BY SMT

(* The larger of two multiples is larger by a unit at least.               *)
LEMMA Multiples ==
    ASSUME NEW p \in Nat, NEW q \in Nat, NEW u \in Nat \ {0}
    PROVE  p < q => p * u + u <= q * u
  <1>1. p < q => \E d \in Nat : q = p + 1 + d
    BY SMT
  <1>2. ASSUME NEW d \in Nat, q = p + 1 + d PROVE q * u = p * u + u + d * u /\ d * u \in Nat
    BY <1>2, SMT
  <1> QED BY <1>1, <1>2, SMT

(* Rounding up to whole units.                                             *)
LEMMA UnitsBound ==
    ASSUME NEW n \in Nat, NEW unit \in Nat \ {0}
    PROVE  /\ Units(n, unit) \in Nat
           /\ n <= Units(n, unit) * unit
           /\ Units(n, unit) * unit < n + unit
           /\ n % unit = 0 => Units(n, unit) * unit = n
           /\ n \div unit \in Nat
           /\ (n \div unit) * unit <= n
  <1> DEFINE q == Units(n, unit)
  <1> DEFINE r == (n + unit - 1) % unit
  <1> DEFINE d == n \div unit
  <1>1. n + unit - 1 \in Nat
    OBVIOUS
  <1>2. q \in Nat /\ r \in 0..unit - 1 /\ n + unit - 1 = q * unit + r
    BY <1>1, DivMod DEF Units
  <1>3. d \in Nat /\ n % unit \in 0..unit - 1 /\ n = d * unit + (n % unit)
    BY DivMod
  <1>4. q * unit \in Nat /\ d * unit \in Nat
    BY <1>2, <1>3, SMT
  <1> HIDE DEF q, r, d
  <1>5. n <= q * unit /\ q * unit < n + unit /\ d * unit <= n
    BY <1>2, <1>3, <1>4, SMT
  <1>6. ASSUME n % unit = 0 PROVE q * unit = n
    <2>1. n = d * unit
      BY <1>3, <1>4, <1>6, SMT
    <2>2. ~(d < q)
      BY <2>1, <1>2, <1>3, <1>4, <1>5, Multiples, SMT
    <2>3. ~(q < d)
      BY <2>1, <1>2, <1>3, <1>4, <1>5, Multiples, SMT
    <2>4. q = d
      BY <2>2, <2>3, <1>2, <1>3, SMT
    <2> QED BY <2>1, <2>4
  <1> QED BY <1>2, <1>3, <1>5, <1>6 DEF q, d

(* The quotient and the remainder are the only ones.                       *)
LEMMA DivUnique ==
    ASSUME NEW q \in Nat, NEW u \in Nat \ {0}, NEW r \in 0..u - 1, NEW x, x = q * u + r
    PROVE  x \div u = q /\ x % u = r
  <1> DEFINE e == x \div u
  <1>1. q * u \in Nat /\ x \in Nat
    BY SMT
  <1>2. e \in Nat /\ x % u \in 0..u - 1 /\ x = e * u + (x % u)
    BY <1>1, DivMod
  <1>3. e * u \in Nat
    BY <1>2, SMT
  <1>4. e < q => e * u + u <= q * u
    BY <1>2, Multiples
  <1>5. q < e => q * u + u <= e * u
    BY <1>2, Multiples
  <1> HIDE DEF e
  <1>6. e = q
    BY <1>1, <1>2, <1>3, <1>4, <1>5, SMT
  <1>7. x % u = r
    BY <1>1, <1>2, <1>6, SMT
  <1> QED BY <1>6, <1>7 DEF e

(* A multiple is what leaves no remainder.                                 *)
LEMMA Divides ==
    ASSUME NEW u \in Nat \ {0}
    PROVE  /\ \A q \in Nat : q * u \in Nat /\ (q * u) % u = 0
           /\ \A x \in Nat : x % u = 0 => \E q \in Nat : x = q * u
  <1>1. ASSUME NEW q \in Nat PROVE q * u \in Nat /\ (q * u) % u = 0
    <2>1. q * u \in Nat /\ q * u = q * u + 0
      BY SMT
    <2> QED BY <2>1, DivUnique
  <1>2. ASSUME NEW x \in Nat, x % u = 0 PROVE \E q \in Nat : x = q * u
    <2>1. x \div u \in Nat /\ x = (x \div u) * u + 0
      BY <1>2, DivMod
    <2> DEFINE q == x \div u
    <2>2. q \in Nat /\ x = q * u + 0 /\ q * u \in Nat
      BY <2>1, SMT
    <2> HIDE DEF q
    <2>3. x = q * u
      BY <2>2, SMT
    <2> QED BY <2>2, <2>3
  <1> QED BY <1>1, <1>2

(* Sums and differences of multiples are multiples.                        *)
LEMMA MultiplesAdd ==
    ASSUME NEW u \in Nat \ {0}, NEW x \in Nat, NEW y \in Nat, x % u = 0, y % u = 0
    PROVE  (x + y) % u = 0 /\ (y <= x => (x - y) % u = 0)
  <1>1. PICK p \in Nat, q \in Nat : x = p * u /\ y = q * u
    BY Divides
  <1>2. (x + y) % u = 0
    <2>1. p + q \in Nat /\ x + y = (p + q) * u
      BY <1>1, SMT
    <2>2. ((p + q) * u) % u = 0
      BY <2>1, Divides
    <2> QED BY <2>1, <2>2
  <1>3. ASSUME y <= x PROVE (x - y) % u = 0
    <2>1. ~(p < q)
      BY <1>1, <1>3, Multiples, SMT
    <2>2. PICK d \in Nat : p = q + d
      BY <2>1, SMT
    <2>3. x - y = d * u
      BY <1>1, <2>2, SMT
    <2>4. (d * u) % u = 0
      BY Divides
    <2> QED BY <2>3, <2>4
  <1> QED BY <1>2, <1>3

(* A number of bytes below a whole number of units is still below it when  *)
(* rounded up.                                                             *)
LEMMA RoundingUp ==
    ASSUME NEW u \in Nat \ {0}, NEW n \in Nat, NEW m \in Nat, n <= m, m % u = 0
    PROVE  Units(n, u) \in Nat /\ Units(n, u) * u \in Nat /\ Units(n, u) * u <= m
  <1>1. PICK q \in Nat : m = q * u
    BY Divides
  <1>2. Units(n, u) \in Nat /\ Units(n, u) * u < n + u /\ Units(n, u) * u \in Nat
    BY UnitsBound, Divides
  <1> DEFINE w == Units(n, u)
  <1>3. q < w => q * u + u <= w * u
    BY <1>2, Multiples
  <1>4. w < q => w * u + u <= q * u
    BY <1>2, Multiples
  <1> HIDE DEF w
  <1>5. w * u <= m
    <2> DEFINE wu == w * u
               qu == q * u
    <2>1. wu \in Nat /\ qu \in Nat /\ wu < n + u /\ m = qu
      BY <1>1, <1>2, Divides DEF w
    <2>2. (q < w => qu + u <= wu) /\ (w < q => wu + u <= qu) /\ (w = q => wu = qu)
      BY <1>3, <1>4
    <2>3. w \in Nat
      BY <1>2 DEF w
    <2> HIDE DEF wu, qu
    <2>4. wu <= m
      BY <2>1, <2>2, <2>3, SMT
    <2> QED BY <2>4 DEF wu
  <1> QED BY <1>2, <1>5 DEF w

(* i + 1 units of a file of w fit where w units fit.                       *)
LEMMA UnitFits ==
    ASSUME NEW unit \in Nat \ {0}, NEW w \in Nat, NEW i \in 0..w - 1
    PROVE  i * unit + unit <= w * unit
  BY SMT

-----------------------------------------------------------------------------
InAppB(address, length) ==
    APP_B_START_ADDR <= address /\ address + length <= APP_B_START_ADDR + APP_B_SIZE
InMetadata(address, length) ==
    OTA_METADATA_ADDR <= address /\ address + length <= OTA_METADATA_ADDR + OTA_METADATA_SIZE

(* The check of flash_if_is_writable_range is exact: an accepted range     *)
(* that is not empty lies in one of the areas.                             *)
LEMMA RangeIsExact ==
    ASSUME NEW address \in U32, NEW length \in U32 \ {0}, WritableRange(address, length)
    PROVE  InAppB(address, length) \/ InMetadata(address, length)
  <1> DEFINE sum == address + length
  <1>1. sum \in Nat /\ sum < 2 * Modulus
    BY WidthAssumption, SMT DEF U32
  <1>2. sum % Modulus >= address => sum % Modulus = sum
    <2> HIDE DEF sum
    <2>1. (sum < Modulus => sum % Modulus = sum) /\ (sum >= Modulus => sum % Modulus = sum - Modulus)
      BY <1>1, WrapsOnce, WidthAssumption
    <2>2. sum >= Modulus => sum - Modulus < address
      BY WidthAssumption, SMT DEF sum, U32
    <2> QED BY <1>1, <2>1, <2>2, WidthAssumption, SMT DEF U32
  <1> QED
    BY <1>2, SMT DEF WritableRange, InAppB, InMetadata, U32

(* What changes lies in one area: the form both areas share.               *)
KeptOutside(area, before, after) == \A a \in Address \ area : after[a] = before[a]

(* The erase of whole pages starts at the area and does not leave it.      *)
LEMMA EraseStaysIn ==
    ASSUME NEW start \in Nat, NEW length \in Nat, NEW done \in 0..PageCount(length), NEW m,
           Bank2Start <= start, (start - Bank2Start) % FLASH_PAGE_SIZE = 0,
           length % FLASH_PAGE_SIZE = 0
    PROVE  /\ KeptOutside(From(start, length), m, Erase(m, start, done))
           /\ done = PageCount(length) =>
                \A a \in From(start, length) : Erase(m, start, done)[a] = Blank
  <1>1. start - Bank2Start \in Nat /\ Bank2Start \in Nat
    BY LayoutAssumption
  <1>2. BankStart(start) + PageFromAddr(start) * FLASH_PAGE_SIZE = start
    <2>1. BankStart(start) = Bank2Start
      BY <1>1 DEF BankStart
    <2>2. start - Bank2Start =
            ((start - Bank2Start) \div FLASH_PAGE_SIZE) * FLASH_PAGE_SIZE + 0
      BY <1>1, DivMod, WidthAssumption
    <2> DEFINE pages == (start - Bank2Start) \div FLASH_PAGE_SIZE
    <2>3. PageFromAddr(start) = pages
      BY <2>1 DEF PageFromAddr
    <2>4. pages \in Nat
      BY <1>1, DivMod, WidthAssumption
    <2> HIDE DEF pages
    <2>5. pages * FLASH_PAGE_SIZE \in Nat
      BY <2>4, WidthAssumption, SMT
    <2>6. start - Bank2Start = pages * FLASH_PAGE_SIZE
      BY <2>2, <2>5, SMT DEF pages
    <2> QED BY <2>1, <2>3, <2>5, <2>6, <1>1, SMT
  <1>3. PageCount(length) \in Nat /\ PageCount(length) * FLASH_PAGE_SIZE = length
    BY UnitsBound, WidthAssumption DEF PageCount
  <1>4. done * FLASH_PAGE_SIZE \in Nat /\ done * FLASH_PAGE_SIZE <= length
    <2>1. CASE done = PageCount(length)
      BY <2>1, <1>3
    <2>2. CASE done < PageCount(length)
      BY <2>2, <1>3, Multiples, WidthAssumption, SMT
    <2> QED BY <2>1, <2>2, <1>3, SMT
  <1> DEFINE region == From(start, done * FLASH_PAGE_SIZE)
  <1>5. Erase(m, start, done) = [a \in Address |-> IF a \in region THEN Blank ELSE m[a]]
    BY <1>2 DEF Erase
  <1>6. region \subseteq From(start, length)
    BY <1>4, LayoutAssumption, SMT DEF From, Address
  <1>7. done = PageCount(length) => region = From(start, length)
    BY <1>3
  <1>8. From(start, length) \subseteq Address
    BY DEF From
  <1> QED
    BY <1>5, <1>6, <1>7, <1>8, Zenon DEF KeptOutside

(* There are no more units than bytes.                                     *)
LEMMA UnitsAtMost ==
    ASSUME NEW u \in Nat \ {0}, NEW n \in Nat
    PROVE  Units(n, u) \in 0..n
  <1> DEFINE w == Units(n, u)
  <1>1. w \in Nat /\ w * u < n + u
    BY UnitsBound
  <1>2. n < w => n * u + u <= w * u
    BY <1>1, Multiples
  <1>3. n <= n * u /\ n * u \in Nat /\ w * u \in Nat
    <2>1. PICK v \in Nat : u = 1 + v
      BY SMT
    <2>2. n * u = n + n * v /\ n * v \in Nat
      BY <2>1, SMT
    <2> QED BY <2>2, <1>1, Divides, SMT
  <1> HIDE DEF w
  <1>4. w <= n
    <2> DEFINE wu == w * u
               nu == n * u
    <2>1. wu \in Nat /\ nu \in Nat /\ n <= nu /\ wu < n + u /\ (n < w => nu + u <= wu)
      BY <1>1, <1>2, <1>3 DEF w
    <2>2. w \in Nat
      BY <1>1 DEF w
    <2> HIDE DEF wu, nu
    <2> QED BY <2>1, <2>2, SMT
  <1> QED BY <1>1, <1>4, SMT DEF w

(* All of slot B may be written.                                           *)
LEMMA SlotIsWritable ==
    ASSUME NEW address \in Nat, NEW length \in Nat, APP_B_START_ADDR <= address,
           address + length <= APP_B_START_ADDR + APP_B_SIZE
    PROVE  WritableRange(address, length) /\ length < Modulus
  <1> DEFINE sum == address + length
  <1>1. sum \in Nat /\ sum < Modulus /\ Modulus \in Nat \ {0} /\ sum >= address /\ length < Modulus
    BY WidthAssumption, LayoutAssumption, SMT
  <1> HIDE DEF sum
  <1>2. sum % Modulus = sum
    BY <1>1, SMT
  <1> QED BY <1>1, <1>2, SMT DEF WritableRange, sum

(* An aligned write into a blank piece of slot B, padded or of whole       *)
(* double words, succeeds and changes just the bytes it was given.         *)
LEMMA WriteSucceeds ==
    ASSUME NEW m, NEW address \in Nat, NEW S, NEW bytes \in Seq(S), NEW pad \in BOOLEAN,
           address % Word = 0, APP_B_START_ADDR <= address,
           address + Units(Len(bytes), Word) * Word <= APP_B_START_ADDR + APP_B_SIZE,
           pad \/ Len(bytes) % Word = 0,
           \A a \in Address :
              address <= a /\ a < address + Units(Len(bytes), Word) * Word => m[a] = Blank
    PROVE  LET w == Write(m, address, bytes, pad, Len(bytes)) IN
           /\ w.ok
           /\ w.mem = [a \in Address |-> IF address <= a /\ a < address + Len(bytes)
                                           THEN bytes[a - address + 1] ELSE m[a]]
  <1> USE WidthAssumption
  <1> DEFINE n == Len(bytes)
             u == Units(n, Word)
             size == u * Word
             words == Written(m, address, n, pad, n)
  <1>1. n \in Nat
    BY LenProperties
  <1>2. u \in 0..n /\ u \in Nat /\ size \in Nat /\ n <= size /\ (n % Word = 0 => size = n)
    BY <1>1, UnitsBound, UnitsAtMost, Divides
  <1>3. WritableRange(address, size) /\ size < Modulus
    BY <1>2, SlotIsWritable
  <1>4. CheckedLength(n, pad) = size
    <2>1. CASE pad /\ n % Word # 0
      <3>0. size \in Nat /\ size < Modulus
        BY <1>2, <1>3
      <3> HIDE DEF size
      <3>1. size % Modulus = size
        <4>1. size < 2 * Modulus
          BY <3>0, SMT
        <4> QED BY <3>0, <4>1, WrapsOnce
      <3> QED BY <2>1, <3>1 DEF CheckedLength, size
    <2>2. CASE ~(pad /\ n % Word # 0)
      BY <2>2, <1>2 DEF CheckedLength
    <2> QED BY <2>1, <2>2
  <1>5. WordsOf(n, pad) = u
    <2>1. ASSUME n % Word = 0 PROVE n \div Word = u
      <3>1. n = u * Word + 0
        BY <1>1, <1>2, <2>1
      <3>2. 0 \in 0..Word - 1
        OBVIOUS
      <3> HIDE DEF u
      <3> QED BY <1>1, <1>2, <3>1, <3>2, DivUnique
    <2> QED BY <2>1 DEF WordsOf
  <1>6. ASSUME NEW i \in 0..u - 1
        PROVE  i < n /\ Programmable(m, address + i * Word)
    <2>1. i \in Nat /\ i < n /\ i * Word \in Nat /\ (i * Word) % Word = 0
      BY <1>1, <1>2, Divides, SMT
    <2>2. i * Word + Word <= size
      BY <1>2, UnitFits
    <2>3. (address + i * Word) % Word = 0
      BY <2>1, MultiplesAdd
    <2> DEFINE at == i * Word
    <2>4. at \in Nat /\ at + Word <= size /\ size \in Nat
      BY <1>2, <2>1, <2>2
    <2>5. \A a \in Address : address <= a /\ a < address + size => m[a] = Blank
      OBVIOUS
    <2>6. address + size <= APP_B_START_ADDR + APP_B_SIZE
      OBVIOUS
    <2> HIDE DEF at, size, u, n
    <2>7. ASSUME NEW b \in address + at .. address + at + Word - 1
          PROVE  b \in Address /\ m[b] = Blank
      <3>1. b \in Address
        BY <2>4, <2>6, LayoutAssumption, SMT DEF Address
      <3>2. address <= b /\ b < address + size
        BY <2>4, SMT
      <3> QED BY <2>5, <3>1, <3>2
    <2> QED BY <2>1, <2>3, <2>7 DEF Programmable, at
  <1>7. words = 0..u - 1
    <2> HIDE DEF u, n
    <2>1. ASSUME NEW i \in 0..u - 1, NEW j \in 0..i PROVE j \in 0..u - 1
      BY <1>2, SMT DEF u, n
    <2> QED BY <1>5, <1>6, <2>1 DEF Written
  <1> DEFINE w == Write(m, address, bytes, pad, n)
  <1>8. w.ok /\ w.mem = Program(m, address, bytes, words)
    <2>1. WritableRange(address, CheckedLength(n, pad))
      BY <1>3, <1>4
    <2>2. words = 0..Units(n, Word) - 1
      BY <1>7
    <2> HIDE DEF words, n
    <2> QED BY <2>1, <2>2 DEF Write, words, n
  <1>9. ASSUME NEW a \in Address
        PROVE  /\ a \in Nat
               /\ (\E i \in words : a \in address + i * Word .. address + i * Word + Word - 1)
                   <=> address <= a /\ a < address + size
    <2>1. a \in Nat
      BY LayoutAssumption, SMT DEF Address
    <2>2. ASSUME NEW i \in words, a \in address + i * Word .. address + i * Word + Word - 1
          PROVE  address <= a /\ a < address + size
      <3>1. i \in Nat /\ i \in 0..u - 1
        BY <1>2, <1>7, SMT
      <3>2. i * Word \in Nat /\ i * Word + Word <= size
        BY <1>2, <3>1, UnitFits, Divides
      <3> DEFINE at == i * Word
      <3>3. at \in Nat /\ at + Word <= size /\ a \in address + at .. address + at + Word - 1
        BY <2>2, <3>2
      <3> HIDE DEF at, size
      <3> QED BY <1>2, <2>1, <3>3, SMT
    <2>3. ASSUME address <= a, a < address + size
          PROVE  \E i \in words : a \in address + i * Word .. address + i * Word + Word - 1
      <3> DEFINE x == a - address
                 i == x \div Word
      <3>1. x \in Nat /\ x < size
        BY <1>2, <2>1, <2>3, SMT
      <3>2. i \in Nat /\ x % Word \in 0..Word - 1 /\ x = i * Word + (x % Word)
        BY <3>1, DivMod
      <3>3. i * Word \in Nat
        BY <3>2, Divides
      <3>4. i < u
        <4>1. u < i => u * Word + Word <= i * Word
          BY <1>2, <3>2, Multiples
        <4> HIDE DEF i, x, u
        <4>2. i = u => i * Word = size
          OBVIOUS
        <4> HIDE DEF size
        <4>3. u < i => size + Word <= i * Word
          BY <4>1 DEF size
        <4> QED BY <1>2, <3>1, <3>2, <3>3, <4>2, <4>3, SMT DEF u
      <3>5. i \in words
        <4> HIDE DEF i, x, u
        <4> QED BY <1>2, <1>7, <3>2, <3>4, SMT DEF u
      <3>6. a \in address + i * Word .. address + i * Word + Word - 1
        <4>1. a = address + x
          BY <2>1, SMT
        <4> DEFINE at == i * Word
                   rest == x % Word
        <4>2. at \in Nat /\ rest \in 0..Word - 1 /\ x = at + rest
          BY <3>2, <3>3
        <4> HIDE DEF at, i, x, rest
        <4>3. a \in address + at .. address + at + Word - 1
          BY <2>1, <4>1, <4>2, SMT
        <4> QED BY <4>3 DEF at
      <3> QED BY <3>5, <3>6
    <2> QED BY <2>1, <2>2, <2>3
  <1>10. ASSUME NEW a \in Address
         PROVE  (IF \E i \in words : a \in address + i * Word .. address + i * Word + Word - 1
                   THEN IF a - address < n THEN bytes[a - address + 1] ELSE Padding
                   ELSE m[a])
                = IF address <= a /\ a < address + n THEN bytes[a - address + 1] ELSE m[a]
    <2>1. address <= a /\ a < address + size => m[a] = Padding
      BY DEF Padding
    <2>2. n \in Nat /\ size \in Nat /\ n <= size
      BY <1>1, <1>2
    <2> DEFINE written == \E i \in words : a \in address + i * Word .. address + i * Word + Word - 1
    <2>3. a \in Nat /\ (written <=> address <= a /\ a < address + size)
      BY <1>9
    <2> HIDE DEF written, n, size, words
    <2>4. (a - address < n) <=> (a < address + n)
      BY <2>2, <2>3, SMT
    <2>5. address <= a /\ a < address + n => written
      BY <2>2, <2>3, SMT
    <2> QED BY <2>1, <2>3, <2>4, <2>5 DEF written
  <1>11. w.mem = [a \in Address |-> IF address <= a /\ a < address + n
                                       THEN bytes[a - address + 1] ELSE m[a]]
    <2> HIDE DEF w, n, words
    <2> QED BY <1>8, <1>10, Zenon DEF Program, n
  <1> QED BY <1>8, <1>11

(* flash_if_erase_app_b, when no page fails, blanks all of slot B.         *)
LEMMA EraseSucceeds ==
    ASSUME NEW m
    PROVE  LET e == EraseRange(m, APP_B_START_ADDR, APP_B_SIZE, PageCount(APP_B_SIZE)) IN
           /\ e.mem \in [Address -> {m[a] : a \in Address} \cup {Blank}]
           /\ \A a \in From(APP_B_START_ADDR, APP_B_SIZE) : e.mem[a] = Blank
  <1> DEFINE pages == PageCount(APP_B_SIZE)
             e == EraseRange(m, APP_B_START_ADDR, APP_B_SIZE, pages)
  <1>1. WritableRange(APP_B_START_ADDR, APP_B_SIZE)
    BY SlotIsWritable, LayoutAssumption
  <1>2. e.mem = Erase(m, APP_B_START_ADDR, pages)
    BY <1>1 DEF EraseRange
  <1>3. pages \in Nat /\ pages \in 0..pages
    BY UnitsBound, WidthAssumption, LayoutAssumption DEF PageCount
  <1>4. \A a \in From(APP_B_START_ADDR, APP_B_SIZE) : Erase(m, APP_B_START_ADDR, pages)[a] = Blank
    BY <1>3, EraseStaysIn, LayoutAssumption, PageAssumption
  <1>5. Erase(m, APP_B_START_ADDR, pages) \in [Address -> {m[a] : a \in Address} \cup {Blank}]
    BY DEF Erase
  <1> QED BY <1>2, <1>4, <1>5

-----------------------------------------------------------------------------
(* A write stays inside the range it checked.                              *)
LEMMA WriteFits ==
    ASSUME NEW m, NEW address \in U32, NEW length \in 0..MaxLength, NEW pad \in BOOLEAN,
           NEW done, NEW i \in Written(m, address, length, pad, done)
    PROVE  /\ i \in Nat
           /\ CheckedLength(length, pad) \in U32 \ {0}
           /\ i * Word + Word <= CheckedLength(length, pad)
  <1> USE WidthAssumption, LengthAssumption
  <1> DEFINE w == WordsOf(length, pad)
  <1>1. length \in Nat /\ length + Word < Modulus
    BY SMT
  <1>2. /\ Units(length, Word) \in Nat /\ length \div Word \in Nat
        /\ Units(length, Word) * Word < length + Word
        /\ length <= Units(length, Word) * Word
        /\ length % Word = 0 => Units(length, Word) * Word = length
        /\ (length \div Word) * Word <= length
    BY <1>1, UnitsBound
  <1>3. w \in Nat
    BY <1>2 DEF WordsOf
  <1>4. i \in 0..w - 1
    BY DEF Written
  <1>5. i * Word + Word <= w * Word /\ i \in Nat /\ i * Word \in Nat /\ w * Word \in Nat
    BY <1>3, <1>4, UnitFits, SMT
  <1>6. w * Word <= CheckedLength(length, pad) /\ CheckedLength(length, pad) \in U32
    <2>1. CASE ~pad
      BY <2>1, <1>1, <1>2, SMT DEF WordsOf, CheckedLength, U32
    <2>2. CASE pad /\ length % Word = 0
      BY <2>2, <1>1, <1>2, SMT DEF WordsOf, CheckedLength, U32
    <2>3. CASE pad /\ length % Word # 0
      <3> DEFINE padded == Units(length, Word) * Word
      <3>1. padded \in Nat /\ padded < Modulus
        BY <1>1, <1>2, SMT
      <3>2. w * Word = padded /\ CheckedLength(length, pad) = padded % Modulus
        BY <2>3 DEF WordsOf, CheckedLength
      <3> HIDE DEF padded
      <3>3. padded % Modulus = padded
        BY <3>1, SMT
      <3> QED BY <3>1, <3>2, <3>3, SMT DEF U32
    <2> QED BY <2>1, <2>2, <2>3
  <1>7. CheckedLength(length, pad) # 0
    BY <1>5, <1>6, SMT DEF U32
  <1> HIDE DEF w
  <1> QED BY <1>5, <1>6, <1>7, SMT DEF U32

(* So flash_if_write changes bytes of one area, or none.                   *)
LEMMA WriteStaysIn ==
    ASSUME NEW m, NEW address \in U32, NEW length \in 0..MaxLength, NEW pad \in BOOLEAN,
           NEW data \in [1..length -> Byte], NEW done
    PROVE  LET result == Write(m, address, data, pad, done) IN
           \/ \A a \in Address : result.mem[a] = m[a]
           \/ KeptOutside(AppB, m, result.mem)
           \/ KeptOutside(Metadata, m, result.mem)
  <1> USE WidthAssumption, LengthAssumption
  <1> DEFINE checked == CheckedLength(length, pad)
             words == Written(m, address, length, pad, done)
             result == Write(m, address, data, pad, done)
  <1>1. Len(data) = length
    OBVIOUS
  <1>2. CASE ~WritableRange(address, checked)
    BY <1>1, <1>2 DEF Write
  <1>3. CASE WritableRange(address, checked)
    <2>1. result.mem = Program(m, address, data, words)
      BY <1>1, <1>3 DEF Write
    <2>2. \A a \in Address :
            (~\E i \in words : a \in address + i * Word .. address + i * Word + Word - 1) =>
               result.mem[a] = m[a]
      BY <2>1 DEF Program
    <2>3. CASE words = {}
      BY <2>2, <2>3
    <2>4. CASE words # {}
      <3>1. PICK k \in words : TRUE
        BY <2>4
      <3>2. checked \in U32 \ {0}
        BY <3>1, WriteFits
      <3>3. InAppB(address, checked) \/ InMetadata(address, checked)
        BY <1>3, <3>2, RangeIsExact
      <3>4. ASSUME NEW i \in words, NEW a \in Address,
                   a \in address + i * Word .. address + i * Word + Word - 1
            PROVE  address <= a /\ a < address + checked
        <4>1. i \in Nat /\ i * Word + Word <= checked
          BY WriteFits
        <4>2. i * Word \in Nat
          BY <4>1, SMT
        <4> HIDE DEF checked, words
        <4> QED BY <4>1, <4>2, <3>2, <3>4, LayoutAssumption, SMT DEF Address, U32
      <3> HIDE DEF checked, words, result
      <3>5. CASE InAppB(address, checked)
        <4>1. ASSUME NEW a \in Address \ AppB
              PROVE  ~\E i \in words : a \in address + i * Word .. address + i * Word + Word - 1
          BY <3>2, <3>4, <3>5, LayoutAssumption, SMT DEF InAppB, AppB, From, Address, U32
        <4> QED BY <4>1, <2>2 DEF KeptOutside, result
      <3>6. CASE InMetadata(address, checked)
        <4>1. ASSUME NEW a \in Address \ Metadata
              PROVE  ~\E i \in words : a \in address + i * Word .. address + i * Word + Word - 1
          BY <3>2, <3>4, <3>6, LayoutAssumption, SMT DEF InMetadata, Metadata, From, Address, U32
        <4> QED BY <4>1, <2>2 DEF KeptOutside, result
      <3> QED BY <3>3, <3>5, <3>6
    <2> QED BY <2>3, <2>4
  <1> QED BY <1>2, <1>3

-----------------------------------------------------------------------------
(* flash_if_erase_app_b: nothing outside slot B, and all of it on success. *)
LEMMA EraseAppBStep ==
    CallEraseAppB => /\ KeptOutside(AppB, flash, flash')
                 /\ EraseIsWhole'
  <1> SUFFICES ASSUME NEW done \in 0..PageCount(APP_B_SIZE),
                      Return("eraseAppB", EraseRange(flash, APP_B_START_ADDR, APP_B_SIZE, done))
               PROVE  KeptOutside(AppB, flash, flash') /\ EraseIsWhole'
    BY DEF CallEraseAppB
  <1> DEFINE erased == Erase(flash, APP_B_START_ADDR, done)
             result == EraseRange(flash, APP_B_START_ADDR, APP_B_SIZE, done)
  <1>1. /\ KeptOutside(From(APP_B_START_ADDR, APP_B_SIZE), flash, erased)
        /\ done = PageCount(APP_B_SIZE) =>
              \A a \in From(APP_B_START_ADDR, APP_B_SIZE) : erased[a] = Blank
    BY EraseStaysIn, LayoutAssumption, PageAssumption
  <1>2. result.mem = erased \/ (result.mem = flash /\ ~result.ok)
    BY DEF EraseRange
  <1>3. result.ok => result.mem = erased /\ done = PageCount(APP_B_SIZE)
    BY DEF EraseRange
  <1>4. flash' = result.mem /\ last' = [op |-> "eraseAppB", ok |-> result.ok]
    BY DEF Return
  <1> HIDE DEF erased, result
  <1>5. KeptOutside(AppB, flash, flash')
    BY <1>1, <1>2, <1>4 DEF KeptOutside, AppB
  <1>6. EraseIsWhole'
    BY <1>1, <1>3, <1>4 DEF EraseIsWhole, AppB
  <1> QED BY <1>5, <1>6

(* The same for the metadata pages.                                        *)
LEMMA EraseMetadataStep ==
    CallEraseMetadata => /\ KeptOutside(Metadata, flash, flash')
                     /\ EraseIsWhole'
  <1> SUFFICES ASSUME NEW done \in 0..PageCount(OTA_METADATA_SIZE),
                      Return("eraseMetadata",
                             EraseRange(flash, OTA_METADATA_ADDR, OTA_METADATA_SIZE, done))
               PROVE  KeptOutside(Metadata, flash, flash') /\ EraseIsWhole'
    BY DEF CallEraseMetadata
  <1> DEFINE erased == Erase(flash, OTA_METADATA_ADDR, done)
             result == EraseRange(flash, OTA_METADATA_ADDR, OTA_METADATA_SIZE, done)
  <1>0. OTA_METADATA_ADDR \in Nat /\ OTA_METADATA_SIZE \in Nat /\ Bank2Start <= OTA_METADATA_ADDR
    BY LayoutAssumption, SMT
  <1>1. /\ KeptOutside(From(OTA_METADATA_ADDR, OTA_METADATA_SIZE), flash, erased)
        /\ done = PageCount(OTA_METADATA_SIZE) =>
              \A a \in From(OTA_METADATA_ADDR, OTA_METADATA_SIZE) : erased[a] = Blank
    BY <1>0, EraseStaysIn, PageAssumption
  <1>2. result.mem = erased \/ (result.mem = flash /\ ~result.ok)
    BY DEF EraseRange
  <1>3. result.ok => result.mem = erased /\ done = PageCount(OTA_METADATA_SIZE)
    BY DEF EraseRange
  <1>4. flash' = result.mem /\ last' = [op |-> "eraseMetadata", ok |-> result.ok]
    BY DEF Return
  <1> HIDE DEF erased, result
  <1>5. KeptOutside(Metadata, flash, flash')
    BY <1>1, <1>2, <1>4 DEF KeptOutside, Metadata
  <1>6. EraseIsWhole'
    BY <1>1, <1>3, <1>4 DEF EraseIsWhole, Metadata
  <1> QED BY <1>5, <1>6

(* A write changes one area at most, and is not an erase.                  *)
LEMMA WriteStep ==
    CallWrite => /\ \/ KeptOutside(AppB, flash, flash')
                     \/ KeptOutside(Metadata, flash, flash')
                  /\ EraseIsWhole'
  <1> SUFFICES ASSUME NEW address \in U32, NEW length \in 0..MaxLength, NEW pad \in BOOLEAN,
                      NEW data \in [1..length -> Byte], NEW done \in 0..Units(length, Word),
                      Return("write", Write(flash, address, data, pad, done))
               PROVE  /\ KeptOutside(AppB, flash, flash') \/ KeptOutside(Metadata, flash, flash')
                      /\ EraseIsWhole'
    BY DEF CallWrite
  <1> DEFINE result == Write(flash, address, data, pad, done)
  <1>1. \/ \A a \in Address : result.mem[a] = flash[a]
        \/ KeptOutside(AppB, flash, result.mem)
        \/ KeptOutside(Metadata, flash, result.mem)
    BY WriteStaysIn
  <1>2. flash' = result.mem /\ last' = [op |-> "write", ok |-> result.ok]
    BY DEF Return
  <1> HIDE DEF result
  <1>3. KeptOutside(AppB, flash, flash') \/ KeptOutside(Metadata, flash, flash')
    BY <1>1, <1>2 DEF KeptOutside
  <1>4. EraseIsWhole'
    BY <1>2 DEF EraseIsWhole
  <1> QED BY <1>3, <1>4

(* Every step of every behaviour changes one area at most.                 *)
THEOREM OneArea == CallsSpec => OneAreaPerCall
  <1>1. [CallsNext]_calls => [Kept(Address \ AppB) \/ Kept(Address \ Metadata)]_calls
    <2> SUFFICES ASSUME CallsNext
                 PROVE  Kept(Address \ AppB) \/ Kept(Address \ Metadata)
      BY DEF calls
    <2> QED
      BY EraseAppBStep, EraseMetadataStep, WriteStep DEF CallsNext, Kept, KeptOutside
  <1> QED BY <1>1, PTL DEF CallsSpec, OneAreaPerCall

(* An erase that reports success has blanked its whole area.               *)
THEOREM WholeErase == CallsSpec => []EraseIsWhole
  <1>1. CallsInit => EraseIsWhole
    BY DEF CallsInit, EraseIsWhole
  <1>2. EraseIsWhole /\ [CallsNext]_calls => EraseIsWhole'
    <2>1. CASE CallsNext
      BY <2>1, EraseAppBStep, EraseMetadataStep, WriteStep DEF CallsNext
    <2>2. EraseIsWhole /\ UNCHANGED calls => EraseIsWhole'
      BY DEF EraseIsWhole, calls
    <2> QED BY <2>1, <2>2
  <1> QED BY <1>1, <1>2, PTL DEF CallsSpec
-----------------------------------------------------------------------------
(* An erase leaves bytes.                                                  *)
LEMMA EraseRangeTyped ==
    ASSUME NEW m \in Memory, NEW start, NEW length, NEW done
    PROVE  /\ EraseRange(m, start, length, done).mem \in Memory
           /\ EraseRange(m, start, length, done).ok \in BOOLEAN
  <1>1. Erase(m, start, done) \in Memory
    BY ByteAssumption DEF Erase, Memory
  <1> QED BY <1>1 DEF EraseRange

(* A write leaves the bytes it was given, or padding.                      *)
LEMMA WriteTyped ==
    ASSUME NEW m \in Memory, NEW address \in U32, NEW length \in 0..MaxLength,
           NEW data \in [1..length -> Byte], NEW pad, NEW done
    PROVE  /\ Write(m, address, data, pad, done).mem \in Memory
           /\ Write(m, address, data, pad, done).ok \in BOOLEAN
  <1>1. Len(data) = length /\ length \in Nat /\ address \in Nat /\ Word \in Nat \ {0}
    BY LengthAssumption, WidthAssumption, SMT DEF U32
  <1>2. ASSUME NEW words \in SUBSET Nat PROVE Program(m, address, data, words) \in Memory
    <2>1. ASSUME NEW a \in Address, NEW i \in words,
                 a \in address + i * Word .. address + i * Word + Word - 1
          PROVE  a - address < Len(data) => data[a - address + 1] \in Byte
      <3>1. i * Word \in Nat
        BY <1>1, SMT
      <3>2. a \in Nat /\ address <= a
        BY <1>1, <2>1, <3>1, LayoutAssumption, SMT DEF Address
      <3>3. a - address < length => a - address + 1 \in 1..length
        BY <1>1, <3>2, SMT
      <3> QED BY <1>1, <3>3
    <2>2. ASSUME NEW a \in Address
          PROVE  (IF \E i \in words : a \in address + i * Word .. address + i * Word + Word - 1
                    THEN IF a - address < Len(data) THEN data[a - address + 1] ELSE Padding
                    ELSE m[a]) \in Byte
      BY <2>1, ByteAssumption DEF Padding, Memory
    <2> QED BY <2>2 DEF Program, Memory
  <1>3. Written(m, address, Len(data), pad, done) \in SUBSET Nat
    BY SMT DEF Written
  <1> QED BY <1>2, <1>3 DEF Write

(* The flash always holds bytes, and a call returns yes or no.             *)
THEOREM TypeCorrect == CallsSpec => []TypeOK
  <1>1. CallsInit => TypeOK
    BY DEF CallsInit, TypeOK, Call
  <1>2. TypeOK /\ [CallsNext]_calls => TypeOK'
    <2> SUFFICES ASSUME TypeOK, [CallsNext]_calls
                 PROVE  TypeOK'
      OBVIOUS
    <2>1. CASE CallEraseAppB
      BY <2>1, EraseRangeTyped DEF CallEraseAppB, Return, TypeOK, Call
    <2>2. CASE CallEraseMetadata
      BY <2>2, EraseRangeTyped DEF CallEraseMetadata, Return, TypeOK, Call
    <2>3. CASE CallWrite
      BY <2>3, WriteTyped DEF CallWrite, Return, TypeOK, Call
    <2>4. CASE UNCHANGED calls
      BY <2>4 DEF calls, TypeOK
    <2> QED BY <2>1, <2>2, <2>3, <2>4 DEF CallsNext
  <1> QED BY <1>1, <1>2, PTL DEF CallsSpec
=============================================================================
