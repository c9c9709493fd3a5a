-------------------------- MODULE FlashConfigProofs --------------------------
(***************************************************************************)
(* Theorems about FlashConfig: what an update writes does not overlap,     *)
(* what it has stored is read back, and what power failures leave behind   *)
(* is at worst erased.  All hold for any number and length of variables    *)
(* that fit the page, and any values.                                      *)
(***************************************************************************)
EXTENDS FlashConfig, TLAPS

-------------------------------------------------------------------------------
(* Where the k-th half-word goes: PerVar of them for each variable.           *)

LEMMA Sizes ==
  /\ VarCount \in Nat /\ Len2 \in Nat \ {0} /\ PerVar \in Nat /\ PerVar = 4 + Len2
  /\ PageSize \in Nat /\ PageSize <= 512 /\ VarCount <= 127
  /\ VarCount * Len2 \in Nat /\ VarCount * PerVar \in Nat
  /\ VarCount * PerVar = 4 * VarCount + VarCount * Len2
  /\ WriteCount = VarCount * PerVar + 4 /\ WriteCount \in Nat /\ WriteCount <= PageSize
BY SizeAssumption DEF PerVar, WriteCount

LEMMA Quotient ==
  ASSUME NEW a \in Nat, NEW d \in Nat \ {0}
  PROVE  /\ a \div d \in Nat /\ a % d \in 0..(d - 1)
         /\ a = d * (a \div d) + (a % d)
OBVIOUS

LEMMA Product ==
  ASSUME NEW d \in Nat, NEW q \in Nat, NEW k \in Nat, q <= k
  PROVE  /\ d * q \in Nat /\ d * k \in Nat
         /\ d * q <= d * k
         /\ q < k => d * q + d <= d * k
<1>1. PICK n \in Nat : k = q + n
  <2>1. k - q \in Nat
    OBVIOUS
  <2> QED
    BY <2>1
<1>2. d * k = d * q + d * n
  BY <1>1
<1>3. d * n \in Nat /\ (n > 0 => d * n >= d)
  OBVIOUS
<1>4. d * q \in Nat
  OBVIOUS
<1> QED
  BY <1>1, <1>2, <1>3, <1>4

(* A number has one quotient and one remainder.                               *)
LEMMA Unique ==
  ASSUME NEW d \in Nat, NEW q \in Nat, NEW r \in 0..(d - 1),
         NEW p \in Nat, NEW s \in 0..(d - 1), d * q + r = d * p + s
  PROVE  q = p /\ r = s
<1>1. d * q \in Nat /\ d * p \in Nat
  OBVIOUS
<1>2. ~(q < p)
  <2> SUFFICES ASSUME q < p PROVE FALSE
    OBVIOUS
  <2>1. d * q + d <= d * p
    BY Product
  <2> QED
    BY <1>1, <2>1
<1>3. ~(p < q)
  <2> SUFFICES ASSUME p < q PROVE FALSE
    OBVIOUS
  <2>1. d * p + d <= d * q
    BY Product
  <2> QED
    BY <1>1, <2>1
<1>4. q = p
  BY <1>2, <1>3
<1> QED
  BY <1>1, <1>4

(* The k-th half-word is the r-th of variable q + 1; after the variables come *)
(* the four of the end of the list.                                           *)
LEMMA Split ==
  ASSUME NEW k \in 0..(WriteCount - 1)
  PROVE  \E q \in 0..VarCount, r \in 0..(PerVar - 1) :
           /\ k \div PerVar = q /\ k % PerVar = r
           /\ k = PerVar * q + r
           /\ q = VarCount => r <= 3
<1>1. PerVar \in Nat \ {0} /\ k \in Nat
  BY Sizes
<1>2. PICK q \in Nat, r \in 0..(PerVar - 1) :
        k \div PerVar = q /\ k % PerVar = r /\ k = PerVar * q + r
  BY <1>1, Quotient
<1>3. PerVar * q \in Nat
  BY <1>1, <1>2
<1>4. q <= VarCount
  <2> SUFFICES ASSUME VarCount + 1 <= q PROVE FALSE
    BY <1>2, Sizes
  <2>1. PerVar * VarCount + PerVar <= PerVar * q
    BY <1>1, <1>2, Sizes, Product
  <2> QED
    BY <1>1, <1>2, <1>3, <2>1, Sizes
<1>5. q = VarCount => r <= 3
  BY <1>1, <1>2, <1>3, Sizes
<1> QED
  BY <1>2, <1>4, <1>5, Sizes

(* The half-word with a given place.                                          *)
LEMMA Joined ==
  ASSUME NEW q \in 0..VarCount, NEW r \in 0..(PerVar - 1), q = VarCount => r <= 3
  PROVE  /\ PerVar * q + r \in 0..(WriteCount - 1)
         /\ (PerVar * q + r) \div PerVar = q /\ (PerVar * q + r) % PerVar = r
<1>1. PerVar \in Nat \ {0} /\ q \in Nat /\ r \in Nat /\ PerVar * q \in Nat
  BY Sizes
<1>2. PICK k \in Nat : k = PerVar * q + r
  BY <1>1
<1>3. k \div PerVar = q /\ k % PerVar = r
  <2>1. /\ k \div PerVar \in Nat /\ k % PerVar \in 0..(PerVar - 1)
        /\ k = PerVar * (k \div PerVar) + (k % PerVar)
    BY <1>1, Quotient
  <2> QED
    BY <1>1, <1>2, <2>1, Unique
<1>4. k < WriteCount
  <2>1. CASE q < VarCount
    <3>1. PerVar * q + PerVar <= PerVar * VarCount
      BY <1>1, <2>1, Sizes, Product
    <3> QED
      BY <1>1, <1>2, <3>1, Sizes
  <2>2. CASE q = VarCount
    BY <1>1, <1>2, <2>2, Sizes
  <2> QED
    BY <2>1, <2>2, Sizes
<1> QED
  BY <1>2, <1>3, <1>4, Sizes

-------------------------------------------------------------------------------
(* The address of the r-th half-word of variable q + 1. *)
At(q, r) == IF r < 4 THEN 4 * q + r ELSE 4 * (VarCount + 1) + Len2 * q + (r - 4)

LEMMA ProgramAt ==
  ASSUME NEW k, NEW q \in 0..VarCount, NEW r \in 0..(PerVar - 1),
         k \div PerVar = q, k % PerVar = r
  PROVE  /\ Program(k).addr = At(q, r)
         /\ Program(k).val = IF r < 4 THEN Record(q + 1)[r + 1] ELSE ram[q + 1][r - 3]
<1>1. q \in Nat /\ r \in Nat
  BY Sizes
<1>2. 4 * (q + 1 - 1) + r = 4 * q + r /\ (q + 1) - 1 = q
  BY <1>1
<1>3. CASE r < 4
  BY <1>1, <1>2, <1>3 DEF Program, At
<1>4. CASE ~(r < 4)
  <2>1. Len2 * q \in Nat
    BY <1>1, Sizes
  <2>2. DataStart(q + 1) + r - 4 = 4 * (VarCount + 1) + Len2 * q + (r - 4)
    BY <1>1, <1>2, <2>1, Sizes DEF DataStart
  <2> QED
    BY <1>4, <2>2 DEF Program, At
<1> QED
  BY <1>3, <1>4

LEMMA AtRange ==
  ASSUME NEW q \in 0..VarCount, NEW r \in 0..(PerVar - 1), q = VarCount => r <= 3
  PROVE  /\ At(q, r) \in Addresses
         /\ r < 4 <=> At(q, r) < 4 * (VarCount + 1)
<1>1. q \in Nat /\ r \in Nat /\ Len2 * q \in Nat
  BY Sizes
<1>2. CASE r < 4
  BY <1>1, <1>2, Sizes, SizeAssumption DEF At, Addresses
<1>3. CASE ~(r < 4)
  <2>1. q < VarCount
    BY <1>1, <1>3, Sizes
  <2>2. Len2 * q + Len2 <= Len2 * VarCount
    BY <1>1, <2>1, Sizes, Product
  <2>3. Len2 * VarCount = VarCount * Len2
    BY Sizes
  <2> QED
    BY <1>1, <1>3, <2>2, <2>3, Sizes, SizeAssumption DEF At, Addresses
<1> QED
  BY <1>2, <1>3

(* No two of the half-words an update programs have the same address.         *)
LEMMA Apart ==
  ASSUME NEW k \in 0..(WriteCount - 1), NEW j \in 0..(WriteCount - 1),
         Program(k).addr = Program(j).addr
  PROVE  k = j
<1>1. PICK q \in 0..VarCount, r \in 0..(PerVar - 1) :
        k \div PerVar = q /\ k % PerVar = r /\ k = PerVar * q + r /\ (q = VarCount => r <= 3)
  BY Split
<1>2. PICK p \in 0..VarCount, s \in 0..(PerVar - 1) :
        j \div PerVar = p /\ j % PerVar = s /\ j = PerVar * p + s /\ (p = VarCount => s <= 3)
  BY Split
<1>3. At(q, r) = At(p, s)
  BY <1>1, <1>2, ProgramAt
<1>4. r < 4 <=> s < 4
  BY <1>1, <1>2, <1>3, AtRange
<1>5. q = p /\ r = s
  <2>1. CASE r < 4
    <3>1. 4 * q + r = 4 * p + s
      BY <1>3, <1>4, <2>1 DEF At
    <3> QED
      BY <1>1, <1>2, <1>4, <2>1, <3>1, Sizes
  <2>2. CASE ~(r < 4)
    <3>1. Len2 * q + (r - 4) = Len2 * p + (s - 4)
      <4>1. Len2 * q \in Nat /\ Len2 * p \in Nat /\ r \in Nat /\ s \in Nat
        BY <1>1, <1>2, Sizes
      <4> QED
        BY <1>3, <1>4, <2>2, <4>1, Sizes DEF At
    <3>2. r - 4 \in 0..(Len2 - 1) /\ s - 4 \in 0..(Len2 - 1) /\ q \in Nat /\ p \in Nat
      BY <1>1, <1>2, <1>4, <2>2, Sizes
    <3>3. q = p /\ r - 4 = s - 4
      BY <3>1, <3>2, Sizes, Unique
    <3> QED
      BY <1>1, <1>2, <3>3, Sizes
  <2> QED
    BY <2>1, <2>2
<1> QED
  BY <1>1, <1>2, <1>5

LEMMA InPageAddress ==
  ASSUME NEW k \in 0..(WriteCount - 1)
  PROVE  Program(k).addr \in Addresses
<1>1. PICK q \in 0..VarCount, r \in 0..(PerVar - 1) :
        k \div PerVar = q /\ k % PerVar = r /\ k = PerVar * q + r /\ (q = VarCount => r <= 3)
  BY Split
<1> QED
  BY <1>1, ProgramAt, AtRange

(* Which half-word is where: those of the records, of the end and of data.    *)
LEMMA RecordWord ==
  ASSUME NEW a \in 0..VarCount, NEW i \in 0..3
  PROVE  \E k \in 0..(WriteCount - 1) :
           Program(k) = [addr |-> 4 * a + i, val |-> Record(a + 1)[i + 1]]
<1>1. i \in 0..(PerVar - 1) /\ (a = VarCount => i <= 3)
  BY Sizes
<1>2. PICK k : k = PerVar * a + i
  OBVIOUS
<1>3. k \in 0..(WriteCount - 1) /\ k \div PerVar = a /\ k % PerVar = i
  BY <1>1, <1>2, Joined
<1>4. 4 * (a + 1 - 1) + i = 4 * a + i
  OBVIOUS
<1> QED
  BY <1>3, <1>4 DEF Program

LEMMA DataWord ==
  ASSUME NEW v \in Vars, NEW i \in 1..Len2
  PROVE  \E k \in 0..(WriteCount - 1) :
           Program(k) = [addr |-> DataStart(v) + i - 1, val |-> ram[v][i]]
<1>1. v - 1 \in 0..VarCount /\ v - 1 # VarCount /\ i + 3 \in 0..(PerVar - 1) /\ (v - 1) + 1 = v
  BY Sizes DEF Vars
<1>2. PICK k : k = PerVar * (v - 1) + (i + 3)
  OBVIOUS
<1>3. k \in 0..(WriteCount - 1) /\ k \div PerVar = v - 1 /\ k % PerVar = i + 3
  BY <1>1, <1>2, Joined
<1>4. Program(k) = [addr |-> DataStart(v) + (i + 3) - 4, val |-> ram[v][(i + 3) - 3]]
  BY <1>1, <1>3 DEF Program
<1>5. DataStart(v) \in Int
  <2>1. Len2 * (v - 1) \in Int
    BY Sizes DEF Vars
  <2> QED
    BY <2>1, Sizes DEF DataStart
<1>6. DataStart(v) + (i + 3) - 4 = DataStart(v) + i - 1 /\ (i + 3) - 3 = i
  BY <1>5
<1> QED
  BY <1>3, <1>4, <1>6

LEMMA DataRange ==
  ASSUME NEW v \in Vars
  PROVE  /\ DataStart(v) \in Addresses /\ DataStart(v) \in Nat /\ DataStart(v) <= 511
         /\ \A i \in 1..Len2 : DataStart(v) + i - 1 \in Addresses
<1>1. v - 1 \in Nat /\ v - 1 < VarCount
  BY Sizes DEF Vars
<1>2. Len2 * (v - 1) + Len2 <= Len2 * VarCount /\ Len2 * (v - 1) \in Nat
  BY <1>1, Sizes, Product
<1>3. Len2 * VarCount = VarCount * Len2
  BY Sizes
<1>4. PICK x, y : x = Len2 * (v - 1) /\ y = Len2 * VarCount
  OBVIOUS
<1>5. /\ x \in Nat /\ y \in Nat /\ x + Len2 <= y
      /\ 4 * (VarCount + 1) + y <= PageSize /\ PageSize \in Nat /\ PageSize <= 512
  BY <1>2, <1>3, <1>4, Sizes, SizeAssumption
<1>6. DataStart(v) = 4 * (VarCount + 1) + x
  BY <1>4 DEF DataStart
<1> HIDE <1>4
<1> QED
  BY <1>5, <1>6, Sizes DEF Addresses

-------------------------------------------------------------------------------
(* Pointers and records: the low half-words tell them apart. *)

DescLow(v) == 4096 + 20 * v
PageLow(d) == 64512 + 2 * d

LEMMA VarRange == ASSUME NEW v \in Vars PROVE v \in Nat /\ v >= 1 /\ v <= 127 /\ v <= VarCount
BY Sizes DEF Vars

LEMMA ErasedType == Erased \in Int
BY DEF Erased

LEMMA HalfWord == \A n : n \in HalfWords <=> n \in Int /\ 0 <= n /\ n <= Erased
BY ErasedType DEF HalfWords

LEMMA HalfWordRange ==
  ASSUME NEW n \in Int, n >= 0, n < 65535
  PROVE  n \in HalfWords /\ n # Erased
BY HalfWord DEF Erased

LEMMA DescRange ==
  ASSUME NEW v \in Vars
  PROVE  DescLow(v) \in HalfWords /\ DescLow(v) # 0 /\ DescLow(v) # Erased
<1>1. v \in Int /\ v >= 1 /\ v <= 127
  BY VarRange
<1>2. 4096 + 20 * v \in Int /\ 4096 + 20 * v >= 4116 /\ 4096 + 20 * v <= 6636
  BY <1>1
<1>3. DescLow(v) \in Int /\ DescLow(v) >= 4116 /\ DescLow(v) <= 6636
  BY <1>2 DEF DescLow
<1> QED
  BY <1>3, HalfWordRange

LEMMA DescUnique ==
  ASSUME NEW v \in Vars, NEW w \in Vars, DescLow(v) = DescLow(w)
  PROVE  v = w
<1>1. v \in Int /\ w \in Int
  BY VarRange
<1>2. 4096 + 20 * v = 4096 + 20 * w
  BY DEF DescLow
<1> QED
  BY <1>1, <1>2

LEMMA PageRange ==
  ASSUME NEW d \in Addresses
  PROVE  /\ PageLow(d) \in HalfWords /\ PageLow(d) # 0 /\ PageLow(d) # Erased
         /\ (PageLow(d) - 64512) \div 2 = d
<1>1. d \in Int /\ d >= 0 /\ d <= 511
  BY Sizes, SizeAssumption DEF Addresses
<1>2. 64512 + 2 * d \in Int /\ 64512 + 2 * d > 0 /\ 64512 + 2 * d < 65535
  BY <1>1
<1>3. PageLow(d) - 64512 = 2 * d
  BY <1>1 DEF PageLow
<1>4. (PageLow(d) - 64512) \div 2 = d
  BY <1>1, <1>3
<1>5. PageLow(d) # 0
  BY <1>2 DEF PageLow
<1>6. PageLow(d) \in HalfWords /\ PageLow(d) # Erased
  BY <1>2, HalfWordRange DEF PageLow
<1> QED
  BY <1>4, <1>5, <1>6

LEMMA RecordOf ==
  ASSUME NEW v \in Vars
  PROVE  /\ Record(v)[1] = DescLow(v) /\ Record(v)[2] = 2048
         /\ Record(v)[3] = PageLow(DataStart(v)) /\ Record(v)[4] = 2048
<1>1. ~(v > VarCount)
  BY VarRange, Sizes
<1> QED
  BY <1>1 DEF Record, DescriptorPtr, PagePtr, DescLow, PageLow

LEMMA GuardOf ==
  /\ Record(VarCount + 1)[1] = 0 /\ Record(VarCount + 1)[2] = 0
  /\ Record(VarCount + 1)[3] = 0 /\ Record(VarCount + 1)[4] = 0
<1>1. VarCount + 1 > VarCount
  BY Sizes
<1> QED
  BY <1>1 DEF Record, Null

LEMMA RecordsAre == VarCount \in Records /\ \A a \in 0..VarCount : a \in Records
<1>1. 4 * (VarCount + 1) <= PageSize
  BY Sizes, SizeAssumption
<1>2. VarCount + 1 <= PageSize \div 4
  BY <1>1, Sizes, SizeAssumption
<1> QED
  BY <1>2, Sizes, SizeAssumption DEF Records

LEMMA MatchWords ==
  ASSUME NEW a, NEW v, Matches(a, v)
  PROVE  /\ Word(a, 0) = DescLow(v)
         /\ \E d \in Addresses : Word(a, 2) = PageLow(d)
<1>1. DescField(a) = DescriptorPtr(v) /\ InPage(DataField(a))
  BY DEF Matches
<1>2. PICK d \in Addresses : DataField(a) = PagePtr(d)
  BY <1>1 DEF InPage
<1>3. DescField(a)[1] = Word(a, 0) /\ DescriptorPtr(v)[1] = DescLow(v)
  BY DEF DescField, DescriptorPtr, DescLow
<1>4. DataField(a)[1] = Word(a, 2) /\ PagePtr(d)[1] = PageLow(d)
  BY DEF DataField, PagePtr, PageLow
<1> QED
  BY <1>1, <1>2, <1>3, <1>4

(* The descriptor of a record that is read is the one that was written.       *)
LEMMA MatchIs ==
  ASSUME Layout, NEW a \in Records, NEW v \in Vars, Matches(a, v)
  PROVE  a = v - 1 /\ Address(DataField(a)) = DataStart(v)
<1>1. a \in 0..(VarCount - 1)
  <2>1. ~EndsList(a) /\ (VarCount <= a => ~EndsList(VarCount))
    BY RecordsAre, Sizes DEF Matches, InList
  <2>2. a \in Nat
    BY Sizes, SizeAssumption DEF Records
  <2> QED
    BY <2>1, <2>2, Sizes DEF Layout
<1>2. a + 1 \in Vars
  BY <1>1, Sizes DEF Vars
<1>3. Word(a, 0) \in {Record(a + 1)[1], Erased} /\ Word(a, 2) \in {Record(a + 1)[3], Erased}
  <2>1. \A i \in 0..3 : Word(a, i) \in {Record(a + 1)[i + 1], Erased}
    BY <1>1 DEF Layout
  <2>2. 0 \in 0..3 /\ 2 \in 0..3 /\ 0 + 1 = 1 /\ 2 + 1 = 3
    OBVIOUS
  <2> QED
    BY <2>1, <2>2
<1>4. Word(a, 0) = DescLow(v)
  BY MatchWords
<1>5. a + 1 = v
  <2>1. DescLow(v) = DescLow(a + 1)
    BY <1>2, <1>3, <1>4, RecordOf, DescRange
  <2> QED
    BY <1>2, <2>1, DescUnique
<1>6. PICK d \in Addresses : Word(a, 2) = PageLow(d)
  BY MatchWords
<1>7. Word(a, 2) = PageLow(DataStart(v))
  <2>1. Word(a, 2) # Erased
    BY <1>6, PageRange
  <2> QED
    BY <1>3, <1>5, <2>1, RecordOf
<1>8. Address(DataField(a)) = (PageLow(DataStart(v)) - 64512) \div 2
  <2>1. DataField(a)[1] = Word(a, 2)
    BY DEF DataField
  <2>2. Address(DataField(a)) = (DataField(a)[1] - 64512) \div 2
    BY DEF Address
  <2> QED
    BY <1>7, <2>1, <2>2
<1>9. a = v - 1
  BY <1>1, <1>5
<1> QED
  BY <1>8, <1>9, DataRange, PageRange

LEMMA StoredIs ==
  ASSUME Layout, NEW v \in Vars, HasRecord(v)
  PROVE  StoredAt(v) = DataStart(v) /\ Matches(v - 1, v)
<1>1. PICK a \in Records : Matches(a, v)
  BY DEF HasRecord
<1>2. \A b \in Records : Matches(b, v) => b = a
  BY <1>1, MatchIs
<1>3. a <= a
  BY Sizes, SizeAssumption DEF Records
<1>4. PICK c : c = CHOOSE x \in Records : Matches(x, v) /\ \A b \in Records : Matches(b, v) => b <= x
  OBVIOUS
<1>5. c \in Records /\ Matches(c, v)
  BY <1>1, <1>2, <1>3, <1>4
<1>6. StoredAt(v) = Address(DataField(c))
  BY <1>4 DEF StoredAt
<1> QED
  BY <1>1, <1>5, <1>6, MatchIs

LEMMA LoadIs ==
  ASSUME Layout, NEW v \in Vars, HasRecord(v)
  PROVE  Load(v) = [i \in 1..Len2 |-> flash[DataStart(v) + i - 1]]
BY StoredIs DEF Load

(* A record that was not begun is not found.                                  *)
LEMMA BegunRecord ==
  ASSUME Layout, NEW v \in Vars, HasRecord(v)
  PROVE  Word(v - 1, 0) # Erased
BY StoredIs, MatchWords, DescRange

-------------------------------------------------------------------------------
(* What an update leaves behind, finished or torn. *)

(* The half-words written so far are right, the others erased.                *)
LEMMA WrittenWord ==
  ASSUME Prefix, NEW k \in 0..(WriteCount - 1)
  PROVE  /\ flash[Program(k).addr] \in {Program(k).val, Erased}
         /\ at = WriteCount => flash[Program(k).addr] = Program(k).val
BY Sizes DEF Prefix

LEMMA PrefixWords ==
  ASSUME Prefix, NEW a \in 0..VarCount, NEW i \in 0..3
  PROVE  /\ Word(a, i) \in {Record(a + 1)[i + 1], Erased}
         /\ at = WriteCount => Word(a, i) = Record(a + 1)[i + 1]
BY RecordWord, WrittenWord DEF Word

LEMMA PrefixData ==
  ASSUME Prefix, NEW v \in Vars, NEW i \in 1..Len2
  PROVE  /\ flash[DataStart(v) + i - 1] \in {ram[v][i], Erased}
         /\ at = WriteCount => flash[DataStart(v) + i - 1] = ram[v][i]
BY DataWord, WrittenWord

(* The end of the list is written last and from its beginning.                *)
LEMMA PrefixEnds ==
  ASSUME Prefix, at \in Nat
  PROVE  EndsList(VarCount)
<1> DEFINE g(i) == PerVar * VarCount + i
<1>1. PerVar * VarCount \in Nat /\ WriteCount = PerVar * VarCount + 4
  BY Sizes
<1>2. ASSUME NEW i \in 0..3
      PROVE  Word(VarCount, i) = IF PerVar * VarCount + i < at THEN 0 ELSE Erased
  <2>1. /\ PerVar * VarCount + i \in 0..(WriteCount - 1)
        /\ (PerVar * VarCount + i) \div PerVar = VarCount
        /\ (PerVar * VarCount + i) % PerVar = i
    BY Sizes, Joined
  <2>2. /\ Program(PerVar * VarCount + i).addr = 4 * VarCount + i
        /\ Program(PerVar * VarCount + i).val = Record(VarCount + 1)[i + 1]
    <3>1. VarCount \in 0..VarCount /\ i \in 0..(PerVar - 1) /\ i < 4
      BY Sizes
    <3> QED
      BY <2>1, <3>1, ProgramAt DEF At
  <2>3. Record(VarCount + 1)[i + 1] = 0
    <3>1. i = 0 \/ i = 1 \/ i = 2 \/ i = 3
      OBVIOUS
    <3>2. 0 + 1 = 1 /\ 1 + 1 = 2 /\ 2 + 1 = 3 /\ 3 + 1 = 4
      OBVIOUS
    <3> QED
      BY <3>1, <3>2, GuardOf
  <2> QED
    BY <2>1, <2>2, <2>3 DEF Prefix, Word
<1>3. CASE PerVar * VarCount + 1 < at
  <2>1. Word(VarCount, 0) = 0 /\ Word(VarCount, 1) = 0
    BY <1>1, <1>2, <1>3
  <2> QED
    BY <2>1 DEF EndsList, DescField, Null
<1>4. CASE ~(PerVar * VarCount + 1 < at)
  <2>1. Word(VarCount, 2) = Erased /\ Word(VarCount, 3) = Erased
    BY <1>1, <1>2, <1>4
  <2> QED
    BY <2>1 DEF EndsList, DataField, AllOnes
<1> QED
  BY <1>3, <1>4

LEMMA PrefixLayout ==
  ASSUME Prefix, at \in Nat
  PROVE  Layout
<1>1. \A a \in 0..(VarCount - 1), i \in 0..3 : Word(a, i) \in {Record(a + 1)[i + 1], Erased}
  BY PrefixWords, Sizes
<1> QED
  BY <1>1, PrefixEnds DEF Layout

(* What is complete is found.                                                 *)
LEMMA CompleteRecord ==
  ASSUME Prefix, at = WriteCount, NEW v \in Vars
  PROVE  HasRecord(v)
<1>1. v - 1 \in 0..(VarCount - 1) /\ v - 1 \in Records /\ (v - 1) + 1 = v
  BY VarRange, RecordsAre, Sizes
<1>2. ASSUME NEW b \in 0..(VarCount - 1)
      PROVE  /\ DescField(b) = DescriptorPtr(b + 1)
             /\ DataField(b) = PagePtr(DataStart(b + 1))
             /\ ~EndsList(b)
  <2>1. b + 1 \in Vars /\ b \in 0..VarCount
    BY Sizes DEF Vars
  <2>2. \A i \in 0..3 : Word(b, i) = Record(b + 1)[i + 1]
    BY <2>1, PrefixWords
  <2>3. /\ Word(b, 0) = Record(b + 1)[1] /\ Word(b, 1) = Record(b + 1)[2]
        /\ Word(b, 2) = Record(b + 1)[3] /\ Word(b, 3) = Record(b + 1)[4]
    <3>1. 0 + 1 = 1 /\ 1 + 1 = 2 /\ 2 + 1 = 3 /\ 3 + 1 = 4
      OBVIOUS
    <3> QED
      BY <2>2, <3>1
  <2>4. /\ Word(b, 0) = DescLow(b + 1) /\ Word(b, 1) = 2048
        /\ Word(b, 2) = PageLow(DataStart(b + 1)) /\ Word(b, 3) = 2048
    BY <2>1, <2>3, RecordOf
  <2>5. DescField(b) = <<DescLow(b + 1), 2048>> /\ DataField(b) = <<PageLow(DataStart(b + 1)), 2048>>
    BY <2>4 DEF DescField, DataField
  <2>6. ~EndsList(b)
    BY <2>5 DEF EndsList, Null, AllOnes, Erased
  <2> QED
    BY <2>5, <2>6 DEF DescriptorPtr, PagePtr, DescLow, PageLow
<1>3. InList(v - 1)
  <2>1. ASSUME NEW b \in Records, b <= v - 1 PROVE b \in 0..(VarCount - 1)
    BY <1>1, <2>1, Sizes, SizeAssumption DEF Records
  <2> QED
    BY <1>2, <2>1 DEF InList
<1>4. InPage(DataField(v - 1))
  BY <1>1, <1>2, DataRange DEF InPage
<1>5. Matches(v - 1, v)
  BY <1>1, <1>2, <1>3, <1>4 DEF Matches
<1> QED
  BY <1>1, <1>5 DEF HasRecord

(* Named, so that the lemmas about them can be read of the next state too.    *)
Torn    == Layout /\ \A v \in Vars : Data(v)
Writing == Prefix /\ at \in Nat /\ \A v \in Vars : ram[v] \in wanted[v]
Blank   == flash = [a \in Addresses |-> Erased]

LEMMA TornOK == Writing => Torn
  BY PrefixLayout, PrefixData DEF Writing, Torn, Data

LEMMA CompleteOK ==
  TypeOK /\ Prefix /\ at = WriteCount
    => \A v \in Vars : HasRecord(v) /\ Load(v) = ram[v]
<1> SUFFICES ASSUME TypeOK, Prefix, at = WriteCount, NEW v \in Vars
             PROVE  HasRecord(v) /\ Load(v) = ram[v]
  OBVIOUS
<1>1. HasRecord(v) /\ Layout
  BY CompleteRecord, PrefixLayout, Sizes
<1>2. Load(v) = [i \in 1..Len2 |-> ram[v][i]]
  BY <1>1, LoadIs, PrefixData
<1>3. ram[v] \in [1..Len2 -> HalfWords]
  BY DEF TypeOK
<1> QED
  BY <1>1, <1>2, <1>3

-------------------------------------------------------------------------------
(* The inductive invariant, action by action.                                 *)

LEMMA ProgramType ==
  ASSUME TypeOK, NEW k \in 0..(WriteCount - 1)
  PROVE  Program(k).val \in HalfWords
<1>1. PICK q \in 0..VarCount, r \in 0..(PerVar - 1) :
        k \div PerVar = q /\ k % PerVar = r /\ k = PerVar * q + r /\ (q = VarCount => r <= 3)
  BY Split
<1>2. Program(k).val = IF r < 4 THEN Record(q + 1)[r + 1] ELSE ram[q + 1][r - 3]
  BY <1>1, ProgramAt
<1>3. CASE r < 4
  <2>1. r + 1 = 1 \/ r + 1 = 2 \/ r + 1 = 3 \/ r + 1 = 4
    BY <1>1, <1>3, Sizes
  <2>2. 0 \in HalfWords /\ 2048 \in HalfWords
    BY HalfWordRange
  <2>3. CASE q = VarCount
    BY <1>2, <1>3, <2>1, <2>2, <2>3, GuardOf
  <2>4. CASE q # VarCount
    <3>1. q + 1 \in Vars
      BY <1>1, <2>4, Sizes DEF Vars
    <3> QED
      BY <1>2, <1>3, <2>1, <2>2, <3>1, RecordOf, DescRange, DataRange, PageRange
  <2> QED
    BY <2>3, <2>4
<1>4. CASE ~(r < 4)
  <2>1. q + 1 \in Vars /\ r - 3 \in 1..Len2
    BY <1>1, <1>4, Sizes DEF Vars
  <2> QED
    BY <1>2, <1>4, <2>1 DEF TypeOK
<1> QED
  BY <1>3, <1>4

LEMMA LoadType ==
  ASSUME TypeOK, Layout, NEW v \in Vars
  PROVE  Load(v) \in [1..Len2 -> HalfWords]
<1>1. CASE HasRecord(v)
  BY <1>1, LoadIs, DataRange DEF TypeOK
<1>2. CASE ~HasRecord(v)
  BY <1>2, ValueAssumption DEF Load
<1> QED
  BY <1>1, <1>2

(* The list is read from the page only.                                       *)
LEMMA SamePage ==
  ASSUME flash' = flash
  PROVE  /\ Layout' <=> Layout
         /\ \A v \in Vars : HasRecord(v)' = HasRecord(v) /\ Load(v)' = Load(v)
         /\ \A v \in Vars : wanted[v] \subseteq wanted'[v] /\ Data(v) => Data(v)'
<1>1. \A a, i : Word(a, i)' = Word(a, i)
  BY DEF Word
<1>2. \A a : DescField(a)' = DescField(a) /\ DataField(a)' = DataField(a)
  BY <1>1 DEF DescField, DataField
<1>3. \A a : EndsList(a)' = EndsList(a)
  BY <1>2 DEF EndsList
<1>4. \A a : InList(a)' = InList(a)
  BY <1>3 DEF InList
<1>5. \A a, v : Matches(a, v)' = Matches(a, v)
  BY <1>2, <1>4 DEF Matches
<1>6. \A v : HasRecord(v)' = HasRecord(v)
  BY <1>5 DEF HasRecord
<1>7. \A v : StoredAt(v)' = StoredAt(v)
  BY <1>2, <1>5 DEF StoredAt
<1>8. \A v : Load(v)' = Load(v)
  BY <1>6, <1>7 DEF Load
<1>9. Layout' <=> Layout
  BY <1>1, <1>3 DEF Layout
<1>10. ASSUME NEW v \in Vars, wanted[v] \subseteq wanted'[v], Data(v) PROVE Data(v)'
  BY <1>1, <1>10 DEF Data
<1> QED
  BY <1>6, <1>8, <1>9, <1>10

LEMMA BlankPage == Blank => Torn
<1> SUFFICES ASSUME flash = [a \in Addresses |-> Erased]
             PROVE  Layout /\ \A v \in Vars : Data(v)
  BY DEF Blank, Torn
<1>1. ASSUME NEW a \in 0..VarCount, NEW i \in 0..3 PROVE Word(a, i) = Erased
  <2>1. 4 * a + i \in Addresses
    BY Sizes, SizeAssumption DEF Addresses
  <2> QED
    BY <2>1 DEF Word
<1>2. Layout
  BY <1>1, Sizes DEF Layout, EndsList, DescField, AllOnes
<1>3. \A v \in Vars : v - 1 \in 0..VarCount
  BY Sizes DEF Vars
<1> QED
  BY <1>1, <1>2, <1>3 DEF Data

LEMMA InitStep == Init => FInv
<1> SUFFICES ASSUME Init PROVE FInv
  OBVIOUS
<1>1. Erased \in HalfWords
  BY HalfWord, ErasedType DEF Erased
<1>2. flash \in [Addresses -> HalfWords]
  BY <1>1 DEF Init
<1>3. ram \in [Vars -> [1..Len2 -> HalfWords]]
  BY ValueAssumption DEF Init
<1>4. wanted \in [Vars -> SUBSET [1..Len2 -> HalfWords]]
  <2>1. {} \in SUBSET [1..Len2 -> HalfWords]
    OBVIOUS
  <2> QED
    BY <2>1 DEF Init
<1>5. TypeOK
  <2>1. at \in 0..PageSize
    BY Sizes DEF Init
  <2>2. pc \in Steps /\ power \in BOOLEAN
    BY DEF Init, Steps
  <2> QED
    BY <1>2, <1>3, <1>4, <2>1, <2>2, Zenon DEF TypeOK
<1>6. Torn
  BY BlankPage DEF Init, Blank
<1> QED
  BY <1>5, <1>6 DEF Init, FInv, StoredWhenIdle, Torn

LEMMA PowerStep ==
  ASSUME FInv, PowerUp \/ PowerLoss
  PROVE  FInv'
<1>1. /\ flash' = flash /\ wanted' = wanted /\ pc' = "read" /\ at' \in {0, at}
      /\ ram' \in {ram, Default} /\ power' \in BOOLEAN
  BY DEF PowerUp, PowerLoss
<1>2. TypeOK'
  BY <1>1, ValueAssumption, Sizes DEF FInv, TypeOK, Steps
<1> QED
  BY <1>1, <1>2, SamePage DEF FInv, StoredWhenIdle

LEMMA ReadStep ==
  ASSUME FInv, ReadFromFlash
  PROVE  FInv'
<1>1. /\ flash' = flash /\ wanted' = wanted /\ pc' = "check" /\ at' = at /\ power' = power
      /\ ram' = [v \in Vars |-> Load(v)]
  BY DEF ReadFromFlash
<1>2. TypeOK'
  BY <1>1, LoadType DEF FInv, TypeOK, Steps
<1> QED
  BY <1>1, <1>2, SamePage DEF FInv, StoredWhenIdle

LEMMA SetStep ==
  ASSUME FInv, NEW v \in Vars, NEW x \in Values, Set(v, x)
  PROVE  FInv'
<1>1. /\ flash' = flash /\ wanted' = wanted /\ pc' = "check" /\ at' = at /\ power' = power
      /\ ram' = [ram EXCEPT ![v] = x]
  BY DEF Set
<1>2. TypeOK'
  BY <1>1, ValueAssumption DEF FInv, TypeOK, Steps
<1> QED
  BY <1>1, <1>2, SamePage DEF FInv, StoredWhenIdle

LEMMA CheckStep ==
  ASSUME FInv, Check
  PROVE  FInv'
<1>1. flash' = flash /\ ram' = ram /\ power' = power /\ at' = at
  BY DEF Check
<1>2. CASE NeedsUpdate
  <2>1. pc' = "erase" /\ wanted' = [v \in Vars |-> wanted[v] \cup {ram[v]}]
    BY <1>2 DEF Check
  <2>2. TypeOK'
    BY <1>1, <2>1 DEF FInv, TypeOK, Steps
  <2> QED
    BY <1>1, <2>1, <2>2, SamePage DEF FInv, StoredWhenIdle
<1>3. CASE ~NeedsUpdate
  <2>1. pc' = "idle" /\ wanted' = [v \in Vars |-> {ram[v]}]
    BY <1>3 DEF Check
  <2>2. TypeOK'
    BY <1>1, <2>1 DEF FInv, TypeOK, Steps
  <2>3. \A v \in Vars : HasRecord(v) /\ Load(v) = ram[v]
    BY <1>3 DEF NeedsUpdate
  <2>4. ASSUME NEW v \in Vars PROVE Data(v)'
    <3>1. ram[v] = [i \in 1..Len2 |-> flash[DataStart(v) + i - 1]]
      BY <2>3, LoadIs DEF FInv
    <3>2. \A i \in 1..Len2 : flash[DataStart(v) + i - 1] = ram[v][i]
      BY <3>1, Zenon
    <3> QED
      BY <1>1, <2>1, <3>2 DEF Data
  <2> QED
    BY <1>1, <2>1, <2>2, <2>3, <2>4, SamePage DEF FInv, StoredWhenIdle
<1> QED
  BY <1>2, <1>3

LEMMA EraseStep ==
  ASSUME FInv, Erase
  PROVE  FInv'
<1>1. /\ flash' = [a \in Addresses |-> Erased] /\ at' = 0 /\ pc = "erase" /\ pc' = "write"
      /\ ram' = ram /\ power' = power /\ wanted' = wanted
  BY DEF Erase
<1>2. TypeOK'
  <2>1. Erased \in HalfWords
    BY HalfWord, ErasedType DEF Erased
  <2>2. flash' \in [Addresses -> HalfWords]
    BY <1>1, <2>1
  <2> QED
    BY <1>1, <2>2, Sizes DEF FInv, TypeOK, Steps
<1>3. Torn'
  <2>1. Blank'
    BY <1>1 DEF Blank
  <2> QED
    BY <2>1, BlankPage, PTL
<1>4. Prefix'
  <2>1. ASSUME NEW k \in 0..(WriteCount - 1) PROVE Program(k)' = Program(k)
    BY <1>1 DEF Program
  <2> QED
    BY <1>1, <2>1, InPageAddress, Sizes DEF Prefix
<1> QED
  BY <1>1, <1>2, <1>3, <1>4 DEF FInv, StoredWhenIdle, Torn

LEMMA WriteStep ==
  ASSUME FInv, Write
  PROVE  FInv'
<1>1. /\ pc = "write" /\ at < WriteCount /\ at' = at + 1
      /\ ram' = ram /\ power' = power /\ wanted' = wanted /\ pc' = pc
  BY DEF Write
<1>2. at \in 0..(WriteCount - 1) /\ Prefix
  BY <1>1, Sizes DEF FInv, TypeOK
<1>3. flash[Program(at).addr] = Erased
  BY <1>2 DEF Prefix
<1>4. flash' = [flash EXCEPT ![Program(at).addr] = Program(at).val]
  BY <1>3 DEF Write
<1>5. TypeOK'
  BY <1>1, <1>2, <1>4, InPageAddress, ProgramType, Sizes DEF FInv, TypeOK
<1>6. Prefix'
  <2>1. ASSUME NEW k \in 0..(WriteCount - 1)
        PROVE  flash'[Program(k)'.addr] = IF k < at' THEN Program(k)'.val ELSE Erased
    <3>1. Program(k)' = Program(k)
      BY <1>1 DEF Program
    <3>2. CASE k = at
      BY <1>1, <1>2, <1>4, <3>1, <3>2, InPageAddress DEF FInv, TypeOK
    <3>3. CASE k # at
      <4>1. Program(k).addr # Program(at).addr
        BY <1>2, <3>3, Apart
      <4>2. flash'[Program(k).addr] = flash[Program(k).addr]
        BY <1>4, <4>1, InPageAddress DEF FInv, TypeOK
      <4>3. k < at' <=> k < at
        BY <1>1, <1>2, <3>3
      <4> QED
        BY <1>2, <3>1, <4>2, <4>3 DEF Prefix
    <3> QED
      BY <3>2, <3>3
  <2>2. at' <= WriteCount
    BY <1>1, <1>2, Sizes
  <2> QED
    BY <2>1, <2>2 DEF Prefix
<1>7. at' \in Nat /\ \A v \in Vars : ram'[v] \in wanted'[v]
  BY <1>1, <1>2 DEF FInv
<1>8. Torn'
  <2>1. Writing'
    BY <1>6, <1>7 DEF Writing
  <2> QED
    BY <2>1, TornOK, PTL
<1> QED
  BY <1>1, <1>5, <1>6, <1>7, <1>8 DEF FInv, StoredWhenIdle, Torn

LEMMA FinishStep ==
  ASSUME FInv, Finish
  PROVE  FInv'
<1>1. /\ pc = "write" /\ at = WriteCount /\ pc' = "idle" /\ at' = 0
      /\ wanted' = [v \in Vars |-> {ram[v]}]
      /\ flash' = flash /\ ram' = ram /\ power' = power
  BY DEF Finish
<1>2. TypeOK'
  BY <1>1, Sizes DEF FInv, TypeOK, Steps
<1>3. Prefix /\ \A v \in Vars : HasRecord(v) /\ Load(v) = ram[v]
  BY <1>1, CompleteOK DEF FInv
<1>4. ASSUME NEW v \in Vars PROVE Data(v)'
  <2>1. \A i \in 1..Len2 : flash[DataStart(v) + i - 1] = ram[v][i]
    BY <1>1, <1>3, PrefixData
  <2> QED
    BY <1>1, <2>1 DEF Data
<1> QED
  BY <1>1, <1>2, <1>3, <1>4, SamePage DEF FInv, StoredWhenIdle

LEMMA InvStep == FInv /\ [Next]_vars => FInv'
<1> SUFFICES ASSUME FInv, [Next]_vars PROVE FInv'
  OBVIOUS
<1>1. CASE UNCHANGED vars
  <2>1. /\ flash' = flash /\ ram' = ram /\ power' = power /\ pc' = pc /\ at' = at
        /\ wanted' = wanted
    BY <1>1 DEF vars
  <2>2. \A k : Program(k)' = Program(k)
    BY <2>1 DEF Program
  <2> QED
    BY <2>1, <2>2, SamePage DEF FInv, TypeOK, StoredWhenIdle, Prefix
<1> QED
  BY <1>1, PowerStep, ReadStep, SetStep, CheckStep, EraseStep, WriteStep, FinishStep
     DEF Next, Running

-------------------------------------------------------------------------------
(* Theorem ConfigInvariant: power may fail between any two operations on the  *)
(* flash, and the page stays a list that the reader ends at the right place.  *)
THEOREM ConfigInvariant == Spec => []FInv
  BY InitStep, InvStep, PTL DEF Spec

(* Theorem ConfigStored: when no update runs, reading the flash gives what is *)
(* in RAM, for all variables, whatever was torn before.                       *)
THEOREM ConfigStored == Spec => []StoredWhenIdle
<1>1. FInv => StoredWhenIdle
  BY DEF FInv
<1> QED
  BY <1>1, ConfigInvariant, PTL

(* Theorem ConfigProgramsErased: records, data areas and the end of the list  *)
(* do not overlap, so that no half-word is programmed twice.                  *)
THEOREM ConfigProgramsErased == Spec => []ProgramsErased
<1>1. FInv => ProgramsErased
  <2> SUFFICES ASSUME FInv, power /\ pc = "write" /\ at < WriteCount
               PROVE  flash[Program(at).addr] = Erased
    BY DEF ProgramsErased
  <2>1. at \in 0..(WriteCount - 1) /\ Prefix
    BY Sizes DEF FInv, TypeOK
  <2> QED
    BY <2>1 DEF Prefix
<1> QED
  BY <1>1, ConfigInvariant, PTL

(* Theorem ConfigTornByErasureOnly: what boots after power failures is a      *)
(* default or one wanted value, with erased half-words at worst.              *)
THEOREM ConfigTornByErasureOnly == Spec => []TornByErasureOnly
<1>1. FInv => TornByErasureOnly
  <2> SUFFICES ASSUME FInv, NEW v \in Vars
               PROVE  \/ Load(v) = Default[v]
                      \/ \E x \in wanted[v] : \A i \in 1..Len2 : Load(v)[i] \in {x[i], Erased}
    BY DEF TornByErasureOnly
  <2>1. CASE ~HasRecord(v)
    BY <2>1 DEF Load
  <2>2. CASE HasRecord(v)
    <3>1. Load(v) = [i \in 1..Len2 |-> flash[DataStart(v) + i - 1]]
      BY <2>2, LoadIs DEF FInv
    <3>2. PICK x \in wanted[v] : \A i \in 1..Len2 : flash[DataStart(v) + i - 1] \in {x[i], Erased}
      BY <2>2, BegunRecord DEF FInv, Data
    <3> QED
      BY <3>1, <3>2
  <2> QED
    BY <2>1, <2>2
<1> QED
  BY <1>1, ConfigInvariant, PTL
===============================================================================
