--------------------------- MODULE FunctionProofs ---------------------------
(***************************************************************************)
(* Theorems about the pure functions: the element check of a spectrum, the *)
(* page arithmetic and the text of an instant, for every input.            *)
(***************************************************************************)
EXTENDS ElementRanges, Paging, TimeText, SequenceTheorems, WellFoundedInduction,
        TLAPS

-----------------------------------------------------------------------------
(* What the check of the elements means *)

\* The element of the range was measured once, inside the range.
Inside(rg, readings) ==
    /\ \E j \in 1..Len(readings) :
          /\ readings[j].element = rg.element
          /\ rg.min <= readings[j].value
          /\ readings[j].value <= rg.max
    /\ \A j, k \in 1..Len(readings) :
          readings[j].element = rg.element /\ readings[k].element = rg.element => j = k

AllInside(ranges, readings) == \A i \in 1..Len(ranges) : Inside(ranges[i], readings)

(* The bounds of a range and the value of a reading are numbers. *)
LEMMA RangeBounds ==
    ASSUME NEW ranges \in Seq(ElementRange), NEW i \in 1..Len(ranges)
    PROVE  ranges[i].min \in Int /\ ranges[i].max \in Int
<1>1. ranges[i] \in ElementRange
  BY ElementOfSeq
<1> QED
  BY <1>1 DEF ElementRange

LEMMA ReadingValue ==
    ASSUME NEW readings \in Seq(ElementReading), NEW j \in 1..Len(readings)
    PROVE  readings[j].value \in Int
<1>1. readings[j] \in ElementReading
  BY ElementOfSeq
<1> QED
  BY <1>1 DEF ElementReading

(* A reading of valid readings is the one in the map: no later one hides it. *)
LEMMA ReadingIsMeasured ==
    ASSUME NEW readings \in Seq(ElementReading), ValidReadings(readings),
           NEW j \in 1..Len(readings), NEW x \in Int
    PROVE  Measured(readings, readings[j].element, x) <=> x = readings[j].value
<1>1. \A k \in 1..Len(readings) : readings[k].element = readings[j].element => k = j
  BY DEF ValidReadings, Distinct
<1>2. j <= j
  OBVIOUS
<1>3. ASSUME Measured(readings, readings[j].element, x)
      PROVE  x = readings[j].value
  BY <1>1, <1>3 DEF Measured
<1>4. ASSUME x = readings[j].value
      PROVE  Measured(readings, readings[j].element, x)
  <2>1. \A k \in 1..Len(readings) : readings[k].element = readings[j].element => k <= j
    BY <1>1, <1>2
  <2> QED
    BY <1>4, <2>1, Zenon DEF Measured
<1> QED
  BY <1>3, <1>4

(* No violation at all means none of any reason at any range. *)
LEMMA NoViolation ==
    ASSUME NEW ranges, NEW readings
    PROVE  CheckReadingsInRange(ranges, readings) = {} <=>
               \A i \in 1..Len(ranges), reason \in Reason :
                   ~Violates(ranges[i], readings, reason)
<1>1. ASSUME CheckReadingsInRange(ranges, readings) = {},
             NEW i \in 1..Len(ranges), NEW reason \in Reason
      PROVE  ~Violates(ranges[i], readings, reason)
  <2>1. <<i, reason>> \in (1..Len(ranges)) \X Reason
    OBVIOUS
  <2>2. <<i, reason>>[1] = i /\ <<i, reason>>[2] = reason
    OBVIOUS
  <2> QED
    BY <1>1, <2>1, <2>2 DEF CheckReadingsInRange
<1>2. ASSUME \A i \in 1..Len(ranges), reason \in Reason :
                 ~Violates(ranges[i], readings, reason),
             NEW v \in CheckReadingsInRange(ranges, readings)
      PROVE  FALSE
  <2>1. v \in (1..Len(ranges)) \X Reason /\ Violates(ranges[v[1]], readings, v[2])
    BY <1>2 DEF CheckReadingsInRange
  <2>2. v[1] \in 1..Len(ranges) /\ v[2] \in Reason
    BY <2>1
  <2> QED
    BY <1>2, <2>1, <2>2
<1> QED
  BY <1>1, <1>2

(* A valid report is in range exactly when every element of the rule has    *)
(* its one reading inside the range: none is missing, none is outside, and  *)
(* no repeated element hides another (ValidateReadings is what makes the    *)
(* overwriting of the map harmless).                                        *)
THEOREM NoViolationMeansAllInside ==
    ASSUME NEW ranges \in Seq(ElementRange), NEW readings \in Seq(ElementReading),
           ValidReadings(readings)
    PROVE  CheckReadingsInRange(ranges, readings) = {} <=> AllInside(ranges, readings)
<1>1. ASSUME NEW i \in 1..Len(ranges),
             \A reason \in Reason : ~Violates(ranges[i], readings, reason)
      PROVE  Inside(ranges[i], readings)
  <2>1. PICK x \in Int : Measured(readings, ranges[i].element, x)
    BY <1>1 DEF Violates, Reason
  <2>2. ~(x < ranges[i].min) /\ ~(ranges[i].max < x)
    BY <1>1, <2>1 DEF Violates, Reason
  <2>3. PICK j \in 1..Len(readings) :
           readings[j].element = ranges[i].element /\ readings[j].value = x
    BY <2>1 DEF Measured
  <2>4. ranges[i].min <= readings[j].value /\ readings[j].value <= ranges[i].max
    BY <2>2, <2>3, RangeBounds
  <2> QED
    BY <2>3, <2>4 DEF Inside, ValidReadings, Distinct
<1>2. ASSUME NEW i \in 1..Len(ranges), Inside(ranges[i], readings), NEW reason \in Reason
      PROVE  ~Violates(ranges[i], readings, reason)
  <2>1. PICK j \in 1..Len(readings) :
           /\ readings[j].element = ranges[i].element
           /\ ranges[i].min <= readings[j].value
           /\ readings[j].value <= ranges[i].max
    BY <1>2 DEF Inside
  <2>2. \A x \in Int : Measured(readings, ranges[i].element, x) <=> x = readings[j].value
    BY <2>1, ReadingIsMeasured
  <2>3. readings[j].value \in Int
    BY ReadingValue
  <2> QED
    BY <2>1, <2>2, <2>3, RangeBounds DEF Violates
<1> QED
  BY <1>1, <1>2, NoViolation DEF AllInside

(* Elements the rule does not name never matter (the balance of an alloy):  *)
(* two reports that measured the same values of the rule's elements have    *)
(* the same violations, whatever else they contain and in whatever order.   *)
THEOREM OtherElementsDoNotMatter ==
    ASSUME NEW ranges \in Seq(ElementRange),
           NEW readings \in Seq(ElementReading), NEW others \in Seq(ElementReading),
           \A i \in 1..Len(ranges), x \in Int :
               Measured(readings, ranges[i].element, x)
                   <=> Measured(others, ranges[i].element, x)
    PROVE  CheckReadingsInRange(ranges, readings) = CheckReadingsInRange(ranges, others)
<1>1. ASSUME NEW v \in (1..Len(ranges)) \X Reason
      PROVE  Violates(ranges[v[1]], readings, v[2]) <=> Violates(ranges[v[1]], others, v[2])
  <2>1. v[1] \in 1..Len(ranges)
    OBVIOUS
  <2> QED
    BY <2>1 DEF Violates
<1> QED
  BY <1>1 DEF CheckReadingsInRange

(* Every rule that passes ValidateRanges can be met by some report that      *)
(* passes ValidateReadings.  That no element has two ranges is needed: with  *)
(* two disjoint ones no material of the grade could ever pass.               *)
THEOREM ValidRulesCanBeMet ==
    ASSUME NEW ranges \in Seq(ElementRange), ValidRanges(ranges)
    PROVE  \E readings \in Seq(ElementReading) :
              /\ ValidReadings(readings)
              /\ CheckReadingsInRange(ranges, readings) = {}
<1> DEFINE reading(i) == [element |-> ranges[i].element, value |-> ranges[i].min]
           met == [i \in 1..Len(ranges) |-> reading(i)]
<1>1. ASSUME NEW i \in 1..Len(ranges)
      PROVE  reading(i) \in ElementReading
  <2>1. ranges[i] \in ElementRange
    BY ElementOfSeq
  <2> QED
    BY <2>1 DEF ElementRange, ElementReading
<1>2. met \in Seq(ElementReading) /\ Len(met) = Len(ranges)
  <2>1. Len(ranges) \in Nat
    BY LenProperties
  <2> QED
    BY <1>1, <2>1, IsASeq
<1>3. ASSUME NEW i \in 1..Len(ranges)
      PROVE  met[i].element = ranges[i].element /\ met[i].value = ranges[i].min
  OBVIOUS
<1> HIDE DEF met
<1>4. ASSUME NEW i \in 1..Len(ranges)
      PROVE  /\ met[i].element # ""
             /\ 0 <= met[i].value /\ met[i].value <= 100
             /\ ranges[i].min <= met[i].value /\ met[i].value <= ranges[i].max
  <2>1. ranges[i].min \in Int /\ ranges[i].max \in Int
    BY RangeBounds
  <2>2. ranges[i].element # ""
    BY Zenon DEF ValidRanges
  <2>3. 0 <= ranges[i].min /\ ranges[i].min <= ranges[i].max /\ ranges[i].max <= 100
    BY Zenon DEF ValidRanges
  <2>4. met[i].element = ranges[i].element /\ met[i].value = ranges[i].min
    BY <1>3
  <2>5. met[i].element # ""
    BY <2>2, <2>4, Zenon
  <2>6. /\ 0 <= ranges[i].min /\ ranges[i].min <= 100
        /\ ranges[i].min <= ranges[i].min /\ ranges[i].min <= ranges[i].max
    BY <2>1, <2>3
  <2> QED
    BY <2>4, <2>5, <2>6, Zenon
<1>5. ValidReadings(met)
  <2>1. met # <<>>
    BY <1>2, LenProperties, EmptySeq DEF ValidRanges
  <2>2. Distinct(met)
    BY <1>2, <1>3 DEF Distinct, ValidRanges
  <2>3. \A i \in 1..Len(met) :
           met[i].element # "" /\ 0 <= met[i].value /\ met[i].value <= 100
    BY <1>2, <1>4
  <2> QED
    BY <2>1, <2>2, <2>3 DEF ValidReadings
<1>6. AllInside(ranges, met)
  <2> SUFFICES ASSUME NEW i \in 1..Len(ranges)
               PROVE  Inside(ranges[i], met)
    BY DEF AllInside
  <2>1. /\ met[i].element = ranges[i].element
        /\ ranges[i].min <= met[i].value
        /\ met[i].value <= ranges[i].max
    BY <1>3, <1>4
  <2>2. \A j, k \in 1..Len(met) :
           met[j].element = ranges[i].element /\ met[k].element = ranges[i].element => j = k
    BY <1>5 DEF ValidReadings, Distinct
  <2> QED
    BY <1>2, <2>1, <2>2 DEF Inside
<1> QED
  BY <1>2, <1>5, <1>6, NoViolationMeansAllInside

-----------------------------------------------------------------------------
(* Pages *)

\* Pages whose offset is an int, whatever the size.
SafePages(half) == {page \in Nat \ {0} : page * MaxPageSize < half}

(* Whatever the client sends, a normalised request asks for a page from 1 on *)
(* and for 1 to 100 rows.                                                    *)
THEOREM NormalRequest ==
    ASSUME NEW page \in Int, NEW size \in Int
    PROVE  NormalPage(page) >= 1 /\ NormalSize(size) \in 1..MaxPageSize
  BY DEF NormalPage, NormalSize, MaxPageSize

LEMMA ProductsAreOrdered ==
    ASSUME NEW a \in Int, NEW b \in Int, NEW s \in Nat, a <= b
    PROVE  a * s <= b * s
  OBVIOUS

LEMMA SmallRemainder ==
    ASSUME NEW a \in Nat, NEW b \in Nat, a < b
    PROVE  a % b = a /\ (a + b) % b = a
  OBVIOUS

\* The page, counted from 0, that a row counted from 0 is on.
LEMMA PageOfRow ==
    ASSUME NEW r \in Nat, NEW s \in Nat, s # 0
    PROVE  \E k \in Nat : k <= r /\ k * s <= r /\ r < k * s + s
<1> DEFINE k == r \div s
<1>1. k \in Nat /\ k * s <= r /\ r < k * s + s
  OBVIOUS
<1> HIDE DEF k
<1>2. k <= k * s
  BY <1>1
<1> QED
  BY <1>1, <1>2

\* Offsets of safe pages do not wrap.
LEMMA SafeOffset ==
    ASSUME NEW half \in Nat, NEW page \in SafePages(half), NEW size \in 1..MaxPageSize
    PROVE  Offset(page, size, half) = (page - 1) * size /\ (page - 1) * size \in Nat
<1> DEFINE o == (page - 1) * size
<1>1. page \in Nat /\ page >= 1 /\ page * MaxPageSize < half
  BY DEF SafePages
<1>2. size \in Nat /\ size <= MaxPageSize /\ MaxPageSize \in Nat
  BY DEF MaxPageSize
<1>3. o \in Nat
  BY <1>1, <1>2
<1>4. o <= page * size /\ page * size <= page * MaxPageSize
  BY <1>1, <1>2, ProductsAreOrdered
<1>5. o < half
  <2>1. page * size \in Nat /\ page * MaxPageSize \in Nat
    BY <1>1, <1>2
  <2> HIDE DEF o
  <2> QED
    BY <1>1, <1>3, <1>4, <2>1
<1> HIDE DEF o
<1>6. (o + half) % (2 * half) = o + half
  BY <1>3, <1>5, SmallRemainder
<1> QED
  BY <1>3, <1>6 DEF Offset, Wrap, o

(* No list ever shows a row on two pages or on none: among the safe pages,   *)
(* every row of a query is on exactly one.                                   *)
THEOREM EveryRowIsOnOnePage ==
    ASSUME NEW half \in Nat, NEW total \in SafePages(half),
           NEW size \in 1..MaxPageSize, NEW row \in 1..total
    PROVE  /\ \E page \in SafePages(half) : row \in PageRows(total, page, size, half)
           /\ \A p, q \in SafePages(half) :
                 /\ row \in PageRows(total, p, size, half)
                 /\ row \in PageRows(total, q, size, half)
                 => p = q
<1>0. /\ total \in Nat /\ total * MaxPageSize < half /\ row \in Nat
      /\ 1 <= row /\ row <= total
      /\ size \in Nat /\ size # 0 /\ MaxPageSize \in Nat
  BY DEF SafePages, MaxPageSize
<1>1. \E page \in SafePages(half) : row \in PageRows(total, page, size, half)
  <2>1. PICK k \in Nat : k <= row - 1 /\ k * size <= row - 1 /\ row - 1 < k * size + size
    <3>1. row - 1 \in Nat
      BY <1>0
    <3> QED
      BY <1>0, <3>1, PageOfRow
  <2>2. (k + 1) * MaxPageSize <= total * MaxPageSize
    BY <1>0, <2>1, ProductsAreOrdered
  <2>3. k + 1 \in SafePages(half)
    BY <1>0, <2>2 DEF SafePages, MaxPageSize
  <2>4. Offset(k + 1, size, half) = k * size /\ k * size \in Nat
    BY <2>1, <2>3, SafeOffset
  <2>5. row \in PageRows(total, k + 1, size, half)
    BY <1>0, <2>1, <2>4 DEF PageRows
  <2> QED
    BY <2>3, <2>5
<1>2. ASSUME NEW p \in SafePages(half), NEW q \in SafePages(half), p < q,
             row \in PageRows(total, p, size, half), row \in PageRows(total, q, size, half)
      PROVE  FALSE
  <2>0. p \in Nat /\ q \in Nat
    BY DEF SafePages
  <2>1. row <= (p - 1) * size + size
    BY <1>2, SafeOffset DEF PageRows
  <2>2. (q - 1) * size < row
    BY <1>2, SafeOffset DEF PageRows
  <2>3. p * size <= (q - 1) * size
    BY <1>0, <1>2, <2>0, ProductsAreOrdered
  <2>4. (p - 1) * size + size = p * size
    BY <1>0, <2>0
  <2> QED
    BY <1>0, <2>0, <2>1, <2>2, <2>3, <2>4
<1> QED
  BY <1>1, <1>2 DEF SafePages

(* Beyond them a page may come back: Normalize sets no upper bound on the    *)
(* page.  Where half is 2 * m, the page m + 1 is an int and its offset for   *)
(* pages of 4 rows, 4 * m, wraps to 0: it shows the first page.              *)
THEOREM LargePagesComeBack ==
    ASSUME NEW total \in Nat, NEW m \in Nat, m > 1
    PROVE  /\ m + 1 < 2 * m
           /\ PageRows(total, m + 1, 4, 2 * m) = PageRows(total, 1, 4, 2 * m)
<1>1. (m + 1 - 1) * 4 + 2 * m = 2 * m + 4 * m
  OBVIOUS
<1>2. (2 * m + 4 * m) % (2 * (2 * m)) = 2 * m /\ (2 * m) % (2 * (2 * m)) = 2 * m
  <2> DEFINE a == 2 * m
             b == 2 * (2 * m)
  <2>1. a \in Nat /\ b \in Nat /\ a < b /\ 2 * m + 4 * m = a + b
    OBVIOUS
  <2> HIDE DEF a, b
  <2>2. a % b = a /\ (a + b) % b = a
    BY <2>1, SmallRemainder
  <2> QED
    BY <2>1, <2>2 DEF a, b
<1>3. Offset(m + 1, 4, 2 * m) = 0 /\ Offset(1, 4, 2 * m) = 0
  BY <1>1, <1>2 DEF Offset, Wrap
<1> QED
  BY <1>3 DEF PageRows

-----------------------------------------------------------------------------
(* What the texts of two instants say of their order *)

(* A digit is below the Z, and two fractions that agree on the digits       *)
(* before i, where both have digits left, have the same characters there.   *)
LEMMA CharactersOfDigits ==
    ASSUME NEW digits \in Nat, NEW f \in Fractions(digits), NEW g \in Fractions(digits),
           NEW i \in 1..digits, f[i] < g[i], \A j \in 1..(i - 1) : f[j] = g[j]
    PROVE  /\ Character(g, i, digits) = g[i]
           /\ \A j \in 1..(i - 1) : Character(g, j, digits) = g[j]
           /\ ~ZerosFrom(f, i, digits) =>
                 /\ Character(f, i, digits) = f[i]
                 /\ \A j \in 1..(i - 1) : Character(f, j, digits) = f[j]
<1>1. f[i] \in 0..9 /\ g[i] \in 0..9 /\ g[i] # 0
  BY DEF Fractions
<1>2. \A j \in 1..i : i \in j..digits
  OBVIOUS
<1>3. \A j \in 1..i : ~ZerosFrom(g, j, digits)
  BY <1>1, <1>2 DEF ZerosFrom
<1>4. \A j \in 1..i : ~ZerosFrom(f, i, digits) => ~ZerosFrom(f, j, digits)
  BY DEF ZerosFrom
<1> QED
  BY <1>3, <1>4 DEF Character

(* Where two instants of one second first differ, the text of the earlier   *)
(* one has a digit or has just ended; it has ended exactly if all it says   *)
(* is also the beginning of the later one.                                  *)
LEMMA BeginsAtFirstDifference ==
    ASSUME NEW digits \in Nat, NEW f \in Fractions(digits), NEW g \in Fractions(digits),
           NEW i \in 1..digits, f[i] < g[i], \A j \in 1..(i - 1) : f[j] = g[j]
    PROVE  BeginsWith(f, g, digits) <=> ZerosFrom(f, i, digits)
<1>1. ASSUME NEW k \in 1..digits, ZerosFrom(f, k, digits), \A j \in 1..(k - 1) : f[j] = g[j]
      PROVE  ZerosFrom(f, i, digits)
  <2>1. f[i] # g[i]
    BY DEF Fractions
  <2>2. k <= i
    BY <1>1, <2>1
  <2> QED
    BY <1>1, <2>2 DEF ZerosFrom
<1> QED
  BY <1>1 DEF BeginsWith

(* A text that still has a digit at the first difference is in order, and   *)
(* one that has ended there or before is not.                               *)
LEMMA TextOfDigits ==
    ASSUME NEW digits \in Nat, NEW f \in Fractions(digits), NEW g \in Fractions(digits),
           NEW s \in Int, EarlierFraction(f, g, digits)
    PROVE  TextBefore(s, f, s, g, digits) <=> ~BeginsWith(f, g, digits)
<1>1. PICK i \in 1..digits : f[i] < g[i] /\ \A j \in 1..(i - 1) : f[j] = g[j]
  BY DEF EarlierFraction
<1>2. BeginsWith(f, g, digits) <=> ZerosFrom(f, i, digits)
  BY <1>1, BeginsAtFirstDifference
<1>3. /\ Character(g, i, digits) = g[i]
      /\ \A j \in 1..(i - 1) : Character(g, j, digits) = g[j]
      /\ ~ZerosFrom(f, i, digits) =>
            /\ Character(f, i, digits) = f[i]
            /\ \A j \in 1..(i - 1) : Character(f, j, digits) = f[j]
  BY <1>1, CharactersOfDigits
<1>4. ASSUME ~ZerosFrom(f, i, digits)
      PROVE  TextBefore(s, f, s, g, digits)
  <2>1. Character(f, i, digits) < Character(g, i, digits)
    BY <1>1, <1>3, <1>4
  <2>2. \A j \in 1..(i - 1) : Character(f, j, digits) = Character(g, j, digits)
    BY <1>1, <1>3, <1>4
  <2> QED
    BY <2>1, <2>2 DEF TextBefore
<1>5. ASSUME ZerosFrom(f, i, digits), NEW k \in 1..digits,
             Character(f, k, digits) < Character(g, k, digits)
      PROVE  FALSE
  <2>1. CASE ZerosFrom(f, k, digits)
    <3>1. Character(f, k, digits) = 10 /\ g[k] \in 0..9
      BY <2>1 DEF Character, Zulu, Fractions
    <3> QED
      BY <1>5, <3>1 DEF Character, Zulu
  <2>2. CASE ~ZerosFrom(f, k, digits)
    <3>1. k < i
      BY <1>5, <2>2 DEF ZerosFrom
    <3>2. k \in 1..(i - 1) /\ Character(f, k, digits) = f[k] /\ f[k] \in 0..9
      BY <2>2, <3>1 DEF Character, Fractions
    <3> QED
      BY <1>1, <1>3, <1>5, <3>2
  <2> QED
    BY <2>1, <2>2
<1> QED
  BY <1>2, <1>4, <1>5 DEF TextBefore

(* Such a text comes after the one it begins: the texts are the wrong way   *)
(* round, from the first zero that was dropped.                             *)
LEMMA TextOfPrefix ==
    ASSUME NEW digits \in Nat, NEW f \in Fractions(digits), NEW g \in Fractions(digits),
           NEW s \in Int, EarlierFraction(f, g, digits), BeginsWith(f, g, digits)
    PROVE  TextBefore(s, g, s, f, digits)
<1>1. PICK i \in 1..digits : f[i] < g[i] /\ \A j \in 1..(i - 1) : f[j] = g[j]
  BY DEF EarlierFraction
<1>2. ZerosFrom(f, i, digits)
  BY <1>1, BeginsAtFirstDifference
<1>3. /\ Character(g, i, digits) = g[i]
      /\ \A j \in 1..(i - 1) : Character(g, j, digits) = g[j]
  BY <1>1, CharactersOfDigits
<1> DEFINE Z == {k \in 1..digits : ZerosFrom(f, k, digits)}
<1>4. PICK m \in Z : \A k \in Z : ~(k < m)
  <2>1. Z \subseteq Nat /\ Z # {}
    BY <1>2
  <2>2. PICK m \in Z : \A k \in Z : <<k, m>> \notin OpToRel(<, Nat)
    BY <2>1, NatLessThanWellFounded, WFMin
  <2> QED
    BY <2>1, <2>2 DEF OpToRel
<1>5. m <= i
  BY <1>2, <1>4
<1>6. Character(g, m, digits) = g[m] /\ g[m] \in 0..9
  BY <1>3, <1>5 DEF Fractions
<1>7. Character(f, m, digits) = 10
  BY <1>4 DEF Character, Zulu
<1>8. \A k \in 1..(m - 1) : Character(f, k, digits) = f[k] /\ f[k] = g[k]
  BY <1>1, <1>4, <1>5 DEF Character
<1>9. \A k \in 1..(m - 1) : Character(g, k, digits) = Character(f, k, digits)
  BY <1>3, <1>5, <1>8
<1>10. Character(g, m, digits) < Character(f, m, digits)
  BY <1>6, <1>7
<1> QED
  BY <1>4, <1>9, <1>10 DEF TextBefore

(* timeToDB promises that the order of the texts is the order of the        *)
(* instants.  It is, except among instants of one second of which the       *)
(* earlier one, its zeros dropped, begins the text of the later one: those, *)
(* .5 and .55 or a whole second and any other instant of it, are always the *)
(* wrong way round.                                                         *)
THEOREM TextOrderOfInstants ==
    ASSUME NEW digits \in Nat, NEW f \in Fractions(digits), NEW g \in Fractions(digits),
           NEW s \in Int, NEW t \in Int, Earlier(s, f, t, g, digits)
    PROVE  /\ s = t /\ BeginsWith(f, g, digits) => TextBefore(t, g, s, f, digits)
           /\ ~(s = t /\ BeginsWith(f, g, digits)) <=> TextBefore(s, f, t, g, digits)
<1>1. CASE s < t
  BY <1>1 DEF TextBefore
<1>2. CASE s = t
  <2>1. EarlierFraction(f, g, digits)
    BY <1>2 DEF Earlier
  <2> QED
    BY <1>2, <2>1, TextOfDigits, TextOfPrefix
<1> QED
  BY <1>1, <1>2 DEF Earlier
=============================================================================
