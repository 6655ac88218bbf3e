-------------------------- MODULE ColumnMaskingProofs ------------------------
(***************************************************************************)
(* Proofs about ColumnMasking.                                             *)
(***************************************************************************)
EXTENDS ColumnMasking, FiniteSetTheorems, SequenceTheorems, TLAPS

PF == INSTANCE FoldLaws WITH Op <- Times
NF == INSTANCE FoldLaws WITH Op <- AddPlace
RF == INSTANCE FoldLaws WITH Op <- Round
CF == INSTANCE FoldLaws WITH Op <- Chosen
TF == INSTANCE FoldLaws WITH Op <- Added

(* The operators that FoldLaws speaks of are those of the model. *)
LEMMA SameFolds ==
  /\ \A b, s : FoldLeft(Times, b, s) = PF!FoldLeft(Times, b, s)
  /\ \A b, s : FoldLeft(AddPlace, b, s) = NF!FoldLeft(AddPlace, b, s)
  /\ \A b, s : FoldLeft(Round, b, s) = RF!FoldLeft(Round, b, s)
  /\ \A b, s : FoldLeft(Chosen, b, s) = CF!FoldLeft(Chosen, b, s)
  /\ \A b, s : FoldLeft(Added, b, s) = TF!FoldLeft(Added, b, s)
<1>1. ASSUME NEW b, NEW s
      PROVE  FoldLeft(Times, b, s) = PF!FoldLeft(Times, b, s)
  BY DEF FoldLeft, PF!FoldLeft, MapThenFoldSet, PF!MapThenFoldSet, Max, PF!Max
<1>2. ASSUME NEW b, NEW s
      PROVE  FoldLeft(AddPlace, b, s) = NF!FoldLeft(AddPlace, b, s)
  BY DEF FoldLeft, NF!FoldLeft, MapThenFoldSet, NF!MapThenFoldSet, Max, NF!Max
<1>3. ASSUME NEW b, NEW s
      PROVE  FoldLeft(Round, b, s) = RF!FoldLeft(Round, b, s)
  BY DEF FoldLeft, RF!FoldLeft, MapThenFoldSet, RF!MapThenFoldSet, Max, RF!Max
<1>4. ASSUME NEW b, NEW s
      PROVE  FoldLeft(Chosen, b, s) = CF!FoldLeft(Chosen, b, s)
  BY DEF FoldLeft, CF!FoldLeft, MapThenFoldSet, CF!MapThenFoldSet, Max, CF!Max
<1>5. ASSUME NEW b, NEW s
      PROVE  FoldLeft(Added, b, s) = TF!FoldLeft(Added, b, s)
  BY DEF FoldLeft, TF!FoldLeft, MapThenFoldSet, TF!MapThenFoldSet, Max, TF!Max
<1>. QED
  BY <1>1, <1>2, <1>3, <1>4, <1>5

-----------------------------------------------------------------------------
(* Arithmetic. *)

LEMMA ProductOfNaturals == \A m, n \in Nat : m * n \in Nat
OBVIOUS

LEMMA ProductMonotone == \A m, n, k \in Nat : n <= k => m * n <= m * k
OBVIOUS

LEMMA Division ==
  \A a \in Int, m \in Nat \ {0} :
    a = m * (a \div m) + (a % m) /\ a % m \in 0 .. m - 1 /\ a \div m \in Int
OBVIOUS

LEMMA NaturalDivision == \A a \in Nat, m \in Nat \ {0} : a \div m \in Nat
OBVIOUS

(* A quotient and a rest are those of the division. *)
LEMMA DivisionUnique ==
  ASSUME NEW m \in Nat \ {0}, NEW q \in Int, NEW c \in 0 .. m - 1, NEW x \in Int, x = m * q + c
  PROVE  x \div m = q /\ x % m = c
<1>1. /\ x = m * (x \div m) + (x % m)
      /\ x % m \in 0 .. m - 1
      /\ x \div m \in Int
  OBVIOUS
<1>2. PICK p \in Int : p = x \div m
  BY <1>1
<1>3. PICK d \in 0 .. m - 1 : d = x % m
  BY <1>1
<1>4. m * q + c = m * p + d
  BY <1>1, <1>2, <1>3
<1>5. ~(q < p)
  <2>. SUFFICES ASSUME q < p
                PROVE  FALSE
    OBVIOUS
  <2>1. p - q - 1 \in Nat /\ m \in Nat
    OBVIOUS
  <2>2. m * (p - q - 1) >= 0
    BY <2>1
  <2>3. m * (p - q - 1) = m * p - m * q - m
    OBVIOUS
  <2>. QED
    BY <1>4, <2>2, <2>3
<1>6. ~(p < q)
  <2>. SUFFICES ASSUME p < q
                PROVE  FALSE
    OBVIOUS
  <2>1. q - p - 1 \in Nat /\ m \in Nat
    OBVIOUS
  <2>2. m * (q - p - 1) >= 0
    BY <2>1
  <2>3. m * (q - p - 1) = m * q - m * p - m
    OBVIOUS
  <2>. QED
    BY <1>4, <2>2, <2>3
<1>7. p = q
  BY <1>5, <1>6
<1>. QED
  BY <1>2, <1>3, <1>4, <1>7

(* Dividing twice divides by the product. *)
LEMMA DividedTwice ==
  ASSUME NEW n \in Nat, NEW p \in Nat \ {0}, NEW r \in Nat \ {0}
  PROVE  n \div (p * r) = (n \div p) \div r
<1>1. PICK a \in Nat : a = n \div p
  BY NaturalDivision
<1>2. PICK c \in 0 .. p - 1 : c = n % p
  BY Division
<1>3. PICK b \in Nat : b = a \div r
  BY NaturalDivision
<1>4. PICK d \in 0 .. r - 1 : d = a % r
  BY Division
<1>5. n = p * a + c /\ a = r * b + d
  <2>1. n = p * a + c
    BY <1>1, <1>2, Division
  <2>2. a = r * b + d
    BY <1>3, <1>4, Division
  <2>. QED
    BY <2>1, <2>2
<1>6. p * r \in Nat \ {0}
  OBVIOUS
<1>7. p * d + c \in 0 .. p * r - 1
  <2>1. p * d \in Nat /\ p * d <= p * (r - 1)
    <3>1. d \in Nat /\ r - 1 \in Nat /\ p \in Nat /\ d <= r - 1
      OBVIOUS
    <3>. QED
      BY <3>1, ProductOfNaturals, ProductMonotone
  <2>2. p * (r - 1) = p * r - p
    OBVIOUS
  <2>. QED
    BY <1>6, <2>1, <2>2
<1>8. n = (p * r) * b + (p * d + c)
  <2>1. p * a = p * (r * b) + p * d
    BY <1>5
  <2>2. p * (r * b) = (p * r) * b
    OBVIOUS
  <2>. QED
    BY <1>5, <2>1, <2>2
<1>9. n \div (p * r) = b
  <2>. PICK m \in Nat \ {0} : m = p * r
    BY <1>6
  <2>. QED
    BY <1>7, <1>8, DivisionUnique
<1>. QED
  BY <1>1, <1>3, <1>9

(* A number and its next digit. *)
Place(a, r, c) == a * r + c

(* Equal numbers have the same last digit, and the same before it. *)
LEMMA SamePlaces ==
  ASSUME NEW r \in Nat \ {0}, NEW a \in Nat, NEW b \in Nat,
         NEW c \in 0 .. r - 1, NEW d \in 0 .. r - 1, Place(a, r, c) = Place(b, r, d)
  PROVE  a = b /\ c = d
<1>. USE DEF Place
<1>0. PICK x \in Int : x = a * r + c /\ x = b * r + d
  OBVIOUS
<1>1. r * a = a * r /\ r * b = b * r
  OBVIOUS
<1>2. x = r * a + c /\ x = r * b + d /\ x \in Int
  BY <1>0, <1>1
<1>3. a \in Int /\ b \in Int
  OBVIOUS
<1>4. x \div r = a /\ x % r = c
  BY <1>2, <1>3, DivisionUnique
<1>5. x \div r = b /\ x % r = d
  BY <1>2, <1>3, DivisionUnique
<1>. QED
  BY <1>4, <1>5

(* What is equal modulo m and nearer than m is equal. *)
LEMMA EqualModulo ==
  ASSUME NEW m \in Nat \ {0}, NEW a \in 0 .. m - 1, NEW b \in 0 .. m - 1, NEW f \in Nat,
         (a + f) % m = (b + f) % m
  PROVE  a = b
<1>0. PICK x, y \in Int : x = a + f /\ y = b + f
  OBVIOUS
<1>1. PICK p \in Int : p = x \div m
  BY Division
<1>2. PICK q \in Int : q = y \div m
  BY Division
<1>3. PICK c \in 0 .. m - 1 : c = x % m /\ c = y % m
  BY <1>0, Division
<1>4. a + f = m * p + c /\ b + f = m * q + c
  <2>1. x = m * p + c
    BY <1>1, <1>3, Division
  <2>2. y = m * q + c
    BY <1>2, <1>3, Division
  <2>. QED
    BY <1>0, <2>1, <2>2
<1>5. a - b = m * (p - q)
  <2>1. m * (p - q) = m * p - m * q
    OBVIOUS
  <2>. QED
    BY <1>4, <2>1
<1>6. a = m * (p - q) + b
  BY <1>5
<1>7. a = m * 0 + a
  OBVIOUS
<1>8. p - q \in Int /\ a \in Int
  OBVIOUS
<1>9. a % m = b
  BY <1>6, <1>8, DivisionUnique
<1>10. a % m = a
  BY <1>7, <1>8, DivisionUnique
<1>. QED
  BY <1>9, <1>10

(* The greater and the lesser of two integers. *)
LEMMA MaxOfTwo ==
  ASSUME NEW a \in Int, NEW b \in Int
  PROVE  /\ Max({a, b}) = IF a >= b THEN a ELSE b
         /\ Min({a, b}) = IF a <= b THEN a ELSE b
<1>1. \E x \in {a, b} : \A y \in {a, b} : x >= y
  OBVIOUS
<1>2. Max({a, b}) \in {a, b} /\ \A y \in {a, b} : Max({a, b}) >= y
  BY <1>1 DEF Max
<1>3. \E x \in {a, b} : \A y \in {a, b} : x <= y
  OBVIOUS
<1>4. Min({a, b}) \in {a, b} /\ \A y \in {a, b} : Min({a, b}) <= y
  BY <1>3 DEF Min
<1>. QED
  BY <1>2, <1>4

LEMMA MinAtMost ==
  ASSUME NEW a \in Int, NEW b \in Int
  PROVE  Min({a, b}) \in Int /\ Min({a, b}) <= a /\ Min({a, b}) <= b
BY MaxOfTwo

LEMMA MinOfNaturals ==
  ASSUME NEW a \in Nat, NEW b \in Nat
  PROVE  Min({a, b}) \in 0 .. b
<1>1. a \in Int /\ b \in Int
  OBVIOUS
<1>2. Min({a, b}) = IF a <= b THEN a ELSE b
  BY <1>1, MaxOfTwo
<1>3. (IF a <= b THEN a ELSE b) \in 0 .. b
  OBVIOUS
<1>. QED
  BY <1>2, <1>3

LEMMA Rounded ==
  ASSUME NEW y \in Int, NEW step \in Nat \ {0}
  PROVE  \E q \in Int, c \in 0 .. step - 1 :
           /\ y = step * q + c
           /\ 2 * c < step => RoundToStep(y, step) = step * q
           /\ 2 * c > step => RoundToStep(y, step) = step * (q + 1)
           /\ 2 * c = step => RoundToStep(y, step) = step * (q + (q % 2))
<1>1. PICK q : q = y \div step
  OBVIOUS
<1>2. PICK c : c = y % step
  OBVIOUS
<1>3. q \in Int /\ c \in 0 .. step - 1 /\ y = step * q + c
  BY <1>1, <1>2, Division
<1>4. RoundToStep(y, step) = step * (CASE 2 * c < step -> q
                                       [] 2 * c > step -> q + 1
                                       [] 2 * c = step -> q + (q % 2))
  BY <1>1, <1>2 DEF RoundToStep
<1>5. c \in Int /\ step \in Int
  BY <1>3
<1>6. ASSUME 2 * c < step
      PROVE  RoundToStep(y, step) = step * q
  <2>1. ~(2 * c > step) /\ ~(2 * c = step)
    BY <1>5, <1>6
  <2>. QED
    BY <1>4, <1>6, <2>1
<1>7. ASSUME 2 * c > step
      PROVE  RoundToStep(y, step) = step * (q + 1)
  <2>1. ~(2 * c < step) /\ ~(2 * c = step)
    BY <1>5, <1>7
  <2>. QED
    BY <1>4, <1>7, <2>1
<1>8. ASSUME 2 * c = step
      PROVE  RoundToStep(y, step) = step * (q + (q % 2))
  <2>1. ~(2 * c < step) /\ ~(2 * c > step)
    BY <1>5, <1>8
  <2>. QED
    BY <1>4, <1>8, <2>1
<1>. QED
  BY <1>3, <1>6, <1>7, <1>8

(* A digit is less than what one more unit of the next place is worth. *)
LEMMA PlaceBelow ==
  ASSUME NEW r \in Nat \ {0}, NEW p \in Nat, NEW a \in Nat, NEW c \in 0 .. r - 1, a < p
  PROVE  a * r + c \in Nat /\ a * r + c < p * r
<1>1. PICK x \in Nat : x = a * r
  BY ProductOfNaturals
<1>2. PICK y \in Nat : y = (p - 1 - a) * r
  <2>1. p - 1 - a \in Nat
    OBVIOUS
  <2>. QED
    BY <2>1, ProductOfNaturals
<1>3. p * r = x + y + r
  <2>1. p * r = a * r + (p - 1 - a) * r + r
    OBVIOUS
  <2>. QED
    BY <1>1, <1>2, <2>1
<1>. QED
  BY <1>1, <1>3

LEMMA ZeroOneMore == \A n \in Nat : n > 1 \/ n = 1 \/ n = 0
OBVIOUS

LEMMA TwoHalves ==
  \A n \in Nat : \E u, v \in Nat :
    u = n \div 2 /\ v = n - u /\ u + v = n /\ (n % 2 = 0 => u = v)
<1>. SUFFICES ASSUME NEW n \in Nat
              PROVE  \E u, v \in Nat :
                       u = n \div 2 /\ v = n - u /\ u + v = n /\ (n % 2 = 0 => u = v)
  OBVIOUS
<1>1. PICK u \in Nat : u = n \div 2
  OBVIOUS
<1>2. PICK v \in Nat : v = n - u
  BY <1>1
<1>. QED
  BY <1>1, <1>2

LEMMA PositiveProduct == \A m, n \in Nat \ {0} : m * n \in Nat \ {0}
OBVIOUS

LEMMA Distributes == \A a, b, c \in Int : a * (b + c) = a * b + a * c /\ a * (b - c) = a * b - a * c
OBVIOUS

LEMMA ProductOfIntegers == \A m, n \in Int : m * n \in Int
OBVIOUS

LEMMA Associates == \A a, b, c \in Int : (a * b) * c = a * (b * c)
OBVIOUS

LEMMA Commutes == \A a, b \in Int : a * b = b * a
OBVIOUS

-----------------------------------------------------------------------------
(* Sequences. *)

LEMMA IsSequence ==
  \A S : \A n \in Nat : \A f \in [1 .. n -> S] : f \in Seq(S) /\ Len(f) = n /\ DOMAIN f = 1 .. n
<1>. SUFFICES ASSUME NEW S, NEW n \in Nat, NEW f \in [1 .. n -> S]
              PROVE  f \in Seq(S) /\ Len(f) = n /\ DOMAIN f = 1 .. n
  OBVIOUS
<1>1. f \in Seq(S)
  BY SeqDef
<1>. QED
  BY <1>1

LEMMA LenNatural == \A S : \A s \in Seq(S) : Len(s) \in Nat /\ (Len(s) = 0 <=> s = <<>>)
OBVIOUS

LEMMA Elements == \A S : \A s \in Seq(S) : \A i \in 1 .. Len(s) : s[i] \in S
OBVIOUS

LEMMA AppendElements ==
  \A S : \A s \in Seq(S), c \in S :
    /\ Append(s, c) \in Seq(S) /\ Len(Append(s, c)) = Len(s) + 1
    /\ Append(s, c)[Len(s) + 1] = c
    /\ \A i \in 1 .. Len(s) : Append(s, c)[i] = s[i]
OBVIOUS

LEMMA SeqFunction ==
  \A S : \A s \in Seq(S) : DOMAIN s = 1 .. Len(s) /\ s = [i \in 1 .. Len(s) |-> s[i]]
OBVIOUS

LEMMA SameElements ==
  \A S, T : \A s \in Seq(S), t \in Seq(T) :
    Len(s) = Len(t) /\ (\A i \in 1 .. Len(t) : s[i] = t[i]) => s = t
OBVIOUS

(* The first n elements are the first n - 1 and the n-th. *)
LEMMA FirstOnes ==
  ASSUME NEW S, NEW s \in Seq(S), NEW n \in 1 .. Len(s)
  PROVE  /\ SubSeq(s, 1, n - 1) \in Seq(S) /\ Len(SubSeq(s, 1, n - 1)) = n - 1
         /\ SubSeq(s, 1, n) = Append(SubSeq(s, 1, n - 1), s[n])
         /\ s[n] \in S
<1>1. n \in Int /\ 1 \in Int /\ n - 1 \in Int /\ 1 \in 1 .. Len(s) /\ n \in 1 .. Len(s)
  OBVIOUS
<1>2. \A i \in 1 .. n - 1 : s[i] \in S
  OBVIOUS
<1>3. SubSeq(s, 1, n - 1) \in Seq(S) /\ Len(SubSeq(s, 1, n - 1)) = n - 1
  BY <1>1, <1>2, SubSeqProperties
<1>4. SubSeq(s, 1, n) = SubSeq(s, 1, n - 1) \o <<s[n]>>
  BY <1>1, SubSeqRecursiveSecond
<1>5. Append(SubSeq(s, 1, n - 1), s[n]) = SubSeq(s, 1, n - 1) \o <<s[n]>>
  BY <1>1, <1>3, AppendIsConcat
<1>. QED
  BY <1>3, <1>4, <1>5

-----------------------------------------------------------------------------
(* Powers and numerals. *)

LEMMA PowerZero == \A r \in Nat : Power(r, 0) = 1
<1>1. \A r \in Nat : [i \in 1 .. 0 |-> r] = <<>>
  OBVIOUS
<1>. QED
  BY <1>1, SameFolds, PF!FoldEmpty DEF Power

LEMMA PowerNext == \A r, n \in Nat : Power(r, n + 1) = Power(r, n) * r
<1>. SUFFICES ASSUME NEW r \in Nat, NEW n \in Nat
              PROVE  Power(r, n + 1) = Power(r, n) * r
  OBVIOUS
<1>1. PICK s \in Seq(Nat) : s = [i \in 1 .. n |-> r]
  <2>1. [i \in 1 .. n |-> r] \in [1 .. n -> Nat]
    OBVIOUS
  <2>. QED
    BY <2>1, IsSequence
<1>2. [i \in 1 .. n + 1 |-> r] = Append(s, r)
  <2>1. Len(s) = n
    BY <1>1
  <2>. QED
    BY <1>1, <2>1
<1>3. PF!FoldLeft(Times, 1, Append(s, r)) = Times(PF!FoldLeft(Times, 1, s), r)
  BY PF!FoldAppend
<1>. QED
  BY <1>1, <1>2, <1>3, SameFolds DEF Power, Times

LEMMA PowerPositive == \A r \in Nat \ {0} : \A n \in Nat : Power(r, n) \in Nat \ {0}
<1>. SUFFICES ASSUME NEW r \in Nat \ {0}, {n \in Nat : Power(r, n) \notin Nat \ {0}} # {}
              PROVE  FALSE
  OBVIOUS
<1>. DEFINE Wrong == {n \in Nat : Power(r, n) \notin Nat \ {0}}
<1>1. PICK n \in Wrong : \A m \in Wrong : n <= m
  BY PF!LeastOfSet
<1>2. n # 0
  BY <1>1, PowerZero
<1>3. n - 1 \in Nat /\ n - 1 \notin Wrong
  BY <1>1, <1>2
<1>4. Power(r, n) = Power(r, n - 1) * r
  <2>1. (n - 1) + 1 = n
    BY <1>1
  <2>. QED
    BY <1>3, <2>1, PowerNext
<1>. QED
  BY <1>1, <1>3, <1>4

LEMMA NumberEmpty == \A r : Number(r, <<>>) = 0
BY SameFolds, NF!FoldEmpty DEF Number

(* A number in the making keeps its radix. *)
LEMMA NumberNext ==
  ASSUME NEW r \in Nat, NEW s \in Seq(Nat), NEW c \in Nat
  PROVE  Number(r, Append(s, c)) = Number(r, s) * r + c
<1>1. PICK base : base = [radix |-> r, num |-> 0]
  OBVIOUS
<1>2. PICK T : T = [n \in Nat |-> [radix : {r}, num : Nat]]
  OBVIOUS
<1>3. NF!FoldLeft(AddPlace, base, s) \in T[Len(s)]
  <2>1. base \in T[0]
    BY <1>1, <1>2
  <2>2. ASSUME NEW n \in 1 .. Len(s), NEW v \in T[n - 1]
        PROVE  AddPlace(v, s[n]) \in T[n]
    <3>1. v.radix = r /\ v.num \in Nat /\ s[n] \in Nat /\ n \in Nat /\ n - 1 \in Nat
      BY <1>2
    <3>2. v.num * r \in Nat
      BY <3>1, ProductOfNaturals
    <3>3. v.num * v.radix + s[n] \in Nat
      BY <3>1, <3>2, SMTT(30)
    <3>. QED
      BY <1>2, <3>1, <3>3 DEF AddPlace
  <2>. QED
    BY <2>1, <2>2, NF!FoldInvariant
<1>4. PICK a : a = NF!FoldLeft(AddPlace, base, s)
  OBVIOUS
<1>5. PICK b : b = NF!FoldLeft(AddPlace, base, Append(s, c))
  OBVIOUS
<1>6. a.radix = r
  BY <1>2, <1>3, <1>4
<1>7. b = AddPlace(a, c)
  BY <1>4, <1>5, NF!FoldAppend
<1>8. Number(r, s) = a.num /\ Number(r, Append(s, c)) = b.num
  BY <1>1, <1>4, <1>5, SameFolds DEF Number
<1>. QED
  BY <1>6, <1>7, <1>8 DEF AddPlace

(* n digits make a number below the n-th power of the radix. *)
LEMMA NumberBelow ==
  ASSUME NEW r \in Nat \ {0}, NEW s \in Seq(0 .. r - 1)
  PROVE  Number(r, s) \in 0 .. Power(r, Len(s)) - 1
<1>1. PICK base : base = [radix |-> r, num |-> 0]
  OBVIOUS
<1>2. PICK T : T = [n \in Nat |-> {a \in [radix : {r}, num : Nat] : a.num < Power(r, n)}]
  OBVIOUS
<1>3. base \in T[0]
  BY <1>1, <1>2, PowerZero
<1>4. ASSUME NEW n \in 1 .. Len(s), NEW v \in T[n - 1]
      PROVE  AddPlace(v, s[n]) \in T[n]
  <2>1. /\ v.radix = r /\ v.num \in Nat /\ v.num < Power(r, n - 1)
        /\ s[n] \in 0 .. r - 1 /\ n \in Nat /\ n - 1 \in Nat /\ n - 1 + 1 = n
    BY <1>2
  <2>2. PICK p \in Nat : p = Power(r, n - 1)
    BY <2>1, PowerPositive
  <2>3. Power(r, n) = p * r
    BY <2>1, <2>2, PowerNext
  <2>4. v.num * r + s[n] \in Nat /\ v.num * r + s[n] < p * r
    <3>1. PICK a \in Nat : a = v.num /\ a < p
      BY <2>1, <2>2
    <3>2. PICK c \in 0 .. r - 1 : c = s[n]
      BY <2>1
    <3>. QED
      BY <3>1, <3>2, PlaceBelow
  <2>. QED
    BY <1>2, <2>1, <2>3, <2>4 DEF AddPlace
<1>5. NF!FoldLeft(AddPlace, base, s) \in T[Len(s)]
  BY <1>3, <1>4, NF!FoldInvariant
<1>6. Len(s) \in Nat /\ Power(r, Len(s)) \in Nat
  BY PowerPositive, SMTT(30)
<1>. QED
  BY <1>1, <1>2, <1>5, <1>6, SameFolds DEF Number

(* Different strings of one length are different numbers. *)
LEMMA NumberInjective ==
  ASSUME NEW r \in Nat \ {0}, NEW s \in Seq(0 .. r - 1), NEW t \in Seq(0 .. r - 1),
         Len(s) = Len(t), Number(r, s) = Number(r, t)
  PROVE  s = t
<1>. DEFINE Upto(q, n) == Number(r, SubSeq(q, 1, n))
<1>1. ASSUME NEW n \in 1 .. Len(s)
      PROVE  /\ Upto(s, n) = Upto(s, n - 1) * r + s[n] /\ Upto(s, n - 1) \in Nat
             /\ Upto(t, n) = Upto(t, n - 1) * r + t[n] /\ Upto(t, n - 1) \in Nat
             /\ s[n] \in 0 .. r - 1 /\ t[n] \in 0 .. r - 1
  <2>1. ASSUME NEW q \in Seq(0 .. r - 1), n \in 1 .. Len(q)
        PROVE  /\ Upto(q, n) = Upto(q, n - 1) * r + q[n]
               /\ Upto(q, n - 1) \in Nat
               /\ q[n] \in 0 .. r - 1
    <3>1. PICK p \in Seq(0 .. r - 1) : p = SubSeq(q, 1, n - 1)
      BY <2>1, FirstOnes
    <3>2. SubSeq(q, 1, n) = Append(p, q[n]) /\ q[n] \in 0 .. r - 1
      BY <2>1, <3>1, FirstOnes
    <3>3. p \in Seq(Nat) /\ q[n] \in Nat
      <4>1. 0 .. r - 1 \subseteq Nat
        OBVIOUS
      <4>. QED
        BY <3>2, <4>1, SeqMonotonic
    <3>4. Number(r, p) \in Nat
      <4>1. Power(r, Len(p)) \in Nat
        BY PowerPositive
      <4>. QED
        BY <4>1, NumberBelow
    <3>5. Number(r, Append(p, q[n])) = Number(r, p) * r + q[n]
      BY <3>3, NumberNext
    <3>. QED
      BY <3>1, <3>2, <3>4, <3>5
  <2>2. n \in 1 .. Len(t)
    OBVIOUS
  <2>. HIDE DEF Upto
  <2>. QED
    BY <2>1, <2>2
<1>2. ASSUME NEW n \in 1 .. Len(s), Upto(s, n) = Upto(t, n)
      PROVE  Upto(s, n - 1) = Upto(t, n - 1) /\ s[n] = t[n]
  <2>. HIDE DEF Upto
  <2>1. PICK a, b \in Nat : a = Upto(s, n - 1) /\ b = Upto(t, n - 1)
    BY <1>1
  <2>2. PICK c, d \in 0 .. r - 1 : c = s[n] /\ d = t[n]
    BY <1>1
  <2>3. Place(a, r, c) = Place(b, r, d)
    BY <1>1, <1>2, <2>1, <2>2 DEF Place
  <2>4. a = b /\ c = d
    BY <2>3, SamePlaces
  <2>. QED
    BY <2>1, <2>2, <2>4
<1>. DEFINE Differ == {k \in Nat : k <= Len(s) /\ Upto(s, Len(s) - k) # Upto(t, Len(s) - k)}
<1>3. Differ = {}
  <2>. SUFFICES ASSUME Differ # {}
                PROVE  FALSE
    OBVIOUS
  <2>1. PICK k \in Differ : \A m \in Differ : k <= m
    BY PF!LeastOfSet
  <2>2. SubSeq(s, 1, Len(s)) = s /\ SubSeq(t, 1, Len(s)) = t
    OBVIOUS
  <2>3. k # 0
    <3>1. Len(s) - 0 = Len(s)
      OBVIOUS
    <3>. QED
      BY <2>1, <2>2, <3>1
  <2>. HIDE DEF Upto
  <2>4. /\ k - 1 \in Nat /\ k - 1 <= Len(s) /\ ~(k <= k - 1)
        /\ Len(s) - (k - 1) \in 1 .. Len(s) /\ (Len(s) - (k - 1)) - 1 = Len(s) - k
    BY <2>1, <2>3
  <2>5. Upto(s, Len(s) - (k - 1)) = Upto(t, Len(s) - (k - 1))
    BY <2>1, <2>4
  <2>6. Upto(s, Len(s) - k) = Upto(t, Len(s) - k)
    BY <1>2, <2>4, <2>5
  <2>. QED
    BY <2>1, <2>6
<1>4. \A n \in 1 .. Len(t) : s[n] = t[n]
  <2>. HIDE DEF Upto
  <2>1. ASSUME NEW n \in 1 .. Len(s)
        PROVE  s[n] = t[n]
    <3>1. Len(s) - n \in Nat /\ Len(s) - n <= Len(s) /\ Len(s) - (Len(s) - n) = n
      OBVIOUS
    <3>2. Upto(s, n) = Upto(t, n)
      BY <1>3, <3>1
    <3>. QED
      BY <1>2, <3>2
  <2>. QED
    BY <2>1
<1>. QED
  BY <1>4, SameElements

(* A numeral of len digits. *)
LEMMA NumeralDigits ==
  ASSUME NEW r \in Nat \ {0}, NEW n \in Nat, NEW len \in Nat
  PROVE  Numeral(r, n, len) \in Seq(0 .. r - 1) /\ Len(Numeral(r, n, len)) = len
<1>1. ASSUME NEW i \in 1 .. len
      PROVE  (n \div Power(r, len - i)) % r \in 0 .. r - 1
  <2>1. len - i \in Nat
    OBVIOUS
  <2>2. PICK p \in Nat \ {0} : p = Power(r, len - i)
    BY <2>1, PowerPositive
  <2>3. PICK q \in Int : q = n \div p
    BY NaturalDivision
  <2>. QED
    BY <2>2, <2>3, Division
<1>2. Numeral(r, n, len) \in [1 .. len -> 0 .. r - 1]
  BY <1>1 DEF Numeral
<1>. QED
  BY <1>2, IsSequence

(* Different numbers that len digits can hold have different numerals. *)
LEMMA NumeralInjective ==
  ASSUME NEW r \in Nat \ {0}, NEW len \in Nat,
         NEW n \in 0 .. Power(r, len) - 1, NEW m \in 0 .. Power(r, len) - 1,
         Numeral(r, n, len) = Numeral(r, m, len)
  PROVE  n = m
<1>. DEFINE Q(x, i) == x \div Power(r, len - i)
            Differ == {i \in Nat : i <= len /\ Q(n, i) # Q(m, i)}
<1>1. /\ n \in Nat /\ m \in Nat /\ Power(r, len) \in Nat \ {0}
      /\ n < Power(r, len) /\ m < Power(r, len)
  BY PowerPositive
<1>2. Q(n, 0) = Q(m, 0)
  <2>1. len - 0 = len
    OBVIOUS
  <2>2. PICK p \in Nat \ {0} : p = Power(r, len)
    BY <1>1
  <2>3. \A x \in 0 .. p - 1 : x \div p = 0
    <3>1. ASSUME NEW x \in 0 .. p - 1
          PROVE  x \div p = 0
      <4>1. x = p * 0 + x /\ x \in Int /\ 0 \in Int
        OBVIOUS
      <4>. QED
        BY <4>1, DivisionUnique
    <3>. QED
      BY <3>1
  <2>. QED
    BY <2>1, <2>2, <2>3
<1>3. ASSUME NEW x \in Nat, NEW i \in 1 .. len
      PROVE  Q(x, i) = r * Q(x, i - 1) + (Q(x, i) % r)
  <2>1. len - i \in Nat /\ len - (i - 1) = (len - i) + 1
    OBVIOUS
  <2>2. PICK p \in Nat \ {0} : p = Power(r, len - i)
    BY <2>1, PowerPositive
  <2>3. Power(r, len - (i - 1)) = p * r
    BY <2>1, <2>2, PowerNext
  <2>4. Q(x, i - 1) = (x \div p) \div r
    BY <2>3, DividedTwice
  <2>5. x \div p \in Int
    BY Division
  <2>. QED
    BY <2>2, <2>4, <2>5, Division
<1>4. ASSUME NEW i \in 1 .. len
      PROVE  Q(n, i) % r = Q(m, i) % r
  <2>1. Numeral(r, n, len)[i] = Q(n, i) % r /\ Numeral(r, m, len)[i] = Q(m, i) % r
    BY DEF Numeral
  <2>. QED
    BY <2>1
<1>. HIDE DEF Q
<1>5. Differ = {}
  <2>. SUFFICES ASSUME Differ # {}
                PROVE  FALSE
    OBVIOUS
  <2>1. PICK i \in Differ : \A j \in Differ : i <= j
    BY PF!LeastOfSet
  <2>2. i \in 1 .. len /\ i - 1 \in Nat /\ i - 1 <= len /\ ~(i <= i - 1)
    BY <1>2, <2>1
  <2>3. Q(n, i - 1) = Q(m, i - 1)
    BY <2>1, <2>2
  <2>4. Q(n, i) = Q(m, i)
    BY <1>1, <1>3, <1>4, <2>2, <2>3
  <2>. QED
    BY <2>1, <2>4
<1>6. Q(n, len) = Q(m, len)
  <2>1. len <= len
    OBVIOUS
  <2>. QED
    BY <1>5, <2>1
<1>7. \A x \in Nat : Q(x, len) = x
  <2>1. len - len = 0 /\ Power(r, 0) = 1
    BY PowerZero
  <2>2. \A x \in Nat : x \div 1 = x
    OBVIOUS
  <2>. QED
    BY <2>1, <2>2 DEF Q
<1>. QED
  BY <1>1, <1>6, <1>7

-----------------------------------------------------------------------------
(* The Feistel network. *)

Keys == {"fpe", "card", "phone", "id", "email"}

(* The values of a half after n rounds: they change places with each round. *)
HalvesAfter(key, tweak, r, u, v, n) ==
  {h \in [key : {key}, tweak : {tweak}, radix : {r}, u : {u}, v : {v}, a : Nat, b : Nat] :
     /\ h.a < Power(r, IF n % 2 = 0 THEN u ELSE v)
     /\ h.b < Power(r, IF n % 2 = 0 THEN v ELSE u)}

(* A round takes such halves to such halves, and does not confuse them. *)
LEMMA RoundInjective ==
  ASSUME HmacNatural,
         NEW key \in Keys, NEW tweak \in Nat, NEW r \in Nat \ {0}, NEW u \in Nat, NEW v \in Nat,
         NEW n \in Nat, NEW h \in HalvesAfter(key, tweak, r, u, v, n)
  PROVE  /\ Round(h, n) \in HalvesAfter(key, tweak, r, u, v, n + 1)
         /\ \A g \in HalvesAfter(key, tweak, r, u, v, n) : Round(h, n) = Round(g, n) => h = g
<1>1. PICK m \in Nat \ {0} : m = Power(r, IF n % 2 = 0 THEN u ELSE v)
  BY PowerPositive
<1>2. PICK l \in Nat \ {0} : l = Power(r, IF n % 2 = 0 THEN v ELSE u)
  BY PowerPositive
<1>3. /\ m = Power(r, IF (n + 1) % 2 = 0 THEN v ELSE u)
      /\ l = Power(r, IF (n + 1) % 2 = 0 THEN u ELSE v)
  <2>1. n % 2 = 0 <=> (n + 1) % 2 # 0
    OBVIOUS
  <2>. QED
    BY <1>1, <1>2, <2>1
<1>4. ASSUME NEW g \in HalvesAfter(key, tweak, r, u, v, n)
      PROVE  /\ g \in [key : {key}, tweak : {tweak}, radix : {r}, u : {u}, v : {v},
                       a : 0 .. m - 1, b : 0 .. l - 1]
             /\ g = [key |-> key, tweak |-> tweak, radix |-> r, u |-> u, v |-> v,
                     a |-> g.a, b |-> g.b]
             /\ Prf(key, tweak, n, g.b) \in Nat
             /\ (g.a + Prf(key, tweak, n, g.b)) % m \in 0 .. m - 1
             /\ Round(g, n) = [key |-> key, tweak |-> tweak, radix |-> r, u |-> u, v |-> v,
                               a |-> g.b,
                               b |-> (g.a + Prf(key, tweak, n, g.b)) % m]
  <2>1. /\ g.key = key /\ g.tweak = tweak /\ g.radix = r /\ g.u = u /\ g.v = v
        /\ g.a \in 0 .. m - 1 /\ g.b \in 0 .. l - 1
        /\ g = [key |-> key, tweak |-> tweak, radix |-> r, u |-> u, v |-> v, a |-> g.a, b |-> g.b]
    BY <1>1, <1>2 DEF HalvesAfter
  <2>2. Prf(key, tweak, n, g.b) \in Nat
    BY <2>1 DEF HmacNatural, Keys
  <2>3. g.a + Prf(key, tweak, n, g.b) \in Int
    BY <2>1, <2>2
  <2>4. (g.a + Prf(key, tweak, n, g.b)) % m \in 0 .. m - 1
    BY <2>3, Division
  <2>5. Power(r, IF n % 2 = 0 THEN g.u ELSE g.v) = m
    BY <1>1, <2>1
  <2>6. Round(g, n) = [g EXCEPT !.a = g.b, !.b = (g.a + Prf(key, tweak, n, g.b)) % m]
    BY <2>1, <2>5 DEF Round
  <2>. QED
    BY <2>1, <2>2, <2>4, <2>6
<1>5. Round(h, n) \in HalvesAfter(key, tweak, r, u, v, n + 1)
  <2>1. /\ Round(h, n) = [key |-> key, tweak |-> tweak, radix |-> r, u |-> u, v |-> v, a |-> h.b,
                          b |-> (h.a + Prf(key, tweak, n, h.b)) % m]
        /\ h.b \in 0 .. l - 1 /\ (h.a + Prf(key, tweak, n, h.b)) % m \in 0 .. m - 1
    BY <1>4
  <2>. QED
    BY <1>3, <2>1 DEF HalvesAfter
<1>6. ASSUME NEW g \in HalvesAfter(key, tweak, r, u, v, n), Round(h, n) = Round(g, n)
      PROVE  h = g
  <2>1. h.b = g.b /\ (h.a + Prf(key, tweak, n, h.b)) % m = (g.a + Prf(key, tweak, n, g.b)) % m
    BY <1>4, <1>6
  <2>2. PICK f \in Nat : f = Prf(key, tweak, n, h.b)
    BY <1>4
  <2>3. PICK x, y \in 0 .. m - 1 : x = h.a /\ y = g.a
    BY <1>4
  <2>4. (x + f) % m = (y + f) % m
    BY <2>1, <2>2, <2>3
  <2>5. x = y
    BY <2>4, EqualModulo
  <2>. QED
    BY <1>4, <2>1, <2>3, <2>5
<1>. QED
  BY <1>5, <1>6

(* The halves of a string of digits. *)
LEMMA HalvesBefore ==
  ASSUME NEW key \in Keys, NEW tweak \in Nat, NEW r \in Nat \ {0}, NEW s \in Seq(0 .. r - 1),
         NEW u \in Nat, NEW v \in Nat, u = Len(s) \div 2, v = Len(s) - u
  PROVE  /\ Halves(key, tweak, r, s) \in HalvesAfter(key, tweak, r, u, v, 0)
         /\ \A t \in Seq(0 .. r - 1) :
              Len(t) = Len(s) /\ Halves(key, tweak, r, t) = Halves(key, tweak, r, s) => t = s
<1>1. Len(s) \in Nat /\ u + v = Len(s) /\ u <= Len(s)
  OBVIOUS
<1>2. ASSUME NEW t \in Seq(0 .. r - 1), Len(t) = Len(s)
      PROVE  /\ SubSeq(t, 1, u) \in Seq(0 .. r - 1) /\ Len(SubSeq(t, 1, u)) = u
             /\ SubSeq(t, u + 1, Len(t)) \in Seq(0 .. r - 1) /\ Len(SubSeq(t, u + 1, Len(t))) = v
             /\ \A i \in 1 .. u : SubSeq(t, 1, u)[i] = t[i]
             /\ \A i \in 1 .. v : SubSeq(t, u + 1, Len(t))[i] = t[u + i]
             /\ Halves(key, tweak, r, t) =
                  [key |-> key, tweak |-> tweak, radix |-> r, u |-> u, v |-> v,
                   a |-> Number(r, SubSeq(t, 1, u)), b |-> Number(r, SubSeq(t, u + 1, Len(t)))]
  <2>1. /\ \A i \in 1 .. Len(t) : t[i] \in 0 .. r - 1
        /\ \A i \in 1 .. u : i \in 1 .. Len(t)
        /\ \A i \in 1 .. v : u + i \in 1 .. Len(t)
    BY <1>1, <1>2
  <2>2. SubSeq(t, 1, u) = [i \in 1 .. u |-> t[i]]
    BY <1>1, <1>2
  <2>3. SubSeq(t, u + 1, Len(t)) = [i \in 1 .. v |-> t[u + i]]
    BY <1>1, <1>2
  <2>4. SubSeq(t, 1, u) \in [1 .. u -> 0 .. r - 1]
    <3>1. \A i \in 1 .. u : t[i] \in 0 .. r - 1
      BY <2>1
    <3>. QED
      BY <2>2, <3>1, Zenon
  <2>5. SubSeq(t, u + 1, Len(t)) \in [1 .. v -> 0 .. r - 1]
    <3>1. \A i \in 1 .. v : t[u + i] \in 0 .. r - 1
      BY <2>1
    <3>. QED
      BY <2>3, <3>1, Zenon
  <2>6. Halves(key, tweak, r, t) =
          [key |-> key, tweak |-> tweak, radix |-> r, u |-> u, v |-> v,
           a |-> Number(r, SubSeq(t, 1, u)), b |-> Number(r, SubSeq(t, u + 1, Len(t)))]
    BY <1>2 DEF Halves
  <2>7. SubSeq(t, 1, u) \in Seq(0 .. r - 1) /\ Len(SubSeq(t, 1, u)) = u
    BY <2>4, IsSequence
  <2>8. SubSeq(t, u + 1, Len(t)) \in Seq(0 .. r - 1) /\ Len(SubSeq(t, u + 1, Len(t))) = v
    BY <2>5, IsSequence
  <2>. QED
    BY <2>2, <2>3, <2>6, <2>7, <2>8
<1>3. Halves(key, tweak, r, s) \in HalvesAfter(key, tweak, r, u, v, 0)
  <2>1. PICK p, q \in Nat \ {0} : p = Power(r, u) /\ q = Power(r, v)
    BY PowerPositive
  <2>2. PICK a \in 0 .. p - 1 : a = Number(r, SubSeq(s, 1, u))
    BY <1>2, <2>1, NumberBelow
  <2>3. PICK b \in 0 .. q - 1 : b = Number(r, SubSeq(s, u + 1, Len(s)))
    BY <1>2, <2>1, NumberBelow
  <2>4. Halves(key, tweak, r, s) =
          [key |-> key, tweak |-> tweak, radix |-> r, u |-> u, v |-> v, a |-> a, b |-> b]
    BY <1>2, <2>2, <2>3
  <2>5. 0 % 2 = 0 /\ a \in Nat /\ b \in Nat /\ a < p /\ b < q
    OBVIOUS
  <2>. QED
    BY <2>1, <2>4, <2>5 DEF HalvesAfter
<1>4. ASSUME NEW t \in Seq(0 .. r - 1), Len(t) = Len(s),
             Halves(key, tweak, r, t) = Halves(key, tweak, r, s)
      PROVE  t = s
  <2>1. /\ Number(r, SubSeq(t, 1, u)) = Number(r, SubSeq(s, 1, u))
        /\ Number(r, SubSeq(t, u + 1, Len(t))) = Number(r, SubSeq(s, u + 1, Len(s)))
    <3>1. PICK g : g = Halves(key, tweak, r, t) /\ g = Halves(key, tweak, r, s)
      BY <1>4
    <3>2. ASSUME NEW x \in Seq(0 .. r - 1), Len(x) = Len(s), g = Halves(key, tweak, r, x)
          PROVE  g.a = Number(r, SubSeq(x, 1, u)) /\ g.b = Number(r, SubSeq(x, u + 1, Len(x)))
      <4>1. g = [key |-> key, tweak |-> tweak, radix |-> r, u |-> u, v |-> v,
                 a |-> Number(r, SubSeq(x, 1, u)), b |-> Number(r, SubSeq(x, u + 1, Len(x)))]
        BY <1>2, <3>2
      <4>. QED
        BY <4>1
    <3>3. /\ g.a = Number(r, SubSeq(s, 1, u)) /\ g.b = Number(r, SubSeq(s, u + 1, Len(s)))
          /\ g.a = Number(r, SubSeq(t, 1, u)) /\ g.b = Number(r, SubSeq(t, u + 1, Len(t)))
      BY <1>4, <3>1, <3>2
    <3>. QED
      BY <3>3
  <2>2. SubSeq(t, 1, u) = SubSeq(s, 1, u)
    <3>. PICK x, y \in Seq(0 .. r - 1) : x = SubSeq(t, 1, u) /\ y = SubSeq(s, 1, u)
        /\ Len(x) = Len(y)
      BY <1>2, <1>4
    <3>. QED
      BY <2>1, NumberInjective
  <2>3. SubSeq(t, u + 1, Len(t)) = SubSeq(s, u + 1, Len(s))
    <3>. PICK x, y \in Seq(0 .. r - 1) :
           x = SubSeq(t, u + 1, Len(t)) /\ y = SubSeq(s, u + 1, Len(s)) /\ Len(x) = Len(y)
      BY <1>2, <1>4
    <3>. QED
      BY <2>1, NumberInjective
  <2>4. \A i \in 1 .. Len(s) : i \in 1 .. u \/ (i - u \in 1 .. v /\ u + (i - u) = i)
    BY <1>1
  <2>5. ASSUME NEW i \in 1 .. Len(s)
        PROVE  t[i] = s[i]
    <3>1. CASE i \in 1 .. u
      BY <1>2, <1>4, <2>2, <3>1
    <3>2. CASE i - u \in 1 .. v
      <4>1. u + (i - u) = i
        OBVIOUS
      <4>2. SubSeq(t, u + 1, Len(t))[i - u] = t[i] /\ SubSeq(s, u + 1, Len(s))[i - u] = s[i]
        BY <1>2, <1>4, <3>2, <4>1
      <4>. QED
        BY <2>3, <4>2
    <3>. QED
      BY <2>4, <3>1, <3>2
  <2>. QED
    BY <1>4, <2>5, SameElements
<1>. QED
  BY <1>3, <1>4

(* How many rounds there are. *)
LEMMA RoundsCounted ==
  ASSUME NEW rounds \in Int
  PROVE  /\ Max({4, rounds}) \in Nat
         /\ [i \in 1 .. Max({4, rounds}) |-> i - 1] \in Seq(Nat)
         /\ Len([i \in 1 .. Max({4, rounds}) |-> i - 1]) = Max({4, rounds})
<1>1. PICK n \in Nat : n = Max({4, rounds})
  BY MaxOfTwo
<1>2. [i \in 1 .. n |-> i - 1] \in [1 .. n -> Nat]
  OBVIOUS
<1>. QED
  BY <1>1, <1>2, IsSequence, ZenonT(40)

(* The numbers of n rounds. *)
Counts(s, n) == Len(s) = n /\ \A i \in 1 .. n : s[i] = i - 1

(* All the rounds: the halves at their end, and which they came from. *)
LEMMA RoundsInjective ==
  ASSUME HmacNatural,
         NEW key \in Keys, NEW tweak \in Nat, NEW r \in Nat \ {0}, NEW u \in Nat, NEW v \in Nat,
         NEW n \in Nat, NEW s \in Seq(Nat), Counts(s, n),
         NEW h \in HalvesAfter(key, tweak, r, u, v, 0)
  PROVE  /\ FoldLeft(Round, h, s) \in HalvesAfter(key, tweak, r, u, v, n)
         /\ \A g \in HalvesAfter(key, tweak, r, u, v, 0) :
              FoldLeft(Round, h, s) = FoldLeft(Round, g, s) => h = g
<1>0. Len(s) = n /\ \A i \in 1 .. n : s[i] = i - 1
  BY DEF Counts
<1>1. PICK T : T = [i \in Nat |-> HalvesAfter(key, tweak, r, u, v, i)]
  OBVIOUS
<1>2. ASSUME NEW i \in 1 .. Len(s)
      PROVE  /\ \A x \in T[i - 1] : Round(x, s[i]) \in T[i]
             /\ \A x, y \in T[i - 1] : Round(x, s[i]) = Round(y, s[i]) => x = y
  <2>1. i - 1 \in Nat /\ i \in Nat /\ (i - 1) + 1 = i /\ s[i] = i - 1
    BY <1>0
  <2>2. PICK k \in Nat : k = i - 1
    BY <2>1
  <2>3. T[i - 1] = HalvesAfter(key, tweak, r, u, v, k)
        /\ T[i] = HalvesAfter(key, tweak, r, u, v, k + 1)
    BY <1>1, <2>1, <2>2
  <2>4. ASSUME NEW x \in HalvesAfter(key, tweak, r, u, v, k)
        PROVE  /\ Round(x, k) \in HalvesAfter(key, tweak, r, u, v, k + 1)
               /\ \A y \in HalvesAfter(key, tweak, r, u, v, k) : Round(x, k) = Round(y, k) => x = y
    BY RoundInjective
  <2>. QED
    BY <2>1, <2>2, <2>3, <2>4
<1>3. h \in T[0] /\ T[0] = HalvesAfter(key, tweak, r, u, v, 0)
      /\ T[n] = HalvesAfter(key, tweak, r, u, v, n)
  BY <1>1
<1>4. FoldLeft(Round, h, s) \in HalvesAfter(key, tweak, r, u, v, n)
  <2>1. RF!FoldLeft(Round, h, s) \in T[Len(s)]
    BY <1>2, <1>3, RF!FoldInvariant
  <2>. QED
    BY <1>0, <1>3, <2>1, SameFolds
<1>5. ASSUME NEW g \in T[0], FoldLeft(Round, h, s) = FoldLeft(Round, g, s)
      PROVE  h = g
  <2>1. RF!FoldLeft(Round, h, s) = RF!FoldLeft(Round, g, s)
    BY <1>5, SameFolds
  <2>2. RF!Keeps(T, s) /\ RF!Separates(T, s)
    BY <1>2 DEF RF!Keeps, RF!Separates
  <2>3. h \in T[0] /\ g \in T[0]
    BY <1>3
  <2>. QED
    BY <2>1, <2>2, <2>3, RF!FoldInjective
<1>. QED
  BY <1>3, <1>4, <1>5

(* What the halves of s have become. *)
RoundsDone(key, tweak, r, rounds, s) ==
  FoldLeft(Round, Halves(key, tweak, r, s), [i \in 1 .. Max({4, rounds}) |-> i - 1])

LEMMA RoundsDoneInjective ==
  ASSUME HmacNatural,
         NEW key \in Keys, NEW tweak \in Nat, NEW r \in Nat \ {0}, NEW rounds \in Int,
         NEW s \in Seq(0 .. r - 1), NEW u \in Nat, NEW v \in Nat,
         u = Len(s) \div 2, v = Len(s) - u
  PROVE  /\ RoundsDone(key, tweak, r, rounds, s)
              \in HalvesAfter(key, tweak, r, u, v, Max({4, rounds}))
         /\ \A t \in Seq(0 .. r - 1) :
              /\ Len(t) = Len(s)
              /\ RoundsDone(key, tweak, r, rounds, t) = RoundsDone(key, tweak, r, rounds, s)
              => t = s
<1>1. PICK n \in Nat : n = Max({4, rounds})
  BY RoundsCounted
<1>2. PICK w \in Seq(Nat) : w = [i \in 1 .. n |-> i - 1] /\ Len(w) = n
  BY <1>1, RoundsCounted
<1>3. Counts(w, n)
  BY <1>2 DEF Counts
<1>4. PICK h \in HalvesAfter(key, tweak, r, u, v, 0) : h = Halves(key, tweak, r, s)
  BY HalvesBefore
<1>5. /\ FoldLeft(Round, h, w) \in HalvesAfter(key, tweak, r, u, v, n)
      /\ \A g \in HalvesAfter(key, tweak, r, u, v, 0) :
           FoldLeft(Round, h, w) = FoldLeft(Round, g, w) => h = g
  BY <1>3, RoundsInjective, SMTT(30)
<1>6. ASSUME NEW t \in Seq(0 .. r - 1), Len(t) = Len(s),
             RoundsDone(key, tweak, r, rounds, t) = RoundsDone(key, tweak, r, rounds, s)
      PROVE  t = s
  <2>1. PICK g \in HalvesAfter(key, tweak, r, u, v, 0) : g = Halves(key, tweak, r, t)
    BY <1>6, HalvesBefore
  <2>2. FoldLeft(Round, h, w) = FoldLeft(Round, g, w)
    BY <1>1, <1>2, <1>4, <1>6, <2>1 DEF RoundsDone
  <2>3. h = g
    BY <1>5, <2>2
  <2>. QED
    BY <1>4, <1>6, <2>1, <2>3, HalvesBefore
<1>. QED
  BY <1>1, <1>2, <1>4, <1>5, <1>6 DEF RoundsDone

(* What is written at the end: the two halves, in the order the code has. *)
Written(r, h, n) ==
  IF n % 2 = 0 THEN Numeral(r, h.a, h.u) \o Numeral(r, h.b, h.v)
  ELSE Numeral(r, h.b, h.v) \o Numeral(r, h.a, h.u)

LEMMA ConcatType ==
  \A S : \A a, b \in Seq(S) : a \o b \in Seq(S) /\ Len(a \o b) = Len(a) + Len(b)
OBVIOUS

LEMMA ConcatElements ==
  \A S : \A a, b \in Seq(S) :
    /\ \A i \in 1 .. Len(a) : (a \o b)[i] = a[i]
    /\ \A i \in 1 .. Len(b) : (a \o b)[Len(a) + i] = b[i]
OBVIOUS

(* y is a followed by b. *)
Joined(S, a, b, y) ==
  /\ y \in Seq(S) /\ Len(y) = Len(a) + Len(b)
  /\ \A i \in 1 .. Len(a) : y[i] = a[i]
  /\ \A i \in 1 .. Len(b) : y[Len(a) + i] = b[i]

LEMMA ConcatJoined == \A S : \A a, b \in Seq(S) : Joined(S, a, b, a \o b)
BY ConcatType, ConcatElements DEF Joined

LEMMA TailParts ==
  \A S : \A s \in Seq(S) : Len(s) # 0 => Tail(s) \in Seq(S) /\ Len(Tail(s)) = Len(s) - 1
OBVIOUS

LEMMA OnlyOne == \A S : \A c \in S : <<c>> \in Seq(S) /\ Len(<<c>>) = 1 /\ <<c>>[1] = c
OBVIOUS

LEMMA ConcatInjective ==
  \A S : \A a, b, c, d \in Seq(S) : Len(a) = Len(c) /\ a \o b = c \o d => a = c /\ b = d
<1>1. ASSUME NEW S, NEW a \in Seq(S), NEW b \in Seq(S), NEW c \in Seq(S), NEW d \in Seq(S),
             Len(a) = Len(c), a \o b = c \o d
      PROVE  a = c /\ b = d
  <2>1. /\ Len(a \o b) = Len(a) + Len(b)
        /\ \A i \in 1 .. Len(a) : (a \o b)[i] = a[i]
        /\ \A i \in 1 .. Len(b) : (a \o b)[Len(a) + i] = b[i]
    BY ConcatType, ConcatElements
  <2>2. /\ Len(c \o d) = Len(c) + Len(d)
        /\ \A i \in 1 .. Len(c) : (c \o d)[i] = c[i]
        /\ \A i \in 1 .. Len(d) : (c \o d)[Len(c) + i] = d[i]
    BY ConcatType, ConcatElements
  <2>3. PICK e : e = a \o b /\ e = c \o d
    BY <1>1
  <2>4. Len(b) = Len(d)
    <3>1. Len(a) \in Nat /\ Len(b) \in Nat /\ Len(c) \in Nat /\ Len(d) \in Nat
      BY LenNatural
    <3>2. Len(a) + Len(b) = Len(c) + Len(d)
      BY <2>1, <2>2, <2>3
    <3>. QED
      BY <1>1, <3>1, <3>2
  <2>5. \A i \in 1 .. Len(c) : a[i] = c[i]
    BY <1>1, <2>1, <2>2, <2>3
  <2>6. \A i \in 1 .. Len(d) : b[i] = d[i]
    BY <1>1, <2>1, <2>2, <2>3, <2>4
  <2>. QED
    BY <1>1, <2>4, <2>5, <2>6, SameElements
<1>. QED
  BY <1>1

LEMMA WrittenInjective ==
  ASSUME NEW key, NEW tweak, NEW r \in Nat \ {0}, NEW u \in Nat, NEW v \in Nat, NEW n \in Nat,
         NEW h \in HalvesAfter(key, tweak, r, u, v, n)
  PROVE  /\ Written(r, h, n) \in Seq(0 .. r - 1)
         /\ Len(Written(r, h, n)) = u + v
         /\ \A g \in HalvesAfter(key, tweak, r, u, v, n) :
              (u = v \/ n % 2 = 0) /\ Written(r, g, n) = Written(r, h, n) => g = h
<1>1. ASSUME NEW g \in HalvesAfter(key, tweak, r, u, v, n)
      PROVE  /\ g.a \in Nat /\ g.b \in Nat /\ g.u = u /\ g.v = v
             /\ g = [key |-> key, tweak |-> tweak, radix |-> r, u |-> u, v |-> v,
                     a |-> g.a, b |-> g.b]
             /\ g.a < Power(r, IF n % 2 = 0 THEN u ELSE v)
             /\ g.b < Power(r, IF n % 2 = 0 THEN v ELSE u)
             /\ Numeral(r, g.a, u) \in Seq(0 .. r - 1) /\ Len(Numeral(r, g.a, u)) = u
             /\ Numeral(r, g.b, v) \in Seq(0 .. r - 1) /\ Len(Numeral(r, g.b, v)) = v
  <2>1. /\ g.a \in Nat /\ g.b \in Nat /\ g.u = u /\ g.v = v
        /\ g = [key |-> key, tweak |-> tweak, radix |-> r, u |-> u, v |-> v, a |-> g.a, b |-> g.b]
        /\ g.a < Power(r, IF n % 2 = 0 THEN u ELSE v)
        /\ g.b < Power(r, IF n % 2 = 0 THEN v ELSE u)
    BY DEF HalvesAfter
  <2>2. Numeral(r, g.a, u) \in Seq(0 .. r - 1) /\ Len(Numeral(r, g.a, u)) = u
    BY <2>1, NumeralDigits
  <2>3. Numeral(r, g.b, v) \in Seq(0 .. r - 1) /\ Len(Numeral(r, g.b, v)) = v
    BY <2>1, NumeralDigits
  <2>. QED
    BY <2>1, <2>2, <2>3
<1>2. Written(r, h, n) \in Seq(0 .. r - 1) /\ Len(Written(r, h, n)) = u + v
  <2>1. PICK x, y \in Seq(0 .. r - 1) :
          /\ x = Numeral(r, h.a, u) /\ y = Numeral(r, h.b, v) /\ Len(x) = u /\ Len(y) = v
          /\ Written(r, h, n) = IF n % 2 = 0 THEN x \o y ELSE y \o x
    BY <1>1 DEF Written
  <2>2. u + v = v + u
    OBVIOUS
  <2>3. /\ x \o y \in Seq(0 .. r - 1) /\ Len(x \o y) = u + v
        /\ y \o x \in Seq(0 .. r - 1) /\ Len(y \o x) = v + u
    BY <2>1, ConcatType
  <2>. QED
    BY <2>1, <2>2, <2>3
<1>3. ASSUME NEW g \in HalvesAfter(key, tweak, r, u, v, n), u = v \/ n % 2 = 0,
             Written(r, g, n) = Written(r, h, n)
      PROVE  g = h
  <2>1. Numeral(r, g.a, u) = Numeral(r, h.a, u) /\ Numeral(r, g.b, v) = Numeral(r, h.b, v)
    <3>1. PICK x, y \in Seq(0 .. r - 1) :
            /\ x = Numeral(r, h.a, u) /\ y = Numeral(r, h.b, v) /\ Len(x) = u /\ Len(y) = v
            /\ Written(r, h, n) = IF n % 2 = 0 THEN x \o y ELSE y \o x
      BY <1>1 DEF Written
    <3>2. PICK z, w \in Seq(0 .. r - 1) :
            /\ z = Numeral(r, g.a, u) /\ w = Numeral(r, g.b, v) /\ Len(z) = u /\ Len(w) = v
            /\ Written(r, g, n) = IF n % 2 = 0 THEN z \o w ELSE w \o z
      BY <1>1 DEF Written
    <3>3. CASE n % 2 = 0
      <4>1. z \o w = x \o y /\ Len(z) = Len(x)
        BY <1>3, <3>1, <3>2, <3>3
      <4>. QED
        BY <3>1, <3>2, <4>1, ConcatInjective
    <3>4. CASE n % 2 # 0
      <4>1. w \o z = y \o x /\ Len(w) = Len(y)
        BY <1>3, <3>1, <3>2, <3>4
      <4>. QED
        BY <3>1, <3>2, <4>1, ConcatInjective
    <3>. QED
      BY <3>3, <3>4
  <2>2. PICK p, q \in Nat \ {0} : p = Power(r, u) /\ q = Power(r, v)
    BY PowerPositive
  <2>3. /\ g.a \in 0 .. p - 1 /\ h.a \in 0 .. p - 1
        /\ g.b \in 0 .. q - 1 /\ h.b \in 0 .. q - 1
    BY <1>1, <1>3, <2>2
  <2>4. g.a = h.a
    BY <2>1, <2>2, <2>3, NumeralInjective
  <2>5. g.b = h.b
    BY <2>1, <2>2, <2>3, NumeralInjective
  <2>. QED
    BY <1>1, <2>4, <2>5
<1>. QED
  BY <1>2, <1>3

(* What encryption writes. *)
LEMMA EncryptWritten ==
  ASSUME NEW key, NEW tweak, NEW r, NEW rounds \in Int, NEW S, NEW s \in Seq(S), Len(s) > 1
  PROVE  Encrypt(key, tweak, r, rounds, s)
           = Written(r, RoundsDone(key, tweak, r, rounds, s), Max({4, rounds}))
<1>1. PICK n \in Nat : n = Max({4, rounds})
  BY RoundsCounted
<1>2. n % 2 = 0 \/ n % 2 = 1
  OBVIOUS
<1>3. Len(s) # 0 /\ Len(s) # 1
  OBVIOUS
<1>. QED
  BY <1>1, <1>2, <1>3 DEF Encrypt, Written, RoundsDone

(* Encryption keeps length and alphabet. *)
LEMMA EncryptDigits ==
  ASSUME HmacNatural,
         NEW key \in Keys, NEW tweak \in Nat, NEW r \in Nat \ {0}, NEW rounds \in Int,
         NEW s \in Seq(0 .. r - 1)
  PROVE  /\ Encrypt(key, tweak, r, rounds, s) \in Seq(0 .. r - 1)
         /\ Len(Encrypt(key, tweak, r, rounds, s)) = Len(s)
<1>1. PICK n \in Nat : n = Max({4, rounds})
  BY RoundsCounted
<1>2. PICK u, v \in Nat : u = Len(s) \div 2 /\ v = Len(s) - u /\ u + v = Len(s)
  BY LenNatural, TwoHalves
<1>4. PICK h \in HalvesAfter(key, tweak, r, u, v, n) : h = RoundsDone(key, tweak, r, rounds, s)
  BY <1>1, <1>2, RoundsDoneInjective
<1>5. /\ Written(r, h, n) \in Seq(0 .. r - 1)
      /\ Len(Written(r, h, n)) = u + v
  BY WrittenInjective
<1>6. CASE Len(s) > 1
  <2>1. Encrypt(key, tweak, r, rounds, s) = Written(r, h, n)
    BY <1>1, <1>4, <1>6, EncryptWritten
  <2>2. u + v = Len(s)
    BY <1>2
  <2>. QED
    BY <1>1, <1>4, <1>5, <2>1, <2>2
<1>7. CASE Len(s) = 1
  <2>1. s[1] \in 0 .. r - 1 /\ s[1] \in Nat
    <3>1. 1 \in 1 .. Len(s)
      BY <1>7
    <3>2. s[1] \in 0 .. r - 1
      BY <3>1, Elements
    <3>. QED
      BY <3>2
  <2>2. Shift(key, tweak, s[1]) \in Nat
    BY <2>1 DEF HmacNatural, Keys
  <2>3. PICK c \in 0 .. r - 1 : c = (s[1] + Shift(key, tweak, s[1])) % r
    <3>1. s[1] + Shift(key, tweak, s[1]) \in Int
      BY <2>1, <2>2
    <3>. QED
      BY <3>1, Division
  <2>4. Encrypt(key, tweak, r, rounds, s) = <<c>>
    BY <1>7, <2>3 DEF Encrypt
  <2>. QED
    BY <1>7, <2>4
<1>8. CASE Len(s) = 0
  <2>1. Encrypt(key, tweak, r, rounds, s) = s
    BY <1>8 DEF Encrypt
  <2>. QED
    BY <1>8, <2>1
<1>9. Len(s) \in Nat
  BY LenNatural
<1>10. Len(s) > 1 \/ Len(s) = 1 \/ Len(s) = 0
  BY <1>9, ZeroOneMore, Zenon
<1>. QED
  BY <1>6, <1>7, <1>8, <1>10

(* It confuses no two strings of a length that is even, or with an even number
   of rounds; but for single characters. *)
THEOREM EncryptInjective ==
  ASSUME HmacNatural,
         NEW key \in Keys, NEW tweak \in Nat, NEW r \in Nat \ {0}, NEW rounds \in Int,
         NEW s \in Seq(0 .. r - 1), NEW t \in Seq(0 .. r - 1), Len(s) = Len(t),
         Len(s) # 1, Len(s) % 2 = 0 \/ Max({4, rounds}) % 2 = 0,
         Encrypt(key, tweak, r, rounds, s) = Encrypt(key, tweak, r, rounds, t)
  PROVE  s = t
<1>1. Len(s) = 0 => s = <<>> /\ t = <<>>
  BY LenNatural
<1>. SUFFICES ASSUME Len(s) > 1
              PROVE  s = t
  <2>1. Len(s) \in Nat
    BY LenNatural
  <2>. QED
    BY <1>1, <2>1
<1>2. PICK n \in Nat : n = Max({4, rounds})
  BY RoundsCounted
<1>3. PICK u, v \in Nat :
        u = Len(s) \div 2 /\ v = Len(s) - u /\ (Len(s) % 2 = 0 => u = v)
  <2>. PICK k \in Nat : k = Len(s)
    BY LenNatural
  <2>. QED
    BY TwoHalves
<1>5. PICK h \in HalvesAfter(key, tweak, r, u, v, n) : h = RoundsDone(key, tweak, r, rounds, s)
  BY <1>2, <1>3, RoundsDoneInjective
<1>6. PICK g \in HalvesAfter(key, tweak, r, u, v, n) : g = RoundsDone(key, tweak, r, rounds, t)
  BY <1>2, <1>3, RoundsDoneInjective
<1>7. u = v \/ n % 2 = 0
  BY <1>2, <1>3
<1>8. Written(r, g, n) = Written(r, h, n)
  <2>1. Encrypt(key, tweak, r, rounds, s) = Written(r, h, n)
    BY <1>2, <1>5, EncryptWritten
  <2>2. Encrypt(key, tweak, r, rounds, t) = Written(r, g, n)
    BY <1>2, <1>6, EncryptWritten
  <2>. QED
    BY <2>1, <2>2
<1>9. g = h
  BY <1>7, <1>8, WrittenInjective
<1>. QED
  BY <1>3, <1>5, <1>6, <1>9, RoundsDoneInjective

-----------------------------------------------------------------------------

(* The characters of a string that are in a set. *)

LEMMA InsideEmpty == \A set : Inside(<<>>, set) = <<>>
BY SameFolds, CF!FoldEmpty DEF Inside

LEMMA InsideNext ==
  ASSUME NEW set, NEW s \in Seq(Nat), NEW c \in Nat
  PROVE  /\ Inside(s, set) \in Seq(Nat \cap set)
         /\ Inside(Append(s, c), set) =
              IF c \in set THEN Append(Inside(s, set), c) ELSE Inside(s, set)
<1>1. PICK base : base = [set |-> set, kept |-> <<>>]
  OBVIOUS
<1>2. PICK T : T = [n \in Nat |-> [set : {set}, kept : Seq(Nat \cap set)]]
  OBVIOUS
<1>3. CF!FoldLeft(Chosen, base, s) \in T[Len(s)]
  <2>1. base \in T[0]
    BY <1>1, <1>2
  <2>2. ASSUME NEW n \in 1 .. Len(s), NEW v \in T[n - 1]
        PROVE  Chosen(v, s[n]) \in T[n]
    <3>1. v.set = set /\ v.kept \in Seq(Nat \cap set) /\ s[n] \in Nat /\ n \in Nat /\ n - 1 \in Nat
          /\ v \in [set : {set}, kept : Seq(Nat \cap set)]
      BY <1>2
    <3>2. CASE s[n] \in set
      <4>1. Append(v.kept, s[n]) \in Seq(Nat \cap set)
        BY <3>1, <3>2
      <4>. QED
        BY <1>2, <3>1, <3>2, <4>1 DEF Chosen
    <3>3. CASE s[n] \notin set
      BY <1>2, <3>1, <3>3 DEF Chosen
    <3>. QED
      BY <3>2, <3>3
  <2>. QED
    BY <2>1, <2>2, CF!FoldInvariant
<1>4. PICK a : a = CF!FoldLeft(Chosen, base, s)
  OBVIOUS
<1>5. PICK b : b = CF!FoldLeft(Chosen, base, Append(s, c))
  OBVIOUS
<1>6. a.set = set /\ a.kept \in Seq(Nat \cap set)
  BY <1>2, <1>3, <1>4, LenNatural
<1>7. b = Chosen(a, c)
  BY <1>4, <1>5, CF!FoldAppend
<1>8. Inside(s, set) = a.kept /\ Inside(Append(s, c), set) = b.kept
  BY <1>1, <1>4, <1>5, SameFolds DEF Inside
<1>. QED
  BY <1>6, <1>7, <1>8 DEF Chosen

(* How many of the first i characters are in the set. *)
Rank(s, set, i) == Cardinality({j \in 1 .. i : s[j] \in set})

LEMMA RankNext ==
  \A s, set : /\ Rank(s, set, 0) = 0
              /\ \A n \in Nat : Rank(s, set, n) \in Nat /\ Rank(s, set, n) <= n
              /\ \A n \in Nat \ {0} :
                   Rank(s, set, n) = Rank(s, set, n - 1) + (IF s[n] \in set THEN 1 ELSE 0)
<1>. SUFFICES ASSUME NEW s, NEW set
              PROVE  /\ Rank(s, set, 0) = 0
                     /\ \A n \in Nat : Rank(s, set, n) \in Nat /\ Rank(s, set, n) <= n
                     /\ \A n \in Nat \ {0} :
                          Rank(s, set, n) = Rank(s, set, n - 1) + (IF s[n] \in set THEN 1 ELSE 0)
  OBVIOUS
<1>. DEFINE In(n) == {j \in 1 .. n : s[j] \in set}
<1>1. \A n \in Nat : IsFiniteSet(In(n)) /\ Cardinality(In(n)) \in Nat /\ Cardinality(In(n)) <= n
  <2>1. ASSUME NEW n \in Nat
        PROVE  IsFiniteSet(In(n)) /\ Cardinality(In(n)) \in Nat /\ Cardinality(In(n)) <= n
    <3>1. IsFiniteSet(1 .. n) /\ Cardinality(1 .. n) = n
      BY FS_Interval
    <3>2. In(n) \in SUBSET (1 .. n)
      OBVIOUS
    <3>. QED
      BY <3>1, <3>2, FS_Subset, FS_CardinalityType
  <2>. QED
    BY <2>1
<1>2. Rank(s, set, 0) = 0
  <2>1. In(0) = {}
    OBVIOUS
  <2>. QED
    BY <2>1, FS_EmptySet DEF Rank
<1>3. ASSUME NEW n \in Nat \ {0}
      PROVE  Rank(s, set, n) = Rank(s, set, n - 1) + (IF s[n] \in set THEN 1 ELSE 0)
  <2>1. n - 1 \in Nat /\ 1 .. n = (1 .. n - 1) \cup {n} /\ n \notin 1 .. n - 1
    OBVIOUS
  <2>2. CASE s[n] \in set
    <3>1. In(n) = In(n - 1) \cup {n} /\ n \notin In(n - 1)
      BY <2>1, <2>2
    <3>. QED
      BY <1>1, <2>1, <2>2, <3>1, FS_AddElement DEF Rank
  <2>3. CASE s[n] \notin set
    <3>1. In(n) = In(n - 1)
      BY <2>1, <2>3
    <3>. QED
      BY <1>1, <2>1, <2>3, <3>1 DEF Rank
  <2>. QED
    BY <2>2, <2>3
<1>. QED
  BY <1>1, <1>2, <1>3 DEF Rank

(* Strings with the characters of the set in the same places. *)
SamePlaced(s, t, set, n) == \A j \in 1 .. n : s[j] \in set <=> t[j] \in set

LEMMA RankSame ==
  ASSUME NEW s, NEW t, NEW set, NEW n \in Nat, SamePlaced(s, t, set, n)
  PROVE  \A i \in 0 .. n : Rank(s, set, i) = Rank(t, set, i)
<1>1. ASSUME NEW i \in 0 .. n
      PROVE  Rank(s, set, i) = Rank(t, set, i)
  <2>1. {j \in 1 .. i : s[j] \in set} = {j \in 1 .. i : t[j] \in set}
    BY DEF SamePlaced
  <2>. QED
    BY <2>1 DEF Rank
<1>. QED
  BY <1>1

(* Each character that is in the set is found at its rank, and none else. *)
Ranked(s, set, n, d) ==
  /\ Len(d) = Rank(s, set, n)
  /\ \A i \in 1 .. n : s[i] \in set => Rank(s, set, i) \in 1 .. Len(d) /\ d[Rank(s, set, i)] = s[i]
  /\ \A k \in 1 .. Len(d) : \E i \in 1 .. n : s[i] \in set /\ Rank(s, set, i) = k

LEMMA InsideRanked ==
  ASSUME NEW set, NEW s \in Seq(Nat)
  PROVE  Inside(s, set) \in Seq(Nat \cap set) /\ Ranked(s, set, Len(s), Inside(s, set))
<1>. DEFINE D(n) == Inside(SubSeq(s, 1, n), set)
            Wrong == {n \in Nat : n <= Len(s) /\ ~Ranked(s, set, n, D(n))}
<1>1. Ranked(s, set, 0, D(0))
  <2>1. SubSeq(s, 1, 0) = <<>>
    OBVIOUS
  <2>2. D(0) = <<>>
    BY <2>1, InsideEmpty
  <2>3. Len(<<>>) = 0 /\ 1 .. 0 = {} /\ Rank(s, set, 0) = 0
    BY RankNext
  <2>. QED
    BY <2>2, <2>3 DEF Ranked
<1>2. ASSUME NEW n \in 1 .. Len(s), Ranked(s, set, n - 1, D(n - 1))
      PROVE  Ranked(s, set, n, D(n))
  <2>1. PICK p \in Seq(Nat) : p = SubSeq(s, 1, n - 1)
    BY FirstOnes
  <2>2. SubSeq(s, 1, n) = Append(p, s[n]) /\ s[n] \in Nat
    BY <2>1, FirstOnes
  <2>3. PICK d \in Seq(Nat) : d = D(n - 1)
    <3>1. Inside(p, set) \in Seq(Nat \cap set)
      BY InsideNext
    <3>. QED
      BY <2>1, <3>1
  <2>4. D(n) = IF s[n] \in set THEN Append(d, s[n]) ELSE d
    <3>1. Inside(Append(p, s[n]), set) =
            IF s[n] \in set THEN Append(Inside(p, set), s[n]) ELSE Inside(p, set)
      BY <2>2, InsideNext
    <3>2. D(n) = Inside(Append(p, s[n]), set) /\ d = Inside(p, set)
      BY <2>1, <2>2, <2>3
    <3>. QED
      BY <3>1, <3>2
  <2>5. /\ Len(d) = Rank(s, set, n - 1)
        /\ \A i \in 1 .. n - 1 : s[i] \in set =>
             Rank(s, set, i) \in 1 .. Len(d) /\ d[Rank(s, set, i)] = s[i]
        /\ \A k \in 1 .. Len(d) : \E i \in 1 .. n - 1 : s[i] \in set /\ Rank(s, set, i) = k
    BY <1>2, <2>3 DEF Ranked
  <2>6. /\ n \in Nat /\ n # 0
        /\ Rank(s, set, n) = Rank(s, set, n - 1) + (IF s[n] \in set THEN 1 ELSE 0)
    BY LenNatural, RankNext
  <2>7. \A i \in 1 .. n : i \in 1 .. n - 1 \/ i = n
    OBVIOUS
  <2>8. \A i \in 1 .. n - 1 : i \in 1 .. n
    OBVIOUS
  <2>9. Len(d) \in Nat
    BY LenNatural
  <2>. HIDE DEF D
  <2>10. CASE s[n] \notin set
    <3>1. D(n) = d /\ Rank(s, set, n) = Len(d)
      BY <2>4, <2>5, <2>6, <2>9, <2>10
    <3>2. \A i \in 1 .. n :
            s[i] \in set => Rank(s, set, i) \in 1 .. Len(d) /\ d[Rank(s, set, i)] = s[i]
      BY <2>5, <2>7, <2>10
    <3>3. \A k \in 1 .. Len(d) : \E i \in 1 .. n : s[i] \in set /\ Rank(s, set, i) = k
      BY <2>5, <2>8
    <3>. QED
      BY <3>1, <3>2, <3>3 DEF Ranked
  <2>11. CASE s[n] \in set
    <3>1. PICK e \in Seq(Nat) : e = Append(d, s[n])
      BY <2>2, AppendElements
    <3>2. /\ Len(e) = Len(d) + 1 /\ e[Len(d) + 1] = s[n]
          /\ \A k \in 1 .. Len(d) : e[k] = d[k]
      BY <2>2, <3>1, AppendElements
    <3>3. D(n) = e /\ Rank(s, set, n) = Len(e)
      BY <2>4, <2>5, <2>6, <2>11, <3>1, <3>2
    <3>4. Len(e) \in 1 .. Len(e) /\ (\A k \in 1 .. Len(d) : k \in 1 .. Len(e))
          /\ \A k \in 1 .. Len(e) : k \in 1 .. Len(d) \/ k = Len(e)
      BY <2>9, <3>2
    <3>5. \A i \in 1 .. n :
            s[i] \in set => Rank(s, set, i) \in 1 .. Len(e) /\ e[Rank(s, set, i)] = s[i]
      <4>1. ASSUME NEW i \in 1 .. n, s[i] \in set
            PROVE  Rank(s, set, i) \in 1 .. Len(e) /\ e[Rank(s, set, i)] = s[i]
        <5>1. CASE i = n
          BY <3>2, <3>3, <3>4, <5>1
        <5>2. CASE i \in 1 .. n - 1
          BY <2>5, <3>2, <3>4, <4>1, <5>2
        <5>. QED
          BY <2>7, <5>1, <5>2
      <4>. QED
        BY <4>1
    <3>6. \A k \in 1 .. Len(e) : \E i \in 1 .. n : s[i] \in set /\ Rank(s, set, i) = k
      <4>1. ASSUME NEW k \in 1 .. Len(e)
            PROVE  \E i \in 1 .. n : s[i] \in set /\ Rank(s, set, i) = k
        <5>1. CASE k \in 1 .. Len(d)
          BY <2>5, <2>8, <5>1
        <5>2. CASE k = Len(e)
          <6>1. n \in 1 .. n
            BY <2>6
          <6>. QED
            BY <2>11, <3>3, <5>2, <6>1
        <5>. QED
          BY <3>4, <5>1, <5>2
      <4>. QED
        BY <4>1
    <3>. QED
      BY <3>3, <3>5, <3>6 DEF Ranked
  <2>. QED
    BY <2>10, <2>11
<1>3. Wrong = {}
  <2>. SUFFICES ASSUME Wrong # {}
                PROVE  FALSE
    OBVIOUS
  <2>1. PICK n \in Wrong : \A m \in Wrong : n <= m
    BY PF!LeastOfSet
  <2>. HIDE DEF D
  <2>2. /\ n \in 1 .. Len(s) /\ n - 1 \in Nat /\ n - 1 <= Len(s) /\ ~(n <= n - 1)
    BY <1>1, <2>1
  <2>3. Ranked(s, set, n - 1, D(n - 1))
    BY <2>1, <2>2
  <2>. QED
    BY <1>2, <2>1, <2>2, <2>3
<1>4. SubSeq(s, 1, Len(s)) = s /\ Len(s) \in Nat /\ Len(s) <= Len(s)
  OBVIOUS
<1>5. Ranked(s, set, Len(s), D(Len(s)))
  <2>. HIDE DEF D
  <2>. QED
    BY <1>3, <1>4
<1>6. Inside(s, set) \in Seq(Nat \cap set)
  BY InsideNext
<1>. QED
  BY <1>4, <1>5, <1>6

(* A string is its characters in the set, their places and all the others. *)
LEMMA InsideDetermines ==
  ASSUME NEW set, NEW s \in Seq(Nat), NEW t \in Seq(Nat), Len(s) = Len(t),
         \A i \in 1 .. Len(t) : s[i] \in set <=> t[i] \in set,
         \A i \in 1 .. Len(t) : s[i] \notin set => s[i] = t[i],
         Inside(s, set) = Inside(t, set)
  PROVE  s = t
<1>1. PICK d : d = Inside(s, set) /\ d = Inside(t, set)
  OBVIOUS
<1>2. Ranked(s, set, Len(s), d)
  BY <1>1, InsideRanked
<1>3. Ranked(t, set, Len(t), d)
  BY <1>1, InsideRanked
<1>4. \A i \in 0 .. Len(t) : Rank(s, set, i) = Rank(t, set, i)
  <2>1. SamePlaced(s, t, set, Len(t)) /\ Len(t) \in Nat
    BY LenNatural DEF SamePlaced
  <2>. QED
    BY <2>1, RankSame
<1>5. \A i \in 1 .. Len(t) : i \in 0 .. Len(t)
  OBVIOUS
<1>6. ASSUME NEW i \in 1 .. Len(t)
      PROVE  s[i] = t[i]
  <2>1. CASE s[i] \notin set
    BY <2>1
  <2>2. CASE s[i] \in set
    <3>1. d[Rank(s, set, i)] = s[i] /\ d[Rank(t, set, i)] = t[i]
      BY <1>2, <1>3, <2>2 DEF Ranked
    <3>. QED
      BY <1>4, <1>5, <3>1
  <2>. QED
    BY <2>1, <2>2
<1>. QED
  BY <1>6, SameElements

(* A string of characters of the set has them all. *)
LEMMA InsideAll ==
  \A set : \A s \in Seq(Nat) : (\A i \in 1 .. Len(s) : s[i] \in set) => Inside(s, set) = s
<1>. SUFFICES ASSUME NEW set, NEW s \in Seq(Nat), \A i \in 1 .. Len(s) : s[i] \in set
              PROVE  Inside(s, set) = s
  OBVIOUS
<1>1. PICK d \in Seq(Nat \cap set) : d = Inside(s, set) /\ Ranked(s, set, Len(s), d)
  BY InsideRanked
<1>2. \A i \in 0 .. Len(s) : Rank(s, set, i) = i
  <2>1. ASSUME NEW i \in 0 .. Len(s)
        PROVE  Rank(s, set, i) = i
    <3>1. {j \in 1 .. i : s[j] \in set} = 1 .. i
      <4>1. \A j \in 1 .. i : j \in 1 .. Len(s)
        BY LenNatural
      <4>. QED
        BY <4>1
    <3>2. i \in Nat
      OBVIOUS
    <3>3. Cardinality(1 .. i) = i
      BY <3>2, FS_Interval
    <3>. QED
      BY <3>1, <3>3 DEF Rank
  <2>. QED
    BY <2>1
<1>3. Len(s) \in 0 .. Len(s) /\ \A i \in 1 .. Len(s) : i \in 0 .. Len(s)
  BY LenNatural
<1>4. Len(d) = Len(s)
  BY <1>1, <1>2, <1>3 DEF Ranked
<1>5. \A i \in 1 .. Len(s) : d[i] = s[i]
  BY <1>1, <1>2, <1>3 DEF Ranked
<1>. QED
  BY <1>1, <1>4, <1>5, SameElements

-----------------------------------------------------------------------------
(* Putting characters back in the places of those of a set. *)

(* y is s but for its characters in the set, which are those of t. *)
PutBack(s, set, t, y) ==
  /\ y \in Seq(Nat)
  /\ Len(y) = Len(s)
  /\ \A i \in 1 .. Len(s) : IF s[i] \in set THEN y[i] \in set ELSE y[i] = s[i]
  /\ Inside(y, set) = t

(* Spread leaves the rest where it was. *)
LEMMA SpreadPlaces ==
  ASSUME NEW set \in SUBSET Nat, NEW s \in Seq(Nat), NEW t \in Seq(set),
         Len(t) = Len(Inside(s, set))
  PROVE  PutBack(s, set, t, Spread(s, set, t))
<1>1. PICK d \in Seq(Nat \cap set) : d = Inside(s, set) /\ Ranked(s, set, Len(s), d)
  BY InsideRanked
<1>2. Len(t) = Len(d) /\ Len(t) \in Nat
  BY <1>1, LenNatural
<1>3. PICK y : y = Spread(s, set, t)
  OBVIOUS
<1>4. /\ DOMAIN s = 1 .. Len(s) /\ Len(s) \in Nat
      /\ y = [i \in 1 .. Len(s) |-> IF s[i] \in set /\ Rank(s, set, i) <= Len(t)
                                     THEN t[Rank(s, set, i)] ELSE s[i]]
  <2>1. DOMAIN s = 1 .. Len(s) /\ Len(s) \in Nat
    BY LenNatural
  <2>. QED
    BY <1>3, <2>1 DEF Spread, Rank
<1>5. ASSUME NEW i \in 1 .. Len(s)
      PROVE  /\ y[i] \in Nat
             /\ s[i] \in set =>
                  Rank(s, set, i) \in 1 .. Len(t) /\ y[i] = t[Rank(s, set, i)] /\ y[i] \in set
             /\ s[i] \notin set => y[i] = s[i]
  <2>1. s[i] \in Nat
    BY Elements
  <2>2. CASE s[i] \in set
    <3>1. Rank(s, set, i) \in 1 .. Len(t)
      BY <1>1, <1>2, <2>2 DEF Ranked
    <3>2. y[i] = t[Rank(s, set, i)]
      BY <1>2, <1>4, <2>2, <3>1
    <3>3. t[Rank(s, set, i)] \in set
      BY <3>1, Elements
    <3>. QED
      BY <2>2, <3>1, <3>2, <3>3
  <2>3. CASE s[i] \notin set
    BY <1>4, <2>1, <2>3
  <2>. QED
    BY <2>2, <2>3
<1>6. y \in Seq(Nat) /\ Len(y) = Len(s)
  <2>1. y \in [1 .. Len(s) -> Nat]
    <3>1. DOMAIN y = 1 .. Len(s) /\ y = [i \in 1 .. Len(s) |-> y[i]]
      BY <1>4
    <3>. QED
      BY <1>5, <3>1
  <2>. QED
    BY <1>4, <2>1, IsSequence, SMTT(30)
<1>7. Inside(y, set) = t
  <2>1. PICK e \in Seq(Nat \cap set) : e = Inside(y, set) /\ Ranked(y, set, Len(y), e)
    BY <1>6, InsideRanked
  <2>2. \A i \in 0 .. Len(s) : Rank(s, set, i) = Rank(y, set, i)
    <3>1. SamePlaced(s, y, set, Len(s))
      BY <1>5 DEF SamePlaced
    <3>. QED
      BY <1>4, <3>1, RankSame
  <2>3. Len(e) = Len(t)
    <3>1. Len(s) \in 0 .. Len(s)
      BY <1>4
    <3>2. Len(e) = Rank(y, set, Len(s)) /\ Len(d) = Rank(s, set, Len(s))
      BY <1>1, <1>6, <2>1 DEF Ranked
    <3>. QED
      BY <1>2, <2>2, <3>1, <3>2
  <2>4. ASSUME NEW k \in 1 .. Len(t)
        PROVE  e[k] = t[k]
    <3>1. PICK i \in 1 .. Len(s) : s[i] \in set /\ Rank(s, set, i) = k
      BY <1>1, <1>2 DEF Ranked
    <3>2. y[i] = t[k] /\ y[i] \in set
      BY <1>5, <3>1
    <3>3. i \in 0 .. Len(s) /\ i \in 1 .. Len(y)
      BY <1>6
    <3>4. e[Rank(y, set, i)] = y[i]
      BY <2>1, <3>2, <3>3 DEF Ranked
    <3>. QED
      BY <2>2, <3>1, <3>2, <3>3, <3>4
  <2>. QED
    BY <2>1, <2>3, <2>4, SameElements
<1>. QED
  BY <1>3, <1>5, <1>6, <1>7 DEF PutBack

(* What is spread, and over what, can be read from the result. *)
LEMMA PutBackInjective ==
  ASSUME NEW set, NEW s \in Seq(Nat), NEW x \in Seq(Nat), NEW t, NEW z, NEW y,
         PutBack(s, set, t, y), PutBack(x, set, z, y)
  PROVE  t = z /\ Len(s) = Len(x) /\ (Inside(s, set) = Inside(x, set) => s = x)
<1>4. /\ \A i \in 1 .. Len(x) : s[i] \in set <=> x[i] \in set
      /\ \A i \in 1 .. Len(x) : s[i] \notin set => s[i] = x[i]
  BY DEF PutBack
<1>5. t = z /\ Len(s) = Len(x)
  BY DEF PutBack
<1>. QED
  BY <1>4, <1>5, InsideDetermines

-----------------------------------------------------------------------------
(* The encrypting strategies. *)

LEMMA InsideDigits ==
  ASSUME NEW r \in Nat, NEW s \in Seq(Nat)
  PROVE  Inside(s, 0 .. r - 1) \in Seq(0 .. r - 1)
<1>1. Nat \cap (0 .. r - 1) = 0 .. r - 1
  OBVIOUS
<1>. QED
  BY <1>1, InsideRanked

LEMMA TenDigits ==
  /\ 10 \in Nat \ {0} /\ 0 .. 10 - 1 = Digits /\ Digits \in SUBSET Nat
  /\ 8 \in Int /\ Max({4, 8}) % 2 = 0
  /\ \A s \in Seq(Nat) : DigitsOf(s) \in Seq(Digits) /\ Seq(Digits) \subseteq Seq(Nat)
<1>1. 10 \in Nat /\ 10 \in Nat \ {0} /\ 0 .. 10 - 1 = Digits /\ Digits \in SUBSET Nat /\ 8 \in Int
  BY DEF Digits
<1>2. Max({4, 8}) = 8 /\ 8 % 2 = 0
  BY MaxOfTwo
<1>3. Seq(Digits) \subseteq Seq(Nat)
  BY <1>1, SeqMonotonic
<1>4. ASSUME NEW s \in Seq(Nat)
      PROVE  DigitsOf(s) \in Seq(Digits)
  BY <1>1, InsideDigits DEF DigitsOf
<1>. QED
  BY <1>1, <1>2, <1>3, <1>4

LEMMA EncryptTen ==
  ASSUME HmacNatural, NEW key \in Keys, NEW tweak \in Nat, NEW d \in Seq(Digits)
  PROVE  \E e \in Seq(Digits) : e = Encrypt(key, tweak, 10, 8, d) /\ Len(e) = Len(d)
<1>1. PICK r \in Nat \ {0} : r = 10 /\ 0 .. r - 1 = Digits
  BY TenDigits
<1>2. d \in Seq(0 .. r - 1) /\ 8 \in Int
  BY <1>1
<1>3. /\ Encrypt(key, tweak, r, 8, d) \in Seq(0 .. r - 1)
      /\ Len(Encrypt(key, tweak, r, 8, d)) = Len(d)
  BY <1>2, EncryptDigits
<1>. QED
  BY <1>1, <1>3

LEMMA EncryptTenInjective ==
  ASSUME HmacNatural, NEW key \in Keys, NEW tweak \in Nat, NEW d \in Seq(Digits),
         NEW c \in Seq(Digits),
         Len(d) = Len(c), Len(d) # 1, Encrypt(key, tweak, 10, 8, d) = Encrypt(key, tweak, 10, 8, c)
  PROVE  d = c
<1>1. PICK r \in Nat \ {0} : r = 10 /\ 0 .. r - 1 = Digits
  BY TenDigits
<1>2. d \in Seq(0 .. r - 1) /\ c \in Seq(0 .. r - 1) /\ 8 \in Int /\ Max({4, 8}) % 2 = 0
  BY <1>1, TenDigits
<1>. QED
  BY <1>1, <1>2, EncryptInjective

(* A string with the characters of the alphabet encrypted in their places. *)
InPlaceEncrypted(key, tweak, r, rounds, s) ==
  Spread(s, 0 .. r - 1, Encrypt(key, tweak, r, rounds, Inside(s, 0 .. r - 1)))

LEMMA InPlaceEncryptedPlaces ==
  ASSUME HmacNatural,
         NEW key \in Keys, NEW tweak \in Nat, NEW r \in Nat \ {0}, NEW rounds \in Int,
         NEW s \in Seq(Nat)
  PROVE  PutBack(s, 0 .. r - 1, Encrypt(key, tweak, r, rounds, Inside(s, 0 .. r - 1)),
                 InPlaceEncrypted(key, tweak, r, rounds, s))
<1>1. PICK d \in Seq(0 .. r - 1) : d = Inside(s, 0 .. r - 1)
  BY InsideDigits
<1>2. PICK e \in Seq(0 .. r - 1) : e = Encrypt(key, tweak, r, rounds, d) /\ Len(e) = Len(d)
  <2>1. /\ Encrypt(key, tweak, r, rounds, d) \in Seq(0 .. r - 1)
        /\ Len(Encrypt(key, tweak, r, rounds, d)) = Len(d)
    BY EncryptDigits
  <2>. QED
    BY <2>1
<1>3. 0 .. r - 1 \in SUBSET Nat
  OBVIOUS
<1>4. PutBack(s, 0 .. r - 1, e, Spread(s, 0 .. r - 1, e))
  BY <1>1, <1>2, <1>3, SpreadPlaces
<1>. QED
  BY <1>1, <1>2, <1>4 DEF InPlaceEncrypted

(* How many characters there are to encrypt for the result to be reversible. *)
SplitsEvenly(r, rounds, s) ==
  LET n == Len(Inside(s, 0 .. r - 1)) IN n # 1 /\ (n % 2 = 0 \/ Max({4, rounds}) % 2 = 0)

LEMMA InPlaceEncryptedInjective ==
  ASSUME HmacNatural,
         NEW key \in Keys, NEW tweak \in Nat, NEW r \in Nat \ {0}, NEW rounds \in Int,
         NEW s \in Seq(Nat), NEW t \in Seq(Nat), SplitsEvenly(r, rounds, s),
         InPlaceEncrypted(key, tweak, r, rounds, s) = InPlaceEncrypted(key, tweak, r, rounds, t)
  PROVE  s = t
<1>1. PICK y : /\ y = InPlaceEncrypted(key, tweak, r, rounds, s)
               /\ y = InPlaceEncrypted(key, tweak, r, rounds, t)
  OBVIOUS
<1>2. PICK set : set = 0 .. r - 1
  OBVIOUS
<1>3. PICK d \in Seq(0 .. r - 1) : d = Inside(s, set)
  BY <1>2, InsideDigits
<1>4. PICK c \in Seq(0 .. r - 1) : c = Inside(t, set)
  BY <1>2, InsideDigits
<1>5. PICK e : e = Encrypt(key, tweak, r, rounds, d)
  OBVIOUS
<1>6. PICK f : f = Encrypt(key, tweak, r, rounds, c)
  OBVIOUS
<1>7. Len(e) = Len(d) /\ Len(f) = Len(c)
  BY <1>5, <1>6, EncryptDigits
<1>8. PutBack(s, set, e, y)
  BY <1>1, <1>2, <1>3, <1>5, InPlaceEncryptedPlaces
<1>9. PutBack(t, set, f, y)
  BY <1>1, <1>2, <1>4, <1>6, InPlaceEncryptedPlaces
<1>10. e = f /\ (d = c => s = t)
  BY <1>3, <1>4, <1>8, <1>9, PutBackInjective
<1>11. Len(d) # 1 /\ (Len(d) % 2 = 0 \/ Max({4, rounds}) % 2 = 0)
  BY <1>2, <1>3 DEF SplitsEvenly
<1>12. d = c
  BY <1>5, <1>6, <1>7, <1>10, <1>11, EncryptInjective
<1>. QED
  BY <1>10, <1>12

(* FPEStrategy. *)
LEMMA FpeInPlace ==
  ASSUME HmacNatural, NEW p, p.radix \in Nat \ {0}, p.rounds \in Int, NEW s \in Seq(Nat)
  PROVE  /\ p.preserve => Fpe(p, s) = InPlaceEncrypted("fpe", 0, p.radix, p.rounds, s)
         /\ ~p.preserve /\ (\A i \in 1 .. Len(s) : s[i] < p.radix)
              => Fpe(p, s) = Encrypt("fpe", 0, p.radix, p.rounds, s) /\ s \in Seq(0 .. p.radix - 1)
                 /\ Inside(s, 0 .. p.radix - 1) = s
<1>1. CASE p.preserve
  BY <1>1 DEF Fpe, InPlaceEncrypted
<1>2. CASE ~p.preserve /\ \A i \in 1 .. Len(s) : s[i] < p.radix
  <2>1. PICK r \in Nat \ {0} : r = p.radix
    OBVIOUS
  <2>2. \A i \in 1 .. Len(s) : s[i] \in 0 .. r - 1
    <3>1. \A i \in 1 .. Len(s) : s[i] \in Nat
      BY Elements
    <3>. QED
      BY <1>2, <2>1, <3>1
  <2>3. Inside(s, 0 .. r - 1) = s
    BY <2>2, InsideAll
  <2>. QED
    BY <1>2, <2>1, <2>3, InsideDigits DEF Fpe
<1>. QED
  BY <1>1, <1>2

(* The digits before position last with those after the first `prefix` ones
   encrypted. *)
Begun(key, tweak, prefix, last, d) ==
  SubSeq(d, 1, prefix) \o Encrypt(key, tweak, 10, 8, SubSeq(d, prefix + 1, last))

LEMMA SubSeqDigits ==
  ASSUME NEW S, NEW d \in Seq(S), NEW m \in Nat, NEW n \in Nat, m <= n, n <= Len(d)
  PROVE  /\ SubSeq(d, m + 1, n) \in Seq(S) /\ Len(SubSeq(d, m + 1, n)) = n - m
         /\ \A i \in 1 .. n - m : SubSeq(d, m + 1, n)[i] = d[m + i]
<1>1. SubSeq(d, m + 1, n) = [i \in 1 .. n - m |-> d[m + i]] /\ n - m \in Nat
  OBVIOUS
<1>2. \A i \in 1 .. n - m : m + i \in 1 .. Len(d)
  BY LenNatural
<1>3. \A i \in 1 .. n - m : d[m + i] \in S
  BY <1>2, Elements
<1>4. PICK e : e = SubSeq(d, m + 1, n)
  OBVIOUS
<1>5. e \in [1 .. n - m -> S]
  BY <1>1, <1>3, <1>4
<1>. QED
  BY <1>1, <1>4, <1>5, IsSequence

(* e is the first n elements of d. *)
Starts(e, d, n) == Len(e) = n /\ \A i \in 1 .. n : e[i] = d[i]

LEMMA FirstPart ==
  ASSUME NEW S, NEW d \in Seq(S), NEW n \in Nat, n <= Len(d)
  PROVE  \E e \in Seq(S) : e = SubSeq(d, 1, n) /\ Starts(e, d, n)
<1>1. SubSeq(d, 1, n) = [i \in 1 .. n |-> d[i]]
  OBVIOUS
<1>2. \A i \in 1 .. n : i \in 1 .. Len(d)
  BY LenNatural
<1>3. \A i \in 1 .. n : d[i] \in S
  BY <1>2, Elements
<1>4. PICK e : e = SubSeq(d, 1, n)
  OBVIOUS
<1>5. e \in [1 .. n -> S] /\ \A i \in 1 .. n : e[i] = d[i]
  BY <1>1, <1>3, <1>4
<1>6. e \in Seq(S) /\ Len(e) = n
  BY <1>5, IsSequence
<1>. QED
  BY <1>4, <1>5, <1>6 DEF Starts

(* The parts of it: what is kept, what is encrypted and what that becomes. *)
BegunFrom(key, tweak, prefix, last, c, x, y, z) ==
  /\ x = SubSeq(c, 1, prefix) /\ Len(x) = prefix /\ \A i \in 1 .. prefix : x[i] = c[i]
  /\ y = SubSeq(c, prefix + 1, last) /\ Len(y) = last - prefix
  /\ \A i \in 1 .. last - prefix : y[i] = c[prefix + i]
  /\ z = Encrypt(key, tweak, 10, 8, y) /\ Len(z) = last - prefix
  /\ Begun(key, tweak, prefix, last, c) = x \o z

LEMMA BegunParts ==
  ASSUME HmacNatural, NEW key \in Keys, NEW tweak \in Nat, NEW c \in Seq(Digits),
         NEW prefix \in Nat, NEW last \in Nat, prefix <= last, last <= Len(c)
  PROVE  \E x, y, z \in Seq(Digits) : BegunFrom(key, tweak, prefix, last, c, x, y, z)
<1>1. PICK x \in Seq(Digits) :
        x = SubSeq(c, 1, prefix) /\ Len(x) = prefix /\ \A i \in 1 .. prefix : x[i] = c[i]
  <2>1. 0 \in Nat /\ 0 + 1 = 1 /\ 0 <= prefix /\ prefix <= Len(c) /\ prefix - 0 = prefix
        /\ \A i \in 1 .. prefix : 0 + i = i
    BY LenNatural
  <2>2. /\ SubSeq(c, 0 + 1, prefix) \in Seq(Digits) /\ Len(SubSeq(c, 0 + 1, prefix)) = prefix - 0
        /\ \A i \in 1 .. prefix - 0 : SubSeq(c, 0 + 1, prefix)[i] = c[0 + i]
    BY <2>1, SubSeqDigits
  <2>. QED
    BY <2>1, <2>2
<1>2. PICK y \in Seq(Digits) :
        /\ y = SubSeq(c, prefix + 1, last) /\ Len(y) = last - prefix
        /\ \A i \in 1 .. last - prefix : y[i] = c[prefix + i]
  <2>1. /\ SubSeq(c, prefix + 1, last) \in Seq(Digits)
        /\ Len(SubSeq(c, prefix + 1, last)) = last - prefix
        /\ \A i \in 1 .. last - prefix : SubSeq(c, prefix + 1, last)[i] = c[prefix + i]
    BY SubSeqDigits
  <2>. QED
    BY <2>1
<1>3. PICK z \in Seq(Digits) : z = Encrypt(key, tweak, 10, 8, y) /\ Len(z) = Len(y)
  BY EncryptTen
<1>4. Begun(key, tweak, prefix, last, c) = x \o z
  BY <1>1, <1>2, <1>3 DEF Begun
<1>. QED
  BY <1>1, <1>2, <1>3, <1>4 DEF BegunFrom

LEMMA BegunDigits ==
  ASSUME HmacNatural, NEW key \in Keys, NEW tweak \in Nat, NEW d \in Seq(Digits),
         NEW prefix \in Nat, NEW last \in Nat, prefix <= last, last <= Len(d)
  PROVE  /\ Begun(key, tweak, prefix, last, d) \in Seq(Digits)
         /\ Len(Begun(key, tweak, prefix, last, d)) = last
         /\ \A i \in 1 .. prefix : Begun(key, tweak, prefix, last, d)[i] = d[i]
<1>1. PICK x, y, z \in Seq(Digits) :
        BegunFrom(key, tweak, prefix, last, d, x, y, z)
  BY BegunParts
<1>2. /\ x \o z \in Seq(Digits) /\ Len(x \o z) = last
      /\ \A i \in 1 .. prefix : (x \o z)[i] = d[i]
  <2>1. x \o z \in Seq(Digits) /\ Len(x \o z) = Len(x) + Len(z)
    BY ConcatType
  <2>2. \A i \in 1 .. Len(x) : (x \o z)[i] = x[i]
    BY ConcatElements
  <2>3. Len(x) + Len(z) = last
    BY <1>1 DEF BegunFrom
  <2>4. \A i \in 1 .. prefix : (x \o z)[i] = d[i]
    BY <1>1, <2>2 DEF BegunFrom
  <2>. QED
    BY <2>1, <2>3, <2>4
<1>. QED
  BY <1>1, <1>2 DEF BegunFrom

LEMMA BegunInjective ==
  ASSUME HmacNatural, NEW key \in Keys, NEW tweak \in Nat, NEW d \in Seq(Digits),
         NEW prefix \in Nat, NEW last \in Nat, prefix <= last, last <= Len(d),
         NEW c \in Seq(Digits), last <= Len(c), last - prefix # 1,
         Begun(key, tweak, prefix, last, c) = Begun(key, tweak, prefix, last, d)
  PROVE  \A i \in 1 .. last : c[i] = d[i]
<1>0. PICK x, y, z \in Seq(Digits) :
        BegunFrom(key, tweak, prefix, last, d, x, y, z)
  BY BegunParts
<1>1. PICK u, v, w \in Seq(Digits) :
        BegunFrom(key, tweak, prefix, last, c, u, v, w)
  BY BegunParts
<1>2. x = u /\ z = w
  <2>1. Len(x) = Len(u) /\ x \o z = u \o w
    BY <1>0, <1>1 DEF BegunFrom
  <2>. QED
    BY <2>1, ConcatInjective
<1>3. y = v
  <2>1. Len(y) # 1 /\ Len(y) = Len(v)
    BY <1>0, <1>1 DEF BegunFrom
  <2>2. Encrypt(key, tweak, 10, 8, y) = Encrypt(key, tweak, 10, 8, v)
    BY <1>0, <1>1, <1>2 DEF BegunFrom
  <2>. QED
    BY <2>1, <2>2, EncryptTenInjective
<1>4. ASSUME NEW i \in 1 .. last
      PROVE  c[i] = d[i]
  <2>1. CASE i \in 1 .. prefix
    BY <1>0, <1>1, <1>2, <2>1 DEF BegunFrom
  <2>2. CASE i \notin 1 .. prefix
    <3>1. i - prefix \in 1 .. last - prefix /\ prefix + (i - prefix) = i
      BY <2>2
    <3>. QED
      BY <1>0, <1>1, <1>3, <3>1 DEF BegunFrom
  <2>. QED
    BY <2>1, <2>2
<1>. QED
  BY <1>4

-----------------------------------------------------------------------------
(* Check digits. *)

LEMMA TotalNext ==
  ASSUME NEW s \in Seq(Nat), NEW c \in Nat
  PROVE  Total(s) \in Nat /\ Total(Append(s, c)) = Total(s) + c
<1>1. PICK T : T = [n \in Nat |-> Nat]
  OBVIOUS
<1>2. TF!FoldLeft(Added, 0, s) \in T[Len(s)]
  <2>1. 0 \in T[0]
    BY <1>1
  <2>2. ASSUME NEW n \in 1 .. Len(s), NEW v \in T[n - 1]
        PROVE  Added(v, s[n]) \in T[n]
    <3>1. v \in Nat /\ n \in Nat /\ T[n] = Nat
      BY <1>1
    <3>2. s[n] \in Nat
      BY Elements
    <3>. QED
      BY <3>1, <3>2 DEF Added
  <2>. QED
    BY <2>1, <2>2, TF!FoldInvariant
<1>3. Total(s) \in Nat
  BY <1>1, <1>2, SameFolds, LenNatural DEF Total
<1>4. TF!FoldLeft(Added, 0, Append(s, c)) = Added(TF!FoldLeft(Added, 0, s), c)
  BY TF!FoldAppend
<1>. QED
  BY <1>3, <1>4, SameFolds DEF Total, Added

(* So it is with a card, whose prefix is the tweak. *)
LEMMA BegunCard ==
  ASSUME HmacNatural, NEW d \in Seq(Digits), NEW prefix \in Nat, NEW last \in Nat,
         prefix <= last, last <= Len(d)
  PROVE  /\ Begun("card", prefix, prefix, last, d) \in Seq(Digits)
         /\ Len(Begun("card", prefix, prefix, last, d)) = last
         /\ \A i \in 1 .. prefix : Begun("card", prefix, prefix, last, d)[i] = d[i]
<1>1. "card" \in Keys
  BY DEF Keys
<1>. QED
  BY <1>1, BegunDigits


(* The weights of the digits of s with one more behind it. *)
WeightsBefore(s) ==
  [i \in 1 .. Len(s) |->
     IF (Len(s) + 1 - i) % 2 = 0 THEN s[i]
     ELSE IF s[i] > 4 THEN 2 * s[i] - 9 ELSE 2 * s[i]]

(* The last digit counts as it is. *)
LEMMA LuhnAppend ==
  ASSUME NEW s \in Seq(Digits)
  PROVE  /\ Total(WeightsBefore(s)) \in Nat
         /\ \A c \in Digits : LuhnSum(Append(s, c)) = Total(WeightsBefore(s)) + c
<1>1. PICK n \in Nat : n = Len(s) /\ DOMAIN s = 1 .. n
  BY LenNatural
<1>2. \A i \in 1 .. n : s[i] \in Digits
  BY <1>1, Elements
<1>3. WeightsBefore(s) \in [1 .. n -> Nat]
  <2>1. ASSUME NEW i \in 1 .. n
        PROVE  (IF (n + 1 - i) % 2 = 0 THEN s[i]
                ELSE IF s[i] > 4 THEN 2 * s[i] - 9 ELSE 2 * s[i]) \in Nat
    <3>1. PICK x \in 0 .. 9 : x = s[i]
      BY <1>2 DEF Digits
    <3>2. x \in Nat /\ 2 * x \in Nat /\ (x > 4 => 2 * x - 9 \in Nat)
      OBVIOUS
    <3>. QED
      BY <3>1, <3>2
  <2>. QED
    BY <1>1, <2>1 DEF WeightsBefore
<1>4. PICK w \in Seq(Nat) : w = WeightsBefore(s) /\ Len(w) = n /\ DOMAIN w = 1 .. n
  BY <1>3, IsSequence
<1>5. ASSUME NEW c \in Digits
      PROVE  LuhnSum(Append(s, c)) = Total(WeightsBefore(s)) + c
  <2>1. PICK t \in Seq(Digits) : /\ t = Append(s, c) /\ Len(t) = n + 1 /\ t[n + 1] = c
                                 /\ \A i \in 1 .. n : t[i] = s[i]
    <3>1. PICK t : t = Append(s, c)
      OBVIOUS
    <3>2. /\ t \in Seq(Digits) /\ Len(t) = Len(s) + 1 /\ t[Len(s) + 1] = c
          /\ \A i \in 1 .. Len(s) : t[i] = s[i]
      BY <3>1, AppendElements
    <3>. QED
      BY <1>1, <3>1, <3>2
  <2>2. DOMAIN t = 1 .. n + 1
    BY <2>1
  <2>3. c \in Nat
    BY DEF Digits
  <2>4. PICK v \in Seq(Nat) : /\ v = Append(w, c) /\ Len(v) = n + 1 /\ v[n + 1] = c
                              /\ \A i \in 1 .. n : v[i] = w[i]
    <3>1. PICK v : v = Append(w, c)
      OBVIOUS
    <3>2. /\ v \in Seq(Nat) /\ Len(v) = Len(w) + 1 /\ v[Len(w) + 1] = c
          /\ \A i \in 1 .. Len(w) : v[i] = w[i]
      BY <2>3, <3>1, AppendElements
    <3>. QED
      BY <1>4, <3>1, <3>2
  <2>5. PICK u : u = LuhnWeights(t)
    OBVIOUS
  <2>6. u = [i \in 1 .. n + 1 |->
               IF (n + 1 - i) % 2 = 0 THEN t[i]
               ELSE IF t[i] > 4 THEN 2 * t[i] - 9 ELSE 2 * t[i]]
    BY <2>1, <2>2, <2>5 DEF LuhnWeights
  <2>7. ASSUME NEW i \in 1 .. n + 1
        PROVE  u[i] = v[i]
    <3>1. CASE i = n + 1
      <4>1. (n + 1 - i) % 2 = 0
        BY <3>1
      <4>2. u[i] = t[i]
        BY <2>6, <4>1
      <4>. QED
        BY <2>1, <2>4, <3>1, <4>2
    <3>2. CASE i # n + 1
      <4>1. i \in 1 .. n
        BY <3>2
      <4>2. w[i] = IF (n + 1 - i) % 2 = 0 THEN s[i]
                   ELSE IF s[i] > 4 THEN 2 * s[i] - 9 ELSE 2 * s[i]
        BY <1>1, <1>4, <4>1 DEF WeightsBefore
      <4>3. t[i] = s[i] /\ v[i] = w[i]
        BY <2>1, <2>4, <4>1
      <4>. QED
        BY <2>6, <4>2, <4>3
    <3>. QED
      BY <3>1, <3>2
  <2>8. u = v
    <3>1. DOMAIN v = 1 .. n + 1 /\ v = [i \in 1 .. n + 1 |-> v[i]]
      BY <2>4, SeqFunction
    <3>2. DOMAIN u = 1 .. n + 1 /\ u = [i \in 1 .. n + 1 |-> u[i]]
      BY <2>6
    <3>. QED
      BY <2>7, <3>1, <3>2
  <2>9. Total(v) = Total(w) + c
    BY <2>3, <2>4, TotalNext
  <2>. QED
    BY <1>4, <2>1, <2>5, <2>8, <2>9 DEF LuhnSum
<1>6. Total(w) \in Nat
  <2>1. 0 \in Nat
    OBVIOUS
  <2>. QED
    BY <2>1, TotalNext
<1>. QED
  BY <1>4, <1>5, <1>6

(* There is one check digit. *)
LEMMA LuhnDigitRight ==
  ASSUME NEW s \in Seq(Digits)
  PROVE  /\ LuhnDigit(s) \in Digits
         /\ \A c \in Digits : LuhnSum(Append(s, c)) % 10 = 0 <=> c = LuhnDigit(s)
<1>1. PICK n \in Nat : n = Total(WeightsBefore(s))
  BY LuhnAppend
<1>2. 0 \in Digits
  BY DEF Digits
<1>3. LuhnSum(Append(s, 0)) = n + 0 /\ \A c \in Digits : LuhnSum(Append(s, c)) = n + c
  BY <1>1, <1>2, LuhnAppend
<1>4. LuhnDigit(s) = (10 - (n % 10)) % 10
  BY <1>3 DEF LuhnDigit
<1>5. /\ (10 - (n % 10)) % 10 \in Digits
      /\ \A c \in Digits : (n + c) % 10 = 0 <=> c = (10 - (n % 10)) % 10
  BY DEF Digits
<1>. QED
  BY <1>3, <1>4, <1>5

-----------------------------------------------------------------------------
(* FPECreditCardStrategy. *)

LEMMA CardParts ==
  ASSUME NEW p, p.prefix \in Int, p.suffix \in Int, NEW n \in Nat, n >= 12
  PROVE  CardPrefix(p, n) \in 1 .. n - 6 /\ CardSuffix(p, n) \in 0 .. n - CardPrefix(p, n) - 2
<1>1. PICK a \in Int : a = Min({p.prefix, n - 6}) /\ a <= n - 6
  <2>1. PICK k, q \in Int : k = n - 6 /\ q = p.prefix
    OBVIOUS
  <2>2. Min({q, k}) \in Int /\ Min({q, k}) <= k
    BY MinAtMost
  <2>. QED
    BY <2>1, <2>2
<1>2. PICK b \in 1 .. n - 6 : b = CardPrefix(p, n)
  <2>1. Max({1, a}) \in 1 .. n - 6
    BY <1>1, MaxOfTwo
  <2>. QED
    BY <1>1, <2>1 DEF CardPrefix
<1>3. PICK c \in Int : c = Min({p.suffix, n - b - 2}) /\ c <= n - b - 2
  <2>1. PICK k, q \in Int : k = n - b - 2 /\ q = p.suffix
    OBVIOUS
  <2>2. Min({q, k}) \in Int /\ Min({q, k}) <= k
    BY MinAtMost
  <2>. QED
    BY <2>1, <2>2
<1>4. Max({0, c}) \in 0 .. n - b - 2
  <2>1. n - b - 2 \in Nat /\ c <= n - b - 2
    BY <1>3
  <2>. QED
    BY <2>1, MaxOfTwo
<1>. QED
  BY <1>2, <1>3, <1>4 DEF CardSuffix

CardBegun(p, d) ==
  Begun("card", CardPrefix(p, Len(d)), CardPrefix(p, Len(d)),
        Len(d) - (IF p.luhn THEN 1 ELSE CardSuffix(p, Len(d))), d)

CardFinal(p, d) ==
  CardBegun(p, d) \o (IF p.luhn THEN <<LuhnDigit(CardBegun(p, d))>>
                      ELSE SubSeq(d, Len(d) - CardSuffix(p, Len(d)) + 1, Len(d)))

LEMMA FpeCardFinal ==
  ASSUME NEW p, NEW s \in Seq(Nat)
  PROVE  /\ Len(DigitsOf(s)) < 12 => FpeCard(p, s) = InPlaceEncrypted("fpe", 0, 10, 10, s)
         /\ Len(DigitsOf(s)) >= 12 /\ p.delimiters =>
              FpeCard(p, s) = Spread(s, Digits, CardFinal(p, DigitsOf(s)))
         /\ Len(DigitsOf(s)) >= 12 /\ ~p.delimiters => FpeCard(p, s) = CardFinal(p, DigitsOf(s))
<1>1. PICK n \in Nat : n = Len(DigitsOf(s))
  BY TenDigits, LenNatural
<1>2. CASE n < 12
  <2>1. ~(n >= 12)
    BY <1>2
  <2>2. FpeCard(p, s) = PlainFpe(10, s)
    BY <1>1, <1>2, <2>1 DEF FpeCard
  <2>. QED
    BY <1>1, <2>1, <2>2 DEF PlainFpe, Fpe, InPlaceEncrypted
<1>3. CASE ~(n < 12)
  <2>1. n >= 12
    BY <1>3
  <2>. QED
    BY <1>1, <1>3, <2>1 DEF FpeCard, CardFinal, CardBegun, Begun
<1>. QED
  BY <1>2, <1>3

LEMMA CardFinalDigits ==
  ASSUME HmacNatural, NEW p, p.prefix \in Int, p.suffix \in Int, p.luhn \in BOOLEAN,
         NEW d \in Seq(Digits), Len(d) >= 12
  PROVE  /\ CardFinal(p, d) \in Seq(Digits) /\ Len(CardFinal(p, d)) = Len(d)
         /\ \A i \in 1 .. CardPrefix(p, Len(d)) : CardFinal(p, d)[i] = d[i]
         /\ p.luhn => LuhnSum(CardFinal(p, d)) % 10 = 0
         /\ \A c \in Seq(Digits) :
              /\ Len(c) = Len(d)
              /\ p.luhn => LuhnSum(c) % 10 = 0 /\ LuhnSum(d) % 10 = 0
              /\ CardFinal(p, c) = CardFinal(p, d)
              => c = d
<1>1. PICK n \in Nat : n = Len(d) /\ n >= 12
  BY LenNatural
<1>2. PICK prefix \in 1 .. n - 6 : prefix = CardPrefix(p, n)
  BY <1>1, CardParts
<1>3. PICK suffix \in 0 .. n - prefix - 2 : suffix = CardSuffix(p, n)
  BY <1>1, <1>2, CardParts
<1>4. PICK last \in Nat : last = n - (IF p.luhn THEN 1 ELSE suffix) /\ last <= n
    /\ prefix + 2 <= last
  <2>1. CASE p.luhn
    <3>1. n - 1 \in Nat /\ n - 1 <= n /\ prefix + 2 <= n - 1
      BY <1>1
    <3>. QED
      BY <2>1, <3>1
  <2>2. CASE ~p.luhn
    <3>1. n - suffix \in Nat /\ n - suffix <= n /\ prefix + 2 <= n - suffix
      BY <1>1
    <3>. QED
      BY <2>2, <3>1
  <2>. QED
    BY <2>1, <2>2
<1>5. prefix \in Nat /\ prefix <= last /\ last - prefix # 1 /\ "card" \in Keys
      /\ \A i \in 1 .. prefix : i \in 1 .. last
  BY <1>4 DEF Keys
<1>6. ASSUME NEW c \in Seq(Digits), Len(c) = n
      PROVE  \E b, e \in Seq(Digits) :
               /\ b = Begun("card", prefix, prefix, last, c) /\ b = CardBegun(p, c) /\ Len(b) = last
               /\ \A i \in 1 .. prefix : b[i] = c[i]
               /\ Len(e) = n - last /\ CardFinal(p, c) = b \o e
               /\ p.luhn => e = <<LuhnDigit(b)>> /\ b \o e = Append(b, LuhnDigit(b))
               /\ ~p.luhn => \A i \in 1 .. n - last : e[i] = c[last + i]
  <2>1. /\ Begun("card", prefix, prefix, last, c) \in Seq(Digits)
        /\ Len(Begun("card", prefix, prefix, last, c)) = last
        /\ \A i \in 1 .. prefix : Begun("card", prefix, prefix, last, c)[i] = c[i]
    <3>1. last <= Len(c)
      BY <1>4, <1>6
    <3>. QED
      BY <1>5, <3>1, BegunCard
  <2>2. PICK b \in Seq(Digits) : /\ b = Begun("card", prefix, prefix, last, c) /\ Len(b) = last
                                 /\ \A i \in 1 .. prefix : b[i] = c[i]
    BY <2>1
  <2>3. CardBegun(p, c) = b
    BY <1>2, <1>3, <1>4, <1>6, <2>2 DEF CardBegun
  <2>4. CASE p.luhn
    <3>1. PICK e \in Seq(Digits) : e = <<LuhnDigit(b)>> /\ Len(e) = 1
      <4>1. LuhnDigit(b) \in Digits
        BY LuhnDigitRight
      <4>2. <<LuhnDigit(b)>> \in Seq(Digits) /\ Len(<<LuhnDigit(b)>>) = 1
        BY <4>1
      <4>. QED
        BY <4>2
    <3>2. b \o e = Append(b, LuhnDigit(b))
      BY <3>1, LuhnDigitRight, AppendIsConcat
    <3>3. CardFinal(p, c) = b \o e /\ n - last = 1
      BY <1>4, <2>3, <2>4, <3>1 DEF CardFinal
    <3>. QED
      BY <2>2, <2>3, <2>4, <3>1, <3>2, <3>3
  <2>5. CASE ~p.luhn
    <3>1. last = n - suffix /\ last <= Len(c) /\ last <= n
      BY <1>4, <1>6, <2>5
    <3>2. /\ SubSeq(c, last + 1, n) \in Seq(Digits) /\ Len(SubSeq(c, last + 1, n)) = n - last
          /\ \A i \in 1 .. n - last : SubSeq(c, last + 1, n)[i] = c[last + i]
      <4>1. n <= Len(c)
        BY <1>6
      <4>. QED
        BY <3>1, <4>1, SubSeqDigits
    <3>3. CardFinal(p, c) = b \o SubSeq(c, last + 1, n)
      BY <1>3, <1>6, <2>3, <2>5, <3>1 DEF CardFinal
    <3>. QED
      BY <2>2, <2>3, <2>5, <3>2, <3>3
  <2>. QED
    BY <2>4, <2>5
<1>7. PICK b, e \in Seq(Digits) :
        /\ b = Begun("card", prefix, prefix, last, d) /\ b = CardBegun(p, d) /\ Len(b) = last
        /\ \A i \in 1 .. prefix : b[i] = d[i]
        /\ Len(e) = n - last /\ CardFinal(p, d) = b \o e
        /\ p.luhn => e = <<LuhnDigit(b)>> /\ b \o e = Append(b, LuhnDigit(b))
        /\ ~p.luhn => \A i \in 1 .. n - last : e[i] = d[last + i]
  BY <1>1, <1>6
<1>8. b \o e \in Seq(Digits) /\ Len(b \o e) = n
  <2>1. b \o e \in Seq(Digits) /\ Len(b \o e) = Len(b) + Len(e)
    BY ConcatType
  <2>2. last + (n - last) = n
    OBVIOUS
  <2>. QED
    BY <1>7, <2>1, <2>2
<1>9. \A i \in 1 .. prefix : (b \o e)[i] = d[i]
  <2>1. \A i \in 1 .. last : (b \o e)[i] = b[i]
    BY <1>7, ConcatElements
  <2>. QED
    BY <1>5, <1>7, <2>1
<1>10. p.luhn => LuhnSum(b \o e) % 10 = 0
  BY <1>7, LuhnDigitRight
<1>11. ASSUME NEW c \in Seq(Digits), Len(c) = n,
              p.luhn => LuhnSum(c) % 10 = 0 /\ LuhnSum(d) % 10 = 0,
              CardFinal(p, c) = CardFinal(p, d)
       PROVE  c = d
  <2>1. PICK a, f \in Seq(Digits) :
          /\ a = Begun("card", prefix, prefix, last, c) /\ a = CardBegun(p, c) /\ Len(a) = last
          /\ \A i \in 1 .. prefix : a[i] = c[i]
          /\ Len(f) = n - last /\ CardFinal(p, c) = a \o f
          /\ p.luhn => f = <<LuhnDigit(a)>> /\ a \o f = Append(a, LuhnDigit(a))
          /\ ~p.luhn => \A i \in 1 .. n - last : f[i] = c[last + i]
    BY <1>6, <1>11
  <2>2. a = b /\ e = f
    <3>1. Len(a) = Len(b) /\ a \o f = b \o e
      BY <1>7, <1>11, <2>1
    <3>. QED
      BY <3>1, ConcatInjective
  <2>3. \A i \in 1 .. last : c[i] = d[i]
    <3>1. last <= Len(c) /\ last <= Len(d)
      BY <1>1, <1>4, <1>11
    <3>2. Begun("card", prefix, prefix, last, c) = Begun("card", prefix, prefix, last, d)
      BY <1>7, <2>1, <2>2
    <3>. QED
      BY <1>5, <3>1, <3>2, BegunInjective
  <2>4. CASE ~p.luhn
    <3>1. ASSUME NEW i \in 1 .. n
          PROVE  c[i] = d[i]
      <4>1. CASE i \in 1 .. last
        BY <2>3, <4>1
      <4>2. CASE i \notin 1 .. last
        <5>1. i - last \in 1 .. n - last /\ last + (i - last) = i
          BY <4>2
        <5>. QED
          BY <1>7, <2>1, <2>2, <2>4, <5>1
      <4>. QED
        BY <4>1, <4>2
    <3>. QED
      BY <1>1, <1>11, <3>1, SameElements
  <2>5. CASE p.luhn
    <3>1. last = n - 1 /\ n \in 1 .. n /\ n - 1 \in Nat
      BY <1>4, <2>5
    <3>2. PICK g \in Seq(Digits) : /\ g = SubSeq(c, 1, n - 1)
                                   /\ c = Append(g, c[n]) /\ c[n] \in Digits
                                   /\ Len(g) = n - 1
      <4>1. SubSeq(c, 1, n) = c /\ n \in 1 .. Len(c)
        BY <1>11, <3>1
      <4>2. /\ SubSeq(c, 1, n - 1) \in Seq(Digits) /\ Len(SubSeq(c, 1, n - 1)) = n - 1
            /\ SubSeq(c, 1, n) = Append(SubSeq(c, 1, n - 1), c[n]) /\ c[n] \in Digits
        BY <4>1, FirstOnes
      <4>. QED
        BY <4>1, <4>2
    <3>3. PICK h \in Seq(Digits) : /\ h = SubSeq(d, 1, n - 1)
                                   /\ d = Append(h, d[n]) /\ d[n] \in Digits
                                   /\ Len(h) = n - 1
      <4>1. SubSeq(d, 1, n) = d /\ n \in 1 .. Len(d)
        BY <1>1, <3>1
      <4>2. /\ SubSeq(d, 1, n - 1) \in Seq(Digits) /\ Len(SubSeq(d, 1, n - 1)) = n - 1
            /\ SubSeq(d, 1, n) = Append(SubSeq(d, 1, n - 1), d[n]) /\ d[n] \in Digits
        BY <4>1, FirstOnes
      <4>. QED
        BY <4>1, <4>2
    <3>4. g = h
      <4>1. ASSUME NEW i \in 1 .. n - 1
            PROVE  g[i] = h[i]
        <5>1. g[i] = c[i] /\ h[i] = d[i]
          <6>1. Append(g, c[n])[i] = g[i]
            BY <3>2, AppendElements
          <6>2. Append(h, d[n])[i] = h[i]
            BY <3>3, AppendElements
          <6>. QED
            BY <3>2, <3>3, <6>1, <6>2
        <5>. QED
          BY <2>3, <3>1, <5>1
      <4>. QED
        BY <3>2, <3>3, <4>1, SameElements
    <3>5. c[n] = LuhnDigit(g) /\ d[n] = LuhnDigit(h)
      BY <1>11, <2>5, <3>2, <3>3, LuhnDigitRight
    <3>. QED
      BY <3>2, <3>3, <3>4, <3>5
  <2>. QED
    BY <2>4, <2>5
<1>. QED
  BY <1>1, <1>2, <1>7, <1>8, <1>9, <1>10, <1>11

(* The card with its digits replaced in place. *)
LEMMA CardPutBack ==
  ASSUME HmacNatural, NEW p, p.prefix \in Int, p.suffix \in Int, p.luhn \in BOOLEAN, p.delimiters,
         p.delimiters \in BOOLEAN, NEW s \in Seq(Nat), Len(DigitsOf(s)) >= 12
  PROVE  PutBack(s, Digits, CardFinal(p, DigitsOf(s)), FpeCard(p, s))
<1>1. PICK d \in Seq(Digits) : d = DigitsOf(s) /\ Len(d) >= 12
  BY TenDigits
<1>2. PICK f \in Seq(Digits) : f = CardFinal(p, d) /\ Len(f) = Len(d)
  <2>1. CardFinal(p, d) \in Seq(Digits) /\ Len(CardFinal(p, d)) = Len(d)
    BY <1>1, CardFinalDigits
  <2>. QED
    BY <2>1
<1>3. PutBack(s, Digits, f, Spread(s, Digits, f))
  BY <1>1, <1>2, TenDigits, SpreadPlaces DEF DigitsOf
<1>4. FpeCard(p, s) = Spread(s, Digits, f)
  <2>1. Len(DigitsOf(s)) >= 12 /\ p.delimiters =>
          FpeCard(p, s) = Spread(s, Digits, CardFinal(p, DigitsOf(s)))
    BY FpeCardFinal
  <2>. QED
    BY <1>1, <1>2, <2>1
<1>. QED
  BY <1>1, <1>2, <1>3, <1>4

(* Two cards that pass validation, or whose check digit is kept as any other,
   are not masked to the same one. *)
LEMMA FpeCardInjective ==
  ASSUME HmacNatural, NEW p, p.prefix \in Int, p.suffix \in Int, p.luhn \in BOOLEAN, p.delimiters,
         p.delimiters \in BOOLEAN, NEW s \in Seq(Nat), NEW t \in Seq(Nat),
         Len(DigitsOf(s)) >= 12, Len(DigitsOf(t)) >= 12,
         p.luhn => ValidLuhn(s) /\ ValidLuhn(t), FpeCard(p, s) = FpeCard(p, t)
  PROVE  s = t
<1>1. PICK d \in Seq(Digits) : d = DigitsOf(s)
  BY TenDigits
<1>2. PICK c \in Seq(Digits) : c = DigitsOf(t)
  BY TenDigits
<1>3. PICK y : y = FpeCard(p, s) /\ y = FpeCard(p, t)
  OBVIOUS
<1>4. PutBack(s, Digits, CardFinal(p, d), y)
  BY <1>1, <1>3, CardPutBack
<1>5. PutBack(t, Digits, CardFinal(p, c), y)
  BY <1>2, <1>3, CardPutBack
<1>6. CardFinal(p, d) = CardFinal(p, c) /\ (d = c => s = t)
  BY <1>1, <1>2, <1>4, <1>5, PutBackInjective DEF DigitsOf
<1>7. Len(CardFinal(p, d)) = Len(d) /\ Len(CardFinal(p, c)) = Len(c)
  BY <1>1, <1>2, CardFinalDigits
<1>8. p.luhn => LuhnSum(c) % 10 = 0 /\ LuhnSum(d) % 10 = 0
  BY <1>1, <1>2 DEF ValidLuhn
<1>9. c = d
  BY <1>1, <1>6, <1>7, <1>8, CardFinalDigits
<1>. QED
  BY <1>6, <1>9

-----------------------------------------------------------------------------
(* FPEPhoneStrategy. *)

PhoneFinal(p, s) ==
  Begun("phone", PhonePrefix(p, s), PhonePrefix(p, s), Len(DigitsOf(s)), DigitsOf(s))

LEMMA PhonePrefixFits ==
  ASSUME NEW p, p.country \in BOOLEAN, p.digits \in Int, NEW s \in Seq(Nat), Len(DigitsOf(s)) >= 4
  PROVE  PhonePrefix(p, s) \in 0 .. Len(DigitsOf(s)) - 2
<1>1. PICK n \in Nat : n = Len(DigitsOf(s)) /\ n >= 4
  BY TenDigits, LenNatural
<1>2. CASE p.country /\ International(s)
  <2>1. PhonePrefix(p, s) = IF n >= 11 THEN n - 10 ELSE 1
    BY <1>1, <1>2 DEF PhonePrefix
  <2>2. (IF n >= 11 THEN n - 10 ELSE 1) \in 0 .. n - 2
    BY <1>1
  <2>. QED
    BY <1>1, <2>1, <2>2
<1>3. CASE ~(p.country /\ International(s))
  <2>1. PhonePrefix(p, s) = IF p.digits > 0 THEN Min({p.digits, n - 2}) ELSE 0
    BY <1>1, <1>3 DEF PhonePrefix
  <2>2. CASE p.digits > 0
    <3>1. PICK k, q \in Nat : k = n - 2 /\ q = p.digits
      <4>1. n - 2 \in Nat
        BY <1>1
      <4>2. p.digits \in Nat
        BY <2>2
      <4>. QED
        BY <4>1, <4>2
    <3>2. Min({q, k}) \in 0 .. k
      BY MinOfNaturals
    <3>. QED
      BY <1>1, <2>1, <2>2, <3>1, <3>2
  <2>3. CASE ~(p.digits > 0)
    BY <1>1, <2>1, <2>3
  <2>. QED
    BY <2>2, <2>3
<1>. QED
  BY <1>2, <1>3

LEMMA PhonePutBack ==
  ASSUME HmacNatural, NEW p, p.country \in BOOLEAN, p.digits \in Int, NEW s \in Seq(Nat),
         Len(DigitsOf(s)) >= 4
  PROVE  /\ PutBack(s, Digits, PhoneFinal(p, s), FpePhone(p, s))
         /\ PhoneFinal(p, s) \in Seq(Digits) /\ Len(PhoneFinal(p, s)) = Len(DigitsOf(s))
         /\ \A i \in 1 .. PhonePrefix(p, s) : PhoneFinal(p, s)[i] = DigitsOf(s)[i]
<1>1. PICK d \in Seq(Digits) : d = DigitsOf(s)
  BY TenDigits
<1>2. PICK n \in Nat : n = Len(d) /\ n >= 4
  BY <1>1, LenNatural
<1>3. PICK prefix \in 0 .. n - 2 : prefix = PhonePrefix(p, s)
  BY <1>1, <1>2, PhonePrefixFits
<1>4. prefix \in Nat /\ prefix <= n /\ n <= Len(d) /\ "phone" \in Keys
  BY <1>2 DEF Keys
<1>5. /\ Begun("phone", prefix, prefix, n, d) \in Seq(Digits)
      /\ Len(Begun("phone", prefix, prefix, n, d)) = n
      /\ \A i \in 1 .. prefix : Begun("phone", prefix, prefix, n, d)[i] = d[i]
  BY <1>4, BegunDigits
<1>6. PICK f \in Seq(Digits) : /\ f = Begun("phone", prefix, prefix, n, d) /\ Len(f) = n
                               /\ \A i \in 1 .. prefix : f[i] = d[i]
  BY <1>5
<1>7. f = PhoneFinal(p, s)
  BY <1>1, <1>2, <1>3, <1>6 DEF PhoneFinal
<1>8. PutBack(s, Digits, f, Spread(s, Digits, f))
  BY <1>1, <1>2, <1>6, TenDigits, SpreadPlaces DEF DigitsOf
<1>9. FpePhone(p, s) = Spread(s, Digits, f)
  <2>1. ~(n < 4)
    BY <1>2
  <2>. QED
    BY <1>1, <1>2, <1>3, <1>6, <2>1 DEF FpePhone, Begun
<1>. QED
  BY <1>1, <1>2, <1>3, <1>6, <1>7, <1>8, <1>9

LEMMA FpePhoneInjective ==
  ASSUME HmacNatural, NEW p, p.country \in BOOLEAN, p.digits \in Int,
         NEW s \in Seq(Nat), NEW t \in Seq(Nat), FpePhone(p, s) = FpePhone(p, t)
  PROVE  s = t
<1>1. PICK d \in Seq(Digits) : d = DigitsOf(s)
  BY TenDigits
<1>2. PICK c \in Seq(Digits) : c = DigitsOf(t)
  BY TenDigits
<1>3. PICK n, m \in Nat : n = Len(d) /\ m = Len(c)
  BY LenNatural
<1>4. PICK y : y = FpePhone(p, s) /\ y = FpePhone(p, t)
  OBVIOUS
<1>5. n < 4 => y = s
  BY <1>1, <1>3, <1>4 DEF FpePhone
<1>6. m < 4 => y = t
  BY <1>2, <1>3, <1>4 DEF FpePhone
<1>7. ~(n < 4) => /\ PutBack(s, Digits, PhoneFinal(p, s), y) /\ Len(PhoneFinal(p, s)) = n
  BY <1>1, <1>3, <1>4, PhonePutBack
<1>8. ~(m < 4) => /\ PutBack(t, Digits, PhoneFinal(p, t), y) /\ Len(PhoneFinal(p, t)) = m
  BY <1>2, <1>3, <1>4, PhonePutBack
<1>9. CASE n < 4 \/ m < 4
  <2>1. ~(m < 4) => Len(DigitsOf(y)) = m
    BY <1>8 DEF PutBack, DigitsOf
  <2>2. ~(n < 4) => Len(DigitsOf(y)) = n
    BY <1>7 DEF PutBack, DigitsOf
  <2>. QED
    BY <1>1, <1>2, <1>3, <1>5, <1>6, <1>9, <2>1, <2>2
<1>10. CASE ~(n < 4) /\ ~(m < 4)
  <2>1. PhoneFinal(p, s) = PhoneFinal(p, t) /\ Len(s) = Len(t) /\ (d = c => s = t) /\ n = m
    BY <1>1, <1>2, <1>7, <1>8, <1>10, PutBackInjective DEF DigitsOf
  <2>2. International(s) <=> International(t)
    <3>1. DOMAIN s = 1 .. Len(s) /\ DOMAIN t = 1 .. Len(s) /\ Len(s) \in Nat
      BY <2>1, SeqFunction, LenNatural
    <3>2. ASSUME NEW i \in 1 .. Len(s)
          PROVE  /\ IF s[i] \in Digits THEN y[i] \in Digits ELSE y[i] = s[i]
                 /\ IF t[i] \in Digits THEN y[i] \in Digits ELSE y[i] = t[i]
      BY <1>7, <1>8, <1>10, <2>1 DEF PutBack
    <3>3. Plus \notin Digits /\ Space \notin Digits
      BY DEF Plus, Space, Digits
    <3>4. \A i \in 1 .. Len(s) : (s[i] = Plus <=> t[i] = Plus) /\ (s[i] = Space <=> t[i] = Space)
      BY <3>2, <3>3
    <3>5. \A i \in 1 .. Len(s) : \A j \in 1 .. (i - 1) : j \in 1 .. Len(s)
      BY <3>1
    <3>. QED
      BY <3>1, <3>4, <3>5 DEF International
  <2>3. PhonePrefix(p, s) = PhonePrefix(p, t)
    BY <1>1, <1>2, <1>3, <2>1, <2>2 DEF PhonePrefix
  <2>4. PICK prefix \in 0 .. n - 2 : prefix = PhonePrefix(p, s)
    <3>1. Len(DigitsOf(s)) >= 4
      BY <1>1, <1>3, <1>10
    <3>2. PhonePrefix(p, s) \in 0 .. Len(DigitsOf(s)) - 2
      BY <3>1, PhonePrefixFits
    <3>. QED
      BY <1>1, <1>3, <3>2
  <2>5. /\ prefix \in Nat /\ prefix <= n /\ n <= Len(d) /\ n <= Len(c) /\ n - prefix # 1
        /\ "phone" \in Keys
    BY <1>3, <2>1 DEF Keys
  <2>6. Begun("phone", prefix, prefix, n, c) = Begun("phone", prefix, prefix, n, d)
    BY <1>1, <1>2, <1>3, <2>1, <2>3, <2>4 DEF PhoneFinal
  <2>7. \A i \in 1 .. n : c[i] = d[i]
    BY <2>5, <2>6, BegunInjective
  <2>8. c = d
    BY <1>3, <2>1, <2>7, SameElements
  <2>. QED
    BY <2>1, <2>8
<1>. QED
  BY <1>9, <1>10

-----------------------------------------------------------------------------
(* Keeping the format. *)

LEMMA ClassOf ==
  \A c \in Nat : /\ c \in SameClass(c) /\ SameClass(c) \subseteq Nat
                 /\ c \in Digits => SameClass(c) = Digits
<1>1. ASSUME NEW c \in Nat
      PROVE  /\ c \in SameClass(c) /\ SameClass(c) \subseteq Nat
             /\ c \in Digits => SameClass(c) = Digits
  <2>1. CASE c \in Digits
    <3>1. SameClass(c) = Digits
      BY <2>1 DEF SameClass, Digits, Upper
    <3>. QED
      BY <2>1, <3>1 DEF Digits
  <2>2. CASE c \in Upper
    <3>1. SameClass(c) = Upper /\ c \notin Digits
      BY <2>2 DEF SameClass, Digits, Upper
    <3>. QED
      BY <2>2, <3>1 DEF Upper
  <2>3. CASE c \in 10 .. 35
    <3>1. SameClass(c) = 10 .. 35 /\ c \notin Digits
      BY <2>3 DEF SameClass, Digits, Upper
    <3>. QED
      BY <2>3, <3>1
  <2>4. CASE c \notin Digits /\ c \notin Upper /\ c \notin 10 .. 35
    <3>1. SameClass(c) = {c}
      BY <2>4 DEF SameClass
    <3>. QED
      BY <2>4, <3>1
  <2>. QED
    BY <2>1, <2>2, <2>3, <2>4
<1>. QED
  BY <1>1

(* Every character of y is of the kind of the one of s in its place. *)
SameFormat(s, y) ==
  y \in Seq(Nat) /\ Len(y) = Len(s) /\ \A k \in 1 .. Len(s) : y[k] \in SameClass(s[k])

LEMMA SameItself == \A s \in Seq(Nat) : SameFormat(s, s)
<1>1. ASSUME NEW s \in Seq(Nat)
      PROVE  \A k \in 1 .. Len(s) : s[k] \in SameClass(s[k])
  <2>1. \A k \in 1 .. Len(s) : s[k] \in Nat
    BY Elements
  <2>. QED
    BY <2>1, ClassOf
<1>. QED
  BY <1>1 DEF SameFormat

LEMMA PutBackFormat ==
  ASSUME NEW s \in Seq(Nat), NEW t, NEW y, PutBack(s, Digits, t, y)
  PROVE  SameFormat(s, y) /\ DigitsOf(y) = t
<1>1. ASSUME NEW k \in 1 .. Len(s)
      PROVE  y[k] \in SameClass(s[k])
  <2>1. s[k] \in Nat
    BY Elements
  <2>2. IF s[k] \in Digits THEN y[k] \in Digits ELSE y[k] = s[k]
    BY DEF PutBack
  <2>. QED
    BY <2>1, <2>2, ClassOf
<1>. QED
  BY <1>1 DEF PutBack, SameFormat, DigitsOf

(* Digits alone, and as many. *)
LEMMA DigitsFormat ==
  ASSUME NEW s \in Seq(Digits), NEW y \in Seq(Digits), Len(y) = Len(s)
  PROVE  SameFormat(s, y)
<1>1. ASSUME NEW k \in 1 .. Len(s)
      PROVE  y[k] \in SameClass(s[k])
  <2>1. s[k] \in Digits /\ y[k] \in Digits
    <3>1. k \in 1 .. Len(y)
      OBVIOUS
    <3>. QED
      BY <3>1, Elements
  <2>2. s[k] \in Nat
    BY <2>1 DEF Digits
  <2>. QED
    BY <2>1, <2>2, ClassOf
<1>2. y \in Seq(Nat)
  BY TenDigits
<1>. QED
  BY <1>1, <1>2 DEF SameFormat

(* A string of digits is its digits. *)
LEMMA BareDigits ==
  ASSUME NEW s \in Seq(Nat), \A i \in 1 .. Len(s) : s[i] \in Digits
  PROVE  DigitsOf(s) = s /\ s \in Seq(Digits)
<1>1. DigitsOf(s) = s
  BY InsideAll DEF DigitsOf
<1>. QED
  BY <1>1, TenDigits

LEMMA AllDigits == \A d \in Seq(Digits) : DigitsOf(d) = d
<1>1. ASSUME NEW d \in Seq(Digits)
      PROVE  DigitsOf(d) = d
  <2>1. d \in Seq(Nat)
    BY TenDigits
  <2>2. \A i \in 1 .. Len(d) : d[i] \in Digits
    BY Elements
  <2>. QED
    BY <2>1, <2>2, BareDigits
<1>. QED
  BY <1>1

-----------------------------------------------------------------------------
(* FPENationalIdStrategy. *)

LEMMA TwoCheckDigits ==
  \A d : (\A i \in 1 .. 9 : d[i] \in Int) => \E a, b \in Digits : TcknDigits(d) = <<a, b>>
<1>. SUFFICES ASSUME NEW d, \A i \in 1 .. 9 : d[i] \in Int
              PROVE  \E a, b \in Digits : TcknDigits(d) = <<a, b>>
  OBVIOUS
<1>1. PICK odd \in Int : odd = d[1] + d[3] + d[5] + d[7] + d[9]
  <2>1. d[1] \in Int /\ d[3] \in Int /\ d[5] \in Int /\ d[7] \in Int /\ d[9] \in Int
    OBVIOUS
  <2>. QED
    BY <2>1
<1>2. PICK even \in Int : even = d[2] + d[4] + d[6] + d[8]
  <2>1. d[2] \in Int /\ d[4] \in Int /\ d[6] \in Int /\ d[8] \in Int
    OBVIOUS
  <2>. QED
    BY <2>1
<1>3. PICK a \in Digits : a = (odd * 7 - even) % 10
  <2>1. odd * 7 - even \in Int
    OBVIOUS
  <2>. QED
    BY <2>1 DEF Digits
<1>4. PICK b \in Digits : b = (odd + even + a) % 10
  <2>1. odd + even + a \in Int
    BY DEF Digits
  <2>. QED
    BY <2>1 DEF Digits
<1>5. TcknDigits(d) = <<a, b>>
  BY <1>1, <1>2, <1>3, <1>4 DEF TcknDigits
<1>. QED
  BY <1>5

LEMMA Pair == \A S : \A a, b \in S : <<a, b>> \in Seq(S) /\ Len(<<a, b>>) = 2
OBVIOUS

(* The check digits that follow from nine digits make them valid. *)
LEMMA TcknValid ==
  ASSUME NEW d \in Seq(Digits), Len(d) = 9
  PROVE  /\ TcknDigits(d) \in Seq(Digits) /\ Len(TcknDigits(d)) = 2
         /\ d[1] # 0 => ValidTckn(d \o TcknDigits(d))
<1>1. \A i \in 1 .. 9 : d[i] \in 0 .. 9
  BY Elements DEF Digits
<1>2. PICK e \in Seq(Digits) : e = TcknDigits(d) /\ Len(e) = 2
  <2>1. \A i \in 1 .. 9 : d[i] \in Int
    BY <1>1
  <2>2. PICK a, b \in Digits : TcknDigits(d) = <<a, b>>
    BY <2>1, TwoCheckDigits
  <2>. QED
    BY <2>2, Pair
<1>3. PICK f : f = d \o e
  OBVIOUS
<1>4. f \in Seq(Digits) /\ Len(f) = 11 /\ (\A i \in 1 .. 9 : f[i] = d[i])
    /\ \A i \in 1 .. 2 : f[9 + i] = e[i]
  <2>1. Joined(Digits, d, e, f)
    BY <1>3, ConcatJoined
  <2>2. Len(e) = 2
    BY <1>2
  <2>. QED
    BY <2>1, <2>2 DEF Joined
<1>5. SubSeq(f, 1, 9) = d
  <2>1. 9 \in Nat /\ 9 <= Len(f) /\ Len(f) \in Nat
    BY <1>4
  <2>2. PICK g \in Seq(Digits) : g = SubSeq(f, 1, 9) /\ Starts(g, f, 9)
    BY <1>4, <2>1, FirstPart
  <2>3. Len(g) = Len(d) /\ \A i \in 1 .. Len(d) : g[i] = d[i]
    BY <1>4, <2>2 DEF Starts
  <2>4. g = d
    BY <2>3, SameElements
  <2>. QED
    BY <2>2, <2>4
<1>6. SubSeq(f, 10, 11) = e
  <2>1. PICK m, n \in Nat : m = 9 /\ n = 11 /\ m <= n /\ n <= Len(f) /\ m + 1 = 10 /\ n - m = 2
    BY <1>4
  <2>2. SubSeq(f, m + 1, n) \in Seq(Digits) /\ Len(SubSeq(f, m + 1, n)) = n - m
        /\ \A i \in 1 .. n - m : SubSeq(f, m + 1, n)[i] = f[m + i]
    <3>1. m <= n /\ n <= Len(f) /\ f \in Seq(Digits)
      BY <1>4, <2>1
    <3>. QED
      BY <3>1, SubSeqDigits
  <2>3. PICK g : g = SubSeq(f, 10, 11)
    OBVIOUS
  <2>4. g \in Seq(Digits) /\ Len(g) = 2 /\ \A i \in 1 .. 2 : g[i] = f[9 + i]
    BY <2>1, <2>2, <2>3
  <2>5. Len(g) = Len(e) /\ \A i \in 1 .. Len(e) : g[i] = e[i]
    BY <1>2, <1>4, <2>4
  <2>6. g = e
    BY <2>4, <2>5, SameElements
  <2>. QED
    BY <2>3, <2>6
<1>7. DigitsOf(f) = f
  BY <1>4, AllDigits
<1>8. d[1] # 0 => f[1] # 0
  <2>1. 1 \in 1 .. 9
    OBVIOUS
  <2>. QED
    BY <1>4, <2>1
<1>9. d[1] # 0 => ValidTckn(f)
  BY <1>2, <1>4, <1>5, <1>6, <1>7, <1>8 DEF ValidTckn
<1>. QED
  BY <1>2, <1>3, <1>9

LEMMA NonZeroDigits ==
  ASSUME HmacNatural, NEW d \in Seq(Digits), Len(d) = 9
  PROVE  NonZeroFirst(d) \in Seq(Digits) /\ Len(NonZeroFirst(d)) = 9 /\ NonZeroFirst(d)[1] # 0
<1>1. CASE d[1] # 0
  BY <1>1 DEF NonZeroFirst
<1>2. CASE d[1] = 0
  <2>1. PICK m \in Nat : m = Number(10, d)
    <3>1. PICK r \in Nat \ {0} : r = 10 /\ 0 .. r - 1 = Digits
      BY TenDigits
    <3>2. d \in Seq(0 .. r - 1)
      BY <3>1
    <3>. QED
      BY <3>1, <3>2, NumberBelow
  <2>2. PICK h \in Nat : h = Shift("id", 0, m)
    <3>1. "id" \in Keys /\ 0 \in Nat
      BY DEF Keys
    <3>. QED
      BY <3>1 DEF HmacNatural, Keys
  <2>3. PICK a \in Digits : a = 1 + (h % 9) /\ a # 0
    BY DEF Digits
  <2>4. NonZeroFirst(d) = <<a>> \o Tail(d)
    BY <1>2, <2>1, <2>2, <2>3 DEF NonZeroFirst
  <2>5. <<a>> \in Seq(Digits) /\ Len(<<a>>) = 1 /\ <<a>>[1] = a
    BY OnlyOne
  <2>6. Tail(d) \in Seq(Digits) /\ Len(Tail(d)) = 8
    <3>1. Len(d) # 0
      OBVIOUS
    <3>2. Tail(d) \in Seq(Digits) /\ Len(Tail(d)) = Len(d) - 1
      BY <3>1, TailParts
    <3>. QED
      BY <3>2
  <2>7. PICK b, e \in Seq(Digits) : b = <<a>> /\ e = Tail(d) /\ Len(b) = 1 /\ Len(e) = 8 /\ b[1] = a
    BY <2>5, <2>6
  <2>8. b \o e \in Seq(Digits) /\ Len(b \o e) = 9
    <3>1. b \o e \in Seq(Digits) /\ Len(b \o e) = Len(b) + Len(e)
      BY ConcatType
    <3>. QED
      BY <2>7, <3>1
  <2>9. (b \o e)[1] = a
    <3>1. 1 \in 1 .. Len(b)
      BY <2>7
    <3>. QED
      BY <2>7, <3>1, ConcatElements
  <2>. QED
    BY <2>3, <2>4, <2>7, <2>8, <2>9
<1>. QED
  BY <1>1, <1>2

(* The first nine digits of a number, encrypted. *)
Nine(d) == Encrypt("id", Len(d), 10, 8, SubSeq(d, 1, 9))

LEMMA NineDigits ==
  ASSUME HmacNatural, NEW d \in Seq(Digits), Len(d) >= 9
  PROVE  /\ Nine(d) \in Seq(Digits) /\ Len(Nine(d)) = 9
         /\ \A c \in Seq(Digits) : Len(d) = 9 /\ Len(c) = 9 /\ Nine(c) = Nine(d) => c = d
<1>1. ASSUME NEW c \in Seq(Digits), Len(c) >= 9
      PROVE  \E e \in Seq(Digits) : /\ e = SubSeq(c, 1, 9) /\ Len(e) = 9
                                    /\ \A i \in 1 .. 9 : e[i] = c[0 + i]
  <2>1. 0 \in Nat /\ 9 \in Nat /\ 0 <= 9 /\ 9 <= Len(c) /\ 0 + 1 = 1 /\ 9 - 0 = 9
    BY <1>1, LenNatural
  <2>2. /\ SubSeq(c, 0 + 1, 9) \in Seq(Digits) /\ Len(SubSeq(c, 0 + 1, 9)) = 9 - 0
        /\ \A i \in 1 .. 9 - 0 : SubSeq(c, 0 + 1, 9)[i] = c[0 + i]
    BY <2>1, SubSeqDigits
  <2>. QED
    BY <2>1, <2>2
<1>2. "id" \in Keys
  BY DEF Keys
<1>3. PICK n \in Nat : n = Len(d)
  BY LenNatural
<1>4. PICK e \in Seq(Digits) : e = SubSeq(d, 1, 9) /\ Len(e) = 9
    /\ \A i \in 1 .. 9 : e[i] = d[0 + i]
  BY <1>1
<1>5. PICK f \in Seq(Digits) : f = Encrypt("id", n, 10, 8, e) /\ Len(f) = Len(e)
  BY <1>2, EncryptTen
<1>6. Nine(d) = f
  BY <1>3, <1>4, <1>5 DEF Nine
<1>7. ASSUME NEW c \in Seq(Digits), Len(d) = 9, Len(c) = 9, Nine(c) = Nine(d)
      PROVE  c = d
  <2>1. PICK g \in Seq(Digits) : g = SubSeq(c, 1, 9) /\ Len(g) = 9
      /\ \A i \in 1 .. 9 : g[i] = c[0 + i]
    BY <1>1, <1>7
  <2>2. Nine(c) = Encrypt("id", n, 10, 8, g)
    BY <1>3, <1>7, <2>1 DEF Nine
  <2>3. Len(g) = Len(e) /\ Len(g) # 1
    BY <1>4, <2>1
  <2>4. g = e
    BY <1>2, <1>5, <1>6, <1>7, <2>2, <2>3, EncryptTenInjective
  <2>5. ASSUME NEW i \in 1 .. 9
        PROVE  c[i] = d[i]
    <3>1. 0 + i = i
      OBVIOUS
    <3>. QED
      BY <1>4, <2>1, <2>4, <3>1
  <2>. QED
    BY <1>7, <2>5, SameElements
<1>. QED
  BY <1>4, <1>5, <1>6, <1>7

(* Nine digits with dashes as in a social security number. *)
Dashed(e) ==
  SubSeq(e, 1, 3) \o <<Dash>> \o SubSeq(e, 4, 5) \o <<Dash>> \o SubSeq(e, 6, 9)

DashedFrom(e, v) ==
  /\ v \in Seq(Nat) /\ Len(v) = 11 /\ v[4] = Dash /\ v[7] = Dash
  /\ \A i \in 1 .. 3 : v[i] = e[i]
  /\ \A i \in 1 .. 2 : v[4 + i] = e[3 + i]
  /\ \A i \in 1 .. 4 : v[7 + i] = e[5 + i]

LEMMA DashedPlaces ==
  ASSUME NEW e \in Seq(Digits), Len(e) = 9
  PROVE  DashedFrom(e, Dashed(e))
<1>1. PICK x : x = SubSeq(e, 1, 3)
  OBVIOUS
<1>2. x \in Seq(Nat) /\ Len(x) = 3 /\ \A i \in 1 .. 3 : x[i] = e[i]
  <2>1. PICK n \in Nat : n = 3 /\ n <= Len(e)
    OBVIOUS
  <2>2. PICK f \in Seq(Digits) : f = SubSeq(e, 1, n) /\ Starts(f, e, n)
    BY <2>1, FirstPart
  <2>3. x = f
    BY <1>1, <2>1, <2>2
  <2>. QED
    BY <2>1, <2>2, <2>3, TenDigits DEF Starts
<1>3. PICK y : y = SubSeq(e, 4, 5)
  OBVIOUS
<1>4. y \in Seq(Nat) /\ Len(y) = 2 /\ \A i \in 1 .. 2 : y[i] = e[3 + i]
  <2>1. PICK m, n \in Nat : m = 3 /\ n = 5 /\ m <= n /\ n <= Len(e) /\ m + 1 = 4 /\ n - m = 2
    OBVIOUS
  <2>2. SubSeq(e, m + 1, n) \in Seq(Digits) /\ Len(SubSeq(e, m + 1, n)) = n - m
        /\ \A i \in 1 .. n - m : SubSeq(e, m + 1, n)[i] = e[m + i]
    <3>1. m <= n /\ n <= Len(e)
      BY <2>1
    <3>. QED
      BY <3>1, SubSeqDigits
  <2>3. y = SubSeq(e, m + 1, n)
    BY <1>3, <2>1
  <2>4. y \in Seq(Digits) /\ Len(y) = 2 /\ \A i \in 1 .. 2 : y[i] = e[m + i]
    BY <2>1, <2>2, <2>3
  <2>. QED
    BY <2>1, <2>4, TenDigits
<1>5. PICK z : z = SubSeq(e, 6, 9)
  OBVIOUS
<1>6. z \in Seq(Nat) /\ Len(z) = 4 /\ \A i \in 1 .. 4 : z[i] = e[5 + i]
  <2>1. PICK m, n \in Nat : m = 5 /\ n = 9 /\ m <= n /\ n <= Len(e) /\ m + 1 = 6 /\ n - m = 4
    OBVIOUS
  <2>2. SubSeq(e, m + 1, n) \in Seq(Digits) /\ Len(SubSeq(e, m + 1, n)) = n - m
        /\ \A i \in 1 .. n - m : SubSeq(e, m + 1, n)[i] = e[m + i]
    <3>1. m <= n /\ n <= Len(e)
      BY <2>1
    <3>. QED
      BY <3>1, SubSeqDigits
  <2>3. z = SubSeq(e, m + 1, n)
    BY <1>5, <2>1
  <2>4. z \in Seq(Digits) /\ Len(z) = 4 /\ \A i \in 1 .. 4 : z[i] = e[m + i]
    BY <2>1, <2>2, <2>3
  <2>. QED
    BY <2>1, <2>4, TenDigits
<1>7. PICK g : g = <<Dash>>
  OBVIOUS
<1>8. g \in Seq(Nat) /\ Len(g) = 1 /\ g[1] = Dash
  <2>1. Dash \in Nat
    BY DEF Dash
  <2>. QED
    BY <1>7, <2>1, OnlyOne
<1>9. PICK a, b, c, v : a = x \o g /\ b = a \o y /\ c = b \o g /\ v = c \o z
  OBVIOUS
<1>10. a \in Seq(Nat) /\ Len(a) = 4 /\ a[4] = Dash /\ \A i \in 1 .. 3 : a[i] = e[i]
  <2>1. Joined(Nat, x, g, a)
    BY <1>2, <1>8, <1>9, ConcatJoined
  <2>2. a[Len(x) + 1] = g[1]
    BY <1>8, <2>1 DEF Joined
  <2>3. a \in Seq(Nat) /\ Len(a) = Len(x) + Len(g) /\ \A i \in 1 .. Len(x) : a[i] = x[i]
    BY <2>1 DEF Joined
  <2>. QED
    BY <1>2, <1>8, <2>2, <2>3
<1>11. /\ b \in Seq(Nat) /\ Len(b) = 6 /\ \A i \in 1 .. 4 : b[i] = a[i]
       /\ \A i \in 1 .. 2 : b[4 + i] = e[3 + i]
  <2>1. Joined(Nat, a, y, b)
    BY <1>4, <1>9, <1>10, ConcatJoined
  <2>2. b \in Seq(Nat) /\ Len(b) = 6 /\ (\A i \in 1 .. 4 : b[i] = a[i])
      /\ \A i \in 1 .. 2 : b[4 + i] = y[i]
    BY <1>4, <1>10, <2>1 DEF Joined
  <2>. QED
    BY <1>4, <2>2
<1>12. c \in Seq(Nat) /\ Len(c) = 7 /\ c[7] = Dash /\ \A i \in 1 .. 6 : c[i] = b[i]
  <2>1. Joined(Nat, b, g, c)
    BY <1>8, <1>9, <1>11, ConcatJoined
  <2>2. c[Len(b) + 1] = g[1]
    BY <1>8, <2>1 DEF Joined
  <2>3. c \in Seq(Nat) /\ Len(c) = Len(b) + Len(g) /\ \A i \in 1 .. Len(b) : c[i] = b[i]
    BY <2>1 DEF Joined
  <2>. QED
    BY <1>8, <1>11, <2>2, <2>3
<1>13. /\ v \in Seq(Nat) /\ Len(v) = 11 /\ \A i \in 1 .. 7 : v[i] = c[i]
       /\ \A i \in 1 .. 4 : v[7 + i] = e[5 + i]
  <2>1. Joined(Nat, c, z, v)
    BY <1>6, <1>9, <1>12, ConcatJoined
  <2>2. v \in Seq(Nat) /\ Len(v) = 11 /\ (\A i \in 1 .. 7 : v[i] = c[i])
      /\ \A i \in 1 .. 4 : v[7 + i] = z[i]
    BY <1>6, <1>12, <2>1 DEF Joined
  <2>. QED
    BY <1>6, <2>2
<1>14. v = Dashed(e)
  BY <1>1, <1>3, <1>5, <1>7, <1>9 DEF Dashed
<1>15. v[4] = Dash /\ v[7] = Dash
  BY <1>10, <1>11, <1>12, <1>13
<1>16. \A i \in 1 .. 3 : v[i] = e[i]
  BY <1>10, <1>11, <1>12, <1>13
<1>17. \A i \in 1 .. 2 : v[4 + i] = e[3 + i]
  <2>1. \A i \in 1 .. 2 : 4 + i \in 1 .. 6 /\ 4 + i \in 1 .. 7
    OBVIOUS
  <2>. QED
    BY <1>11, <1>12, <1>13, <2>1
<1>. QED
  BY <1>13, <1>14, <1>15, <1>16, <1>17 DEF DashedFrom

LEMMA NationalIdCases ==
  ASSUME NEW p, NEW s \in Seq(Nat), NEW d, d = DigitsOf(s)
  PROVE  /\ IsTckn(p, s) =>
              /\ Len(d) = 11
              /\ NationalId(p, s) =
                   NonZeroFirst(Nine(d)) \o (IF p.validate THEN TcknDigits(NonZeroFirst(Nine(d)))
                                             ELSE SubSeq(d, 10, 11))
         /\ ~IsTckn(p, s) /\ IsSsn(p, s) =>
              /\ Len(d) = 9
              /\ NationalId(p, s) =
                   IF Dash \in ToSet(s) /\ Len(s) = 11 THEN Dashed(Nine(d)) ELSE Nine(d)
         /\ ~IsTckn(p, s) /\ ~IsSsn(p, s) =>
              NationalId(p, s) = InPlaceEncrypted("fpe", 0, 10, 10, s)
<1>1. CASE IsTckn(p, s)
  <2>1. Len(d) = 11 /\ ~IsSsn(p, s)
    BY <1>1 DEF IsTckn, IsSsn
  <2>. QED
    BY <1>1, <2>1 DEF NationalId, Nine
<1>2. CASE ~IsTckn(p, s) /\ IsSsn(p, s)
  <2>1. Len(d) = 9
    BY <1>2 DEF IsSsn
  <2>. QED
    BY <1>2, <2>1 DEF NationalId, Nine, Dashed
<1>3. CASE ~IsTckn(p, s) /\ ~IsSsn(p, s)
  <2>1. NationalId(p, s) = PlainFpe(10, s)
    BY <1>3 DEF NationalId
  <2>. QED
    BY <1>3, <2>1 DEF PlainFpe, Fpe, InPlaceEncrypted
<1>. QED
  BY <1>1, <1>2, <1>3

(* What the dashed number is, and what it is not. *)
LEMMA DashedIsSsn ==
  ASSUME NEW s \in Seq(Nat), DashedSsn(s)
  PROVE  /\ Dash \in ToSet(s) /\ Len(s) = 11 /\ ~Bare(s) /\ s[4] = Dash /\ s[7] = Dash
         /\ \A i \in 1 .. 11 : i \notin {4, 7} => s[i] \in Digits
<1>1. DOMAIN s = 1 .. 11 /\ Len(s) = 11
  BY LenNatural DEF DashedSsn
<1>2. s[4] = Dash /\ s[7] = Dash /\ 4 \in 1 .. 11 /\ Dash \notin Digits
  BY DEF DashedSsn, Dash, Digits
<1>3. Dash \in ToSet(s)
  BY <1>1, <1>2 DEF ToSet
<1>4. \A i \in 1 .. 11 : i \notin {4, 7} => s[i] \in Digits
  BY <1>1 DEF DashedSsn
<1>. QED
  BY <1>1, <1>2, <1>3, <1>4 DEF Bare

LEMMA BareNoDash ==
  ASSUME NEW s \in Seq(Nat), Bare(s)
  PROVE  Dash \notin ToSet(s) /\ s \in Seq(Digits) /\ DigitsOf(s) = s
<1>1. DOMAIN s = 1 .. Len(s)
  BY SeqFunction
<1>2. \A i \in 1 .. Len(s) : s[i] \in Digits
  BY <1>1 DEF Bare
<1>3. Dash \notin ToSet(s)
  BY <1>1, <1>2 DEF ToSet, Dash, Digits
<1>. QED
  BY <1>2, <1>3, BareDigits

(* A masked identity number has valid check digits. *)
LEMMA NationalIdValid ==
  ASSUME HmacNatural, NEW p, NEW s \in Seq(Nat), IsTckn(p, s)
  PROVE  p.validate => ValidTckn(NationalId(p, s))
<1>1. PICK d \in Seq(Digits) : d = DigitsOf(s)
  BY TenDigits
<1>2. Len(d) = 11
  BY <1>1, NationalIdCases
<1>3. PICK e \in Seq(Digits) : e = NonZeroFirst(Nine(d)) /\ Len(e) = 9 /\ e[1] # 0
  <2>1. Len(d) >= 9
    BY <1>2
  <2>2. PICK f \in Seq(Digits) : f = Nine(d) /\ Len(f) = 9
    BY <2>1, NineDigits
  <2>3. NonZeroFirst(f) \in Seq(Digits) /\ Len(NonZeroFirst(f)) = 9 /\ NonZeroFirst(f)[1] # 0
    BY <2>2, NonZeroDigits
  <2>. QED
    BY <2>2, <2>3
<1>4. p.validate => NationalId(p, s) = e \o TcknDigits(e)
  BY <1>1, <1>3, NationalIdCases
<1>. QED
  BY <1>3, <1>4, TcknValid

LEMMA NationalIdFormat ==
  ASSUME HmacNatural, NEW p, p.validate \in BOOLEAN, NEW s \in Seq(Nat),
         IsTckn(p, s) => Bare(s), ~IsTckn(p, s) /\ IsSsn(p, s) => Bare(s) \/ DashedSsn(s)
  PROVE  SameFormat(s, NationalId(p, s))
<1>1. PICK d \in Seq(Digits) : d = DigitsOf(s)
  BY TenDigits
<1>2. CASE IsTckn(p, s)
  <2>1. d = s /\ Len(d) = 11 /\ Len(d) >= 9
    <3>1. d = s
      BY <1>1, <1>2, BareNoDash
    <3>2. Len(d) = 11
      BY <1>1, <1>2 DEF IsTckn
    <3>3. 11 >= 9
      OBVIOUS
    <3>. QED
      BY <3>1, <3>2, <3>3
  <2>2. PICK e \in Seq(Digits) : e = NonZeroFirst(Nine(d)) /\ Len(e) = 9
    <3>1. PICK f \in Seq(Digits) : f = Nine(d) /\ Len(f) = 9
      BY <2>1, NineDigits
    <3>2. NonZeroFirst(f) \in Seq(Digits) /\ Len(NonZeroFirst(f)) = 9
      BY <3>1, NonZeroDigits
    <3>. QED
      BY <3>1, <3>2
  <2>3. PICK f \in Seq(Digits) :
          f = (IF p.validate THEN TcknDigits(e) ELSE SubSeq(d, 10, 11)) /\ Len(f) = 2
    <3>1. CASE p.validate
      <4>1. TcknDigits(e) \in Seq(Digits) /\ Len(TcknDigits(e)) = 2
        BY <2>2, TcknValid
      <4>. QED
        BY <3>1, <4>1
    <3>2. CASE ~p.validate
      <4>1. 9 \in Nat /\ 11 \in Nat /\ 9 <= 11 /\ 11 <= Len(d) /\ 9 + 1 = 10 /\ 11 - 9 = 2
        BY <2>1
      <4>2. SubSeq(d, 9 + 1, 11) \in Seq(Digits) /\ Len(SubSeq(d, 9 + 1, 11)) = 11 - 9
        BY <4>1, SubSeqDigits
      <4>. QED
        BY <3>2, <4>1, <4>2
    <3>. QED
      BY <3>1, <3>2
  <2>4. NationalId(p, s) = e \o f
    BY <1>1, <1>2, <2>2, <2>3, NationalIdCases, ZenonT(40)
  <2>5. PICK y \in Seq(Digits) : y = e \o f /\ Len(y) = Len(d)
    <3>1. PICK y : y = e \o f
      OBVIOUS
    <3>2. Joined(Digits, e, f, y)
      BY <3>1, ConcatJoined
    <3>3. Len(e) = 9 /\ Len(f) = 2 /\ Len(d) = 11
      BY <2>1, <2>2, <2>3
    <3>4. y \in Seq(Digits) /\ Len(y) = Len(d)
      BY <3>2, <3>3 DEF Joined
    <3>. QED
      BY <3>1, <3>4
  <2>. QED
    BY <2>1, <2>4, <2>5, DigitsFormat
<1>3. CASE ~IsTckn(p, s) /\ IsSsn(p, s)
  <2>1. Len(d) = 9 /\ Len(d) >= 9
    <3>1. Len(d) = 9
      BY <1>1, <1>3 DEF IsSsn
    <3>2. 9 >= 9
      OBVIOUS
    <3>. QED
      BY <3>1, <3>2
  <2>2. PICK e \in Seq(Digits) : e = Nine(d) /\ Len(e) = 9
    BY <2>1, NineDigits
  <2>3. CASE Bare(s)
    <3>1. d = s /\ Dash \notin ToSet(s)
      BY <1>1, <2>3, BareNoDash
    <3>2. NationalId(p, s) = e
      BY <1>1, <1>3, <2>2, <3>1, NationalIdCases
    <3>. QED
      BY <2>1, <2>2, <3>1, <3>2, DigitsFormat
  <2>4. CASE DashedSsn(s)
    <3>1. /\ Dash \in ToSet(s) /\ Len(s) = 11 /\ s[4] = Dash /\ s[7] = Dash
          /\ \A i \in 1 .. 11 : i \notin {4, 7} => s[i] \in Digits
      BY <2>4, DashedIsSsn
    <3>2. NationalId(p, s) = Dashed(e)
      BY <1>1, <1>3, <2>2, <3>1, NationalIdCases
    <3>3. PICK y : y = Dashed(e) /\ DashedFrom(e, y)
      BY <2>2, DashedPlaces
    <3>4. ASSUME NEW k \in 1 .. 11
          PROVE  y[k] \in SameClass(s[k])
      <4>1. CASE k \in {4, 7}
        <5>1. s[k] = Dash /\ y[k] = Dash /\ Dash \in Nat
          BY <3>1, <3>3, <4>1 DEF DashedFrom, Dash
        <5>. QED
          BY <5>1, ClassOf
      <4>2. CASE k \notin {4, 7}
        <5>1. s[k] \in Digits /\ s[k] \in Nat
          <6>1. s[k] \in Digits
            BY <3>1, <4>2
          <6>. QED
            BY <6>1 DEF Digits
        <5>2. \A i \in 1 .. 9 : e[i] \in Digits
          BY <2>2, Elements
        <5>3. y[k] \in Digits
          <6>1. CASE k \in 1 .. 3
            BY <3>3, <5>2, <6>1, SMTT(30) DEF DashedFrom
          <6>2. CASE k \in 5 .. 6
            <7>1. k - 4 \in 1 .. 2 /\ 4 + (k - 4) = k /\ 3 + (k - 4) \in 1 .. 9
              BY <6>2
            <7>. QED
              BY <3>3, <5>2, <7>1 DEF DashedFrom
          <6>3. CASE k \in 8 .. 11
            <7>1. k - 7 \in 1 .. 4 /\ 7 + (k - 7) = k /\ 5 + (k - 7) \in 1 .. 9
              BY <6>3
            <7>. QED
              BY <3>3, <5>2, <7>1 DEF DashedFrom
          <6>4. k \in 1 .. 3 \/ k \in 5 .. 6 \/ k \in 8 .. 11
            BY <4>2
          <6>. QED
            BY <6>1, <6>2, <6>3, <6>4
        <5>. QED
          BY <5>1, <5>3, ClassOf
      <4>. QED
        BY <4>1, <4>2
    <3>. QED
      BY <3>1, <3>2, <3>3, <3>4 DEF SameFormat, DashedFrom
  <2>. QED
    BY <1>3, <2>3, <2>4
<1>4. CASE ~IsTckn(p, s) /\ ~IsSsn(p, s)
  <2>1. NationalId(p, s) = InPlaceEncrypted("fpe", 0, 10, 10, s)
    BY <1>1, <1>4, NationalIdCases
  <2>2. PICK r \in Nat \ {0} : r = 10 /\ 0 .. r - 1 = Digits
    BY TenDigits
  <2>3. "fpe" \in Keys /\ 0 \in Nat /\ 10 \in Int
    BY DEF Keys
  <2>4. PutBack(s, 0 .. r - 1, Encrypt("fpe", 0, r, 10, Inside(s, 0 .. r - 1)),
                InPlaceEncrypted("fpe", 0, r, 10, s))
    BY <2>3, InPlaceEncryptedPlaces
  <2>. QED
    BY <2>1, <2>2, <2>4, PutBackFormat
<1>. QED
  BY <1>2, <1>3, <1>4

(* Social security numbers are not confused. *)
LEMMA NationalIdInjective ==
  ASSUME HmacNatural, NEW p, NEW s \in Seq(Nat), NEW t \in Seq(Nat),
         ~IsTckn(p, s), ~IsTckn(p, t), IsSsn(p, s), IsSsn(p, t),
         Bare(s) \/ DashedSsn(s), Bare(t) \/ DashedSsn(t), NationalId(p, s) = NationalId(p, t)
  PROVE  s = t
<1>1. PICK d \in Seq(Digits) : d = DigitsOf(s)
  BY TenDigits
<1>2. PICK c \in Seq(Digits) : c = DigitsOf(t)
  BY TenDigits
<1>3. Len(d) = 9 /\ Len(c) = 9 /\ Len(d) >= 9 /\ Len(c) >= 9
  <2>1. Len(d) = 9 /\ Len(c) = 9
    BY <1>1, <1>2 DEF IsSsn
  <2>2. 9 >= 9
    OBVIOUS
  <2>. QED
    BY <2>1, <2>2
<1>4. PICK e \in Seq(Digits) : e = Nine(d) /\ Len(e) = 9
  BY <1>3, NineDigits
<1>5. PICK f \in Seq(Digits) : f = Nine(c) /\ Len(f) = 9
  BY <1>3, NineDigits
<1>6. e = f => d = c
  BY <1>3, <1>4, <1>5, NineDigits
<1>7. NationalId(p, s) = IF Dash \in ToSet(s) /\ Len(s) = 11 THEN Dashed(e) ELSE e
  BY <1>1, <1>4, NationalIdCases
<1>8. NationalId(p, t) = IF Dash \in ToSet(t) /\ Len(t) = 11 THEN Dashed(f) ELSE f
  BY <1>2, <1>5, NationalIdCases
<1>9. Len(Dashed(e)) = 11 /\ Len(Dashed(f)) = 11
  BY <1>4, <1>5, DashedPlaces DEF DashedFrom
<1>10. CASE Bare(s) /\ Bare(t)
  BY <1>1, <1>2, <1>6, <1>7, <1>8, <1>10, BareNoDash
<1>11. CASE DashedSsn(s) /\ DashedSsn(t)
  <2>1. PICK v : v = Dashed(e) /\ v = Dashed(f)
    <3>1. Dash \in ToSet(s) /\ Len(s) = 11
      BY <1>11, DashedIsSsn
    <3>2. Dash \in ToSet(t) /\ Len(t) = 11
      BY <1>11, DashedIsSsn
    <3>3. NationalId(p, s) = Dashed(e) /\ NationalId(p, t) = Dashed(f)
      BY <1>7, <1>8, <3>1, <3>2
    <3>. QED
      BY <3>3
  <2>2. ASSUME NEW i \in 1 .. 9
        PROVE  e[i] = f[i]
    <3>0. /\ \A j \in 1 .. 3 : v[j] = e[j]
          /\ \A j \in 1 .. 2 : v[4 + j] = e[3 + j]
          /\ \A j \in 1 .. 4 : v[7 + j] = e[5 + j]
      <4>1. DashedFrom(e, v)
        BY <1>4, <2>1, DashedPlaces
      <4>. QED
        BY <4>1 DEF DashedFrom
    <3>1. /\ \A j \in 1 .. 3 : v[j] = f[j]
          /\ \A j \in 1 .. 2 : v[4 + j] = f[3 + j]
          /\ \A j \in 1 .. 4 : v[7 + j] = f[5 + j]
      <4>1. DashedFrom(f, v)
        BY <1>5, <2>1, DashedPlaces
      <4>. QED
        BY <4>1 DEF DashedFrom
    <3>2. CASE i \in 1 .. 3
      BY <3>0, <3>1, <3>2
    <3>3. CASE i \in 4 .. 5
      <4>1. PICK j \in 1 .. 2 : i = 3 + j
        <5>1. i - 3 \in 1 .. 2 /\ 3 + (i - 3) = i
          BY <3>3
        <5>. QED
          BY <5>1
      <4>. QED
        BY <3>0, <3>1, <4>1
    <3>4. CASE i \in 6 .. 9
      <4>1. PICK j \in 1 .. 4 : i = 5 + j
        <5>1. i - 5 \in 1 .. 4 /\ 5 + (i - 5) = i
          BY <3>4
        <5>. QED
          BY <5>1
      <4>. QED
        BY <3>0, <3>1, <4>1
    <3>. QED
      BY <3>2, <3>3, <3>4
  <2>3. e = f
    BY <1>4, <1>5, <2>2, SameElements
  <2>4. Len(s) = Len(t) /\ Len(t) = 11
    BY <1>11, DashedIsSsn
  <2>5. \A i \in 1 .. 11 : (s[i] \in Digits <=> t[i] \in Digits)
      /\ (s[i] \notin Digits => s[i] = t[i])
    <3>1. Dash \notin Digits
      BY DEF Dash, Digits
    <3>2. /\ s[4] = Dash /\ s[7] = Dash /\ \A i \in 1 .. 11 : i \notin {4, 7} => s[i] \in Digits
          /\ t[4] = Dash /\ t[7] = Dash /\ \A i \in 1 .. 11 : i \notin {4, 7} => t[i] \in Digits
      BY <1>11, DashedIsSsn
    <3>. QED
      BY <3>1, <3>2
  <2>6. Inside(s, Digits) = Inside(t, Digits)
    BY <1>1, <1>2, <1>6, <2>3 DEF DigitsOf
  <2>. QED
    BY <2>4, <2>5, <2>6, InsideDetermines
<1>12. CASE Bare(s) /\ DashedSsn(t)
  <2>1. NationalId(p, s) = e /\ NationalId(p, t) = Dashed(f)
    BY <1>7, <1>8, <1>12, BareNoDash, DashedIsSsn
  <2>2. Len(e) = Len(Dashed(f))
    BY <2>1
  <2>3. 9 # 11
    OBVIOUS
  <2>. QED
    BY <1>4, <1>9, <2>2, <2>3
<1>13. CASE DashedSsn(s) /\ Bare(t)
  <2>1. NationalId(p, s) = Dashed(e) /\ NationalId(p, t) = f
    BY <1>7, <1>8, <1>13, BareNoDash, DashedIsSsn
  <2>2. Len(f) = Len(Dashed(e))
    BY <2>1
  <2>3. 9 # 11
    OBVIOUS
  <2>. QED
    BY <1>5, <1>9, <2>2, <2>3
<1>. QED
  BY <1>10, <1>11, <1>12, <1>13

-----------------------------------------------------------------------------
(* What comes out of a strategy, for the properties of single cells. *)

(* What is stripped is a part of the string. *)
LEMMA StripType ==
  ASSUME NEW s \in Seq(Nat)
  PROVE  Strip(s) \in Seq(Nat) /\ StripLeft(s) \in Seq(Nat)
<1>1. PICK n \in Nat : n = Len(s) /\ DOMAIN s = 1 .. n
  BY LenNatural, SeqFunction
<1>2. \A T \in SUBSET (1 .. n) : Cardinality(T) \in 0 .. n
  <2>1. ASSUME NEW T \in SUBSET (1 .. n)
        PROVE  Cardinality(T) \in 0 .. n
    <3>1. IsFiniteSet(1 .. n) /\ Cardinality(1 .. n) = n
      BY FS_Interval
    <3>2. Cardinality(T) \in Nat /\ Cardinality(T) <= n
      BY <3>1, FS_Subset, FS_CardinalityType
    <3>. QED
      BY <3>2
  <2>. QED
    BY <2>1
<1>3. PICK k \in 0 .. n : k = Leading(s)
  <2>1. {i \in DOMAIN s : \A j \in 1 .. i : s[j] = Space} \in SUBSET (1 .. n)
    BY <1>1
  <2>. QED
    BY <1>2, <2>1 DEF Leading
<1>4. PICK m \in 0 .. n : m = Trailing(s)
  <2>1. {i \in DOMAIN s : \A j \in i .. Len(s) : s[j] = Space} \in SUBSET (1 .. n)
    BY <1>1
  <2>. QED
    BY <1>2, <2>1 DEF Trailing
<1>5. \A i \in k + 1 .. n : s[i] \in Nat
  <2>1. \A i \in k + 1 .. n : i \in 1 .. n
    OBVIOUS
  <2>. QED
    BY <1>1, <2>1, Elements
<1>6. PICK e \in Int : e = n - m /\ e <= n
  OBVIOUS
<1>7. \A i \in k + 1 .. e : s[i] \in Nat
  BY <1>5, <1>6
<1>8. k + 1 \in Int
  OBVIOUS
<1>9. SubSeq(s, k + 1, n) \in Seq(Nat) /\ SubSeq(s, k + 1, e) \in Seq(Nat)
  BY <1>5, <1>6, <1>7, <1>8, SubSeqProperties
<1>. QED
  BY <1>1, <1>3, <1>4, <1>6, <1>9 DEF Strip, StripLeft

LEMMA InputTypes == \A r \in Rules : \A x \in Inputs(r) : x \in Values(r.strategy)
BY ColumnAssumption

LEMMA FpeRule ==
  ASSUME NEW r \in Rules, r.strategy = "fpe"
  PROVE  /\ r.radix \in Nat \ {0, 1} /\ r.rounds \in Int /\ r.preserve \in BOOLEAN
         /\ \A x \in Inputs(r) : x \in Seq(Nat) /\ Outcomes(r, x) = {Fpe(r, x)}
<1>1. Values("fpe") = Seq(Nat)
  BY DEF Values
<1>. QED
  BY <1>1, InputTypes, ColumnAssumption DEF Outcomes

LEMMA CardRule ==
  ASSUME NEW r \in Rules, r.strategy = "fpe_credit_card"
  PROVE  /\ r.prefix \in Int /\ r.suffix \in Int /\ r.luhn \in BOOLEAN /\ r.delimiters \in BOOLEAN
         /\ \A x \in Inputs(r) : x \in Seq(Nat) /\ Outcomes(r, x) = {FpeCard(r, x)}
<1>1. Values("fpe_credit_card") = Seq(Nat)
  BY DEF Values
<1>. QED
  BY <1>1, InputTypes, ColumnAssumption DEF Outcomes

LEMMA PhoneRule ==
  ASSUME NEW r \in Rules, r.strategy = "fpe_phone"
  PROVE  /\ r.digits \in Int /\ r.country \in BOOLEAN
         /\ \A x \in Inputs(r) : x \in Seq(Nat) /\ Outcomes(r, x) = {FpePhone(r, x)}
<1>1. Values("fpe_phone") = Seq(Nat)
  BY DEF Values
<1>. QED
  BY <1>1, InputTypes, ColumnAssumption DEF Outcomes

LEMMA NationalIdRule ==
  ASSUME NEW r \in Rules, r.strategy = "fpe_national_id"
  PROVE  /\ r.validate \in BOOLEAN
         /\ \A x \in Inputs(r) :
              Strip(x) \in Seq(Nat) /\ Outcomes(r, x) = {NationalId(r, Strip(x))}
<1>1. Values("fpe_national_id") = Seq(Nat)
  BY DEF Values
<1>2. \A x \in Inputs(r) : x \in Seq(Nat) /\ Strip(x) \in Seq(Nat)
  BY <1>1, InputTypes, StripType
<1>. QED
  BY <1>2, ColumnAssumption DEF Outcomes, FpeNationalId

LEMMA ScrambleRule ==
  ASSUME NEW r \in Rules, r.strategy = "scramble"
  PROVE  \A x \in Inputs(r) : x \in Seq(Nat) /\ \A y \in Outcomes(r, x) : SameFormat(x, y)
<1>1. Values("scramble") = Seq(Nat)
  BY DEF Values
<1>2. ASSUME NEW x \in Inputs(r), NEW y \in Outcomes(r, x)
      PROVE  SameFormat(x, y)
  <2>1. x \in Seq(Nat)
    BY <1>1, InputTypes
  <2>2. PICK n \in Nat : n = Len(x) /\ DOMAIN x = 1 .. n
    BY <2>1, LenNatural
  <2>3. /\ y \in [1 .. n -> UNION {SameClass(x[i]) : i \in 1 .. n}]
        /\ \A i \in 1 .. n : y[i] \in SameClass(x[i])
    BY <2>2 DEF Outcomes
  <2>4. \A i \in 1 .. n : y[i] \in Nat
    <3>1. \A i \in 1 .. n : x[i] \in Nat
      BY <2>1, <2>2, Elements
    <3>. QED
      BY <2>3, <3>1, ClassOf
  <2>5. y \in [1 .. n -> Nat]
    BY <2>3, <2>4
  <2>6. y \in Seq(Nat) /\ Len(y) = n
    BY <2>5, IsSequence
  <2>. QED
    BY <2>2, <2>3, <2>6 DEF SameFormat
<1>. QED
  BY <1>1, <1>2, InputTypes

(* Two values of a column that a reversible strategy masks alike are the same. *)
LEMMA OutcomesOneToOne ==
  ASSUME HmacNatural, NEW r \in Rules, NEW x \in Inputs(r), NEW z \in Inputs(r), NEW y,
         y \in Outcomes(r, x), y \in Outcomes(r, z),
         Reversible(r, Taken(r, x)), Reversible(r, Taken(r, z))
  PROVE  Taken(r, x) = Taken(r, z)
<1>0. r.strategy # "fpe_national_id" =>
        /\ Taken(r, x) = x /\ Taken(r, z) = z
        /\ Reversible(r, x) /\ Reversible(r, z)
  BY DEF Taken
<1>1. CASE r.strategy = "fpe"
  <2>1. /\ x \in Seq(Nat) /\ z \in Seq(Nat) /\ y = Fpe(r, x) /\ y = Fpe(r, z)
        /\ r.radix \in Nat \ {0} /\ r.rounds \in Int /\ r.preserve \in BOOLEAN
    BY <1>1, FpeRule
  <2>2. PICK radix \in Nat \ {0} : radix = r.radix
    BY <2>1
  <2>3. PICK rounds \in Int : rounds = r.rounds
    BY <2>1
  <2>4. /\ EvenlySplit(r, x) /\ (r.preserve \/ \A i \in DOMAIN x : x[i] < r.radix)
        /\ EvenlySplit(r, z) /\ (r.preserve \/ \A i \in DOMAIN z : z[i] < r.radix)
    BY <1>0, <1>1 DEF Reversible
  <2>5. "fpe" \in Keys /\ 0 \in Nat
    BY DEF Keys
  <2>6. SplitsEvenly(radix, rounds, x)
    BY <2>2, <2>3, <2>4 DEF EvenlySplit, SplitsEvenly
  <2>7. CASE r.preserve
    <3>1. InPlaceEncrypted("fpe", 0, radix, rounds, x)
        = InPlaceEncrypted("fpe", 0, radix, rounds, z)
      BY <2>1, <2>2, <2>3, <2>7, FpeInPlace, ZenonT(40)
    <3>. QED
      BY <1>0, <1>1, <2>1, <2>5, <2>6, <3>1, InPlaceEncryptedInjective
  <2>8. CASE ~r.preserve
    <3>1. (\A i \in 1 .. Len(x) : x[i] < r.radix) /\ \A i \in 1 .. Len(z) : z[i] < r.radix
      BY <2>1, <2>4, <2>8, SeqFunction
    <3>2. /\ y = Encrypt("fpe", 0, radix, rounds, x) /\ x \in Seq(0 .. radix - 1)
          /\ Inside(x, 0 .. radix - 1) = x
      BY <2>1, <2>2, <2>3, <2>8, <3>1, FpeInPlace
    <3>3. y = Encrypt("fpe", 0, radix, rounds, z) /\ z \in Seq(0 .. radix - 1)
      BY <2>1, <2>2, <2>3, <2>8, <3>1, FpeInPlace
    <3>4. Len(y) = Len(x) /\ Len(y) = Len(z)
      BY <2>5, <3>2, <3>3, EncryptDigits
    <3>5. Len(x) # 1 /\ (Len(x) % 2 = 0 \/ Max({4, rounds}) % 2 = 0)
      BY <2>6, <3>2 DEF SplitsEvenly
    <3>. QED
      BY <1>0, <1>1, <2>5, <3>2, <3>3, <3>4, <3>5, EncryptInjective
  <2>. QED
    BY <2>7, <2>8
<1>2. CASE r.strategy = "fpe_credit_card"
  <2>1. /\ x \in Seq(Nat) /\ z \in Seq(Nat) /\ y = FpeCard(r, x) /\ y = FpeCard(r, z)
        /\ r.prefix \in Int /\ r.suffix \in Int /\ r.luhn \in BOOLEAN /\ r.delimiters \in BOOLEAN
    BY <1>2, CardRule
  <2>2. /\ Len(DigitsOf(x)) >= 12 /\ Len(DigitsOf(z)) >= 12 /\ r.delimiters
        /\ r.luhn => ValidLuhn(x) /\ ValidLuhn(z)
    BY <1>0, <1>2 DEF Reversible
  <2>. QED
    BY <1>0, <1>2, <2>1, <2>2, FpeCardInjective
<1>3. CASE r.strategy = "fpe_phone"
  <2>1. /\ x \in Seq(Nat) /\ z \in Seq(Nat) /\ y = FpePhone(r, x) /\ y = FpePhone(r, z)
        /\ r.digits \in Int /\ r.country \in BOOLEAN
    BY <1>3, PhoneRule
  <2>2. FpePhone(r, x) = FpePhone(r, z)
    BY <2>1
  <2>3. r.country \in BOOLEAN /\ r.digits \in Int /\ x \in Seq(Nat) /\ z \in Seq(Nat)
    BY <2>1
  <2>. QED
    BY <1>0, <1>3, <2>2, <2>3, FpePhoneInjective
<1>4. CASE r.strategy = "fpe_national_id"
  <2>1. PICK u \in Seq(Nat) : u = Taken(r, x) /\ y = NationalId(r, u)
    BY <1>4, NationalIdRule DEF Taken
  <2>2. PICK v \in Seq(Nat) : v = Taken(r, z) /\ y = NationalId(r, v)
    BY <1>4, NationalIdRule DEF Taken
  <2>3. /\ ~IsTckn(r, u) /\ IsSsn(r, u) /\ (Bare(u) \/ DashedSsn(u))
        /\ ~IsTckn(r, v) /\ IsSsn(r, v) /\ (Bare(v) \/ DashedSsn(v))
    BY <1>4, <2>1, <2>2 DEF Reversible
  <2>. QED
    BY <2>1, <2>2, <2>3, NationalIdInjective
<1>5. r.strategy \in {"fpe", "fpe_credit_card", "fpe_phone", "fpe_national_id"}
  BY DEF Reversible
<1>. QED
  BY <1>1, <1>2, <1>3, <1>4, <1>5

(* The check digits are right. *)
LEMMA OutcomesValid ==
  ASSUME HmacNatural, NEW r \in Rules, NEW x \in Inputs(r), NEW y \in Outcomes(r, x), NEW v, v = Taken(r, x)
  PROVE  /\ r.strategy = "fpe_credit_card" => 
              (r.luhn /\ Len(DigitsOf(v)) \in 12 .. 19 => ValidLuhn(y))
         /\ r.strategy = "fpe_national_id" => (r.validate /\ IsTckn(r, v) => ValidTckn(y))
         /\ r.strategy = "tckn" => ValidTckn(y)
<1>1. ASSUME r.strategy = "fpe_credit_card", r.luhn, Len(DigitsOf(x)) \in 12 .. 19
      PROVE  ValidLuhn(y)
  <2>1. /\ x \in Seq(Nat) /\ y = FpeCard(r, x)
        /\ r.prefix \in Int /\ r.suffix \in Int /\ r.luhn \in BOOLEAN /\ r.delimiters \in BOOLEAN
    BY <1>1, CardRule
  <2>2. PICK d \in Seq(Digits) : d = DigitsOf(x) /\ Len(d) \in 12 .. 19 /\ Len(d) >= 12
    <3>1. DigitsOf(x) \in Seq(Digits)
      BY <2>1, TenDigits
    <3>2. PICK n \in 12 .. 19 : n = Len(DigitsOf(x))
      BY <1>1
    <3>3. n >= 12
      OBVIOUS
    <3>. QED
      BY <3>1, <3>2, <3>3
  <2>3. PICK f \in Seq(Digits) : f = CardFinal(r, d) /\ Len(f) = Len(d) /\ LuhnSum(f) % 10 = 0
    <3>1. CardFinal(r, d) \in Seq(Digits) /\ Len(CardFinal(r, d)) = Len(d)
          /\ LuhnSum(CardFinal(r, d)) % 10 = 0
      BY <1>1, <2>1, <2>2, CardFinalDigits
    <3>. QED
      BY <3>1
  <2>4. DigitsOf(y) = f
    <3>1. CASE r.delimiters
      <4>1. PutBack(x, Digits, f, y)
        BY <2>1, <2>2, <2>3, <3>1, CardPutBack
      <4>. QED
        BY <4>1 DEF PutBack, DigitsOf
    <3>2. CASE ~r.delimiters
      <4>1. y = f
        BY <2>1, <2>2, <2>3, <3>2, FpeCardFinal
      <4>. QED
        BY <4>1, AllDigits
    <3>. QED
      BY <3>1, <3>2
  <2>5. Len(f) \in 8 .. 19
    <3>1. PICK n \in 12 .. 19 : n = Len(d)
      BY <2>2
    <3>2. n \in 8 .. 19
      OBVIOUS
    <3>. QED
      BY <2>3, <3>1, <3>2
  <2>. QED
    BY <2>3, <2>4, <2>5 DEF ValidLuhn
<1>2. ASSUME r.strategy = "fpe_national_id", r.validate, IsTckn(r, v)
      PROVE  ValidTckn(y)
  <2>1. v \in Seq(Nat) /\ y = NationalId(r, v)
    BY <1>2, NationalIdRule DEF Taken
  <2>. QED
    BY <1>2, <2>1, NationalIdValid
<1>3. ASSUME r.strategy = "tckn"
      PROVE  ValidTckn(y)
  <2>1. r.rest \in [1 .. 8 -> Digits]
    BY <1>3, ColumnAssumption
  <2>2. PICK e \in Seq(Digits) : e = r.rest /\ Len(e) = 8
    BY <2>1, IsSequence
  <2>3. PICK a \in 1 .. 9 : y = DrawnTckn(<<a>> \o e)
    BY <1>3, <2>2 DEF Outcomes
  <2>4. a \in Digits /\ a # 0
    BY DEF Digits
  <2>5. PICK b \in Seq(Digits) : b = <<a>> /\ Len(b) = 1 /\ b[1] = a
    <3>1. <<a>> \in Seq(Digits) /\ Len(<<a>>) = 1 /\ <<a>>[1] = a
      BY <2>4
    <3>. QED
      BY <3>1
  <2>6. PICK d \in Seq(Digits) : d = b \o e /\ Len(d) = 9 /\ d[1] # 0
    <3>1. PICK d : d = b \o e
      OBVIOUS
    <3>2. Joined(Digits, b, e, d)
      BY <3>1, ConcatJoined
    <3>3. Len(b) = 1 /\ Len(e) = 8 /\ b[1] # 0
      BY <2>2, <2>4, <2>5
    <3>4. d \in Seq(Digits) /\ Len(d) = 9 /\ d[1] = b[1]
      BY <3>2, <3>3 DEF Joined
    <3>. QED
      BY <3>1, <3>3, <3>4
  <2>7. ValidTckn(d \o TcknDigits(d))
    BY <2>6, TcknValid
  <2>. QED
    BY <2>3, <2>5, <2>6, <2>7 DEF DrawnTckn
<1>4. r.strategy = "fpe_credit_card" => v = x
  BY DEF Taken
<1>. QED
  BY <1>1, <1>2, <1>3, <1>4

LEMMA SameStart ==
  ASSUME NEW S, NEW s \in Seq(S), NEW t \in Seq(S), NEW n \in Nat, n <= Len(s), n <= Len(t),
         \A i \in 1 .. n : s[i] = t[i]
  PROVE  SubSeq(s, 1, n) = SubSeq(t, 1, n)
<1>1. PICK v \in Seq(S) : v = SubSeq(s, 1, n) /\ Starts(v, s, n)
  BY FirstPart
<1>2. PICK w \in Seq(S) : w = SubSeq(t, 1, n) /\ Starts(w, t, n)
  BY FirstPart
<1>3. Len(v) = Len(w) /\ \A i \in 1 .. Len(w) : v[i] = w[i]
  BY <1>1, <1>2 DEF Starts
<1>4. v = w
  BY <1>3, SameElements
<1>. QED
  BY <1>1, <1>2, <1>4

LEMMA NoneKept == \A s, t : SubSeq(s, 1, 0) = SubSeq(t, 1, 0)
<1>1. ASSUME NEW s
      PROVE  SubSeq(s, 1, 0) = <<>>
  OBVIOUS
<1>. QED
  BY <1>1

(* Punctuation and what is kept stay where they are. *)
Formatted(r, x, y) ==
  /\ x \in Seq(Nat) /\ Len(y) = Len(x)
  /\ r.strategy # "fpe" => \A k \in 1 .. Len(x) : y[k] \in SameClass(x[k])
  /\ r.strategy = "fpe" =>
       \A k \in 1 .. Len(x) : IF x[k] < r.radix THEN y[k] \in 0 .. (r.radix - 1)
                                                 ELSE y[k] = x[k]
  /\ SubSeq(DigitsOf(y), 1, KeptPrefix(r, x)) = SubSeq(DigitsOf(x), 1, KeptPrefix(r, x))

LEMMA OutcomesFormat ==
  ASSUME HmacNatural, NEW r \in Rules, NEW x \in Inputs(r), NEW y \in Outcomes(r, x), NEW v,
         v = Taken(r, x), InPlace(r, v)
  PROVE  Formatted(r, v, y)
<1>0. r.strategy # "fpe_national_id" => v = x
  BY DEF Taken
<1>1. CASE r.strategy = "fpe"
  <2>1. /\ x \in Seq(Nat) /\ y = Fpe(r, x) /\ r.preserve
        /\ r.radix \in Nat \ {0} /\ r.rounds \in Int
    BY <1>1, <1>0, FpeRule DEF InPlace
  <2>2. PICK radix \in Nat \ {0} : radix = r.radix
    BY <2>1
  <2>3. PICK rounds \in Int : rounds = r.rounds
    BY <2>1
  <2>4. "fpe" \in Keys /\ 0 \in Nat
    BY DEF Keys
  <2>5. y = InPlaceEncrypted("fpe", 0, radix, rounds, x)
    BY <2>1, <2>2, <2>3, FpeInPlace
  <2>6. PICK t : PutBack(x, 0 .. radix - 1, t, y)
    BY <2>1, <2>4, <2>5, InPlaceEncryptedPlaces
  <2>7. ASSUME NEW k \in 1 .. Len(x)
        PROVE  IF x[k] < radix THEN y[k] \in 0 .. (radix - 1) ELSE y[k] = x[k]
    <3>1. x[k] \in Nat
      BY <2>1, Elements
    <3>2. IF x[k] \in 0 .. radix - 1 THEN y[k] \in 0 .. radix - 1 ELSE y[k] = x[k]
      BY <2>6 DEF PutBack
    <3>. QED
      BY <3>1, <3>2
  <2>8. KeptPrefix(r, x) = 0
    BY <1>1 DEF KeptPrefix
  <2>9. Len(y) = Len(x)
    BY <2>6 DEF PutBack
  <2>. QED
    BY <1>0, <1>1, <2>1, <2>2, <2>7, <2>8, <2>9, NoneKept DEF Formatted
<1>2. CASE r.strategy = "fpe_credit_card"
  <2>1. /\ x \in Seq(Nat) /\ y = FpeCard(r, x)
        /\ r.prefix \in Int /\ r.suffix \in Int /\ r.luhn \in BOOLEAN /\ r.delimiters \in BOOLEAN
    BY <1>2, CardRule
  <2>2. PICK d \in Seq(Digits) : d = DigitsOf(x)
    BY <2>1, TenDigits
  <2>3. PICK n \in Nat : n = Len(d)
    BY LenNatural
  <2>4. CASE n < 12
    <3>1. y = InPlaceEncrypted("fpe", 0, 10, 10, x)
      BY <2>1, <2>2, <2>3, <2>4, FpeCardFinal
    <3>2. PICK radix \in Nat \ {0} : radix = 10 /\ 0 .. radix - 1 = Digits
      BY TenDigits
    <3>3. "fpe" \in Keys /\ 0 \in Nat /\ 10 \in Int
      BY DEF Keys
    <3>4. PutBack(x, 0 .. radix - 1, Encrypt("fpe", 0, radix, 10, Inside(x, 0 .. radix - 1)),
                  InPlaceEncrypted("fpe", 0, radix, 10, x))
      BY <2>1, <3>3, InPlaceEncryptedPlaces
    <3>5. SameFormat(x, y)
      BY <2>1, <3>1, <3>2, <3>4, PutBackFormat
    <3>6. KeptPrefix(r, x) = 0
      BY <1>2, <2>2, <2>3, <2>4 DEF KeptPrefix
    <3>. QED
      BY <1>0, <1>2, <2>1, <3>5, <3>6, NoneKept DEF SameFormat, Formatted
  <2>5. CASE ~(n < 12)
    <3>1. n >= 12 /\ r.delimiters
      BY <1>2, <1>0, <2>2, <2>3, <2>5 DEF InPlace
    <3>2. PutBack(x, Digits, CardFinal(r, d), y)
      BY <2>1, <2>2, <2>3, <3>1, CardPutBack
    <3>3. SameFormat(x, y) /\ DigitsOf(y) = CardFinal(r, d)
      BY <2>1, <3>2, PutBackFormat
    <3>4. PICK prefix \in 1 .. n - 6 : prefix = CardPrefix(r, n)
      BY <2>1, <3>1, CardParts
    <3>5. KeptPrefix(r, x) = prefix
      BY <1>2, <2>2, <2>3, <3>1, <3>4 DEF KeptPrefix
    <3>6. PICK f \in Seq(Digits) : /\ f = CardFinal(r, d) /\ Len(f) = n
                                   /\ \A i \in 1 .. prefix : f[i] = d[i]
      <4>1. /\ CardFinal(r, d) \in Seq(Digits) /\ Len(CardFinal(r, d)) = Len(d)
            /\ \A i \in 1 .. CardPrefix(r, Len(d)) : CardFinal(r, d)[i] = d[i]
        BY <2>1, <2>3, <3>1, CardFinalDigits
      <4>. QED
        BY <2>3, <3>4, <4>1
    <3>7. prefix \in Nat /\ prefix <= Len(f) /\ prefix <= Len(d)
      BY <2>3, <3>1, <3>6
    <3>8. SubSeq(f, 1, prefix) = SubSeq(d, 1, prefix)
      BY <3>6, <3>7, SameStart
    <3>. QED
      BY <1>0, <1>2, <2>1, <2>2, <3>3, <3>5, <3>6, <3>8 DEF SameFormat, Formatted
  <2>. QED
    BY <2>4, <2>5
<1>3. CASE r.strategy = "fpe_phone"
  <2>1. /\ x \in Seq(Nat) /\ y = FpePhone(r, x) /\ r.digits \in Int /\ r.country \in BOOLEAN
    BY <1>3, PhoneRule
  <2>2. PICK d \in Seq(Digits) : d = DigitsOf(x)
    BY <2>1, TenDigits
  <2>3. PICK n \in Nat : n = Len(d)
    BY LenNatural
  <2>4. CASE n < 4
    <3>1. y = x
      BY <2>1, <2>2, <2>3, <2>4 DEF FpePhone
    <3>2. SameFormat(x, y)
      BY <2>1, <3>1, SameItself
    <3>. QED
      BY <1>0, <1>3, <2>1, <3>1, <3>2 DEF SameFormat, Formatted
  <2>5. CASE ~(n < 4)
    <3>1. n >= 4
      BY <2>5
    <3>2. /\ PutBack(x, Digits, PhoneFinal(r, x), y)
          /\ PhoneFinal(r, x) \in Seq(Digits) /\ Len(PhoneFinal(r, x)) = Len(d)
          /\ \A i \in 1 .. PhonePrefix(r, x) : PhoneFinal(r, x)[i] = d[i]
      <4>1. Len(DigitsOf(x)) >= 4
        BY <2>2, <2>3, <3>1
      <4>2. /\ PutBack(x, Digits, PhoneFinal(r, x), FpePhone(r, x))
            /\ PhoneFinal(r, x) \in Seq(Digits)
            /\ Len(PhoneFinal(r, x)) = Len(DigitsOf(x))
            /\ \A i \in 1 .. PhonePrefix(r, x) : PhoneFinal(r, x)[i] = DigitsOf(x)[i]
        BY <2>1, <4>1, PhonePutBack
      <4>. QED
        BY <2>1, <2>2, <4>2, Zenon
    <3>3. SameFormat(x, y) /\ DigitsOf(y) = PhoneFinal(r, x)
      BY <2>1, <3>2, PutBackFormat
    <3>4. PICK prefix \in 0 .. n - 2 : prefix = PhonePrefix(r, x)
      BY <2>1, <2>2, <2>3, <3>1, PhonePrefixFits
    <3>5. KeptPrefix(r, x) = prefix
      BY <1>3, <2>2, <2>3, <3>1, <3>4 DEF KeptPrefix
    <3>6. PICK f \in Seq(Digits) : f = PhoneFinal(r, x)
      BY <3>2
    <3>7. prefix \in Nat /\ prefix <= Len(f) /\ prefix <= Len(d)
        /\ \A i \in 1 .. prefix : f[i] = d[i]
      BY <2>3, <3>2, <3>4, <3>6
    <3>8. SubSeq(f, 1, prefix) = SubSeq(d, 1, prefix)
      BY <3>6, <3>7, SameStart
    <3>. QED
      BY <1>0, <1>3, <2>1, <2>2, <3>3, <3>5, <3>6, <3>8 DEF SameFormat, Formatted
  <2>. QED
    BY <2>4, <2>5
<1>4. CASE r.strategy = "fpe_national_id"
  <2>1. v \in Seq(Nat) /\ y = NationalId(r, v) /\ r.validate \in BOOLEAN
    BY <1>4, NationalIdRule DEF Taken
  <2>0. (CASE IsTckn(r, v) -> Bare(v)
           [] IsSsn(r, v)  -> Bare(v) \/ DashedSsn(v)
           [] OTHER        -> TRUE)
    BY <1>4 DEF InPlace
  <2>2. IsTckn(r, v) => Bare(v)
    <3>1. IsTckn(r, v) => ~IsSsn(r, v)
      BY DEF IsTckn, IsSsn
    <3>. QED
      BY <2>0, <3>1
  <2>3. ~IsTckn(r, v) /\ IsSsn(r, v) => Bare(v) \/ DashedSsn(v)
    BY <2>0
  <2>4. SameFormat(v, y)
    BY <2>1, <2>2, <2>3, NationalIdFormat
  <2>5. KeptPrefix(r, v) = 0
    BY <1>4 DEF KeptPrefix
  <2>. QED
    BY <1>4, <2>1, <2>4, <2>5, NoneKept DEF SameFormat, Formatted
<1>5. CASE r.strategy = "scramble"
  <2>1. x \in Seq(Nat) /\ SameFormat(x, y)
    BY <1>5, ScrambleRule
  <2>2. KeptPrefix(r, x) = 0
    BY <1>5 DEF KeptPrefix
  <2>. QED
    BY <1>0, <1>5, <2>1, <2>2, NoneKept DEF SameFormat, Formatted
<1>6. r.strategy \in {"fpe", "fpe_credit_card", "fpe_phone", "fpe_national_id", "scramble"}
  BY DEF InPlace
<1>. QED
  BY <1>1, <1>2, <1>3, <1>4, <1>5, <1>6

-----------------------------------------------------------------------------
(* Numbers and dates. *)

LEMMA RoundedUnits ==
  \A y, m \in Int, step \in {2, 4} : m % 4 = 0 =>
    /\ RoundToStep(y, step) \in Int
    /\ m <= y => m <= RoundToStep(y, step)
    /\ y <= m => RoundToStep(y, step) <= m
<1>1. ASSUME NEW y \in Int, NEW m \in Int, m % 4 = 0
      PROVE  /\ RoundToStep(y, 4) \in Int
             /\ m <= y => m <= RoundToStep(y, 4)
             /\ y <= m => RoundToStep(y, 4) <= m
  <2>1. PICK q \in Int, c \in 0 .. 4 - 1 :
          /\ y = 4 * q + c
          /\ 2 * c < 4 => RoundToStep(y, 4) = 4 * q
          /\ 2 * c > 4 => RoundToStep(y, 4) = 4 * (q + 1)
          /\ 2 * c = 4 => RoundToStep(y, 4) = 4 * (q + (q % 2))
    <3>1. PICK step \in Nat \ {0} : step = 4
      OBVIOUS
    <3>. QED
      BY <3>1, Rounded
  <2>2. PICK k \in Int : m = 4 * k
    BY <1>1
  <2>3. PICK e \in 0 .. 1 : e = q % 2
    OBVIOUS
  <2>. QED
    BY <2>1, <2>2, <2>3
<1>2. ASSUME NEW y \in Int, NEW m \in Int, m % 4 = 0
      PROVE  /\ RoundToStep(y, 2) \in Int
             /\ m <= y => m <= RoundToStep(y, 2)
             /\ y <= m => RoundToStep(y, 2) <= m
  <2>1. PICK q \in Int, c \in 0 .. 2 - 1 :
          /\ y = 2 * q + c
          /\ 2 * c < 2 => RoundToStep(y, 2) = 2 * q
          /\ 2 * c > 2 => RoundToStep(y, 2) = 2 * (q + 1)
          /\ 2 * c = 2 => RoundToStep(y, 2) = 2 * (q + (q % 2))
    <3>1. PICK step \in Nat \ {0} : step = 2
      OBVIOUS
    <3>. QED
      BY <3>1, Rounded
  <2>2. PICK k \in Int : m = 4 * k
    BY <1>2
  <2>3. PICK e \in 0 .. 1 : e = q % 2
    OBVIOUS
  <2>. QED
    BY <2>1, <2>2, <2>3
<1>. QED
  BY <1>1, <1>2

(* Rounding keeps a bound that is whole. *)
LEMMA PreciseWithin ==
  ASSUME NEW p, p.decimals \in {None, 0, 1}, p.asInteger \in BOOLEAN, NEW x, x.int \in BOOLEAN,
         NEW y \in Int, NEW m \in Int, m % 4 = 0
  PROVE  /\ m <= y => m <= Precise(p, x, y)
         /\ y <= m => Precise(p, x, y) <= m
<1>1. CASE p.asInteger \/ (x.int /\ p.decimals = None)
  <2>1. Precise(p, x, y) = RoundToStep(y, 4)
    BY <1>1 DEF Precise, Unit
  <2>. QED
    BY <2>1, RoundedUnits
<1>2. CASE ~p.asInteger /\ p.decimals # None
  <2>1. Precise(p, x, y) = RoundToStep(y, IF p.decimals = 0 THEN 4 ELSE 4 \div 2)
    BY <1>2 DEF Precise, Unit
  <2>2. 4 \div 2 = 2
    OBVIOUS
  <2>. QED
    BY <2>1, <2>2, RoundedUnits
<1>3. CASE ~p.asInteger /\ p.decimals = None /\ ~x.int
  <2>1. Precise(p, x, y) = y
    BY <1>3 DEF Precise
  <2>. QED
    BY <2>1
<1>. QED
  BY <1>1, <1>2, <1>3

LEMMA ClampWithin ==
  ASSUME NEW low \in Int \cup {None}, NEW high \in Int \cup {None}, NEW x \in Int, None \notin Int
  PROVE  /\ Clamp(low, high, x) \in Int
         /\ low # None /\ InOrder(low, high) => low <= Clamp(low, high, x)
         /\ high # None => Clamp(low, high, x) <= high
<1>1. PICK y \in Int : y = (IF low = None THEN x ELSE Max({low, x})) /\ (low # None => low <= y)
  <2>1. low # None => Max({low, x}) \in Int /\ low <= Max({low, x})
    <3>1. ASSUME low # None
          PROVE  Max({low, x}) \in Int /\ low <= Max({low, x})
      <4>1. PICK k \in Int : k = low
        BY <3>1
      <4>. QED
        BY <4>1, MaxOfTwo
    <3>. QED
      BY <3>1
  <2>. QED
    BY <2>1
<1>2. CASE high = None
  BY <1>1, <1>2 DEF Clamp, InOrder
<1>3. CASE high # None
  <2>1. PICK k \in Int : k = high
    BY <1>3
  <2>2. Min({k, y}) = IF k <= y THEN k ELSE y
    BY MaxOfTwo
  <2>3. Clamp(low, high, x) = Min({k, y})
    BY <1>1, <1>3, <2>1 DEF Clamp
  <2>. QED
    BY <1>1, <1>3, <2>1, <2>2, <2>3 DEF InOrder
<1>. QED
  BY <1>2, <1>3

(* Clamped to the bounds and then rounded. *)
LEMMA ClampedWithin ==
  ASSUME NEW p, p.decimals \in {None, 0, 1}, p.asInteger \in BOOLEAN, NEW x, x.int \in BOOLEAN,
         NEW low \in Int \cup {None}, NEW high \in Int \cup {None}, NEW y \in Int, None \notin Int
  PROVE  /\ Whole(low) /\ InOrder(low, high) => AtLeast(low, Precise(p, x, Clamp(low, high, y)))
         /\ Whole(high) => AtMost(high, Precise(p, x, Clamp(low, high, y)))
<1>1. PICK v \in Int : /\ v = Clamp(low, high, y)
                       /\ low # None /\ InOrder(low, high) => low <= v
                       /\ high # None => v <= high
  BY ClampWithin
<1>2. ASSUME Whole(low), InOrder(low, high), low # None
      PROVE  low <= Precise(p, x, v)
  <2>1. PICK m \in Int : m = low /\ m % 4 = 0 /\ m <= v
    BY <1>1, <1>2 DEF Whole, Unit
  <2>. QED
    BY <2>1, PreciseWithin
<1>3. ASSUME Whole(high), high # None
      PROVE  Precise(p, x, v) <= high
  <2>1. PICK m \in Int : m = high /\ m % 4 = 0 /\ v <= m
    BY <1>1, <1>3 DEF Whole, Unit
  <2>. QED
    BY <2>1, PreciseWithin
<1>. QED
  BY <1>1, <1>2, <1>3 DEF AtLeast, AtMost

(* Within half a step of where it was. *)
LEMMA RoundedNear ==
  ASSUME NEW y \in Int, NEW step \in Nat \ {0}
  PROVE  /\ RoundToStep(y, step) \in Int
         /\ 2 * (RoundToStep(y, step) - y) \in (-step) .. step
         /\ step % 4 = 0 => RoundToStep(y, step) % 4 = 0
<1>1. PICK q \in Int, c \in 0 .. step - 1 :
        /\ y = step * q + c
        /\ 2 * c < step => RoundToStep(y, step) = step * q
        /\ 2 * c > step => RoundToStep(y, step) = step * (q + 1)
        /\ 2 * c = step => RoundToStep(y, step) = step * (q + (q % 2))
  BY Rounded
<1>2. PICK e \in 0 .. 1 : e = q % 2
  OBVIOUS
<1>3. PICK z \in Int : z = step * q
  <2>1. step \in Int
    OBVIOUS
  <2>. QED
    BY <2>1, ProductOfIntegers
<1>4. step * (q + 1) = z + step /\ step * (q + e) = z + step * e
  <2>1. step \in Int /\ 1 \in Int /\ e \in Int
    OBVIOUS
  <2>2. step * (q + 1) = step * q + step * 1 /\ step * (q + e) = step * q + step * e
    BY <2>1, Distributes
  <2>3. step * 1 = step
    OBVIOUS
  <2>. QED
    BY <1>3, <2>2, <2>3
<1>5. step * e = IF e = 0 THEN 0 ELSE step
  <2>1. step * 0 = 0 /\ step * 1 = step
    OBVIOUS
  <2>2. e = 0 \/ e = 1
    OBVIOUS
  <2>. QED
    BY <2>1, <2>2
<1>6. PICK v \in {0, 1} : /\ RoundToStep(y, step) = z + (IF v = 0 THEN 0 ELSE step)
                          /\ 2 * c < step => v = 0
                          /\ 2 * c > step => v = 1
  <2>1. CASE 2 * c < step
    <3>1. ~(2 * c > step)
      BY <2>1
    <3>2. z + 0 = z
      OBVIOUS
    <3>. QED
      BY <1>1, <1>3, <2>1, <3>1, <3>2
  <2>2. CASE 2 * c > step
    <3>1. ~(2 * c < step)
      BY <2>2
    <3>. QED
      BY <1>1, <1>4, <2>2, <3>1
  <2>3. CASE 2 * c = step
    <3>1. ~(2 * c < step) /\ ~(2 * c > step)
      BY <2>3
    <3>2. RoundToStep(y, step) = z + (IF e = 0 THEN 0 ELSE step)
      BY <1>1, <1>2, <1>4, <1>5, <2>3
    <3>3. e \in {0, 1}
      OBVIOUS
    <3>. QED
      BY <3>1, <3>2, <3>3
  <2>4. 2 * c < step \/ 2 * c > step \/ 2 * c = step
    OBVIOUS
  <2>. QED
    BY <2>1, <2>2, <2>3, <2>4
<1>7. y = z + c
  BY <1>1, <1>3
<1>8. ASSUME step % 4 = 0
      PROVE  RoundToStep(y, step) % 4 = 0
  <2>1. PICK k \in Int : step = 4 * k
    BY <1>8
  <2>2. PICK w \in Int : w = k * q
    BY ProductOfIntegers
  <2>3. z = 4 * w
    BY <1>3, <2>1, <2>2, Associates
  <2>4. (z + 0) % 4 = 0 /\ (z + step) % 4 = 0
    BY <2>1, <2>3
  <2>. QED
    BY <1>6, <2>4
<1>9. 2 * ((z + (IF v = 0 THEN 0 ELSE step)) - (z + c)) \in (-step) .. step
  BY <1>6
<1>. QED
  BY <1>6, <1>7, <1>8, <1>9

(* What is whole is not changed by dropping its fraction. *)
LEMMA WholeTruncated == \A x \in Int : x % 4 = 0 => Truncated(x) = x
<1>1. ASSUME NEW x \in Int, x % 4 = 0
      PROVE  Truncated(x) = x
  <2>1. PICK k \in Int : x = 4 * k
    BY <1>1
  <2>2. x \div 4 = k /\ (-x) \div 4 = -k
    BY <2>1
  <2>. QED
    BY <2>1, <2>2 DEF Truncated, Unit
<1>. QED
  BY <1>1

LEMMA BoundedInputs ==
  ASSUME NEW r \in Rules, NEW x \in Inputs(r),
         r.strategy \in {"jitter", "differential_privacy", "range_random", "round_to"}
  PROVE  x.num \in Int /\ x.int \in BOOLEAN
<1>1. Values(r.strategy) = [num : Int, int : BOOLEAN]
  BY DEF Values
<1>2. x \in Values(r.strategy)
  BY InputTypes
<1>3. x \in [num : Int, int : BOOLEAN]
  BY <1>1, <1>2
<1>. QED
  BY <1>3

(* The least and the greatest of two numbers. *)
LEMMA LeastAndGreatest ==
  ASSUME NEW m \in Int, NEW n \in Int
  PROVE  /\ Min({m, n}) \in Int /\ Min({m, n}) <= m /\ Min({m, n}) <= n
         /\ Max({m, n}) \in Int /\ m <= Max({m, n}) /\ n <= Max({m, n})
<1>1. \E x \in {m, n} : \A y \in {m, n} : x >= y
  OBVIOUS
<1>2. \E x \in {m, n} : \A y \in {m, n} : x =< y
  OBVIOUS
<1>3. Max({m, n}) \in {m, n} /\ \A y \in {m, n} : Max({m, n}) >= y
  BY <1>1 DEF Max
<1>4. Min({m, n}) \in {m, n} /\ \A y \in {m, n} : Min({m, n}) =< y
  BY <1>2 DEF Min
<1>. QED
  BY <1>3, <1>4

(* No noise beyond the bounds. *)
LEMMA OutcomesBounded ==
  ASSUME NEW r \in Rules, NEW x \in Inputs(r), NEW y \in Outcomes(r, x)
  PROVE  /\ r.strategy = "jitter" =>
              /\ Whole(r.min) /\ InOrder(r.min, r.max) => AtLeast(r.min, y.num)
              /\ Whole(r.max) => AtMost(r.max, y.num)
         /\ r.strategy = "range_random" =>
              (Whole(r.min) /\ Whole(r.max) =>
                 y.num \in Min({r.min, r.max}) .. Max({r.min, r.max}))
         /\ r.strategy = "differential_privacy" =>
              /\ Whole(DpLow(r)) /\ InOrder(DpLow(r), DpHigh(r)) => AtLeast(DpLow(r), y.num)
              /\ Whole(DpHigh(r)) => AtMost(DpHigh(r), y.num)
<1>0. None \notin Int
  BY ColumnAssumption
<1>1. CASE r.strategy = "jitter"
  <2>1. /\ r.min \in Int \cup {None} /\ r.max \in Int \cup {None}
        /\ r.decimals \in {None, 0, 1} /\ r.asInteger \in BOOLEAN
    BY <1>1, ColumnAssumption
  <2>2. x.int \in BOOLEAN
    BY <1>1, BoundedInputs
  <2>3. PICK low, high \in Int \cup {None} : low = r.min /\ high = r.max
    BY <2>1
  <2>4. PICK n \in Int : y.num = Precise(r, x, Clamp(low, high, n))
    <3>1. PICK n \in JitterDraws(r, x) : y = Jitter(r, x, n)
      BY <1>1 DEF Outcomes
    <3>2. n \in Int
      BY <3>1 DEF JitterDraws
    <3>. QED
      BY <2>3, <3>1, <3>2 DEF Jitter
  <2>5. /\ Whole(low) /\ InOrder(low, high) => AtLeast(low, Precise(r, x, Clamp(low, high, n)))
        /\ Whole(high) => AtMost(high, Precise(r, x, Clamp(low, high, n)))
    BY <1>0, <2>1, <2>2, ClampedWithin
  <2>. QED
    BY <1>1, <2>3, <2>4, <2>5
<1>2. CASE r.strategy = "range_random"
  <2>1. r.min \in Int /\ r.max \in Int /\ r.asInteger \in BOOLEAN
    BY <1>2, ColumnAssumption
  <2>2. PICK n \in RangeDraws(r) : y = [num |-> n, int |-> r.asInteger]
    BY <1>2 DEF Outcomes
  <2>3. PICK low, high \in Int : low = Min({r.min, r.max}) /\ high = Max({r.min, r.max})
    BY <2>1, LeastAndGreatest
  <2>4. low <= r.min /\ r.max <= high
    BY <2>1, <2>3, LeastAndGreatest
  <2>5. ASSUME Whole(r.min), Whole(r.max)
        PROVE  n \in low .. high
    <3>1. CASE ~r.asInteger
      BY <2>2, <2>3, <3>1 DEF RangeDraws
    <3>2. CASE r.asInteger
      <4>1. PICK i \in (Truncated(r.min) \div 4) .. (Truncated(r.max) \div 4) : n = 4 * i
        BY <2>2, <3>2 DEF RangeDraws, Unit
      <4>2. PICK p, q \in Int : p = r.min /\ q = r.max /\ p % 4 = 0 /\ q % 4 = 0
        BY <1>0, <2>1, <2>5 DEF Whole, Unit
      <4>3. Truncated(p) = p /\ Truncated(q) = q
        BY <4>2, WholeTruncated
      <4>4. p \div 4 <= i /\ i <= q \div 4 /\ i \in Int
        BY <4>1, <4>2, <4>3
      <4>5. p <= 4 * i /\ 4 * i <= q
        BY <4>2, <4>4
      <4>. QED
        BY <2>4, <4>1, <4>2, <4>4, <4>5
    <3>. QED
      BY <3>1, <3>2
  <2>6. y.num = n
    BY <2>2
  <2>. QED
    BY <1>2, <2>3, <2>5, <2>6
<1>3. CASE r.strategy = "differential_privacy"
  <2>1. /\ r.min \in Int \cup {None} /\ r.max \in Int \cup {None}
        /\ r.clipMin \in Int \cup {None} /\ r.clipMax \in Int \cup {None}
        /\ r.decimals \in {None, 0, 1} /\ r.asInteger \in BOOLEAN
    BY <1>3, ColumnAssumption
  <2>2. x.int \in BOOLEAN /\ x.num \in Int
    BY <1>3, BoundedInputs
  <2>3. PICK low, high \in Int \cup {None} : low = DpLow(r) /\ high = DpHigh(r)
    BY <2>1 DEF DpLow, DpHigh
  <2>4. PICK n \in Int : y.num = Precise(r, x, Clamp(low, high, n))
    <3>1. PICK m \in (-r.reach) .. r.reach : y = Perturb(r, x, m)
      BY <1>3 DEF Outcomes
    <3>2. PICK k \in Int : k = Clamp(r.clipMin, r.clipMax, x.num)
      <4>1. Clamp(r.clipMin, r.clipMax, x.num) \in Int
        BY <1>0, <2>1, <2>2, ClampWithin
      <4>. QED
        BY <4>1
    <3>3. k + m \in Int
      BY <3>1
    <3>4. y.num = Precise(r, x, Clamp(low, high, k + m))
      BY <2>3, <3>1, <3>2 DEF Perturb
    <3>. QED
      BY <3>3, <3>4
  <2>5. /\ Whole(low) /\ InOrder(low, high) => AtLeast(low, Precise(r, x, Clamp(low, high, n)))
        /\ Whole(high) => AtMost(high, Precise(r, x, Clamp(low, high, n)))
    BY <1>0, <2>1, <2>2, ClampedWithin
  <2>. QED
    BY <1>3, <2>3, <2>4, <2>5
<1>. QED
  BY <1>1, <1>2, <1>3

(* Numbers stay near, dates within their window, their year and their month. *)
MovedBy(r, x, y) ==
  /\ r.strategy = "round_to" =>
       (Whole(r.step) \/ ~x.int => 2 * (y.num - x.num) \in (-r.step) .. r.step)
  /\ r.strategy = "date_shift" =>
       /\ y - x \in (-r.backward - (IF r.weekday THEN 6 ELSE 0)) .. r.forward
       /\ r.weekday => y % 7 = x % 7
  /\ r.strategy = "date_truncate" => x \in Values("date_truncate") /\ y = DateTruncate(r, x)

LEMMA OutcomesMoved ==
  ASSUME NEW r \in Rules, NEW x \in Inputs(r), NEW y \in Outcomes(r, x)
  PROVE  MovedBy(r, x, y)
<1>1. ASSUME r.strategy = "round_to", Whole(r.step) \/ ~x.int
      PROVE  2 * (y.num - x.num) \in (-r.step) .. r.step
  <2>1. PICK step \in Nat \ {0} : step = r.step
    BY <1>1, ColumnAssumption
  <2>2. PICK a \in Int : a = x.num
    BY <1>1, BoundedInputs
  <2>3. y = Bucket(r, x)
    BY <1>1 DEF Outcomes
  <2>4. PICK b \in Int : /\ b = RoundToStep(a, step)
                         /\ 2 * (b - a) \in (-step) .. step
                         /\ step % 4 = 0 => b % 4 = 0
    <3>1. /\ RoundToStep(a, step) \in Int
          /\ 2 * (RoundToStep(a, step) - a) \in (-step) .. step
          /\ step % 4 = 0 => RoundToStep(a, step) % 4 = 0
      BY RoundedNear
    <3>. QED
      BY <3>1
  <2>5. y.num = IF x.int THEN Truncated(b) ELSE b
    BY <2>1, <2>2, <2>3, <2>4 DEF Bucket
  <2>6. x.int => Truncated(b) = b
    <3>1. ASSUME x.int
          PROVE  Truncated(b) = b
      <4>1. Whole(r.step)
        BY <1>1, <3>1
      <4>2. step % 4 = 0
        <5>1. step # None
          BY ColumnAssumption
        <5>. QED
          BY <2>1, <4>1, <5>1 DEF Whole, Unit
      <4>3. b % 4 = 0
        BY <2>4, <4>2
      <4>. QED
        BY <4>3, WholeTruncated
    <3>. QED
      BY <3>1
  <2>7. y.num = b
    BY <2>5, <2>6
  <2>. QED
    BY <2>1, <2>2, <2>4, <2>7
<1>2. ASSUME r.strategy = "date_shift"
      PROVE  /\ y - x \in (-r.backward - (IF r.weekday THEN 6 ELSE 0)) .. r.forward
             /\ r.weekday => y % 7 = x % 7
  <2>1. PICK backward, forward \in Nat : backward = r.backward /\ forward = r.forward
    BY <1>2, ColumnAssumption
  <2>2. x \in Int
    <3>1. Values("date_shift") = Int
      BY DEF Values
    <3>. QED
      BY <1>2, <3>1, InputTypes
  <2>3. PICK o \in (-backward) .. forward : y = x + Offset(r, o)
    BY <1>2, <2>1 DEF Outcomes, OffsetDraws
  <2>4. CASE r.weekday
    <3>1. PICK k \in Int, c \in 0 .. 6 : o = 7 * k + c /\ k = o \div 7
      OBVIOUS
    <3>2. y = x + k * 7
      BY <2>3, <2>4, <3>1 DEF Offset
    <3>3. (x + k * 7) - x \in (-backward - 6) .. forward /\ (x + k * 7) % 7 = x % 7
      BY <2>2, <3>1
    <3>. QED
      BY <2>1, <2>4, <3>2, <3>3
  <2>5. CASE ~r.weekday
    <3>1. y = x + o
      BY <2>3, <2>5 DEF Offset
    <3>2. (x + o) - x \in (-backward - 0) .. forward
      BY <2>2
    <3>. QED
      BY <2>1, <2>5, <3>1, <3>2
  <2>. QED
    BY <2>4, <2>5
<1>3. ASSUME r.strategy = "date_truncate"
      PROVE  x \in Values("date_truncate") /\ y = DateTruncate(r, x)
  BY <1>3, InputTypes DEF Outcomes
<1>. QED
  BY <1>1, <1>2, <1>3 DEF MovedBy

(* A date cut to its year or month tells no more than these. *)
LEMMA Truncation ==
  ASSUME NEW r, NEW x \in Values("date_truncate"), NEW z \in Values("date_truncate")
  PROVE  /\ DateTruncate(r, x).year = x.year
         /\ x.year = z.year /\ (r.level = "year" \/ (r.level = "month" /\ x.month = z.month))
              => DateTruncate(r, x) = DateTruncate(r, z)
<1>1. x \in [year : Nat, month : Nat, day : Nat] /\ z \in [year : Nat, month : Nat, day : Nat]
  BY DEF Values
<1>2. CASE r.level = "year"
  <2>1. /\ DateTruncate(r, x) = [x EXCEPT !.month = 1, !.day = 1]
        /\ DateTruncate(r, z) = [z EXCEPT !.month = 1, !.day = 1]
    BY <1>2 DEF DateTruncate
  <2>2. /\ [x EXCEPT !.month = 1, !.day = 1] = [year |-> x.year, month |-> 1, day |-> 1]
        /\ [z EXCEPT !.month = 1, !.day = 1] = [year |-> z.year, month |-> 1, day |-> 1]
    <3>1. ASSUME NEW u \in [year : Nat, month : Nat, day : Nat]
          PROVE  [u EXCEPT !.month = 1, !.day = 1] = [year |-> u.year, month |-> 1, day |-> 1]
      <4>1. PICK v : v = [u EXCEPT !.month = 1]
        OBVIOUS
      <4>2. v = [year |-> u.year, month |-> 1, day |-> u.day]
        BY <4>1
      <4>3. [v EXCEPT !.day = 1] = [year |-> u.year, month |-> 1, day |-> 1]
        BY <4>2
      <4>. QED
        BY <4>1, <4>3
    <3>. QED
      BY <1>1, <3>1
  <2>. QED
    BY <2>1, <2>2
<1>3. CASE r.level = "month"
  <2>1. DateTruncate(r, x) = [x EXCEPT !.day = 1] /\ DateTruncate(r, z) = [z EXCEPT !.day = 1]
    BY <1>3 DEF DateTruncate
  <2>2. /\ [x EXCEPT !.day = 1] = [year |-> x.year, month |-> x.month, day |-> 1]
        /\ [z EXCEPT !.day = 1] = [year |-> z.year, month |-> z.month, day |-> 1]
    BY <1>1
  <2>. QED
    BY <1>3, <2>1, <2>2
<1>4. CASE r.level # "year" /\ r.level # "month"
  BY <1>4 DEF DateTruncate
<1>. QED
  BY <1>2, <1>3, <1>4

(* A total with its last place at zero is not rounded. *)
LEMMA SpendExact ==
  \A b, e \in Nat :
    b % 10 = 0 /\ e % 10 = 0 => Spend(b, e) = b + e /\ (b + e) % 10 = 0 /\ b + e \in Nat
<1>1. ASSUME NEW b \in Nat, NEW e \in Nat, b % 10 = 0, e % 10 = 0
      PROVE  Spend(b, e) = b + e /\ (b + e) % 10 = 0 /\ b + e \in Nat
  <2>1. PICK n \in Nat : n = b + e /\ n % 10 = 0
    BY <1>1
  <2>2. n = 10 * (n \div 10) + 0
    BY <2>1
  <2>3. PICK k \in Int : n = 10 * k + 0 /\ n \div 10 = k
    BY <2>2
  <2>4. ~(2 * 0 > 10) /\ ~(2 * 0 = 10) /\ 2 * 0 < 10
    OBVIOUS
  <2>5. RoundToStep(n, 10) = 10 * k
    BY <2>1, <2>3, <2>4 DEF RoundToStep
  <2>. QED
    BY <2>1, <2>3, <2>5 DEF Spend
<1>. QED
  BY <1>1

-----------------------------------------------------------------------------
(* Partial masking. *)

(* The places that show something. *)
Shown(s) == {k \in DOMAIN s : s[k] \notin {Star, Dash}}

LEMMA StarsAlone == \A n \in Nat : Shown(Stars(n)) = {} /\ Cardinality(Shown(Stars(n))) = 0
<1>1. ASSUME NEW n \in Nat
      PROVE  Shown(Stars(n)) = {}
  BY DEF Shown, Stars
<1>. QED
  BY <1>1, FS_EmptySet

(* An interval has no more subsets than it is long. *)
LEMMA WithinInterval ==
  \A m, n \in Nat : \A T \in SUBSET (m + 1 .. m + n) :
    IsFiniteSet(T) /\ Cardinality(T) \in Nat /\ Cardinality(T) <= n
<1>1. ASSUME NEW m \in Nat, NEW n \in Nat, NEW T \in SUBSET (m + 1 .. m + n)
      PROVE  IsFiniteSet(T) /\ Cardinality(T) \in Nat /\ Cardinality(T) <= n
  <2>1. m + 1 \in Int /\ m + n \in Int
    OBVIOUS
  <2>2. /\ IsFiniteSet(m + 1 .. m + n)
        /\ Cardinality(m + 1 .. m + n) = IF m + 1 > m + n THEN 0 ELSE m + n - (m + 1) + 1
    BY <2>1, FS_Interval
  <2>3. Cardinality(m + 1 .. m + n) = n
    BY <2>2
  <2>4. IsFiniteSet(T) /\ Cardinality(T) <= Cardinality(m + 1 .. m + n)
    BY <2>2, FS_Subset
  <2>5. Cardinality(T) \in Nat
    BY <2>4, FS_CardinalityType
  <2>. QED
    BY <2>3, <2>4, <2>5
<1>. QED
  BY <1>1

(* Two intervals together. *)
LEMMA WithinTwo ==
  ASSUME NEW a \in Nat, NEW m \in Nat, NEW b \in Nat,
         NEW T, T \subseteq (1 .. a) \cup (m + 1 .. m + b)
  PROVE  Cardinality(T) <= a + b
<1>1. PICK U : U = T \cap (1 .. a)
  OBVIOUS
<1>2. PICK V : V = T \cap (m + 1 .. m + b)
  OBVIOUS
<1>3. T = U \cup V
  BY <1>1, <1>2
<1>4. IsFiniteSet(U) /\ Cardinality(U) \in Nat /\ Cardinality(U) <= a
  <2>1. 0 \in Nat /\ 0 + 1 = 1 /\ 0 + a = a
    OBVIOUS
  <2>2. U \in SUBSET (0 + 1 .. 0 + a)
    BY <1>1, <2>1
  <2>. QED
    BY <2>1, <2>2, WithinInterval
<1>5. IsFiniteSet(V) /\ Cardinality(V) \in Nat /\ Cardinality(V) <= b
  <2>1. V \in SUBSET (m + 1 .. m + b)
    BY <1>2
  <2>. QED
    BY <2>1, WithinInterval
<1>6. IsFiniteSet(U \cap V) /\ Cardinality(U \cap V) \in Nat
  BY <1>4, FS_Intersection, FS_CardinalityType
<1>7. Cardinality(T) = Cardinality(U) + Cardinality(V) - Cardinality(U \cap V)
  BY <1>3, <1>4, <1>5, FS_Union
<1>. QED
  BY <1>4, <1>5, <1>6, <1>7

LEMMA StarsString ==
  \A n \in Nat :
    Stars(n) \in Seq(Nat) /\ Len(Stars(n)) = n /\ \A i \in 1 .. n : Stars(n)[i] = Star
<1>1. ASSUME NEW n \in Nat
      PROVE  Stars(n) \in Seq(Nat) /\ Len(Stars(n)) = n /\ \A i \in 1 .. n : Stars(n)[i] = Star
  <2>1. PICK f : f = Stars(n)
    OBVIOUS
  <2>2. f \in [1 .. n -> Nat] /\ \A i \in 1 .. n : f[i] = Star
    BY <2>1 DEF Stars, Star
  <2>. QED
    BY <2>1, <2>2, IsSequence
<1>. QED
  BY <1>1

(* Between a head and a tail only stars. *)
LEMMA EndsShown ==
  ASSUME NEW x \in Seq(Nat), NEW n \in Nat, NEW z \in Seq(Nat)
  PROVE  Cardinality(Shown((x \o Stars(n)) \o z)) <= Len(x) + Len(z)
<1>1. PICK s \in Seq(Nat) : s = Stars(n) /\ Len(s) = n /\ \A i \in 1 .. n : s[i] = Star
  BY StarsString
<1>2. PICK a, m, b \in Nat : a = Len(x) /\ m = Len(x) + n /\ b = Len(z)
  <2>1. Len(x) \in Nat /\ Len(z) \in Nat /\ Len(x) + n \in Nat
    BY LenNatural
  <2>. QED
    BY <2>1
<1>3. PICK v, w : v = x \o s /\ w = v \o z
  OBVIOUS
<1>4. Joined(Nat, x, s, v)
  BY <1>3, ConcatJoined
<1>5. v \in Seq(Nat) /\ Len(v) = m /\ \A i \in 1 .. n : v[a + i] = Star
  BY <1>1, <1>2, <1>4 DEF Joined
<1>6. Joined(Nat, v, z, w)
  BY <1>3, <1>5, ConcatJoined
<1>7. w \in Seq(Nat) /\ Len(w) = m + b /\ \A i \in 1 .. m : w[i] = v[i]
  BY <1>2, <1>5, <1>6 DEF Joined
<1>8. Shown(w) \subseteq (1 .. a) \cup (m + 1 .. m + b)
  <2>1. ASSUME NEW k \in DOMAIN w, w[k] # Star, k \notin 1 .. a
        PROVE  k \in m + 1 .. m + b
    <3>1. k \in 1 .. m + b
      BY <1>7, SeqFunction
    <3>2. ASSUME k <= m
          PROVE  FALSE
      <4>1. PICK i \in 1 .. n : k = a + i
        <5>1. k - a \in 1 .. n /\ a + (k - a) = k
          BY <1>2, <2>1, <3>1, <3>2
        <5>. QED
          BY <5>1
      <4>2. k \in 1 .. m
        BY <3>1, <3>2
      <4>3. w[k] = Star
        BY <1>5, <1>7, <4>1, <4>2
      <4>. QED
        BY <2>1, <4>3
    <3>. QED
      BY <3>1, <3>2
  <2>. QED
    BY <2>1 DEF Shown
<1>9. Cardinality(Shown(w)) <= a + b
  BY <1>8, WithinTwo
<1>. QED
  BY <1>1, <1>2, <1>3, <1>9

LEMMA PatternShown ==
  ASSUME NEW p, p.first \in Nat, p.last \in Nat, p.length \in Nat, NEW s \in Seq(Nat)
  PROVE  Cardinality(Shown(PatternMask(p, s))) <=
           IF Len(s) <= p.first + p.last THEN 0 ELSE p.first + p.last
<1>1. PICK n, a, b \in Nat : n = Len(s) /\ a = p.first /\ b = p.last
  BY LenNatural
<1>2. CASE n <= a + b
  <2>1. PatternMask(p, s) = Stars(n)
    BY <1>1, <1>2 DEF PatternMask
  <2>2. Cardinality(Shown(Stars(n))) = 0
    BY StarsAlone
  <2>. QED
    BY <1>1, <1>2, <2>1, <2>2
<1>3. CASE ~(n <= a + b)
  <2>1. PICK m \in Nat : m = IF p.length > 0 THEN p.length ELSE n - a - b
    <3>1. n - a - b \in Nat
      BY <1>3
    <3>. QED
      BY <3>1
  <2>2. PICK x \in Seq(Nat) : x = SubSeq(s, 1, a) /\ Len(x) = a
    <3>1. a <= Len(s)
      BY <1>1, <1>3
    <3>2. PICK x \in Seq(Nat) : x = SubSeq(s, 1, a) /\ Starts(x, s, a)
      BY <3>1, FirstPart
    <3>. QED
      BY <3>2 DEF Starts
  <2>3. PICK z \in Seq(Nat) : z = SubSeq(s, n - b + 1, n) /\ Len(z) = b
    <3>1. PICK k \in Nat : k = n - b
      <4>1. n - b \in Nat
        BY <1>3
      <4>. QED
        BY <4>1
    <3>2. k <= n /\ n <= Len(s) /\ n - k = b
      BY <1>1, <3>1
    <3>3. SubSeq(s, k + 1, n) \in Seq(Nat) /\ Len(SubSeq(s, k + 1, n)) = n - k
      BY <3>2, SubSeqDigits
    <3>. QED
      BY <3>1, <3>2, <3>3
  <2>4. PatternMask(p, s) = (x \o Stars(m)) \o z
    BY <1>1, <1>3, <2>1, <2>2, <2>3 DEF PatternMask
  <2>5. Cardinality(Shown((x \o Stars(m)) \o z)) <= a + b
    BY <2>2, <2>3, EndsShown
  <2>. QED
    BY <1>1, <1>3, <2>4, <2>5
<1>. QED
  BY <1>2, <1>3

(* Strings that show nothing. *)
Hidden(y) == y \in Seq(Nat) /\ \A i \in 1 .. Len(y) : y[i] \in {Star, Dash}

LEMMA HiddenParts ==
  /\ \A n \in Nat : Hidden(Stars(n))
  /\ Hidden(<<Dash>>)
<1>1. ASSUME NEW n \in Nat
      PROVE  Hidden(Stars(n))
  BY StarsString DEF Hidden
<1>2. Hidden(<<Dash>>)
  <2>1. Dash \in Nat
    BY DEF Dash
  <2>2. PICK s \in Seq(Nat) : s = <<Dash>> /\ Len(s) = 1 /\ s[1] = Dash
    BY <2>1, OnlyOne
  <2>3. \A i \in 1 .. Len(s) : s[i] = Dash
    BY <2>2
  <2>. QED
    BY <2>2, <2>3 DEF Hidden
<1>. QED
  BY <1>1, <1>2

LEMMA HiddenJoined ==
  ASSUME NEW x, NEW y, Hidden(x), Hidden(y)
  PROVE  Hidden(x \o y)
<1>1. x \in Seq(Nat) /\ y \in Seq(Nat)
  BY DEF Hidden
<1>2. PICK m, n \in Nat : m = Len(x) /\ n = Len(y)
  BY <1>1, LenNatural
<1>3. PICK w : w = x \o y
  OBVIOUS
<1>4. Joined(Nat, x, y, w)
  BY <1>1, <1>3, ConcatJoined
<1>5. /\ w \in Seq(Nat) /\ Len(w) = m + n
      /\ \A i \in 1 .. m : w[i] = x[i]
      /\ \A i \in 1 .. n : w[m + i] = y[i]
  BY <1>2, <1>4 DEF Joined
<1>6. ASSUME NEW i \in 1 .. m + n
      PROVE  w[i] \in {Star, Dash}
  <2>1. CASE i <= m
    <3>1. i \in 1 .. m
      BY <2>1
    <3>. QED
      BY <1>2, <1>5, <3>1 DEF Hidden
  <2>2. CASE i > m
    <3>1. PICK j \in 1 .. n : i = m + j
      <4>1. i - m \in 1 .. n /\ i = m + (i - m)
        BY <2>2
      <4>. QED
        BY <4>1
    <3>. QED
      BY <1>2, <1>5, <3>1 DEF Hidden
  <2>. QED
    BY <2>1, <2>2
<1>. QED
  BY <1>3, <1>5, <1>6 DEF Hidden

(* After what is hidden only the rest can be seen. *)
LEMMA HiddenShown ==
  ASSUME NEW x, Hidden(x), NEW z \in Seq(Nat)
  PROVE  Cardinality(Shown(x \o z)) <= Len(z)
<1>1. x \in Seq(Nat)
  BY DEF Hidden
<1>2. PICK m, n \in Nat : m = Len(x) /\ n = Len(z)
  BY <1>1, LenNatural
<1>3. PICK w : w = x \o z
  OBVIOUS
<1>4. Joined(Nat, x, z, w)
  BY <1>1, <1>3, ConcatJoined
<1>5. w \in Seq(Nat) /\ Len(w) = m + n /\ \A i \in 1 .. m : w[i] = x[i]
  BY <1>2, <1>4 DEF Joined
<1>6. Shown(w) \in SUBSET (m + 1 .. m + n)
  <2>1. ASSUME NEW k \in DOMAIN w, w[k] \notin {Star, Dash}
        PROVE  k \in m + 1 .. m + n
    <3>1. k \in 1 .. m + n
      BY <1>5, SeqFunction
    <3>2. k \notin 1 .. m
      BY <1>2, <1>5, <2>1 DEF Hidden
    <3>. QED
      BY <3>1, <3>2
  <2>. QED
    BY <2>1 DEF Shown
<1>7. Cardinality(Shown(w)) <= n
  BY <1>6, WithinInterval
<1>. QED
  BY <1>2, <1>3, <1>7

LEMMA CardShown ==
  ASSUME NEW s \in Seq(Nat)
  PROVE  /\ Cardinality(Shown(CardMask(s))) <= 4
         /\ ~FourDigits(s) => \/ Cardinality(Shown(CardMask(s))) = 0
                              \/ Cardinality(Shown(CardMask(s))) < Len(DigitsOf(s))
<1>1. PICK d \in Seq(Digits) : d = DigitsOf(s)
  BY TenDigits
<1>2. PICK m, n \in Nat : m = Len(s) /\ n = Len(d)
  BY LenNatural
<1>3. CASE n < 4
  <2>1. CardMask(s) = Stars(m)
    BY <1>1, <1>2, <1>3 DEF CardMask
  <2>2. Cardinality(Shown(Stars(m))) = 0
    BY StarsAlone
  <2>. QED
    BY <1>1, <1>2, <1>3, <2>1, <2>2
<1>4. CASE ~(n < 4)
  <2>1. PICK z : z = SubSeq(d, n - 3, n)
    OBVIOUS
  <2>2. z \in Seq(Nat) /\ Len(z) = 4
    <3>1. PICK k \in Nat : k + 4 = n
      <4>1. n - 4 \in Nat /\ (n - 4) + 4 = n
        BY <1>4
      <4>. QED
        BY <4>1
    <3>2. k + 1 = n - 3 /\ k <= n /\ n - k = 4
      BY <3>1
    <3>3. n <= Len(d)
      BY <1>2
    <3>4. d \in Seq(Nat)
      <4>1. Digits \subseteq Nat
        BY DEF Digits
      <4>2. DOMAIN d = 1 .. n /\ \A i \in 1 .. n : d[i] \in Digits
        BY <1>2, Elements, SeqFunction
      <4>3. d = [i \in 1 .. n |-> d[i]]
        BY <1>2, SeqFunction
      <4>4. d \in [1 .. n -> Nat]
        BY <4>1, <4>2, <4>3
      <4>. QED
        BY <4>4, IsSequence
    <3>5. SubSeq(d, k + 1, n) \in Seq(Nat) /\ Len(SubSeq(d, k + 1, n)) = n - k
      BY <3>2, <3>3, <3>4, SubSeqDigits
    <3>. QED
      BY <2>1, <3>2, <3>5
  <2>3. PICK x : x = Stars(4)
    OBVIOUS
  <2>4. Hidden(x) /\ Hidden(<<Dash>>)
    <3>1. 4 \in Nat
      OBVIOUS
    <3>. QED
      BY <2>3, <3>1, HiddenParts
  <2>5. Hidden(((((x \o <<Dash>>) \o x) \o <<Dash>>) \o x) \o <<Dash>>)
    <3>1. Hidden((x \o <<Dash>>) \o x)
      BY <2>4, HiddenJoined
    <3>2. Hidden((((x \o <<Dash>>) \o x) \o <<Dash>>) \o x)
      BY <2>4, <3>1, HiddenJoined
    <3>. QED
      BY <2>4, <3>2, HiddenJoined
  <2>6. PICK w : w = ((((x \o <<Dash>>) \o x) \o <<Dash>>) \o x) \o <<Dash>>
    OBVIOUS
  <2>7. CardMask(s) = w \o z
    BY <1>1, <1>2, <1>4, <2>1, <2>3, <2>6 DEF CardMask
  <2>8. Cardinality(Shown(w \o z)) <= Len(z)
    BY <2>2, <2>5, <2>6, HiddenShown
  <2>9. PICK k \in Nat : k = Cardinality(Shown(w \o z))
    <3>1. \A u : Shown(u) \subseteq DOMAIN u
      BY DEF Shown
    <3>2. w \o z \in Seq(Nat)
      BY <2>2, <2>5, <2>6, ConcatType DEF Hidden
    <3>3. IsFiniteSet(DOMAIN (w \o z))
      <4>1. PICK top \in Nat : DOMAIN (w \o z) = 1 .. top
        BY <3>2, SeqFunction, LenNatural
      <4>2. IsFiniteSet(1 .. top)
        BY FS_Interval
      <4>. QED
        BY <4>1, <4>2
    <3>. QED
      BY <3>1, <3>3, FS_Subset, FS_CardinalityType
  <2>10. k <= 4 /\ (n # 4 => k < n)
    BY <1>4, <2>2, <2>8, <2>9
  <2>. QED
    BY <1>1, <1>2, <2>7, <2>9, <2>10 DEF FourDigits
<1>. QED
  BY <1>3, <1>4

(* What the ends of a value may show. *)
Limit(r, s) == IF Len(s) <= r.first + r.last THEN 0 ELSE r.first + r.last

CardConcealed(x, y) ==
  /\ Cardinality(Shown(y)) <= 4
  /\ ~FourDigits(x) => Cardinality(Shown(y)) = 0 \/ Cardinality(Shown(y)) < Len(DigitsOf(x))

LEMMA OutcomesConcealed ==
  ASSUME NEW r \in Rules, NEW x \in Inputs(r), NEW y \in Outcomes(r, x)
  PROVE  /\ r.strategy = "pattern_mask" => Cardinality(Shown(y)) <= Limit(r, x)
         /\ r.strategy = "email_mask" => Cardinality(Shown(y.local)) <= Limit(r, StripLeft(x.local))
         /\ r.strategy = "credit_card_mask" => CardConcealed(x, y)
<1>1. ASSUME r.strategy = "pattern_mask"
      PROVE  Cardinality(Shown(y)) <= Limit(r, x)
  <2>1. r.first \in Nat /\ r.last \in Nat /\ r.length \in Nat
    BY <1>1, ColumnAssumption
  <2>2. y = PatternMask(r, x)
    BY <1>1 DEF Outcomes
  <2>3. x \in Seq(Nat)
    <3>1. Values("pattern_mask") = Seq(Nat)
      BY DEF Values
    <3>. QED
      BY <1>1, <3>1, InputTypes
  <2>. QED
    BY <2>1, <2>2, <2>3, PatternShown DEF Limit
<1>2. ASSUME r.strategy = "email_mask"
      PROVE  Cardinality(Shown(y.local)) <= Limit(r, StripLeft(x.local))
  <2>1. r.first \in Nat /\ r.last \in Nat
    BY <1>2, ColumnAssumption
  <2>2. PICK p : p = [first |-> r.first, last |-> r.last, length |-> 0]
    OBVIOUS
  <2>3. p.first = r.first /\ p.last = r.last /\ p.length = 0 /\ p.length \in Nat
    BY <2>2
  <2>4. y.local = PatternMask(p, StripLeft(x.local))
    <3>1. y = EmailMask(r, x)
      BY <1>2 DEF Outcomes
    <3>. QED
      BY <2>2, <3>1 DEF EmailMask
  <2>5. StripLeft(x.local) \in Seq(Nat)
    <3>1. Values("email_mask") = [local : Seq(Nat), domain : Nat]
      BY DEF Values
    <3>2. x \in [local : Seq(Nat), domain : Nat]
      BY <1>2, <3>1, InputTypes
    <3>. QED
      BY <3>2, StripType
  <2>6. Cardinality(Shown(PatternMask(p, StripLeft(x.local))))
          <= IF Len(StripLeft(x.local)) <= p.first + p.last THEN 0 ELSE p.first + p.last
    BY <2>1, <2>3, <2>5, PatternShown
  <2>. QED
    BY <2>3, <2>4, <2>6 DEF Limit
<1>3. ASSUME r.strategy = "credit_card_mask"
      PROVE  CardConcealed(x, y)
  <2>1. y = CardMask(x)
    BY <1>3 DEF Outcomes
  <2>2. x \in Seq(Nat)
    <3>1. Values("credit_card_mask") = Seq(Nat)
      BY DEF Values
    <3>. QED
      BY <1>3, <3>1, InputTypes
  <2>. QED
    BY <2>1, <2>2, CardShown DEF CardConcealed
<1>. QED
  BY <1>1, <1>2, <1>3

-----------------------------------------------------------------------------
(* The column. *)

CellsOf(r) == UNION {{[plain |-> x, masked |-> y] : y \in Outcomes(r, x)} : x \in Inputs(r)}

(* The inductive invariant: what was masked are outcomes of the rule, values
   that came twice were masked alike, and an exact budget has counted them. *)
Filled == rule \in Rules /\ cells \in Seq(CellsOf(rule))

SeededAlike ==
  Repeats(rule) => \A i, j \in 1 .. Len(cells) :
                     cells[i].plain = cells[j].plain => cells[i].masked = cells[j].masked

Exact == Private(rule) /\ rule.epsilon % 10 = 0 =>
           budget \in Nat /\ budget % 10 = 0 /\ budget = Len(cells) * rule.epsilon

IInv == Filled /\ SeededAlike /\ Exact

LEMMA CellParts ==
  ASSUME NEW r, NEW c \in CellsOf(r)
  PROVE  c.plain \in Inputs(r) /\ c.masked \in Outcomes(r, c.plain)
<1>1. PICK x \in Inputs(r) : \E y \in Outcomes(r, x) : c = [plain |-> x, masked |-> y]
  BY DEF CellsOf
<1>2. PICK y \in Outcomes(r, x) : c = [plain |-> x, masked |-> y]
  BY <1>1
<1>3. c.plain = x /\ c.masked = y
  BY <1>2
<1>. QED
  BY <1>3

LEMMA CellMasked ==
  ASSUME Filled
  PROVE  /\ DOMAIN cells = 1 .. Len(cells) /\ rule \in Rules
         /\ \A i \in 1 .. Len(cells) : /\ cells[i].plain \in Inputs(rule)
                                       /\ cells[i].masked \in Outcomes(rule, cells[i].plain)
<1>1. DOMAIN cells = 1 .. Len(cells) /\ rule \in Rules
  BY SeqFunction DEF Filled
<1>2. ASSUME NEW i \in 1 .. Len(cells)
      PROVE  cells[i] \in CellsOf(rule)
  BY Elements DEF Filled
<1>. QED
  BY <1>1, <1>2, CellParts

LEMMA MaskKeeps ==
  ASSUME IInv, NEW x \in Inputs(rule), NEW y \in Outcomes(rule, x), Mask(x, y)
  PROVE  IInv'
<1>1. PICK c : c = [plain |-> x, masked |-> y]
  OBVIOUS
<1>2. c \in CellsOf(rule) /\ c.plain = x /\ c.masked = y
  BY <1>1 DEF CellsOf
<1>3. cells \in Seq(CellsOf(rule)) /\ rule \in Rules
  BY DEF IInv, Filled
<1>4. cells' = Append(cells, c) /\ rule' = rule
  BY <1>1 DEF Mask
<1>5. PICK n \in Nat : n = Len(cells)
  BY <1>3, LenNatural
<1>6. /\ cells' \in Seq(CellsOf(rule)) /\ Len(cells') = n + 1
      /\ cells'[n + 1] = c /\ \A i \in 1 .. n : cells'[i] = cells[i]
  BY <1>2, <1>3, <1>4, <1>5, AppendElements
<1>7. Filled'
  BY <1>3, <1>4, <1>6 DEF Filled
<1>8. SeededAlike'
  <2>1. SUFFICES ASSUME Repeats(rule), NEW i \in 1 .. n + 1, NEW j \in 1 .. n + 1,
                        cells'[i].plain = cells'[j].plain
                 PROVE  cells'[i].masked = cells'[j].masked
    <3>1. Repeats(rule)' <=> Repeats(rule)
      BY <1>4 DEF Repeats, Private
    <3>. QED
      BY <1>6, <3>1 DEF SeededAlike
  <2>2. ASSUME NEW k \in 1 .. n, cells[k].plain = x
        PROVE  cells[k].masked = y
    <3>1. k \in DOMAIN cells
      BY <1>3, <1>5, SeqFunction
    <3>. QED
      BY <2>1, <2>2, <3>1 DEF Mask, Seeded
  <2>3. ASSUME NEW k \in 1 .. n, NEW l \in 1 .. n, cells[k].plain = cells[l].plain
        PROVE  cells[k].masked = cells[l].masked
    BY <1>5, <2>1, <2>3 DEF IInv, SeededAlike
  <2>4. (i \in 1 .. n \/ i = n + 1) /\ (j \in 1 .. n \/ j = n + 1)
    OBVIOUS
  <2>. QED
    BY <1>2, <1>6, <2>1, <2>2, <2>3, <2>4
<1>9. Exact'
  <2>1. SUFFICES ASSUME Private(rule), rule.epsilon % 10 = 0
                 PROVE  /\ budget' \in Nat /\ budget' % 10 = 0
                        /\ budget' = (n + 1) * rule.epsilon
    <3>1. Private(rule)' <=> Private(rule)
      BY <1>4 DEF Private
    <3>. QED
      BY <1>4, <1>6, <3>1 DEF Exact
  <2>2. rule.epsilon \in Nat
    BY <1>3, <2>1, ColumnAssumption DEF Private
  <2>3. PICK e \in Nat : e = rule.epsilon /\ e % 10 = 0
    BY <2>1, <2>2
  <2>4. budget \in Nat /\ budget % 10 = 0 /\ budget = n * e
    BY <1>5, <2>1, <2>3 DEF IInv, Exact
  <2>5. budget' = Spend(budget, e)
    BY <2>1, <2>3 DEF Mask
  <2>6. budget' = budget + e /\ budget' % 10 = 0 /\ budget' \in Nat
    BY <2>3, <2>4, <2>5, SpendExact, ZenonT(40)
  <2>7. (n + 1) * e = n * e + e
    <3>1. n \in Int /\ e \in Int /\ 1 \in Int /\ n + 1 \in Int /\ e * 1 = e
      OBVIOUS
    <3>2. e * (n + 1) = e * n + e * 1
      BY <3>1, Distributes
    <3>. QED
      BY <3>1, <3>2, Commutes
  <2>. QED
    BY <2>3, <2>4, <2>6, <2>7
<1>. QED
  BY <1>7, <1>8, <1>9 DEF IInv

(* Every state of a column, of any rule of the kinds and values assumed. *)
THEOREM ColumnInvariant == Spec => []IInv
<1>1. Init => IInv
  <2>. SUFFICES ASSUME Init
                PROVE  IInv
    OBVIOUS
  <2>1. rule \in Rules /\ cells = <<>> /\ budget = 0
    BY DEF Init
  <2>2. cells \in Seq(CellsOf(rule)) /\ Len(cells) = 0
    BY <2>1
  <2>3. SeededAlike
    BY <2>2 DEF SeededAlike
  <2>4. Exact
    <3>1. SUFFICES ASSUME Private(rule)
                   PROVE  0 = 0 * rule.epsilon
      BY <2>1, <2>2 DEF Exact
    <3>2. PICK e \in Nat : e = rule.epsilon
      BY <2>1, <3>1, ColumnAssumption DEF Private
    <3>3. 0 = 0 * e
      OBVIOUS
    <3>. QED
      BY <3>2, <3>3
  <2>. QED
    BY <2>1, <2>2, <2>3, <2>4 DEF IInv, Filled
<1>2. IInv /\ [Next]_vars => IInv'
  <2>. SUFFICES ASSUME IInv, [Next]_vars
                PROVE  IInv'
    OBVIOUS
  <2>1. CASE Next
    BY <2>1, MaskKeeps DEF Next
  <2>2. CASE UNCHANGED vars
    BY <2>2 DEF vars, IInv, Filled, SeededAlike, Exact, Repeats, Private
  <2>. QED
    BY <2>1, <2>2
<1>. QED
  BY <1>1, <1>2, PTL DEF Spec

(* Equal values of a column are masked alike, in any order of arrival, by a rule
   that does not draw anew for each, and different ones differently wherever the encryption can be undone, whatever
   the keyed hash, the radix and the length. *)
THEOREM ColumnOneToOne ==
  ASSUME HmacNatural
  PROVE  Spec => []OneToOne
<1>1. IInv => OneToOne
  <2>. SUFFICES ASSUME IInv
                PROVE  OneToOne
    OBVIOUS
  <2>1. /\ DOMAIN cells = 1 .. Len(cells) /\ rule \in Rules
        /\ \A i \in 1 .. Len(cells) : /\ cells[i].plain \in Inputs(rule)
                                      /\ cells[i].masked \in Outcomes(rule, cells[i].plain)
    BY CellMasked DEF IInv
  <2>2. ASSUME NEW i \in 1 .. Len(cells), NEW j \in 1 .. Len(cells),
               cells[i].plain = cells[j].plain, Repeats(rule)
        PROVE  cells[i].masked = cells[j].masked
    BY <2>2 DEF IInv, SeededAlike
  <2>3. ASSUME NEW i \in 1 .. Len(cells), NEW j \in 1 .. Len(cells),
               cells[i].masked = cells[j].masked,
               Reversible(rule, Taken(rule, cells[i].plain)),
               Reversible(rule, Taken(rule, cells[j].plain))
        PROVE  Taken(rule, cells[i].plain) = Taken(rule, cells[j].plain)
    <3>1. PICK x \in Inputs(rule) : x = cells[i].plain
      BY <2>1
    <3>2. PICK z \in Inputs(rule) : z = cells[j].plain
      BY <2>1
    <3>3. PICK y : y = cells[i].masked
      OBVIOUS
    <3>4. y \in Outcomes(rule, x) /\ y \in Outcomes(rule, z)
      BY <2>1, <2>3, <3>1, <3>2, <3>3
    <3>5. Reversible(rule, Taken(rule, x)) /\ Reversible(rule, Taken(rule, z))
      BY <2>3, <3>1, <3>2
    <3>6. Taken(rule, x) = Taken(rule, z)
      BY <2>1, <3>4, <3>5, OutcomesOneToOne
    <3>. QED
      BY <3>1, <3>2, <3>6
  <2>. QED
    BY <2>1, <2>2, <2>3 DEF OneToOne
<1>. QED
  BY <1>1, ColumnInvariant, PTL

(* Length, punctuation, the kind of each character, the issuer of a card and the
   country code of a phone number stay, for every value and every keyed hash; an
   identity number is taken without the spaces around it. *)
THEOREM ColumnFormatKept ==
  ASSUME HmacNatural
  PROVE  Spec => []FormatKept
<1>1. IInv => FormatKept
  <2>. SUFFICES ASSUME IInv
                PROVE  FormatKept
    OBVIOUS
  <2>1. /\ DOMAIN cells = 1 .. Len(cells) /\ rule \in Rules
        /\ \A i \in 1 .. Len(cells) : /\ cells[i].plain \in Inputs(rule)
                                      /\ cells[i].masked \in Outcomes(rule, cells[i].plain)
    BY CellMasked DEF IInv
  <2>2. ASSUME NEW i \in 1 .. Len(cells), NEW x, x = Taken(rule, cells[i].plain),
               NEW y, y = cells[i].masked,
               InPlace(rule, x)
        PROVE  /\ Len(y) = Len(x)
               /\ rule.strategy # "fpe" => \A k \in DOMAIN x : y[k] \in SameClass(x[k])
               /\ rule.strategy = "fpe" =>
                    \A k \in DOMAIN x : IF x[k] < rule.radix THEN y[k] \in 0 .. (rule.radix - 1)
                                                             ELSE y[k] = x[k]
               /\ SubSeq(DigitsOf(y), 1, KeptPrefix(rule, x))
                    = SubSeq(DigitsOf(x), 1, KeptPrefix(rule, x))
    <3>1. cells[i].plain \in Inputs(rule) /\ y \in Outcomes(rule, cells[i].plain)
      BY <2>1, <2>2
    <3>2. /\ x \in Seq(Nat) /\ Len(y) = Len(x)
          /\ rule.strategy # "fpe" => \A k \in 1 .. Len(x) : y[k] \in SameClass(x[k])
          /\ rule.strategy = "fpe" =>
               \A k \in 1 .. Len(x) : IF x[k] < rule.radix THEN y[k] \in 0 .. (rule.radix - 1)
                                                           ELSE y[k] = x[k]
          /\ SubSeq(DigitsOf(y), 1, KeptPrefix(rule, x))
               = SubSeq(DigitsOf(x), 1, KeptPrefix(rule, x))
      <4>1. Formatted(rule, x, y)
        BY <2>1, <2>2, <3>1, OutcomesFormat
      <4>. QED
        BY <4>1 DEF Formatted
    <3>3. DOMAIN x = 1 .. Len(x)
      BY <3>2, SeqFunction
    <3>. QED
      BY <3>2, <3>3
  <2>. QED
    BY <2>1, <2>2, ZenonT(40) DEF FormatKept
<1>. QED
  BY <1>1, ColumnInvariant, PTL

(* The card and identity numbers that come out pass their check digits. *)
THEOREM ColumnChecksumsValid ==
  ASSUME HmacNatural
  PROVE  Spec => []ChecksumsValid
<1>1. IInv => ChecksumsValid
  <2>. SUFFICES ASSUME IInv
                PROVE  ChecksumsValid
    OBVIOUS
  <2>1. /\ DOMAIN cells = 1 .. Len(cells) /\ rule \in Rules
        /\ \A i \in 1 .. Len(cells) : /\ cells[i].plain \in Inputs(rule)
                                      /\ cells[i].masked \in Outcomes(rule, cells[i].plain)
    BY CellMasked DEF IInv
  <2>2. ASSUME NEW i \in 1 .. Len(cells), NEW x, x = Taken(rule, cells[i].plain), NEW y, y = cells[i].masked
        PROVE  /\ rule.strategy = "fpe_credit_card" =>
                    (rule.luhn /\ Len(DigitsOf(x)) \in 12 .. 19 => ValidLuhn(y))
               /\ rule.strategy = "fpe_national_id" =>
                    (rule.validate /\ IsTckn(rule, x) => ValidTckn(y))
               /\ rule.strategy = "tckn" => ValidTckn(y)
    BY <2>1, <2>2, OutcomesValid
  <2>. QED
    BY <2>1, <2>2 DEF ChecksumsValid
<1>. QED
  BY <1>1, ColumnInvariant, PTL

(* Noise stays within the bounds of its rule, generalised values near the
   original, and the stated privacy budget is what was spent: for every value,
   every draw and any number of cells. *)
THEOREM ColumnWithinBounds == Spec => []WithinBounds
<1>1. IInv => WithinBounds
  <2>. SUFFICES ASSUME IInv
                PROVE  WithinBounds
    OBVIOUS
  <2>1. /\ DOMAIN cells = 1 .. Len(cells) /\ rule \in Rules
        /\ \A i \in 1 .. Len(cells) : /\ cells[i].plain \in Inputs(rule)
                                      /\ cells[i].masked \in Outcomes(rule, cells[i].plain)
    BY CellMasked DEF IInv
  <2>2. NoiseBounded
    <3>1. ASSUME NEW i \in 1 .. Len(cells), NEW y, y = cells[i].masked
          PROVE  /\ rule.strategy = "jitter" =>
                      /\ Whole(rule.min) /\ InOrder(rule.min, rule.max) => AtLeast(rule.min, y.num)
                      /\ Whole(rule.max) => AtMost(rule.max, y.num)
                 /\ rule.strategy = "range_random" =>
                      (Whole(rule.min) /\ Whole(rule.max) =>
                         y.num \in Min({rule.min, rule.max}) .. Max({rule.min, rule.max}))
                 /\ rule.strategy = "differential_privacy" =>
                      /\ Whole(DpLow(rule)) /\ InOrder(DpLow(rule), DpHigh(rule)) =>
                           AtLeast(DpLow(rule), y.num)
                      /\ Whole(DpHigh(rule)) => AtMost(DpHigh(rule), y.num)
      BY <2>1, <3>1, OutcomesBounded
    <3>. QED
      BY <2>1, <3>1 DEF NoiseBounded, Private
  <2>3. MovedAtMost
    <3>1. ASSUME NEW i \in 1 .. Len(cells)
          PROVE  MovedBy(rule, cells[i].plain, cells[i].masked)
      BY <2>1, OutcomesMoved
    <3>2. ASSUME rule.strategy = "date_truncate", NEW i \in 1 .. Len(cells),
                 NEW x, x = cells[i].plain, NEW y, y = cells[i].masked
          PROVE  /\ y.year = x.year
                 /\ \A j \in 1 .. Len(cells) :
                      x.year = cells[j].plain.year
                        /\ (rule.level = "year"
                              \/ (rule.level = "month" /\ x.month = cells[j].plain.month))
                      => y = cells[j].masked
      <4>1. x \in Values("date_truncate") /\ y = DateTruncate(rule, x)
        BY <3>1, <3>2 DEF MovedBy
      <4>2. y.year = x.year
        BY <4>1, Truncation
      <4>3. ASSUME NEW j \in 1 .. Len(cells), x.year = cells[j].plain.year,
                   rule.level = "year"
                     \/ (rule.level = "month" /\ x.month = cells[j].plain.month)
            PROVE  y = cells[j].masked
        <5>1. PICK z \in Values("date_truncate") :
                z = cells[j].plain /\ cells[j].masked = DateTruncate(rule, z)
          BY <3>1, <3>2 DEF MovedBy
        <5>2. /\ x.year = z.year
              /\ rule.level = "year" \/ (rule.level = "month" /\ x.month = z.month)
          BY <4>3, <5>1
        <5>3. DateTruncate(rule, x) = DateTruncate(rule, z)
          BY <4>1, <5>2, Truncation
        <5>. QED
          BY <4>1, <5>1, <5>3
      <4>. QED
        BY <4>2, <4>3
    <3>3. ASSUME NEW i \in 1 .. Len(cells), NEW x, x = cells[i].plain, NEW y, y = cells[i].masked
          PROVE  /\ rule.strategy = "round_to" =>
                      (Whole(rule.step) \/ ~x.int =>
                         2 * (y.num - x.num) \in (-rule.step) .. rule.step)
                 /\ rule.strategy = "date_shift" =>
                      /\ y - x \in (-rule.backward - (IF rule.weekday THEN 6 ELSE 0))
                                     .. rule.forward
                      /\ rule.weekday => y % 7 = x % 7
      BY <3>1, <3>3 DEF MovedBy
    <3>. QED
      BY <2>1, <3>2, <3>3 DEF MovedAtMost
  <2>4. BudgetAccounted
    BY DEF IInv, Exact, BudgetAccounted
  <2>. QED
    BY <2>2, <2>3, <2>4 DEF WithinBounds
<1>. QED
  BY <1>1, ColumnInvariant, PTL

(* A partially masked value of any length shows no more than its ends and never
   all of itself, except for a card number of exactly four digits. *)
THEOREM ColumnConcealed == Spec => []Concealed
<1>1. IInv => Concealed
  <2>. SUFFICES ASSUME IInv
                PROVE  Concealed
    OBVIOUS
  <2>1. /\ DOMAIN cells = 1 .. Len(cells) /\ rule \in Rules
        /\ \A i \in 1 .. Len(cells) : /\ cells[i].plain \in Inputs(rule)
                                      /\ cells[i].masked \in Outcomes(rule, cells[i].plain)
    BY CellMasked DEF IInv
  <2>2. ASSUME NEW i \in 1 .. Len(cells), NEW x, x = cells[i].plain, NEW y, y = cells[i].masked
        PROVE  /\ rule.strategy = "pattern_mask" => Cardinality(Shown(y)) <= Limit(rule, x)
               /\ rule.strategy = "email_mask" =>
                    Cardinality(Shown(y.local)) <= Limit(rule, StripLeft(x.local))
               /\ rule.strategy = "credit_card_mask" =>
                    CardConcealed(x, y)
    BY <2>1, <2>2, OutcomesConcealed
  <2>3. CASE rule.strategy = "pattern_mask"
    <3>1. ASSUME NEW i \in 1 .. Len(cells)
          PROVE  Cardinality(Shown(cells[i].masked)) <= Limit(rule, cells[i].plain)
      BY <2>2, <2>3
    <3>. QED
      BY <2>1, <2>3, <3>1 DEF Concealed, Shown, Limit
  <2>4. CASE rule.strategy = "email_mask"
    <3>1. ASSUME NEW i \in 1 .. Len(cells)
          PROVE  Cardinality(Shown(cells[i].masked.local)) <= Limit(rule, StripLeft(cells[i].plain.local))
      BY <2>2, <2>4
    <3>. QED
      BY <2>1, <2>4, <3>1 DEF Concealed, Shown, Limit
  <2>5. CASE rule.strategy = "credit_card_mask"
    <3>1. ASSUME NEW i \in 1 .. Len(cells)
          PROVE  CardConcealed(cells[i].plain, cells[i].masked)
      BY <2>2, <2>5
    <3>. QED
      BY <2>1, <2>5, <3>1 DEF Concealed, Shown, CardConcealed
  <2>6. CASE rule.strategy \notin {"pattern_mask", "email_mask", "credit_card_mask"}
    BY <2>6 DEF Concealed
  <2>. QED
    BY <2>3, <2>4, <2>5, <2>6
<1>. QED
  BY <1>1, ColumnInvariant, PTL
=============================================================================
