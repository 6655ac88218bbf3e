------------------------------- MODULE FoldLaws ------------------------------
(***************************************************************************)
(* What FoldLeft computes, one element at a time, for any operator: the    *)
(* laws that proofs about a loop over a sequence need.  Instantiate Op     *)
(* with the operator that is folded.                                       *)
(***************************************************************************)
EXTENDS Integers, Sequences, Folds, WellFoundedInduction, TLAPS

CONSTANT Op(_, _)

(* The folds and the bounds of SequencesExt and FiniteSetsExt.  Those modules are not
   extended: whoever instantiates these laws would get their other operators, too. *)
Max(T) == CHOOSE m \in T : \A x \in T : m >= x
Min(T) == CHOOSE m \in T : \A x \in T : m =< x

FoldLeft(op(_, _), base, s) ==
  MapThenFoldSet(LAMBDA x, acc : op(acc, x), base, LAMBDA i : s[i], LAMBDA T : Max(T), DOMAIN s)

(* Every nonempty set of natural numbers has a least element. *)
LEMMA LeastOfSet ==
  ASSUME NEW T, T \subseteq Nat, T # {}
  PROVE  \E n \in T : \A m \in T : n <= m
<1>1. PICK n \in T : \A m \in T : ~(<<m, n>> \in OpToRel(<, Nat))
  BY NatLessThanWellFounded, WFMin
<1>2. \A m \in T : ~(m < n)
  BY <1>1 DEF OpToRel
<1>. QED
  BY <1>2

(* The greatest of a nonempty, bounded set of numbers. *)
LEMMA MaxOfBounded ==
  ASSUME NEW n \in Nat, NEW T \in SUBSET (0 .. n), T # {}
  PROVE  Max(T) \in T /\ \A t \in T : t <= Max(T)
<1>. DEFINE Bounds == {b \in Nat : \A t \in T : t <= b}
<1>1. n \in Bounds
  OBVIOUS
<1>2. PICK b \in Bounds : \A c \in Bounds : b <= c
  BY <1>1, LeastOfSet
<1>3. b \in T
  <2>. SUFFICES ASSUME b \notin T
                PROVE  FALSE
    OBVIOUS
  <2>1. b - 1 \in Bounds
    <3>1. PICK t \in T : TRUE
      OBVIOUS
    <3>2. \A u \in T : u \in 0 .. n /\ u <= b /\ u # b
      BY <1>2
    <3>. QED
      BY <3>1, <3>2
  <2>. QED
    BY <1>2, <2>1
<1>4. \E x \in T : \A t \in T : x >= t
  BY <1>2, <1>3
<1>5. Max(T) \in T /\ \A t \in T : Max(T) >= t
  BY <1>4 DEF Max
<1>. QED
  BY <1>5

(* How the fold of the community modules goes over the set of positions, from
   the greatest down. *)
Iterates(it, base, s) ==
  it = [T \in SUBSET DOMAIN s |->
          IF T = {} THEN base ELSE Op(it[T \ {Max(T)}], s[Max(T)])]

(* The definition of the fold. *)
LEMMA FoldIsIteration ==
  ASSUME NEW base, NEW s
  PROVE  FoldLeft(Op, base, s) = (CHOOSE it : Iterates(it, base, s))[DOMAIN s]
BY DEF FoldLeft, MapThenFoldSet, Iterates

(* The greatest of the first n positions is the last. *)
LEMMA MaxOfInterval ==
  ASSUME NEW n \in Nat, n # 0
  PROVE  Max(1 .. n) = n /\ (1 .. n) \ {n} = 1 .. n - 1 /\ 1 .. n # {}
<1>1. n \in 1 .. n /\ 1 .. n \in SUBSET (0 .. n)
  OBVIOUS
<1>2. Max(1 .. n) \in 1 .. n /\ n <= Max(1 .. n)
  BY <1>1, MaxOfBounded
<1>. QED
  BY <1>1, <1>2

(* Its value for no position, and for the first n. *)
LEMMA IterationEmpty ==
  ASSUME NEW it, NEW base, NEW s, Iterates(it, base, s)
  PROVE  it[{}] = base
<1>1. {} \in SUBSET DOMAIN s
  OBVIOUS
<1>. QED
  BY <1>1 DEF Iterates

LEMMA IterationNext ==
  ASSUME NEW it, NEW base, NEW s, Iterates(it, base, s),
         NEW n \in Nat, n # 0, 1 .. n \subseteq DOMAIN s
  PROVE  it[1 .. n] = Op(it[1 .. n - 1], s[n])
<1>. DEFINE F(X) == IF X = {} THEN base ELSE Op(it[X \ {Max(X)}], s[Max(X)])
<1>1. it = [X \in SUBSET DOMAIN s |-> F(X)]
  BY DEF Iterates
<1>2. F(1 .. n) = Op(it[1 .. n - 1], s[n])
  BY MaxOfInterval
<1>. HIDE DEF F
<1>3. it[1 .. n] = F(1 .. n)
  BY <1>1
<1>. QED
  BY <1>2, <1>3

(* There is such an iteration for every sequence: one for its first n elements
   extends to one more. *)
LEMMA IterationExists ==
  ASSUME NEW base, NEW s, NEW n \in Nat, DOMAIN s = 1 .. n
  PROVE  \E it : Iterates(it, base, s)
<1>. DEFINE Upto(it, m) ==
              it = [T \in SUBSET (1 .. m) |->
                      IF T = {} THEN base ELSE Op(it[T \ {Max(T)}], s[Max(T)])]
            Lacking == {m \in Nat : ~\E it : Upto(it, m)}
<1>1. Lacking = {}
  <2>. SUFFICES ASSUME Lacking # {}
                PROVE  FALSE
    OBVIOUS
  <2>1. PICK m \in Lacking : \A l \in Lacking : m <= l
    BY LeastOfSet
  <2>2. m # 0
    <3>. DEFINE it == [T \in SUBSET (1 .. 0) |-> base]
    <3>1. \A T \in SUBSET (1 .. 0) : T = {}
      OBVIOUS
    <3>2. Upto(it, 0)
      BY <3>1
    <3>. QED
      BY <2>1, <3>2
  <2>3. m - 1 \in Nat /\ m - 1 \notin Lacking
    <3>1. m \in Nat
      BY <2>1
    <3>. HIDE DEF Lacking
    <3>. QED
      BY <2>1, <2>2, <3>1
  <2>4. PICK f : Upto(f, m - 1)
    BY <2>3
  <2>. DEFINE g == [T \in SUBSET (1 .. m) |->
                      IF m \in T THEN Op(f[T \ {m}], s[m]) ELSE f[T]]
  <2>5. ASSUME NEW T \in SUBSET (1 .. m)
        PROVE  g[T] = IF T = {} THEN base ELSE Op(g[T \ {Max(T)}], s[Max(T)])
    <3>0. m \in Nat /\ m - 1 \in Nat /\ 1 .. m - 1 \subseteq 1 .. m
      BY <2>1, <2>3
    <3>1. CASE m \in T
      <4>1. Max(T) = m
        <5>. HIDE DEF Lacking, g, Upto
        <5>1. Max(T) \in T /\ m <= Max(T)
          <6>1. T \in SUBSET (0 .. m)
            OBVIOUS
          <6>. QED
            BY <3>0, <3>1, <6>1, MaxOfBounded
        <5>2. Max(T) \in 1 .. m
          BY <5>1
        <5>. QED
          BY <5>1, <5>2, <3>0
      <4>2. T \ {m} \in SUBSET (1 .. m) /\ m \notin T \ {m}
        OBVIOUS
      <4>3. g[T \ {m}] = f[T \ {m}]
        BY <4>2
      <4>. QED
        BY <3>1, <4>1, <4>3
    <3>2. CASE m \notin T
      <4>1. T \in SUBSET (1 .. m - 1)
        BY <3>0, <3>2
      <4>2. g[T] = f[T]
        BY <3>2
      <4>3. f[T] = IF T = {} THEN base ELSE Op(f[T \ {Max(T)}], s[Max(T)])
        BY <2>4, <4>1
      <4>4. g[T \ {Max(T)}] = f[T \ {Max(T)}]
        <5>1. T \ {Max(T)} \in SUBSET (1 .. m) /\ m \notin T \ {Max(T)}
          BY <3>2
        <5>. QED
          BY <5>1
      <4>. QED
        BY <4>2, <4>3, <4>4
    <3>. QED
      BY <3>1, <3>2
  <2>6. g = [T \in SUBSET (1 .. m) |->
               IF T = {} THEN base ELSE Op(g[T \ {Max(T)}], s[Max(T)])]
    <3>1. g = [T \in SUBSET (1 .. m) |-> g[T]]
      OBVIOUS
    <3>. QED
      BY <2>5, <3>1
  <2>. HIDE DEF g
  <2>. QED
    BY <2>1, <2>6
<1>2. \E it : Upto(it, n)
  BY <1>1
<1>. QED
  BY <1>2 DEF Iterates

(* Over its first k elements the iteration does not depend on the others. *)
LEMMA IterationsAgree ==
  ASSUME NEW base, NEW s, NEW n \in Nat, DOMAIN s = 1 .. n,
         NEW t, NEW m \in Nat, DOMAIN t = 1 .. m, 
         NEW f, Iterates(f, base, s), NEW g, Iterates(g, base, t),
         NEW k \in Nat, k <= n, k <= m, \A i \in 1 .. k : s[i] = t[i]
  PROVE  f[1 .. k] = g[1 .. k]
<1>. DEFINE Differ == {l \in Nat : l <= k /\ f[1 .. l] # g[1 .. l]}
<1>. SUFFICES ASSUME Differ # {}
              PROVE  FALSE
  OBVIOUS
<1>1. PICK l \in Differ : \A j \in Differ : l <= j
  BY LeastOfSet
<1>2. l # 0
  <2>. SUFFICES ASSUME l = 0
                PROVE  FALSE
    OBVIOUS
  <2>1. 1 .. l = {}
    OBVIOUS
  <2>2. f[1 .. l] = base /\ g[1 .. l] = base
    BY <2>1, IterationEmpty
  <2>. QED
    BY <1>1, <2>2
<1>3. l \in Nat /\ 1 .. l \subseteq DOMAIN s /\ 1 .. l \subseteq DOMAIN t
  BY <1>1
<1>4. f[1 .. l] = Op(f[1 .. l - 1], s[l]) /\ g[1 .. l] = Op(g[1 .. l - 1], t[l])
  BY <1>2, <1>3, IterationNext
<1>5. f[1 .. l - 1] = g[1 .. l - 1] /\ s[l] = t[l]
  <2>1. l - 1 \in Nat /\ l - 1 <= k /\ l \in 1 .. k /\ ~(l <= l - 1)
    BY <1>1, <1>2
  <2>. QED
    BY <1>1, <2>1
<1>. QED
  BY <1>1, <1>4, <1>5

(* Nothing is folded: the base. *)
THEOREM FoldEmpty ==
  ASSUME NEW base
  PROVE  FoldLeft(Op, base, <<>>) = base
<1>1. DOMAIN <<>> = 1 .. 0 /\ 0 \in Nat /\ DOMAIN <<>> = {}
  OBVIOUS
<1>2. PICK it : it = CHOOSE f : Iterates(f, base, <<>>)
  OBVIOUS
<1>3. Iterates(it, base, <<>>)
  BY <1>1, <1>2, IterationExists
<1>4. it[{}] = base
  BY <1>3, IterationEmpty
<1>. QED
  BY <1>1, <1>2, <1>4, FoldIsIteration

(* One more element is folded last. *)
THEOREM FoldAppend ==
  ASSUME NEW base, NEW S, NEW s \in Seq(S), NEW x \in S
  PROVE  FoldLeft(Op, base, Append(s, x)) = Op(FoldLeft(Op, base, s), x)
<1>. DEFINE t == Append(s, x)
            n == Len(s)
            f == CHOOSE it : Iterates(it, base, s)
            g == CHOOSE it : Iterates(it, base, t)
<1>1. /\ n \in Nat /\ DOMAIN s = 1 .. n /\ DOMAIN t = 1 .. n + 1
      /\ t[n + 1] = x /\ \A i \in 1 .. n : t[i] = s[i]
  OBVIOUS
<1>2. Iterates(f, base, s) /\ Iterates(g, base, t)
  <2>1. (\E it : Iterates(it, base, s)) /\ (\E it : Iterates(it, base, t))
    <3>1. n + 1 \in Nat
      BY <1>1
    <3>. HIDE DEF t, n
    <3>. QED
      BY <1>1, <3>1, IterationExists
  <2>. HIDE DEF t, n
  <2>. QED
    BY <2>1
<1>3. FoldLeft(Op, base, s) = f[1 .. n] /\ FoldLeft(Op, base, t) = g[1 .. n + 1]
  BY <1>1, FoldIsIteration
<1>. HIDE DEF t, n, f, g
<1>4. f[1 .. n] = g[1 .. n]
  BY <1>1, <1>2, IterationsAgree
<1>5. g[1 .. n + 1] = Op(g[1 .. n], x)
  <2>1. n + 1 \in Nat /\ n + 1 # 0 /\ (n + 1) - 1 = n /\ 1 .. n + 1 \subseteq DOMAIN t
    BY <1>1
  <2>. QED
    BY <1>1, <1>2, <2>1, IterationNext
<1>. QED
  BY <1>3, <1>4, <1>5 DEF t

(* An invariant of the iteration: what holds of the base, and of one more element
   if it holds before it, holds after any.  T[n] is what is said after n elements. *)
LEMMA IterationInvariant ==
  ASSUME NEW base, NEW S, NEW s \in Seq(S), NEW T, NEW f, Iterates(f, base, s),
         base \in T[0],
         \A n \in 1 .. Len(s) : \A v \in T[n - 1] : Op(v, s[n]) \in T[n],
         NEW k \in Nat, k <= Len(s)
  PROVE  f[1 .. k] \in T[k]
<1>. DEFINE len == Len(s)
            Lost == {n \in Nat : n <= len /\ f[1 .. n] \notin T[n]}
<1>1. len \in Nat /\ DOMAIN s = 1 .. len
  OBVIOUS
<1>2. Lost = {}
  <2>. SUFFICES ASSUME Lost # {}
                PROVE  FALSE
    OBVIOUS
  <2>1. PICK n \in Lost : \A m \in Lost : n <= m
    BY LeastOfSet
  <2>2. n # 0
    <3>1. 1 .. 0 = {}
      OBVIOUS
    <3>2. f[1 .. 0] = base
      BY <3>1, IterationEmpty
    <3>. QED
      BY <2>1, <3>2
  <2>. HIDE DEF len
  <2>3. n - 1 \in Nat /\ n - 1 <= len /\ n \in 1 .. len /\ ~(n <= n - 1)
    BY <1>1, <2>1, <2>2
  <2>4. f[1 .. n - 1] \in T[n - 1]
    BY <2>1, <2>3
  <2>5. f[1 .. n] = Op(f[1 .. n - 1], s[n])
    <3>1. n \in Nat /\ 1 .. n \subseteq DOMAIN s
      BY <1>1, <2>3
    <3>. QED
      BY <2>2, <3>1, IterationNext
  <2>6. Op(f[1 .. n - 1], s[n]) \in T[n]
    BY <2>3, <2>4 DEF len
  <2>. QED
    BY <2>1, <2>5, <2>6
<1>. QED
  BY <1>2

(* The iteration of a sequence, which FoldLeft ends. *)
LEMMA IterationOf ==
  ASSUME NEW base, NEW S, NEW s \in Seq(S)
  PROVE  \E it : Iterates(it, base, s) /\ FoldLeft(Op, base, s) = it[1 .. Len(s)]
<1>1. Len(s) \in Nat /\ DOMAIN s = 1 .. Len(s)
  OBVIOUS
<1>2. PICK it : it = CHOOSE f : Iterates(f, base, s)
  OBVIOUS
<1>3. Iterates(it, base, s)
  BY <1>1, <1>2, IterationExists
<1>4. FoldLeft(Op, base, s) = it[1 .. Len(s)]
  BY <1>1, <1>2, FoldIsIteration
<1>. QED
  BY <1>3, <1>4

(* The values the fold goes through. *)
Steps(f, base, s) ==
  f[0] = base /\ \A n \in Nat : n < Len(s) => f[n + 1] = Op(f[n], s[n + 1])

THEOREM FoldSteps ==
  ASSUME NEW base, NEW S, NEW s \in Seq(S)
  PROVE  \E f : Steps(f, base, s) /\ FoldLeft(Op, base, s) = f[Len(s)]
<1>1. PICK it : Iterates(it, base, s) /\ FoldLeft(Op, base, s) = it[1 .. Len(s)]
  BY IterationOf
<1>2. Len(s) \in Nat /\ DOMAIN s = 1 .. Len(s)
  OBVIOUS
<1>3. PICK f : f = [n \in Nat |-> it[1 .. n]]
  OBVIOUS
<1>4. f[0] = base
  <2>1. 1 .. 0 = {} /\ f[0] = it[1 .. 0]
    BY <1>3
  <2>. QED
    BY <1>1, <2>1, IterationEmpty
<1>5. ASSUME NEW n \in Nat, n < Len(s)
      PROVE  f[n + 1] = Op(f[n], s[n + 1])
  <2>1. PICK m \in Nat : m = n + 1 /\ m # 0 /\ m - 1 = n /\ 1 .. m \subseteq DOMAIN s
    BY <1>2, <1>5
  <2>2. it[1 .. m] = Op(it[1 .. m - 1], s[m])
    BY <1>1, <2>1, IterationNext
  <2>3. f[m] = it[1 .. m] /\ f[n] = it[1 .. n]
    BY <1>3
  <2>. QED
    BY <2>1, <2>2, <2>3
<1>6. f[Len(s)] = it[1 .. Len(s)]
  BY <1>2, <1>3
<1>. QED
  BY <1>1, <1>4, <1>5, <1>6 DEF Steps

(* The same of a fold over the positions of a sequence. *)
StepsOver(f, base, s) ==
  f[0] = base /\ \A n \in Nat : n < Len(s) => f[n + 1] = Op(f[n], n + 1)

THEOREM FoldPositions ==
  ASSUME NEW base, NEW S, NEW s \in Seq(S), NEW p, p = [i \in DOMAIN s |-> i]
  PROVE  \E f : StepsOver(f, base, s) /\ FoldLeft(Op, base, p) = f[Len(s)]
<1>2. Len(s) \in Nat /\ p \in Seq(Nat) /\ Len(p) = Len(s) /\ \A i \in 1 .. Len(s) : p[i] = i
  <2>1. DOMAIN s = 1 .. Len(s) /\ Len(s) \in Nat
    OBVIOUS
  <2>. QED
    BY <2>1
<1>3. PICK f : Steps(f, base, p) /\ FoldLeft(Op, base, p) = f[Len(p)]
  BY <1>2, FoldSteps
<1>4. \A n \in Nat : n < Len(s) => f[n + 1] = Op(f[n], n + 1)
  <2>1. \A n \in Nat : n < Len(s) => n + 1 \in 1 .. Len(s)
    BY <1>2
  <2>. QED
    BY <1>2, <1>3, <2>1 DEF Steps
<1>. QED
  BY <1>2, <1>3, <1>4 DEF Steps, StepsOver

(* What the fold ends with has its invariant. *)
THEOREM FoldInvariant ==
  ASSUME NEW base, NEW S, NEW s \in Seq(S), NEW T,
         base \in T[0],
         \A n \in 1 .. Len(s) : \A v \in T[n - 1] : Op(v, s[n]) \in T[n]
  PROVE  FoldLeft(Op, base, s) \in T[Len(s)]
<1>1. PICK it : Iterates(it, base, s) /\ FoldLeft(Op, base, s) = it[1 .. Len(s)]
  BY IterationOf
<1>2. Len(s) \in Nat /\ Len(s) <= Len(s)
  OBVIOUS
<1>3. it[1 .. Len(s)] \in T[Len(s)]
  BY <1>1, <1>2, IterationInvariant
<1>. QED
  BY <1>1, <1>3

(* Every step takes the values of T before it to those after it; and does not
   confuse two of them. *)
Keeps(T, s) == \A n \in 1 .. Len(s) : \A v \in T[n - 1] : Op(v, s[n]) \in T[n]
Separates(T, s) ==
  \A n \in 1 .. Len(s) : \A v, w \in T[n - 1] : Op(v, s[n]) = Op(w, s[n]) => v = w

(* Where no step confuses two values, the fold does not either. *)
THEOREM FoldInjective ==
  ASSUME NEW a, NEW b, NEW S, NEW s \in Seq(S), NEW T,
         a \in T[0], b \in T[0], Keeps(T, s), Separates(T, s),
         FoldLeft(Op, a, s) = FoldLeft(Op, b, s)
  PROVE  a = b
<1>. USE DEF Keeps, Separates
<1>1. PICK f : Iterates(f, a, s) /\ FoldLeft(Op, a, s) = f[1 .. Len(s)]
  BY IterationOf
<1>2. PICK g : Iterates(g, b, s) /\ FoldLeft(Op, b, s) = g[1 .. Len(s)]
  BY IterationOf
<1>. DEFINE Same == {n \in Nat : n <= Len(s) /\ f[1 .. n] = g[1 .. n]}
<1>3. Len(s) \in Nat /\ DOMAIN s = 1 .. Len(s)
  OBVIOUS
<1>4. Len(s) \in Same
  <2>1. f[1 .. Len(s)] = g[1 .. Len(s)]
    BY <1>1, <1>2
  <2>2. Len(s) <= Len(s)
    BY <1>3
  <2>. QED
    BY <1>3, <2>1, <2>2
<1>5. PICK n \in Same : \A m \in Same : n <= m
  BY <1>4, LeastOfSet
<1>6. n = 0
  <2>. SUFFICES ASSUME n # 0
                PROVE  FALSE
    OBVIOUS
  <2>1. /\ n \in Nat /\ n - 1 \in Nat /\ n - 1 <= Len(s) /\ n \in 1 .. Len(s)
        /\ 1 .. n \subseteq DOMAIN s /\ ~(n <= n - 1) /\ f[1 .. n] = g[1 .. n]
    BY <1>3, <1>5
  <2>2. f[1 .. n] = Op(f[1 .. n - 1], s[n]) /\ g[1 .. n] = Op(g[1 .. n - 1], s[n])
    BY <1>1, <1>2, <2>1, IterationNext
  <2>3. f[1 .. n - 1] \in T[n - 1] /\ g[1 .. n - 1] \in T[n - 1]
    BY <1>1, <1>2, <2>1, IterationInvariant
  <2>4. f[1 .. n - 1] = g[1 .. n - 1]
    BY <2>1, <2>2, <2>3
  <2>5. n - 1 \in Same
    BY <2>1, <2>4
  <2>. QED
    BY <1>5, <2>1, <2>5
<1>7. f[1 .. 0] = a /\ g[1 .. 0] = b
  <2>1. 1 .. 0 = {}
    OBVIOUS
  <2>. QED
    BY <1>1, <1>2, <2>1, IterationEmpty
<1>. QED
  BY <1>5, <1>6, <1>7

(* The least of two numbers. *)
LEMMA MinOfTwo ==
  ASSUME NEW a \in Nat, NEW b \in Nat
  PROVE  /\ a <= b => Min({a, b}) = a
         /\ b <= a => Min({a, b}) = b
<1>1. \E x \in {a, b} : \A y \in {a, b} : x <= y
  OBVIOUS
<1>2. Min({a, b}) \in {a, b} /\ \A y \in {a, b} : Min({a, b}) <= y
  BY <1>1 DEF Min
<1>. QED
  BY <1>2

(* The values of a sequence of numbers are bounded. *)
LEMMA BoundOfValues ==
  ASSUME NEW s \in Seq(Nat)
  PROVE  \E b \in Nat : \A i \in DOMAIN s : s[i] <= b
<1>. DEFINE Bounded(n) == \E b \in Nat : \A i \in 1 .. n : s[i] <= b
            Lost == {n \in Nat : n <= Len(s) /\ ~Bounded(n)}
<1>0. Len(s) \in Nat /\ DOMAIN s = 1 .. Len(s) /\ \A i \in 1 .. Len(s) : s[i] \in Nat
  OBVIOUS
<1>1. Lost = {}
  <2>. SUFFICES ASSUME Lost # {}
                PROVE  FALSE
    OBVIOUS
  <2>1. PICK n \in Lost : \A m \in Lost : n <= m
    BY LeastOfSet
  <2>2. n # 0
    <3>1. \A i \in 1 .. 0 : s[i] <= 0
      OBVIOUS
    <3>2. Bounded(0)
      BY <3>1
    <3>. QED
      BY <2>1, <3>2
  <2>3. n - 1 \in Nat /\ n \in Nat /\ n - 1 <= Len(s) /\ n \in 1 .. Len(s) /\ ~(n <= n - 1)
    <3>1. n \in Nat /\ n <= Len(s)
      BY <2>1
    <3>. QED
      BY <3>1, <2>2
  <2>4. Bounded(n - 1)
    <3>. HIDE DEF Bounded
    <3>. QED
      BY <2>1, <2>3
  <2>. HIDE DEF Lost
  <2>5. PICK b \in Nat : \A i \in 1 .. n - 1 : s[i] <= b
    BY <2>4
  <2>6. s[n] \in Nat /\ b + s[n] \in Nat
    BY <1>0, <2>3
  <2>7. \A i \in 1 .. n : s[i] <= b + s[n]
    <3>1. \A i \in 1 .. n : (i \in 1 .. n - 1 \/ i = n) /\ i \in 1 .. Len(s) /\ s[i] \in Nat
      BY <1>0, <2>3
    <3>2. b <= b + s[n] /\ s[n] <= b + s[n]
      BY <2>6
    <3>3. ASSUME NEW i \in 1 .. n
          PROVE  s[i] <= b + s[n]
      <4>1. CASE i = n
        BY <3>2, <4>1
      <4>2. CASE i \in 1 .. n - 1
        <5>1. s[i] \in Nat /\ s[i] <= b
          BY <2>5, <3>1, <4>2
        <5>. QED
          BY <2>6, <3>2, <5>1
      <4>. QED
        BY <3>1, <4>1, <4>2
    <3>. QED
      BY <3>3
  <2>8. Bounded(n)
    BY <2>6, <2>7
  <2>. HIDE DEF Bounded
  <2>. QED
    BY <2>1, <2>8 DEF Lost
<1>2. Bounded(Len(s))
  <2>1. Len(s) \in Nat /\ Len(s) <= Len(s)
    OBVIOUS
  <2>. HIDE DEF Bounded
  <2>. QED
    BY <1>1, <2>1
<1>. QED
  BY <1>0, <1>2

=============================================================================
