------------------------- MODULE PseudonymizerProofs ------------------------
(***************************************************************************)
(* Proofs about the Pseudonymizer: its guarantees hold for every HMAC,     *)
(* cache capacity, range of integers, set of groups and order of the       *)
(* cells.                                                                  *)
(*                                                                         *)
(* The argument: a pseudonym, once issued, is what derivation would give   *)
(* in every later state (Settled).  Candidates rejected at the time stay   *)
(* rejected, because no claim is ever given up (RejectionsPersist); the    *)
(* accepted one stays acceptable, because its claim keeps every other key  *)
(* away from it (OnlyStoredRejected, IntegersClaimed).  So it does not     *)
(* matter whether the cache still holds it.                                *)
(*                                                                         *)
(* What the manager keeps: its cache stays within its capacity, and its    *)
(* reverse lookup only holds what was issued (ClaimsIssued).  Were a claim *)
(* handed over to a key that prints differently, one pseudonym would stand *)
(* for both, which Injective rules out.  So a claim stays with its key.    *)
(***************************************************************************)
EXTENDS Pseudonymizer, FiniteSetTheorems, SequenceTheorems, WellFoundedInduction, TLAPS

(* The size of a finite range of integers is a natural number. *)
LEMMA SpanType == Span \in Nat
BY StoreAssumption, FS_CardinalityType DEF Span

(* Every nonempty set of counters has a least one. *)
LEMMA LeastElement ==
  ASSUME NEW T, T \subseteq Nat, T # {}
  PROVE  \E n \in T : \A m \in T : n <= m
<1>1. PICK n \in T : \A m \in T : ~(<<m, n>> \in OpToRel(<, Nat))
  BY NatLessThanWellFounded, WFMin
<1>2. \A m \in T : ~(m < n)
  BY <1>1 DEF OpToRel
<1>. QED
  BY <1>2

(* Moving a key to the end of the OrderedDict first takes it out of its place:
   the others keep their order. *)
LEMMA RemoveAtEntries ==
  ASSUME NEW S, NEW c \in Seq(S), NEW i \in DOMAIN c
  PROVE  /\ RemoveAt(c, i) \in Seq(S)
         /\ Len(RemoveAt(c, i)) = Len(c) - 1
         /\ \A j \in 1 .. Len(c) - 1 : RemoveAt(c, i)[j] = IF j < i THEN c[j] ELSE c[j+1]
<1>. DEFINE front == SubSeq(c, 1, i-1)
            back  == SubSeq(c, i+1, Len(c))
<1>1. i \in 1 .. Len(c) /\ Len(c) \in Nat
  OBVIOUS
<1>2. /\ front \in Seq(S) /\ Len(front) = i - 1
      /\ \A j \in 1 .. i-1 : front[j] = c[j]
  BY <1>1, SubSeqProperties
<1>3. /\ back \in Seq(S) /\ Len(back) = Len(c) - i
      /\ \A j \in 1 .. Len(c)-i : back[j] = c[i + j]
  BY <1>1, SubSeqProperties
<1>4. RemoveAt(c, i) = front \o back
  BY DEF RemoveAt
<1>. HIDE DEF front, back
<1>5. /\ front \o back \in Seq(S)
      /\ Len(front \o back) = Len(c) - 1
  BY <1>1, <1>2, <1>3, ConcatProperties
<1>6. ASSUME NEW j \in 1 .. Len(c) - 1
      PROVE  (front \o back)[j] = IF j < i THEN c[j] ELSE c[j+1]
  <2>1. (front \o back)[j] = IF j <= Len(front) THEN front[j] ELSE back[j - Len(front)]
    BY <1>1, <1>2, <1>3, ConcatProperties
  <2>2. CASE j < i
    BY <2>1, <2>2, <1>1, <1>2
  <2>3. CASE ~(j < i)
    <3>1. j - Len(front) \in 1 .. Len(c) - i /\ i + (j - Len(front)) = j + 1
      BY <2>3, <1>1, <1>2
    <3>2. back[j - Len(front)] = c[j + 1]
      BY <3>1, <1>3
    <3>3. ~(j <= Len(front))
      BY <2>3, <1>1, <1>2
    <3>. QED
      BY <2>1, <2>3, <3>2, <3>3
  <2>. QED
    BY <2>2, <2>3
<1>. QED
  BY <1>4, <1>5, <1>6

-----------------------------------------------------------------------------
(* Lemmas about the store. *)

(* Reading the cache returns an entry of it and only reorders its entries. *)
LEMMA TouchEntries ==
  ASSUME NEW c \in Seq(Entry), NEW r, Holds(c, r)
  PROVE  /\ Position(c, r) \in DOMAIN c /\ c[Position(c, r)].raw = r
         /\ Touch(c, r) \in Seq(Entry)
         /\ \A j \in DOMAIN Touch(c, r) : \E k \in DOMAIN c : Touch(c, r)[j] = c[k]
<1>. DEFINE i == Position(c, r)
<1>1. i \in DOMAIN c /\ c[i].raw = r
  BY DEF Holds, Position
<1>. DEFINE rest == RemoveAt(c, i)
<1>. HIDE DEF i
<1>2. /\ rest \in Seq(Entry) /\ Len(rest) = Len(c) - 1
      /\ \A j \in 1 .. Len(c) - 1 : rest[j] = IF j < i THEN c[j] ELSE c[j+1]
  BY <1>1, RemoveAtEntries
<1>3. c[i] \in Entry /\ i \in 1 .. Len(c) /\ Len(c) \in Nat
  BY <1>1
<1>. HIDE DEF rest
<1>4. Touch(c, r) = Append(rest, c[i])
  BY DEF Touch, rest, i
<1>5. /\ Append(rest, c[i]) \in Seq(Entry)
      /\ DOMAIN Append(rest, c[i]) = 1 .. Len(c)
      /\ Append(rest, c[i])[Len(c)] = c[i]
      /\ \A j \in 1 .. Len(c) - 1 : Append(rest, c[i])[j] = rest[j]
  BY <1>2, <1>3, AppendProperties
<1>6. ASSUME NEW j \in 1 .. Len(c)
      PROVE  \E k \in DOMAIN c : Append(rest, c[i])[j] = c[k]
  <2>1. CASE j = Len(c)
    BY <2>1, <1>1, <1>5
  <2>2. CASE j # Len(c)
    <3>1. j \in 1 .. Len(c) - 1 /\ j + 1 \in 1 .. Len(c)
      BY <2>2, <1>3
    <3>2. Append(rest, c[i])[j] \in {c[j], c[j+1]}
      BY <3>1, <1>2, <1>5
    <3>3. j \in DOMAIN c /\ j + 1 \in DOMAIN c
      BY <3>1
    <3>. QED
      BY <3>2, <3>3
  <2>. QED
    BY <2>1, <2>2
<1>. QED
  BY <1>1, <1>4, <1>5, <1>6 DEF i

(* Storing keeps old entries or drops them, and adds only the new one. *)
LEMMA PutEntries ==
  ASSUME NEW c \in Seq(Entry), NEW r \in Raw, NEW p \in Pseudonym
  PROVE  /\ Put(c, r, p) \in Seq(Entry)
         /\ \A j \in DOMAIN Put(c, r, p) :
              \/ Put(c, r, p)[j] = [raw |-> r, masked |-> p]
              \/ \E k \in DOMAIN c : Put(c, r, p)[j] = c[k]
<1>. DEFINE e == [raw |-> r, masked |-> p]
            others == IF Holds(c, r) THEN RemoveAt(c, Position(c, r)) ELSE c
            grown == Append(others, e)
<1>1. e \in Entry
  BY DEF Entry
<1>2. /\ others \in Seq(Entry)
      /\ \A j \in DOMAIN others : \E k \in DOMAIN c : others[j] = c[k]
  <2>1. CASE Holds(c, r)
    <3>. DEFINE i == Position(c, r)
    <3>1. i \in DOMAIN c
      BY <2>1 DEF Holds, Position
    <3>. HIDE DEF i
    <3>2. /\ RemoveAt(c, i) \in Seq(Entry) /\ Len(RemoveAt(c, i)) = Len(c) - 1
          /\ \A j \in 1 .. Len(c) - 1 : RemoveAt(c, i)[j] = IF j < i THEN c[j] ELSE c[j+1]
      BY <3>1, RemoveAtEntries
    <3>3. DOMAIN RemoveAt(c, i) = 1 .. Len(c) - 1 /\ Len(c) \in Nat
      BY <3>2
    <3>4. ASSUME NEW j \in 1 .. Len(c) - 1
          PROVE  \E k \in DOMAIN c : RemoveAt(c, i)[j] = c[k]
      BY <3>2, <3>3, j \in 1 .. Len(c), j + 1 \in 1 .. Len(c)
    <3>5. others = RemoveAt(c, i)
      BY <2>1 DEF i
    <3>. QED
      BY <3>2, <3>3, <3>4, <3>5
  <2>2. CASE ~Holds(c, r)
    BY <2>2
  <2>. QED
    BY <2>1, <2>2
<1>. HIDE DEF e, others
<1>3. /\ grown \in Seq(Entry)
      /\ Len(grown) = Len(others) + 1 /\ Len(others) \in Nat
      /\ grown[Len(others) + 1] = e
      /\ \A j \in 1 .. Len(others) : grown[j] = others[j]
  BY <1>1, <1>2, AppendProperties
<1>4. ASSUME NEW j \in DOMAIN grown
      PROVE  grown[j] = e \/ \E k \in DOMAIN c : grown[j] = c[k]
  BY <1>2, <1>3
<1>. HIDE DEF grown
<1>5. /\ Tail(grown) \in Seq(Entry)
      /\ \A j \in DOMAIN Tail(grown) : Tail(grown)[j] = grown[j+1] /\ j + 1 \in DOMAIN grown
  BY <1>3, HeadTailProperties
<1>6. Put(c, r, p) = IF Len(grown) > Capacity THEN Tail(grown) ELSE grown
  BY DEF Put, grown, others, e
<1>. QED
  BY <1>3, <1>4, <1>5, <1>6 DEF e

(* The integer branch settles on the least counter that is not rejected. *)
LEMMA FirstFreeIsLeast ==
  ASSUME NEW s, NEW r, Free(s, r) # {}
  PROVE  FirstFree(s, r) \in Free(s, r) /\ \A m \in Free(s, r) : FirstFree(s, r) <= m
<1>1. Free(s, r) \subseteq Nat
  BY SpanType DEF Free
<1>2. \E n \in Free(s, r) : \A m \in Free(s, r) : n <= m
  BY <1>1, LeastElement
<1>. QED
  BY <1>2 DEF FirstFree

(* What is derived is a pseudonym, and it does not collide. *)
LEMMA DeriveFresh ==
  ASSUME NEW s, NEW method \in Method, NEW r \in Raw, ~Exhausted(s, method, r)
  PROVE  /\ Derive(s, method, r) \in Pseudonym
         /\ IntegerBranch(method, r) =>
              /\ Derive(s, method, r) \in IntPseudonym
              /\ ~IsCollision(s, r, Derive(s, method, r))
         /\ ~IntegerBranch(method, r) => Derive(s, method, r) \in HexPseudonym
<1>1. r.text \in Text
  BY StoreAssumption DEF Raw
<1>2. CASE IntegerBranch(method, r)
  <2>1. FirstFree(s, r) \in Free(s, r)
    BY <1>2, FirstFreeIsLeast DEF Exhausted
  <2>2. FirstFree(s, r) \in 0 .. Span /\ ~IsCollision(s, r, Probe[r.text][FirstFree(s, r)])
    BY <2>1 DEF Free
  <2>. QED
    BY <1>1, <1>2, <2>2, StoreAssumption DEF Derive, IntegerPseudonym, Pseudonym
<1>3. CASE ~IntegerBranch(method, r)
  BY <1>1, <1>3, StoreAssumption DEF Derive, Pseudonym
<1>. QED
  BY <1>2, <1>3

(* Storing a pseudonym turns no rejection into an acceptance, as long as it
   does not itself take over the claim of another key. *)
LEMMA RejectionsPersist ==
  ASSUME NEW s, NEW r, NEW p, NEW u, NEW q,
         IsCollision(s, u, q), q = p => ~IsCollision(s, r, p)
  PROVE  IsCollision(StoreCachedValue(s, r, p), u, q)
BY DEF IsCollision, StoreCachedValue

(* Storing a pseudonym p for r makes no pseudonym other than p a collision,
   and p only for the keys that print differently from r. *)
LEMMA OnlyStoredRejected ==
  ASSUME NEW s, NEW r, NEW p, NEW u, NEW q,
         ~IsCollision(s, u, q), q = p => u.text = r.text
  PROVE  ~IsCollision(StoreCachedValue(s, r, p), u, q)
BY DEF IsCollision, StoreCachedValue

(* A derivation gives the same result in any later store in which what it
   rejected is still rejected and what it accepted is still accepted. *)
LEMMA DeriveStable ==
  ASSUME NEW s, NEW t, NEW method \in Method, NEW u \in Raw,
         ~Exhausted(s, method, u),
         IntegerBranch(method, u) =>
           /\ \A q \in IntPseudonym : IsCollision(s, u, q) => IsCollision(t, u, q)
           /\ ~IsCollision(t, u, Derive(s, method, u))
  PROVE  ~Exhausted(t, method, u) /\ Derive(t, method, u) = Derive(s, method, u)
<1>1. CASE ~IntegerBranch(method, u)
  BY <1>1 DEF Exhausted, Derive
<1>2. CASE IntegerBranch(method, u)
  <2>. DEFINE n == FirstFree(s, u)
  <2>1. n \in Free(s, u) /\ \A m \in Free(s, u) : n <= m
    BY <1>2, FirstFreeIsLeast DEF Exhausted
  <2>2. Free(t, u) \subseteq Free(s, u)
    <3>1. \A m \in 0 .. Span : Probe[u.text][m] \in IntPseudonym
      BY StoreAssumption DEF Raw
    <3>. QED
      BY <1>2, <3>1 DEF Free
  <2>3. n \in Free(t, u)
    BY <1>2, <2>1 DEF Free, Derive, IntegerPseudonym
  <2>4. FirstFree(t, u) = n
    <3>1. FirstFree(t, u) \in Free(t, u) /\ \A m \in Free(t, u) : FirstFree(t, u) <= m
      BY <2>3, FirstFreeIsLeast
    <3>2. FirstFree(t, u) \in Nat /\ n \in Nat
      BY <3>1, <2>1, SpanType DEF Free
    <3>. QED
      BY <2>1, <2>2, <2>3, <3>1, <3>2
  <2>. QED
    BY <1>2, <2>3, <2>4 DEF Exhausted, Derive, IntegerPseudonym
<1>. QED
  BY <1>1, <1>2

(* Whether a key collides depends on how it prints only, and so does what a
   branch derives for it. *)
LEMMA DeriveByText ==
  ASSUME NEW s, NEW m1 \in Method, NEW m2 \in Method, NEW u, NEW v, u.text = v.text,
         IntegerBranch(m1, u) <=> IntegerBranch(m2, v)
  PROVE  /\ Exhausted(s, m1, u) <=> Exhausted(s, m2, v)
         /\ Derive(s, m1, u) = Derive(s, m2, v)
<1>1. Free(s, u) = Free(s, v)
  BY DEF Free, IsCollision
<1>2. FirstFree(s, u) = FirstFree(s, v)
  BY <1>1 DEF FirstFree
<1>. QED
  BY <1>1, <1>2 DEF Exhausted, Derive, IntegerPseudonym

-----------------------------------------------------------------------------
(* The inductive invariant. *)

(* A cell of the input names a column with a group and a method, and a raw
   value. *)
LEMMA InputCell ==
  ASSUME NEW cell \in Input
  PROVE  cell[1] \in Column /\ cell[2] \in Raw
         /\ GroupOf[cell[1]] \in Group /\ MethodOf[cell[1]] \in Method
BY InputAssumption

(* A new engine, with empty stores, satisfies the invariant. *)
LEMMA InitIInv == Init => IInv
<1>. SUFFICES ASSUME Init PROVE IInv
  OBVIOUS
<1>1. IsStore(EmptyStore) /\ EmptyStore.cache = << >>
  BY DEF EmptyStore, IsStore
<1>2. \A g \in Group : store[g] = EmptyStore
  BY DEF Init
<1>3. TypeOK
  <2>1. store = [g \in Group |-> store[g]]
    BY DEF Init
  <2>. QED
    BY <1>1, <1>2, <2>1 DEF Init, TypeOK
<1>4. CacheIssued
  BY <1>1, <1>2 DEF CacheIssued
<1>5. Settled /\ IntegersClaimed
  BY DEF Init, Settled, IntegersClaimed
<1>. QED
  BY <1>3, <1>4, <1>5 DEF IInv

(* A cache hit repeats a pseudonym that was issued for a key that prints the
   same, and changes nothing but the order of the cache. *)
LEMMA CachedStep ==
  ASSUME UniformTyping, IInv, NEW cell \in Input, MaskCached(cell[1], cell[2])
  PROVE  IInv'
<1>. DEFINE c == cell[1]
            r == cell[2]
            g == GroupOf[c]
<1>1. c \in Column /\ r \in Raw /\ g \in Group /\ MethodOf[c] \in Method
  BY InputCell
<1>2. PICK k \in HitKeys(store[g], r) :
        /\ store' = [store EXCEPT ![g].cache = Touch(@, k)]
        /\ Emit(g, r, Fetch(store[g].cache, k))
  BY DEF MaskCached
<1>. DEFINE cache == store[g].cache
            p == Fetch(cache, k)
<1>3. Holds(cache, k) /\ (k = r \/ k \in Aliases(r)) /\ CacheEnabled
  BY DEF HitKeys
<1>4. cache \in Seq(Entry) /\ IsStore(store[g])
  BY <1>1 DEF IInv, TypeOK, IsStore
<1>5. PICK i \in DOMAIN cache : i = Position(cache, k) /\ cache[i].raw = k
  BY <1>3, <1>4, TouchEntries
<1>6. [group |-> g, raw |-> k, masked |-> p] \in issued
  BY <1>1, <1>5 DEF IInv, CacheIssued, Fetch
<1>7. PICK old \in Input :
        /\ GroupOf[old[1]] = g
        /\ old[2] = k
        /\ ~Exhausted(store[g], MethodOf[old[1]], k)
        /\ p = Derive(store[g], MethodOf[old[1]], k)
  BY <1>6 DEF IInv, Settled
<1>8. k.text = r.text /\ (IntegerBranch(MethodOf[old[1]], k) <=> IntegerBranch(MethodOf[c], r))
  BY <1>3, <1>7 DEF UniformTyping
<1>9. ~Exhausted(store[g], MethodOf[c], r) /\ p = Derive(store[g], MethodOf[c], r)
  BY <1>1, <1>7, <1>8, InputCell, DeriveByText
<1>. DEFINE new == [group |-> g, raw |-> r, masked |-> p]
<1>10. issued' = issued \cup {new} /\ failed' = failed
  BY <1>2 DEF Emit, MaskCached
<1>11. new \in Issue
  BY <1>1, <1>9, DeriveFresh DEF Issue
<1>12. /\ Touch(cache, k) \in Seq(Entry)
       /\ \A j \in DOMAIN Touch(cache, k) : \E l \in DOMAIN cache : Touch(cache, k)[j] = cache[l]
  BY <1>3, <1>4, TouchEntries
<1>13. /\ store' = [h \in Group |-> store'[h]]
       /\ \A h \in Group : store'[h].rev = store[h].rev
       /\ \A h \in Group \ {g} : store'[h] = store[h]
       /\ store'[g] = [cache |-> Touch(cache, k), rev |-> store[g].rev]
  BY <1>1, <1>2, <1>4 DEF IInv, TypeOK, IsStore
<1>. HIDE DEF c, r, g, cache, p, new
<1>14. TypeOK'
  <2>1. IsStore(store'[g])
    BY <1>4, <1>12, <1>13 DEF IsStore
  <2>. QED
    BY <1>10, <1>11, <1>13, <2>1 DEF IInv, TypeOK
<1>15. \A h \in Group : \A u, q : IsCollision(store'[h], u, q) <=> IsCollision(store[h], u, q)
  BY <1>13 DEF IsCollision
<1>16. \A h \in Group : \A m, u :
         /\ Exhausted(store'[h], m, u) <=> Exhausted(store[h], m, u)
         /\ Derive(store'[h], m, u) = Derive(store[h], m, u)
  <2>. TAKE h \in Group
  <2>. TAKE m, u
  <2>1. Free(store'[h], u) = Free(store[h], u)
    BY <1>15 DEF Free
  <2>2. FirstFree(store'[h], u) = FirstFree(store[h], u)
    BY <2>1 DEF FirstFree
  <2>. QED
    BY <2>1, <2>2 DEF Exhausted, Derive, IntegerPseudonym
<1>17. Settled'
  <2>. SUFFICES ASSUME NEW x \in issued'
                PROVE  \E z \in Input :
                         /\ GroupOf[z[1]] = x.group /\ z[2] = x.raw
                         /\ ~Exhausted(store'[x.group], MethodOf[z[1]], x.raw)
                         /\ x.masked = Derive(store'[x.group], MethodOf[z[1]], x.raw)
    BY DEF Settled
  <2>1. x.group \in Group
    BY <1>10, <1>11 DEF IInv, TypeOK, Issue
  <2>2. CASE x \in issued
    BY <2>1, <2>2, <1>16 DEF IInv, Settled
  <2>3. CASE x = new
    BY <2>1, <2>3, <1>9, <1>16 DEF new, c, r, g
  <2>. QED
    BY <1>10, <2>2, <2>3
<1>18. CacheIssued'
  BY <1>10, <1>12, <1>13 DEF IInv, CacheIssued, cache
<1>19. IntegersClaimed'
  <2>. SUFFICES ASSUME NEW x \in issued', x.masked \in IntPseudonym
                PROVE  /\ x.masked \in DOMAIN store'[x.group].rev
                       /\ store'[x.group].rev[x.masked].text = x.raw.text
    BY DEF IntegersClaimed
  <2>1. x.group \in Group
    BY <1>10, <1>11 DEF IInv, TypeOK, Issue
  <2>2. CASE x \in issued
    BY <2>1, <2>2, <1>3, <1>13 DEF IInv, IntegersClaimed
  <2>3. CASE x = new
    BY <2>1, <2>3, <1>3, <1>6, <1>8, <1>13 DEF IInv, IntegersClaimed, new
  <2>. QED
    BY <1>10, <2>2, <2>3
<1>. QED
  BY <1>14, <1>17, <1>18, <1>19 DEF IInv

(* Storing a derived pseudonym p for the key r leaves everything issued
   before as it was: p was free for r, so it took over nobody's claim. *)
LEMMA DerivedStep ==
  ASSUME IInv, NEW cell \in Input, MaskDerived(cell[1], cell[2])
  PROVE  IInv'
<1>. DEFINE c == cell[1]
            r == cell[2]
            g == GroupOf[c]
            p == Derive(store[g], MethodOf[c], r)
            new == [group |-> g, raw |-> r, masked |-> p]
<1>1. c \in Column /\ r \in Raw /\ g \in Group /\ MethodOf[c] \in Method
  BY InputCell
<1>2. /\ ~Exhausted(store[g], MethodOf[c], r)
      /\ store' = [store EXCEPT ![g] = StoreCachedValue(store[g], r, p)]
      /\ issued' = issued \cup {new} /\ failed' = failed
  BY DEF MaskDerived, Emit
<1>3. /\ p \in Pseudonym
      /\ p \in IntPseudonym => IntegerBranch(MethodOf[c], r) /\ ~IsCollision(store[g], r, p)
  BY <1>1, <1>2, DeriveFresh, StoreAssumption
<1>4. /\ store' = [h \in Group |-> store'[h]]
      /\ \A h \in Group \ {g} : store'[h] = store[h]
      /\ store'[g] = StoreCachedValue(store[g], r, p)
      /\ IsStore(store[g])
  BY <1>1, <1>2 DEF IInv, TypeOK
<1>5. new \in Issue
  BY <1>1, <1>3 DEF Issue
<1>6. store[g].cache \in Seq(Entry)
  BY <1>4 DEF IsStore
<1>7. /\ Put(store[g].cache, r, p) \in Seq(Entry)
      /\ \A j \in DOMAIN Put(store[g].cache, r, p) :
           \/ Put(store[g].cache, r, p)[j] = [raw |-> r, masked |-> p]
           \/ \E k \in DOMAIN store[g].cache : Put(store[g].cache, r, p)[j] = store[g].cache[k]
  BY <1>1, <1>3, <1>6, PutEntries
<1>8. new.group = g /\ new.raw = r /\ new.masked = p
  OBVIOUS
<1>9. g = GroupOf[cell[1]] /\ r = cell[2] /\ c = cell[1] /\ p = Derive(store[g], MethodOf[c], r)
  OBVIOUS
<1>. HIDE DEF c, r, g, p, new
<1>10. TypeOK'
  <2>1. IsStore(StoreCachedValue(store[g], r, p))
    BY <1>1, <1>3, <1>4, <1>7 DEF IsStore, StoreCachedValue
  <2>2. \A h \in Group : IsStore(store'[h])
    BY <1>4, <2>1 DEF IInv, TypeOK
  <2>. QED
    BY <1>2, <1>4, <1>5, <2>2 DEF IInv, TypeOK
<1>11. ASSUME NEW x \in issued', x.group = g, x.masked \in IntPseudonym
       PROVE  ~IsCollision(store'[g], x.raw, x.masked)
  <2>1. CASE x = new
    <3>1. ~IsCollision(store[g], r, p)
      BY <1>3, <1>8, <1>11, <2>1
    <3>. QED
      BY <1>4, <1>8, <2>1, <3>1, OnlyStoredRejected
  <2>2. CASE x \in issued
    <3>1. CacheEnabled => /\ x.masked \in DOMAIN store[g].rev
                          /\ store[g].rev[x.masked].text = x.raw.text
      BY <1>11, <2>2 DEF IInv, IntegersClaimed
    <3>2. ~IsCollision(store[g], x.raw, x.masked)
      BY <3>1 DEF IsCollision
    <3>3. CASE CacheEnabled
      <4>1. x.masked = p => x.raw.text = r.text
        BY <1>3, <1>11, <3>1, <3>3 DEF IsCollision
      <4>. QED
        BY <1>4, <3>2, <4>1, OnlyStoredRejected
    <3>4. CASE ~CacheEnabled
      BY <3>4 DEF IsCollision
    <3>. QED
      BY <3>3, <3>4
  <2>. QED
    BY <1>2, <2>1, <2>2
<1>12. ASSUME NEW u, NEW q \in IntPseudonym, IsCollision(store[g], u, q)
       PROVE  IsCollision(store'[g], u, q)
  <2>1. q = p => ~IsCollision(store[g], r, p)
    BY <1>3
  <2>. QED
    BY <1>4, <1>12, <2>1, RejectionsPersist
<1>13. ASSUME NEW x \in issued', x.group = g, NEW z \in Input,
              ~Exhausted(store[g], MethodOf[z[1]], x.raw),
              x.masked = Derive(store[g], MethodOf[z[1]], x.raw)
       PROVE  /\ ~Exhausted(store'[g], MethodOf[z[1]], x.raw)
              /\ x.masked = Derive(store'[g], MethodOf[z[1]], x.raw)
  <2>1. x.raw \in Raw /\ MethodOf[z[1]] \in Method
    BY <1>2, <1>5, InputCell DEF IInv, TypeOK, Issue
  <2>2. IntegerBranch(MethodOf[z[1]], x.raw) => x.masked \in IntPseudonym
    BY <1>13, <2>1, DeriveFresh
  <2>3. IntegerBranch(MethodOf[z[1]], x.raw) => ~IsCollision(store'[g], x.raw, x.masked)
    BY <1>11, <1>13, <2>2
  <2>. QED
    BY <1>12, <1>13, <2>1, <2>3, DeriveStable
<1>14. Settled'
  <2>. SUFFICES ASSUME NEW x \in issued'
                PROVE  \E z \in Input :
                         /\ GroupOf[z[1]] = x.group /\ z[2] = x.raw
                         /\ ~Exhausted(store'[x.group], MethodOf[z[1]], x.raw)
                         /\ x.masked = Derive(store'[x.group], MethodOf[z[1]], x.raw)
    BY DEF Settled
  <2>1. CASE x = new
    BY <1>2, <1>8, <1>9, <1>13, <2>1
  <2>2. CASE x \in issued
    <3>1. PICK z \in Input :
            /\ GroupOf[z[1]] = x.group /\ z[2] = x.raw
            /\ ~Exhausted(store[x.group], MethodOf[z[1]], x.raw)
            /\ x.masked = Derive(store[x.group], MethodOf[z[1]], x.raw)
      BY <2>2 DEF IInv, Settled
    <3>2. CASE x.group = g
      BY <1>13, <3>1, <3>2
    <3>3. CASE x.group # g
      <4>1. store'[x.group] = store[x.group]
        BY <1>4, <2>2, <3>3 DEF IInv, TypeOK, Issue
      <4>. QED
        BY <3>1, <4>1
    <3>. QED
      BY <3>2, <3>3
  <2>. QED
    BY <1>2, <2>1, <2>2
<1>15. CacheIssued'
  <2>. SUFFICES ASSUME NEW h \in Group, NEW i \in DOMAIN store'[h].cache
                PROVE  [group |-> h, raw |-> store'[h].cache[i].raw,
                        masked |-> store'[h].cache[i].masked] \in issued'
    BY DEF CacheIssued
  <2>1. CASE store'[h] = store[h]
    BY <1>2, <2>1 DEF IInv, CacheIssued
  <2>2. CASE store'[h] # store[h]
    <3>1. h = g /\ store'[h].cache = Put(store[g].cache, r, p)
      BY <1>4, <2>2 DEF StoreCachedValue
    <3>2. CASE store'[h].cache[i] = [raw |-> r, masked |-> p]
      BY <1>2, <3>1, <3>2 DEF new
    <3>3. CASE \E k \in DOMAIN store[g].cache : store'[h].cache[i] = store[g].cache[k]
      BY <1>1, <1>2, <3>1, <3>3 DEF IInv, CacheIssued
    <3>. QED
      BY <1>7, <3>1, <3>2, <3>3
  <2>. QED
    BY <2>1, <2>2
<1>16. IntegersClaimed'
  <2>. SUFFICES ASSUME CacheEnabled, NEW x \in issued', x.masked \in IntPseudonym
                PROVE  /\ x.masked \in DOMAIN store'[x.group].rev
                       /\ store'[x.group].rev[x.masked].text = x.raw.text
    BY DEF IntegersClaimed
  <2>1. store'[g].rev = [q \in DOMAIN store[g].rev \cup {p} |-> IF q = p THEN r ELSE store[g].rev[q]]
    BY <1>4 DEF StoreCachedValue
  <2>2. CASE x = new
    BY <1>8, <2>1, <2>2
  <2>3. CASE x \in issued
    <3>1. /\ x.masked \in DOMAIN store[x.group].rev
          /\ store[x.group].rev[x.masked].text = x.raw.text
      BY <2>3 DEF IInv, IntegersClaimed
    <3>2. CASE x.group = g
      <4>1. x.masked = p => x.raw.text = r.text
        BY <1>3, <3>1, <3>2 DEF IsCollision
      <4>. QED
        BY <2>1, <3>1, <3>2, <4>1
    <3>3. CASE x.group # g
      BY <1>4, <2>3, <3>1, <3>3 DEF IInv, TypeOK, Issue
    <3>. QED
      BY <3>2, <3>3
  <2>. QED
    BY <1>2, <2>2, <2>3
<1>. QED
  BY <1>10, <1>14, <1>15, <1>16 DEF IInv

(* Every cell masked preserves the invariant; so does the error that ends a
   run. *)
LEMMA StepIInv == UniformTyping /\ IInv /\ [Next]_vars => IInv'
<1>. SUFFICES ASSUME UniformTyping, IInv, [Next]_vars PROVE IInv'
  OBVIOUS
<1>1. CASE Next
  <2>1. PICK cell \in Input :
          \/ MaskCached(cell[1], cell[2])
          \/ MaskDerived(cell[1], cell[2])
          \/ MaskExhausted(cell[1], cell[2])
    BY <1>1 DEF Next
  <2>2. CASE MaskCached(cell[1], cell[2])
    BY <2>2, CachedStep
  <2>3. CASE MaskDerived(cell[1], cell[2])
    BY <2>3, DerivedStep
  <2>4. CASE MaskExhausted(cell[1], cell[2])
    BY <2>4 DEF MaskExhausted, IInv, TypeOK, Settled, CacheIssued, IntegersClaimed
  <2>. QED
    BY <2>1, <2>2, <2>3, <2>4
<1>2. CASE UNCHANGED vars
  BY <1>2 DEF vars, IInv, TypeOK, Settled, CacheIssued, IntegersClaimed
<1>. QED
  BY <1>1, <1>2

(* The inductive invariant holds in every reachable state of an engine whose
   input is typed uniformly. *)
THEOREM Invariance ==
  ASSUME UniformTyping
  PROVE  Spec => []IInv
<1>1. IInv /\ [Next]_vars => IInv'
  BY StepIInv
<1>. QED
  BY <1>1, InitIInv, PTL DEF Spec

-----------------------------------------------------------------------------
(* The guarantees. *)

(* Two pseudonyms issued for keys that print alike are both what derivation
   gives now, hence the same. *)
LEMMA ConsistentLemma == UniformTyping /\ IInv => Consistent
<1>. SUFFICES ASSUME UniformTyping, IInv, NEW x \in issued, NEW y \in issued,
                     x.group = y.group, x.raw.text = y.raw.text
              PROVE  x.masked = y.masked
  BY DEF Consistent
<1>1. PICK a \in Input :
        /\ GroupOf[a[1]] = x.group /\ a[2] = x.raw
        /\ x.masked = Derive(store[x.group], MethodOf[a[1]], x.raw)
  BY DEF IInv, Settled
<1>2. PICK b \in Input :
        /\ GroupOf[b[1]] = y.group /\ b[2] = y.raw
        /\ y.masked = Derive(store[y.group], MethodOf[b[1]], y.raw)
  BY DEF IInv, Settled
<1>3. IntegerBranch(MethodOf[a[1]], x.raw) <=> IntegerBranch(MethodOf[b[1]], y.raw)
  BY <1>1, <1>2 DEF UniformTyping
<1>. QED
  BY <1>1, <1>2, <1>3, InputCell, DeriveByText

(* Type correctness of the stores, the failure flag and the history. *)
THEOREM TypeCorrect ==
  ASSUME UniformTyping
  PROVE  Spec => []TypeOK
<1>1. IInv => TypeOK
  BY DEF IInv
<1>. QED
  BY <1>1, Invariance, PTL

(* A key gets the same pseudonym in every table of its group, before and
   after its cache entry is evicted, whatever the cache capacity, the HMAC and
   the order of the cells; with the cache on or off. *)
THEOREM Consistency ==
  ASSUME UniformTyping
  PROVE  Spec => []Consistent
BY ConsistentLemma, Invariance, PTL

(* An issued integer is claimed by one key; an issued digest is the digest of
   one key. *)
LEMMA InjectiveLemma ==
  UniformTyping /\ CacheEnabled /\ DigestInjective /\ IInv => Injective
<1>. SUFFICES ASSUME UniformTyping, CacheEnabled, DigestInjective, IInv,
                     NEW x \in issued, NEW y \in issued,
                     x.group = y.group, x.masked = y.masked
              PROVE  x.raw.text = y.raw.text
  BY DEF Injective
<1>1. CASE x.masked \in IntPseudonym
  BY <1>1 DEF IInv, IntegersClaimed
<1>2. CASE x.masked \notin IntPseudonym
  <2>1. ASSUME NEW z \in issued, z.masked \notin IntPseudonym
        PROVE  z.masked = Digest[z.raw.text] /\ z.raw.text \in Text
    <3>1. PICK a \in Input :
            /\ a[2] = z.raw
            /\ ~Exhausted(store[z.group], MethodOf[a[1]], z.raw)
            /\ z.masked = Derive(store[z.group], MethodOf[a[1]], z.raw)
      BY DEF IInv, Settled
    <3>2. ~IntegerBranch(MethodOf[a[1]], z.raw) /\ z.raw \in Raw
      BY <2>1, <3>1, InputCell, DeriveFresh
    <3>. QED
      BY <3>1, <3>2, StoreAssumption DEF Derive, Raw
  <2>. QED
    BY <1>2, <2>1 DEF DigestInjective
<1>. QED
  BY <1>1, <1>2

(* Distinct keys of a group get distinct pseudonyms when the manager is not
   stateless and the digests of the string branch do not collide. *)
THEOREM Injectivity ==
  ASSUME UniformTyping, CacheEnabled, DigestInjective
  PROVE  Spec => []Injective
BY InjectiveLemma, Invariance, PTL

(* Every entry the cache holds is what derivation would give without it. *)
LEMMA TransparentLemma == UniformTyping /\ IInv => CacheTransparent
<1>. SUFFICES ASSUME UniformTyping, IInv, NEW g \in Group,
                     NEW i \in DOMAIN store[g].cache, NEW cell \in Input,
                     GroupOf[cell[1]] = g, cell[2] = store[g].cache[i].raw
              PROVE  /\ ~Exhausted(store[g], MethodOf[cell[1]], cell[2])
                     /\ store[g].cache[i].masked = Derive(store[g], MethodOf[cell[1]], cell[2])
  BY DEF CacheTransparent
<1>1. [group |-> g, raw |-> cell[2], masked |-> store[g].cache[i].masked] \in issued
  BY DEF IInv, CacheIssued
<1>2. PICK a \in Input :
        /\ GroupOf[a[1]] = g /\ a[2] = cell[2]
        /\ ~Exhausted(store[g], MethodOf[a[1]], cell[2])
        /\ store[g].cache[i].masked = Derive(store[g], MethodOf[a[1]], cell[2])
  BY <1>1 DEF IInv, Settled
<1>3. IntegerBranch(MethodOf[a[1]], cell[2]) <=> IntegerBranch(MethodOf[cell[1]], cell[2])
  BY <1>2 DEF UniformTyping
<1>. QED
  BY <1>2, <1>3, InputCell, DeriveByText

(* Evicting any cache entry at any time changes no pseudonym of the run. *)
THEOREM Transparency ==
  ASSUME UniformTyping
  PROVE  Spec => []CacheTransparent
BY TransparentLemma, Invariance, PTL

-----------------------------------------------------------------------------
(* The engine implements the growing one-to-one map of PseudonymMap. *)
THEOREM Refinement ==
  ASSUME UniformTyping, CacheEnabled, DigestInjective
  PROVE  Spec => ImplementsPseudonymMap
<1>1. Init => PM!Init
  BY DEF Init, PM!Init, assigned
<1>2. IInv /\ IInv' /\ [Next]_vars => [PM!Next]_assigned
  <2>. SUFFICES ASSUME IInv, IInv', [Next]_vars PROVE PM!Next \/ assigned' = assigned
    OBVIOUS
  <2>1. Consistent' /\ Injective'
    BY ConsistentLemma, InjectiveLemma, PTL
  <2>2. CASE issued' = issued
    BY <2>2 DEF assigned
  <2>3. ASSUME NEW g \in Group, NEW r, NEW p, Emit(g, r, p)
        PROVE  PM!Next \/ assigned' = assigned
    <3>. DEFINE new == [group |-> g, raw |-> r, masked |-> p]
    <3>1. issued' = issued \cup {new} /\ new \in issued'
      BY <2>3 DEF Emit
    <3>2. new \in Issue
      BY <3>1 DEF IInv, TypeOK
    <3>3. r \in Raw /\ p \in Pseudonym /\ r.text \in Text
      BY <3>2, StoreAssumption DEF Issue, Raw
    <3>4. assigned' = assigned \cup {<<g, r.text, p>>}
      <4>1. new.group = g /\ new.raw = r /\ new.masked = p
        OBVIOUS
      <4>. HIDE DEF new
      <4>2. assigned' = {<<x.group, x.raw.text, x.masked>> : x \in issued \cup {new}}
        BY <3>1 DEF assigned
      <4>. QED
        BY <4>1, <4>2 DEF assigned
    <3>5. CASE <<g, r.text, p>> \in assigned
      BY <3>4, <3>5
    <3>6. CASE <<g, r.text, p>> \notin assigned
      <4>1. ASSUME NEW a \in assigned, a[1] = g
            PROVE  a[2] # r.text /\ a[3] # p
        <5>1. PICK x \in issued : a = <<x.group, x.raw.text, x.masked>>
          BY DEF assigned
        <5>2. x \in issued' /\ x.group = g
          BY <3>1, <4>1, <5>1
        <5>3. x.raw.text = r.text <=> x.masked = p
          BY <2>1, <3>1, <5>2 DEF Consistent, Injective
        <5>. QED
          BY <3>6, <5>1, <5>2, <5>3
      <4>2. PM!Assign(g, r.text, p)
        BY <3>4, <4>1 DEF PM!Assign
      <4>. QED
        BY <3>3, <4>2 DEF PM!Next
    <3>. QED
      BY <3>5, <3>6
  <2>4. ASSUME Next
        PROVE  issued' = issued \/ \E g \in Group : \E r, p : Emit(g, r, p)
    BY <2>4, InputCell DEF Next, MaskCached, MaskDerived, MaskExhausted
  <2>. QED
    BY <2>2, <2>3, <2>4 DEF vars
<1>. QED
  BY <1>1, <1>2, Invariance, PTL DEF Spec, ImplementsPseudonymMap, PM!Spec

-----------------------------------------------------------------------------
(* No key occurs twice in a cache. *)
OneEach(c) == \A i, j \in DOMAIN c : c[i].raw = c[j].raw => i = j

(* Taking an entry out leaves no other entry of its key. *)
LEMMA RemoveAtOneEach ==
  ASSUME NEW c \in Seq(Entry), NEW i \in DOMAIN c, OneEach(c)
  PROVE  /\ OneEach(RemoveAt(c, i))
         /\ \A j \in DOMAIN RemoveAt(c, i) : RemoveAt(c, i)[j].raw # c[i].raw
<1>. DEFINE rest == RemoveAt(c, i)
            from(j) == IF j < i THEN j ELSE j + 1
<1>1. /\ rest \in Seq(Entry) /\ Len(rest) = Len(c) - 1
      /\ \A j \in 1 .. Len(c) - 1 : rest[j] = IF j < i THEN c[j] ELSE c[j+1]
  BY RemoveAtEntries
<1>2. Len(c) \in Nat /\ i \in 1 .. Len(c) /\ DOMAIN c = 1 .. Len(c)
  OBVIOUS
<1>. HIDE DEF rest
<1>3. DOMAIN rest = 1 .. Len(c) - 1
  BY <1>1, <1>2
<1>4. \A j \in DOMAIN rest : from(j) \in DOMAIN c /\ from(j) # i /\ rest[j] = c[from(j)]
  BY <1>1, <1>2, <1>3
<1>5. \A j, k \in DOMAIN rest : from(j) = from(k) => j = k
  BY <1>2, <1>3
<1>. HIDE DEF from
<1>6. OneEach(rest) /\ \A j \in DOMAIN rest : rest[j].raw # c[i].raw
  BY <1>4, <1>5 DEF OneEach
<1>. QED
  BY <1>6 DEF rest

(* Adding an entry for a key that has none leaves one entry for each key. *)
LEMMA AppendOneEach ==
  ASSUME NEW c \in Seq(Entry), NEW e \in Entry, OneEach(c),
         \A j \in DOMAIN c : c[j].raw # e.raw
  PROVE  OneEach(Append(c, e))
<1>1. /\ DOMAIN Append(c, e) = 1 .. Len(c) + 1 /\ DOMAIN c = 1 .. Len(c) /\ Len(c) \in Nat
      /\ Append(c, e)[Len(c) + 1] = e
      /\ \A j \in 1 .. Len(c) : Append(c, e)[j] = c[j]
  BY AppendProperties
<1>. QED
  BY <1>1 DEF OneEach

(* Reading an entry neither adds one nor doubles it. *)
LEMMA TouchBounded ==
  ASSUME NEW c \in Seq(Entry), NEW r, Holds(c, r), OneEach(c)
  PROVE  Len(Touch(c, r)) = Len(c) /\ OneEach(Touch(c, r))
<1>. DEFINE i == Position(c, r)
            rest == RemoveAt(c, i)
<1>1. i \in DOMAIN c
  BY TouchEntries
<1>. HIDE DEF i
<1>2. rest \in Seq(Entry) /\ Len(rest) = Len(c) - 1
  BY <1>1, RemoveAtEntries
<1>3. OneEach(rest) /\ \A j \in DOMAIN rest : rest[j].raw # c[i].raw
  BY <1>1, RemoveAtOneEach
<1>4. c[i] \in Entry /\ Len(c) \in Nat
  BY <1>1
<1>. HIDE DEF rest
<1>5. Len(Append(rest, c[i])) = Len(c) /\ OneEach(Append(rest, c[i]))
  BY <1>2, <1>3, <1>4, AppendOneEach, AppendProperties
<1>. QED
  BY <1>5 DEF Touch, rest, i

(* Storing adds at most one entry, and drops the oldest when there is one
   too many. *)
LEMMA PutBounded ==
  ASSUME NEW c \in Seq(Entry), NEW r \in Raw, NEW p \in Pseudonym,
         Len(c) <= Capacity, OneEach(c)
  PROVE  Len(Put(c, r, p)) <= Capacity /\ OneEach(Put(c, r, p))
<1>. DEFINE e == [raw |-> r, masked |-> p]
            others == IF Holds(c, r) THEN RemoveAt(c, Position(c, r)) ELSE c
            grown == Append(others, e)
<1>1. e \in Entry /\ e.raw = r
  BY DEF Entry
<1>2. /\ others \in Seq(Entry) /\ Len(others) <= Capacity
      /\ OneEach(others) /\ \A j \in DOMAIN others : others[j].raw # r
  <2>1. CASE Holds(c, r)
    <3>. DEFINE i == Position(c, r)
    <3>1. i \in DOMAIN c /\ c[i].raw = r
      BY <2>1, TouchEntries
    <3>. HIDE DEF i
    <3>2. /\ RemoveAt(c, i) \in Seq(Entry) /\ Len(RemoveAt(c, i)) = Len(c) - 1
          /\ OneEach(RemoveAt(c, i))
          /\ \A j \in DOMAIN RemoveAt(c, i) : RemoveAt(c, i)[j].raw # r
      BY <3>1, RemoveAtEntries, RemoveAtOneEach
    <3>3. Len(c) - 1 <= Capacity
      BY StoreAssumption, Len(c) \in Nat
    <3>4. others = RemoveAt(c, i)
      BY <2>1 DEF i
    <3>. QED
      BY <3>2, <3>3, <3>4
  <2>2. CASE ~Holds(c, r)
    BY <2>2 DEF Holds
  <2>. QED
    BY <2>1, <2>2
<1>. HIDE DEF e, others
<1>3. /\ grown \in Seq(Entry) /\ grown # << >> /\ Len(grown) = Len(others) + 1
      /\ OneEach(grown)
  BY <1>1, <1>2, AppendOneEach, AppendProperties
<1>. HIDE DEF grown
<1>4. /\ Len(Tail(grown)) = Len(grown) - 1 /\ DOMAIN Tail(grown) = 1 .. Len(grown) - 1
      /\ DOMAIN grown = 1 .. Len(grown) /\ Len(grown) \in Nat
      /\ \A j \in 1 .. Len(grown) - 1 : Tail(grown)[j] = grown[j + 1]
  BY <1>3, HeadTailProperties
<1>5. OneEach(Tail(grown))
  BY <1>3, <1>4 DEF OneEach
<1>6. Put(c, r, p) = IF Len(grown) > Capacity THEN Tail(grown) ELSE grown
  BY DEF Put, grown, others, e
<1>7. Len(others) \in Nat /\ Capacity \in Nat
  BY <1>2, StoreAssumption
<1>. QED
  BY <1>2, <1>3, <1>4, <1>5, <1>6, <1>7

(* Every step, whatever the configuration, keeps the stores well-formed and
   the caches bounded. *)
LEMMA BoundedStep == TypeOK /\ CacheBounded /\ [Next]_vars => TypeOK' /\ CacheBounded'
<1>. SUFFICES ASSUME TypeOK, CacheBounded, [Next]_vars PROVE TypeOK' /\ CacheBounded'
  OBVIOUS
<1>. DEFINE Kept(c) == Len(c) <= Capacity /\ OneEach(c)
<1>1. \A g \in Group : IsStore(store[g]) /\ store[g].cache \in Seq(Entry) /\ Kept(store[g].cache)
  BY DEF TypeOK, CacheBounded, IsStore, OneEach
<1>2. ASSUME NEW g \in Group, NEW s, IsStore(s), Kept(s.cache), NEW r \in Raw, NEW p \in Pseudonym,
             store' = [store EXCEPT ![g] = s], Emit(g, r, p), failed' = failed
      PROVE  TypeOK' /\ CacheBounded'
  <2>1. /\ store' = [h \in Group |-> store'[h]]
        /\ \A h \in Group : store'[h] = IF h = g THEN s ELSE store[h]
    BY <1>2 DEF TypeOK
  <2>2. \A h \in Group : IsStore(store'[h]) /\ Kept(store'[h].cache)
    BY <1>1, <1>2, <2>1
  <2>3. issued' \subseteq Issue /\ failed' \in BOOLEAN
    BY <1>2 DEF TypeOK, Emit, Issue
  <2>. QED
    BY <2>1, <2>2, <2>3 DEF TypeOK, CacheBounded, OneEach
<1>3. ASSUME NEW cell \in Input, MaskCached(cell[1], cell[2])
      PROVE  TypeOK' /\ CacheBounded'
  <2>. DEFINE g == GroupOf[cell[1]]
              c == store[g].cache
  <2>1. g \in Group /\ cell[2] \in Raw
    BY InputCell
  <2>2. PICK k \in HitKeys(store[g], cell[2]) :
          /\ store' = [store EXCEPT ![g].cache = Touch(@, k)]
          /\ Emit(g, cell[2], Fetch(store[g].cache, k))
    BY <1>3 DEF MaskCached
  <2>3. Holds(c, k) /\ c \in Seq(Entry) /\ Kept(c) /\ IsStore(store[g])
    BY <1>1, <2>1 DEF HitKeys
  <2>4. Fetch(c, k) \in Pseudonym
    <3>1. Position(c, k) \in DOMAIN c
      BY <2>3, TouchEntries
    <3>2. c[Position(c, k)] \in Entry
      BY <2>3, <3>1
    <3>. QED
      BY <3>2 DEF Fetch, Entry
  <2>5. Touch(c, k) \in Seq(Entry) /\ Kept(Touch(c, k))
    BY <2>3, TouchEntries, TouchBounded
  <2>. DEFINE s == [cache |-> Touch(c, k), rev |-> store[g].rev]
  <2>6. IsStore(s) /\ Kept(s.cache)
    BY <2>3, <2>5 DEF IsStore
  <2>7. store' = [store EXCEPT ![g] = s]
    <3>1. [store[g] EXCEPT !.cache = Touch(c, k)] = s
      BY <2>3 DEF IsStore
    <3>2. store' = [store EXCEPT ![g] = [store[g] EXCEPT !.cache = Touch(c, k)]]
      BY <2>2
    <3>. QED
      BY <3>1, <3>2
  <2>. HIDE DEF s, g
  <2>. QED
    BY <1>2, <1>3, <2>1, <2>2, <2>4, <2>6, <2>7 DEF MaskCached
<1>4. ASSUME NEW cell \in Input, MaskDerived(cell[1], cell[2])
      PROVE  TypeOK' /\ CacheBounded'
  <2>. DEFINE g == GroupOf[cell[1]]
              r == cell[2]
              p == Derive(store[g], MethodOf[cell[1]], r)
              s == StoreCachedValue(store[g], r, p)
  <2>1. g \in Group /\ r \in Raw /\ MethodOf[cell[1]] \in Method
    BY InputCell
  <2>2. /\ ~Exhausted(store[g], MethodOf[cell[1]], r)
        /\ store' = [store EXCEPT ![g] = s] /\ Emit(g, r, p) /\ failed' = failed
    BY <1>4 DEF MaskDerived
  <2>3. p \in Pseudonym
    BY <2>1, <2>2, DeriveFresh
  <2>4. IsStore(store[g]) /\ store[g].cache \in Seq(Entry) /\ Kept(store[g].cache)
    BY <1>1, <2>1
  <2>5. Put(store[g].cache, r, p) \in Seq(Entry) /\ Kept(Put(store[g].cache, r, p))
    BY <2>1, <2>3, <2>4, PutEntries, PutBounded
  <2>. HIDE DEF p, r, g
  <2>6. IsStore(s) /\ Kept(s.cache)
    BY <2>1, <2>3, <2>4, <2>5 DEF IsStore, StoreCachedValue
  <2>. HIDE DEF s
  <2>. QED
    BY <1>2, <2>1, <2>2, <2>3, <2>6
<1>5. CASE Next
  <2>1. PICK cell \in Input :
          \/ MaskCached(cell[1], cell[2])
          \/ MaskDerived(cell[1], cell[2])
          \/ MaskExhausted(cell[1], cell[2])
    BY <1>5 DEF Next
  <2>2. CASE MaskExhausted(cell[1], cell[2])
    BY <2>2 DEF MaskExhausted, TypeOK, CacheBounded
  <2>. QED
    BY <1>3, <1>4, <2>1, <2>2
<1>6. CASE UNCHANGED vars
  BY <1>6 DEF vars, TypeOK, CacheBounded
<1>. QED
  BY <1>5, <1>6

(* The cache of every group stays within max_cache_size and holds no key
   twice, for every configuration and every order of the cells. *)
THEOREM CacheBound == Spec => []CacheBounded
<1>1. Init => TypeOK /\ CacheBounded
  <2>. SUFFICES ASSUME Init PROVE TypeOK /\ CacheBounded
    OBVIOUS
  <2>1. TypeOK
    BY InitIInv DEF IInv
  <2>2. \A g \in Group : store[g].cache = << >>
    BY DEF Init, EmptyStore
  <2>. QED
    BY <2>1, <2>2, StoreAssumption DEF CacheBounded
<1>2. TypeOK /\ CacheBounded /\ [Next]_vars => (TypeOK /\ CacheBounded)'
  BY BoundedStep
<1>. QED
  BY <1>1, <1>2, PTL DEF Spec

-----------------------------------------------------------------------------
(* The reverse lookup. *)

(* The reverse lookup only holds what was issued: each claim names a pseudonym
   and the raw value it was issued for. *)
ClaimsIssued ==
  \A g \in Group : \A q \in DOMAIN store[g].rev :
    [group |-> g, raw |-> store[g].rev[q], masked |-> q] \in issued

(* No claim is dropped, and none passes to a key that prints differently, in
   one step. *)
ClaimsKept ==
  \A g \in Group : \A q \in DOMAIN store[g].rev :
    /\ q \in DOMAIN store'[g].rev
    /\ store'[g].rev[q].text = store[g].rev[q].text

(* A cache hit leaves the reverse lookups alone and issues for r what was
   issued for a key that prints the same. *)
Repeats(g, r, p) ==
  /\ Emit(g, r, p)
  /\ \A h \in Group : store'[h].rev = store[h].rev
  /\ \E k : k.text = r.text /\ [group |-> g, raw |-> k, masked |-> p] \in issued

(* A derivation claims for r what it issues. *)
Claims(g, r, p) ==
  /\ Emit(g, r, p)
  /\ \A h \in Group \ {g} : store'[h].rev = store[h].rev
  /\ store'[g].rev = [q \in DOMAIN store[g].rev \cup {p} |-> IF q = p THEN r ELSE store[g].rev[q]]

(* A step repeats a pseudonym, claims one, or changes neither the reverse
   lookups nor what was issued. *)
LEMMA StepClaims ==
  ASSUME UniformTyping, CacheEnabled, IInv, [Next]_vars
  PROVE  \/ \E g \in Group, r \in Raw, p \in Pseudonym : Repeats(g, r, p) \/ Claims(g, r, p)
         \/ issued' = issued /\ \A h \in Group : store'[h].rev = store[h].rev
<1>0. CASE UNCHANGED vars
  BY <1>0 DEF vars
<1>. SUFFICES ASSUME Next
              PROVE  \/ \E g \in Group, r \in Raw, p \in Pseudonym : Repeats(g, r, p) \/ Claims(g, r, p)
                     \/ issued' = issued /\ \A h \in Group : store'[h].rev = store[h].rev
  BY <1>0
<1>1. PICK cell \in Input :
        \/ MaskCached(cell[1], cell[2])
        \/ MaskDerived(cell[1], cell[2])
        \/ MaskExhausted(cell[1], cell[2])
  BY DEF Next
<1>. DEFINE g == GroupOf[cell[1]]
            r == cell[2]
<1>2. g \in Group /\ r \in Raw /\ MethodOf[cell[1]] \in Method
  BY InputCell
<1>3. IsStore(store[g]) /\ store = [h \in Group |-> store[h]]
  BY <1>2 DEF IInv, TypeOK
<1>4. CASE MaskCached(cell[1], cell[2])
  <2>1. PICK k \in HitKeys(store[g], r) :
          /\ store' = [store EXCEPT ![g].cache = Touch(@, k)]
          /\ Emit(g, r, Fetch(store[g].cache, k))
    BY <1>4 DEF MaskCached
  <2>. DEFINE c == store[g].cache
              p == Fetch(c, k)
  <2>2. Holds(c, k) /\ (k = r \/ k \in Aliases(r)) /\ c \in Seq(Entry)
    BY <1>3 DEF HitKeys, IsStore
  <2>3. Position(c, k) \in DOMAIN c /\ c[Position(c, k)].raw = k
    BY <2>2, TouchEntries
  <2>4. p \in Pseudonym
    <3>1. c[Position(c, k)] \in Entry
      BY <2>2, <2>3
    <3>. QED
      BY <3>1 DEF Fetch, Entry
  <2>5. [group |-> g, raw |-> k, masked |-> p] \in issued
    BY <1>2, <2>3 DEF IInv, CacheIssued, Fetch
  <2>6. PICK old \in Input : GroupOf[old[1]] = g /\ old[2] = k
    BY <2>5 DEF IInv, Settled
  <2>7. k.text = r.text
    BY <2>2, <2>6 DEF UniformTyping
  <2>8. \A h \in Group : store'[h].rev = store[h].rev
    BY <1>2, <1>3, <2>1 DEF IsStore
  <2>. HIDE DEF p, g, r
  <2>. QED
    BY <1>2, <2>1, <2>4, <2>5, <2>7, <2>8 DEF p, Repeats
<1>5. CASE MaskDerived(cell[1], cell[2])
  <2>. DEFINE p == Derive(store[g], MethodOf[cell[1]], r)
  <2>1. /\ ~Exhausted(store[g], MethodOf[cell[1]], r)
        /\ store' = [store EXCEPT ![g] = StoreCachedValue(store[g], r, p)]
        /\ Emit(g, r, p)
    BY <1>5 DEF MaskDerived
  <2>2. p \in Pseudonym
    BY <1>2, <2>1, DeriveFresh
  <2>. HIDE DEF p, g, r
  <2>3. store'[g] = StoreCachedValue(store[g], r, p) /\ \A h \in Group \ {g} : store'[h] = store[h]
    BY <1>2, <1>3, <2>1
  <2>4. store'[g].rev = [q \in DOMAIN store[g].rev \cup {p} |-> IF q = p THEN r ELSE store[g].rev[q]]
    BY <2>3 DEF StoreCachedValue
  <2>. QED
    BY <1>2, <2>1, <2>2, <2>3, <2>4 DEF Claims
<1>6. CASE MaskExhausted(cell[1], cell[2])
  BY <1>6 DEF MaskExhausted
<1>. QED
  BY <1>1, <1>4, <1>5, <1>6

(* A claim is made together with the issue it stands for. *)
LEMMA ClaimsIssuedStep ==
  UniformTyping /\ CacheEnabled /\ IInv /\ ClaimsIssued /\ [Next]_vars => ClaimsIssued'
<1>. SUFFICES ASSUME UniformTyping, CacheEnabled, IInv, ClaimsIssued, [Next]_vars,
                     NEW h \in Group, NEW q \in DOMAIN store'[h].rev
              PROVE  [group |-> h, raw |-> store'[h].rev[q], masked |-> q] \in issued'
  BY DEF ClaimsIssued
<1>1. CASE store'[h].rev = store[h].rev /\ issued \subseteq issued'
  BY <1>1 DEF ClaimsIssued
<1>2. ASSUME NEW g \in Group, NEW r \in Raw, NEW p \in Pseudonym, Claims(g, r, p)
      PROVE  [group |-> h, raw |-> store'[h].rev[q], masked |-> q] \in issued'
  <2>1. CASE h = g
    BY <1>2, <2>1 DEF ClaimsIssued, Claims, Emit
  <2>2. CASE h # g
    BY <1>1, <1>2, <2>2 DEF Claims, Emit
  <2>. QED
    BY <2>1, <2>2
<1>3. ASSUME NEW g \in Group, NEW r \in Raw, NEW p \in Pseudonym, Repeats(g, r, p)
      PROVE  [group |-> h, raw |-> store'[h].rev[q], masked |-> q] \in issued'
  BY <1>1, <1>3 DEF Repeats, Emit
<1>. QED
  BY <1>1, <1>2, <1>3, StepClaims

(* Were a claim to pass to a key that prints differently, both would have been
   issued the same pseudonym. *)
LEMMA ClaimsKeptStep ==
  UniformTyping /\ CacheEnabled /\ IInv /\ ClaimsIssued /\ Injective' /\ [Next]_vars
    => ClaimsKept
<1>. SUFFICES ASSUME UniformTyping, CacheEnabled, IInv, ClaimsIssued, Injective', [Next]_vars,
                     NEW h \in Group, NEW q \in DOMAIN store[h].rev
              PROVE  q \in DOMAIN store'[h].rev /\ store'[h].rev[q].text = store[h].rev[q].text
  BY DEF ClaimsKept
<1>1. CASE store'[h].rev = store[h].rev
  BY <1>1
<1>2. ASSUME NEW r \in Raw, NEW p \in Pseudonym, Claims(h, r, p)
      PROVE  q \in DOMAIN store'[h].rev /\ store'[h].rev[q].text = store[h].rev[q].text
  <2>1. CASE q # p
    BY <1>2, <2>1 DEF Claims
  <2>2. CASE q = p
    <3>. DEFINE old == [group |-> h, raw |-> store[h].rev[q], masked |-> q]
                new == [group |-> h, raw |-> r, masked |-> p]
    <3>1. old \in issued' /\ new \in issued'
      BY <1>2 DEF ClaimsIssued, Claims, Emit
    <3>2. old.raw.text = new.raw.text
      BY <2>2, <3>1 DEF Injective
    <3>. QED
      BY <1>2, <2>2, <3>2 DEF Claims
  <2>. QED
    BY <2>1, <2>2
<1>3. ASSUME NEW g \in Group, NEW r \in Raw, NEW p \in Pseudonym,
             (Repeats(g, r, p) \/ Claims(g, r, p))
      PROVE  (g = h /\ Claims(h, r, p)) \/ store'[h].rev = store[h].rev
  BY <1>3 DEF Repeats, Claims
<1>. QED
  BY <1>1, <1>2, <1>3, StepClaims

(* A cell masked resolves: a derivation claims its pseudonym, and a cache hit
   repeats one that resolves to a key that prints the same. *)
LEMMA ResolvableStep ==
  UniformTyping /\ CacheEnabled /\ IInv /\ ClaimsKept /\ Resolvable /\ [Next]_vars => Resolvable'
<1>. SUFFICES ASSUME UniformTyping, CacheEnabled, IInv, ClaimsKept, Resolvable, [Next]_vars,
                     NEW x \in issued'
              PROVE  /\ x.masked \in DOMAIN store'[x.group].rev
                     /\ store'[x.group].rev[x.masked].text = x.raw.text
  BY DEF Resolvable
<1>1. CASE x \in issued
  <2>1. x.group \in Group
    BY <1>1 DEF IInv, TypeOK, Issue
  <2>. QED
    BY <1>1, <2>1 DEF Resolvable, ClaimsKept
<1>2. ASSUME NEW g \in Group, NEW r \in Raw, NEW p \in Pseudonym, Emit(g, r, p), x \notin issued
      PROVE  x.group = g /\ x.raw = r /\ x.masked = p
  BY <1>2 DEF Emit
<1>3. ASSUME NEW g \in Group, NEW r \in Raw, NEW p \in Pseudonym, Repeats(g, r, p)
      PROVE  p \in DOMAIN store'[g].rev /\ store'[g].rev[p].text = r.text
  <2>1. PICK k : k.text = r.text /\ [group |-> g, raw |-> k, masked |-> p] \in issued
    BY <1>3 DEF Repeats
  <2>2. p \in DOMAIN store[g].rev /\ store[g].rev[p].text = r.text
    BY <2>1 DEF Resolvable
  <2>. QED
    BY <1>3, <2>2 DEF Repeats
<1>4. ASSUME NEW g \in Group, NEW r \in Raw, NEW p \in Pseudonym, Claims(g, r, p)
      PROVE  p \in DOMAIN store'[g].rev /\ store'[g].rev[p].text = r.text
  BY <1>4 DEF Claims
<1>5. ASSUME NEW g \in Group, NEW r \in Raw, NEW p \in Pseudonym,
             (Repeats(g, r, p) \/ Claims(g, r, p))
      PROVE  /\ x.masked \in DOMAIN store'[x.group].rev
             /\ store'[x.group].rev[x.masked].text = x.raw.text
  <2>1. Emit(g, r, p)
    BY <1>5 DEF Repeats, Claims
  <2>2. p \in DOMAIN store'[g].rev /\ store'[g].rev[p].text = r.text
    BY <1>3, <1>4, <1>5
  <2>. QED
    BY <1>1, <1>2, <2>1, <2>2
<1>. QED
  BY <1>1, <1>5, StepClaims

(* The reverse lookup starts empty, and every step keeps it a record of what
   was issued that resolves every pseudonym. *)
LEMMA ClaimsInvariance ==
  ASSUME UniformTyping, CacheEnabled, DigestInjective
  PROVE  Spec => [](IInv /\ Injective /\ ClaimsIssued /\ Resolvable)
<1>1. Init => ClaimsIssued /\ Resolvable
  BY DEF Init, EmptyStore, ClaimsIssued, Resolvable
<1>2. IInv => Injective
  BY InjectiveLemma
<1>3. /\ IInv /\ ClaimsIssued /\ Resolvable /\ IInv' /\ Injective' /\ [Next]_vars
      => ClaimsIssued' /\ Resolvable'
  BY ClaimsIssuedStep, ClaimsKeptStep, ResolvableStep
<1>. QED
  BY <1>1, <1>2, <1>3, Invariance, PTL DEF Spec

(* A claim in the reverse lookup is never dropped and never passes to a key
   that prints differently: what the rejection of collisions relies on after
   the cache has forgotten a key. *)
THEOREM Permanence ==
  ASSUME UniformTyping, CacheEnabled, DigestInjective
  PROVE  Spec => ClaimsPermanent
<1>1. /\ IInv /\ ClaimsIssued /\ Injective' /\ [Next]_vars
      => [\A g \in Group : \A p \in DOMAIN store[g].rev :
           /\ p \in DOMAIN store'[g].rev
           /\ store'[g].rev[p].text = store[g].rev[p].text]_vars
  BY ClaimsKeptStep DEF ClaimsKept
<1>. QED
  BY <1>1, ClaimsInvariance, PTL DEF Spec, ClaimsPermanent

(* get_raw_for_masked finds the key behind every pseudonym the engine has
   ever written. *)
THEOREM Resolution ==
  ASSUME UniformTyping, CacheEnabled, DigestInjective
  PROVE  Spec => []Resolvable
BY ClaimsInvariance, PTL
=============================================================================
