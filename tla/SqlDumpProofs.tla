---------------------------- MODULE SqlDumpProofs ---------------------------
(***************************************************************************)
(* Proofs about the SqlDumpStream, for every dump, whatever its tables,    *)
(* rows and statements are and wherever the lines of an INSERT are broken: *)
(* what is written is the dump with each row masked as a row of its table, *)
(* and no row that has been read waits to be written.                      *)
(*                                                                         *)
(* The argument.  The reference goes statement by statement and row by     *)
(* row; the parser goes line by line and, in an INSERT, token by token.    *)
(* After k tokens of an INSERT the parser has written the rows that end    *)
(* among them and what separates those, and holds the tokens after the     *)
(* last of these rows in its buffer (InInsert, ScanInv); after the lines   *)
(* of a COPY block, the rows on them (InCopy).  Before a statement it has  *)
(* written the statements before (Idle), unless a row could not be masked  *)
(* and it has written the beginning (Gone).  DumpSays puts these together  *)
(* for the lines of a dump, and is what each line keeps.                   *)
(***************************************************************************)
EXTENDS SqlDumpStream, FiniteSetTheorems, SequenceTheorems, TLAPS

(* The lines there are, and what a parser makes of some, before the input ends. *)
Line == UNION {ToSet(d.lines) : d \in Dumps}

Parsing(lines) == FoldLeft(ReadLine, NewParser, lines)

(* A parser is a record. *)
IsParser(p) ==
  p = [copy |-> p.copy, insert |-> p.insert, buffer |-> p.buffer, trailing |-> p.trailing,
       out |-> p.out, engine |-> p.engine]

(* a is the beginning of b. *)
Begins(a, b) == Len(a) <= Len(b) /\ \A i \in 1 .. Len(a) : a[i] = b[i]

(* The lines of a dump are lines. *)
LEMMA LineType ==
  ASSUME NEW d \in Dumps, NEW i \in 1 .. Len(d.lines)
  PROVE  d.lines[i] \in Line
<1>1. d.lines \in Seq(ToSet(d.lines))
  BY LinesAssumption
<1>2. d.lines[i] \in ToSet(d.lines)
  BY <1>1
<1>. QED
  BY <1>2 DEF Line

(* The first n of a sequence, and one more. *)
LEMMA FirstLines ==
  ASSUME NEW S, NEW s \in Seq(S), NEW n \in 0 .. Len(s)
  PROVE  /\ SubSeq(s, 1, n) \in Seq(S) /\ Len(SubSeq(s, 1, n)) = n
         /\ n = 0 => SubSeq(s, 1, n) = <<>>
         /\ n = Len(s) => SubSeq(s, 1, n) = s
         /\ n < Len(s) => SubSeq(s, 1, n + 1) = Append(SubSeq(s, 1, n), s[n + 1])
OBVIOUS

(* The first elements of a sequence. *)
LEMMA FirstOf ==
  \A I : \A s \in Seq(I) : \A n \in 0 .. Len(s) : SubSeq(s, 1, n) = [k \in 1 .. n |-> s[k]]
OBVIOUS

(* A dump is a sequence of lines. *)
LEMMA DumpLines ==
  ASSUME NEW d \in Dumps
  PROVE  d.lines \in Seq(Line)
<1>1. d.lines \in Seq(ToSet(d.lines))
  BY LinesAssumption
<1>2. /\ Len(d.lines) \in Nat /\ DOMAIN d.lines = 1 .. Len(d.lines)
      /\ d.lines = [i \in 1 .. Len(d.lines) |-> d.lines[i]]
  BY <1>1
<1>3. \A i \in 1 .. Len(d.lines) : d.lines[i] \in Line
  BY LineType
<1>. QED
  BY <1>2, <1>3

(* The scan of a buffer is a loop over its tokens, and reading a dump one over its lines. *)
ScanFold == INSTANCE FoldLaws WITH Op <- ScanToken
ReadFold == INSTANCE FoldLaws WITH Op <- ReadLine

(* The folds of SqlDump are those that FoldLaws is about. *)
LEMMA SameScan == \A base, s : FoldLeft(ScanToken, base, s) = ScanFold!FoldLeft(ScanToken, base, s)
BY DEF FoldLeft, ScanFold!FoldLeft, MapThenFoldSet, ScanFold!MapThenFoldSet, Max, ScanFold!Max

(* So is the one over the lines. *)
LEMMA SameRead == \A base, s : FoldLeft(ReadLine, base, s) = ReadFold!FoldLeft(ReadLine, base, s)
BY DEF FoldLeft, ReadFold!FoldLeft, MapThenFoldSet, ReadFold!MapThenFoldSet, Max, ReadFold!Max

(* The scan of a buffer goes through it token by token. *)
LEMMA ScanSteps ==
  ASSUME NEW T, NEW buffer \in Seq(T), NEW a
  PROVE  \E f : /\ f[0] = a
                /\ \A n \in Nat : n < Len(buffer) => f[n + 1] = ScanToken(f[n], n + 1)
                /\ FoldLeftDomain(ScanToken, a, buffer) = f[Len(buffer)]
<1>1. PICK index : index = [i \in DOMAIN buffer |-> i]
  OBVIOUS
<1>2. /\ Len(buffer) \in Nat /\ index \in Seq(Nat) /\ Len(index) = Len(buffer)
      /\ \A i \in 1 .. Len(buffer) : index[i] = i
  <2>1. DOMAIN buffer = 1 .. Len(buffer) /\ Len(buffer) \in Nat
    OBVIOUS
  <2>. QED
    BY <1>1, <2>1
<1>3. FoldLeftDomain(ScanToken, a, buffer) = FoldLeft(ScanToken, a, index)
  BY <1>1 DEF FoldLeftDomain
<1>. DEFINE After(n) == FoldLeft(ScanToken, a, SubSeq(index, 1, n))
<1>4. After(0) = a
  <2>1. SubSeq(index, 1, 0) = <<>>
    BY <1>2, FirstLines
  <2>2. ScanFold!FoldLeft(ScanToken, a, <<>>) = a
    BY ScanFold!FoldEmpty
  <2>. QED
    BY <2>1, <2>2, SameScan
<1>5. ASSUME NEW n \in Nat, n < Len(buffer)
      PROVE  After(n + 1) = ScanToken(After(n), n + 1)
  <2>1. n \in 0 .. Len(index) /\ n < Len(index) /\ n + 1 \in 1 .. Len(buffer)
    BY <1>2, <1>5
  <2>2. /\ SubSeq(index, 1, n + 1) = Append(SubSeq(index, 1, n), n + 1)
        /\ SubSeq(index, 1, n) \in Seq(Nat)
    BY <1>2, <2>1, FirstLines
  <2>3. PICK s \in Seq(Nat) : s = SubSeq(index, 1, n)
    BY <2>2
  <2>4. ScanFold!FoldLeft(ScanToken, a, Append(s, n + 1))
          = ScanToken(ScanFold!FoldLeft(ScanToken, a, s), n + 1)
    <3>1. n + 1 \in Nat
      OBVIOUS
    <3>. QED
      BY <3>1, ScanFold!FoldAppend
  <2>. QED
    BY <2>2, <2>3, <2>4, SameScan
<1>6. After(Len(buffer)) = FoldLeft(ScanToken, a, index)
  <2>1. SubSeq(index, 1, Len(buffer)) = index
    BY <1>2
  <2>. QED
    BY <2>1
<1>. HIDE DEF After
<1>7. PICK f : f = [n \in Nat |-> After(n)]
  OBVIOUS
<1>8. \A n \in Nat : n < Len(buffer) => f[n + 1] = ScanToken(f[n], n + 1)
  <2>. SUFFICES ASSUME NEW n \in Nat, n < Len(buffer)
                PROVE  f[n + 1] = ScanToken(f[n], n + 1)
    OBVIOUS
  <2>1. n + 1 \in Nat /\ f[n + 1] = After(n + 1) /\ f[n] = After(n)
    BY <1>7
  <2>. QED
    BY <1>5, <2>1
<1>9. f[0] = a /\ f[Len(buffer)] = After(Len(buffer))
  BY <1>2, <1>4, <1>7
<1>. QED
  BY <1>3, <1>6, <1>8, <1>9

(* A parser goes line by line. *)
LEMMA ParsingSteps ==
  /\ Parsing(<<>>) = NewParser
  /\ \A s \in Seq(Line) : \A l \in Line : Parsing(Append(s, l)) = ReadLine(Parsing(s), l)
<1>1. Parsing(<<>>) = NewParser
  <2>1. ReadFold!FoldLeft(ReadLine, NewParser, <<>>) = NewParser
    BY ReadFold!FoldEmpty
  <2>. QED
    BY <2>1, SameRead DEF Parsing
<1>2. ASSUME NEW s \in Seq(Line), NEW l \in Line
      PROVE  Parsing(Append(s, l)) = ReadLine(Parsing(s), l)
  <2>1. ReadFold!FoldLeft(ReadLine, NewParser, Append(s, l))
          = ReadLine(ReadFold!FoldLeft(ReadLine, NewParser, s), l)
    BY ReadFold!FoldAppend
  <2>. QED
    BY <2>1, SameRead DEF Parsing
<1>. QED
  BY <1>1, <1>2

-----------------------------------------------------------------------------
(* What a dump means.  A parser is compared with the reference statement by statement,
   row by row and token by token.  First, lists: whatever they hold, they can be joined
   and cut. *)
IsList(s) == s \in Seq(ToSet(s))

(* A sequence over a set is one. *)
LEMMA ListOf ==
  \A S : \A s \in Seq(S) : IsList(s)
<1>. SUFFICES ASSUME NEW S, NEW s \in Seq(S)
              PROVE  IsList(s)
  OBVIOUS
<1>1. PICK n \in Nat : n = Len(s) /\ s \in [1 .. n -> S]
  OBVIOUS
<1>2. s \in [1 .. n -> ToSet(s)]
  BY <1>1 DEF ToSet
<1>. QED
  BY <1>1, <1>2 DEF IsList

(* The indices of a list. *)
LEMMA ListFacts ==
  \A s : IsList(s) => Len(s) \in Nat /\ DOMAIN s = 1 .. Len(s)
BY DEF IsList

(* Two lists with the same elements are the same. *)
LEMMA ListsEqual ==
  \A s, t : IsList(s) /\ IsList(t) /\ Len(s) = Len(t) /\ (\A k \in 1 .. Len(s) : s[k] = t[k]) => s = t
<1>. SUFFICES ASSUME NEW s, NEW t, IsList(s), IsList(t), Len(s) = Len(t),
                     \A k \in 1 .. Len(s) : s[k] = t[k]
              PROVE  s = t
  OBVIOUS
<1>1. PICK S : S = ToSet(s) \cup ToSet(t)
  OBVIOUS
<1>2. s \in Seq(S) /\ t \in Seq(S)
  BY <1>1, SeqMonotonic DEF IsList
<1>. QED
  BY <1>2, SeqEqual

(* Concatenated lists. *)
LEMMA Joins ==
  \A s, t : IsList(s) /\ IsList(t) =>
    /\ IsList(s \o t) /\ Len(s \o t) = Len(s) + Len(t)
    /\ \A k \in 1 .. Len(s) : (s \o t)[k] = s[k]
    /\ \A k \in 1 .. Len(t) : (s \o t)[Len(s) + k] = t[k]
    /\ Begins(s, s \o t)
<1>. SUFFICES ASSUME NEW s, NEW t, IsList(s), IsList(t)
              PROVE  /\ IsList(s \o t) /\ Len(s \o t) = Len(s) + Len(t)
                     /\ \A k \in 1 .. Len(s) : (s \o t)[k] = s[k]
                     /\ \A k \in 1 .. Len(t) : (s \o t)[Len(s) + k] = t[k]
                     /\ Begins(s, s \o t)
  OBVIOUS
<1>1. PICK S : S = ToSet(s) \cup ToSet(t)
  OBVIOUS
<1>2. s \in Seq(S) /\ t \in Seq(S)
  BY <1>1, SeqMonotonic DEF IsList
<1>3. /\ s \o t \in Seq(S) /\ Len(s \o t) = Len(s) + Len(t)
      /\ Len(s) \in Nat /\ Len(t) \in Nat
      /\ \A k \in 1 .. Len(s) : (s \o t)[k] = s[k]
      /\ \A k \in 1 .. Len(t) : (s \o t)[Len(s) + k] = t[k]
  BY <1>2
<1>4. IsList(s \o t)
  BY <1>3, ListOf
<1>. QED
  BY <1>3, <1>4 DEF Begins

(* The same of two given lists. *)
Concatenated(u, s, t) ==
  /\ IsList(u) /\ Len(u) = Len(s) + Len(t)
  /\ \A k \in 1 .. Len(s) : u[k] = s[k]
  /\ \A k \in 1 .. Len(t) : u[Len(s) + k] = t[k]

(* The same, of a name for the two together. *)
LEMMA ConcatenatedLists ==
  ASSUME NEW s, IsList(s), NEW t, IsList(t), NEW u, u = s \o t
  PROVE  Concatenated(u, s, t)
BY Joins DEF Concatenated

IsJoin(u, s, t) == u = s \o t

(* Three lists in turn. *)
LEMMA JoinsAssociate ==
  \A s, t, u, v, w :
    IsList(s) /\ IsList(t) /\ IsList(u) /\ IsJoin(v, s, t) /\ IsJoin(w, t, u) => v \o u = s \o w
<1>. SUFFICES ASSUME NEW s, NEW t, NEW u, IsList(s), IsList(t), IsList(u)
              PROVE  (s \o t) \o u = s \o (t \o u)
  BY DEF IsJoin
<1>1. PICK S : S = ToSet(s) \cup ToSet(t) \cup ToSet(u)
  OBVIOUS
<1>2. s \in Seq(S) /\ t \in Seq(S) /\ u \in Seq(S)
  BY <1>1, SeqMonotonic DEF IsList
<1>. QED
  BY <1>2, ConcatAssociative

(* Short lists. *)
LEMMA ShortLists ==
  /\ IsList(<<>>) /\ Len(<<>>) = 0
  /\ \A x : IsList(<<x>>) /\ Len(<<x>>) = 1 /\ <<x>>[1] = x
  /\ \A s : IsList(s) => s \o <<>> = s /\ <<>> \o s = s
  /\ \A s, x : IsList(s) => Append(s, x) = s \o <<x>>
<1>1. IsList(<<>>) /\ Len(<<>>) = 0
  <2>1. <<>> \in Seq({}) /\ Len(<<>>) = 0
    OBVIOUS
  <2>. QED
    BY <2>1, ListOf
<1>2. ASSUME NEW x
      PROVE  IsList(<<x>>) /\ Len(<<x>>) = 1 /\ <<x>>[1] = x
  <2>1. <<x>> \in Seq({x}) /\ Len(<<x>>) = 1 /\ <<x>>[1] = x
    OBVIOUS
  <2>. QED
    BY <2>1, ListOf
<1>3. \A s : IsList(s) => s \o <<>> = s /\ <<>> \o s = s
  BY ConcatEmptySeq DEF IsList
<1>4. ASSUME NEW s, NEW x, IsList(s)
      PROVE  Append(s, x) = s \o <<x>>
  <2>1. PICK S : S = ToSet(s) \cup {x}
    OBVIOUS
  <2>2. s \in Seq(S) /\ x \in S
    BY <1>4, <2>1, SeqMonotonic DEF IsList
  <2>. QED
    BY <2>2, AppendIsConcat
<1>. QED
  BY <1>1, <1>2, <1>3, <1>4

(* A part of a list. *)
LEMMA Parts ==
  \A s : \A m, n \in Nat : IsList(s) /\ m <= n /\ n <= Len(s) =>
    /\ IsList(SubSeq(s, m + 1, n)) /\ Len(SubSeq(s, m + 1, n)) = n - m
    /\ \A k \in 1 .. n - m : SubSeq(s, m + 1, n)[k] = s[m + k]
<1>. SUFFICES ASSUME NEW s, NEW m \in Nat, NEW n \in Nat, IsList(s), m <= n, n <= Len(s)
              PROVE  /\ IsList(SubSeq(s, m + 1, n)) /\ Len(SubSeq(s, m + 1, n)) = n - m
                     /\ \A k \in 1 .. n - m : SubSeq(s, m + 1, n)[k] = s[m + k]
  OBVIOUS
<1>1. PICK S : S = ToSet(s) /\ s \in Seq(S)
  BY DEF IsList
<1>2. \A k \in m + 1 .. n : s[k] \in S
  BY <1>1, ElementOfSeq
<1>3. PICK t : t = SubSeq(s, m + 1, n)
  OBVIOUS
<1>4. /\ t \in Seq(S) /\ Len(t) = n - m
      /\ \A k \in 1 .. n - (m + 1) + 1 : t[k] = s[(m + 1) + k - 1]
  <2>1. m + 1 \in Int /\ n \in Int /\ (IF m + 1 <= n THEN n - (m + 1) + 1 ELSE 0) = n - m
    OBVIOUS
  <2>. QED
    BY <1>2, <1>3, <2>1, SubSeqProperties
<1>5. \A k \in 1 .. n - m : t[k] = s[m + k]
  <2>1. n - (m + 1) + 1 = n - m /\ \A k \in 1 .. n - m : (m + 1) + k - 1 = m + k
    OBVIOUS
  <2>. QED
    BY <1>4, <2>1
<1>. QED
  BY <1>3, <1>4, <1>5, ListOf

(* The same of a given part. *)
IsPart(t, s, m, n) == IsList(t) /\ Len(t) = n - m /\ \A k \in 1 .. n - m : t[k] = s[m + k]

(* The same, of a name for the part. *)
LEMMA PartIs ==
  ASSUME NEW s, IsList(s), NEW m \in Nat, NEW n \in Nat, m <= n, n <= Len(s),
         NEW t, t = SubSeq(s, m + 1, n)
  PROVE  IsPart(t, s, m, n)
BY Parts DEF IsPart

(* Adjacent parts are joined to one. *)
Adjacent(s, l, m, n) == SubSeq(s, l + 1, m) \o SubSeq(s, m + 1, n) = SubSeq(s, l + 1, n)

(* Two parts of a list, one after the other. *)
LEMMA AdjacentParts ==
  ASSUME NEW s, IsList(s), NEW l \in Nat, NEW m \in Nat, NEW n \in Nat, l <= m, m <= n, n <= Len(s)
  PROVE  Adjacent(s, l, m, n)
<1>1. /\ s \in Seq(ToSet(s)) /\ Len(s) \in Nat
      /\ l + 1 \in 1 .. Len(s) + 1 /\ m \in (l + 1) - 1 .. Len(s) /\ n \in m .. Len(s)
  BY ListFacts DEF IsList
<1>2. SubSeq(s, l + 1, m) \o SubSeq(s, m + 1, n) = SubSeq(s, l + 1, n)
  BY <1>1, ConcatAdjacentSubSeq
<1>. QED
  BY <1>2 DEF Adjacent

(* A part of a part. *)
LEMMA PartOfPart ==
  \A s : \A m, n, i, j \in Nat : IsList(s) /\ m <= n /\ n <= Len(s) /\ i <= j /\ j <= n - m =>
    SubSeq(SubSeq(s, m + 1, n), i + 1, j) = SubSeq(s, (m + i) + 1, m + j)
<1>. SUFFICES ASSUME NEW s, NEW m \in Nat, NEW n \in Nat, NEW i \in Nat, NEW j \in Nat,
                     IsList(s), m <= n, n <= Len(s), i <= j, j <= n - m
              PROVE  SubSeq(SubSeq(s, m + 1, n), i + 1, j) = SubSeq(s, (m + i) + 1, m + j)
  OBVIOUS
<1>1. PICK t : t = SubSeq(s, m + 1, n)
  OBVIOUS
<1>2. IsList(t) /\ Len(t) = n - m /\ \A k \in 1 .. n - m : t[k] = s[m + k]
  <2>1. IsPart(t, s, m, n)
    BY <1>1, PartIs
  <2>. QED
    BY <2>1 DEF IsPart
<1>3. PICK u : u = SubSeq(t, i + 1, j)
  OBVIOUS
<1>4. IsList(u) /\ Len(u) = j - i /\ \A k \in 1 .. j - i : u[k] = t[i + k]
  <2>1. IsPart(u, t, i, j)
    BY <1>2, <1>3, PartIs
  <2>. QED
    BY <2>1 DEF IsPart
<1>5. PICK v : v = SubSeq(s, (m + i) + 1, m + j)
  OBVIOUS
<1>6. IsList(v) /\ Len(v) = j - i /\ \A k \in 1 .. j - i : v[k] = s[(m + i) + k]
  <2>1. m + i \in Nat /\ m + j \in Nat /\ m + i <= m + j /\ m + j <= Len(s) /\ (m + j) - (m + i) = j - i
    <3>1. Len(s) \in Nat
      BY ListFacts
    <3>. QED
      BY <3>1
  <2>2. IsPart(v, s, m + i, m + j)
    BY <1>5, <2>1, PartIs
  <2>. QED
    BY <2>1, <2>2 DEF IsPart
<1>7. \A k \in 1 .. j - i : u[k] = v[k]
  <2>1. \A k \in 1 .. j - i : i + k \in 1 .. n - m /\ m + (i + k) = (m + i) + k
    OBVIOUS
  <2>. QED
    BY <1>2, <1>4, <1>6, <2>1
<1>8. u = v
  BY <1>4, <1>6, <1>7, ListsEqual
<1>. QED
  BY <1>1, <1>3, <1>5, <1>8

(* What begins a list. *)
LEMMA BeginsFacts ==
  /\ \A s : IsList(s) => Begins(s, s)
  /\ \A s, t, u : IsList(s) /\ IsList(t) /\ IsList(u) /\ Begins(s, t) /\ Begins(t, u) => Begins(s, u)
  /\ \A s, t : IsList(s) /\ IsList(t) /\ Begins(s, t) => IsPrefix(s, t)
<1>1. ASSUME NEW s, IsList(s)
      PROVE  Begins(s, s)
  BY <1>1, ListFacts DEF Begins
<1>2. ASSUME NEW s, NEW t, NEW u, IsList(s), IsList(t), IsList(u), Begins(s, t), Begins(t, u)
      PROVE  Begins(s, u)
  <2>1. Len(s) \in Nat /\ Len(t) \in Nat /\ Len(u) \in Nat
    BY <1>2, ListFacts
  <2>. QED
    BY <1>2, <2>1 DEF Begins
<1>3. ASSUME NEW s, NEW t, IsList(s), IsList(t), Begins(s, t)
      PROVE  IsPrefix(s, t)
  <2>1. PICK n \in Nat : n = Len(s)
    BY <1>3, ListFacts
  <2>2. n \in 0 .. Len(s) /\ n \in 0 .. Len(t)
    BY <1>3, <2>1, ListFacts DEF Begins
  <2>3. /\ SubSeq(s, 1, n) = [k \in 1 .. n |-> s[k]]
        /\ SubSeq(t, 1, n) = [k \in 1 .. n |-> t[k]]
    BY <1>3, <2>2, FirstOf DEF IsList
  <2>4. SubSeq(s, 1, n) = SubSeq(t, 1, n)
    BY <1>3, <2>1, <2>3 DEF Begins
  <2>. QED
    BY <1>3, <2>1, <2>4 DEF Begins, IsPrefix
<1>. QED
  BY <1>1, <1>2, <1>3

-----------------------------------------------------------------------------
(* The tokens of an INSERT. *)
LEMMA TokenKinds ==
  /\ \A x : IsGroup(Group(x)) /\ Group(x)[2] = x /\ Group(x) # Semi /\ Group(x) # Comma
  /\ ~IsGroup(Comma) /\ ~IsGroup(Semi) /\ ~IsGroup(Other)
  /\ Comma # Semi /\ Other # Semi /\ Other # Comma
BY DEF IsGroup, Group, Comma, Semi, Other

(* Statements that are INSERTs; where row n ends among their tokens. *)
Inserted(st) ==
  /\ st.form = "insert" /\ st.table \in Table
  /\ st.rows \in Seq(Row) /\ st.clause \in BOOLEAN
  /\ st.clause => st.rows # <<>>

RowEnd(n) == IF n = 0 THEN 0 ELSE 2 * n - 1

(* The rows of an INSERT and the commas between them, token by token. *)
LEMMA RowTokensAre ==
  ASSUME NEW st, Inserted(st), NEW N \in Nat, N = Len(st.rows)
  PROVE  /\ IsList(AllRowTokens(st)) /\ Len(AllRowTokens(st)) = RowEnd(N)
         /\ \A n \in 1 .. N : AllRowTokens(st)[2 * n - 1] = Group(st.rows[n])
         /\ \A n \in 1 .. N - 1 : AllRowTokens(st)[2 * n] = Comma
<1>. DEFINE T == {Group(x) : x \in Row} \cup {Comma}
            M == 2 * N - 1
            At(k) == IF k % 2 = 1 THEN Group(st.rows[(k + 1) \div 2]) ELSE Comma
<1>1. \A k \in 1 .. M : At(k) \in T
  <2>. SUFFICES ASSUME NEW k \in 1 .. M
                PROVE  At(k) \in T
    OBVIOUS
  <2>1. (k + 1) \div 2 \in 1 .. N
    OBVIOUS
  <2>2. st.rows[(k + 1) \div 2] \in Row
    BY <2>1 DEF Inserted
  <2>. QED
    BY <2>2
<1>. HIDE DEF T, At
<1>2. PICK s : s = [k \in 1 .. M |-> At(k)]
  OBVIOUS
<1>3. s = AllRowTokens(st)
  BY <1>2 DEF AllRowTokens, At
<1>4. s \in Seq(T) /\ Len(s) = RowEnd(N)
  <2>1. CASE N = 0
    <3>1. 1 .. M = {} /\ 1 .. 0 = {}
      BY <2>1
    <3>2. s \in [1 .. 0 -> T]
      BY <1>2, <3>1
    <3>3. s \in Seq(T) /\ Len(s) = 0
      BY <3>2
    <3>. QED
      BY <2>1, <3>3 DEF RowEnd
  <2>2. CASE N # 0
    <3>1. M \in Nat /\ RowEnd(N) = M
      BY <2>2 DEF RowEnd
    <3>2. s \in [1 .. M -> T]
      BY <1>1, <1>2
    <3>. HIDE DEF M
    <3>. QED
      BY <3>1, <3>2
  <2>. QED
    BY <2>1, <2>2
<1>5. ASSUME NEW n \in 1 .. N
      PROVE  s[2 * n - 1] = Group(st.rows[n])
  <2>1. 2 * n - 1 \in 1 .. M /\ (2 * n - 1) % 2 = 1 /\ ((2 * n - 1) + 1) \div 2 = n
    OBVIOUS
  <2>. QED
    BY <1>2, <2>1 DEF At
<1>6. ASSUME NEW n \in 1 .. N - 1
      PROVE  s[2 * n] = Comma
  <2>1. 2 * n \in 1 .. M /\ (2 * n) % 2 = 0
    OBVIOUS
  <2>2. s[2 * n] = At(2 * n)
    BY <1>2, <2>1
  <2>. QED
    BY <2>1, <2>2 DEF At
<1>. QED
  BY <1>3, <1>4, <1>5, <1>6, ListOf

(* What follows the rows. *)
LEMMA EndingIs ==
  ASSUME NEW st, Inserted(st)
  PROVE  /\ IsList(Ending(st)) /\ Len(Ending(st)) = IF st.clause THEN 3 ELSE 1
         /\ Ending(st)[Len(Ending(st))] = Semi
         /\ st.clause => Ending(st)[1] = Other /\ Ending(st)[2] = Group(Clause)
<1>1. CASE st.clause
  <2>1. PICK o, g, s : o = Other /\ g = Group(Clause) /\ s = Semi
    OBVIOUS
  <2>2. <<o, g, s>> \in Seq({o, g, s}) /\ Len(<<o, g, s>>) = 3
    OBVIOUS
  <2>3. Ending(st) = <<o, g, s>>
    BY <1>1, <2>1 DEF Ending
  <2>4. IsList(<<o, g, s>>)
    BY <2>2, ListOf
  <2>. QED
    BY <1>1, <2>1, <2>2, <2>3, <2>4
<1>2. CASE ~st.clause
  <2>1. PICK s : s = Semi /\ Ending(st) = <<s>>
    BY <1>2 DEF Ending
  <2>. QED
    BY <1>2, <2>1, ShortLists
<1>. QED
  BY <1>1, <1>2

(* The rows, each with the comma after it, and the ending. *)
TokensAre(all, st, N) ==
  /\ IsList(all)
  /\ st.clause => Len(all) = RowEnd(N) + 3
  /\ ~st.clause => Len(all) = RowEnd(N) + 1
  /\ \A n \in 1 .. N : all[2 * n - 1] = Group(st.rows[n])
  /\ \A n \in 1 .. N - 1 : all[2 * n] = Comma
  /\ st.clause => N # 0 /\ all[2 * N] = Other /\ all[2 * N + 1] = Group(Clause)
  /\ all[Len(all)] = Semi
  /\ SubSeq(all, RowEnd(N) + 1, Len(all)) = Ending(st)

(* So the tokens of an INSERT are known. *)
LEMMA InsertTokensAre ==
  ASSUME NEW st, Inserted(st), NEW N \in Nat, N = Len(st.rows), NEW all, all = InsertTokens(st)
  PROVE  TokensAre(all, st, N)
<1>1. PICK r, e : r = AllRowTokens(st) /\ e = Ending(st)
  OBVIOUS
<1>2. /\ IsList(r) /\ Len(r) = RowEnd(N)
      /\ \A n \in 1 .. N : r[2 * n - 1] = Group(st.rows[n])
      /\ \A n \in 1 .. N - 1 : r[2 * n] = Comma
  BY <1>1, RowTokensAre
<1>3. /\ IsList(e) /\ Len(e) = IF st.clause THEN 3 ELSE 1
      /\ e[Len(e)] = Semi
      /\ st.clause => e[1] = Other /\ e[2] = Group(Clause)
  BY <1>1, EndingIs
<1>4. all = r \o e
  BY <1>1 DEF InsertTokens
<1>5. PICK b \in Nat, c \in Nat : b = RowEnd(N) /\ c = Len(e) /\ c = IF st.clause THEN 3 ELSE 1
  <2>1. RowEnd(N) \in Nat
    BY DEF RowEnd
  <2>2. Len(e) \in Nat
    BY <1>3
  <2>. QED
    BY <1>3, <2>1, <2>2
<1>6. /\ IsList(all) /\ Len(all) = b + c
      /\ \A k \in 1 .. b : all[k] = r[k]
      /\ \A k \in 1 .. c : all[b + k] = e[k]
  <2>1. /\ IsList(r \o e) /\ Len(r \o e) = Len(r) + Len(e)
        /\ \A k \in 1 .. Len(r) : (r \o e)[k] = r[k]
        /\ \A k \in 1 .. Len(e) : (r \o e)[Len(r) + k] = e[k]
    <3>1. IsList(r) /\ IsList(e)
      BY <1>2, <1>3
    <3>. QED
      BY <3>1, Joins
  <2>2. Len(r) = b /\ Len(e) = c
    BY <1>2, <1>5
  <2>. QED
    BY <1>4, <2>1, <2>2
<1>7. \A n \in 1 .. N : all[2 * n - 1] = Group(st.rows[n])
  <2>1. \A n \in 1 .. N : 2 * n - 1 \in 1 .. b
    BY <1>5 DEF RowEnd
  <2>. QED
    BY <1>2, <1>6, <2>1
<1>8. \A n \in 1 .. N - 1 : all[2 * n] = Comma
  <2>1. \A n \in 1 .. N - 1 : 2 * n \in 1 .. b
    BY <1>5 DEF RowEnd
  <2>. QED
    BY <1>2, <1>6, <2>1
<1>9. st.clause => N # 0 /\ all[2 * N] = Other /\ all[2 * N + 1] = Group(Clause)
  <2>. SUFFICES ASSUME st.clause
                PROVE  N # 0 /\ all[2 * N] = Other /\ all[2 * N + 1] = Group(Clause)
    OBVIOUS
  <2>1. N # 0
    BY DEF Inserted
  <2>2. b + 1 = 2 * N /\ b + 2 = 2 * N + 1 /\ 1 \in 1 .. c /\ 2 \in 1 .. c
    BY <1>5, <2>1 DEF RowEnd
  <2>. QED
    BY <1>3, <1>6, <2>1, <2>2
<1>10. all[Len(all)] = Semi
  <2>1. c \in 1 .. c
    BY <1>5
  <2>. QED
    BY <1>3, <1>5, <1>6, <2>1
<1>11. SubSeq(all, b + 1, Len(all)) = e
  <2>1. b <= b + c /\ b + c \in Nat /\ (b + c) - b = c
    OBVIOUS
  <2>2. PICK t : t = SubSeq(all, b + 1, b + c)
    OBVIOUS
  <2>3. IsList(t) /\ Len(t) = c /\ \A k \in 1 .. c : t[k] = all[b + k]
    <3>1. PICK n \in Nat : n = b + c
      BY <2>1
    <3>2. /\ IsList(SubSeq(all, b + 1, n)) /\ Len(SubSeq(all, b + 1, n)) = n - b
          /\ \A k \in 1 .. n - b : SubSeq(all, b + 1, n)[k] = all[b + k]
      BY <1>6, <3>1, Parts
    <3>. QED
      BY <2>1, <2>2, <3>1, <3>2
  <2>4. t = e
    BY <1>3, <1>5, <1>6, <2>3, ListsEqual
  <2>. QED
    BY <1>6, <2>2, <2>4
<1>12. (st.clause => Len(all) = RowEnd(N) + 3) /\ (~st.clause => Len(all) = RowEnd(N) + 1)
  BY <1>5, <1>6
<1>13. SubSeq(all, RowEnd(N) + 1, Len(all)) = Ending(st)
  BY <1>1, <1>5, <1>11
<1>. QED
  BY <1>6, <1>7, <1>8, <1>9, <1>10, <1>12, <1>13 DEF TokensAre

-----------------------------------------------------------------------------
(* The reference, row by row: f[n] is what it has after n rows of the statement st that
   follows a. *)
RowFold == INSTANCE FoldLaws WITH Op <- RefRow

(* The loop over the rows of a statement is one that FoldLaws is about. *)
LEMMA SameRows == \A base, s : FoldLeft(RefRow, base, s) = RowFold!FoldLeft(RefRow, base, s)
BY DEF FoldLeft, RowFold!FoldLeft, MapThenFoldSet, RowFold!MapThenFoldSet, Max, RowFold!Max

(* What is said of a statement so far; and of a statement with rows. *)
IsReference(a) == a = [engine |-> a.engine, out |-> a.out] /\ IsList(a.out)

Opening(st) == IF st.form = "copy" THEN CopyFrom(st.table) ELSE InsertInto(st.table)

RowsFrom(a, st, f) ==
  /\ f[0] = [statement |-> st, engine |-> a.engine, out |-> Append(a.out, Opening(st))]
  /\ \A n \in Nat : n < Len(st.rows) => f[n + 1] = RefRow(f[n], n + 1)

(* The steps of that loop. *)
LEMMA RowsExist ==
  ASSUME NEW a, NEW st, NEW S, st.rows \in Seq(S)
  PROVE  \E f : RowsFrom(a, st, f) /\ RefRows(a, st) = f[Len(st.rows)]
<1>. DEFINE base == [statement |-> st, engine |-> a.engine, out |-> Append(a.out, Opening(st))]
<1>1. PICK s : s = st.rows
  OBVIOUS
<1>2. PICK b, p : b = base /\ p = [i \in DOMAIN s |-> i]
  OBVIOUS
<1>. HIDE DEF base
<1>3. PICK f : RowFold!StepsOver(f, b, s) /\ RowFold!FoldLeft(RefRow, b, p) = f[Len(s)]
  <2>1. s \in Seq(S)
    BY <1>1
  <2>. QED
    BY <1>2, <2>1, RowFold!FoldPositions
<1>4. RefRows(a, st) = FoldLeftDomain(RefRow, b, s)
  BY <1>1, <1>2 DEF RefRows, Opening, base
<1>5. RefRows(a, st) = f[Len(s)]
  BY <1>2, <1>3, <1>4, SameRows DEF FoldLeftDomain
<1>. QED
  BY <1>1, <1>2, <1>3, <1>5 DEF RowsFrom, base, RowFold!StepsOver

(* Row n, the comma before it or none, and the reference up to the row itself. *)
MaskedRow(st, f, n) == MaskRow(f[n - 1].engine, st.table, st.form, st.rows[n])

Separator(st, n) == IF st.form = "insert" /\ n < Len(st.rows) THEN <<Comma>> ELSE <<>>

Written(st, f, n) ==
  IF n = 0 THEN f[0].out ELSE f[n - 1].out \o <<MaskedRow(st, f, n).item>>

(* What one step writes, as a record. *)
IsRowAfter(r, g, st, m, sep) ==
  r = [statement |-> st, engine |-> m.engine, out |-> (g.out \o <<m.item>>) \o sep]

LEMMA RefRowIs ==
  ASSUME NEW g, g = [statement |-> g.statement, engine |-> g.engine, out |-> g.out],
         NEW st, st = g.statement, NEW n, NEW sep, sep = Separator(st, n),
         NEW m, m = MaskRow(g.engine, st.table, st.form, st.rows[n]), NEW r, r = RefRow(g, n)
  PROVE  IsRowAfter(r, g, st, m, sep)
<1>1. RefRow(g, n) = [g EXCEPT !.engine = m.engine, !.out = g.out \o <<m.item>> \o sep]
  BY DEF RefRow, Separator
<1>2. PICK u : u = (g.out \o <<m.item>>) \o sep
  OBVIOUS
<1>3. r = [g EXCEPT !.engine = m.engine, !.out = u]
  BY <1>1, <1>2
<1>4. r = [statement |-> st, engine |-> m.engine, out |-> u]
  BY <1>3
<1>. QED
  BY <1>2, <1>4 DEF IsRowAfter

(* Row n + 1 of the loop. *)
LEMMA RowStep ==
  ASSUME NEW a, IsReference(a), NEW st, NEW f, RowsFrom(a, st, f), NEW N \in Nat, N = Len(st.rows)
  PROVE  \A n \in 0 .. N :
           /\ f[n] = [statement |-> st, engine |-> f[n].engine, out |-> f[n].out]
           /\ IsList(f[n].out) /\ Begins(a.out, f[n].out)
<1>. DEFINE Good(n) == /\ f[n] = [statement |-> st, engine |-> f[n].engine, out |-> f[n].out]
                       /\ IsList(f[n].out) /\ Begins(a.out, f[n].out)
            Bad == {n \in Nat : n <= N /\ ~Good(n)}
<1>1. Good(0)
  <2>1. f[0] = [statement |-> st, engine |-> a.engine, out |-> Append(a.out, Opening(st))]
    BY DEF RowsFrom
  <2>2. IsList(a.out) /\ Append(a.out, Opening(st)) = a.out \o <<Opening(st)>> /\ IsList(<<Opening(st)>>)
    BY ShortLists DEF IsReference
  <2>3. IsList(a.out \o <<Opening(st)>>) /\ Begins(a.out, a.out \o <<Opening(st)>>)
    BY <2>2, Joins
  <2>. QED
    BY <2>1, <2>2, <2>3
<1>2. ASSUME NEW n \in Nat, n < N, Good(n)
      PROVE  Good(n + 1)
  <2>1. PICK m, sep : m = MaskRow(f[n].engine, st.table, st.form, st.rows[n + 1])
                      /\ sep = Separator(st, n + 1)
    OBVIOUS
  <2>2. f[n + 1] = RefRow(f[n], n + 1)
    BY <1>2 DEF RowsFrom
  <2>3. PICK u : u = f[n].out \o <<m.item>>
    OBVIOUS
  <2>4. f[n + 1] = [statement |-> st, engine |-> m.engine, out |-> u \o sep]
    <3>1. PICK g, k, r : g = f[n] /\ k = n + 1 /\ r = RefRow(g, k)
      OBVIOUS
    <3>2. g = [statement |-> g.statement, engine |-> g.engine, out |-> g.out] /\ g.statement = st
      BY <1>2, <3>1
    <3>3. m = MaskRow(g.engine, st.table, st.form, st.rows[k]) /\ sep = Separator(st, k)
      BY <2>1, <3>1
    <3>4. IsRowAfter(r, g, st, m, sep)
      BY <3>1, <3>2, <3>3, RefRowIs
    <3>5. r = [statement |-> st, engine |-> m.engine, out |-> (g.out \o <<m.item>>) \o sep]
      BY <3>4 DEF IsRowAfter
    <3>. QED
      BY <2>2, <2>3, <3>1, <3>5
  <2>5. IsList(<<m.item>>) /\ IsList(sep) /\ IsList(f[n].out) /\ Begins(a.out, f[n].out) /\ IsList(a.out)
    BY <1>2, <2>1, ShortLists DEF Separator, IsReference
  <2>6. IsList(u) /\ Begins(f[n].out, u)
    BY <2>3, <2>5, Joins
  <2>7. IsList(u \o sep) /\ Begins(u, u \o sep)
    BY <2>5, <2>6, Joins
  <2>8. Begins(f[n].out, u \o sep)
    BY <2>5, <2>6, <2>7, BeginsFacts
  <2>9. Begins(a.out, u \o sep)
    BY <2>5, <2>7, <2>8, BeginsFacts
  <2>. QED
    BY <2>4, <2>7, <2>9
<1>. HIDE DEF Good
<1>3. Bad = {}
  <2>. SUFFICES ASSUME Bad # {}
                PROVE  FALSE
    OBVIOUS
  <2>1. PICK n \in Bad : \A l \in Bad : n <= l
    BY RowFold!LeastOfSet
  <2>2. n # 0 /\ n \in Nat /\ n <= N
    BY <1>1, <2>1
  <2>3. PICK l \in Nat : n = l + 1 /\ l < N /\ ~(n <= l)
    <3>1. n - 1 \in Nat /\ n = (n - 1) + 1 /\ n - 1 < N /\ ~(n <= n - 1)
      BY <2>2
    <3>. QED
      BY <3>1
  <2>4. Good(l)
    BY <2>1, <2>3
  <2>. QED
    BY <1>2, <2>1, <2>3, <2>4
<1>4. \A n \in 0 .. N : Good(n)
  BY <1>3
<1>. QED
  BY <1>4 DEF Good

(* One row: its item, then the separator. *)
IsRow(st, f, n) ==
  /\ IsList(f[n - 1].out) /\ IsList(f[n].out) /\ IsList(Written(st, f, n))
  /\ Written(st, f, n) = f[n - 1].out \o <<MaskedRow(st, f, n).item>>
  /\ f[n].out = Written(st, f, n) \o Separator(st, n)
  /\ f[n].engine = MaskedRow(st, f, n).engine
  /\ Begins(Written(st, f, n), f[n].out)
  /\ Begins(f[n - 1].out, f[n].out)

(* The same, as far as the output goes. *)
LEMMA RowWritten ==
  ASSUME NEW a, IsReference(a), NEW st, NEW f, RowsFrom(a, st, f), NEW N \in Nat, N = Len(st.rows),
         NEW n \in 1 .. N
  PROVE  IsRow(st, f, n)
<1>1. PICK l \in Nat : l = n - 1 /\ n = l + 1 /\ l < N /\ l \in 0 .. N /\ n \in 0 .. N
  OBVIOUS
<1>2. PICK m, sep : m = MaskedRow(st, f, n) /\ sep = Separator(st, n)
  OBVIOUS
<1>3. f[l] = [statement |-> st, engine |-> f[l].engine, out |-> f[l].out]
      /\ IsList(f[l].out) /\ IsList(f[n].out)
  <2>1. \A k \in 0 .. N :
           /\ f[k] = [statement |-> st, engine |-> f[k].engine, out |-> f[k].out]
           /\ IsList(f[k].out) /\ Begins(a.out, f[k].out)
    BY RowStep
  <2>. QED
    BY <1>1, <2>1
<1>4. f[n] = RefRow(f[l], n)
  BY <1>1 DEF RowsFrom
<1>5. m = MaskRow(f[l].engine, st.table, st.form, st.rows[n])
  BY <1>1, <1>2 DEF MaskedRow
<1>6. PICK u : u = f[l].out \o <<m.item>>
  OBVIOUS
<1>7. f[n].out = u \o sep /\ f[n].engine = m.engine
  <2>1. RefRow(f[l], n) = [statement |-> st, engine |-> m.engine, out |-> u \o sep]
    <3>1. PICK g, r : g = f[l] /\ r = RefRow(g, n)
      OBVIOUS
    <3>2. g = [statement |-> g.statement, engine |-> g.engine, out |-> g.out] /\ g.statement = st
      BY <1>3, <3>1
    <3>3. m = MaskRow(g.engine, st.table, st.form, st.rows[n]) /\ sep = Separator(st, n)
      BY <1>2, <1>5, <3>1
    <3>4. IsRowAfter(r, g, st, m, sep)
      BY <3>1, <3>2, <3>3, RefRowIs
    <3>5. r = [statement |-> st, engine |-> m.engine, out |-> (g.out \o <<m.item>>) \o sep]
      BY <3>4 DEF IsRowAfter
    <3>. QED
      BY <1>6, <3>1, <3>5
  <2>. QED
    BY <1>4, <2>1
<1>8. Written(st, f, n) = u
  BY <1>1, <1>2, <1>6 DEF Written
<1>9. IsList(<<m.item>>) /\ IsList(sep)
  BY <1>2, ShortLists DEF Separator
<1>10. IsList(u) /\ Begins(f[l].out, u)
  BY <1>3, <1>6, <1>9, Joins
<1>11. Begins(u, u \o sep)
  BY <1>9, <1>10, Joins
<1>12. Begins(f[l].out, f[n].out)
  BY <1>3, <1>7, <1>10, <1>11, BeginsFacts
<1>. QED
  BY <1>1, <1>2, <1>3, <1>6, <1>7, <1>8, <1>10, <1>11, <1>12 DEF IsRow

(* Rows are only added. *)
LEMMA RowsGrow ==
  ASSUME NEW a, IsReference(a), NEW st, NEW f, RowsFrom(a, st, f), NEW N \in Nat, N = Len(st.rows),
         NEW m \in 0 .. N
  PROVE  Begins(f[m].out, f[N].out)
<1>. DEFINE Bad == {n \in Nat : m <= n /\ n <= N /\ ~Begins(f[m].out, f[n].out)}
<1>1. \A n \in 0 .. N : IsList(f[n].out)
  BY RowStep
<1>2. Bad = {}
  <2>. SUFFICES ASSUME Bad # {}
                PROVE  FALSE
    OBVIOUS
  <2>1. PICK n \in Bad : \A l \in Bad : n <= l
    BY RowFold!LeastOfSet
  <2>2. n # m
    <3>1. Begins(f[m].out, f[m].out)
      BY <1>1, BeginsFacts
    <3>. QED
      BY <2>1, <3>1
  <2>3. PICK l \in Nat : l = n - 1 /\ m <= l /\ l <= N /\ n \in 1 .. N /\ ~(n <= l) /\ l \in 0 .. N
                         /\ n \in 0 .. N
    <3>1. n - 1 \in Nat
      BY <2>1, <2>2
    <3>. QED
      BY <2>1, <2>2, <3>1
  <2>4. Begins(f[m].out, f[l].out)
    BY <2>1, <2>3
  <2>5. Begins(f[l].out, f[n].out)
    <3>1. IsRow(st, f, n)
      BY <2>3, RowWritten
    <3>. QED
      BY <2>3, <3>1 DEF IsRow
  <2>6. Begins(f[m].out, f[n].out)
    BY <1>1, <2>3, <2>4, <2>5, BeginsFacts
  <2>. QED
    BY <2>1, <2>6
<1>. QED
  BY <1>2

-----------------------------------------------------------------------------
(* The scan of an INSERT's buffer.  k of its tokens have been read: the row they end in or
   after is row n. *)
RowsBy(st, n, k) ==
  /\ n \in 0 .. Len(st.rows) /\ RowEnd(n) <= k
  /\ n < Len(st.rows) => k < 2 * n + 1

(* The next token is the next row, the comma after a row, the trailing clause or the
   terminator. *)
NextIs(st, N, all, n, k) ==
  \/ /\ n < N /\ k + 1 = 2 * n + 1 /\ k + 1 < Len(all) /\ RowEnd(n + 1) = k + 1
     /\ all[k + 1] = Group(st.rows[n + 1]) /\ RowsBy(st, n + 1, k + 1)
  \/ /\ n < N /\ n > 0 /\ k + 1 = 2 * n /\ k + 1 < Len(all)
     /\ all[k + 1] = Comma /\ RowsBy(st, n, k + 1)
  \/ /\ n = N /\ st.clause /\ k + 1 < Len(all)
     /\ all[k + 1] # Semi /\ RowsBy(st, n, k + 1)
  \/ n = N /\ k + 1 = Len(all) /\ all[k + 1] = Semi

LEMMA NextToken ==
  ASSUME NEW st, Inserted(st), NEW N \in Nat, N = Len(st.rows), NEW all, all = InsertTokens(st),
         NEW n, NEW k \in Nat, RowsBy(st, n, k), k < Len(all)
  PROVE  NextIs(st, N, all, n, k)
<1>. USE DEF NextIs
<1>1. /\ st.clause => Len(all) = RowEnd(N) + 3
      /\ ~st.clause => Len(all) = RowEnd(N) + 1
      /\ \A i \in 1 .. N : all[2 * i - 1] = Group(st.rows[i])
      /\ \A i \in 1 .. N - 1 : all[2 * i] = Comma
      /\ st.clause => N # 0 /\ all[2 * N] = Other /\ all[2 * N + 1] = Group(Clause)
      /\ all[Len(all)] = Semi
  <2>1. TokensAre(all, st, N)
    BY InsertTokensAre
  <2>. QED
    BY <2>1 DEF TokensAre
<1>2. n \in Nat /\ n <= N /\ RowEnd(n) <= k /\ (n < N => k < 2 * n + 1)
  BY DEF RowsBy
<1>3. PICK l, e \in Nat : /\ l \in Nat /\ l = Len(all) /\ e = RowEnd(N)
                          /\ st.clause => l = e + 3
                          /\ ~st.clause => l = e + 1
  <2>1. RowEnd(N) \in Nat
    BY DEF RowEnd
  <2>2. Len(all) \in Nat
    BY <1>1, <2>1
  <2>. QED
    BY <1>1, <2>1, <2>2
<1>4. CASE n < N /\ k = 2 * n
  <2>1. n + 1 \in 1 .. N /\ 2 * (n + 1) - 1 = k + 1
    BY <1>2, <1>4
  <2>2. all[k + 1] = Group(st.rows[n + 1])
    <3>1. all[2 * (n + 1) - 1] = Group(st.rows[n + 1])
      BY <1>1, <2>1
    <3>. QED
      BY <2>1, <3>1
  <2>3. RowEnd(n + 1) = k + 1 /\ k + 1 < l
    BY <1>2, <1>3, <1>4 DEF RowEnd
  <2>4. n + 1 \in 0 .. N /\ (n + 1 < N => k + 1 < 2 * (n + 1) + 1)
    BY <1>2, <1>4
  <2>. QED
    BY <1>2, <1>3, <1>4, <2>2, <2>3, <2>4 DEF RowsBy
<1>5. CASE n < N /\ k # 2 * n
  <2>1. n > 0 /\ k + 1 = 2 * n /\ n \in 1 .. N - 1
    BY <1>2, <1>5 DEF RowEnd
  <2>2. all[k + 1] = Comma
    <3>1. all[2 * n] = Comma
      BY <1>1, <2>1
    <3>. QED
      BY <2>1, <3>1
  <2>3. RowEnd(n) <= k + 1 /\ k + 1 < 2 * n + 1 /\ k + 1 < l
    BY <1>2, <1>3, <2>1 DEF RowEnd
  <2>. QED
    BY <1>2, <1>3, <1>5, <2>1, <2>2, <2>3 DEF RowsBy
<1>6. CASE n = N /\ k + 1 < l
  <2>1. st.clause /\ N # 0 /\ (k + 1 = 2 * N \/ k + 1 = 2 * N + 1)
    <3>1. st.clause
      BY <1>2, <1>3, <1>6
    <3>2. N # 0 /\ RowEnd(N) = 2 * N - 1
      BY <1>1, <3>1 DEF RowEnd
    <3>. QED
      BY <1>2, <1>3, <1>6, <3>1, <3>2
  <2>2. all[k + 1] # Semi
    <3>1. all[2 * N] = Other /\ all[2 * N + 1] = Group(Clause)
      BY <1>1, <2>1
    <3>. QED
      BY <2>1, <3>1, TokenKinds
  <2>3. RowsBy(st, n, k + 1)
    <3>1. RowEnd(n) \in Nat
      BY <1>2 DEF RowEnd
    <3>. QED
      BY <1>2, <1>6, <3>1 DEF RowsBy
  <2>. QED
    BY <1>3, <1>6, <2>1, <2>2, <2>3
<1>7. CASE n = N /\ k + 1 = l
  BY <1>1, <1>3, <1>7
<1>. QED
  BY <1>2, <1>3, <1>4, <1>5, <1>6, <1>7

(* The part of an INSERT that is in the buffer: from after token o up to token K, which is
   not the last one before a trailing clause. *)
Buffered(st, all, o, K, buffer) ==
  /\ all = InsertTokens(st) /\ o \in Nat /\ K \in Nat /\ o <= K /\ K <= Len(all)
  /\ st.clause => K # RowEnd(Len(st.rows))
  /\ buffer = SubSeq(all, o + 1, K)

IsBuffer(all, o, K, buffer) ==
  /\ IsList(all) /\ Len(all) \in Nat /\ IsList(buffer) /\ Len(buffer) = K - o
  /\ o \in Nat /\ K \in Nat /\ o <= K /\ K <= Len(all)
  /\ \A i \in 1 .. K - o : buffer[i] = all[o + i]
  /\ \A i, j \in Nat : i <= j /\ j <= K - o =>
       SubSeq(buffer, i + 1, j) = SubSeq(all, (o + i) + 1, o + j)

(* A buffer holds tokens o + 1 to K of the INSERT. *)
LEMMA BufferIs ==
  ASSUME NEW st, Inserted(st), NEW all, NEW o, NEW K, NEW buffer, Buffered(st, all, o, K, buffer)
  PROVE  IsBuffer(all, o, K, buffer)
<1>1. IsList(all)
  <2>1. PICK N \in Nat : N = Len(st.rows)
    BY DEF Inserted
  <2>. QED
    <3>1. TokensAre(all, st, N)
      BY <2>1, InsertTokensAre DEF Buffered
    <3>. QED
      BY <3>1 DEF TokensAre
<1>2. o \in Nat /\ K \in Nat /\ o <= K /\ K <= Len(all) /\ buffer = SubSeq(all, o + 1, K)
  BY DEF Buffered
<1>3. /\ IsList(buffer) /\ Len(buffer) = K - o
      /\ \A i \in 1 .. K - o : buffer[i] = all[o + i]
  <2>1. IsPart(buffer, all, o, K)
    BY <1>1, <1>2, PartIs
  <2>. QED
    BY <2>1 DEF IsPart
<1>4. \A i, j \in Nat : i <= j /\ j <= K - o =>
        SubSeq(buffer, i + 1, j) = SubSeq(all, (o + i) + 1, o + j)
  BY <1>1, <1>2, PartOfPart
<1>. QED
  BY <1>1, <1>2, <1>3, <1>4, ListFacts DEF IsBuffer

(* After a row in the buffer, the parser sees whether a trailing clause begins. *)
ClauseSeen(st, buffer, n, j) == BeginsClause(buffer, j) <=> st.clause /\ n = Len(st.rows)

(* A trailing clause begins after row i of the buffer just when that is the last row of an
   INSERT that has one and more of it has been read. *)
LEMMA ClauseIsSeen ==
  ASSUME NEW st, Inserted(st), NEW N \in Nat, N = Len(st.rows), NEW all, NEW o, NEW K, NEW buffer,
         Buffered(st, all, o, K, buffer), NEW n \in 1 .. N,
         NEW j \in 1 .. K - o, o + j = RowEnd(n)
  PROVE  ClauseSeen(st, buffer, n, j)
<1>1. /\ Len(all) \in Nat /\ Len(buffer) = K - o
      /\ \A i \in 1 .. K - o : buffer[i] = all[o + i]
  <2>1. IsBuffer(all, o, K, buffer)
    BY BufferIs
  <2>. QED
    BY <2>1 DEF IsBuffer
<1>2. /\ st.clause => Len(all) = RowEnd(N) + 3
      /\ ~st.clause => Len(all) = RowEnd(N) + 1
      /\ \A i \in 1 .. N - 1 : all[2 * i] = Comma
      /\ st.clause => N # 0 /\ all[2 * N] = Other
      /\ all[Len(all)] = Semi
  <2>1. all = InsertTokens(st)
    BY DEF Buffered
  <2>2. TokensAre(all, st, N)
    BY <2>1, InsertTokensAre
  <2>. QED
    BY <2>1, <2>2 DEF TokensAre
<1>3. o \in Nat /\ K \in Nat /\ o <= K /\ K <= Len(all) /\ (st.clause => K # RowEnd(N))
  BY DEF Buffered
<1>4. o + (j + 1) = 2 * n
  BY <1>3 DEF RowEnd
<1>5. ASSUME j < Len(buffer)
      PROVE  buffer[j + 1] = all[2 * n]
  <2>1. j + 1 \in 1 .. K - o
    BY <1>1, <1>3, <1>5
  <2>. QED
    BY <1>1, <1>4, <2>1
<1>6. CASE n < N
  <2>1. all[2 * n] = Comma
    BY <1>2, <1>6
  <2>. QED
    BY <1>5, <1>6, <2>1 DEF BeginsClause, ClauseSeen
<1>7. CASE n = N /\ st.clause
  <2>1. all[2 * n] = Other
    BY <1>2, <1>7
  <2>2. j < Len(buffer)
    BY <1>1, <1>3, <1>4, <1>7 DEF RowEnd
  <2>. QED
    BY <1>5, <1>7, <2>1, <2>2, TokenKinds DEF BeginsClause, ClauseSeen
<1>8. CASE n = N /\ ~st.clause
  <2>1. Len(all) = 2 * n
    BY <1>2, <1>8 DEF RowEnd
  <2>2. all[2 * n] = Semi
    BY <1>2, <2>1
  <2>. QED
    BY <1>5, <1>8, <2>2 DEF BeginsClause, ClauseSeen
<1>. QED
  BY <1>6, <1>7, <1>8

(* A statement that follows a, with its rows and what it is to become. *)
Told(a, st, f, r) ==
  /\ IsReference(a) /\ RowsFrom(a, st, f)
  /\ RefRows(a, st) = f[Len(st.rows)] /\ r = RefStatement(a, st)

(* The reference at its rows, in one piece. *)
LEMMA ToldRows ==
  ASSUME NEW a, NEW st, NEW f, NEW r, Told(a, st, f, r), NEW N \in Nat, N = Len(st.rows)
  PROVE  /\ \A n \in 0 .. N : IsList(f[n].out) /\ Begins(f[n].out, f[N].out)
         /\ \A n \in 1 .. N : IsRow(st, f, n)
<1>1. IsReference(a) /\ RowsFrom(a, st, f)
  BY DEF Told
<1>2. ASSUME NEW n \in 0 .. N
      PROVE  IsList(f[n].out) /\ Begins(f[n].out, f[N].out)
  <2>1. \A k \in 0 .. N :
          /\ f[k] = [statement |-> st, engine |-> f[k].engine, out |-> f[k].out]
          /\ IsList(f[k].out) /\ Begins(a.out, f[k].out)
    BY <1>1, RowStep
  <2>2. Begins(f[n].out, f[N].out)
    BY <1>1, RowsGrow
  <2>. QED
    BY <2>1, <2>2
<1>3. \A n \in 1 .. N : IsRow(st, f, n)
  BY <1>1, RowWritten
<1>. QED
  BY <1>2, <1>3

IsTold(a, st, f, r) ==
  /\ IsReference(r)
  /\ st.table \in Truncated => r = a
  /\ st.table \notin Truncated =>
       r.engine = f[Len(st.rows)].engine /\ r.out = f[Len(st.rows)].out \o Ending(st)

(* The reference of an INSERT, from that of its rows. *)
LEMMA InsertIs ==
  ASSUME NEW a, NEW st, NEW f, NEW r, Told(a, st, f, r), Inserted(st), NEW N \in Nat, N = Len(st.rows)
  PROVE  IsTold(a, st, f, r)
<1>1. CASE st.table \in Truncated
  <2>1. r = a
    BY <1>1 DEF Told, RefStatement, Inserted
  <2>. QED
    BY <1>1, <2>1 DEF Told, IsTold
<1>2. CASE st.table \notin Truncated
  <2>1. r = [engine |-> RefRows(a, st).engine, out |-> RefRows(a, st).out \o Ending(st)]
    BY <1>2 DEF Told, RefStatement, Inserted
  <2>2. PICK u : u = f[N].out \o Ending(st)
    OBVIOUS
  <2>3. r = [engine |-> f[N].engine, out |-> u]
    BY <2>1, <2>2 DEF Told
  <2>4. IsList(f[N].out) /\ IsList(Ending(st))
    <3>1. N \in 0 .. N
      OBVIOUS
    <3>. QED
      BY <3>1, ToldRows, EndingIs
  <2>5. IsList(u)
    BY <2>2, <2>4, Joins
  <2>. QED
    BY <1>2, <2>2, <2>3, <2>5 DEF IsReference, IsTold
<1>. QED
  BY <1>1, <1>2

(* The text between two rows, and after the last one. *)
Between(st, f, all, n) == Written(st, f, n) \o SubSeq(all, RowEnd(n) + 1, 2 * n) = f[n].out

(* That is what the parser writes before row n + 1. *)
LEMMA TextBetween ==
  ASSUME NEW a, NEW st, NEW f, NEW r, Told(a, st, f, r), Inserted(st), NEW N \in Nat, N = Len(st.rows),
         NEW all, all = InsertTokens(st), NEW n \in 0 .. N, n < N
  PROVE  Between(st, f, all, n)
<1>1. IsList(all) /\ Len(all) \in Nat /\ RowEnd(N) <= Len(all) /\ \A i \in 1 .. N - 1 : all[2 * i] = Comma
  <2>1. RowEnd(N) \in Nat
    BY DEF RowEnd
  <2>2. TokensAre(all, st, N)
    BY <2>1, InsertTokensAre
  <2>3. Len(all) = RowEnd(N) + 3 \/ Len(all) = RowEnd(N) + 1
    BY <2>2 DEF TokensAre
  <2>4. IsList(all) /\ \A i \in 1 .. N - 1 : all[2 * i] = Comma
    BY <2>2 DEF TokensAre
  <2>. QED
    BY <2>1, <2>3, <2>4
<1>2. PICK t : t = SubSeq(all, RowEnd(n) + 1, 2 * n)
  OBVIOUS
<1>3. RowEnd(n) \in Nat /\ RowEnd(n) <= 2 * n /\ 2 * n \in Nat /\ 2 * n <= Len(all)
  BY <1>1 DEF RowEnd
<1>4. IsList(t) /\ Len(t) = 2 * n - RowEnd(n) /\ \A k \in 1 .. 2 * n - RowEnd(n) : t[k] = all[RowEnd(n) + k]
  <2>1. IsPart(t, all, RowEnd(n), 2 * n)
    BY <1>1, <1>2, <1>3, PartIs
  <2>. QED
    BY <2>1 DEF IsPart
<1>5. CASE n = 0
  <2>1. t = <<>>
    <3>1. Len(t) = Len(<<>>) /\ Len(t) = 0
      BY <1>4, <1>5, ShortLists DEF RowEnd
    <3>. QED
      BY <1>4, <3>1, ListsEqual, ShortLists
  <2>2. Written(st, f, n) = f[n].out /\ IsList(f[n].out)
    <3>1. IsList(f[n].out)
      BY ToldRows
    <3>. QED
      BY <1>5, <3>1 DEF Written
  <2>. QED
    BY <1>2, <2>1, <2>2, ShortLists DEF Between
<1>6. CASE n # 0
  <2>1. t = <<Comma>>
    <3>1. Len(t) = 1 /\ t[1] = all[2 * n]
      BY <1>4, <1>6 DEF RowEnd
    <3>2. all[2 * n] = Comma
      BY <1>1, <1>6
    <3>3. PICK c : c = Comma
      OBVIOUS
    <3>4. IsList(<<c>>) /\ Len(<<c>>) = 1 /\ <<c>>[1] = c
      BY ShortLists
    <3>5. \A k \in 1 .. Len(t) : t[k] = <<c>>[k]
      BY <3>1, <3>2, <3>3, <3>4
    <3>. QED
      BY <1>4, <3>1, <3>3, <3>4, <3>5, ListsEqual
  <2>2. f[n].out = Written(st, f, n) \o Separator(st, n)
    <3>1. n \in 1 .. N
      BY <1>6
    <3>2. IsRow(st, f, n)
      BY <3>1, ToldRows
    <3>. QED
      BY <3>2 DEF IsRow
  <2>3. Separator(st, n) = <<Comma>>
    BY DEF Separator, Inserted
  <2>. QED
    BY <1>2, <2>1, <2>2, <2>3 DEF Between
<1>. QED
  BY <1>5, <1>6

After(st, f, all, n) ==
  (Written(st, f, n) \o SubSeq(all, RowEnd(n) + 1, Len(all) - 1)) \o <<Semi>> = f[n].out \o Ending(st)

(* That is what it writes after the last one. *)
LEMMA TextAfter ==
  ASSUME NEW a, NEW st, NEW f, NEW r, Told(a, st, f, r), Inserted(st), NEW N \in Nat, N = Len(st.rows),
         NEW all, all = InsertTokens(st), NEW l \in Nat, Len(all) = l + 1
  PROVE  After(st, f, all, N)
<1>1. /\ IsList(all) /\ RowEnd(N) \in Nat /\ RowEnd(N) <= l
      /\ all[Len(all)] = Semi
      /\ SubSeq(all, RowEnd(N) + 1, Len(all)) = Ending(st)
  <2>1. RowEnd(N) \in Nat
    BY DEF RowEnd
  <2>2. TokensAre(all, st, N)
    BY InsertTokensAre
  <2>3. Len(all) = RowEnd(N) + 3 \/ Len(all) = RowEnd(N) + 1
    BY <2>2 DEF TokensAre
  <2>4. RowEnd(N) <= l
    BY <2>1, <2>3
  <2>. QED
    BY <2>1, <2>4, <2>2 DEF TokensAre
<1>2. PICK t, u, s : t = SubSeq(all, RowEnd(N) + 1, l) /\ u = SubSeq(all, l + 1, l + 1) /\ s = Semi
  OBVIOUS
<1>3. IsList(t) /\ IsList(u) /\ Len(u) = 1 /\ u[1] = s
  <2>1. l + 1 \in Nat /\ l <= l + 1 /\ l + 1 <= Len(all) /\ (l + 1) - l = 1 /\ l <= Len(all)
    OBVIOUS
  <2>2. IsList(u) /\ Len(u) = 1 /\ \A k \in 1 .. 1 : u[k] = all[l + k]
    <3>1. IsPart(u, all, l, l + 1)
      BY <1>1, <1>2, <2>1, PartIs
    <3>. QED
      BY <2>1, <3>1 DEF IsPart
  <2>3. IsList(t)
    BY <1>1, <1>2, <2>1, Parts
  <2>. QED
    BY <1>1, <1>2, <2>2, <2>3
<1>4. u = <<s>>
  <2>1. IsList(<<s>>) /\ Len(<<s>>) = 1 /\ <<s>>[1] = s
    BY ShortLists
  <2>2. \A k \in 1 .. Len(u) : u[k] = <<s>>[k]
    BY <1>3, <2>1
  <2>. QED
    BY <1>3, <2>1, <2>2, ListsEqual
<1>5. t \o u = Ending(st)
  <2>1. l + 1 \in Nat /\ l <= l + 1 /\ l + 1 <= Len(all)
    OBVIOUS
  <2>2. Adjacent(all, RowEnd(N), l, l + 1)
    BY <1>1, <2>1, AdjacentParts
  <2>. QED
    BY <1>1, <1>2, <2>2 DEF Adjacent
<1>6. IsList(f[N].out) /\ Written(st, f, N) = f[N].out
  <2>1. IsList(f[N].out)
    BY ToldRows
  <2>2. CASE N = 0
    BY <2>1, <2>2 DEF Written
  <2>3. CASE N # 0
    <3>1. N \in 1 .. N
      BY <2>3
    <3>2. f[N].out = Written(st, f, N) \o Separator(st, N) /\ IsList(Written(st, f, N))
      <4>1. IsRow(st, f, N)
        BY <3>1, ToldRows
      <4>. QED
        BY <4>1 DEF IsRow
    <3>3. Separator(st, N) = <<>>
      BY DEF Separator
    <3>. QED
      BY <2>1, <3>2, <3>3, ShortLists
  <2>. QED
    BY <2>2, <2>3
<1>7. (f[N].out \o t) \o u = f[N].out \o (t \o u)
  <2>1. PICK w, x, y : w = f[N].out /\ x = w \o t /\ y = t \o u
    OBVIOUS
  <2>2. IsList(w) /\ IsList(t) /\ IsList(u)
    BY <1>3, <1>6, <2>1
  <2>3. IsJoin(x, w, t) /\ IsJoin(y, t, u)
    BY <2>1 DEF IsJoin
  <2>4. x \o u = w \o y
    BY <2>2, <2>3, JoinsAssociate
  <2>. QED
    BY <2>1, <2>4
<1>8. Len(all) - 1 = l
  OBVIOUS
<1>. QED
  BY <1>2, <1>4, <1>5, <1>6, <1>7, <1>8 DEF After

(* What the scan has made of the first i tokens of a buffer: it has stopped at a row that
   cannot be masked, has come to the terminator, or is past row n. *)
Scanner(st, buffer, s) ==
  s = [table |-> st.table, buffer |-> buffer, out |-> s.out, engine |-> s.engine,
       trailing |-> s.trailing, at |-> s.at, done |-> s.done]

OutAfter(a, st, f, n)    == IF st.table \in Truncated THEN a.out ELSE Written(st, f, n)
EngineAfter(a, st, f, n) == IF st.table \in Truncated THEN a.engine ELSE f[n].engine

Stopped(st, f, s) ==
  /\ s.engine.failed /\ ~s.done /\ st.table \notin Truncated
  /\ \E n \in 0 .. Len(st.rows) : s.out = f[n].out

Terminated(r, all, o, i, s) ==
  /\ s.done /\ ~s.engine.failed /\ o + i = Len(all) /\ s.at = i
  /\ s.out = r.out /\ s.engine = r.engine

Reading(a, st, f, all, o, i, n, s) ==
  /\ ~s.done /\ ~s.engine.failed /\ o + i < Len(all)
  /\ RowsBy(st, n, o + i) /\ o <= RowEnd(n) /\ s.at = RowEnd(n) - o
  /\ s.trailing <=> st.clause /\ n = Len(st.rows)
  /\ s.out = OutAfter(a, st, f, n) /\ s.engine = EngineAfter(a, st, f, n)

ScanInv(a, st, f, r, all, o, buffer, i, s) ==
  /\ Scanner(st, buffer, s)
  /\ \/ Stopped(st, f, s)
     \/ Terminated(r, all, o, i, s)
     \/ \E n \in 0 .. Len(st.rows) : Reading(a, st, f, all, o, i, n, s)

(* What one token does to the scanner. *)
IsScanner(s, st, buffer, at, trailing, done, wrote, engine) ==
  s = [table |-> st.table, buffer |-> buffer, out |-> wrote, engine |-> engine,
       trailing |-> trailing, at |-> at, done |-> done]

(* One field at a time. *)
LEMMA ScannerSet ==
  ASSUME NEW st, NEW buffer, NEW s, NEW t, NEW at, NEW trailing, NEW done, NEW wrote, NEW engine, NEW x,
         IsScanner(s, st, buffer, at, trailing, done, wrote, engine)
  PROVE  /\ t = [s EXCEPT !.at = x] => IsScanner(t, st, buffer, x, trailing, done, wrote, engine)
         /\ t = [s EXCEPT !.trailing = x] => IsScanner(t, st, buffer, at, x, done, wrote, engine)
         /\ t = [s EXCEPT !.done = x] => IsScanner(t, st, buffer, at, trailing, x, wrote, engine)
         /\ t = [s EXCEPT !.out = x] => IsScanner(t, st, buffer, at, trailing, done, x, engine)
         /\ t = [s EXCEPT !.engine = x] => IsScanner(t, st, buffer, at, trailing, done, wrote, x)
BY DEF IsScanner

(* A scanner s that has come to token i. *)
TokenMade(t, st, buffer, s, i, text, tail, m, yes) ==
  IF buffer[i] = Semi
    THEN IsScanner(t, st, buffer, i, s.trailing, yes,
                   IF st.table \in Truncated THEN s.out ELSE (s.out \o text) \o <<Semi>>, s.engine)
  ELSE IF ~IsGroup(buffer[i]) \/ s.trailing THEN t = s
  ELSE IF st.table \in Truncated THEN IsScanner(t, st, buffer, i, tail, s.done, s.out, s.engine)
  ELSE IF m.engine.failed
    THEN IsScanner(t, st, buffer, s.at, s.trailing, s.done, s.out \o text, m.engine)
  ELSE IsScanner(t, st, buffer, i, tail, s.done, (s.out \o text) \o <<m.item>>, m.engine)

(* That is what the scanner makes of it. *)
LEMMA TokenScanned ==
  ASSUME NEW st, NEW buffer, NEW s, Scanner(st, buffer, s), ~s.done, ~s.engine.failed,
         NEW i, NEW text, text = SubSeq(buffer, s.at + 1, i - 1),
         NEW tail, tail = BeginsClause(buffer, i),
         NEW m, m = MaskRow(s.engine, st.table, "insert", buffer[i][2]),
         NEW t, t = ScanToken(s, i), NEW yes, yes = TRUE
  PROVE  TokenMade(t, st, buffer, s, i, text, tail, m, yes)
<1>1. PICK wrote, engine, trailing, at, done :
        /\ wrote = s.out /\ engine = s.engine /\ trailing = s.trailing /\ at = s.at /\ done = s.done
        /\ IsScanner(s, st, buffer, at, trailing, done, wrote, engine)
        /\ s.table = st.table /\ s.buffer = buffer
  BY DEF Scanner, IsScanner
<1>2. CASE buffer[i] = Semi
  <2>1. PICK u : u = IF st.table \in Truncated THEN s.out ELSE (s.out \o text) \o <<Semi>>
    OBVIOUS
  <2>2. PICK x, y : x = [s EXCEPT !.at = i] /\ y = [x EXCEPT !.done = yes]
    OBVIOUS
  <2>3. t = [y EXCEPT !.out = u]
    <3>1. t = [s EXCEPT !.at = i, !.done = TRUE, !.out = u]
      BY <1>1, <1>2, <2>1 DEF ScanToken
    <3>. QED
      BY <2>2, <3>1
  <2>4. IsScanner(x, st, buffer, i, trailing, done, wrote, engine)
    BY <1>1, <2>2, ScannerSet
  <2>5. IsScanner(y, st, buffer, i, trailing, yes, wrote, engine)
    BY <2>2, <2>4, ScannerSet
  <2>6. IsScanner(t, st, buffer, i, trailing, yes, u, engine)
    BY <2>3, <2>5, ScannerSet
  <2>. QED
    BY <1>1, <1>2, <2>1, <2>6 DEF TokenMade
<1>3. CASE buffer[i] # Semi /\ (~IsGroup(buffer[i]) \/ s.trailing)
  BY <1>1, <1>3 DEF ScanToken, TokenMade
<1>4. CASE buffer[i] # Semi /\ IsGroup(buffer[i]) /\ ~s.trailing /\ st.table \in Truncated
  <2>1. PICK x : x = [s EXCEPT !.at = i]
    OBVIOUS
  <2>2. t = [x EXCEPT !.trailing = tail]
    <3>1. t = [s EXCEPT !.at = i, !.trailing = tail]
      BY <1>1, <1>4 DEF ScanToken
    <3>. QED
      BY <2>1, <3>1
  <2>3. IsScanner(x, st, buffer, i, trailing, done, wrote, engine)
    BY <1>1, <2>1, ScannerSet
  <2>4. IsScanner(t, st, buffer, i, tail, done, wrote, engine)
    BY <2>2, <2>3, ScannerSet
  <2>. QED
    BY <1>1, <1>4, <2>4 DEF TokenMade
<1>5. CASE buffer[i] # Semi /\ IsGroup(buffer[i]) /\ ~s.trailing /\ st.table \notin Truncated
  <2>1. t = WriteRow(s, i, text, tail, m)
    BY <1>1, <1>5 DEF ScanToken
  <2>2. PICK u, w : u = s.out \o text /\ w = (s.out \o text) \o <<m.item>>
    OBVIOUS
  <2>3. CASE m.engine.failed
    <3>1. PICK x : x = [s EXCEPT !.out = u]
      OBVIOUS
    <3>2. t = [x EXCEPT !.engine = m.engine]
      <4>1. t = [s EXCEPT !.out = u, !.engine = m.engine]
        BY <2>1, <2>2, <2>3 DEF WriteRow
      <4>. QED
        BY <3>1, <4>1
    <3>3. IsScanner(x, st, buffer, at, trailing, done, u, engine)
      BY <1>1, <3>1, ScannerSet
    <3>4. IsScanner(t, st, buffer, at, trailing, done, u, m.engine)
      BY <3>2, <3>3, ScannerSet
    <3>. QED
      BY <1>1, <1>5, <2>2, <2>3, <3>4 DEF TokenMade
  <2>4. CASE ~m.engine.failed
    <3>1. PICK x, y, z : /\ x = [s EXCEPT !.at = i] /\ y = [x EXCEPT !.trailing = tail]
                         /\ z = [y EXCEPT !.engine = m.engine]
      OBVIOUS
    <3>2. t = [z EXCEPT !.out = w]
      <4>1. t = [s EXCEPT !.at = i, !.trailing = tail, !.engine = m.engine, !.out = w]
        BY <2>1, <2>2, <2>4 DEF WriteRow
      <4>. QED
        BY <3>1, <4>1
    <3>3. IsScanner(x, st, buffer, i, trailing, done, wrote, engine)
      BY <1>1, <3>1, ScannerSet
    <3>4. IsScanner(y, st, buffer, i, tail, done, wrote, engine)
      BY <3>1, <3>3, ScannerSet
    <3>5. IsScanner(z, st, buffer, i, tail, done, wrote, m.engine)
      BY <3>1, <3>4, ScannerSet
    <3>6. IsScanner(t, st, buffer, i, tail, done, w, m.engine)
      BY <3>2, <3>5, ScannerSet
    <3>. QED
      BY <1>1, <1>5, <2>2, <2>4, <3>6 DEF TokenMade
  <2>. QED
    BY <2>3, <2>4
<1>. QED
  BY <1>2, <1>3, <1>4, <1>5

(* The fields of a scanner. *)
LEMMA ScannerFields ==
  ASSUME NEW st, NEW buffer, NEW at, NEW trailing, NEW done, NEW wrote, NEW engine,
         NEW t, IsScanner(t, st, buffer, at, trailing, done, wrote, engine)
  PROVE  /\ Scanner(st, buffer, t) /\ t.at = at /\ t.trailing = trailing /\ t.done = done
         /\ t.out = wrote /\ t.engine = engine
BY DEF Scanner, IsScanner

(* The next token is a row. *)
LEMMA ScanOfRow ==
  ASSUME NEW a, NEW st, NEW f, NEW r, Told(a, st, f, r), Inserted(st), NEW N \in Nat, N = Len(st.rows),
         NEW all, NEW o, NEW K, NEW buffer, Buffered(st, all, o, K, buffer),
         NEW i \in Nat, NEW j \in Nat, j = i + 1, i < K - o, NEW s, Scanner(st, buffer, s),
         NEW n \in 0 .. N, NEW l \in 1 .. N, l = n + 1, n = l - 1,
         Reading(a, st, f, all, o, i, n, s),
         o + j = 2 * n + 1, o + j < Len(all), RowEnd(l) = o + j,
         all[o + j] = Group(st.rows[l]), RowsBy(st, l, o + j)
  PROVE  ScanInv(a, st, f, r, all, o, buffer, j, ScanToken(s, j))
<1>1. IsBuffer(all, o, K, buffer)
  BY BufferIs
<1>2. /\ o \in Nat /\ K \in Nat /\ o <= K /\ K <= Len(all) /\ Len(all) \in Nat
      /\ j \in 1 .. K - o /\ buffer[j] = Group(st.rows[l])
  <2>1. j \in 1 .. K - o
    BY <1>1 DEF IsBuffer
  <2>2. buffer[j] = all[o + j]
    BY <1>1, <2>1 DEF IsBuffer
  <2>. QED
    BY <1>1, <2>1, <2>2 DEF IsBuffer
<1>3. /\ ~s.done /\ ~s.engine.failed /\ o <= RowEnd(n) /\ s.at = RowEnd(n) - o
      /\ ~s.trailing
      /\ s.out = OutAfter(a, st, f, n) /\ s.engine = EngineAfter(a, st, f, n)
  BY DEF Reading
<1>4. PICK text, tail, m, t, u :
        /\ text = SubSeq(buffer, s.at + 1, j - 1) /\ tail = BeginsClause(buffer, j)
        /\ m = MaskRow(s.engine, st.table, "insert", buffer[j][2])
        /\ t = ScanToken(s, j) /\ u = s.out \o text
  OBVIOUS
<1>5. IF st.table \in Truncated THEN IsScanner(t, st, buffer, j, tail, s.done, s.out, s.engine)
      ELSE IF m.engine.failed
        THEN IsScanner(t, st, buffer, s.at, s.trailing, s.done, u, m.engine)
      ELSE IsScanner(t, st, buffer, j, tail, s.done, u \o <<m.item>>, m.engine)
  <2>1. buffer[j] # Semi /\ IsGroup(buffer[j])
    BY <1>2, TokenKinds
  <2>. QED
    BY <1>3, <1>4, <2>1, TokenScanned DEF TokenMade
<1>6. tail <=> st.clause /\ l = N
  <2>1. ClauseSeen(st, buffer, l, j)
    BY <1>2, ClauseIsSeen
  <2>. QED
    BY <1>4, <2>1 DEF ClauseSeen
<1>7. o + j < Len(all) /\ o <= RowEnd(l) /\ j = RowEnd(l) - o
  BY <1>2
<1>8. CASE st.table \in Truncated
  <2>1. /\ Scanner(st, buffer, t) /\ t.at = j /\ t.trailing = tail /\ t.done = s.done
        /\ t.out = s.out /\ t.engine = s.engine
    BY <1>5, <1>8, ScannerFields
  <2>2. t.out = OutAfter(a, st, f, l) /\ t.engine = EngineAfter(a, st, f, l)
    BY <1>3, <1>8, <2>1 DEF OutAfter, EngineAfter
  <2>3. Reading(a, st, f, all, o, j, l, t)
    BY <1>3, <1>6, <1>7, <2>1, <2>2 DEF Reading
  <2>. QED
    BY <1>4, <2>1, <2>3 DEF ScanInv
<1>9. CASE st.table \notin Truncated
  <2>1. m = MaskedRow(st, f, l)
    <3>1. s.engine = f[l - 1].engine /\ st.form = "insert"
      BY <1>3, <1>9 DEF EngineAfter, Inserted
    <3>2. buffer[j][2] = st.rows[l]
      BY <1>2, TokenKinds
    <3>. QED
      BY <1>4, <3>1, <3>2 DEF MaskedRow
  <2>2. u = f[n].out
    <3>1. s.out = Written(st, f, n)
      BY <1>3, <1>9 DEF OutAfter
    <3>2. text = SubSeq(all, RowEnd(n) + 1, 2 * n)
      <4>1. PICK b, d \in Nat : b = s.at /\ d = j - 1 /\ b <= d /\ d <= K - o
                              /\ o + b = RowEnd(n) /\ o + d = 2 * n
        <5>1. s.at \in Nat /\ j - 1 \in Nat /\ s.at <= j - 1 /\ j - 1 <= K - o
              /\ o + s.at = RowEnd(n) /\ o + (j - 1) = 2 * n
          BY <1>2, <1>3 DEF RowEnd
        <5>. QED
          BY <5>1
      <4>2. SubSeq(buffer, b + 1, d) = SubSeq(all, (o + b) + 1, o + d)
        BY <1>1, <4>1 DEF IsBuffer
      <4>. QED
        BY <1>4, <4>1, <4>2
    <3>3. Between(st, f, all, n)
      <4>1. all = InsertTokens(st) /\ n < N
        BY DEF Buffered
      <4>. QED
        BY <4>1, TextBetween
    <3>. QED
      BY <1>4, <3>1, <3>2, <3>3 DEF Between
  <2>3. IsRow(st, f, l)
    BY ToldRows
  <2>4. CASE m.engine.failed
    <3>1. Scanner(st, buffer, t) /\ t.done = s.done /\ t.out = u /\ t.engine = m.engine
      BY <1>5, <1>9, <2>4, ScannerFields
    <3>2. Stopped(st, f, t)
      BY <1>3, <1>9, <2>2, <2>4, <3>1 DEF Stopped
    <3>. QED
      BY <1>4, <3>1, <3>2 DEF ScanInv
  <2>5. CASE ~m.engine.failed
    <3>1. PICK w : w = u \o <<m.item>>
      OBVIOUS
    <3>2. /\ Scanner(st, buffer, t) /\ t.at = j /\ t.trailing = tail /\ t.done = s.done
          /\ t.out = w /\ t.engine = m.engine
      <4>1. PICK d, e : d = s.done /\ e = m.engine
        OBVIOUS
      <4>2. IsScanner(t, st, buffer, j, tail, d, w, e)
        BY <1>5, <1>9, <2>5, <3>1, <4>1
      <4>. QED
        BY <4>1, <4>2, ScannerFields
    <3>3. t.out = OutAfter(a, st, f, l) /\ t.engine = EngineAfter(a, st, f, l)
      BY <1>9, <2>1, <2>2, <2>3, <3>1, <3>2 DEF IsRow, OutAfter, EngineAfter
    <3>4. Reading(a, st, f, all, o, j, l, t)
      BY <1>3, <1>6, <1>7, <2>5, <3>2, <3>3 DEF Reading
    <3>. QED
      BY <1>4, <3>2, <3>4 DEF ScanInv
  <2>. QED
    BY <2>4, <2>5
<1>. QED
  BY <1>8, <1>9

(* The next token is one between rows, or in the trailing clause. *)
LEMMA ScanOfText ==
  ASSUME NEW a, NEW st, NEW f, NEW r, NEW N \in Nat, N = Len(st.rows),
         NEW all, NEW o \in Nat, NEW buffer,
         NEW i \in Nat, NEW j \in Nat, j = i + 1, NEW s, Scanner(st, buffer, s),
         NEW n \in 0 .. N, Reading(a, st, f, all, o, i, n, s),
         o + j < Len(all), RowsBy(st, n, o + j), buffer[j] # Semi,
         ~IsGroup(buffer[j]) \/ (st.clause /\ n = N)
  PROVE  ScanInv(a, st, f, r, all, o, buffer, j, ScanToken(s, j))
<1>1. ~s.done /\ ~s.engine.failed /\ (s.trailing <=> st.clause /\ n = N)
  BY DEF Reading
<1>2. PICK t : t = ScanToken(s, j)
  OBVIOUS
<1>3. t = s
  <2>1. s.buffer = buffer
    BY DEF Scanner
  <2>. QED
    BY <1>1, <1>2, <2>1 DEF ScanToken
<1>4. Reading(a, st, f, all, o, j, n, t)
  BY <1>3 DEF Reading
<1>. QED
  BY <1>2, <1>3, <1>4 DEF ScanInv

(* The next token is the terminator. *)
LEMMA ScanOfEnd ==
  ASSUME NEW a, NEW st, NEW f, NEW r, Told(a, st, f, r), Inserted(st), NEW N \in Nat, N = Len(st.rows),
         NEW all, NEW o, NEW K, NEW buffer, Buffered(st, all, o, K, buffer),
         NEW i \in Nat, NEW j \in Nat, j = i + 1, i < K - o, NEW s, Scanner(st, buffer, s),
         Reading(a, st, f, all, o, i, N, s), o + j = Len(all), all[o + j] = Semi
  PROVE  ScanInv(a, st, f, r, all, o, buffer, j, ScanToken(s, j))
<1>1. IsBuffer(all, o, K, buffer)
  BY BufferIs
<1>2. /\ o \in Nat /\ K \in Nat /\ o <= K /\ K <= Len(all) /\ Len(all) \in Nat
      /\ j \in 1 .. K - o /\ buffer[j] = Semi
  <2>1. j \in 1 .. K - o
    BY <1>1 DEF IsBuffer
  <2>2. buffer[j] = all[o + j]
    BY <1>1, <2>1 DEF IsBuffer
  <2>. QED
    BY <1>1, <2>1, <2>2 DEF IsBuffer
<1>3. /\ ~s.done /\ ~s.engine.failed /\ o <= RowEnd(N) /\ s.at = RowEnd(N) - o
      /\ RowEnd(N) <= o + i
      /\ s.out = OutAfter(a, st, f, N) /\ s.engine = EngineAfter(a, st, f, N)
  BY DEF Reading, RowsBy
<1>4. PICK text, tail, m, t, yes :
        /\ text = SubSeq(buffer, s.at + 1, j - 1) /\ tail = BeginsClause(buffer, j)
        /\ m = MaskRow(s.engine, st.table, "insert", buffer[j][2])
        /\ t = ScanToken(s, j) /\ yes = TRUE
  OBVIOUS
<1>5. PICK u, v, d : /\ u = IF st.table \in Truncated THEN s.out ELSE (s.out \o text) \o <<Semi>>
                     /\ v = s.trailing /\ d = s.engine
  OBVIOUS
<1>6. IsScanner(t, st, buffer, j, v, yes, u, d)
  BY <1>2, <1>3, <1>4, <1>5, TokenScanned DEF TokenMade
<1>7. /\ Scanner(st, buffer, t) /\ t.at = j /\ t.done = yes
      /\ t.out = u /\ t.engine = d
  BY <1>6, ScannerFields
<1>8. u = r.out /\ d = r.engine
  <2>1. /\ st.table \in Truncated => r = a
        /\ st.table \notin Truncated => r.engine = f[N].engine /\ r.out = f[N].out \o Ending(st)
    <3>1. IsTold(a, st, f, r)
      BY InsertIs
    <3>. QED
      BY <3>1 DEF IsTold
  <2>2. CASE st.table \in Truncated
    BY <1>3, <1>5, <2>1, <2>2 DEF OutAfter, EngineAfter
  <2>3. CASE st.table \notin Truncated
    <3>1. text = SubSeq(all, RowEnd(N) + 1, Len(all) - 1)
      <4>1. PICK b, e \in Nat : b = s.at /\ e = j - 1 /\ b <= e /\ e <= K - o
                              /\ o + b = RowEnd(N) /\ o + e = Len(all) - 1
        <5>1. s.at \in Nat /\ j - 1 \in Nat /\ s.at <= j - 1 /\ j - 1 <= K - o
              /\ o + s.at = RowEnd(N) /\ o + (j - 1) = Len(all) - 1
          BY <1>2, <1>3 DEF RowEnd
        <5>. QED
          BY <5>1
      <4>2. SubSeq(buffer, b + 1, e) = SubSeq(all, (o + b) + 1, o + e)
        BY <1>1, <4>1 DEF IsBuffer
      <4>. QED
        BY <1>4, <4>1, <4>2
    <3>2. After(st, f, all, N)
      <4>1. PICK l \in Nat : Len(all) = l + 1
        <5>1. Len(all) - 1 \in Nat /\ Len(all) = (Len(all) - 1) + 1
          BY <1>2
        <5>. QED
          BY <5>1
      <4>2. all = InsertTokens(st)
        BY DEF Buffered
      <4>. QED
        BY <4>1, <4>2, TextAfter
    <3>3. s.out = Written(st, f, N) /\ s.engine = f[N].engine
      BY <1>3, <2>3 DEF OutAfter, EngineAfter
    <3>. QED
      BY <1>5, <2>1, <2>3, <3>1, <3>2, <3>3 DEF After
  <2>. QED
    BY <2>2, <2>3
<1>9. Terminated(r, all, o, j, t)
  BY <1>3, <1>4, <1>5, <1>7, <1>8 DEF Terminated
<1>. QED
  BY <1>4, <1>7, <1>9 DEF ScanInv

(* Any token. *)
LEMMA TokenStep ==
  ASSUME NEW a, NEW st, NEW f, NEW r, Told(a, st, f, r), Inserted(st), NEW N \in Nat, N = Len(st.rows),
         NEW all, NEW o, NEW K, NEW buffer, Buffered(st, all, o, K, buffer),
         NEW i \in Nat, NEW j \in Nat, j = i + 1, i < K - o, NEW s,
         ScanInv(a, st, f, r, all, o, buffer, i, s)
  PROVE  ScanInv(a, st, f, r, all, o, buffer, j, ScanToken(s, j))
<1>1. IsBuffer(all, o, K, buffer)
  BY BufferIs
<1>2. /\ o \in Nat /\ K \in Nat /\ o <= K /\ K <= Len(all) /\ Len(all) \in Nat
      /\ j \in 1 .. K - o /\ buffer[j] = all[o + j] /\ all = InsertTokens(st)
  <2>1. j \in 1 .. K - o
    BY <1>1 DEF IsBuffer
  <2>2. buffer[j] = all[o + j]
    BY <1>1, <2>1 DEF IsBuffer
  <2>. QED
    BY <1>1, <2>1, <2>2 DEF IsBuffer, Buffered
<1>3. Scanner(st, buffer, s)
  BY DEF ScanInv
<1>4. CASE Stopped(st, f, s)
  <2>1. ScanToken(s, j) = s
    BY <1>4 DEF ScanToken, Stopped
  <2>. QED
    BY <1>3, <1>4, <2>1 DEF ScanInv
<1>5. CASE Terminated(r, all, o, i, s)
  BY <1>2, <1>5 DEF Terminated
<1>6. ASSUME NEW n \in 0 .. N, Reading(a, st, f, all, o, i, n, s)
      PROVE  ScanInv(a, st, f, r, all, o, buffer, j, ScanToken(s, j))
  <2>1. PICK k \in Nat : k = o + i /\ k + 1 = o + j /\ RowsBy(st, n, k) /\ k < Len(all) /\ n \in Nat
    <3>1. o + i \in Nat /\ (o + i) + 1 = o + j
      BY <1>2
    <3>. QED
      BY <1>6, <3>1 DEF Reading
  <2>2. \/ /\ n < N /\ k + 1 = 2 * n + 1 /\ k + 1 < Len(all) /\ RowEnd(n + 1) = k + 1
           /\ all[k + 1] = Group(st.rows[n + 1]) /\ RowsBy(st, n + 1, k + 1)
        \/ /\ n < N /\ n > 0 /\ k + 1 = 2 * n /\ k + 1 < Len(all)
           /\ all[k + 1] = Comma /\ RowsBy(st, n, k + 1)
        \/ /\ n = N /\ st.clause /\ k + 1 < Len(all)
           /\ all[k + 1] # Semi /\ RowsBy(st, n, k + 1)
        \/ n = N /\ k + 1 = Len(all) /\ all[k + 1] = Semi
    <3>1. NextIs(st, N, all, n, k)
      BY <1>2, <2>1, NextToken
    <3>. QED
      BY <3>1 DEF NextIs
  <2>3. CASE /\ n < N /\ k + 1 = 2 * n + 1 /\ k + 1 < Len(all) /\ RowEnd(n + 1) = k + 1
             /\ all[k + 1] = Group(st.rows[n + 1]) /\ RowsBy(st, n + 1, k + 1)
    <3>1. PICK l \in 1 .. N : l = n + 1 /\ n = l - 1
      <4>1. n + 1 \in 1 .. N /\ n = (n + 1) - 1
        BY <2>1, <2>3
      <4>. QED
        BY <4>1
    <3>2. /\ o + j = 2 * n + 1 /\ o + j < Len(all) /\ RowEnd(l) = o + j
          /\ all[o + j] = Group(st.rows[l]) /\ RowsBy(st, l, o + j)
      BY <2>1, <2>3, <3>1
    <3>. QED
      BY <1>3, <1>6, <3>1, <3>2, ScanOfRow
  <2>4. CASE /\ n < N /\ n > 0 /\ k + 1 = 2 * n /\ k + 1 < Len(all)
             /\ all[k + 1] = Comma /\ RowsBy(st, n, k + 1)
    <3>1. buffer[j] # Semi /\ ~IsGroup(buffer[j]) /\ o + j < Len(all) /\ RowsBy(st, n, o + j)
      BY <1>2, <2>1, <2>4, TokenKinds
    <3>. QED
      BY <1>2, <1>3, <1>6, <3>1, ScanOfText
  <2>5. CASE /\ n = N /\ st.clause /\ k + 1 < Len(all)
             /\ all[k + 1] # Semi /\ RowsBy(st, n, k + 1)
    <3>1. buffer[j] # Semi /\ st.clause /\ n = N /\ o + j < Len(all) /\ RowsBy(st, n, o + j)
      BY <1>2, <2>1, <2>5
    <3>. QED
      BY <1>2, <1>3, <1>6, <3>1, ScanOfText
  <2>6. CASE n = N /\ k + 1 = Len(all) /\ all[k + 1] = Semi
    <3>1. o + j = Len(all) /\ all[o + j] = Semi /\ Reading(a, st, f, all, o, i, N, s)
      BY <1>6, <2>1, <2>6
    <3>. QED
      BY <1>3, <3>1, ScanOfEnd
  <2>. QED
    BY <2>2, <2>3, <2>4, <2>5, <2>6
<1>. QED
  BY <1>4, <1>5, <1>6 DEF ScanInv

(* The whole buffer. *)
LEMMA ScanWhole ==
  ASSUME NEW a, NEW st, NEW f, NEW r, Told(a, st, f, r), Inserted(st),
         NEW all, NEW o, NEW K, NEW buffer, Buffered(st, all, o, K, buffer),
         NEW s, ScanInv(a, st, f, r, all, o, buffer, 0, s)
  PROVE  ScanInv(a, st, f, r, all, o, buffer, K - o, FoldLeftDomain(ScanToken, s, buffer))
<1>1. PICK N \in Nat : N = Len(st.rows)
  BY DEF Inserted
<1>2. /\ IsList(buffer) /\ Len(buffer) = K - o /\ K - o \in Nat
  <2>1. IsBuffer(all, o, K, buffer)
    BY BufferIs
  <2>. QED
    BY <2>1 DEF IsBuffer
<1>3. PICK g : /\ g[0] = s
               /\ \A n \in Nat : n < Len(buffer) => g[n + 1] = ScanToken(g[n], n + 1)
               /\ FoldLeftDomain(ScanToken, s, buffer) = g[Len(buffer)]
  BY <1>2, ScanSteps DEF IsList
<1>. DEFINE Good(i) == ScanInv(a, st, f, r, all, o, buffer, i, g[i])
            Bad == {i \in Nat : i <= K - o /\ ~Good(i)}
<1>4. Bad = {}
  <2>. SUFFICES ASSUME Bad # {}
                PROVE  FALSE
    OBVIOUS
  <2>1. PICK i \in Bad : \A l \in Bad : i <= l
    BY RowFold!LeastOfSet
  <2>2. i # 0
    BY <1>3, <2>1
  <2>. HIDE DEF Good
  <2>3. PICK l \in Nat : i = l + 1 /\ l < K - o /\ l <= K - o /\ ~(i <= l) /\ i \in Nat
    <3>1. i - 1 \in Nat /\ i = (i - 1) + 1
      BY <2>1, <2>2
    <3>. QED
      BY <1>2, <2>1, <3>1
  <2>4. Good(l)
    BY <2>1, <2>3
  <2>5. PICK t : t = g[l] /\ g[i] = ScanToken(t, i)
    BY <1>2, <1>3, <2>3
  <2>6. ScanInv(a, st, f, r, all, o, buffer, l, t)
    BY <2>4, <2>5 DEF Good
  <2>7. ScanInv(a, st, f, r, all, o, buffer, i, ScanToken(t, i))
    BY <1>1, <2>3, <2>6, TokenStep
  <2>. QED
    BY <2>1, <2>5, <2>7 DEF Good
<1>5. Good(K - o)
  <2>. HIDE DEF Good
  <2>. QED
    BY <1>2, <1>4
<1>. QED
  BY <1>2, <1>3, <1>5

(* The parser, as a record; and what it is when it has written r, when an error has ended it
   on the way to r, and after k tokens of an INSERT. *)
ParserIs(p, copy, insert, buffer, trailing, wrote, engine) ==
  p = [copy |-> copy, insert |-> insert, buffer |-> buffer, trailing |-> trailing,
       out |-> wrote, engine |-> engine]

Idle(p, r) ==
  IsParser(p) /\ p.copy = NoTable /\ p.insert = NoTable /\ ~p.engine.failed
  /\ p.out = r.out /\ p.engine = r.engine

Gone(p, r) == p.engine.failed /\ IsList(p.out) /\ Begins(p.out, r.out)

InInsert(p, a, st, f, all, n, k) ==
  /\ IsParser(p) /\ p.copy = NoTable /\ p.insert = st.table /\ ~p.engine.failed
  /\ RowsBy(st, n, k) /\ k \in Nat /\ k < Len(all) /\ (st.clause => k # RowEnd(Len(st.rows)))
  /\ p.buffer = SubSeq(all, RowEnd(n) + 1, k)
  /\ p.trailing <=> st.clause /\ n = Len(st.rows)
  /\ p.out = OutAfter(a, st, f, n) /\ p.engine = EngineAfter(a, st, f, n)

ParserSays(p, a, st, f, r, all, k) ==
  \/ Gone(p, r)
  \/ k = Len(all) /\ Idle(p, r)
  \/ \E n \in 0 .. Len(st.rows) : InInsert(p, a, st, f, all, n, k)

(* One field at a time. *)
LEMMA ParserSet ==
  ASSUME NEW p, NEW t, NEW copy, NEW insert, NEW buffer, NEW trailing, NEW wrote, NEW engine, NEW x,
         ParserIs(p, copy, insert, buffer, trailing, wrote, engine)
  PROVE  /\ t = [p EXCEPT !.copy = x] => ParserIs(t, x, insert, buffer, trailing, wrote, engine)
         /\ t = [p EXCEPT !.insert = x] => ParserIs(t, copy, x, buffer, trailing, wrote, engine)
         /\ t = [p EXCEPT !.buffer = x] => ParserIs(t, copy, insert, x, trailing, wrote, engine)
         /\ t = [p EXCEPT !.trailing = x] => ParserIs(t, copy, insert, buffer, x, wrote, engine)
         /\ t = [p EXCEPT !.out = x] => ParserIs(t, copy, insert, buffer, trailing, x, engine)
         /\ t = [p EXCEPT !.engine = x] => ParserIs(t, copy, insert, buffer, trailing, wrote, x)
BY DEF ParserIs

(* The fields of a parser. *)
LEMMA ParserFields ==
  ASSUME NEW p, NEW copy, NEW insert, NEW buffer, NEW trailing, NEW wrote, NEW engine,
         ParserIs(p, copy, insert, buffer, trailing, wrote, engine)
  PROVE  /\ IsParser(p) /\ p.copy = copy /\ p.insert = insert /\ p.buffer = buffer
         /\ p.trailing = trailing /\ p.out = wrote /\ p.engine = engine
BY DEF ParserIs, IsParser

(* Its fields make up a parser. *)
LEMMA FieldsOfParser ==
  ASSUME NEW p, IsParser(p)
  PROVE  ParserIs(p, p.copy, p.insert, p.buffer, p.trailing, p.out, p.engine)
BY DEF ParserIs, IsParser

(* What the parser keeps of a scan. *)
IsKept(t, p, s) ==
  /\ IsParser(t) /\ t.copy = p.copy /\ t.engine = s.engine
  /\ s.done => /\ t.insert = NoTable /\ t.buffer = <<>>
               /\ t.out = IF p.insert \in Truncated THEN s.out
                          ELSE s.out \o Unread(p.buffer, s.at)
  /\ ~s.done => /\ t.insert = p.insert /\ t.buffer = Unread(p.buffer, s.at)
                /\ t.trailing = s.trailing /\ t.out = s.out

(* That is what AfterScan does. *)
LEMMA ScanKept ==
  ASSUME NEW p, IsParser(p), NEW s, NEW t, t = AfterScan(p, s)
  PROVE  IsKept(t, p, s)
<1>1. PICK copy, insert, buffer, trailing, wrote, engine :
        /\ copy = p.copy /\ insert = p.insert /\ buffer = p.buffer
        /\ ParserIs(p, copy, insert, buffer, trailing, wrote, engine)
  BY FieldsOfParser
<1>2. PICK rest : rest = Unread(p.buffer, s.at)
  OBVIOUS
<1>3. CASE s.done
  <2>1. PICK u, none, no, nothing : /\ u = IF p.insert \in Truncated THEN s.out ELSE s.out \o rest
                                    /\ none = NoTable /\ no = FALSE /\ nothing = <<>>
    OBVIOUS
  <2>2. PICK x, y, z, w : /\ x = [p EXCEPT !.insert = none] /\ y = [x EXCEPT !.buffer = nothing]
                          /\ z = [y EXCEPT !.trailing = no] /\ w = [z EXCEPT !.engine = s.engine]
    OBVIOUS
  <2>3. t = [w EXCEPT !.out = u]
    <3>1. t = [p EXCEPT !.insert = NoTable, !.buffer = <<>>, !.trailing = FALSE,
                        !.engine = s.engine, !.out = u]
      BY <1>2, <1>3, <2>1 DEF AfterScan
    <3>. QED
      BY <2>1, <2>2, <3>1
  <2>4. ParserIs(x, copy, none, buffer, trailing, wrote, engine)
    BY <1>1, <2>2, ParserSet
  <2>5. ParserIs(y, copy, none, nothing, trailing, wrote, engine)
    BY <2>2, <2>4, ParserSet
  <2>6. ParserIs(z, copy, none, nothing, no, wrote, engine)
    BY <2>2, <2>5, ParserSet
  <2>7. ParserIs(w, copy, none, nothing, no, wrote, s.engine)
    BY <2>2, <2>6, ParserSet
  <2>8. ParserIs(t, copy, none, nothing, no, u, s.engine)
    BY <2>3, <2>7, ParserSet
  <2>9. /\ IsParser(t) /\ t.copy = copy /\ t.insert = none /\ t.out = u /\ t.engine = s.engine
        /\ t.buffer = nothing
    BY <2>8, ParserFields
  <2>. QED
    BY <1>1, <1>2, <1>3, <2>1, <2>9 DEF IsKept
<1>4. CASE ~s.done
  <2>1. PICK x, y, z : /\ x = [p EXCEPT !.buffer = rest] /\ y = [x EXCEPT !.trailing = s.trailing]
                       /\ z = [y EXCEPT !.engine = s.engine]
    OBVIOUS
  <2>2. t = [z EXCEPT !.out = s.out]
    <3>1. t = [p EXCEPT !.buffer = rest, !.trailing = s.trailing, !.engine = s.engine, !.out = s.out]
      BY <1>2, <1>4 DEF AfterScan
    <3>. QED
      BY <2>1, <3>1
  <2>3. ParserIs(x, copy, insert, rest, trailing, wrote, engine)
    BY <1>1, <2>1, ParserSet
  <2>4. ParserIs(y, copy, insert, rest, s.trailing, wrote, engine)
    BY <2>1, <2>3, ParserSet
  <2>5. ParserIs(z, copy, insert, rest, s.trailing, wrote, s.engine)
    BY <2>1, <2>4, ParserSet
  <2>6. ParserIs(t, copy, insert, rest, s.trailing, s.out, s.engine)
    BY <2>2, <2>5, ParserSet
  <2>7. /\ IsParser(t) /\ t.copy = copy /\ t.insert = insert /\ t.out = s.out /\ t.engine = s.engine
        /\ t.buffer = rest /\ t.trailing = s.trailing
    BY <2>6, ParserFields
  <2>. QED
    BY <1>1, <1>2, <1>4, <2>7 DEF IsKept
<1>. QED
  BY <1>3, <1>4

(* What a statement becomes, begun by what it is so far. *)
LEMMA OutGrows ==
  ASSUME NEW a, NEW st, NEW f, NEW r, Told(a, st, f, r), Inserted(st), NEW n \in 0 .. Len(st.rows)
  PROVE  /\ IsList(OutAfter(a, st, f, n)) /\ Begins(OutAfter(a, st, f, n), r.out)
         /\ st.table \notin Truncated => IsList(f[n].out) /\ Begins(f[n].out, r.out)
         /\ IsList(r.out) /\ Begins(a.out, r.out)
<1>1. PICK N \in Nat : N = Len(st.rows)
  BY DEF Inserted
<1>2. IsTold(a, st, f, r)
  BY <1>1, InsertIs
<1>3. IsReference(a) /\ IsReference(r) /\ IsList(a.out) /\ IsList(r.out) /\ RowsFrom(a, st, f)
  BY <1>2 DEF Told, IsTold, IsReference
<1>4. CASE st.table \in Truncated
  <2>1. r = a
    BY <1>2, <1>4 DEF IsTold
  <2>2. Begins(a.out, a.out)
    BY <1>3, BeginsFacts
  <2>. QED
    BY <1>3, <1>4, <2>1, <2>2 DEF OutAfter
<1>5. CASE st.table \notin Truncated
  <2>1. /\ \A k \in 0 .. N : IsList(f[k].out) /\ Begins(f[k].out, f[N].out)
        /\ \A k \in 1 .. N : IsRow(st, f, k)
    BY <1>1, ToldRows
  <2>2. PICK u, e : u = f[N].out /\ e = Ending(st) /\ r.out = u \o e /\ IsList(u) /\ IsList(e)
    <3>1. N \in 0 .. N
      BY <1>1
    <3>. QED
      BY <1>1, <1>2, <1>5, <2>1, <3>1, EndingIs DEF IsTold
  <2>3. Begins(u, r.out)
    BY <2>2, Joins
  <2>4. \A k \in 0 .. N : IsList(f[k].out) /\ Begins(f[k].out, r.out)
    BY <1>3, <2>1, <2>2, <2>3, BeginsFacts
  <2>5. Begins(a.out, f[0].out)
    <3>1. \A k \in 0 .. N :
            /\ f[k] = [statement |-> st, engine |-> f[k].engine, out |-> f[k].out]
            /\ IsList(f[k].out) /\ Begins(a.out, f[k].out)
      BY <1>1, <1>3, RowStep
    <3>2. 0 \in 0 .. N
      BY <1>1
    <3>. QED
      BY <3>1, <3>2
  <2>6. Begins(a.out, r.out)
    <3>1. IsList(f[0].out) /\ Begins(f[0].out, r.out)
      BY <1>1, <2>4
    <3>. QED
      BY <1>3, <2>5, <3>1, BeginsFacts
  <2>7. IsList(Written(st, f, n)) /\ Begins(Written(st, f, n), r.out)
    <3>1. CASE n = 0
      BY <1>1, <2>4, <3>1 DEF Written
    <3>2. CASE n # 0
      <4>1. n \in 1 .. N /\ n \in 0 .. N
        BY <1>1, <3>2
      <4>2. IsRow(st, f, n)
        BY <2>1, <4>1
      <4>3. IsList(Written(st, f, n)) /\ Begins(Written(st, f, n), f[n].out)
        BY <4>2 DEF IsRow
      <4>4. IsList(f[n].out) /\ Begins(f[n].out, r.out)
        BY <2>4, <4>1
      <4>. QED
        BY <1>3, <4>3, <4>4, BeginsFacts
    <3>. QED
      BY <3>1, <3>2
  <2>. QED
    BY <1>1, <1>3, <1>5, <2>4, <2>6, <2>7 DEF OutAfter
<1>. QED
  BY <1>4, <1>5

(* The parser scans a buffer that begins after row n. *)
LEMMA ScanSays ==
  ASSUME NEW a, NEW st, NEW f, NEW r, Told(a, st, f, r), Inserted(st),
         NEW all, NEW o, NEW K, NEW n \in 0 .. Len(st.rows), o = RowEnd(n), o < Len(all),
         NEW p, IsParser(p), Buffered(st, all, o, K, p.buffer),
         p.copy = NoTable, p.insert = st.table, ~p.engine.failed,
         p.trailing <=> st.clause /\ n = Len(st.rows),
         p.out = OutAfter(a, st, f, n), p.engine = EngineAfter(a, st, f, n)
  PROVE  ParserSays(ScanInsert(p), a, st, f, r, all, K)
<1>1. PICK buffer : buffer = p.buffer /\ Buffered(st, all, o, K, buffer) /\ IsBuffer(all, o, K, buffer)
  BY BufferIs
<1>2. /\ o \in Nat /\ K \in Nat /\ o <= K /\ K <= Len(all) /\ Len(all) \in Nat /\ Len(buffer) = K - o
      /\ (st.clause => K # RowEnd(Len(st.rows)))
  BY <1>1 DEF IsBuffer, Buffered
<1>3. PICK s0 : s0 = [table |-> p.insert, buffer |-> p.buffer, out |-> p.out, engine |-> p.engine,
                      trailing |-> p.trailing, at |-> 0, done |-> FALSE]
  OBVIOUS
<1>4. PICK s, t : s = FoldLeftDomain(ScanToken, s0, buffer) /\ t = ScanInsert(p) /\ t = AfterScan(p, s)
  BY <1>1, <1>3 DEF ScanInsert
<1>5. ScanInv(a, st, f, r, all, o, buffer, K - o, s)
  <2>1. Scanner(st, buffer, s0)
    BY <1>1, <1>3 DEF Scanner
  <2>2. Reading(a, st, f, all, o, 0, n, s0)
    <3>1. /\ s0.out = p.out /\ s0.engine = p.engine /\ s0.trailing = p.trailing /\ s0.at = 0
          /\ s0.done = FALSE
      BY <1>3
    <3>2. PICK k : k = o + 0 /\ k = o
      BY <1>2
    <3>3. n \in Nat /\ RowsBy(st, n, k) /\ k < Len(all) /\ 0 = RowEnd(n) - o /\ o <= RowEnd(n)
      <4>1. Len(st.rows) \in Nat
        BY DEF Inserted
      <4>. QED
        BY <1>2, <3>2, <4>1 DEF RowsBy, RowEnd
    <3>. QED
      BY <3>1, <3>2, <3>3 DEF Reading
  <2>3. ScanInv(a, st, f, r, all, o, buffer, 0, s0)
    BY <2>1, <2>2 DEF ScanInv
  <2>. QED
    BY <1>1, <1>4, <2>3, ScanWhole
<1>6. /\ IsParser(t) /\ t.copy = NoTable /\ t.engine = s.engine
      /\ s.done => /\ t.insert = NoTable
                   /\ t.out = IF st.table \in Truncated THEN s.out
                              ELSE s.out \o Unread(buffer, s.at)
      /\ ~s.done => /\ t.insert = st.table /\ t.buffer = Unread(buffer, s.at)
                    /\ t.trailing = s.trailing /\ t.out = s.out
  <2>1. IsKept(t, p, s)
    BY <1>4, ScanKept
  <2>. QED
    BY <1>1, <2>1 DEF IsKept
<1>7. CASE Stopped(st, f, s)
  <2>1. PICK k \in 0 .. Len(st.rows) : s.out = f[k].out /\ s.engine.failed /\ ~s.done /\ st.table \notin Truncated
    BY <1>7 DEF Stopped
  <2>2. IsList(f[k].out) /\ Begins(f[k].out, r.out)
    BY <2>1, OutGrows
  <2>. QED
    BY <1>4, <1>6, <1>7, <2>1, <2>2 DEF ParserSays, Gone
<1>8. CASE Terminated(r, all, o, K - o, s)
  <2>1. s.done /\ ~s.engine.failed /\ K = Len(all) /\ s.at = Len(buffer) /\ s.out = r.out /\ s.engine = r.engine
    BY <1>2, <1>8 DEF Terminated
  <2>2. Unread(buffer, s.at) = <<>>
    <3>1. IsList(buffer)
      BY <1>1 DEF IsBuffer
    <3>2. PICK k \in Nat : k = Len(buffer) /\ k <= k /\ k - k = 0 /\ k = s.at
      BY <2>1, <3>1, ListFacts
    <3>3. PICK x : x = SubSeq(buffer, k + 1, k)
      OBVIOUS
    <3>4. IsList(x) /\ Len(x) = 0
      <4>1. IsPart(x, buffer, k, k)
        BY <3>1, <3>2, <3>3, PartIs
      <4>. QED
        BY <3>1, <4>1 DEF IsPart
    <3>5. x = <<>>
      BY <3>4, ShortLists, ListsEqual
    <3>. QED
      BY <3>2, <3>3, <3>5 DEF Unread
  <2>3. IsList(r.out)
    BY OutGrows
  <2>4. t.out = r.out
    BY <1>6, <2>1, <2>2, <2>3, ShortLists
  <2>5. Idle(t, r)
    BY <1>6, <2>1, <2>4 DEF Idle
  <2>. QED
    BY <1>4, <2>1, <2>5 DEF ParserSays
<1>9. ASSUME NEW m \in 0 .. Len(st.rows), Reading(a, st, f, all, o, K - o, m, s)
      PROVE  ParserSays(ScanInsert(p), a, st, f, r, all, K)
  <2>1. PICK k : k = o + (K - o) /\ k = K
    BY <1>2
  <2>2. /\ ~s.done /\ ~s.engine.failed /\ K < Len(all)
        /\ RowsBy(st, m, K) /\ o <= RowEnd(m) /\ s.at = RowEnd(m) - o
        /\ s.trailing <=> st.clause /\ m = Len(st.rows)
        /\ s.out = OutAfter(a, st, f, m) /\ s.engine = EngineAfter(a, st, f, m)
    BY <1>9, <2>1 DEF Reading
  <2>3. Unread(buffer, s.at) = SubSeq(all, RowEnd(m) + 1, K)
    <3>1. PICK b, e \in Nat : b = s.at /\ e = Len(buffer) /\ b <= e /\ e <= K - o
                              /\ o + b = RowEnd(m) /\ o + e = K
      <4>1. RowEnd(m) <= K /\ RowEnd(m) \in Nat
        <5>1. m \in Nat
          BY DEF Inserted
        <5>. QED
          BY <2>2, <5>1 DEF RowsBy, RowEnd
      <4>2. s.at \in Nat /\ Len(buffer) \in Nat /\ s.at <= Len(buffer) /\ o + s.at = RowEnd(m)
            /\ o + Len(buffer) = K /\ Len(buffer) <= K - o
        BY <1>2, <2>2, <4>1
      <4>. QED
        BY <4>2
    <3>2. SubSeq(buffer, b + 1, e) = SubSeq(all, (o + b) + 1, o + e)
      BY <1>1, <3>1 DEF IsBuffer
    <3>. QED
      BY <3>1, <3>2 DEF Unread
  <2>4. InInsert(t, a, st, f, all, m, K)
    BY <1>2, <1>6, <2>2, <2>3 DEF InInsert
  <2>. QED
    BY <1>4, <2>4 DEF ParserSays
<1>. QED
  BY <1>5, <1>7, <1>8, <1>9 DEF ScanInv

(* The lines of an INSERT.  The first one. *)
LEMMA InsertBegins ==
  ASSUME NEW a, NEW st, NEW f, NEW r, Told(a, st, f, r), Inserted(st),
         NEW all, all = InsertTokens(st), NEW p, Idle(p, a),
         NEW toks, IsList(toks), Continues(st, 0, toks), NEW K, K = Len(toks),
         NEW l, l = InsertLine(st.table, toks)
  PROVE  ParserSays(ReadLine(p, l), a, st, f, r, all, K)
<1>1. PICK N \in Nat : N = Len(st.rows)
  BY DEF Inserted
<1>2. /\ IsList(all) /\ Len(all) \in Nat /\ (st.clause => N # 0)
      /\ IsList(AllRowTokens(st)) /\ Len(AllRowTokens(st)) = RowEnd(N)
  <2>1. IsList(all) /\ (st.clause => N # 0)
    <3>1. TokensAre(all, st, N)
      BY <1>1, InsertTokensAre
    <3>. QED
      BY <3>1 DEF TokensAre
  <2>2. IsList(AllRowTokens(st)) /\ Len(AllRowTokens(st)) = RowEnd(N)
    BY <1>1, RowTokensAre
  <2>. QED
    BY <2>1, <2>2, ListFacts
<1>3. /\ K \in Nat /\ K <= Len(all) /\ 0 < Len(all) /\ toks = SubSeq(all, 0 + 1, K)
      /\ st.clause => K # RowEnd(N)
  <2>1. K \in Nat /\ 0 + K = K
    BY ListFacts
  <2>. QED
    BY <1>2, <2>1 DEF Continues
<1>4. PICK o : o = 0 /\ o = RowEnd(0) /\ o \in Nat
  BY DEF RowEnd
<1>5. Buffered(st, all, o, K, toks)
  BY <1>1, <1>3, <1>4 DEF Buffered
<1>6. /\ IsParser(p) /\ p.copy = NoTable /\ p.insert = NoTable /\ ~p.engine.failed
      /\ p.out = a.out /\ p.engine = a.engine
  BY DEF Idle
<1>7. PICK table, no, u, q :
        /\ table = st.table /\ no = FALSE
        /\ u = IF st.table \in Truncated THEN p.out ELSE Append(p.out, InsertInto(st.table))
        /\ q = [p EXCEPT !.insert = table, !.buffer = toks, !.trailing = no, !.out = u]
  OBVIOUS
<1>8. ReadLine(p, l) = ScanInsert(q)
  <2>1. l.kind = "insert" /\ l.table = table /\ l.toks = toks
    BY <1>7 DEF InsertLine
  <2>2. ReadLine(p, l) = BeginInsert(p, l)
    BY <1>6, <2>1 DEF ReadLine
  <2>. QED
    BY <1>7, <2>1, <2>2 DEF BeginInsert
<1>9. /\ IsParser(q) /\ q.copy = NoTable /\ q.insert = table /\ q.buffer = toks
      /\ q.trailing = no /\ q.out = u /\ q.engine = p.engine
  <2>1. PICK copy, insert, buffer, trailing, wrote, engine :
          /\ copy = p.copy /\ engine = p.engine
          /\ ParserIs(p, copy, insert, buffer, trailing, wrote, engine)
    BY <1>6, FieldsOfParser
  <2>2. PICK x, y, z : /\ x = [p EXCEPT !.insert = table] /\ y = [x EXCEPT !.buffer = toks]
                       /\ z = [y EXCEPT !.trailing = no]
    OBVIOUS
  <2>3. q = [z EXCEPT !.out = u]
    BY <1>7, <2>2
  <2>4. ParserIs(x, copy, table, buffer, trailing, wrote, engine)
    BY <2>1, <2>2, ParserSet
  <2>5. ParserIs(y, copy, table, toks, trailing, wrote, engine)
    BY <2>2, <2>4, ParserSet
  <2>6. ParserIs(z, copy, table, toks, no, wrote, engine)
    BY <2>2, <2>5, ParserSet
  <2>7. ParserIs(q, copy, table, toks, no, u, engine)
    BY <2>3, <2>6, ParserSet
  <2>. QED
    BY <1>6, <2>1, <2>7, ParserFields
<1>10. q.out = OutAfter(a, st, f, 0) /\ q.engine = EngineAfter(a, st, f, 0)
  <2>1. f[0] = [statement |-> st, engine |-> a.engine, out |-> Append(a.out, Opening(st))]
    BY DEF Told, RowsFrom
  <2>2. Opening(st) = InsertInto(st.table)
    BY DEF Opening, Inserted
  <2>. QED
    BY <1>6, <1>7, <1>9, <2>1, <2>2 DEF OutAfter, EngineAfter, Written
<1>11. PICK n \in 0 .. Len(st.rows) : n = 0
  BY <1>1
<1>12. q.trailing <=> st.clause /\ n = Len(st.rows)
  BY <1>1, <1>2, <1>7, <1>9, <1>11
<1>13. ~q.engine.failed /\ q.insert = st.table /\ o < Len(all) /\ o = RowEnd(n)
       /\ q.out = OutAfter(a, st, f, n) /\ q.engine = EngineAfter(a, st, f, n)
       /\ Buffered(st, all, o, K, q.buffer)
  BY <1>3, <1>4, <1>5, <1>6, <1>7, <1>9, <1>10, <1>11
<1>14. ParserSays(ScanInsert(q), a, st, f, r, all, K)
  BY <1>9, <1>12, <1>13, ScanSays
<1>. QED
  BY <1>8, <1>14

(* The others. *)
LEMMA InsertContinues ==
  ASSUME NEW a, NEW st, NEW f, NEW r, Told(a, st, f, r), Inserted(st),
         NEW all, all = InsertTokens(st), NEW p, NEW n \in 0 .. Len(st.rows), NEW k \in Nat,
         InInsert(p, a, st, f, all, n, k),
         NEW toks, IsList(toks), Continues(st, k, toks), NEW K, K = k + Len(toks),
         NEW l, l = PlainLine(toks)
  PROVE  ParserSays(ReadLine(p, l), a, st, f, r, all, K)
<1>1. PICK N \in Nat : N = Len(st.rows)
  BY DEF Inserted
<1>2. /\ IsList(all) /\ Len(all) \in Nat /\ (st.clause => N # 0)
      /\ IsList(AllRowTokens(st)) /\ Len(AllRowTokens(st)) = RowEnd(N)
  <2>1. IsList(all) /\ (st.clause => N # 0)
    <3>1. TokensAre(all, st, N)
      BY <1>1, InsertTokensAre
    <3>. QED
      BY <3>1 DEF TokensAre
  <2>2. IsList(AllRowTokens(st)) /\ Len(AllRowTokens(st)) = RowEnd(N)
    BY <1>1, RowTokensAre
  <2>. QED
    BY <2>1, <2>2, ListFacts
<1>3. /\ K \in Nat /\ K <= Len(all) /\ k <= K /\ k < Len(all) /\ toks = SubSeq(all, k + 1, K)
      /\ st.clause => K # RowEnd(N)
  <2>1. K \in Nat /\ k <= K
    BY ListFacts
  <2>. QED
    BY <1>2, <2>1 DEF Continues
<1>4. /\ IsParser(p) /\ p.copy = NoTable /\ p.insert = st.table /\ ~p.engine.failed
      /\ RowsBy(st, n, k)
      /\ p.buffer = SubSeq(all, RowEnd(n) + 1, k)
      /\ p.trailing <=> st.clause /\ n = Len(st.rows)
      /\ p.out = OutAfter(a, st, f, n) /\ p.engine = EngineAfter(a, st, f, n)
  BY DEF InInsert
<1>5. PICK o \in Nat : o = RowEnd(n) /\ o <= k /\ o < Len(all)
  <2>1. RowEnd(n) \in Nat /\ RowEnd(n) <= k
    BY <1>1, <1>4 DEF RowsBy, RowEnd
  <2>. QED
    BY <1>2, <1>3, <2>1
<1>6. PICK u, q : u = p.buffer \o toks /\ q = [p EXCEPT !.buffer = u]
  OBVIOUS
<1>7. ReadLine(p, l) = ScanInsert(q)
  <2>1. l.kind = "plain" /\ l.toks = toks
    BY DEF PlainLine
  <2>2. st.table # NoTable
    BY DumpAssumption DEF Inserted
  <2>3. ReadLine(p, l) = ContinueInsert(p, l)
    BY <1>4, <2>1, <2>2 DEF ReadLine
  <2>. QED
    BY <1>6, <2>1, <2>3 DEF ContinueInsert
<1>8. /\ IsParser(q) /\ q.copy = p.copy /\ q.insert = p.insert /\ q.buffer = u
      /\ q.trailing = p.trailing /\ q.out = p.out /\ q.engine = p.engine
  <2>1. PICK copy, insert, buffer, trailing, wrote, engine :
          /\ copy = p.copy /\ insert = p.insert /\ trailing = p.trailing /\ wrote = p.out
          /\ engine = p.engine
          /\ ParserIs(p, copy, insert, buffer, trailing, wrote, engine)
    BY <1>4, FieldsOfParser
  <2>2. ParserIs(q, copy, insert, u, trailing, wrote, engine)
    BY <1>6, <2>1, ParserSet
  <2>. QED
    BY <2>1, <2>2, ParserFields
<1>9. Buffered(st, all, o, K, u)
  <2>1. Adjacent(all, o, k, K) /\ o <= K
    <3>1. o <= K
      BY <1>3, <1>5
    <3>. QED
      BY <1>2, <1>3, <1>5, <3>1, AdjacentParts
  <2>2. u = SubSeq(all, o + 1, K) /\ o <= K
    <3>1. u = SubSeq(all, o + 1, k) \o SubSeq(all, k + 1, K)
      BY <1>3, <1>4, <1>5, <1>6
    <3>. QED
      BY <2>1, <3>1 DEF Adjacent
  <2>. QED
    BY <1>1, <1>3, <2>2 DEF Buffered
<1>10. /\ Buffered(st, all, o, K, q.buffer) /\ q.copy = NoTable /\ q.insert = st.table
       /\ ~q.engine.failed /\ (q.trailing <=> st.clause /\ n = Len(st.rows))
       /\ q.out = OutAfter(a, st, f, n) /\ q.engine = EngineAfter(a, st, f, n)
  BY <1>4, <1>8, <1>9
<1>11. ParserSays(ScanInsert(q), a, st, f, r, all, K)
  BY <1>5, <1>8, <1>10, ScanSays
<1>. QED
  BY <1>7, <1>11

(* The lines of a COPY block. *)
Copied(st) ==
  /\ st.form = "copy" /\ st.table \in Table /\ st.table \notin Truncated /\ st.rows \in Seq(Row)

InCopy(p, st, f, n) ==
  /\ IsParser(p) /\ p.copy = st.table /\ p.insert = NoTable /\ ~p.engine.failed
  /\ p.out = f[n].out /\ p.engine = f[n].engine

(* The reference of a COPY block, from that of its rows. *)
LEMMA CopyIs ==
  ASSUME NEW a, NEW st, NEW f, NEW r, Told(a, st, f, r), Copied(st), NEW N \in Nat, N = Len(st.rows)
  PROVE  /\ IsReference(r) /\ r.engine = f[N].engine /\ r.out = Append(f[N].out, EndOfCopy)
         /\ \A n \in 0 .. N : IsList(f[n].out) /\ Begins(f[n].out, r.out)
         /\ Begins(a.out, r.out)
<1>1. PICK u, v, e : u = Append(f[N].out, EndOfCopy) /\ v = f[N].out /\ e = EndOfCopy
  OBVIOUS
<1>2. r = [engine |-> f[N].engine, out |-> u]
  <2>1. r = [engine |-> RefRows(a, st).engine, out |-> Append(RefRows(a, st).out, EndOfCopy)]
    BY DEF Told, RefStatement, Copied
  <2>. QED
    BY <1>1, <2>1 DEF Told
<1>3. N \in 0 .. N /\ 0 \in 0 .. N
  OBVIOUS
<1>4. /\ \A n \in 0 .. N : IsList(f[n].out) /\ Begins(f[n].out, f[N].out)
      /\ IsList(a.out) /\ Begins(a.out, f[0].out)
  <2>1. \A n \in 0 .. N : IsList(f[n].out) /\ Begins(f[n].out, f[N].out)
    BY ToldRows
  <2>2. \A k \in 0 .. N :
            /\ f[k] = [statement |-> st, engine |-> f[k].engine, out |-> f[k].out]
            /\ IsList(f[k].out) /\ Begins(a.out, f[k].out)
    BY RowStep DEF Told
  <2>3. IsList(a.out)
    BY DEF Told, IsReference
  <2>. QED
    BY <1>3, <2>1, <2>2, <2>3
<1>5. IsList(v) /\ u = v \o <<e>> /\ IsList(<<e>>) /\ IsList(u) /\ Begins(v, u)
  <2>1. IsList(v)
    BY <1>1, <1>3, <1>4
  <2>2. u = v \o <<e>> /\ IsList(<<e>>)
    BY <1>1, <2>1, ShortLists
  <2>. QED
    BY <2>1, <2>2, Joins
<1>6. \A n \in 0 .. N : IsList(f[n].out) /\ Begins(f[n].out, u)
  BY <1>1, <1>4, <1>5, BeginsFacts
<1>7. Begins(a.out, u)
  BY <1>3, <1>4, <1>5, <1>6, BeginsFacts
<1>. QED
  BY <1>1, <1>2, <1>5, <1>6, <1>7 DEF IsReference

(* Its first line. *)
LEMMA CopyBegins ==
  ASSUME NEW a, NEW st, NEW f, NEW r, Told(a, st, f, r), Copied(st), NEW p, Idle(p, a),
         NEW l, l = CopyLine(st.table)
  PROVE  InCopy(ReadLine(p, l), st, f, 0)
<1>1. /\ IsParser(p) /\ p.copy = NoTable /\ p.insert = NoTable /\ ~p.engine.failed
      /\ p.out = a.out /\ p.engine = a.engine
  BY DEF Idle
<1>2. PICK table, u, t : /\ table = st.table /\ u = Append(p.out, CopyFrom(st.table))
                         /\ t = ReadLine(p, l)
  OBVIOUS
<1>3. t = [p EXCEPT !.copy = table, !.out = u]
  <2>1. l.kind = "copy" /\ l.table = table
    BY <1>2 DEF CopyLine
  <2>2. t = BeginCopy(p, l)
    BY <1>1, <1>2, <2>1 DEF ReadLine
  <2>. QED
    BY <1>2, <2>1, <2>2 DEF BeginCopy
<1>4. /\ IsParser(t) /\ t.copy = table /\ t.insert = p.insert /\ t.out = u /\ t.engine = p.engine
  <2>1. PICK copy, insert, buffer, trailing, wrote, engine :
          /\ insert = p.insert /\ engine = p.engine
          /\ ParserIs(p, copy, insert, buffer, trailing, wrote, engine)
    BY <1>1, FieldsOfParser
  <2>2. PICK x : x = [p EXCEPT !.copy = table]
    OBVIOUS
  <2>3. t = [x EXCEPT !.out = u]
    BY <1>3, <2>2
  <2>4. ParserIs(x, table, insert, buffer, trailing, wrote, engine)
    BY <2>1, <2>2, ParserSet
  <2>5. ParserIs(t, table, insert, buffer, trailing, u, engine)
    BY <2>3, <2>4, ParserSet
  <2>. QED
    BY <2>1, <2>5, ParserFields
<1>5. u = f[0].out /\ f[0].engine = a.engine
  <2>1. f[0] = [statement |-> st, engine |-> a.engine, out |-> Append(a.out, Opening(st))]
    BY DEF Told, RowsFrom
  <2>2. Opening(st) = CopyFrom(st.table)
    BY DEF Opening, Copied
  <2>. QED
    BY <1>1, <1>2, <2>1, <2>2
<1>. QED
  BY <1>1, <1>2, <1>4, <1>5 DEF InCopy

(* A line with a row. *)
LEMMA CopyContinues ==
  ASSUME NEW a, NEW st, NEW f, NEW r, Told(a, st, f, r), Copied(st),
         NEW n \in Nat, NEW m \in 1 .. Len(st.rows), n = m - 1, NEW p, InCopy(p, st, f, n),
         NEW l, l = PlainLine(<<Group(st.rows[m])>>)
  PROVE  Gone(ReadLine(p, l), r) \/ InCopy(ReadLine(p, l), st, f, m)
<1>1. /\ IsParser(p) /\ p.copy = st.table /\ p.insert = NoTable /\ ~p.engine.failed
      /\ p.out = f[n].out /\ p.engine = f[n].engine /\ st.table \notin Truncated /\ st.form = "copy"
  BY DEF InCopy, Copied
<1>2. PICK N \in Nat : N = Len(st.rows) /\ n \in 0 .. N
  <2>1. Len(st.rows) \in Nat
    BY DEF Copied
  <2>. QED
    BY <2>1
<1>3. PICK w, t : /\ w = MaskRow(p.engine, p.copy, "copy", l.toks[1][2]) /\ t = ReadLine(p, l)
  OBVIOUS
<1>4. w = MaskedRow(st, f, m)
  <2>1. l.toks = <<Group(st.rows[m])>>
    BY DEF PlainLine
  <2>2. l.toks[1][2] = st.rows[m]
    BY <2>1, TokenKinds
  <2>. QED
    BY <1>1, <1>3, <2>2 DEF MaskedRow
<1>5. t = CopyRow(p, l)
  <2>1. l.kind = "plain"
    BY DEF PlainLine
  <2>2. st.table # NoTable
    BY DumpAssumption DEF Copied
  <2>. QED
    BY <1>1, <1>3, <2>1, <2>2 DEF ReadLine
<1>6. IsRow(st, f, m)
  BY <1>2, ToldRows
<1>7. PICK copy, insert, buffer, trailing, wrote, engine :
        /\ copy = p.copy /\ insert = p.insert /\ wrote = p.out
        /\ ParserIs(p, copy, insert, buffer, trailing, wrote, engine)
  BY <1>1, FieldsOfParser
<1>8. PICK x : x = [p EXCEPT !.engine = w.engine]
  OBVIOUS
<1>9. ParserIs(x, copy, insert, buffer, trailing, wrote, w.engine)
  BY <1>7, <1>8, ParserSet
<1>10. CASE w.engine.failed
  <2>1. t = x
    BY <1>1, <1>3, <1>5, <1>8, <1>10 DEF CopyRow
  <2>2. t.out = f[n].out /\ t.engine = w.engine
    BY <1>1, <1>7, <1>9, <2>1, ParserFields
  <2>3. IsList(f[n].out) /\ Begins(f[n].out, r.out)
    BY <1>2, CopyIs
  <2>. QED
    BY <1>3, <1>10, <2>2, <2>3 DEF Gone
<1>11. CASE ~w.engine.failed
  <2>1. PICK u : u = Append(p.out, w.item)
    OBVIOUS
  <2>2. t = [x EXCEPT !.out = u]
    <3>1. t = [p EXCEPT !.engine = w.engine, !.out = u]
      BY <1>1, <1>3, <1>5, <1>11, <2>1 DEF CopyRow
    <3>. QED
      BY <1>8, <3>1
  <2>3. ParserIs(t, copy, insert, buffer, trailing, u, w.engine)
    BY <1>9, <2>2, ParserSet
  <2>4. u = f[m].out /\ w.engine = f[m].engine
    <3>1. PICK i, v : i = w.item /\ v = p.out /\ IsList(v)
      BY <1>1, <1>2, <1>6 DEF IsRow
    <3>2. u = v \o <<i>>
      BY <2>1, <3>1, ShortLists
    <3>3. /\ Written(st, f, m) = v \o <<i>> /\ IsList(Written(st, f, m))
          /\ f[m].out = Written(st, f, m) \o Separator(st, m)
          /\ f[m].engine = w.engine
      BY <1>1, <1>4, <1>6, <3>1 DEF IsRow
    <3>4. Separator(st, m) = <<>>
      BY <1>1 DEF Separator
    <3>. QED
      BY <3>2, <3>3, <3>4, ShortLists
  <2>5. /\ IsParser(t) /\ t.copy = copy /\ t.insert = insert /\ t.out = u /\ t.engine = w.engine
    BY <2>3, ParserFields
  <2>. QED
    BY <1>1, <1>3, <1>7, <1>11, <2>4, <2>5 DEF InCopy
<1>. QED
  BY <1>10, <1>11

(* The line that ends it. *)
LEMMA CopyEnds ==
  ASSUME NEW a, NEW st, NEW f, NEW r, Told(a, st, f, r), Copied(st),
         NEW N, N = Len(st.rows), NEW p, InCopy(p, st, f, N)
  PROVE  Idle(ReadLine(p, EndLine), r)
<1>1. /\ IsParser(p) /\ p.copy = st.table /\ p.insert = NoTable /\ ~p.engine.failed
      /\ p.out = f[N].out /\ p.engine = f[N].engine /\ st.table \notin Truncated /\ N \in Nat
  BY DEF InCopy, Copied
<1>2. PICK none, u, t : /\ none = NoTable /\ u = Append(p.out, EndOfCopy)
                        /\ t = ReadLine(p, EndLine)
  OBVIOUS
<1>3. t = [p EXCEPT !.copy = none, !.out = u]
  <2>1. EndLine.kind = "end"
    BY DEF EndLine
  <2>2. st.table # NoTable
    BY DumpAssumption DEF Copied
  <2>3. t = EndCopy(p)
    BY <1>1, <1>2, <2>1, <2>2 DEF ReadLine
  <2>. QED
    BY <1>1, <1>2, <2>3 DEF EndCopy
<1>4. /\ IsParser(t) /\ t.copy = none /\ t.insert = p.insert /\ t.out = u /\ t.engine = p.engine
  <2>1. PICK copy, insert, buffer, trailing, wrote, engine :
          /\ insert = p.insert /\ engine = p.engine
          /\ ParserIs(p, copy, insert, buffer, trailing, wrote, engine)
    BY <1>1, FieldsOfParser
  <2>2. PICK x : x = [p EXCEPT !.copy = none]
    OBVIOUS
  <2>3. t = [x EXCEPT !.out = u]
    BY <1>3, <2>2
  <2>4. ParserIs(x, none, insert, buffer, trailing, wrote, engine)
    BY <2>1, <2>2, ParserSet
  <2>5. ParserIs(t, none, insert, buffer, trailing, u, engine)
    BY <2>3, <2>4, ParserSet
  <2>. QED
    BY <2>1, <2>5, ParserFields
<1>5. r.out = u /\ r.engine = p.engine
  BY <1>1, <1>2, CopyIs
<1>. QED
  BY <1>1, <1>2, <1>4, <1>5 DEF Idle

(* Any other line. *)
LEMMA OtherGrows ==
  ASSUME NEW a, IsReference(a), NEW r, r = RefStatement(a, OtherStatement)
  PROVE  /\ IsReference(r) /\ Begins(a.out, r.out)
         /\ r.out = a.out \o <<Other, Semi>> /\ r.engine = a.engine
<1>1. PICK toks, u, wrote : toks = <<Other, Semi>> /\ u = wrote \o toks /\ wrote = a.out
  OBVIOUS
<1>2. IsList(u) /\ Begins(wrote, u)
  <2>1. IsList(toks)
    <3>1. PICK x, y : x = Other /\ y = Semi
      OBVIOUS
    <3>2. <<x, y>> \in Seq({x, y})
      OBVIOUS
    <3>. QED
      BY <1>1, <3>1, <3>2, ListOf
  <2>2. IsList(wrote)
    BY <1>1 DEF IsReference
  <2>. QED
    BY <1>1, <2>1, <2>2, Joins
<1>3. r = [engine |-> a.engine, out |-> u]
  <2>1. r = [a EXCEPT !.out = u]
    BY <1>1 DEF RefStatement, OtherStatement
  <2>2. a = [engine |-> a.engine, out |-> a.out]
    BY DEF IsReference
  <2>. QED
    BY <2>1, <2>2
<1>4. r.out = u /\ r.engine = a.engine /\ r = [engine |-> r.engine, out |-> r.out]
  BY <1>3
<1>. QED
  BY <1>1, <1>2, <1>4 DEF IsReference

(* Any other statement is copied. *)
LEMMA OtherIs ==
  ASSUME NEW a, IsReference(a), NEW r, r = RefStatement(a, OtherStatement), NEW p, Idle(p, a)
  PROVE  Idle(ReadLine(p, PlainLine(<<Other, Semi>>)), r)
<1>1. /\ IsParser(p) /\ p.copy = NoTable /\ p.insert = NoTable /\ ~p.engine.failed
      /\ p.out = a.out /\ p.engine = a.engine
  BY DEF Idle
<1>2. PICK toks, t, l, u : /\ toks = <<Other, Semi>> /\ l = PlainLine(toks) /\ t = ReadLine(p, l)
                           /\ u = a.out \o toks
  OBVIOUS
<1>3. r.out = u /\ r.engine = a.engine
  BY <1>2, OtherGrows
<1>4. t = [p EXCEPT !.out = u]
  <2>1. l.kind = "plain" /\ l.toks = toks
    BY <1>2 DEF PlainLine
  <2>. QED
    BY <1>1, <1>2, <2>1 DEF ReadLine
<1>5. IsParser(t) /\ t.copy = p.copy /\ t.insert = p.insert /\ t.out = u /\ t.engine = p.engine
  <2>1. PICK copy, insert, buffer, trailing, o, engine :
          /\ copy = p.copy /\ insert = p.insert /\ engine = p.engine
          /\ ParserIs(p, copy, insert, buffer, trailing, o, engine)
    BY <1>1, FieldsOfParser
  <2>2. ParserIs(t, copy, insert, buffer, trailing, u, engine)
    BY <1>4, <2>1, ParserSet
  <2>. QED
    BY <2>1, <2>2, ParserFields
<1>6. Idle(t, r)
  BY <1>1, <1>3, <1>5 DEF Idle
<1>. QED
  BY <1>2, <1>6

(* The lines of a statement: what has been read after j of them. *)
TokenFold == INSTANCE FoldLaws WITH Op <- AddTokens

(* The count of tokens is a loop that FoldLaws is about. *)
LEMMA SameCount == \A base, s : FoldLeft(AddTokens, base, s) = TokenFold!FoldLeft(AddTokens, base, s)
BY DEF FoldLeft, TokenFold!FoldLeft, MapThenFoldSet, TokenFold!MapThenFoldSet, Max, TokenFold!Max

TokensBy(lines, j) == TokensOn(SubSeq(lines, 1, j))

(* Lines that can be dealt with one by one. *)
IsText(lines) == IsList(lines) /\ \A i \in 1 .. Len(lines) : IsList(lines[i].toks)

(* It goes line by line. *)
LEMMA TokensCounted ==
  ASSUME NEW lines, IsList(lines)
  PROVE  /\ TokensBy(lines, 0) = 0 /\ TokensBy(lines, Len(lines)) = TokensOn(lines)
         /\ \A j \in Nat : j < Len(lines) =>
              TokensBy(lines, j + 1) = TokensBy(lines, j) + Len(lines[j + 1].toks)
<1>1. PICK S : S = ToSet(lines) /\ lines \in Seq(S)
  BY DEF IsList
<1>2. Len(lines) \in Nat
  BY <1>1
<1>3. TokensBy(lines, 0) = 0
  <2>1. SubSeq(lines, 1, 0) = <<>>
    BY <1>1
  <2>2. TokenFold!FoldLeft(AddTokens, 0, <<>>) = 0
    BY TokenFold!FoldEmpty
  <2>. QED
    BY <2>1, <2>2, SameCount DEF TokensBy, TokensOn
<1>4. TokensBy(lines, Len(lines)) = TokensOn(lines)
  <2>1. SubSeq(lines, 1, Len(lines)) = lines
    BY <1>1
  <2>. QED
    BY <2>1 DEF TokensBy
<1>5. ASSUME NEW j \in Nat, j < Len(lines)
      PROVE  TokensBy(lines, j + 1) = TokensBy(lines, j) + Len(lines[j + 1].toks)
  <2>1. PICK s, x : s = SubSeq(lines, 1, j) /\ x = lines[j + 1]
    OBVIOUS
  <2>2. s \in Seq(S) /\ x \in S /\ SubSeq(lines, 1, j + 1) = Append(s, x)
    <3>1. j \in 0 .. Len(lines) /\ j + 1 \in 1 .. Len(lines)
      BY <1>2, <1>5
    <3>2. s \in Seq(S) /\ SubSeq(lines, 1, j + 1) = Append(s, x)
      BY <1>1, <1>5, <2>1, <3>1, FirstLines
    <3>. QED
      BY <1>1, <2>1, <3>1, <3>2
  <2>3. TokenFold!FoldLeft(AddTokens, 0, Append(s, x)) = AddTokens(TokenFold!FoldLeft(AddTokens, 0, s), x)
    BY <2>2, TokenFold!FoldAppend
  <2>4. TokensOn(Append(s, x)) = AddTokens(TokensOn(s), x)
    BY <2>3, SameCount DEF TokensOn
  <2>. QED
    BY <2>1, <2>2, <2>4 DEF TokensBy, AddTokens
<1>. QED
  BY <1>3, <1>4, <1>5

(* The lines of a COPY block. *)
CopyLines(st, lines, N) ==
  /\ IsList(lines) /\ Len(lines) = N + 2
  /\ lines[1] = CopyLine(st.table) /\ lines[N + 2] = EndLine
  /\ \A n \in 1 .. N : lines[n + 1] = PlainLine(<<Group(st.rows[n])>>)

(* The lines of a COPY block. *)
LEMMA CopyLinesAre ==
  ASSUME NEW st, st.form = "copy", NEW S, st.rows \in Seq(S), NEW N \in Nat, N = Len(st.rows),
         NEW lines, lines = Lines(st, "line")
  PROVE  CopyLines(st, lines, N)
<1>1. PICK x, y, b, e : /\ x = CopyLine(st.table) /\ y = EndLine /\ b = <<x>> /\ e = <<y>>
  OBVIOUS
<1>2. PICK body : body = [i \in DOMAIN st.rows |-> PlainLine(<<Group(st.rows[i])>>)]
  OBVIOUS
<1>3. PICK u : u = b \o body /\ lines = u \o e
  BY <1>1, <1>2 DEF Lines
<1>4. /\ IsList(b) /\ Len(b) = 1 /\ b[1] = x /\ IsList(e) /\ Len(e) = 1 /\ e[1] = y
  BY <1>1, ShortLists
<1>5. /\ IsList(body) /\ Len(body) = N /\ \A n \in 1 .. N : body[n] = PlainLine(<<Group(st.rows[n])>>)
  <2>. DEFINE L(i) == PlainLine(<<Group(st.rows[i])>>)
  <2>1. DOMAIN st.rows = 1 .. N
    OBVIOUS
  <2>. HIDE DEF L
  <2>2. PICK T : T = {L(i) : i \in 1 .. N}
    OBVIOUS
  <2>3. body = [i \in 1 .. N |-> L(i)]
    BY <1>2, <2>1 DEF L
  <2>4. body \in Seq(T) /\ Len(body) = N /\ \A n \in 1 .. N : body[n] = L(n)
    BY <2>2, <2>3
  <2>. QED
    BY <2>4, ListOf DEF L
<1>6. /\ IsList(u) /\ Len(u) = 1 + N /\ u[1] = x
      /\ \A n \in 1 .. N : u[1 + n] = body[n]
  <2>1. Concatenated(u, b, body)
    BY <1>3, <1>4, <1>5, ConcatenatedLists
  <2>. QED
    BY <1>4, <1>5, <2>1 DEF Concatenated
<1>7. /\ IsList(lines) /\ Len(lines) = (1 + N) + 1
      /\ \A k \in 1 .. 1 + N : lines[k] = u[k]
      /\ lines[(1 + N) + 1] = y
  <2>1. Concatenated(lines, u, e)
    BY <1>3, <1>4, <1>6, ConcatenatedLists
  <2>. QED
    BY <1>4, <1>6, <2>1 DEF Concatenated
<1>8. ASSUME NEW n \in 1 .. N
      PROVE  lines[n + 1] = PlainLine(<<Group(st.rows[n])>>)
  <2>1. PICK k \in 1 .. 1 + N : k = n + 1 /\ k = 1 + n
    OBVIOUS
  <2>. QED
    BY <1>5, <1>6, <1>7, <2>1
<1>9. lines[1] = x /\ (1 + N) + 1 = N + 2
  <2>1. 1 \in 1 .. 1 + N
    OBVIOUS
  <2>. QED
    BY <1>6, <1>7, <2>1
<1>. QED
  BY <1>1, <1>7, <1>8, <1>9 DEF CopyLines

(* A statement that lines say; and the parser after j of them. *)
Meant(a, st, f, r, lines) ==
  /\ Told(a, st, f, r) /\ Says(lines, st) /\ IsText(lines)
  /\ st.form = "copy" => st.table \notin Truncated

Amid(p, a, st, f, lines, j) ==
  \/ st.form = "copy" /\ j - 1 \in 0 .. Len(st.rows) /\ InCopy(p, st, f, j - 1)
  \/ /\ st.form = "insert"
     /\ \E n \in 0 .. Len(st.rows) :
          InInsert(p, a, st, f, InsertTokens(st), n, TokensBy(lines, j))

Midway(p, a, st, f, r, lines, j) ==
  \/ Gone(p, r)
  \/ j = 0 /\ Idle(p, a)
  \/ j = Len(lines) /\ Idle(p, r)
  \/ 0 < j /\ j < Len(lines) /\ Amid(p, a, st, f, lines, j)

(* The three forms of statements. *)
LEMMA StatementForms ==
  ASSUME NEW a, NEW st, NEW f, NEW r, NEW lines, Meant(a, st, f, r, lines)
  PROVE  \/ st = OtherStatement /\ lines = <<PlainLine(<<Other, Semi>>)>>
         \/ Copied(st) /\ st.form = "copy" /\ lines = Lines(st, "line")
         \/ Inserted(st) /\ st.form = "insert" /\ IsInsert(st, lines)
<1>1. CASE st = OtherStatement /\ lines = Lines(st, "line")
  BY <1>1 DEF Lines, OtherStatement
<1>2. CASE /\ st.table \in Table /\ st.rows \in Seq(Row) /\ st.clause \in BOOLEAN
           /\ st = CopyStatement(st.table, st.rows) /\ lines = Lines(st, "line")
  <2>1. st.form = "copy"
    BY <1>2 DEF CopyStatement
  <2>. QED
    BY <1>2, <2>1 DEF Copied, Meant
<1>3. CASE /\ st.table \in Table /\ st.rows \in Seq(Row) /\ st.clause \in BOOLEAN
           /\ st = InsertStatement(st.table, st.rows, st.clause) /\ IsInsert(st, lines)
  <2>1. st.form = "insert"
    BY <1>3 DEF InsertStatement
  <2>. QED
    BY <1>3, <2>1 DEF Inserted, IsInsert
<1>. QED
  BY <1>1, <1>2, <1>3 DEF Meant, Says

(* Each line of an INSERT takes the parser on. *)
LEMMA InsertStep ==
  ASSUME NEW a, NEW st, NEW f, NEW r, NEW lines, Meant(a, st, f, r, lines),
         Inserted(st), IsInsert(st, lines),
         NEW p, NEW j \in Nat, j < Len(lines), Midway(p, a, st, f, r, lines, j), ~Gone(p, r)
  PROVE  Midway(ReadLine(p, lines[j + 1]), a, st, f, r, lines, j + 1)
<1>1. Told(a, st, f, r) /\ IsText(lines) /\ st.form = "insert"
  BY DEF Meant, Inserted
<1>2. /\ IsList(lines) /\ Len(lines) \in Nat /\ DOMAIN lines = 1 .. Len(lines)
      /\ j + 1 \in 1 .. Len(lines) /\ j + 1 <= Len(lines)
  BY <1>1, ListFacts DEF IsText
<1>3. PICK l, toks, all, k, K :
        /\ l = lines[j + 1] /\ toks = l.toks /\ all = InsertTokens(st)
        /\ k = TokensBy(lines, j) /\ K = TokensBy(lines, j + 1)
  OBVIOUS
<1>4. IsList(toks) /\ Len(toks) \in Nat /\ K = k + Len(toks) /\ (j = 0 => k = 0)
  <2>1. IsList(toks)
    BY <1>1, <1>2, <1>3 DEF IsText
  <2>2. TokensBy(lines, j + 1) = TokensBy(lines, j) + Len(lines[j + 1].toks) /\ TokensBy(lines, 0) = 0
    BY <1>2, TokensCounted
  <2>. QED
    BY <1>3, <2>1, <2>2, ListFacts
<1>5. /\ l = IF j = 0 THEN InsertLine(st.table, toks) ELSE PlainLine(toks)
      /\ Continues(st, k, toks)
  <2>1. PICK i \in DOMAIN lines : i = j + 1 /\ i - 1 = j /\ (i = 1 <=> j = 0)
    BY <1>2
  <2>2. /\ lines[i] = IF i = 1 THEN InsertLine(st.table, lines[i].toks) ELSE PlainLine(lines[i].toks)
        /\ Continues(st, TokensOn(SubSeq(lines, 1, i - 1)), lines[i].toks)
    BY <2>1 DEF IsInsert
  <2>. QED
    BY <1>3, <2>1, <2>2 DEF TokensBy
<1>6. PICK t : t = ReadLine(p, l) /\ ParserSays(t, a, st, f, r, all, K)
  <2>1. CASE j = 0
    <3>1. Idle(p, a)
      BY <2>1 DEF Midway
    <3>2. l = InsertLine(st.table, toks) /\ K = Len(toks) /\ Continues(st, 0, toks)
      BY <1>4, <1>5, <2>1
    <3>. QED
      BY <1>1, <1>3, <1>4, <3>1, <3>2, InsertBegins
  <2>2. CASE j # 0
    <3>1. PICK n \in 0 .. Len(st.rows) : InInsert(p, a, st, f, all, n, k)
      BY <1>1, <1>3, <2>2 DEF Midway, Amid
    <3>2. k \in Nat
      BY <3>1 DEF InInsert
    <3>3. l = PlainLine(toks)
      BY <1>5, <2>2
    <3>. QED
      BY <1>1, <1>3, <1>4, <1>5, <3>1, <3>2, <3>3, InsertContinues
  <2>. QED
    BY <2>1, <2>2
<1>7. PICK m \in Nat : m = j + 1 /\ 0 < m /\ m <= Len(lines)
  BY <1>2
<1>8. CASE m < Len(lines)
  <2>1. PICK i \in DOMAIN lines : i = m + 1 /\ i - 1 = m
    BY <1>2, <1>7, <1>8
  <2>2. Continues(st, TokensOn(SubSeq(lines, 1, i - 1)), lines[i].toks)
    BY <2>1 DEF IsInsert
  <2>3. K < Len(all)
    BY <1>3, <1>7, <2>1, <2>2 DEF TokensBy, Continues
  <2>4. Len(all) \in Nat
    <3>1. PICK N \in Nat : N = Len(st.rows)
      BY DEF Inserted
    <3>. QED
      <4>1. TokensAre(all, st, N)
        BY <1>3, <3>1, InsertTokensAre
      <4>. QED
        BY <4>1, ListFacts DEF TokensAre
  <2>5. K # Len(all)
    BY <2>3, <2>4
  <2>6. Gone(t, r) \/ \E n \in 0 .. Len(st.rows) : InInsert(t, a, st, f, all, n, K)
    BY <1>6, <2>5 DEF ParserSays
  <2>. QED
    BY <1>1, <1>3, <1>6, <1>7, <1>8, <2>6 DEF Midway, Amid
<1>9. CASE m = Len(lines)
  <2>1. K = Len(all)
    <3>1. TokensBy(lines, Len(lines)) = TokensOn(lines)
      BY <1>2, TokensCounted
    <3>. QED
      BY <1>3, <1>7, <1>9, <3>1 DEF IsInsert
  <2>2. \A n : ~InInsert(t, a, st, f, all, n, K)
    <3>1. Len(all) \in Nat
      <4>1. PICK N \in Nat : N = Len(st.rows)
        BY DEF Inserted
      <4>. QED
        <5>1. TokensAre(all, st, N)
          BY <1>3, <4>1, InsertTokensAre
        <5>. QED
          BY <5>1, ListFacts DEF TokensAre
    <3>. QED
      BY <2>1, <3>1 DEF InInsert
  <2>3. Gone(t, r) \/ Idle(t, r)
    BY <1>6, <2>2 DEF ParserSays
  <2>. QED
    BY <1>3, <1>6, <1>7, <1>9, <2>3 DEF Midway
<1>10. m < Len(lines) \/ m = Len(lines)
  <2>1. PICK n \in Nat : n = Len(lines)
    BY <1>2
  <2>2. m <= n
    BY <1>7, <2>1
  <2>3. m < n \/ m = n
    BY <2>2
  <2>. QED
    BY <2>1, <2>3
<1>. QED
  BY <1>8, <1>9, <1>10

(* Each line of a COPY block does. *)
LEMMA CopyStep ==
  ASSUME NEW a, NEW st, NEW f, NEW r, NEW lines, Meant(a, st, f, r, lines),
         Copied(st), lines = Lines(st, "line"),
         NEW p, NEW j \in Nat, j < Len(lines), Midway(p, a, st, f, r, lines, j), ~Gone(p, r)
  PROVE  Midway(ReadLine(p, lines[j + 1]), a, st, f, r, lines, j + 1)
<1>1. Told(a, st, f, r) /\ st.form = "copy"
  BY DEF Meant, Copied
<1>2. PICK N \in Nat : N = Len(st.rows)
  BY DEF Copied
<1>3. /\ Len(lines) = N + 2
      /\ lines[1] = CopyLine(st.table) /\ lines[N + 2] = EndLine
      /\ \A n \in 1 .. N : lines[n + 1] = PlainLine(<<Group(st.rows[n])>>)
  <2>1. CopyLines(st, lines, N)
    BY <1>2, CopyLinesAre DEF Copied
  <2>. QED
    BY <2>1 DEF CopyLines
<1>4. PICK m, t : m = j + 1 /\ t = ReadLine(p, lines[m])
  OBVIOUS
<1>5. CASE j = 0
  <2>1. Idle(p, a) /\ lines[m] = CopyLine(st.table)
    BY <1>3, <1>4, <1>5 DEF Midway
  <2>2. InCopy(t, st, f, 0)
    BY <1>1, <1>4, <2>1, CopyBegins
  <2>3. 0 < m /\ m < Len(lines) /\ m - 1 = 0 /\ m - 1 \in 0 .. Len(st.rows)
    BY <1>2, <1>3, <1>4, <1>5
  <2>. QED
    BY <1>1, <1>4, <2>2, <2>3 DEF Midway, Amid
<1>6. CASE j # 0
  <2>1. PICK n \in Nat : n = j - 1 /\ InCopy(p, st, f, n) /\ n <= N
    <3>1. j - 1 \in Nat /\ j - 1 <= N
      BY <1>3, <1>6
    <3>2. InCopy(p, st, f, j - 1)
      BY <1>1, <1>6 DEF Midway, Amid
    <3>. QED
      BY <3>1, <3>2
  <2>2. CASE n < N
    <3>1. PICK i \in 1 .. Len(st.rows) : i = n + 1 /\ n = i - 1 /\ i = j /\ i \in 1 .. N
      <4>1. n + 1 \in 1 .. N /\ n = (n + 1) - 1 /\ n + 1 = j
        BY <2>1, <2>2
      <4>. QED
        BY <1>2, <4>1
    <3>2. lines[m] = PlainLine(<<Group(st.rows[i])>>)
      BY <1>3, <1>4, <3>1
    <3>3. Gone(t, r) \/ InCopy(t, st, f, i)
      BY <1>1, <1>4, <2>1, <3>1, <3>2, CopyContinues
    <3>4. 0 < m /\ m < Len(lines) /\ m - 1 = i /\ m - 1 \in 0 .. Len(st.rows)
      <4>1. i \in Nat /\ i <= N /\ m = i + 1 /\ 0 < i
        BY <1>4, <3>1
      <4>2. Len(lines) = N + 2
        BY <1>3
      <4>. QED
        BY <1>2, <4>1, <4>2
    <3>. QED
      BY <1>1, <1>4, <3>3, <3>4 DEF Midway, Amid
  <2>3. CASE n = N
    <3>1. m = N + 2 /\ m = Len(lines)
      BY <1>3, <1>4, <2>1, <2>3
    <3>2. Idle(t, r)
      BY <1>1, <1>2, <1>3, <1>4, <2>1, <2>3, <3>1, CopyEnds
    <3>. QED
      BY <1>4, <3>1, <3>2 DEF Midway
  <2>. QED
    BY <1>2, <2>1, <2>2, <2>3
<1>. QED
  BY <1>5, <1>6

(* So does each line of any statement. *)
LEMMA StatementStep ==
  ASSUME NEW a, NEW st, NEW f, NEW r, NEW lines, Meant(a, st, f, r, lines),
         NEW p, NEW j \in Nat, j < Len(lines), Midway(p, a, st, f, r, lines, j)
  PROVE  Midway(ReadLine(p, lines[j + 1]), a, st, f, r, lines, j + 1)
<1>1. CASE Gone(p, r)
  <2>1. ReadLine(p, lines[j + 1]) = p
    BY <1>1 DEF ReadLine, Gone
  <2>. QED
    BY <1>1, <2>1 DEF Midway
<1>2. CASE ~Gone(p, r) /\ Inserted(st) /\ IsInsert(st, lines)
  BY <1>2, InsertStep
<1>3. CASE ~Gone(p, r) /\ Copied(st) /\ lines = Lines(st, "line")
  BY <1>3, CopyStep
<1>4. CASE ~Gone(p, r) /\ st = OtherStatement /\ lines = <<PlainLine(<<Other, Semi>>)>>
  <2>1. Len(lines) = 1 /\ j = 0 /\ j + 1 = 1 /\ lines[j + 1] = PlainLine(<<Other, Semi>>)
    BY <1>4
  <2>2. Idle(p, a)
    BY <1>4, <2>1 DEF Midway
  <2>3. IsReference(a) /\ r = RefStatement(a, OtherStatement)
    BY <1>4 DEF Meant, Told
  <2>4. Idle(ReadLine(p, lines[j + 1]), r)
    BY <2>1, <2>2, <2>3, OtherIs
  <2>. QED
    BY <2>1, <2>4 DEF Midway
<1>. QED
  BY <1>1, <1>2, <1>3, <1>4, StatementForms

(* A statement has a line at least, and only adds to what the reference says. *)
LEMMA StatementGrows ==
  ASSUME NEW a, NEW st, NEW f, NEW r, NEW lines, Meant(a, st, f, r, lines)
  PROVE  /\ Len(lines) > 0 /\ IsReference(r) /\ Begins(a.out, r.out)
         /\ \A p, j : Amid(p, a, st, f, lines, j) => IsList(p.out) /\ Begins(p.out, r.out)
<1>1. Told(a, st, f, r) /\ IsReference(a) /\ IsList(a.out) /\ IsList(lines)
  BY DEF Meant, Told, IsReference, IsText
<1>2. /\ Len(lines) > 0 /\ IsReference(r) /\ Begins(a.out, r.out)
      /\ \A p, j : Amid(p, a, st, f, lines, j) => IsList(p.out) /\ Begins(p.out, r.out)
  <2>1. CASE st = OtherStatement /\ lines = <<PlainLine(<<Other, Semi>>)>>
    <3>1. IsReference(r) /\ Begins(a.out, r.out)
      BY <1>1, <2>1, OtherGrows DEF Told
    <3>2. Len(lines) = 1
      BY <2>1
    <3>3. \A p, j : ~Amid(p, a, st, f, lines, j)
      BY <2>1 DEF Amid, OtherStatement
    <3>. QED
      BY <3>1, <3>2, <3>3
  <2>2. CASE Copied(st) /\ st.form = "copy" /\ lines = Lines(st, "line")
    <3>1. PICK N \in Nat : N = Len(st.rows)
      BY <2>2 DEF Copied
    <3>2. /\ IsReference(r) /\ Begins(a.out, r.out)
          /\ \A n \in 0 .. N : IsList(f[n].out) /\ Begins(f[n].out, r.out)
      BY <1>1, <2>2, <3>1, CopyIs
    <3>3. Len(lines) = N + 2
      <4>1. CopyLines(st, lines, N)
        BY <2>2, <3>1, CopyLinesAre DEF Copied
      <4>. QED
        BY <4>1 DEF CopyLines
    <3>4. ASSUME NEW p, NEW j, Amid(p, a, st, f, lines, j)
          PROVE  IsList(p.out) /\ Begins(p.out, r.out)
      <4>1. PICK n \in 0 .. N : InCopy(p, st, f, n)
        BY <2>2, <3>1, <3>4 DEF Amid
      <4>2. p.out = f[n].out
        BY <4>1 DEF InCopy
      <4>. QED
        BY <3>2, <4>2
    <3>. QED
      BY <3>1, <3>2, <3>3, <3>4
  <2>3. CASE Inserted(st) /\ st.form = "insert" /\ IsInsert(st, lines)
    <3>1. PICK N \in Nat : N = Len(st.rows)
      BY <2>3 DEF Inserted
    <3>2. IsReference(r) /\ Begins(a.out, r.out)
      <4>1. IsTold(a, st, f, r)
        BY <1>1, <2>3, <3>1, InsertIs
      <4>2. 0 \in 0 .. Len(st.rows)
        BY <3>1
      <4>. QED
        BY <1>1, <2>3, <4>1, <4>2, OutGrows DEF IsTold
    <3>3. Len(lines) > 0
      <4>1. lines # <<>>
        BY <2>3 DEF IsInsert
      <4>2. Len(lines) \in Nat
        BY <1>1, ListFacts
      <4>3. Len(lines) # 0
        BY <1>1, <4>1, ListsEqual, ShortLists
      <4>. QED
        BY <4>2, <4>3
    <3>4. ASSUME NEW p, NEW j, Amid(p, a, st, f, lines, j)
          PROVE  IsList(p.out) /\ Begins(p.out, r.out)
      <4>1. PICK n \in 0 .. Len(st.rows) :
              InInsert(p, a, st, f, InsertTokens(st), n, TokensBy(lines, j))
        BY <2>3, <3>4 DEF Amid
      <4>2. p.out = OutAfter(a, st, f, n)
        BY <4>1 DEF InInsert
      <4>. QED
        BY <1>1, <2>3, <4>2, OutGrows
    <3>. QED
      BY <3>2, <3>3, <3>4
  <2>. QED
    BY <2>1, <2>2, <2>3, StatementForms
<1>. QED
  BY <1>2

-----------------------------------------------------------------------------
(* A dump, statement by statement. *)
StatementFold == INSTANCE FoldLaws WITH Op <- RefStatement

(* The loop over the statements is one that FoldLaws is about. *)
LEMMA SameStatements ==
  \A base, s : FoldLeft(RefStatement, base, s) = StatementFold!FoldLeft(RefStatement, base, s)
BY DEF FoldLeft, StatementFold!FoldLeft, MapThenFoldSet, StatementFold!MapThenFoldSet, Max,
       StatementFold!Max

Nothing == [engine |-> NewEngine, out |-> <<>>]

(* g[k] is what the first k statements become. *)
References(g, statements) ==
  /\ g[0] = Nothing
  /\ \A k \in 1 .. Len(statements) : g[k] = RefStatement(g[k - 1], statements[k])

(* The steps of that loop. *)
LEMMA ReferencesExist ==
  ASSUME NEW S, NEW statements \in Seq(S)
  PROVE  \E g : References(g, statements) /\ Reference(statements) = g[Len(statements)]
<1>1. PICK g : /\ StatementFold!Steps(g, Nothing, statements)
               /\ StatementFold!FoldLeft(RefStatement, Nothing, statements) = g[Len(statements)]
  BY StatementFold!FoldSteps
<1>2. Reference(statements) = g[Len(statements)]
  BY <1>1, SameStatements DEF Reference, Nothing
<1>3. ASSUME NEW k \in 1 .. Len(statements)
      PROVE  g[k] = RefStatement(g[k - 1], statements[k])
  <2>1. PICK n \in Nat : n = k - 1 /\ n + 1 = k /\ n < Len(statements)
    <3>1. k - 1 \in Nat /\ (k - 1) + 1 = k /\ k - 1 < Len(statements)
      OBVIOUS
    <3>. QED
      BY <3>1
  <2>2. g[n + 1] = RefStatement(g[n], statements[n + 1])
    BY <1>1, <2>1 DEF StatementFold!Steps
  <2>. QED
    BY <2>1, <2>2
<1>4. g[0] = Nothing
  BY <1>1 DEF StatementFold!Steps
<1>. QED
  BY <1>2, <1>3, <1>4 DEF References

(* The lines of statement k; a dump that can be read statement by statement. *)
Piece(d, cut, k) == SubSeq(d.lines, cut[k - 1] + 1, cut[k])

Readable(d, cut, g) ==
  /\ IsText(d.lines) /\ IsList(d.meaning) /\ IsCut(d, cut) /\ BlocksKept(d.meaning)
  /\ References(g, d.meaning)

IsPiece(d, cut, g, k) ==
  /\ cut[k - 1] \in Nat /\ cut[k] \in Nat /\ cut[k - 1] < cut[k] /\ cut[k] <= Len(d.lines)
  /\ Len(Piece(d, cut, k)) = cut[k] - cut[k - 1]
  /\ \A i \in 1 .. cut[k] - cut[k - 1] : Piece(d, cut, k)[i] = d.lines[cut[k - 1] + i]
  /\ \E f : Meant(g[k - 1], d.meaning[k], f, g[k], Piece(d, cut, k))
  /\ IsReference(g[k]) /\ Begins(g[k - 1].out, g[k].out)

(* Each statement of such a dump is told by its lines. *)
LEMMA PieceIs ==
  ASSUME NEW d, NEW cut, NEW g, Readable(d, cut, g), NEW k \in 1 .. Len(d.meaning),
         IsReference(g[k - 1])
  PROVE  IsPiece(d, cut, g, k)
<1>1. PICK M, L \in Nat : /\ M = Len(d.meaning) /\ L = Len(d.lines)
                          /\ DOMAIN d.meaning = 1 .. M /\ DOMAIN d.lines = 1 .. L
                          /\ IsList(d.lines)
  BY ListFacts DEF Readable, IsText
<1>2. /\ cut[k - 1] \in 0 .. L /\ cut[k] \in 0 .. L /\ cut[k - 1] <= cut[k]
      /\ Says(Piece(d, cut, k), d.meaning[k])
  <2>1. k - 1 \in 0 .. M /\ k \in 0 .. M /\ k \in DOMAIN d.meaning
    BY <1>1
  <2>2. /\ cut \in [0 .. M -> 0 .. L]
        /\ cut[k - 1] <= cut[k] /\ Says(SubSeq(d.lines, cut[k - 1] + 1, cut[k]), d.meaning[k])
    BY <1>1, <2>1 DEF Readable, IsCut
  <2>. QED
    BY <2>1, <2>2 DEF Piece
<1>3. PICK b, e \in Nat : b = cut[k - 1] /\ e = cut[k] /\ b <= e /\ e <= L
  BY <1>1, <1>2
<1>4. PICK lines, st, a, r : /\ lines = Piece(d, cut, k) /\ lines = SubSeq(d.lines, b + 1, e)
                             /\ st = d.meaning[k] /\ a = g[k - 1] /\ r = g[k]
  BY <1>3 DEF Piece
<1>5. /\ IsList(lines) /\ Len(lines) = e - b
      /\ \A i \in 1 .. e - b : lines[i] = d.lines[b + i]
  <2>1. IsPart(lines, d.lines, b, e)
    BY <1>1, <1>3, <1>4, PartIs
  <2>. QED
    BY <2>1 DEF IsPart
<1>6. IsText(lines)
  <2>1. ASSUME NEW i \in 1 .. Len(lines)
        PROVE  IsList(lines[i].toks)
    <3>1. PICK j \in 1 .. L : j = b + i /\ lines[i] = d.lines[j]
      <4>1. i \in 1 .. e - b
        BY <1>5
      <4>2. b + i \in 1 .. L
        BY <1>3, <4>1
      <4>. QED
        BY <1>5, <4>1, <4>2
    <3>. QED
      BY <1>1, <3>1 DEF Readable, IsText
  <2>. QED
    BY <1>5, <2>1 DEF IsText
<1>7. st.rows \in Seq(Row)
  <2>1. CASE st = OtherStatement
    <3>1. st.rows = <<>>
      BY <2>1 DEF OtherStatement
    <3>. QED
      BY <3>1
  <2>2. CASE st.rows \in Seq(Row)
    BY <2>2
  <2>. QED
    BY <1>2, <1>4, <2>1, <2>2 DEF Says
<1>8. PICK f : RowsFrom(a, st, f) /\ RefRows(a, st) = f[Len(st.rows)]
  BY <1>7, RowsExist
<1>9. r = RefStatement(a, st)
  BY <1>1, <1>4 DEF Readable, References
<1>10. st.form = "copy" => st.table \notin Truncated
  BY <1>1, <1>4 DEF Readable, BlocksKept
<1>11. Meant(a, st, f, r, lines)
  BY <1>2, <1>4, <1>6, <1>8, <1>9, <1>10 DEF Meant, Told
<1>12. Len(lines) > 0 /\ IsReference(r) /\ Begins(a.out, r.out)
  BY <1>11, StatementGrows
<1>13. b < e
  BY <1>3, <1>5, <1>12
<1>. QED
  BY <1>1, <1>3, <1>4, <1>5, <1>11, <1>12, <1>13 DEF IsPiece

(* The reference grows statement by statement. *)
LEMMA Pieces ==
  ASSUME NEW d, NEW cut, NEW g, Readable(d, cut, g), NEW M \in Nat, M = Len(d.meaning)
  PROVE  /\ \A k \in 0 .. M : IsReference(g[k]) /\ Begins(g[k].out, g[M].out)
         /\ \A k \in 1 .. M : IsPiece(d, cut, g, k)
<1>. DEFINE Bad == {k \in Nat : k <= M /\ ~IsReference(g[k])}
            Worse(j) == {k \in Nat : j <= k /\ k <= M /\ ~Begins(g[j].out, g[k].out)}
<1>1. IsReference(g[0])
  <2>1. g[0] = [engine |-> NewEngine, out |-> <<>>]
    BY DEF Readable, References, Nothing
  <2>2. g[0].engine = NewEngine /\ g[0].out = <<>>
    BY <2>1
  <2>. QED
    BY <2>1, <2>2, ShortLists DEF IsReference
<1>2. Bad = {}
  <2>. SUFFICES ASSUME Bad # {}
                PROVE  FALSE
    OBVIOUS
  <2>1. PICK k \in Bad : \A l \in Bad : k <= l
    BY RowFold!LeastOfSet
  <2>2. k # 0
    BY <1>1, <2>1
  <2>3. k - 1 \in Nat /\ k \in 1 .. M /\ ~(k <= k - 1)
    BY <2>1, <2>2
  <2>4. IsReference(g[k - 1])
    BY <2>1, <2>3
  <2>5. IsPiece(d, cut, g, k)
    BY <2>3, <2>4, PieceIs
  <2>. QED
    BY <2>1, <2>5 DEF IsPiece
<1>3. \A k \in 0 .. M : IsReference(g[k])
  BY <1>2
<1>4. ASSUME NEW k \in 1 .. M
      PROVE  IsPiece(d, cut, g, k)
  <2>1. k - 1 \in 0 .. M
    OBVIOUS
  <2>. QED
    BY <1>3, <2>1, PieceIs
<1>5. ASSUME NEW j \in 0 .. M
      PROVE  Begins(g[j].out, g[M].out)
  <2>1. Worse(j) = {}
    <3>. SUFFICES ASSUME Worse(j) # {}
                  PROVE  FALSE
      OBVIOUS
    <3>1. PICK k \in Worse(j) : \A l \in Worse(j) : k <= l
      BY RowFold!LeastOfSet
    <3>2. \A k_1 \in 0 .. M : IsList(g[k_1].out)
      BY <1>3 DEF IsReference
    <3>3. k # j
      BY <3>1, <3>2, BeginsFacts
    <3>4. PICK l \in Nat : l = k - 1 /\ j <= l /\ l <= M /\ k \in 1 .. M /\ ~(k <= l)
      <4>1. k - 1 \in Nat /\ j <= k - 1
        BY <3>1, <3>3
      <4>. QED
        BY <3>1, <4>1
    <3>5. Begins(g[j].out, g[l].out)
      BY <3>1, <3>4
    <3>6. Begins(g[l].out, g[k].out)
      BY <1>4, <3>4 DEF IsPiece
    <3>7. l \in 0 .. M /\ k \in 0 .. M
      BY <3>4
    <3>8. Begins(g[j].out, g[k].out)
      BY <3>2, <3>5, <3>6, <3>7, BeginsFacts
    <3>. QED
      BY <3>1, <3>8
  <2>. QED
    BY <2>1
<1>. QED
  BY <1>3, <1>4, <1>5

(* The parser after c lines of the dump. *)
DumpSays(d, cut, g, p, c) ==
  \/ Gone(p, g[Len(d.meaning)])
  \/ \E k \in 0 .. Len(d.meaning) : c = cut[k] /\ Idle(p, g[k])
  \/ \E k \in 1 .. Len(d.meaning) : \E f :
       /\ cut[k - 1] < c /\ c < cut[k]
       /\ Meant(g[k - 1], d.meaning[k], f, g[k], Piece(d, cut, k))
       /\ Amid(p, g[k - 1], d.meaning[k], f, Piece(d, cut, k), c - cut[k - 1])

(* Line n of the dump, line i of the statement whose lines are b+1 .. e. *)
Numbered(b, e, j, i, n) ==
  /\ j < e - b /\ i = j + 1 /\ i \in 1 .. e - b /\ i # 0 /\ 0 < i /\ n = b + i /\ b < n
  /\ i = n - b /\ (i = e - b => n = e) /\ (i < e - b => n < e)

(* A line between b and e has such a number. *)
LEMMA LineNumbers ==
  ASSUME NEW b \in Nat, NEW e \in Nat, NEW c \in Nat, b <= c, c < e
  PROVE  \E j, i, n \in Nat : n = c + 1 /\ j = c - b /\ Numbered(b, e, j, i, n)
<1>1. PICK j \in Nat : j = c - b /\ c = b + j
  OBVIOUS
<1>2. Numbered(b, e, j, j + 1, c + 1)
  BY <1>1 DEF Numbered
<1>3. j + 1 \in Nat /\ c + 1 \in Nat
  OBVIOUS
<1>. QED
  BY <1>1, <1>2, <1>3

(* A line of statement k. *)
LEMMA PieceStep ==
  ASSUME NEW d, NEW cut, NEW g, Readable(d, cut, g), NEW k \in 1 .. Len(d.meaning), NEW f,
         Meant(g[k - 1], d.meaning[k], f, g[k], Piece(d, cut, k)),
         NEW c \in Nat, NEW p, cut[k - 1] <= c, c < cut[k],
         Midway(p, g[k - 1], d.meaning[k], f, g[k], Piece(d, cut, k), c - cut[k - 1])
  PROVE  DumpSays(d, cut, g, ReadLine(p, d.lines[c + 1]), c + 1)
<1>1. PICK M \in Nat : M = Len(d.meaning)
  BY ListFacts DEF Readable
<1>2. IsPiece(d, cut, g, k)
  BY <1>1, Pieces
<1>3. PICK b, e, j, i, n \in Nat :
        b = cut[k - 1] /\ e = cut[k] /\ n = c + 1 /\ j = c - b /\ Numbered(b, e, j, i, n)
  <2>1. PICK b, e \in Nat : b = cut[k - 1] /\ e = cut[k]
    BY <1>2 DEF IsPiece
  <2>2. b <= c /\ c < e
    BY <2>1
  <2>3. \E j, i, n \in Nat : n = c + 1 /\ j = c - b /\ Numbered(b, e, j, i, n)
    BY <2>2, LineNumbers
  <2>. QED
    BY <2>1, <2>3
<1>4. PICK lines, a, st, r :
        lines = Piece(d, cut, k) /\ a = g[k - 1] /\ st = d.meaning[k] /\ r = g[k]
  OBVIOUS
<1>5. PICK t : t = ReadLine(p, d.lines[n])
  OBVIOUS
<1>6. Len(lines) = e - b /\ lines[i] = d.lines[n]
  BY <1>3, <1>4, <1>2 DEF IsPiece, Numbered
<1>7. Midway(t, a, st, f, r, lines, i)
  <2>1. Meant(a, st, f, r, lines) /\ Midway(p, a, st, f, r, lines, j) /\ j < Len(lines)
    BY <1>3, <1>4, <1>6 DEF Numbered
  <2>2. Midway(ReadLine(p, lines[j + 1]), a, st, f, r, lines, j + 1)
    BY <2>1, StatementStep
  <2>. QED
    BY <1>5, <1>3, <1>6, <2>2 DEF Numbered
<1>8. CASE Gone(t, r)
  <2>1. IsReference(r) /\ Begins(r.out, g[M].out) /\ IsReference(g[M])
    <3>1. k \in 0 .. M /\ M \in 0 .. M
      BY <1>1
    <3>2. \A q \in 0 .. M : IsReference(g[q]) /\ Begins(g[q].out, g[M].out)
      BY <1>1, Pieces
    <3>. QED
      BY <1>4, <3>1, <3>2
  <2>2. IsList(t.out) /\ Begins(t.out, r.out) /\ IsList(r.out) /\ IsList(g[M].out)
    BY <1>8, <2>1 DEF Gone, IsReference
  <2>3. Begins(t.out, g[M].out)
    BY <2>1, <2>2, BeginsFacts
  <2>. QED
    BY <1>1, <1>5, <1>3, <1>8, <2>2, <2>3 DEF DumpSays, Gone
<1>9. CASE i = Len(lines) /\ Idle(t, r)
  <2>1. k \in 0 .. Len(d.meaning) /\ n = cut[k]
    BY <1>1, <1>3, <1>6, <1>9 DEF Numbered
  <2>. QED
    BY <1>5, <1>3, <1>4, <1>9, <2>1 DEF DumpSays
<1>10. CASE 0 < i /\ i < Len(lines) /\ Amid(t, a, st, f, lines, i)
  <2>1. cut[k - 1] < n /\ n < cut[k] /\ i = n - cut[k - 1]
    BY <1>3, <1>6, <1>10 DEF Numbered
  <2>. QED
    BY <1>1, <1>5, <1>3, <1>4, <1>10, <2>1 DEF DumpSays
<1>11. i # 0
  BY <1>3 DEF Numbered
<1>. QED
  BY <1>7, <1>8, <1>9, <1>10, <1>11 DEF Midway

(* Each line of a dump takes the parser on. *)
LEMMA DumpStep ==
  ASSUME NEW d, NEW cut, NEW g, Readable(d, cut, g), NEW c \in Nat, c < Len(d.lines),
         NEW p, DumpSays(d, cut, g, p, c)
  PROVE  DumpSays(d, cut, g, ReadLine(p, d.lines[c + 1]), c + 1)
<1>1. PICK M \in Nat : M = Len(d.meaning) /\ DOMAIN d.meaning = 1 .. M
  BY ListFacts DEF Readable
<1>2. \A k \in 1 .. M : IsPiece(d, cut, g, k)
  BY <1>1, Pieces
<1>3. CASE Gone(p, g[M])
  <2>1. ReadLine(p, d.lines[c + 1]) = p
    BY <1>3 DEF ReadLine, Gone
  <2>. QED
    BY <1>1, <1>3, <2>1 DEF DumpSays
<1>4. ASSUME NEW l \in 0 .. M, c = cut[l], Idle(p, g[l])
      PROVE  DumpSays(d, cut, g, ReadLine(p, d.lines[c + 1]), c + 1)
  <2>1. l # M
    <3>1. cut[M] = Len(d.lines)
      BY <1>1 DEF Readable, IsCut
    <3>2. Len(d.lines) \in Nat
      BY ListFacts DEF Readable, IsText
    <3>. QED
      BY <1>4, <3>1, <3>2
  <2>2. PICK k \in 1 .. M : k - 1 = l
    <3>1. l + 1 \in 1 .. M /\ (l + 1) - 1 = l
      BY <2>1
    <3>. QED
      BY <3>1
  <2>3. IsPiece(d, cut, g, k)
    BY <1>2
  <2>4. PICK f : Meant(g[k - 1], d.meaning[k], f, g[k], Piece(d, cut, k))
    BY <2>3 DEF IsPiece
  <2>5. cut[k - 1] <= c /\ c < cut[k] /\ c - cut[k - 1] = 0
    BY <1>4, <2>2, <2>3 DEF IsPiece
  <2>6. Midway(p, g[k - 1], d.meaning[k], f, g[k], Piece(d, cut, k), c - cut[k - 1])
    BY <1>4, <2>2, <2>5 DEF Midway
  <2>. QED
    BY <1>1, <2>4, <2>5, <2>6, PieceStep
<1>5. ASSUME NEW k \in 1 .. M, NEW f, cut[k - 1] < c, c < cut[k],
             Meant(g[k - 1], d.meaning[k], f, g[k], Piece(d, cut, k)),
             Amid(p, g[k - 1], d.meaning[k], f, Piece(d, cut, k), c - cut[k - 1])
      PROVE  DumpSays(d, cut, g, ReadLine(p, d.lines[c + 1]), c + 1)
  <2>1. IsPiece(d, cut, g, k)
    BY <1>2
  <2>2. cut[k - 1] <= c /\ 0 < c - cut[k - 1] /\ c - cut[k - 1] < Len(Piece(d, cut, k))
    <3>1. PICK b, e \in Nat : b = cut[k - 1] /\ e = cut[k] /\ Len(Piece(d, cut, k)) = e - b
      BY <2>1 DEF IsPiece
    <3>2. b <= c /\ 0 < c - b /\ c - b < e - b
      BY <1>5, <3>1
    <3>. QED
      BY <3>1, <3>2
  <2>3. Midway(p, g[k - 1], d.meaning[k], f, g[k], Piece(d, cut, k), c - cut[k - 1])
    BY <1>5, <2>2 DEF Midway
  <2>. QED
    BY <1>1, <1>5, <2>2, <2>3, PieceStep
<1>. QED
  BY <1>1, <1>3, <1>4, <1>5 DEF DumpSays

(* What has been written begins what the dump becomes. *)
LEMMA DumpBegins ==
  ASSUME NEW d, NEW cut, NEW g, Readable(d, cut, g), NEW c, NEW p, DumpSays(d, cut, g, p, c),
         NEW M \in Nat, M = Len(d.meaning)
  PROVE  IsList(p.out) /\ Begins(p.out, g[M].out)
<1>1. /\ \A k \in 0 .. M : IsList(g[k].out) /\ Begins(g[k].out, g[M].out)
      /\ \A k \in 1 .. M : Begins(g[k - 1].out, g[k].out)
  BY Pieces DEF IsReference, IsPiece
<1>2. CASE Gone(p, g[M])
  BY <1>2 DEF Gone
<1>3. ASSUME NEW k \in 0 .. M, Idle(p, g[k])
      PROVE  IsList(p.out) /\ Begins(p.out, g[M].out)
  BY <1>1, <1>3 DEF Idle
<1>4. ASSUME NEW k \in 1 .. M, NEW f,
             Meant(g[k - 1], d.meaning[k], f, g[k], Piece(d, cut, k)),
             Amid(p, g[k - 1], d.meaning[k], f, Piece(d, cut, k), c - cut[k - 1])
      PROVE  IsList(p.out) /\ Begins(p.out, g[M].out)
  <2>1. IsList(p.out) /\ Begins(p.out, g[k].out)
    <3>1. PICK a, st, r, lines, j : /\ a = g[k - 1] /\ st = d.meaning[k] /\ r = g[k]
                                    /\ lines = Piece(d, cut, k) /\ j = c - cut[k - 1]
      OBVIOUS
    <3>2. Meant(a, st, f, r, lines) /\ Amid(p, a, st, f, lines, j)
      BY <1>4, <3>1
    <3>3. IsList(p.out) /\ Begins(p.out, r.out)
      BY <3>2, StatementGrows
    <3>. QED
      BY <3>1, <3>3
  <2>2. k \in 0 .. M /\ M \in 0 .. M
    OBVIOUS
  <2>. QED
    BY <1>1, <2>1, <2>2, BeginsFacts
<1>. QED
  BY <1>2, <1>3, <1>4 DEF DumpSays

(* After the last line every statement has been read. *)
LEMMA DumpEnds ==
  ASSUME NEW d, NEW cut, NEW g, Readable(d, cut, g), NEW p,
         DumpSays(d, cut, g, p, Len(d.lines)), NEW M \in Nat, M = Len(d.meaning)
  PROVE  Gone(p, g[M]) \/ Idle(p, g[M])
<1>1. PICK L \in Nat : L = Len(d.lines)
  BY ListFacts DEF Readable, IsText
<1>2. /\ \A k \in 1 .. M : IsPiece(d, cut, g, k)
      /\ cut[M] = L
  BY <1>1, Pieces DEF Readable, IsCut
<1>3. \A k \in 1 .. M : /\ cut[k - 1] \in Nat /\ cut[k] \in Nat
                        /\ cut[k - 1] < cut[k] /\ cut[k] <= L
  BY <1>1, <1>2 DEF IsPiece
<1>4. ASSUME NEW k \in 0 .. M, L = cut[k]
      PROVE  k = M
  <2>. SUFFICES ASSUME k # M
                PROVE  FALSE
    OBVIOUS
  <2>1. PICK n \in 1 .. M : n - 1 = k
    <3>1. k + 1 \in 1 .. M /\ (k + 1) - 1 = k
      OBVIOUS
    <3>. QED
      BY <3>1
  <2>2. PICK b, e \in Nat : b = cut[n - 1] /\ e = cut[n] /\ b < e /\ e <= L
    BY <1>3
  <2>3. b = L
    BY <1>4, <2>1, <2>2
  <2>. QED
    BY <2>2, <2>3
<1>5. ASSUME NEW k \in 1 .. M, L < cut[k]
      PROVE  FALSE
  <2>1. PICK e \in Nat : e = cut[k] /\ e <= L
    BY <1>3
  <2>. QED
    BY <1>5, <2>1
<1>. QED
  BY <1>1, <1>4, <1>5 DEF DumpSays

(* Before the first line none has been. *)
LEMMA DumpStarts ==
  ASSUME NEW d, NEW cut, NEW g, Readable(d, cut, g)
  PROVE  DumpSays(d, cut, g, NewParser, 0)
<1>1. cut[0] = 0 /\ g[0] = Nothing /\ 0 \in 0 .. Len(d.meaning)
  <2>1. Len(d.meaning) \in Nat
    BY ListFacts DEF Readable
  <2>. QED
    BY <2>1 DEF Readable, IsCut, References
<1>2. Idle(NewParser, Nothing)
  BY DEF Idle, NewParser, Nothing, IsParser, NewEngine
<1>. QED
  BY <1>1, <1>2 DEF DumpSays

-----------------------------------------------------------------------------
(* The parser at any time. *)
Faithfully(d, cut, g, p, c, over) ==
  /\ Readable(d, cut, g)
  /\ Reference(d.meaning) = g[Len(d.meaning)]
  /\ ~over => DumpSays(d, cut, g, p, c)
  /\ over => Gone(p, g[Len(d.meaning)]) \/ Idle(p, g[Len(d.meaning)])

ParserInv ==
  /\ source \in Dumps /\ consumed \in 0 .. Len(source.lines)
  /\ SaysMeaning(source) /\ BlocksKept(source.meaning) =>
       \E cut, g : Faithfully(source, cut, g, parser, consumed, ended)

(* It holds at the start. *)
LEMMA ParserStarts ==
  ParserInit => ParserInv
<1>. SUFFICES ASSUME ParserInit
              PROVE  ParserInv
  OBVIOUS
<1>1. /\ source \in Dumps /\ consumed = 0 /\ parser = NewParser /\ ended = FALSE
      /\ IsText(source.lines)
  BY LinesAssumption DEF ParserInit, IsText, IsList
<1>2. ASSUME SaysMeaning(source), BlocksKept(source.meaning)
      PROVE  \E cut, g : Faithfully(source, cut, g, parser, consumed, ended)
  <2>1. PICK cut : IsCut(source, cut) /\ IsList(source.meaning)
    BY <1>2 DEF SaysMeaning, IsList
  <2>2. PICK g : /\ References(g, source.meaning)
                 /\ Reference(source.meaning) = g[Len(source.meaning)]
    BY <2>1, ReferencesExist DEF IsList
  <2>3. Readable(source, cut, g)
    BY <1>1, <1>2, <2>1, <2>2 DEF Readable
  <2>4. DumpSays(source, cut, g, parser, consumed)
    BY <1>1, <2>3, DumpStarts
  <2>. QED
    BY <1>1, <2>2, <2>3, <2>4 DEF Faithfully
<1>3. 0 \in 0 .. Len(source.lines)
  <2>1. Len(source.lines) \in Nat
    BY <1>1, ListFacts DEF IsText
  <2>. QED
    BY <2>1
<1>. QED
  BY <1>1, <1>2, <1>3 DEF ParserInv

(* Every step keeps it. *)
LEMMA ParserGoesOn ==
  ParserInv /\ [ParserNext]_parserVars => ParserInv'
<1>. SUFFICES ASSUME ParserInv, [ParserNext]_parserVars
              PROVE  ParserInv'
  OBVIOUS
<1>1. CASE UNCHANGED parserVars
  BY <1>1 DEF ParserInv, parserVars
<1>2. CASE ParseLine
  <2>1. PICK c \in Nat : /\ c = consumed /\ c < Len(source.lines) /\ consumed' = c + 1
                         /\ parser' = ReadLine(parser, source.lines[c + 1])
                         /\ ~ended /\ ended' = ended /\ source' = source
    BY <1>2 DEF ParseLine, ParserInv
  <2>2. c + 1 \in 0 .. Len(source.lines)
    BY <2>1 DEF ParserInv
  <2>3. ASSUME NEW cut, NEW g, Faithfully(source, cut, g, parser, consumed, ended)
        PROVE  Faithfully(source', cut, g, parser', consumed', ended')
    <3>1. Readable(source, cut, g) /\ DumpSays(source, cut, g, parser, c)
      BY <2>1, <2>3 DEF Faithfully
    <3>2. DumpSays(source, cut, g, ReadLine(parser, source.lines[c + 1]), c + 1)
      BY <2>1, <3>1, DumpStep
    <3>. QED
      BY <2>1, <2>3, <3>2 DEF Faithfully
  <2>. QED
    BY <2>1, <2>2, <2>3 DEF ParserInv
<1>3. CASE ParseEnd
  <2>1. /\ consumed = Len(source.lines) \/ parser.engine.failed
        /\ parser' = EndOfInput(parser) /\ ~ended /\ ended' /\ source' = source
        /\ consumed' = consumed
    BY <1>3 DEF ParseEnd
  <2>2. ASSUME NEW cut, NEW g, Faithfully(source, cut, g, parser, consumed, ended)
        PROVE  Faithfully(source', cut, g, parser', consumed', ended')
    <3>1. Readable(source, cut, g) /\ DumpSays(source, cut, g, parser, consumed)
      BY <2>1, <2>2 DEF Faithfully
    <3>2. PICK M \in Nat : M = Len(source.meaning)
      BY <3>1, ListFacts DEF Readable
    <3>3. Gone(parser, g[M]) \/ Idle(parser, g[M])
      <4>1. CASE consumed = Len(source.lines)
        BY <3>1, <3>2, <4>1, DumpEnds
      <4>2. CASE parser.engine.failed
        BY <3>1, <3>2, <4>2, DumpBegins DEF Gone
      <4>. QED
        BY <2>1, <4>1, <4>2
    <3>4. parser' = parser
      BY <2>1, <3>3 DEF EndOfInput, Gone, Idle
    <3>. QED
      BY <2>1, <2>2, <3>2, <3>3, <3>4 DEF Faithfully
  <2>. QED
    BY <2>1, <2>2 DEF ParserInv
<1>. QED
  BY <1>1, <1>2, <1>3 DEF ParserNext

(* It is enough. *)
LEMMA ParserIsFaithful ==
  ParserInv => (SaysMeaning(source) => Faithful)
<1>. SUFFICES ASSUME ParserInv, SaysMeaning(source), BlocksKept(source.meaning)
              PROVE  LET reference == Reference(source.meaning)
                     IN  /\ IsPrefix(parser.out, reference.out)
                         /\ ended /\ ~parser.engine.failed =>
                              parser.out = reference.out /\ parser.engine = reference.engine
  BY DEF Faithful
<1>1. PICK cut, g : Faithfully(source, cut, g, parser, consumed, ended)
  BY DEF ParserInv
<1>2. PICK M \in Nat : M = Len(source.meaning)
  BY <1>1, ListFacts DEF Faithfully, Readable
<1>3. Readable(source, cut, g) /\ Reference(source.meaning) = g[M]
  BY <1>1, <1>2 DEF Faithfully
<1>4. IsReference(g[M])
  <2>1. M \in 0 .. M
    OBVIOUS
  <2>. QED
    BY <1>2, <1>3, <2>1, Pieces
<1>5. CASE ~ended
  <2>1. IsList(parser.out) /\ Begins(parser.out, g[M].out)
    BY <1>1, <1>2, <1>3, <1>5, DumpBegins DEF Faithfully
  <2>2. IsPrefix(parser.out, g[M].out)
    BY <1>4, <2>1, BeginsFacts DEF IsReference
  <2>. QED
    BY <1>3, <1>5, <2>2
<1>6. CASE ended
  <2>1. Gone(parser, g[M]) \/ Idle(parser, g[M])
    BY <1>1, <1>2, <1>6 DEF Faithfully
  <2>2. IsList(parser.out) /\ Begins(parser.out, g[M].out)
    BY <1>4, <2>1, BeginsFacts DEF Gone, Idle, IsReference
  <2>3. IsPrefix(parser.out, g[M].out)
    BY <1>4, <2>2, BeginsFacts DEF IsReference
  <2>4. ~parser.engine.failed => parser.out = g[M].out /\ parser.engine = g[M].engine
    BY <2>1 DEF Gone, Idle
  <2>. QED
    BY <1>3, <2>3, <2>4
<1>. QED
  BY <1>5, <1>6

(* Whatever the dump says, however long its statements are and wherever the lines of an INSERT
   are broken, what has been written is the beginning of the dump with each row masked as a
   row of its table, and all of it once the input has ended (SQLDumpStreamParser,
   test_sql_parser.py). *)
THEOREM OutputIsFaithful == ParserSpec => [](SaysMeaning(source) => Faithful)
<1>1. ParserInit => ParserInv
  BY ParserStarts
<1>2. ParserInv /\ [ParserNext]_parserVars => ParserInv'
  BY ParserGoesOn
<1>3. ParserInv => (SaysMeaning(source) => Faithful)
  BY ParserIsFaithful
<1>. QED
  BY <1>1, <1>2, <1>3, PTL DEF ParserSpec

-----------------------------------------------------------------------------
(* The scan of a buffer, whatever it holds: no row is left behind what has been written,
   unless a trailing clause has begun. *)
NoneLeft(buffer, m, n, trailing) == \A j \in m + 1 .. n : IsGroup(buffer[j]) => trailing

RowsRead(st, buffer, i, s) ==
  /\ Scanner(st, buffer, s) /\ s.at \in 0 .. i
  /\ s.done \/ s.engine.failed \/ NoneLeft(buffer, s.at, i, s.trailing)

(* One more token. *)
LEMMA TokenRead ==
  ASSUME NEW st, NEW buffer, NEW i \in Nat, NEW s, RowsRead(st, buffer, i, s),
         NEW n \in Nat, n = i + 1
  PROVE  RowsRead(st, buffer, n, ScanToken(s, n))
<1>1. /\ Scanner(st, buffer, s) /\ s.at \in 0 .. i /\ s.at \in 0 .. n
      /\ s.done \/ s.engine.failed \/ NoneLeft(buffer, s.at, i, s.trailing)
  BY DEF RowsRead
<1>2. PICK t : t = ScanToken(s, n)
  OBVIOUS
<1>3. CASE s.done \/ s.engine.failed
  <2>1. t = s
    BY <1>2, <1>3 DEF ScanToken
  <2>. QED
    BY <1>1, <1>2, <1>3, <2>1 DEF RowsRead
<1>4. CASE ~s.done /\ ~s.engine.failed
  <2>1. PICK text, tail, m, yes :
          /\ text = SubSeq(buffer, s.at + 1, n - 1) /\ tail = BeginsClause(buffer, n)
          /\ m = MaskRow(s.engine, st.table, "insert", buffer[n][2]) /\ yes = TRUE
    OBVIOUS
  <2>2. TokenMade(t, st, buffer, s, n, text, tail, m, yes)
    BY <1>1, <1>2, <1>4, <2>1, TokenScanned
  <2>3. ASSUME NEW at, NEW trailing, NEW done, NEW wrote, NEW engine,
               IsScanner(t, st, buffer, at, trailing, done, wrote, engine)
        PROVE  /\ Scanner(st, buffer, t) /\ t.at = at /\ t.trailing = trailing /\ t.done = done
               /\ t.engine = engine
    BY <2>3 DEF IsScanner, Scanner
  <2>4. n \in 0 .. n /\ \A trailing : NoneLeft(buffer, n, n, trailing)
    BY DEF NoneLeft
  <2>5. CASE buffer[n] = Semi
    <3>1. Scanner(st, buffer, t) /\ t.at = n /\ t.done
      BY <2>1, <2>2, <2>3, <2>5 DEF TokenMade
    <3>. QED
      BY <1>2, <2>4, <3>1 DEF RowsRead
  <2>6. CASE buffer[n] # Semi /\ (~IsGroup(buffer[n]) \/ s.trailing)
    <3>1. t = s
      BY <2>2, <2>6 DEF TokenMade
    <3>2. NoneLeft(buffer, s.at, n, s.trailing)
      <4>1. NoneLeft(buffer, s.at, i, s.trailing)
        BY <1>1, <1>4
      <4>2. ASSUME NEW j \in s.at + 1 .. n
            PROVE  IsGroup(buffer[j]) => s.trailing
        <5>1. CASE j = n
          BY <2>6, <5>1
        <5>2. CASE j # n
          <6>1. j \in s.at + 1 .. i
            BY <1>1, <5>2
          <6>. QED
            BY <4>1, <6>1 DEF NoneLeft
        <5>. QED
          BY <5>1, <5>2
      <4>. QED
        BY <4>2 DEF NoneLeft
    <3>. QED
      BY <1>1, <1>2, <3>1, <3>2 DEF RowsRead
  <2>7. CASE buffer[n] # Semi /\ IsGroup(buffer[n]) /\ ~s.trailing /\ st.table \in Truncated
    <3>1. Scanner(st, buffer, t) /\ t.at = n
      BY <2>2, <2>3, <2>7 DEF TokenMade
    <3>. QED
      BY <1>2, <2>4, <3>1 DEF RowsRead
  <2>8. CASE /\ buffer[n] # Semi /\ IsGroup(buffer[n]) /\ ~s.trailing /\ st.table \notin Truncated
             /\ m.engine.failed
    <3>1. Scanner(st, buffer, t) /\ t.at = s.at /\ t.engine = m.engine
      BY <2>2, <2>3, <2>8 DEF TokenMade
    <3>. QED
      BY <1>1, <1>2, <2>8, <3>1 DEF RowsRead
  <2>9. CASE /\ buffer[n] # Semi /\ IsGroup(buffer[n]) /\ ~s.trailing /\ st.table \notin Truncated
             /\ ~m.engine.failed
    <3>1. Scanner(st, buffer, t) /\ t.at = n
      BY <2>2, <2>3, <2>9 DEF TokenMade
    <3>. QED
      BY <1>2, <2>4, <3>1 DEF RowsRead
  <2>. QED
    BY <2>5, <2>6, <2>7, <2>8, <2>9
<1>. QED
  BY <1>3, <1>4

(* So it is for all tokens of a buffer. *)
LEMMA BufferRead ==
  ASSUME NEW st, NEW buffer, IsList(buffer), NEW s, RowsRead(st, buffer, 0, s)
  PROVE  RowsRead(st, buffer, Len(buffer), FoldLeftDomain(ScanToken, s, buffer))
<1>1. PICK N \in Nat : N = Len(buffer)
  BY ListFacts
<1>2. PICK g : /\ g[0] = s
               /\ \A n \in Nat : n < Len(buffer) => g[n + 1] = ScanToken(g[n], n + 1)
               /\ FoldLeftDomain(ScanToken, s, buffer) = g[Len(buffer)]
  BY ScanSteps DEF IsList
<1>3. /\ g[0] = s
      /\ \A n \in Nat : n < N => g[n + 1] = ScanToken(g[n], n + 1)
      /\ FoldLeftDomain(ScanToken, s, buffer) = g[N]
  BY <1>1, <1>2
<1>. DEFINE Good(i) == RowsRead(st, buffer, i, g[i])
            Bad == {i \in Nat : i <= N /\ ~Good(i)}
<1>4. Bad = {}
  <2>. SUFFICES ASSUME Bad # {}
                PROVE  FALSE
    OBVIOUS
  <2>1. PICK i \in Bad : \A l \in Bad : i <= l
    BY RowFold!LeastOfSet
  <2>2. i # 0
    BY <1>3, <2>1
  <2>. HIDE DEF Good
  <2>3. PICK l \in Nat : i = l + 1 /\ l < N /\ l <= N /\ ~(i <= l) /\ i \in Nat
    <3>1. i - 1 \in Nat /\ i = (i - 1) + 1
      BY <2>1, <2>2
    <3>. QED
      BY <2>1, <3>1
  <2>4. Good(l)
    BY <2>1, <2>3
  <2>5. PICK t : t = g[l] /\ g[i] = ScanToken(t, i)
    BY <1>3, <2>3
  <2>6. RowsRead(st, buffer, l, t)
    BY <2>4, <2>5 DEF Good
  <2>7. RowsRead(st, buffer, i, ScanToken(t, i))
    BY <2>3, <2>6, TokenRead
  <2>. QED
    BY <2>1, <2>5, <2>7 DEF Good
<1>5. Good(N)
  <2>. HIDE DEF Good
  <2>. QED
    BY <1>4
<1>. QED
  BY <1>1, <1>3, <1>5

(* A parser that holds no row back. *)
NothingHeld(p) ==
  /\ IsParser(p) /\ IsList(p.buffer)
  /\ p.engine.failed \/ \A i \in DOMAIN p.buffer : IsGroup(p.buffer[i]) => p.trailing

(* The scan leaves such a parser. *)
LEMMA ScanHoldsNothing ==
  ASSUME NEW p, IsParser(p), IsList(p.buffer), ~p.engine.failed
  PROVE  NothingHeld(ScanInsert(p))
<1>1. PICK st, buffer, s, z, no : /\ st = [table |-> p.insert] /\ buffer = p.buffer
                                  /\ z = 0 /\ no = FALSE
                                  /\ s = [table |-> p.insert, buffer |-> p.buffer, out |-> p.out,
                                          engine |-> p.engine, trailing |-> p.trailing,
                                          at |-> z, done |-> no]
  OBVIOUS
<1>2. Scanner(st, buffer, s) /\ s.at = z
  BY <1>1 DEF Scanner
<1>3. RowsRead(st, buffer, 0, s)
  <2>1. \A trailing : NoneLeft(buffer, 0, 0, trailing)
    BY DEF NoneLeft
  <2>. QED
    BY <1>1, <1>2, <2>1 DEF RowsRead
<1>4. PICK N \in Nat : N = Len(buffer) /\ IsList(buffer)
  BY <1>1, ListFacts
<1>5. PICK e : e = FoldLeftDomain(ScanToken, s, buffer) /\ RowsRead(st, buffer, N, e)
  BY <1>3, <1>4, BufferRead
<1>6. PICK t : t = AfterScan(p, e) /\ t = ScanInsert(p)
  BY <1>1, <1>5 DEF ScanInsert
<1>7. IsKept(t, p, e)
  BY <1>6, ScanKept
<1>8. CASE e.done
  <2>1. IsParser(t) /\ t.buffer = <<>>
    BY <1>7, <1>8 DEF IsKept
  <2>2. IsList(<<>>) /\ DOMAIN <<>> = {}
    BY ShortLists
  <2>. QED
    BY <1>6, <2>1, <2>2 DEF NothingHeld
<1>9. CASE ~e.done
  <2>1. /\ IsParser(t) /\ t.engine = e.engine /\ t.buffer = Unread(buffer, e.at)
        /\ t.trailing = e.trailing
    BY <1>1, <1>7, <1>9 DEF IsKept
  <2>2. PICK m \in Nat : m = e.at /\ m <= N
    <3>1. e.at \in 0 .. N
      BY <1>5 DEF RowsRead
    <3>. QED
      BY <3>1
  <2>3. PICK part : part = t.buffer /\ part = SubSeq(buffer, m + 1, N)
    BY <1>4, <2>1, <2>2 DEF Unread
  <2>4. IsPart(part, buffer, m, N)
    <3>1. N <= Len(buffer)
      BY <1>4
    <3>. QED
      BY <1>4, <2>2, <2>3, <3>1, PartIs
  <2>5. PICK d \in Nat : d = N - m
    BY <2>2
  <2>6. /\ IsList(t.buffer) /\ DOMAIN t.buffer = 1 .. d
        /\ \A k \in 1 .. d : t.buffer[k] = buffer[m + k]
    BY <2>3, <2>4, <2>5, ListFacts DEF IsPart
  <2>7. ASSUME ~t.engine.failed, NEW k \in DOMAIN t.buffer, IsGroup(t.buffer[k])
        PROVE  t.trailing
    <3>1. NoneLeft(buffer, m, N, e.trailing)
      BY <1>5, <1>9, <2>1, <2>2, <2>7 DEF RowsRead
    <3>2. PICK j : j = m + k /\ j \in m + 1 .. N
      <4>1. k \in 1 .. d
        BY <2>6
      <4>. QED
        BY <2>5, <4>1
    <3>3. IsGroup(buffer[j])
      BY <2>6, <2>7, <3>2
    <3>. QED
      BY <2>1, <3>1, <3>2, <3>3 DEF NoneLeft
  <2>. QED
    BY <1>6, <2>1, <2>6, <2>7 DEF NothingHeld
<1>. QED
  BY <1>8, <1>9

(* What is held back is decided by these fields. *)
LEMMA HeldAlike ==
  ASSUME NEW p, NothingHeld(p), ~p.engine.failed, NEW t, IsParser(t),
         t.buffer = p.buffer, t.trailing = p.trailing
  PROVE  NothingHeld(t)
BY DEF NothingHeld

(* Each line leaves nothing behind. *)
LEMMA LineHoldsNothing ==
  ASSUME NEW p, NothingHeld(p), NEW l, IsList(l.toks)
  PROVE  NothingHeld(ReadLine(p, l))
<1>. SUFFICES ASSUME ~p.engine.failed
              PROVE  NothingHeld(ReadLine(p, l))
  BY DEF ReadLine
<1>1. PICK copy, insert, buffer, trailing, wrote, engine :
        /\ copy = p.copy /\ insert = p.insert /\ buffer = p.buffer /\ trailing = p.trailing
        /\ wrote = p.out /\ engine = p.engine /\ IsList(buffer)
        /\ ParserIs(p, copy, insert, buffer, trailing, wrote, engine)
  BY FieldsOfParser DEF NothingHeld
<1>2. PICK t : t = ReadLine(p, l)
  OBVIOUS
<1>3. ASSUME NEW c, NEW o, NEW e, ParserIs(t, c, insert, buffer, trailing, o, e)
      PROVE  NothingHeld(t)
  <2>1. IsParser(t) /\ t.buffer = p.buffer /\ t.trailing = p.trailing
    BY <1>1, <1>3, ParserFields
  <2>. QED
    BY <2>1, HeldAlike
<1>4. CASE p.copy # NoTable /\ l.kind = "end"
  <2>1. PICK none, u : /\ none = NoTable
                       /\ u = IF p.copy \in Truncated THEN p.out ELSE Append(p.out, EndOfCopy)
    OBVIOUS
  <2>2. PICK x : x = [p EXCEPT !.copy = none]
    OBVIOUS
  <2>3. t = [x EXCEPT !.out = u]
    <3>1. t = [p EXCEPT !.copy = none, !.out = u]
      BY <1>1, <1>2, <1>4, <2>1 DEF ReadLine, EndCopy
    <3>. QED
      BY <2>2, <3>1
  <2>4. ParserIs(x, none, insert, buffer, trailing, wrote, engine)
    BY <1>1, <2>2, ParserSet
  <2>5. ParserIs(t, none, insert, buffer, trailing, u, engine)
    BY <2>3, <2>4, ParserSet
  <2>. QED
    BY <1>2, <1>3, <2>5
<1>5. CASE p.copy # NoTable /\ l.kind # "end"
  <2>1. PICK m : m = MaskRow(p.engine, p.copy, "copy", l.toks[1][2])
    OBVIOUS
  <2>2. PICK w, u : w = m.engine /\ u = Append(p.out, m.item)
    OBVIOUS
  <2>3. PICK x : x = [p EXCEPT !.engine = w]
    OBVIOUS
  <2>4. t = p \/ t = x \/ t = [x EXCEPT !.out = u]
    <3>1. t = p \/ t = x \/ t = [p EXCEPT !.engine = w, !.out = u]
      BY <1>1, <1>2, <1>5, <2>1, <2>2, <2>3 DEF ReadLine, CopyRow
    <3>. QED
      BY <2>3, <3>1
  <2>5. ParserIs(x, copy, insert, buffer, trailing, wrote, w)
    BY <1>1, <2>3, ParserSet
  <2>6. t = [x EXCEPT !.out = u] => ParserIs(t, copy, insert, buffer, trailing, u, w)
    BY <2>5, ParserSet
  <2>. QED
    BY <1>1, <1>2, <1>3, <2>4, <2>5, <2>6
<1>6. CASE p.copy = NoTable /\ l.kind = "copy"
  <2>1. PICK table, u : table = l.table /\ u = Append(p.out, CopyFrom(l.table))
    OBVIOUS
  <2>2. PICK x : x = [p EXCEPT !.copy = table]
    OBVIOUS
  <2>3. t = [x EXCEPT !.out = u]
    <3>1. t = [p EXCEPT !.copy = table, !.out = u]
      BY <1>1, <1>2, <1>6, <2>1 DEF ReadLine, BeginCopy
    <3>. QED
      BY <2>2, <3>1
  <2>4. ParserIs(x, table, insert, buffer, trailing, wrote, engine)
    BY <1>1, <2>2, ParserSet
  <2>5. ParserIs(t, table, insert, buffer, trailing, u, engine)
    BY <2>3, <2>4, ParserSet
  <2>. QED
    BY <1>2, <1>3, <2>5
<1>7. CASE p.copy = NoTable /\ l.kind # "copy" /\ p.insert # NoTable
  <2>1. PICK u : u = p.buffer \o l.toks
    OBVIOUS
  <2>2. PICK q : q = [p EXCEPT !.buffer = u]
    OBVIOUS
  <2>3. t = ScanInsert(q)
    BY <1>1, <1>2, <1>7, <2>1, <2>2 DEF ReadLine, ContinueInsert
  <2>4. ParserIs(q, copy, insert, u, trailing, wrote, engine)
    BY <1>1, <2>2, ParserSet
  <2>5. IsParser(q) /\ q.buffer = u /\ q.engine = p.engine
    BY <1>1, <2>4, ParserFields
  <2>6. IsList(u)
    BY <1>1, <2>1, Joins
  <2>. QED
    BY <1>2, <2>3, <2>5, <2>6, ScanHoldsNothing
<1>8. CASE p.copy = NoTable /\ l.kind # "copy" /\ p.insert = NoTable /\ l.kind = "insert"
  <2>1. PICK table, toks, no, u :
          /\ table = l.table /\ toks = l.toks /\ no = FALSE
          /\ u = IF l.table \in Truncated THEN p.out ELSE Append(p.out, InsertInto(l.table))
    OBVIOUS
  <2>2. PICK x, y, z, q :
          /\ x = [p EXCEPT !.insert = table] /\ y = [x EXCEPT !.buffer = toks]
          /\ z = [y EXCEPT !.trailing = no] /\ q = [z EXCEPT !.out = u]
    OBVIOUS
  <2>3. t = ScanInsert(q)
    <3>1. q = [p EXCEPT !.insert = table, !.buffer = toks, !.trailing = no, !.out = u]
      BY <2>2
    <3>. QED
      BY <1>1, <1>2, <1>8, <2>1, <3>1 DEF ReadLine, BeginInsert
  <2>4. ParserIs(x, copy, table, buffer, trailing, wrote, engine)
    BY <1>1, <2>2, ParserSet
  <2>5. ParserIs(y, copy, table, toks, trailing, wrote, engine)
    BY <2>2, <2>4, ParserSet
  <2>6. ParserIs(z, copy, table, toks, no, wrote, engine)
    BY <2>2, <2>5, ParserSet
  <2>7. ParserIs(q, copy, table, toks, no, u, engine)
    BY <2>2, <2>6, ParserSet
  <2>8. IsParser(q) /\ q.buffer = toks /\ q.engine = p.engine
    BY <1>1, <2>7, ParserFields
  <2>. QED
    BY <1>2, <2>1, <2>3, <2>8, ScanHoldsNothing
<1>9. CASE p.copy = NoTable /\ l.kind # "copy" /\ p.insert = NoTable /\ l.kind # "insert"
  <2>1. PICK u : u = p.out \o l.toks
    OBVIOUS
  <2>2. t = [p EXCEPT !.out = u]
    BY <1>2, <1>9, <2>1 DEF ReadLine
  <2>3. ParserIs(t, copy, insert, buffer, trailing, u, engine)
    BY <1>1, <2>2, ParserSet
  <2>. QED
    BY <1>2, <1>3, <2>3
<1>. QED
  BY <1>4, <1>5, <1>6, <1>7, <1>8, <1>9

(* Nor does the end of the input. *)
LEMMA EndHoldsNothing ==
  ASSUME NEW p, NothingHeld(p)
  PROVE  NothingHeld(EndOfInput(p))
<1>1. CASE p.engine.failed \/ p.insert = NoTable \/ p.insert \in Truncated
  BY <1>1 DEF EndOfInput
<1>2. CASE ~(p.engine.failed \/ p.insert = NoTable \/ p.insert \in Truncated)
  <2>1. PICK copy, insert, buffer, trailing, wrote, engine :
          /\ buffer = p.buffer /\ trailing = p.trailing
          /\ ParserIs(p, copy, insert, buffer, trailing, wrote, engine)
    BY FieldsOfParser DEF NothingHeld
  <2>2. PICK u, t : u = p.out \o p.buffer /\ t = EndOfInput(p)
    OBVIOUS
  <2>3. t = [p EXCEPT !.out = u]
    BY <1>2, <2>2 DEF EndOfInput
  <2>4. ParserIs(t, copy, insert, buffer, trailing, u, engine)
    BY <2>1, <2>3, ParserSet
  <2>5. IsParser(t) /\ t.buffer = p.buffer /\ t.trailing = p.trailing
    BY <2>1, <2>4, ParserFields
  <2>. QED
    BY <1>2, <2>2, <2>5, HeldAlike
<1>. QED
  BY <1>1, <1>2

(* Whatever the lines hold, and wherever they are broken, every row of a line that has been
   read has been written, unless masking one has raised; only the text of a trailing clause is
   kept for the next line (_process_insert_buffer). *)
THEOREM NoRowWaits == ParserSpec => []RowsWrittenAtOnce
<1>. DEFINE HeldInv == /\ source \in Dumps /\ consumed \in Nat /\ NothingHeld(parser)
<1>1. ParserInit => HeldInv
  <2>1. IsParser(NewParser) /\ NewParser.buffer = <<>> /\ IsList(<<>>) /\ DOMAIN <<>> = {}
    BY ShortLists DEF NewParser, IsParser
  <2>. QED
    BY <2>1 DEF ParserInit, NothingHeld
<1>2. HeldInv /\ [ParserNext]_parserVars => HeldInv'
  <2>. SUFFICES ASSUME HeldInv, [ParserNext]_parserVars
                PROVE  HeldInv'
    OBVIOUS
  <2>1. CASE UNCHANGED parserVars
    BY <2>1 DEF parserVars
  <2>2. CASE ParseLine
    <3>1. PICK l : l = source.lines[consumed + 1]
      OBVIOUS
    <3>2. IsList(l.toks)
      <4>1. /\ source.lines \in Seq(ToSet(source.lines))
            /\ \A k \in ToSet(source.lines) : k.toks \in Seq(ToSet(k.toks))
        BY LinesAssumption
      <4>2. PICK n \in 1 .. Len(source.lines) : n = consumed + 1
        BY <2>2, <4>1 DEF ParseLine
      <4>3. l \in ToSet(source.lines)
        BY <3>1, <4>1, <4>2
      <4>. QED
        BY <4>1, <4>3 DEF IsList
    <3>3. /\ parser' = ReadLine(parser, l) /\ source' = source /\ consumed' \in Nat
      BY <2>2, <3>1 DEF ParseLine
    <3>. QED
      BY <3>2, <3>3, LineHoldsNothing
  <2>3. CASE ParseEnd
    BY <2>3, EndHoldsNothing DEF ParseEnd
  <2>. QED
    BY <2>1, <2>2, <2>3 DEF ParserNext
<1>3. HeldInv => RowsWrittenAtOnce
  BY DEF NothingHeld, RowsWrittenAtOnce
<1>. QED
  BY <1>1, <1>2, <1>3, PTL DEF ParserSpec

(* The parser that has read all lines of a dump. *)
LEMMA ParsedDump ==
  ASSUME NEW d \in Dumps, NEW cut, NEW g, Readable(d, cut, g)
  PROVE  DumpSays(d, cut, g, Parsing(d.lines), Len(d.lines))
<1>1. PICK lines \in Seq(Line), L \in Nat : lines = d.lines /\ L = Len(lines)
  <2>1. d.lines \in Seq(Line) /\ Len(d.lines) \in Nat
    BY DumpLines
  <2>. QED
    BY <2>1
<1>. DEFINE Good(i) == DumpSays(d, cut, g, Parsing(SubSeq(lines, 1, i)), i)
            Bad == {i \in Nat : i <= L /\ ~Good(i)}
<1>2. Good(0)
  <2>1. SubSeq(lines, 1, 0) = <<>>
    BY <1>1, FirstLines
  <2>2. Parsing(<<>>) = NewParser
    BY ParsingSteps
  <2>3. DumpSays(d, cut, g, NewParser, 0)
    BY DumpStarts
  <2>. QED
    BY <2>1, <2>2, <2>3
<1>3. ASSUME NEW i \in Nat, i < L, Good(i)
      PROVE  Good(i + 1)
  <2>1. i \in 0 .. Len(lines) /\ i < Len(lines) /\ i + 1 \in 1 .. Len(lines)
    BY <1>1, <1>3
  <2>2. PICK s \in Seq(Line) :
          s = SubSeq(lines, 1, i) /\ SubSeq(lines, 1, i + 1) = Append(s, lines[i + 1])
    <3>1. SubSeq(lines, 1, i) \in Seq(Line)
      BY <1>1, <2>1, FirstLines
    <3>2. SubSeq(lines, 1, i + 1) = Append(SubSeq(lines, 1, i), lines[i + 1])
      BY <1>1, <2>1, FirstLines
    <3>. QED
      BY <3>1, <3>2
  <2>3. lines[i + 1] \in Line
    BY <2>1
  <2>4. Parsing(SubSeq(lines, 1, i + 1)) = ReadLine(Parsing(s), lines[i + 1])
    BY <2>2, <2>3, ParsingSteps
  <2>5. DumpSays(d, cut, g, ReadLine(Parsing(s), d.lines[i + 1]), i + 1)
    BY <1>1, <1>3, <2>2, DumpStep
  <2>. QED
    BY <1>1, <2>4, <2>5
<1>. HIDE DEF Good
<1>4. Bad = {}
  <2>. SUFFICES ASSUME Bad # {}
                PROVE  FALSE
    OBVIOUS
  <2>1. PICK i \in Bad : \A l \in Bad : i <= l
    BY RowFold!LeastOfSet
  <2>2. i # 0
    BY <1>2, <2>1
  <2>3. PICK l \in Nat : i = l + 1 /\ l < L /\ l <= L /\ ~(i <= l)
    <3>1. i - 1 \in Nat /\ i = (i - 1) + 1
      BY <2>1, <2>2
    <3>. QED
      BY <2>1, <3>1
  <2>4. Good(l)
    BY <2>1, <2>3
  <2>. QED
    BY <1>3, <2>1, <2>3, <2>4
<1>5. Good(L)
  BY <1>4
<1>6. SubSeq(lines, 1, L) = lines
  BY <1>1, FirstLines
<1>. QED
  BY <1>1, <1>5, <1>6 DEF Good

(* The result of reading all of it is the reference, unless a row could not be masked. *)
LEMMA ParseIsReference ==
  ASSUME NEW d \in Dumps, SaysMeaning(d), BlocksKept(d.meaning), ~Parse(d.lines).engine.failed
  PROVE  /\ Parse(d.lines).out = Reference(d.meaning).out
         /\ Parse(d.lines).engine = Reference(d.meaning).engine
<1>1. PICK cut : IsCut(d, cut) /\ IsList(d.meaning)
  BY DEF SaysMeaning, IsList
<1>2. PICK g : References(g, d.meaning) /\ Reference(d.meaning) = g[Len(d.meaning)]
  BY <1>1, ReferencesExist DEF IsList
<1>3. Readable(d, cut, g)
  <2>1. IsText(d.lines)
    BY LinesAssumption DEF IsText, IsList
  <2>. QED
    BY <1>1, <1>2, <2>1 DEF Readable
<1>4. PICK M \in Nat : M = Len(d.meaning)
  BY <1>1, ListFacts
<1>5. PICK p : p = Parsing(d.lines)
  OBVIOUS
<1>6. Gone(p, g[M]) \/ Idle(p, g[M])
  BY <1>3, <1>4, <1>5, ParsedDump, DumpEnds
<1>7. Parse(d.lines) = p
  <2>1. EndOfInput(p) = p
    BY <1>6 DEF EndOfInput, Gone, Idle
  <2>. QED
    BY <1>5, <2>1 DEF Parse, Parsing
<1>. QED
  BY <1>2, <1>4, <1>6, <1>7 DEF Gone, Idle
=============================================================================
