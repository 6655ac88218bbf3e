------------------------------ MODULE Checksums -----------------------------
(***************************************************************************)
(* Check digits (utils/checksums.py, strategies/fpe.py) and the characters *)
(* of values.  A character is its index in ALPHANUMERIC, digits, lower     *)
(* case, upper case, and the punctuation the code looks at has the numbers *)
(* after these.                                                            *)
(***************************************************************************)
EXTENDS Integers, FiniteSets, SequencesExt

Digits == 0..9
Upper == 36..61
Alphanumeric == 0..61
Dash == 62
Plus == 63
Dot == 64
Space == 65
Slash == 67

(* str.strip, of which an address only sees the left side. *)
Leading(s) == Cardinality({i \in DOMAIN s : \A j \in 1..i : s[j] = Space})
Trailing(s) == Cardinality({i \in DOMAIN s : \A j \in i..Len(s) : s[j] = Space})
StripLeft(s) == SubSeq(s, Leading(s) + 1, Len(s))
Strip(s) == SubSeq(s, Leading(s) + 1, Len(s) - Trailing(s))

(* The characters of s that are in set, in their order. *)
Chosen(a, c) == IF c \in a.set THEN [set |-> a.set, kept |-> Append(a.kept, c)] ELSE a
Inside(s, set) == FoldLeft(Chosen, [set |-> set, kept |-> <<>>], s).kept

DigitsOf(s) == Inside(s, Digits)

Added(x, y) == x + y
Total(s) == FoldLeft(Added, 0, s)

(* Every second digit from the right is doubled, nines cast out. *)
LuhnWeights(s) ==
  [i \in DOMAIN s |->
     IF (Len(s) - i) % 2 = 0 THEN s[i]
     ELSE IF s[i] > 4 THEN 2 * s[i] - 9 ELSE 2 * s[i]]

LuhnSum(s) == Total(LuhnWeights(s))

(* Mutant: the sum is taken before there is room for the check digit. *)
LuhnDigitTooEarly(s) == (10 - (LuhnSum(s) % 10)) % 10

LuhnDigit(s) == (10 - (LuhnSum(Append(s, 0)) % 10)) % 10

ValidLuhn(s) ==
  LET d == DigitsOf(s) IN Len(d) \in 8..19 /\ LuhnSum(d) % 10 = 0

TcknDigits(d) ==
  LET odd  == d[1] + d[3] + d[5] + d[7] + d[9]
      even == d[2] + d[4] + d[6] + d[8]
      d10  == (odd * 7 - even) % 10
  IN <<d10, (odd + even + d10) % 10>>

ValidTckn(s) ==
  LET d == DigitsOf(s) IN
  Len(d) = 11 /\ d[1] # 0 /\ TcknDigits(SubSeq(d, 1, 9)) = SubSeq(d, 10, 11)
=============================================================================
