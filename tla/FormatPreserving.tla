-------------------------- MODULE FormatPreserving --------------------------
(***************************************************************************)
(* Format-preserving encryption (strategies/fpe.py): a Feistel network on  *)
(* strings over the first `radix` characters, and the strategies that      *)
(* encrypt the digits or letters of a value and put them back in place.    *)
(***************************************************************************)
EXTENDS Checksums, FiniteSetsExt

CONSTANTS
  Prf(_, _, _, _),   \* HMAC of the round number and a half, by key and tweak
  Shift(_, _, _)     \* HMAC of a single character, by key and tweak

(* HMACs are read as natural numbers. *)
HmacNatural ==
  \A key \in {"fpe", "card", "phone", "id", "email"}, tweak, i, x \in Nat :
    Prf(key, tweak, i, x) \in Nat /\ Shift(key, tweak, x) \in Nat

(* What the code raises, a KeyError, in place of a result. *)
Failed == <<-1>>

Times(x, y) == x * y
Power(radix, n) == FoldLeft(Times, 1, [i \in 1..n |-> radix])

AddPlace(a, c) == [radix |-> a.radix, num |-> a.num * a.radix + c]
Number(radix, s) == FoldLeft(AddPlace, [radix |-> radix, num |-> 0], s).num

Numeral(radix, n, len) == [i \in 1..len |-> (n \div Power(radix, len - i)) % radix]

(* One round; h has the numbers a and b of the two halves, u and v digits long,
   and what they are encrypted with. *)

(* Mutant: the moduli of the two halves are swapped. *)
RoundSwapped(h, r) ==
  [h EXCEPT !.a = h.b,
            !.b = (h.a + Prf(h.key, h.tweak, r, h.b)) % Power(h.radix, IF r % 2 = 0 THEN h.v ELSE h.u)]

Round(h, r) ==
  [h EXCEPT !.a = h.b,
            !.b = (h.a + Prf(h.key, h.tweak, r, h.b)) % Power(h.radix, IF r % 2 = 0 THEN h.u ELSE h.v)]

Halves(key, tweak, radix, s) ==
  LET u == Len(s) \div 2 IN
  [key |-> key, tweak |-> tweak, radix |-> radix, u |-> u, v |-> Len(s) - u,
   a |-> Number(radix, SubSeq(s, 1, u)), b |-> Number(radix, SubSeq(s, u + 1, Len(s)))]

(* FeistelFPE.encrypt, at least four rounds; after an odd number of rounds the
   halves are written with each other's length. *)
Encrypt(key, tweak, radix, rounds, s) ==
  LET n     == Len(s)
      times == Max({4, rounds})
      last  == FoldLeft(Round, Halves(key, tweak, radix, s), [r \in 1..times |-> r - 1])
  IN CASE n = 0 -> s
       [] n = 1 -> <<(s[1] + Shift(key, tweak, s[1])) % radix>>
       [] n > 1 /\ times % 2 = 0 -> Numeral(radix, last.a, last.u) \o Numeral(radix, last.b, last.v)
       [] n > 1 /\ times % 2 = 1 -> Numeral(radix, last.b, last.v) \o Numeral(radix, last.a, last.u)

(* Mutant: the characters are put at the front. *)
SpreadInFront(s, set, t) == [i \in DOMAIN s |-> IF i <= Len(t) THEN t[i] ELSE s[i]]

(* The characters of t in the places of those of s that are in set. *)
Spread(s, set, t) ==
  [i \in DOMAIN s |->
     LET k == Cardinality({j \in 1..i : s[j] \in set}) IN
     IF s[i] \in set /\ k <= Len(t) THEN t[k] ELSE s[i]]

(* FPEStrategy; p has radix, rounds and preserve_format. *)
Fpe(p, s) ==
  LET set == 0..(p.radix - 1)
      inside == Inside(s, set)
  IN CASE p.preserve -> Spread(s, set, Encrypt("fpe", 0, p.radix, p.rounds, inside))
       [] ~p.preserve /\ inside = s -> Encrypt("fpe", 0, p.radix, p.rounds, s)
       [] ~p.preserve /\ inside # s -> IF Len(s) = 1 THEN s ELSE Failed

PlainFpe(radix, s) == Fpe([radix |-> radix, rounds |-> 10, preserve |-> TRUE], s)

CardPrefix(p, n) == Max({1, Min({p.prefix, n - 6})})
CardSuffix(p, n) == Max({0, Min({p.suffix, n - CardPrefix(p, n) - 2})})

(* FPECreditCardStrategy: with a check digit nothing else of the suffix is kept. *)
FpeCard(p, s) ==
  LET d      == DigitsOf(s)
      n      == Len(d)
      prefix == CardPrefix(p, n)
      suffix == CardSuffix(p, n)
      middle == SubSeq(d, prefix + 1, n - (IF p.luhn THEN 1 ELSE suffix))
      start  == SubSeq(d, 1, prefix) \o Encrypt("card", prefix, 10, 8, middle)
      final  == start \o (IF p.luhn THEN <<LuhnDigit(start)>> ELSE SubSeq(d, n - suffix + 1, n))
  IN CASE n < 12 -> PlainFpe(10, s)
       [] n >= 12 /\ p.delimiters -> Spread(s, Digits, final)
       [] n >= 12 /\ ~p.delimiters -> final

(* It begins with a +, but for spaces. *)
International(s) == \E i \in DOMAIN s : s[i] = Plus /\ \A j \in 1..(i - 1) : s[j] = Space

PhonePrefix(p, s) ==
  LET n == Len(DigitsOf(s)) IN
  IF p.country /\ International(s)
  THEN IF n >= 11 THEN n - 10 ELSE 1
  ELSE IF p.digits > 0 THEN Min({p.digits, n - 2}) ELSE 0

FpePhone(p, s) ==
  LET d      == DigitsOf(s)
      prefix == PhonePrefix(p, s)
  IN IF Len(d) < 4 THEN s
     ELSE Spread(s, Digits, SubSeq(d, 1, prefix)
                   \o Encrypt("phone", prefix, 10, 8, SubSeq(d, prefix + 1, Len(d))))

(* No national identity number begins with 0. *)
NonZeroFirst(d) ==
  IF d[1] # 0 THEN d ELSE <<1 + (Shift("id", 0, Number(10, d)) % 9)>> \o Tail(d)

IsTckn(p, s) ==
  /\ Len(DigitsOf(s)) = 11
  /\ p.type = "tckn" \/ (p.type = "auto" /\ ToSet(s) \cap {Dash, Dot, Slash} = {})

IsSsn(p, s) == Len(DigitsOf(s)) = 9 /\ p.type \in {"ssn", "auto"}

(* FPENationalIDStrategy on what is left of a value without the spaces around it. *)
NationalId(p, s) ==
  LET d    == DigitsOf(s)
      nine == Encrypt("id", Len(d), 10, 8, SubSeq(d, 1, 9))
      id   == NonZeroFirst(nine)
  IN CASE IsTckn(p, s) -> id \o (IF p.validate THEN TcknDigits(id) ELSE SubSeq(d, 10, 11))
       [] IsSsn(p, s) ->
            IF Dash \in ToSet(s) /\ Len(s) = 11
            THEN SubSeq(nine, 1, 3) \o <<Dash>> \o SubSeq(nine, 4, 5) \o <<Dash>> \o SubSeq(nine, 6, 9)
            ELSE nine
       [] ~IsTckn(p, s) /\ ~IsSsn(p, s) -> PlainFpe(10, s)

FpeNationalId(p, s) == NationalId(p, Strip(s))

Lower(s) == [i \in DOMAIN s |-> IF s[i] \in Upper THEN s[i] - 26 ELSE s[i]]

(* FPEEmailStrategy on an address, its two parts. *)
FpeEmail(p, x) ==
  LET local  == StripLeft(x.local)
      inside == Inside(local, Alphanumeric)
      spread == Spread(local, Alphanumeric, Encrypt("email", x.domain, 62, 8, inside))
  IN IF local = <<>> THEN [x EXCEPT !.local = local]
     ELSE [local  |-> IF inside = <<>> THEN local ELSE Lower(spread),
           domain |-> IF p.domain THEN x.domain ELSE 0]
=============================================================================
