--------------------------- MODULE MCColumnMasking --------------------------
(***************************************************************************)
(* Small alphabets, so that all strings of a length can be tried, and the  *)
(* real ones for cards, phones and identity numbers.                       *)
(***************************************************************************)
EXTENDS ColumnMasking, TLC

KeyNumber == [fpe |-> 3, card |-> 5, phone |-> 11, id |-> 13, email |-> 17]

MCPrf(key, tweak, r, b) ==
  LET x == b % 997 IN 3 * x * x + x * (KeyNumber[key] + r) + (b \div 997) + 31 * r * r + 7 * tweak
MCShift(key, tweak, x) == (x % 997) * (x % 997) + KeyNumber[key] + tweak

FpeRule(radix, rounds, preserve) ==
  [strategy |-> "fpe", radix |-> radix, rounds |-> rounds, preserve |-> preserve]
CardRule(prefix, suffix, luhn, delimiters) ==
  [strategy |-> "fpe_credit_card", prefix |-> prefix, suffix |-> suffix, luhn |-> luhn,
   delimiters |-> delimiters]
PhoneRule(country, digits) == [strategy |-> "fpe_phone", country |-> country, digits |-> digits]
IdRule(type, validate) == [strategy |-> "fpe_national_id", type |-> type, validate |-> validate]
JitterRule(uniform, min, max, decimals) ==
  [strategy |-> "jitter", deterministic |-> TRUE, uniform |-> uniform, percentage |-> 50, reach |-> 6, min |-> min,
   max |-> max, decimals |-> decimals, asInteger |-> FALSE]
DpRule(clipMin, clipMax, min, max, decimals, asInteger, epsilon) ==
  [strategy |-> "differential_privacy", deterministic |-> TRUE, clipMin |-> clipMin, clipMax |-> clipMax, min |-> min,
   max |-> max, decimals |-> decimals, asInteger |-> asInteger, epsilon |-> epsilon, reach |-> 3]

RangeRule(asInteger, min, max) ==
  [strategy |-> "range_random", deterministic |-> TRUE, asInteger |-> asInteger, min |-> min, max |-> max]
ShiftRule(backward, forward, weekday) ==
  [strategy |-> "date_shift", deterministic |-> TRUE, backward |-> backward, forward |-> forward,
   weekday |-> weekday]

Unseeded(r) == [r EXCEPT !.deterministic = FALSE]

MCRules ==
  {FpeRule(2, 10, TRUE), FpeRule(2, 5, TRUE), FpeRule(3, 3, TRUE), FpeRule(3, 10, FALSE),
   FpeRule(16, 7, TRUE), CardRule(1, 0, TRUE, TRUE), CardRule(4, 4, TRUE, FALSE),
   CardRule(6, 4, FALSE, TRUE), PhoneRule(TRUE, 0), PhoneRule(FALSE, 3),
   IdRule("auto", TRUE), IdRule("ssn", TRUE), IdRule("tckn", FALSE),
   [strategy |-> "fpe_email", domain |-> TRUE], [strategy |-> "fpe_email", domain |-> FALSE],
   JitterRule(TRUE, 0, 10, None), JitterRule(FALSE, None, 8, 0), JitterRule(TRUE, -4, None, 1),
   JitterRule(TRUE, 8, 4, None),
   DpRule(0, 8, None, None, None, FALSE, 5000000), DpRule(None, 8, -4, 12, None, TRUE, 4),
   DpRule(None, None, -6, 12, 0, FALSE, 10),
   RangeRule(TRUE, -5, 9), RangeRule(FALSE, 0, 8), RangeRule(FALSE, 8, 4), RangeRule(TRUE, 8, 0),
   Unseeded(RangeRule(TRUE, 0, 8)), Unseeded(JitterRule(TRUE, 0, 10, None)),
   [strategy |-> "round_to", step |-> 8], [strategy |-> "round_to", step |-> 10],
   ShiftRule(3, 5, TRUE), ShiftRule(2, 2, FALSE),
   [strategy |-> "date_truncate", level |-> "year"], [strategy |-> "date_truncate", level |-> "month"],
   [strategy |-> "pattern_mask", first |-> 1, last |-> 2, length |-> 0],
   [strategy |-> "pattern_mask", first |-> 0, last |-> 2, length |-> 3],
   [strategy |-> "email_mask", first |-> 1, last |-> 1, domain |-> TRUE],
   [strategy |-> "credit_card_mask"], [strategy |-> "scramble", deterministic |-> TRUE],
   [strategy |-> "tckn", deterministic |-> TRUE, rest |-> <<3, 0, 4, 9, 9, 1, 2, 8>>]}

StringsUpTo(set, n) == UNION {[1..k -> set] : k \in 0..n}

WithLuhn(d) == Append(d, LuhnDigit(d))
Card(d) == WithLuhn(<<4, 1, 1, 1, 1, 1, 1, 1, 2, 3, 4, 5, d>>)
Grouped(s) == SubSeq(s, 1, 4) \o <<Dash>> \o SubSeq(s, 5, Len(s))
Ssn(d) == <<0, 1, 2, 3, 4, 5, 6, 7, d>>
Dashed(s) == SubSeq(s, 1, 3) \o <<Dash>> \o SubSeq(s, 4, 5) \o <<Dash>> \o SubSeq(s, 6, 9)
Tckn(d) == <<1, 2, 3, 4, 5, 6, 7, 8, d>> \o TcknDigits(<<1, 2, 3, 4, 5, 6, 7, 8, d>>)

Cards == UNION {{Card(d), Grouped(Card(d))} : d \in 0..3} \cup {<<4, 1, 2, 3, 5, 6, 7, 8, 9, 0, 1>>}
Phones ==
  UNION {{<<5, 5, 5, 1, 2, 3, d>>, <<Plus, 1, 5, 5, 5, 1, 2, 3, d>>, <<5, 5, 5, Dash, 1, 2, 3, d>>,
   <<Plus, 9, 0, Space, 5, 3, 2, Space, 1, 2, 3, 4, 5, 6, d>>, <<1, 1, d>>, <<Space, Plus, 1, 5, 5, 5, 1, 2, 3, d>>} : d \in 0..2}
Padded(s) == <<Space, Space>> \o s \o <<Space>>
Ids ==
  UNION {{Ssn(d), Dashed(Ssn(d)), Tckn(d), Append(Ssn(d), d)} : d \in 0..6}
    \cup UNION {{Padded(Ssn(d)), Padded(Dashed(Ssn(d))), Padded(Tckn(d)), Padded(<<1, Space, d>>)} : d \in 0..1}
Mails == {[local |-> s, domain |-> d] : s \in StringsUpTo({10, 37, Dot}, 2) \cup {<<Space, 10, 37>>}, d \in 1..2}
Numbers == {[num |-> Unit * n, int |-> TRUE] : n \in -1..2} \cup {[num |-> n, int |-> FALSE] : n \in -2..6}

MCInputs(r) ==
  CASE r.strategy = "fpe" -> StringsUpTo({0, 1, Dash}, 3) \cup [1..4 -> {0, 1}]
    [] r.strategy = "fpe_credit_card" -> Cards
    [] r.strategy = "fpe_phone" -> Phones
    [] r.strategy \in {"fpe_national_id", "tckn"} -> Ids
    [] r.strategy \in {"fpe_email", "email_mask"} -> Mails
    [] r.strategy \in {"jitter", "differential_privacy", "range_random", "round_to"} -> Numbers
    [] r.strategy = "date_shift" -> 100..107
    [] r.strategy = "date_truncate" -> [year : 2000..2001, month : {1, 2}, day : {1, 29}]
    [] r.strategy \in {"pattern_mask", "credit_card_mask"} -> StringsUpTo({5, 40}, 5)
    [] r.strategy = "scramble" -> {<<5, Dash>>, <<7, Dash>>, <<12, Space>>}
=============================================================================
