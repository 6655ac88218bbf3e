---------------------------- MODULE ColumnMasking ---------------------------
(***************************************************************************)
(* One column of a run: cells arrive in any order and are masked by the    *)
(* strategy of the column's rule (Transform of MaskingStrategy).  The      *)
(* generators are seeded with the value, those of differential privacy     *)
(* with the row as well, and not at all where the rule has deterministic:  *)
(* false.  A value for which a strategy raises ends the run and has no     *)
(* outcome here.                                                           *)
(***************************************************************************)
EXTENDS FormatPreserving, ValueStrategies

CONSTANTS
  Rules,       \* strategies with their parameters
  Inputs(_),   \* the values that arrive for a rule
  MaxCells     \* bound on the cells of the column

(* The values that come to the strategies. *)
Values(strategy) ==
  CASE strategy \in {"fpe_email", "email_mask"} -> [local : Seq(Nat), domain : Nat]
    [] strategy \in {"jitter", "differential_privacy", "range_random", "round_to"} ->
         [num : Int, int : BOOLEAN]
    [] strategy = "date_shift"    -> Int
    [] strategy = "date_truncate" -> [year : Nat, month : Nat, day : Nat]
    [] OTHER                      -> Seq(Nat)

(* The strategies whose draws a rule may leave unseeded. *)
Drawing == {"jitter", "differential_privacy", "range_random", "date_shift", "scramble", "tckn"}

ASSUME ColumnAssumption ==
  /\ None \notin Int
  /\ MaxCells \in Nat
  /\ \A r \in Rules : LET s == r.strategy IN
       /\ s = "fpe" => r.radix \in Nat \ {0, 1} /\ r.rounds \in Int /\ r.preserve \in BOOLEAN
       /\ s = "fpe_credit_card" =>
            r.prefix \in Int /\ r.suffix \in Int /\ r.luhn \in BOOLEAN /\ r.delimiters \in BOOLEAN
       /\ s = "fpe_phone" => r.digits \in Int /\ r.country \in BOOLEAN
       /\ s = "fpe_national_id" => r.validate \in BOOLEAN
       /\ s \in {"jitter", "differential_privacy"} =>
            /\ {r.min, r.max} \subseteq Int \cup {None}
            /\ r.decimals \in {None, 0, 1} /\ r.asInteger \in BOOLEAN
       /\ s = "differential_privacy" =>
            {r.clipMin, r.clipMax} \subseteq Int \cup {None} /\ r.epsilon \in Nat
       /\ s = "range_random" => {r.min, r.max} \subseteq Int /\ r.asInteger \in BOOLEAN
       /\ s = "round_to" => r.step \in Nat \ {0}
       /\ s = "date_shift" =>
            r.backward \in Nat /\ r.forward \in Nat /\ r.weekday \in BOOLEAN
       /\ s \in {"pattern_mask", "email_mask"} => r.first \in Nat /\ r.last \in Nat
       /\ s = "pattern_mask" => r.length \in Nat
       /\ s \in Drawing => r.deterministic \in BOOLEAN
       /\ s = "tckn" => r.rest \in [1..8 -> Digits]
       /\ \A x \in Inputs(r) : x \in Values(s)

VARIABLES
  rule,
  cells,    \* what has been masked, in order of arrival
  budget    \* epsilon_total, in ten millionths

vars == <<rule, cells, budget>>

Numeric == {"jitter", "differential_privacy", "range_random", "round_to"}
Private(r) == r.strategy = "differential_privacy"

Outcomes(r, x) ==
  CASE r.strategy = "fpe"              -> {Fpe(r, x)}
    [] r.strategy = "fpe_credit_card"  -> {FpeCard(r, x)}
    [] r.strategy = "fpe_phone"        -> {FpePhone(r, x)}
    [] r.strategy = "fpe_national_id"  -> {FpeNationalId(r, x)}
    [] r.strategy = "fpe_email"        -> {FpeEmail(r, x)}
    [] r.strategy = "jitter"           -> {Jitter(r, x, y) : y \in JitterDraws(r, x)}
    [] r.strategy = "differential_privacy" -> {Perturb(r, x, n) : n \in (-r.reach)..r.reach}
    [] r.strategy = "range_random"     -> {[num |-> y, int |-> r.asInteger] : y \in RangeDraws(r)}
    [] r.strategy = "round_to"         -> {Bucket(r, x)}
    [] r.strategy = "date_shift"       -> {x + Offset(r, o) : o \in OffsetDraws(r)}
    [] r.strategy = "date_truncate"    -> {DateTruncate(r, x)}
    [] r.strategy = "pattern_mask"     -> {PatternMask(r, x)}
    [] r.strategy = "email_mask"       -> {EmailMask(r, x)}
    [] r.strategy = "credit_card_mask" -> {CardMask(x)}
    [] r.strategy = "scramble"         -> {y \in [DOMAIN x -> UNION {SameClass(x[i]) : i \in DOMAIN x}] :
                                              \A i \in DOMAIN x : y[i] \in SameClass(x[i])}
    [] r.strategy = "tckn"             -> {DrawnTckn(<<d>> \o r.rest) : d \in 1..9}

(* A value gets the outcome it got before. *)
Repeats(r) == ~Private(r) /\ (r.strategy \in Drawing => r.deterministic)

Seeded(r, x, y) ==
  Repeats(r) => \A i \in DOMAIN cells : cells[i].plain = x => cells[i].masked = y

Init ==
  /\ rule \in Rules
  /\ cells = <<>>
  /\ budget = 0

Mask(x, y) ==
  /\ Len(cells) < MaxCells
  /\ Seeded(rule, x, y)
  /\ cells' = Append(cells, [plain |-> x, masked |-> y])
  /\ budget' = IF Private(rule) THEN Spend(budget, rule.epsilon) ELSE budget
  /\ UNCHANGED rule

Next == \E x \in Inputs(rule) : \E y \in Outcomes(rule, x) : Mask(x, y)

Spec == Init /\ [][Next]_vars
-----------------------------------------------------------------------------
(* What a strategy sees of a value: not the spaces around an identity number. *)
Taken(r, s) == IF r.strategy = "fpe_national_id" THEN Strip(s) ELSE s

(* Which of them an encrypting strategy does not confuse. *)

Bare(s) == \A i \in DOMAIN s : s[i] \in Digits
DashedSsn(s) == /\ Len(s) = 11 /\ s[4] = Dash /\ s[7] = Dash
                /\ \A i \in DOMAIN s \ {4, 7} : s[i] \in Digits

(* A single character is shifted by a number that depends on itself, odd
   rounds write unequal halves with the wrong lengths. *)
EvenlySplit(r, s) ==
  LET n == Len(Inside(s, 0..(r.radix - 1)))
  IN n # 1 /\ (n % 2 = 0 \/ Max({4, r.rounds}) % 2 = 0)

Reversible(r, s) ==
  CASE r.strategy = "fpe" -> EvenlySplit(r, s) /\ (r.preserve \/ \A i \in DOMAIN s : s[i] < r.radix)
    [] r.strategy = "fpe_credit_card" ->
         Len(DigitsOf(s)) >= 12 /\ r.delimiters /\ (r.luhn => ValidLuhn(s))
    [] r.strategy = "fpe_phone" -> TRUE
    [] r.strategy = "fpe_national_id" -> ~IsTckn(r, s) /\ IsSsn(r, s) /\ (Bare(s) \/ DashedSsn(s))
    [] OTHER -> FALSE

(* Where a strategy leaves everything but digits or letters in its place. *)
InPlace(r, s) ==
  CASE r.strategy = "fpe" -> r.preserve
    [] r.strategy = "fpe_credit_card" -> r.delimiters \/ Len(DigitsOf(s)) < 12
    [] r.strategy = "fpe_phone" -> TRUE
    [] r.strategy = "fpe_national_id" ->
         CASE IsTckn(r, s) -> Bare(s)
           [] IsSsn(r, s)  -> Bare(s) \/ DashedSsn(s)
           [] OTHER        -> TRUE
    [] r.strategy = "scramble" -> TRUE
    [] OTHER -> FALSE

KeptPrefix(r, s) ==
  CASE r.strategy = "fpe_credit_card" /\ Len(DigitsOf(s)) >= 12 -> CardPrefix(r, Len(DigitsOf(s)))
    [] r.strategy = "fpe_phone" /\ Len(DigitsOf(s)) >= 4 -> PhonePrefix(r, s)
    [] OTHER -> 0

FourDigits(s) == Len(DigitsOf(s)) = 4

Whole(x) == x = None \/ x % Unit = 0
AtLeast(low, x) == low = None \/ low <= x
AtMost(high, x) == high = None \/ x <= high
InOrder(low, high) == low = None \/ high = None \/ low <= high

-----------------------------------------------------------------------------
(* Properties. *)

(* Equal values of a column stay equal, whenever they arrive, unless the rule
   draws anew for each, and encryption keeps different ones different
   (fpe.py:3), so that a masked key still joins. *)
OneToOne ==
  \A i, j \in DOMAIN cells :
    LET x == Taken(rule, cells[i].plain)  z == Taken(rule, cells[j].plain)
        alike == cells[i].masked = cells[j].masked
    IN  /\ cells[i].plain = cells[j].plain /\ Repeats(rule) => alike
        /\ alike /\ Reversible(rule, x) /\ Reversible(rule, z) => x = z

(* "Identical length, alphabet ... and structural formatting", of what the
   strategy sees: punctuation stays where it is and so do issuer and country
   code.  An identity number loses the spaces around it. *)
FormatKept ==
  \A i \in DOMAIN cells :
    LET x == Taken(rule, cells[i].plain)  y == cells[i].masked IN
    InPlace(rule, x) =>
      /\ Len(y) = Len(x)
      /\ rule.strategy # "fpe" => \A k \in DOMAIN x : y[k] \in SameClass(x[k])
      /\ rule.strategy = "fpe" =>
           \A k \in DOMAIN x : IF x[k] < rule.radix THEN y[k] \in 0..(rule.radix - 1) ELSE y[k] = x[k]
      /\ SubSeq(DigitsOf(y), 1, KeptPrefix(rule, x)) = SubSeq(DigitsOf(x), 1, KeptPrefix(rule, x))

(* A masked card or identity number passes the validation that real ones pass. *)
ChecksumsValid ==
  \A i \in DOMAIN cells :
    LET x == Taken(rule, cells[i].plain)  y == cells[i].masked IN
    /\ rule.strategy = "fpe_credit_card" =>
         (rule.luhn /\ Len(DigitsOf(x)) \in 12..19 => ValidLuhn(y))
    /\ rule.strategy = "fpe_national_id" => (rule.validate /\ IsTckn(rule, x) => ValidTckn(y))
    /\ rule.strategy = "tckn" => ValidTckn(y)

(* Noise does not leave the bounds of the rule, unless a bound is a fraction,
   which rounding may step over.  Where the lower one is above the upper one,
   the upper one holds; what is drawn at random is then between the two. *)
NoiseBounded ==
  \A i \in DOMAIN cells :
    CASE rule.strategy = "jitter" ->
           /\ Whole(rule.min) /\ InOrder(rule.min, rule.max) => AtLeast(rule.min, cells[i].masked.num)
           /\ Whole(rule.max) => AtMost(rule.max, cells[i].masked.num)
      [] rule.strategy = "range_random" ->
           Whole(rule.min) /\ Whole(rule.max) =>
             cells[i].masked.num \in Min({rule.min, rule.max})..Max({rule.min, rule.max})
      [] Private(rule) ->
           /\ Whole(DpLow(rule)) /\ InOrder(DpLow(rule), DpHigh(rule)) =>
                AtLeast(DpLow(rule), cells[i].masked.num)
           /\ Whole(DpHigh(rule)) => AtMost(DpHigh(rule), cells[i].masked.num)
      [] OTHER -> TRUE

(* A generalised value stays near the original: half a step, the window of the
   rule (a week more backwards when weekdays are kept), the same year or month. *)
MovedAtMost ==
  \A i \in DOMAIN cells :
    LET x == cells[i].plain  y == cells[i].masked IN
    CASE rule.strategy = "round_to" ->
           Whole(rule.step) \/ ~x.int => 2 * (y.num - x.num) \in (-rule.step)..rule.step
      [] rule.strategy = "date_shift" ->
           /\ y - x \in (-rule.backward - (IF rule.weekday THEN 6 ELSE 0))..rule.forward
           /\ rule.weekday => y % 7 = x % 7
      [] rule.strategy = "date_truncate" ->
           /\ y.year = x.year
           /\ \A j \in DOMAIN cells :
                x.year = cells[j].plain.year
                  /\ (rule.level = "year" \/ (rule.level = "month" /\ x.month = cells[j].plain.month))
                => y = cells[j].masked
      [] OTHER -> TRUE

(* The budget the audit log states is what was spent, to the sixth decimal. *)
BudgetAccounted ==
  Private(rule) /\ rule.epsilon % 10 = 0 => budget = Len(cells) * rule.epsilon

(* What changes a number or a date stays within the bounds its rule sets, and
   the privacy budget counts every draw. *)
WithinBounds == NoiseBounded /\ MovedAtMost /\ BudgetAccounted

(* A partially masked value shows no more than the ends it is meant to show,
   and never all of itself: nothing at all when the ends are everything.  A card
   number of exactly four digits is the exception: all of it is shown. *)
Concealed ==
  \A i \in DOMAIN cells :
    LET x == cells[i].plain  y == cells[i].masked
        shown(s) == Cardinality({k \in DOMAIN s : s[k] \notin {Star, Dash}})
        limit(s) == IF Len(s) <= rule.first + rule.last THEN 0 ELSE rule.first + rule.last
    IN CASE rule.strategy = "pattern_mask" -> shown(y) <= limit(x)
         [] rule.strategy = "email_mask"   -> shown(y.local) <= limit(StripLeft(x.local))
         [] rule.strategy = "credit_card_mask" ->
              /\ shown(y) <= 4
              /\ ~FourDigits(x) => shown(y) = 0 \/ shown(y) < Len(DigitsOf(x))
         [] OTHER -> TRUE

=============================================================================
