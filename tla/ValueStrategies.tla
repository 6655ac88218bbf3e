--------------------------- MODULE ValueStrategies --------------------------
(***************************************************************************)
(* Strategies on numbers, dates and strings without encryption             *)
(* (strategies/numeric.py, differential_privacy.py, datetime.py,           *)
(* redaction.py, general.py).  Numbers are counted in parts of Unit to one *)
(* whole; a number is its value and whether it came as an integer.  What a *)
(* random generator draws is a parameter.                                  *)
(***************************************************************************)
EXTENDS Checksums, FiniteSetsExt

CONSTANT None   \* a parameter that is not given

Unit == 4
Star == 66

(* round(): to the nearest multiple of step, to the even one when halfway. *)
RoundToStep(x, step) ==
  LET q == x \div step
      rest == x % step
  IN step * (CASE 2 * rest < step -> q
               [] 2 * rest > step -> q + 1
               [] 2 * rest = step -> q + (q % 2))

(* int() of a float drops the fraction. *)
Truncated(x) == IF x >= 0 THEN Unit * (x \div Unit) ELSE -(Unit * ((-x) \div Unit))

Clamp(low, high, x) ==
  LET y == IF low = None THEN x ELSE Max({low, x})
  IN IF high = None THEN y ELSE Min({high, y})

(* decimals is None, 0 or 1 here; one decimal is half a unit. *)
Precise(p, x, y) ==
  CASE p.asInteger \/ (x.int /\ p.decimals = None) -> RoundToStep(y, Unit)
    [] ~p.asInteger /\ p.decimals # None -> RoundToStep(y, IF p.decimals = 0 THEN Unit ELSE Unit \div 2)
    [] ~p.asInteger /\ p.decimals = None /\ ~x.int -> y

(* NumericJitterStrategy: what uniform noise may make of x, or a draw within
   the reach of the model for the others. *)
JitterDraws(p, x) ==
  {y \in (x.num - p.reach)..(x.num + p.reach) :
     p.uniform => 100 * (y - x.num) \in
        (-p.percentage * Max({x.num, -x.num}))..(p.percentage * Max({x.num, -x.num}))}

Jitter(p, x, drawn) ==
  [num |-> Precise(p, x, Clamp(p.min, p.max, drawn)), int |-> x.int /\ p.decimals = None]

(* DifferentialPrivacyStrategy: clipped before the noise, bounded after it. *)
DpLow(p) == IF p.clipMin # None THEN p.clipMin ELSE p.min
DpHigh(p) == IF p.clipMax # None THEN p.clipMax ELSE p.max

(* Mutant: what was clipped before the noise is not bounded after it. *)
PerturbClippedBefore(p, x, noise) ==
  [num |-> Precise(p, x, Clamp(p.min, p.max, Clamp(p.clipMin, p.clipMax, x.num) + noise)),
   int |-> p.asInteger \/ (x.int /\ p.decimals = None)]

Perturb(p, x, noise) ==
  [num |-> Precise(p, x, Clamp(DpLow(p), DpHigh(p), Clamp(p.clipMin, p.clipMax, x.num) + noise)),
   int |-> p.asInteger \/ (x.int /\ p.decimals = None)]

(* record_privacy_budget: the total is rounded to six decimals with each cell;
   epsilon and the total are counted in tenths of that. *)
Spend(total, epsilon) == RoundToStep(total + epsilon, 10)

(* RangeRandomStrategy: bounds the wrong way round leave nothing to draw for
   randint, which raises, and everything between them for uniform. *)
RangeDraws(p) ==
  IF p.asInteger THEN {Unit * i : i \in (Truncated(p.min) \div Unit)..(Truncated(p.max) \div Unit)}
  ELSE Min({p.min, p.max})..Max({p.min, p.max})

Bucket(p, x) ==
  LET y == RoundToStep(x.num, p.step)
  IN [num |-> IF x.int THEN Truncated(y) ELSE y, int |-> x.int]

-----------------------------------------------------------------------------
(* Dates are days with the month and the year they are in. *)

(* DateShiftStrategy; // rounds down. *)
Offset(p, drawn) == IF p.weekday THEN (drawn \div 7) * 7 ELSE drawn
OffsetDraws(p) == (-p.backward)..p.forward

DateTruncate(p, x) ==
  CASE p.level = "year"  -> [x EXCEPT !.month = 1, !.day = 1]
    [] p.level = "month" -> [x EXCEPT !.day = 1]
    [] OTHER             -> x

-----------------------------------------------------------------------------
Stars(n) == [i \in 1..n |-> Star]

(* Mutant: the head is kept from strings of any length. *)
PatternMaskAlways(p, s) ==
  SubSeq(s, 1, Min({p.first, Len(s)})) \o Stars(Max({0, Len(s) - p.first - p.last}))
     \o SubSeq(s, Max({1, Len(s) - p.last + 1}), Len(s))

PatternMask(p, s) ==
  LET n == Len(s) IN
  IF n <= p.first + p.last THEN Stars(n)
  ELSE SubSeq(s, 1, p.first)
         \o Stars(IF p.length > 0 THEN p.length ELSE n - p.first - p.last)
         \o SubSeq(s, n - p.last + 1, n)

(* The address is split at its last @. *)
EmailMask(p, x) ==
  [local  |-> PatternMask([first |-> p.first, last |-> p.last, length |-> 0], StripLeft(x.local)),
   domain |-> IF p.domain THEN x.domain ELSE 0]

CardMask(s) ==
  LET d == DigitsOf(s) IN
  IF Len(d) < 4 THEN Stars(Len(s))
  ELSE Stars(4) \o <<Dash>> \o Stars(4) \o <<Dash>> \o Stars(4) \o <<Dash>>
         \o SubSeq(d, Len(d) - 3, Len(d))

(* ScrambleStrategy: what may be drawn for a character. *)
SameClass(c) ==
  CASE c \in Digits -> Digits
    [] c \in Upper  -> Upper
    [] c \in 10..35 -> 10..35
    [] OTHER        -> {c}

(* TCKNStrategy: nine digits drawn and the two that follow from them. *)
DrawnTckn(d) == d \o TcknDigits(d)
=============================================================================
