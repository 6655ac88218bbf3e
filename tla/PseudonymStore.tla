--------------------------- MODULE PseudonymStore ---------------------------
(***************************************************************************)
(* One consistency group of the ReferentialIntegrityManager                *)
(* (core/integrity.py) and the derivation of a pseudonym that              *)
(* DeterministicHashStrategy (strategies/hash.py) performs against it.     *)
(*                                                                         *)
(* A group's store has the two parts of the code: a bounded LRU cache from *)
(* raw value to pseudonym, written as the sequence of its entries with the *)
(* least recently used first (the order of the OrderedDict), and the       *)
(* reverse lookup from pseudonym to the raw value that claimed it.         *)
(*                                                                         *)
(* A raw value is the printed text it hashes as, together with its Python  *)
(* type: the dump parsers deliver the same key as 5 from one table and as  *)
(* "5" from another.  Floats and booleans are left out.                    *)
(***************************************************************************)
EXTENDS Naturals, FiniteSets, SequencesExt

CONSTANTS
  Text,          \* printed forms of the values that can arrive
  Numeral,       \* the digit strings among them, each mapped to its canonical
                 \* numeral: str(int(t)), so "05" maps to "5"
  IntPseudonym,  \* the integers of the range min_int .. max_int
  HexPseudonym,  \* the digests of the string branch
  Probe,         \* Probe[t][n]: the integer the HMAC of text t and counter n selects
  Digest,        \* Digest[t]: the truncated HMAC of text t
  Capacity,      \* max_cache_size
  CacheEnabled   \* cache_pseudonyms and not stateless

(* max_int - min_int + 1, the size of the integer range. *)
Span == Cardinality(IntPseudonym)

ASSUME StoreAssumption ==
  /\ DOMAIN Numeral \subseteq Text
  /\ Numeral \in [DOMAIN Numeral -> DOMAIN Numeral]
  /\ \A t \in DOMAIN Numeral : Numeral[Numeral[t]] = Numeral[t]
  /\ IsFiniteSet(IntPseudonym)
  /\ IntPseudonym \cap HexPseudonym = {}
  /\ Probe \in [Text -> [0..Span -> IntPseudonym]]
  /\ Digest \in [Text -> HexPseudonym]
  /\ Capacity \in Nat
  /\ CacheEnabled \in BOOLEAN

Pseudonym == IntPseudonym \cup HexPseudonym

(* An int prints as its canonical numeral; a str may be any text. *)
Raw == [type : {"int"}, text : {t \in DOMAIN Numeral : Numeral[t] = t}]
         \cup [type : {"str"}, text : Text]

Entry == [raw : Raw, masked : Pseudonym]

(* The reverse lookup is a partial map from pseudonyms to raw values. *)
IsStore(s) ==
  /\ s = [cache |-> s.cache, rev |-> s.rev]
  /\ s.cache \in Seq(Entry)
  /\ DOMAIN s.rev \subseteq Pseudonym
  /\ s.rev \in [DOMAIN s.rev -> Raw]

EmptyStore == [cache |-> <<>>, rev |-> [p \in {} |-> p]]

-----------------------------------------------------------------------------
(* The LRU cache. *)

Holds(c, r) == \E i \in DOMAIN c : c[i].raw = r

Position(c, r) == CHOOSE i \in DOMAIN c : c[i].raw = r

Fetch(c, r) == c[Position(c, r)].masked

(* Mutant: the entry is moved to the end by adding it again. *)
TouchKeepsOld(c, r) == Append(c, c[Position(c, r)])

(* LRUCache.get on a key it holds: the entry becomes the most recent one. *)
Touch(c, r) ==
  LET i == Position(c, r) IN Append(RemoveAt(c, i), c[i])

(* LRUCache.set: the entry becomes the most recent one, then the oldest
   entry goes if the cache is over its capacity. *)
Put(c, r, p) ==
  LET others == IF Holds(c, r) THEN RemoveAt(c, Position(c, r)) ELSE c
      grown  == Append(others, [raw |-> r, masked |-> p])
  IN  IF Len(grown) > Capacity THEN Tail(grown) ELSE grown

-----------------------------------------------------------------------------
(* The manager. *)

(* The other key get_cached_value tries: str(raw) for an int, int(raw) for
   a string of digits. *)
Aliases(r) ==
  IF r.type = "int" THEN {[type |-> "str", text |-> r.text]}
  ELSE {[type |-> "int", text |-> Numeral[t]] : t \in {r.text} \cap DOMAIN Numeral}

(* The key under which get_cached_value finds a pseudonym of r, if any. *)
HitKeys(s, r) ==
  IF ~CacheEnabled THEN {}
  ELSE IF Holds(s.cache, r) THEN {r}
  ELSE {k \in Aliases(r) : Holds(s.cache, k)}

(* Mutant: the reverse lookup is bounded like the cache, by keeping only the
   claims of the keys that are cached. *)
StoreForgetful(s, r, p) ==
  IF ~CacheEnabled THEN s
  ELSE LET cache == Put(s.cache, r, p) IN
       [cache |-> cache,
        rev   |-> [q \in {cache[i].masked : i \in DOMAIN cache} |->
                     (CHOOSE e \in ToSet(cache) : e.masked = q).raw]]

StoreCachedValue(s, r, p) ==
  IF ~CacheEnabled THEN s
  ELSE [cache |-> Put(s.cache, r, p),
        rev   |-> [q \in DOMAIN s.rev \cup {p} |-> IF q = p THEN r ELSE s.rev[q]]]

(* Mutant: collisions are looked for in the cache instead of in the reverse
   lookup. *)
CollidesInCache(s, r, p) ==
  /\ CacheEnabled
  /\ \E e \in ToSet(s.cache) : e.masked = p /\ e.raw.text # r.text

(* Mutant: no rejection sampling. *)
NeverCollides(s, r, p) == FALSE

(* Two raw values that print alike never collide with each other. *)
IsCollision(s, r, p) ==
  /\ CacheEnabled
  /\ p \in DOMAIN s.rev
  /\ s.rev[p].text # r.text

-----------------------------------------------------------------------------
(* Derivation of a pseudonym that is not in the cache. *)

(* The integer branch rejects candidates claimed by another raw value and
   tries the HMAC with the next counter, 0 .. Span. *)
Free(s, r) == {n \in 0..Span : ~IsCollision(s, r, Probe[r.text][n])}

FirstFree(s, r) == CHOOSE n \in Free(s, r) : \A m \in Free(s, r) : n <= m

IntegerPseudonym(s, r) == Probe[r.text][FirstFree(s, r)]

(* How a column derives: "integer" is deterministic_hash with as_integer,
   "hash" is deterministic_hash without it, "seeded" any other strategy whose
   result is a function of the salt, the group and the printed value. *)
Method == {"integer", "hash", "seeded"}

IntegerBranch(method, r) ==
  \/ method = "integer"
  \/ method = "hash" /\ r.type = "int"

(* "Integer space exhausted": every counter allowed has been rejected. *)
Exhausted(s, method, r) == IntegerBranch(method, r) /\ Free(s, r) = {}

(* Mutant: the string branch returns the value as it is. *)
DeriveNothing(s, method, r) ==
  IF IntegerBranch(method, r) THEN IntegerPseudonym(s, r) ELSE r.text

Derive(s, method, r) ==
  IF IntegerBranch(method, r) THEN IntegerPseudonym(s, r) ELSE Digest[r.text]
=============================================================================
