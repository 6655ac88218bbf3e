---------------------------- MODULE Pseudonymizer ---------------------------
(***************************************************************************)
(* One CloakEngine pseudonymising the cells of a dump, in the order they   *)
(* arrive (core/engine.py, _apply_column_rule).  A cell is looked up in    *)
(* the cache of its group; if it is not there its pseudonym is derived and *)
(* stored.  The stores of all groups start empty and live as long as the   *)
(* engine; nothing is ever persisted.                                      *)
(***************************************************************************)
EXTENDS PseudonymStore

CONSTANTS
  Group,     \* consistency groups, and a group of its own for each column
             \* that belongs to none and is hashed ("table.column", hash.py:41)
  Column,    \* the columns that have a rule
  GroupOf,   \* the group of a column
  MethodOf,  \* how a column derives a pseudonym
  Input      \* the cells <<column, raw value>> the dump may contain

ASSUME InputAssumption ==
  /\ GroupOf \in [Column -> Group]
  /\ MethodOf \in [Column -> Method]
  /\ Input \subseteq Column \X Raw

VARIABLES
  store,   \* the store of each group
  failed,  \* the engine has raised ValueError and the run is over
  issued   \* history: which raw value was given which pseudonym

vars == <<store, failed, issued>>

Issue == [group : Group, raw : Raw, masked : Pseudonym]

Init ==
  /\ store = [g \in Group |-> EmptyStore]
  /\ failed = FALSE
  /\ issued = {}

Emit(g, r, p) == issued' = issued \cup {[group |-> g, raw |-> r, masked |-> p]}

(* The cell's pseudonym is still cached. *)
MaskCached(c, r) ==
  LET g == GroupOf[c] IN
  /\ ~failed
  /\ \E k \in HitKeys(store[g], r) :
       /\ store' = [store EXCEPT ![g].cache = Touch(@, k)]
       /\ Emit(g, r, Fetch(store[g].cache, k))
  /\ UNCHANGED failed

(* It is not: derive it and store it.  The strategy and the engine both
   store it; the second call finds what the first one left. *)
MaskDerived(c, r) ==
  LET g == GroupOf[c]
      p == Derive(store[g], MethodOf[c], r)
  IN
  /\ ~failed
  /\ HitKeys(store[g], r) = {}
  /\ ~Exhausted(store[g], MethodOf[c], r)
  /\ store' = [store EXCEPT ![g] = StoreCachedValue(@, r, p)]
  /\ Emit(g, r, p)
  /\ UNCHANGED failed

(* No counter gives a free integer: ValueError ends the run. *)
MaskExhausted(c, r) ==
  LET g == GroupOf[c] IN
  /\ ~failed
  /\ HitKeys(store[g], r) = {}
  /\ Exhausted(store[g], MethodOf[c], r)
  /\ failed' = TRUE
  /\ UNCHANGED <<store, issued>>

Next == \E cell \in Input :
  LET c == cell[1]
      r == cell[2]
  IN  MaskCached(c, r) \/ MaskDerived(c, r) \/ MaskExhausted(c, r)

Spec == Init /\ [][Next]_vars

-----------------------------------------------------------------------------
(* What the configuration must satisfy for the guarantees below. *)

(* Values that can be looked up under each other's key print alike, and all
   cells of a group that print alike take the same branch. *)
UniformTyping ==
  \A x, y \in Input : GroupOf[x[1]] = GroupOf[y[1]] =>
    /\ y[2] \in Aliases(x[2]) => y[2].text = x[2].text
    /\ y[2].text = x[2].text =>
         (IntegerBranch(MethodOf[x[1]], x[2]) <=> IntegerBranch(MethodOf[y[1]], y[2]))

(* The truncated HMAC of the string branch, which no code checks for
   collisions, has none among the values that arrive. *)
DigestInjective == \A t, u \in Text : Digest[t] = Digest[u] => t = u

-----------------------------------------------------------------------------
(* Properties. *)

TypeOK ==
  /\ store = [g \in Group |-> store[g]]
  /\ \A g \in Group : IsStore(store[g])
  /\ failed \in BOOLEAN
  /\ issued \subseteq Issue

(* Referential integrity: a key that occurs again, in whichever table of its
   group and however long after its cache entry was evicted, gets the
   pseudonym it got before (integrity.py, "receive identical pseudonyms"). *)
Consistent ==
  \A x, y \in issued :
    x.group = y.group /\ x.raw.text = y.raw.text => x.masked = y.masked

(* Distinct keys of a group never share a pseudonym: the rejection sampling
   of hash.py works although the cache forgets. *)
Injective ==
  \A x, y \in issued :
    x.group = y.group /\ x.masked = y.masked => x.raw.text = y.raw.text

(* Losing a cache entry is harmless: for every cached key, derivation against
   the present reverse lookup would give what the cache holds. *)
CacheTransparent ==
  \A g \in Group : \A i \in DOMAIN store[g].cache :
    LET e == store[g].cache[i] IN
    \A cell \in Input :
      GroupOf[cell[1]] = g /\ cell[2] = e.raw
        => /\ ~Exhausted(store[g], MethodOf[cell[1]], e.raw)
           /\ e.masked = Derive(store[g], MethodOf[cell[1]], e.raw)

(* The reverse lookup can resolve every pseudonym ever written to the output
   back to the key it stands for (get_raw_for_masked). *)
Resolvable ==
  \A x \in issued :
    LET rev == store[x.group].rev IN
    x.masked \in DOMAIN rev /\ rev[x.masked].text = x.raw.text

(* A claim in a reverse lookup is never dropped and never passes to a
   different key. *)
ClaimsPermanent ==
  [][\A g \in Group : \A p \in DOMAIN store[g].rev :
       /\ p \in DOMAIN store'[g].rev
       /\ store'[g].rev[p].text = store[g].rev[p].text]_vars

(* The cache stays within max_cache_size and holds no key twice. *)
CacheBounded ==
  \A g \in Group :
    LET c == store[g].cache IN
    /\ Len(c) <= Capacity
    /\ \A i, j \in DOMAIN c : c[i].raw = c[j].raw => i = j

-----------------------------------------------------------------------------
(* The inductive invariant behind Consistent and Injective. *)

(* Deriving an issued pseudonym again, against the claims made since, would
   give the same one: rejected candidates stay rejected, and the accepted one
   is not rejected. *)
Settled ==
  \A x \in issued : \E cell \in Input :
    /\ GroupOf[cell[1]] = x.group
    /\ cell[2] = x.raw
    /\ ~Exhausted(store[x.group], MethodOf[cell[1]], x.raw)
    /\ x.masked = Derive(store[x.group], MethodOf[cell[1]], x.raw)

(* The cache only holds what has been issued under its own key. *)
CacheIssued ==
  \A g \in Group : \A i \in DOMAIN store[g].cache :
    [group |-> g, raw |-> store[g].cache[i].raw, masked |-> store[g].cache[i].masked]
      \in issued

(* An issued integer is claimed by the key it was issued for. *)
IntegersClaimed ==
  CacheEnabled => \A x \in issued :
    LET rev == store[x.group].rev IN
    x.masked \in IntPseudonym =>
      x.masked \in DOMAIN rev /\ rev[x.masked].text = x.raw.text

IInv == TypeOK /\ Settled /\ CacheIssued /\ IntegersClaimed

-----------------------------------------------------------------------------
(* The engine implements a growing one-to-one map per group. *)
assigned == {<<x.group, x.raw.text, x.masked>> : x \in issued}

PM == INSTANCE PseudonymMap WITH Key <- Text

(* Every cell masked extends that map by a new pair or repeats an old one. *)
ImplementsPseudonymMap == PM!Spec
=============================================================================
