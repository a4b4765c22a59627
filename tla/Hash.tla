-------------------------------- MODULE Hash --------------------------------
(***************************************************************************)
(* lib/type/type_hash.c: a table of chains, each sorted by hash value, and *)
(* indexed by the high bits of it, so that a larger table splits a chain   *)
(* into consecutive pieces and a smaller one joins neighbours.             *)
(***************************************************************************)
EXTENDS Naturals, FiniteSets, SequencesExt

CONSTANTS Items, None,
          Key,          \* the business data that cmp_func compares
          HashOf,       \* hash_func
          Bits,         \* the width of a hash value
          MinShift, MaxShift

VARIABLES
  entries, tab_shift, count,    \* hash_head_t
  added                         \* history: the items in the table

vars == <<entries, tab_shift, count, added>>

Size(shift) == 2 ^ shift
HashKey(shift, h) == h \div 2 ^ (Bits - shift)          \* the high bits
Buckets == 0..Size(MaxShift) - 1

Init ==                         \* type_hash_init
  /\ entries = [b \in Buckets |-> <<>>] /\ tab_shift = MinShift /\ count = 0
  /\ added = {}

\* How many elements a loop over s skips while they pass a test.
Run(s, Test(_)) ==
  CHOOSE n \in 0..Len(s) :
    (\A i \in 1..n : Test(s[i])) /\ (n < Len(s) => ~Test(s[n + 1]))

Chain(x) == entries[HashKey(tab_shift, HashOf[x])]
Lower(x) == Run(Chain(x), LAMBDA y : HashOf[y] < HashOf[x])
Same(x) ==                      \* the elements that collide with x
  LET rest == SubSeq(Chain(x), Lower(x) + 1, Len(Chain(x)))
  IN  SubSeq(rest, 1, Run(rest, LAMBDA y : HashOf[y] = HashOf[x]))

\* type_hash_find
Find(x) ==
  LET equal == SelectSeq(Same(x), LAMBDA y : Key[y] = Key[x])
  IN  IF equal = <<>> THEN None ELSE equal[1]

-----------------------------------------------------------------------------
(* type_hash_resize *)

BitLength(n) == CHOOSE k \in 0..Bits + 1 : n < 2 ^ k /\ \A j \in 0..k - 1 : n >= 2 ^ j
Clamp(n) == IF n > MaxShift THEN MaxShift ELSE IF n < MinShift THEN MinShift ELSE n
ShiftCal(n) == Clamp(BitLength(IF n = 0 THEN 1 ELSE n))

Pieces_Early(s, to, range) ==   \* mutant: a piece ends before its last bits
  LET mid(y) == HashKey(to, HashOf[y]) % range
      cut[i \in 0..range] ==
        IF i = 0 THEN 0
        ELSE cut[i - 1] + Run(SubSeq(s, cut[i - 1] + 1, Len(s)), LAMBDA y : mid(y) < i - 1)
  IN  [i \in 0..range - 1 |-> SubSeq(s, cut[i] + 1, IF i = range - 1 THEN Len(s) ELSE cut[i + 1])]

\* A chain is cut where the bits that are new in the index exceed the piece's;
\* what is left after the last piece stays in it.
Pieces(s, to, range) ==
  LET mid(y) == HashKey(to, HashOf[y]) % range
      cut[i \in 0..range] ==
        IF i = 0 THEN 0
        ELSE cut[i - 1] + Run(SubSeq(s, cut[i - 1] + 1, Len(s)), LAMBDA y : mid(y) <= i - 1)
  IN  [i \in 0..range - 1 |-> SubSeq(s, cut[i] + 1, IF i = range - 1 THEN Len(s) ELSE cut[i + 1])]

Grow(e, from, to) ==
  LET range == 2 ^ (to - from)
  IN  [b \in Buckets |->
         IF b < Size(to) THEN Pieces(e[b \div range], to, range)[b % range] ELSE <<>>]

Shrink(e, from, to) ==
  LET range == 2 ^ (from - to)
  IN  [b \in Buckets |->
         IF b < Size(to) THEN FlattenSeq([j \in 1..range |-> e[b * range + j - 1]]) ELSE <<>>]

\* The state after e has n items.
Resized(e, n, wanted) ==
  LET to == IF wanted THEN ShiftCal(n) ELSE tab_shift
  IN  /\ count' = n /\ tab_shift' = to
      /\ entries' = IF to >= tab_shift THEN Grow(e, tab_shift, to) ELSE Shrink(e, tab_shift, to)

-----------------------------------------------------------------------------
\* type_hash_add, before the first larger one; an equal item is returned.
Add(x) ==
  LET at == Lower(x) + Len(Same(x))
      b == HashKey(tab_shift, HashOf[x])
      up(n) == tab_shift # MaxShift /\ n >= Size(tab_shift)
  IN  IF Find(x) # None THEN Resized(entries, count, up(count)) /\ UNCHANGED added
      ELSE /\ Resized([entries EXCEPT ![b] = InsertAt(@, at + 1, x)], count + 1, up(count + 1))
           /\ added' = added \cup {x}

\* type_hash_del, of that very item.
Del(x) ==
  LET n == count - 1
      b == HashKey(tab_shift, HashOf[x])
  IN  /\ Contains(Same(x), x)
      /\ Resized([entries EXCEPT ![b] = Remove(@, x)], n,
                 tab_shift # MinShift /\ n <= Size(tab_shift) \div 2 - 1)
      /\ added' = added \ {x}

Next == \E x \in Items : Add(x) \/ Del(x)

-----------------------------------------------------------------------------
\* type_hash_first and type_hash_next: the chains, bucket after bucket.
Walk == FlattenSeq([b \in 1..Size(tab_shift) |-> entries[b - 1]])

\* Whatever was added and grown and shrunk in between, a search finds the item
\* with that key, and a walk meets every item once, in the order of the hashes.
HashKept ==
  /\ \A x \in Items : Find(x) = IF \E y \in added : Key[y] = Key[x]
                                 THEN CHOOSE y \in added : Key[y] = Key[x] ELSE None
  /\ ToSet(Walk) = added /\ Len(Walk) = Cardinality(added) /\ count = Len(Walk)
  /\ \A i, j \in 1..Len(Walk) : i < j => HashOf[Walk[i]] <= HashOf[Walk[j]]
  /\ tab_shift = MaxShift \/ count < Size(tab_shift)
=============================================================================
