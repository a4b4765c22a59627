------------------------------ MODULE SkipList ------------------------------
(***************************************************************************)
(* lib/type/type_skiplist.c: an item has a random level, and is linked at  *)
(* that level and below.  Items with equal keys are told apart by their    *)
(* addresses, the numbers that stand for them here, when they are added    *)
(* and deleted, but not when a key is looked for.  The difference of two   *)
(* addresses is cut to the width of an int.                                *)
(***************************************************************************)
EXTENDS Integers, FiniteSets

CONSTANTS Items,        \* numbers above 0: the addresses
          None,
          Key,
          Levels,       \* SKIPLIST_DEPTH_MAX - 1
          IntRange      \* 2 ^ 32

\* Items with the same key lie less than half of that apart, 2 GiB: further
\* away the comparison is no order any more, or takes two items for one.
NearAssumption ==
  \A x, y \in Items : Key[x] = Key[y] => 2 * (x - y) < IntRange

First == 0              \* head_item, before every item

VARIABLES
  next,                 \* of each item and of the head, at each level
  count,
  added                 \* history: the items in the list

vars == <<next, count, added>>

Cells == Items \cup {First}

Init ==
  /\ next = [c \in Cells |-> [l \in 0..Levels |-> None]] /\ count = 0 /\ added = {}

-----------------------------------------------------------------------------
Cut(n) == LET low == n % IntRange IN IF 2 * low >= IntRange THEN low - IntRange ELSE low

\* unique_cmp is less than 0, and it is 0.
Before(x, y) == Key[x] < Key[y] \/ (Key[x] = Key[y] /\ Cut(x - y) < 0)
Same(x, y) == Key[x] = Key[y] /\ Cut(x - y) = 0

\* The walk along a level: the last cell that a test lets pass, from c on.
Along(c, l, Test(_)) ==
  LET walk[x \in Cells] ==
        LET y == next[x][l] IN IF y # None /\ Test(y) THEN walk[y] ELSE x
  IN  walk[c]

\* The cell each level's walk ends at, the level above's being where it starts.
Path(Test(_)) ==
  LET prev[l \in 0..Levels + 1] ==
        IF l > Levels THEN First ELSE Along(prev[l + 1], l, Test)
  IN  [l \in 0..Levels |-> prev[l]]

Add_Above(x, level) ==          \* mutant: linked from its level upwards
  /\ x \notin added
  /\ LET prev == Path(LAMBDA y : Before(y, x))
         Linked(l) == l >= level
     IN  next' = [c \in Cells |-> [l \in 0..Levels |->
                    CASE Linked(l) /\ c = prev[l] -> x
                      [] Linked(l) /\ c = x -> next[prev[l]][l]
                      [] ~Linked(l) /\ c = x -> None
                      [] OTHER -> next[c][l]]]
  /\ count' = count + 1 /\ added' = added \cup {x}

\* type_skiplist_add, with the level the random number gave.
Add(x, level) ==
  /\ x \notin added
  /\ LET prev == Path(LAMBDA y : Before(y, x))
         Linked(l) == l <= level
     IN  next' = [c \in Cells |-> [l \in 0..Levels |->
                    CASE Linked(l) /\ c = prev[l] -> x
                      [] Linked(l) /\ c = x -> next[prev[l]][l]
                      [] ~Linked(l) /\ c = x -> None
                      [] OTHER -> next[c][l]]]
  /\ count' = count + 1 /\ added' = added \cup {x}

\* type_skiplist_del; an item that is not in the list changes nothing.
Del(x) ==
  LET prev == Path(LAMBDA y : Before(y, x))
      at(l) == next[prev[l]][l]
      Out(l) == at(l) # None /\ Same(at(l), x)
      found == \E l \in 0..Levels : Out(l)
  IN  /\ next' = [c \in Cells |-> [l \in 0..Levels |->
                    CASE found /\ c = x -> None
                      [] c # x /\ Out(l) /\ c = prev[l] -> next[at(l)][l]
                      [] OTHER -> next[c][l]]]
      /\ count' = IF found THEN count - 1 ELSE count
      /\ added' = added \ {x}

Next == \E x \in Items : Del(x) \/ \E l \in 0..Levels : Add(x, l)

-----------------------------------------------------------------------------
(* what is asked of the list, for an item that need not be in it *)

Ceil(x) == next[Path(LAMBDA y : Key[y] < Key[x])[0]][0]
Floor(x) == LET c == Path(LAMBDA y : Key[y] < Key[x])[0] IN IF c = First THEN None ELSE c

Least(S, Less(_, _)) ==
  IF S = {} THEN None ELSE CHOOSE x \in S : \A y \in S \ {x} : Less(x, y)

\* After any additions and deletions a search for a key that no item has
\* returns by ceil the least item whose key is greater, and by floor the
\* greatest whose key is less (of a key that some item has, the header and the
\* document say different things); each level is the sorted list of the items
\* that reach it; the count is right.
ListSorted ==
  /\ \A x \in {i \in Items : \A y \in added : Key[y] # Key[i]} :
       /\ Ceil(x) = Least({y \in added : Key[y] > Key[x]}, Before)
       /\ Floor(x) = Least({y \in added : Key[y] < Key[x]}, LAMBDA a, b : Before(b, a))
  /\ \A x \in added, l \in 0..Levels :
       next[x][l] # None => next[x][l] \in added /\ Before(x, next[x][l])
  /\ count = Cardinality(added)
  /\ \A x \in added : \E c \in added \cup {First} : next[c][0] = x
=============================================================================
