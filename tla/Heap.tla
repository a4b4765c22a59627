-------------------------------- MODULE Heap --------------------------------
(***************************************************************************)
(* lib/type/type_heap.c: a binary heap in an array, whose items remember   *)
(* their place.  The array grows before it is full and shrinks when much   *)
(* of it is unused.                                                        *)
(***************************************************************************)
EXTENDS Integers, FiniteSets

CONSTANTS Items, None,
          Rank,                 \* of an item, by which cmp_func compares
          MinSize, MaxSize,
          Slack                 \* the 512 of type_heap_resize_tresh_down

VARIABLES
  array, count, size,           \* heap_head_t; array is None from count on
  index,                        \* of each item: the place it remembers
  cut,                          \* history: the size comes from a shrink
  refused                       \* history: an add was refused, and cut then

vars == <<array, count, size, index, cut, refused>>

Places == 0..MaxSize - 1
Inside == {array[i] : i \in 0..count - 1}

Init ==                         \* type_heap_create
  /\ array = [i \in Places |-> None] /\ count = 0 /\ size = MinSize
  /\ index = [x \in Items |-> 0] /\ cut = FALSE /\ refused = {}

-----------------------------------------------------------------------------
Less(a, i, j) == Rank[a[i]] < Rank[a[j]]
Swap(a, i, j) == [a EXCEPT ![i] = a[j], ![j] = a[i]]

\* type_heap_heapify_up: an item rises while its parent is larger.
RECURSIVE HeapifyUp(_, _)
HeapifyUp(a, i) ==
  IF i > 0 /\ Less(a, i, (i - 1) \div 2)
    THEN HeapifyUp(Swap(a, i, (i - 1) \div 2), (i - 1) \div 2) ELSE a

\* type_heap_heapify_down: it sinks under the smaller of its children.
RECURSIVE HeapifyDown(_, _, _)
HeapifyDown(a, i, n) ==
  LET l == 2 * i + 1
      r == l + 1
      left == IF l < n /\ Less(a, l, i) THEN l ELSE i
      to == IF r < n /\ Less(a, r, left) THEN r ELSE left
  IN  IF to = i THEN a ELSE HeapifyDown(Swap(a, i, to), to, n)

\* Every move of an item writes its place.
Place(a, n) ==
  /\ array' = a /\ count' = n
  /\ index' = [x \in Items |-> IF \E i \in 0..n - 1 : a[i] = x
                                 THEN CHOOSE i \in 0..n - 1 : a[i] = x ELSE index[x]]

\* type_heap_resize, as far as these sizes go.
Grown == IF size * 2 > MaxSize THEN MaxSize ELSE size * 2
ShrinkIf(n) ==
  IF size # MinSize /\ (n = 0 \/ size > (n * 3) \div 2 + Slack)
    THEN size' = (IF n < MinSize THEN MinSize ELSE n) /\ cut' = TRUE
    ELSE UNCHANGED <<size, cut>>

\* The check for room comes before the growth.
Add(x) ==
  /\ x \notin Inside
  /\ IF count = size
     THEN refused' = {cut} /\ UNCHANGED <<array, count, size, index, cut>>
     ELSE /\ IF size # MaxSize /\ count + 1 >= size
               THEN size' = Grown /\ cut' = FALSE ELSE UNCHANGED <<size, cut>>
          /\ Place(HeapifyUp([array EXCEPT ![count] = x], count), count + 1)
          /\ refused' = {}

\* type_heap_del: the last item takes the place, found by the item's index.
Taken(i) == [array EXCEPT ![i] = array[count - 1], ![count - 1] = None]

Pop ==
  /\ count > 0
  /\ Place(HeapifyDown(Taken(0), 0, count - 1), count - 1)
  /\ ShrinkIf(count - 1) /\ refused' = {}


Del(x) ==
  /\ x \in Inside
  /\ LET a == Taken(index[x])
         last == array[count - 1]
     IN  Place(IF Rank[last] < Rank[x] THEN HeapifyUp(a, index[x])
                 ELSE HeapifyDown(a, index[x], count - 1), count - 1)
  /\ ShrinkIf(count - 1) /\ refused' = {}

Next == Pop \/ \E x \in Items : Add(x) \/ Del(x)

-----------------------------------------------------------------------------
\* Whatever is added, popped and deleted, no item is smaller than its parent,
\* an item's index is its place, and there is room for all; an add is refused
\* only at the largest size, or when a shrink left no room at all.
HeapOrdered ==
  /\ count <= size /\ Cardinality(Inside) = count /\ None \notin Inside
  /\ \A i \in 1..count - 1 : Rank[array[(i - 1) \div 2]] <= Rank[array[i]]
  /\ \A i \in 0..count - 1 : index[array[i]] = i
  /\ refused # {} => size = MaxSize \/ cut
=============================================================================
