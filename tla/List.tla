-------------------------------- MODULE List --------------------------------
(***************************************************************************)
(* lib/type/type_list.c: a singly linked list that keeps the address of    *)
(* the last next pointer, the head's first while it is empty.  The list    *)
(* ends in __list_end; an item outside a list has a null next.             *)
(***************************************************************************)
EXTENDS Naturals, SequencesExt

CONSTANTS Items, None

Root == "head"          \* the cell whose next is head->first
End == "end"            \* __list_end

VARIABLES
  next, lastNext, count,
  order                 \* history: what the list should hold

vars == <<next, lastNext, count, order>>

Init ==                 \* type_list_init
  /\ next = [c \in Items \cup {Root} |-> IF c = Root THEN End ELSE None]
  /\ lastNext = Root /\ count = 0 /\ order = <<>>

Linked(c, x) == [next EXCEPT ![x] = next[c], ![c] = x]

\* type_list_add, into the next of a cell: head, lastNext or another item's.
AddAt(c, x, place) ==
  /\ next[x] = None /\ next' = Linked(c, x)
  /\ lastNext' = IF c = lastNext THEN x ELSE lastNext
  /\ count' = count + 1 /\ order' = InsertAt(order, place, x)

AddHead(x) == AddAt(Root, x, 1)
AddTail(x) == AddAt(lastNext, x, Len(order) + 1)
AddAfter(i, x) == AddAt(order[i], x, i + 1)

\* The cell before x, or the last one if x is not in the list.
Previous(x) ==
  LET walk[c \in Items \cup {Root}] == IF next[c] \in {End, x} THEN c ELSE walk[next[c]]
  IN  walk[Root]

Unlinked(c, x) == [next EXCEPT ![c] = next[x], ![x] = None]

Del_Tail(x) ==          \* mutant: the tail is not moved
  LET c == Previous(x)
  IN  /\ next[c] = x /\ next' = Unlinked(c, x) /\ UNCHANGED lastNext
      /\ count' = count - 1 /\ order' = Remove(order, x)

Del(x) ==               \* type_list_del
  LET c == Previous(x)
  IN  /\ next[c] = x /\ next' = Unlinked(c, x)
      /\ lastNext' = IF next[x] = End THEN c ELSE lastNext
      /\ count' = count - 1 /\ order' = Remove(order, x)

Pop ==                  \* type_list_pop
  LET x == next[Root]
  IN  /\ x # End /\ next' = Unlinked(Root, x)
      /\ lastNext' = IF next[x] = End THEN Root ELSE lastNext
      /\ count' = count - 1 /\ order' = Tail(order)

Next ==
  \/ Pop
  \/ \E x \in Items :
       \/ AddHead(x) \/ AddTail(x) \/ Del(x)
       \/ \E i \in 1..Len(order) : order[i] # x /\ AddAfter(i, x)

-----------------------------------------------------------------------------
\* The items are linked in the order of the calls, the last next pointer is
\* that of the last one, and the count is theirs.
ListChained ==
  /\ count = Len(order)
  /\ next[Root] = IF order = <<>> THEN End ELSE order[1]
  /\ \A i \in 1..Len(order) : next[order[i]] = IF i = Len(order) THEN End ELSE order[i + 1]
  /\ lastNext = IF order = <<>> THEN Root ELSE order[Len(order)]
=============================================================================
