----------------------------- MODULE SpscQueue -----------------------------
(***************************************************************************)
(* The intrusive single-producer single-consumer queue of                  *)
(* lib/type/type_atom_queue.c: a sentinel first_item, a pointer last_next  *)
(* to the next field a push has to fill, and a count.  The memory pools    *)
(* and the event threads hand items to one another through it.             *)
(*                                                                         *)
(* Every atomic access of the two functions is a step.  Items are reused:  *)
(* one that was popped may be pushed again, its next field still set.      *)
(***************************************************************************)
EXTENDS Naturals, Sequences

CONSTANTS Items,        \* the items (spsc_atom_queue_item_t) there are
          MaxPushes     \* bound: how many pushes the producer makes

Null == "null"
Sentinel == "first_item"            \* head->first_item

\* Assumed of the constants.
ItemsAssumption == Items \cap {Null, Sentinel} = {} /\ MaxPushes \in Nat

VARIABLES
  next,                 \* the next field of the sentinel and of each item
  last,                 \* the owner of the field last_next points to
  count,                \* head->count
  ppc, item, prev,      \* the push: where it is, its item, its prev_next
  cpc, it, n, succ,     \* the pop: where it is, its it, n and next
  pushed, popped,       \* history: items whose push began, items returned
  raced                 \* history: a push found the queue empty while the
                        \* pop of its last item had yet to clear first_item

pushVars == <<ppc, item, prev, pushed>>
popVars == <<cpc, it, n, succ, popped>>
vars == <<next, last, count, pushVars, popVars, raced>>

\* declare_spsc_atom_queue's init: all zero, then last_next on the sentinel.
Init ==
  /\ next = [x \in Items \cup {Sentinel} |-> Null]
  /\ last = Sentinel /\ count = 0
  /\ ppc = "idle" /\ item \in Items /\ prev = Sentinel /\ pushed = <<>>
  /\ cpc = "idle" /\ it = Null /\ n = 0 /\ succ = Null /\ popped = <<>>
  /\ raced = FALSE

\* The items in the hands of a push, of the queue or of a pop.
InQueue == {pushed[k] : k \in (Len(popped) + 1)..Len(pushed)}

-----------------------------------------------------------------------------
(* type_spsc_atom_queue_push *)

PushCount_NoInit(x) ==          \* mutant: last_next is left where it was
  /\ ppc = "idle" /\ ppc' = "clear"
  /\ Len(pushed) < MaxPushes /\ x \notin InQueue
  /\ item' = x /\ pushed' = Append(pushed, x)
  /\ count' = count + 1
  /\ raced' = (raced \/ (count = 0 /\ cpc = "store"))
  /\ UNCHANGED <<next, last, prev, popVars>>

\* count++; a push into an empty queue goes on to reset last_next.
PushCount(x) ==
  /\ ppc = "idle"
  /\ ppc' = IF count = 0 THEN "init" ELSE "clear"
  /\ Len(pushed) < MaxPushes /\ x \notin InQueue
  /\ item' = x /\ pushed' = Append(pushed, x)
  /\ count' = count + 1
  /\ raced' = (raced \/ (count = 0 /\ cpc = "store"))
  /\ UNCHANGED <<next, last, prev, popVars>>

\* type_spsc_atom_queue_init
PushInit ==
  /\ ppc = "init" /\ ppc' = "clear"
  /\ last' = Sentinel
  /\ UNCHANGED <<next, count, item, prev, pushed, popVars, raced>>

PushClear_Stale ==              \* mutant: the old next is not cleared
  /\ ppc = "clear" /\ ppc' = "xchg"
  /\ UNCHANGED <<next, last, count, item, prev, pushed, popVars, raced>>

PushClear ==
  /\ ppc = "clear" /\ ppc' = "xchg"
  /\ next' = [next EXCEPT ![item] = Null]
  /\ UNCHANGED <<last, count, item, prev, pushed, popVars, raced>>

PushExchange ==
  /\ ppc = "xchg" /\ ppc' = "link"
  /\ prev' = last /\ last' = item
  /\ UNCHANGED <<next, count, item, pushed, popVars, raced>>

PushLink_Sentinel ==            \* mutant: always at the head
  /\ ppc = "link" /\ ppc' = "idle"
  /\ next' = [next EXCEPT ![Sentinel] = item]
  /\ UNCHANGED <<last, count, item, prev, pushed, popVars, raced>>

\* The item becomes visible to the consumer.
PushLink ==
  /\ ppc = "link" /\ ppc' = "idle"
  /\ next' = [next EXCEPT ![prev] = item]
  /\ UNCHANGED <<last, count, item, prev, pushed, popVars, raced>>

Pushing == PushInit \/ PushClear \/ PushExchange \/ PushLink

-----------------------------------------------------------------------------
(* type_spsc_atom_queue_pop *)

PopFirst_NoCheck ==             \* mutant: an empty queue is popped too
  /\ cpc = "idle"
  /\ it' = next[Sentinel] /\ succ' = Null
  /\ cpc' = "count"
  /\ UNCHANGED <<next, last, count, n, popped, pushVars, raced>>

\* The load of first_item.next; an empty queue returns NULL at once.
PopFirst ==
  /\ cpc = "idle"
  /\ next[Sentinel] # Null
  /\ it' = next[Sentinel] /\ succ' = Null
  /\ cpc' = "count"
  /\ UNCHANGED <<next, last, count, n, popped, pushVars, raced>>

\* --count; only an item that has a successor waits for it.
PopCount ==
  /\ cpc = "count"
  /\ count' = count - 1 /\ n' = count - 1
  /\ cpc' = IF n' > 0 THEN "spin" ELSE "store"
  /\ UNCHANGED <<next, last, it, succ, popped, pushVars, raced>>

\* The producer has counted the successor but may not have linked it yet.
PopSpin ==
  /\ cpc = "spin" /\ next[it] # Null
  /\ succ' = next[it]
  /\ cpc' = "store"
  /\ UNCHANGED <<next, last, count, it, n, popped, pushVars, raced>>

\* The sentinel takes the successor, NULL after the last item.
PopStore ==
  /\ cpc = "store" /\ cpc' = "idle"
  /\ next' = [next EXCEPT ![Sentinel] = succ]
  /\ popped' = Append(popped, it)
  /\ UNCHANGED <<last, count, it, n, succ, pushVars, raced>>

Popping == PopFirst \/ PopCount \/ PopSpin \/ PopStore

-----------------------------------------------------------------------------
Next == (\E x \in Items : PushCount(x)) \/ Pushing \/ Popping

Spec == Init /\ [][Next]_vars

\* A push and a pop that have begun run to their end.
FairSpec == Spec /\ WF_vars(Pushing) /\ WF_vars(PopCount \/ PopSpin \/ PopStore)

-----------------------------------------------------------------------------
Links == Items \cup {Null}

TypeOK ==
  /\ next \in [Items \cup {Sentinel} -> Links]
  /\ last \in Items \cup {Sentinel}
  /\ count \in 0..MaxPushes
  /\ ppc \in {"idle", "init", "clear", "xchg", "link"} /\ item \in Items
  /\ prev \in Items \cup {Sentinel}
  /\ cpc \in {"idle", "count", "spin", "store"}
  /\ it \in Links /\ n \in 0..MaxPushes /\ succ \in Links
  /\ pushed \in Seq(Items) /\ popped \in Seq(Items) /\ raced \in BOOLEAN

\* Items come out in the order they went in and none comes out twice, also
\* when an item is reused and whatever the race below does.
PoppedInOrder ==
  /\ Len(popped) <= Len(pushed)
  /\ \A k \in 1..Len(popped) : popped[k] = pushed[k]

\* Between calls, an item the count promises is there to be popped: nothing
\* is lost as long as no push meets a pop of the last item half way.
NothingLostUnlessRaced ==
  ppc = "idle" /\ cpc = "idle" /\ ~raced
    => (count > 0 <=> next[Sentinel] # Null)

\* The consumer's wait for a successor ends: the successor it waits for is
\* one that a push has counted and goes on to link behind this very item.
SpinEnds == cpc = "spin" ~> cpc = "store"

\* The same without the exception.  docs/type/atom_queue.md says the plain
\* store of the sentinel has been verified for a single consumer.
NothingLost ==
  ppc = "idle" /\ cpc = "idle" => (count > 0 <=> next[Sentinel] # Null)
=============================================================================
