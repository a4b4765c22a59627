------------------------------ MODULE SlabPool ------------------------------
(***************************************************************************)
(* lib/mp/mp_slab.c for one memory type: every thread has a pool of nodes  *)
(* of some sizes, with a free list for each (its slots); nodes put back by *)
(* other threads come home through queues, as in FixedPool.                *)
(***************************************************************************)
EXTENDS Integers, Sequences, FiniteSets

CONSTANTS Threads, None,
          Slots,        \* numbers of the sizes
          Count,        \* slab_node_cnt, nodes of each in a pool
          Threshold     \* MP_SLAB_RECYCLE_THRESHOLD

\* Assumed of the constants.
SlabAssumption == Count \in Nat /\ Threshold \in Nat

VARIABLES
  pools,                \* threads with a pool; its tid is the thread
  made,                 \* nodes that have been supplied
  freeLists,            \* free_lists, of each thread and slot
  local, remote,        \* recycle.local_aq and .remote_aq
  out,                  \* what users have
  move,                 \* the background thread
  refused               \* history: the last request that got nothing

vars == <<pools, made, freeLists, local, remote, out, move, refused>>

Resting == [todo |-> {}, cur |-> None, hand |-> <<>>]

Init ==
  /\ pools = {} /\ made = {}
  /\ freeLists = [t \in Threads |-> [k \in Slots |-> <<>>]]
  /\ local = [t \in Threads |-> <<>>] /\ remote = [t \in Threads |-> <<>>]
  /\ out = {} /\ move = Resting /\ refused = <<>>

InQueue(q) == {q[i] : i \in 1..Len(q)}

-----------------------------------------------------------------------------
(* _slab_mp_size_2_slot, for 11 slots of 8, 16, ... 4096 and 9216 bytes *)

SlotSizes == <<8, 16, 32, 64, 128, 256, 512, 1024, 2048, 4096, 9216>>
Aligned8(n) == ((n + 7) \div 8) * 8

\* 29 - clz(v | 1) is the exponent of the power of two at or below v, less 2.
SizeSlot(size) ==
  LET v == Aligned8(size)
  IN  IF v <= 8 THEN 0
      ELSE (CHOOSE k \in 3..31 : 2^k <= v /\ v < 2 * 2^k) - 2

-----------------------------------------------------------------------------
(* _mp_slab_node_get *)

\* _mp_slab_supply: each node is added to the head.
Supplied(t) == [k \in Slots |-> [i \in 1..Count |-> <<t, k, Count + 1 - i>>]]

PopFree(t, lists, k) ==
  IF lists[k] = <<>>
  THEN /\ freeLists' = [freeLists EXCEPT ![t] = lists]
       /\ refused' = <<t, k>> /\ UNCHANGED out
  ELSE /\ freeLists' = [freeLists EXCEPT ![t] = [lists EXCEPT ![k] = Tail(@)]]
       /\ out' = out \cup {lists[k][1]} /\ refused' = <<>>

\* _mp_slab_node_get_fast.
GetFast(t, k) ==
  /\ t \in pools /\ freeLists[t][k] # <<>>
  /\ PopFree(t, freeLists[t], k)
  /\ UNCHANGED <<pools, made, local, remote, move>>

\* The background thread holds the lock of the table of queues.
CanJoin(t) == t \in pools \/ move = Resting

\* _slab_mp_find_or_create makes a pool and supplies it;
GetCreate(t, k) ==
  /\ t \notin pools /\ CanJoin(t)
  /\ pools' = pools \cup {t}
  /\ made' = made \cup UNION {InQueue(Supplied(t)[j]) : j \in Slots}
  /\ PopFree(t, Supplied(t), k)
  /\ UNCHANGED <<local, remote, move>>

Taken_Batch(q, k) ==            \* mutant: it stops after a batch, whatever was found
  IF Len(q) < Threshold THEN Len(q) ELSE Threshold

\* what is taken back at once is at least a batch, and goes on until a node of
\* the slot has come.
Taken(q, k) ==
  LET enough == {n \in 1..Len(q) : n >= Threshold /\ \E i \in 1..n : q[i][2] = k}
  IN  IF enough = {} THEN Len(q) ELSE CHOOSE n \in enough : \A m \in enough : n <= m

\* Each is added to the head of the list of its slot.
Recycled(lists, q, n) ==
  LET after[i \in 0..n] ==
        IF i = 0 THEN lists
        ELSE [after[i - 1] EXCEPT ![q[i][2]] = <<q[i]>> \o @]
  IN  after[n]

GetSlow(t, k) ==
  /\ t \in pools /\ freeLists[t][k] = <<>>
  /\ LET n == Taken(local[t], k)
     IN  /\ PopFree(t, Recycled(freeLists[t], local[t], n), k)
         /\ local' = [local EXCEPT ![t] = SubSeq(@, n + 1, Len(@))]
  /\ UNCHANGED <<pools, made, remote, move>>

-----------------------------------------------------------------------------
Put_Own(t, x) ==                \* mutant: whose node it is is not looked at
  /\ x \in out /\ CanJoin(t)
  /\ out' = out \ {x} /\ pools' = pools \cup {t}
  /\ freeLists' = [freeLists EXCEPT ![t][x[2]] = <<x>> \o @]
  /\ UNCHANGED <<made, local, remote, move, refused>>

\* _mp_slab_node_put: a pool that is made here is not supplied.
Put(t, x) ==
  /\ x \in out /\ CanJoin(t)
  /\ out' = out \ {x} /\ pools' = pools \cup {t}
  /\ IF x[1] = t
     THEN freeLists' = [freeLists EXCEPT ![t][x[2]] = <<x>> \o @] /\ UNCHANGED remote
     ELSE remote' = [remote EXCEPT ![t] = Append(@, x)] /\ UNCHANGED freeLists
  /\ UNCHANGED <<made, local, move, refused>>

-----------------------------------------------------------------------------
(* _slab_mp_recycle_work_func: each queue in turn until it is empty *)

Others == <<pools, made, freeLists, out, refused>>

MoveNext ==
  /\ move.hand = <<>> /\ (move.cur # None => remote[move.cur] = <<>>)
  /\ \/ move.cur = None /\ pools # {}
        /\ \E t \in pools : move' = [move EXCEPT !.cur = t, !.todo = pools \ {t}]
     \/ move.cur # None /\ move.todo = {} /\ move' = Resting
     \/ \E t \in move.todo : move' = [move EXCEPT !.cur = t, !.todo = @ \ {t}]
  /\ UNCHANGED <<Others, local, remote>>

MovePop ==
  /\ move.cur # None /\ move.hand = <<>> /\ remote[move.cur] # <<>>
  /\ move' = [move EXCEPT !.hand = remote[move.cur][1]]
  /\ remote' = [remote EXCEPT ![move.cur] = Tail(@)]
  /\ UNCHANGED <<Others, local>>

MovePush ==
  /\ move.hand # <<>> /\ move' = [move EXCEPT !.hand = <<>>]
  /\ local' = [local EXCEPT ![move.hand[1]] = Append(@, move.hand)]
  /\ UNCHANGED <<Others, remote>>

Move == MoveNext \/ MovePop \/ MovePush

Next ==
  \/ \E t \in Threads, k \in Slots : GetFast(t, k) \/ GetCreate(t, k) \/ GetSlow(t, k)
  \/ \E t \in Threads, x \in out : Put(t, x)
  \/ Move

Spec == Init /\ [][Next]_vars

-----------------------------------------------------------------------------
\* Every node that was supplied is at one place, once, and on lists of its own
\* thread and size alone.
NodesHome ==
  LET lists == Threads \X Slots
      OnList(x) == {l \in lists : x \in InQueue(freeLists[l[1]][l[2]])}
      places(x) == Cardinality(OnList(x))
                   + Cardinality({t \in Threads : x \in InQueue(local[t])})
                   + Cardinality({t \in Threads : x \in InQueue(remote[t])})
                   + Cardinality({x} \cap out) + Cardinality({x} \cap {move.hand})
  IN  /\ \A x \in made : places(x) = 1
      /\ \A x \in made : OnList(x) \subseteq {<<x[1], x[2]>>}
      /\ \A t \in Threads : \A x \in InQueue(local[t]) : x[1] = t

\* A get is refused only when its thread has no node of the size, neither free
\* nor in what has come back.
RefusedIfNone ==
  [][\A t \in Threads, k \in Slots :
       refused' = <<t, k>> /\ refused # refused' =>
         \A x \in InQueue(freeLists[t][k]) \cup InQueue(local[t]) : x[2] # k]_vars

\* The node that a size is served with is large enough.
SlotLargeEnough ==
  \A size \in 0..9216 : SizeSlot(size) < 11 => SlotSizes[SizeSlot(size) + 1] >= size
=============================================================================
